------------------------------ MODULE UploadMC ------------------------------
(* Two uploads, alike in all but their names, of one file or of two. *)
EXTENDS Upload, TLC

CONSTANTS u1, u2, f1, f2

Symmetry == Permutations(Uploads) \cup Permutations(Files)
=============================================================================
