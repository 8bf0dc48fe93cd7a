----------------------------- MODULE VisibleFile -----------------------------
(***************************************************************************)
(* What an upload promises to the readers of its file, whatever requests   *)
(* it takes: the content appears as a whole.  Replacing a file in chunks   *)
(* shows an empty file first.  A file may be uploaded more than once, and  *)
(* others may delete it.                                                   *)
(***************************************************************************)
CONSTANT Files

VARIABLE view        \* what a reader sees of each file

Views == {"absent", "old", "empty", "whole"}

Init == view \in [Files -> {"absent", "old"}]

\* A chunked upload creates the file, or empties it, before its first chunk.
Clear(f) ==
    /\ view[f] \in {"absent", "old", "whole"}
    /\ view' = [view EXCEPT ![f] = "empty"]

\* The whole content appears in one step.
Commit(f) ==
    /\ view[f] \in Views
    /\ view' = [view EXCEPT ![f] = "whole"]

\* Others delete some of the files.
Delete ==
    \E gone \in SUBSET Files :
        view' = [f \in Files |-> IF f \in gone THEN "absent" ELSE view[f]]

Next == Delete \/ \E f \in Files : Clear(f) \/ Commit(f)

Spec == Init /\ [][Next]_view
=============================================================================
