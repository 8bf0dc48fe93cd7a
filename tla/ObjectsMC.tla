------------------------------ MODULE ObjectsMC ------------------------------
(* A tree to delete: r holds d1, d3 and f1; d1 holds d2; d2 holds f2. *)
EXTENDS Objects

CONSTANTS r, d1, d2, d3, f1, f2

TreeParent == [x \in {d1, d2, d3, f1, f2} |-> CASE x = d2 -> d1 [] x = f2 -> d2 [] OTHER -> r]
=============================================================================
