-------------------------- MODULE ListingConstants --------------------------
(* The parameters of Listing. *)
EXTENDS Naturals

CONSTANTS
    Apis,           \* the clients to consider: "python", "rust"
    RowLimit,       \* RowLimit of the view
    MaxRows,        \* bound: children of the path
    MaxListFaults,  \* bound: requests that fail
    MaxChanges      \* bound: changes by others

ASSUME ListingAssumption ==
    /\ Apis \subseteq {"python", "rust"}
    /\ RowLimit \in Nat \ {0} /\ MaxRows \in Nat
    /\ MaxListFaults \in Nat /\ MaxChanges \in Nat
=============================================================================
