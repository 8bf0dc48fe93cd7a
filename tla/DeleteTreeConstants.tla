------------------------ MODULE DeleteTreeConstants -------------------------
(* The parameters of DeleteTree. *)
EXTENDS Naturals, FiniteSets

CONSTANTS
    Folders, Files,  \* that may exist below Root
    Root,            \* the folder to delete
    Parent,          \* [Folders \cup Files -> Folders \cup {Root}]
    MaxAdds,         \* bound: files and folders others add
    MaxRemovals,     \* bound: files and folders others remove
    MaxFaults        \* bound: requests that fail for another reason than 404

Nodes == Folders \cup Files

\* A node and the folders it is in: the least set that holds the node and the
\* folder of each of its members but Root.
Paths ==
    [x \in Nodes \cup {Root} |->
        {y \in Nodes \cup {Root} :
            \A s \in SUBSET (Nodes \cup {Root}) :
                x \in s /\ (\A z \in s \ {Root} : Parent[z] \in s) => y \in s}]

Path(x) == Paths[x]

\* A tree: all nodes are in Root, and there are finitely many.
ASSUME TreeAssumption ==
    /\ Root \notin Nodes /\ Folders \cap Files = {}
    /\ Parent \in [Nodes -> Folders \cup {Root}]
    /\ \A x \in Nodes : Root \in Path(x)
    /\ IsFiniteSet(Nodes)

ASSUME ChangesAssumption == MaxAdds \in Nat /\ MaxRemovals \in Nat /\ MaxFaults \in Nat
=============================================================================
