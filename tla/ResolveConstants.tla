-------------------------- MODULE ResolveConstants --------------------------
(* The parameters of Resolve. *)
EXTENDS Naturals

CONSTANTS
    Callers,        \* futures of the application that use the object
    Kinds,          \* the kinds of object to consider, see AllKinds
    MaxCalls,       \* bound: calls of one future, one after another
    MaxCancels      \* bound: calls the application cancels

\* How an object was made: a file by its path, by its unique id or from a list
\* item, the file ls() answers with, a folder from a list item that names its
\* path or does not, a folder that add_folder or the application made.
AllKinds == {"file_path", "file_id", "file_item", "file_ls",
             "folder_ref", "folder_item", "folder_made"}

ASSUME KindsAssumption == Kinds \subseteq AllKinds

ASSUME CallsAssumption == MaxCalls \in Nat /\ MaxCancels \in Nat
=============================================================================
