----------------------------- MODULE DeleteTree -----------------------------
(***************************************************************************)
(* delete_folder_path of rust/lib.rs: delete one empty folder, or walk its *)
(* subtree, delete the files on the way down and the folders on the way    *)
(* back.  Others change the same tree.  The server deletes a folder with   *)
(* everything in it, which is why the code looks before it deletes.        *)
(***************************************************************************)
EXTENDS DeleteTreeConstants, Sequences, SequencesExt, FiniteSets

VARIABLES
    there,           \* the server: the files and folders that exist
    op,              \* the arguments: recursive, ignore_missing
    pc, reason,      \* where the call is, and how it failed
    pending,         \* paths to walk, the last one first
    current,         \* the folder being listed
    files, children, \* its listing; None until the answer is there
    folders,         \* folder_url of every folder walked
    adds, removals, faults,
    swept            \* history: nodes a DELETE of a folder took with it

client == <<op, pc, reason, pending, current, files, children, folders>>
bounds == <<adds, removals, faults>>
vars   == <<there, client, bounds, swept>>
-----------------------------------------------------------------------------
None == {Root}        \* no listing holds Root

ChildrenOf(f) == {x \in there \cap Nodes : Parent[x] = f}

\* x and everything below it.
Below(x) == {y \in there : x \in Path(y)}

\* Sets of nodes that hold the folder of each of their members.
Trees == {t \in SUBSET Nodes : \A x \in t : Parent[x] \in t \cup {Root}}

\* The call before its first step.
Fresh ==
    /\ pc = "look" /\ reason = "none"
    /\ pending = <<>> /\ current = Root /\ files = None /\ children = None
    /\ folders = <<>>
    /\ adds = 0 /\ removals = 0 /\ faults = 0 /\ swept = {}

Worlds    == {{}} \cup {t \cup {Root} : t \in Trees}
Arguments == [recursive : BOOLEAN, ignore_missing : BOOLEAN]

Init == there \in Worlds /\ op \in Arguments /\ Fresh
-----------------------------------------------------------------------------
Fail(why)  == pc' = "failed" /\ reason' = why

\* The GET of the folder: its ItemCount decides for a single deletion.
Look ==
    /\ pc = "look"
    /\ CASE Root \notin there ->
              /\ IF op.ignore_missing THEN pc' = "done" /\ UNCHANGED reason ELSE Fail("missing")
              /\ UNCHANGED pending
         [] Root \in there /\ op.recursive ->
              pc' = "walk" /\ pending' = <<Root>> /\ UNCHANGED reason
         [] Root \in there /\ ~op.recursive ->
              /\ IF ChildrenOf(Root) = {} THEN pc' = "delete_one" /\ UNCHANGED reason
                                          ELSE Fail("not_empty")
              /\ UNCHANGED pending
    /\ UNCHANGED <<there, op, current, files, children, folders, bounds, swept>>

\* DELETE of a folder, with everything that is in it by now.
DeleteFolder(f) ==
    /\ there' = there \ Below(f)
    /\ swept' = swept \cup (Below(f) \ {f})

DeleteOne ==
    /\ pc = "delete_one"
    /\ IF Root \in there
       THEN DeleteFolder(Root) /\ pc' = "done" /\ UNCHANGED reason
       ELSE Fail("missing") /\ UNCHANGED <<there, swept>>
    /\ UNCHANGED <<op, pending, current, files, children, folders, bounds>>

\* The walk: take a path, ask for its files and its folders at the same time.
Walk ==
    /\ pc = "walk" /\ pending # <<>>
    /\ current' = Last(pending) /\ pending' = Front(pending)
    /\ files' = None /\ children' = None
    /\ pc' = "list"
    /\ UNCHANGED <<there, op, reason, folders, bounds, swept>>

ListFiles ==
    /\ pc = "list" /\ files = None
    /\ IF current \in there THEN files' = ChildrenOf(current) \cap Files /\ UNCHANGED <<pc, reason>>
                            ELSE Fail("missing") /\ UNCHANGED files
    /\ UNCHANGED <<there, op, pending, current, children, folders, bounds, swept>>

ListFolders ==
    /\ pc = "list" /\ children = None
    /\ IF current \in there THEN children' = ChildrenOf(current) \cap Folders /\ UNCHANGED <<pc, reason>>
                            ELSE Fail("missing") /\ UNCHANGED children
    /\ UNCHANGED <<there, op, pending, current, files, folders, bounds, swept>>

Listed == pc = "list" /\ files # None /\ children # None

\* The files go one by one.
DeleteFile(x) ==
    /\ Listed /\ x \in files
    /\ IF x \in there THEN files' = files \ {x} /\ there' = there \ {x} /\ UNCHANGED <<pc, reason>>
                      ELSE Fail("missing") /\ UNCHANGED <<files, there>>
    /\ UNCHANGED <<op, pending, current, children, folders, bounds, swept>>

ParentsFirst(walked) == walked                  \* mutant: without `rev`
DeletionOrder(walked) == Reverse(walked)

FilesOnly(s) == s                               \* mutant: children are not walked
Push(s)      == s \o SetToSeq(children)

\* Then its folders are pushed and its own URL is kept for later.
Descend ==
    /\ Listed /\ files = {}
    /\ pending' = Push(pending)
    /\ folders' = Append(folders, current)
    /\ pc' = "walk"
    /\ UNCHANGED <<there, op, reason, current, files, children, bounds, swept>>

WalkedAll ==
    /\ pc = "walk" /\ pending = <<>>
    /\ folders' = DeletionOrder(folders) /\ pc' = "delete"
    /\ UNCHANGED <<there, op, reason, pending, current, files, children, bounds, swept>>

DeleteNext ==
    /\ pc = "delete" /\ folders # <<>>
    /\ IF Head(folders) \in there
       THEN DeleteFolder(Head(folders)) /\ folders' = Tail(folders) /\ UNCHANGED <<pc, reason>>
       ELSE Fail("missing") /\ UNCHANGED <<there, folders, swept>>
    /\ UNCHANGED <<op, pending, current, files, children, bounds>>

Finish ==
    /\ pc = "delete" /\ folders = <<>>
    /\ pc' = "done"
    /\ UNCHANGED <<there, op, reason, pending, current, files, children, folders, bounds, swept>>

\* A request fails for another reason; `?` returns.
Fault ==
    /\ pc \in {"look", "delete_one", "list", "delete"} /\ faults < MaxFaults
    /\ pc = "delete" => folders # <<>>
    /\ Listed => files # {}
    /\ faults' = faults + 1 /\ Fail("fault")
    /\ UNCHANGED <<there, op, pending, current, files, children, folders, adds, removals, swept>>
-----------------------------------------------------------------------------
(* Others. *)

Running == pc \notin {"done", "failed"}

AddNode(x) ==
    /\ Running /\ adds < MaxAdds
    /\ x \notin there /\ Parent[x] \in there
    /\ there' = there \cup {x} /\ adds' = adds + 1
    /\ UNCHANGED <<client, removals, faults, swept>>

RemoveNode(x) ==
    /\ Running /\ removals < MaxRemovals /\ x \in there
    /\ there' = there \ Below(x) /\ removals' = removals + 1
    /\ UNCHANGED <<client, adds, faults, swept>>

OthersChange == (\E x \in Nodes : AddNode(x)) \/ \E x \in Nodes \cup {Root} : RemoveNode(x)
-----------------------------------------------------------------------------
Progress ==
    \/ Look \/ DeleteOne \/ Walk \/ ListFiles \/ ListFolders \/ Descend
    \/ WalkedAll \/ DeleteNext \/ Finish
    \/ \E x \in Files : DeleteFile(x)

Next == Progress \/ Fault \/ OthersChange

\* Requests are answered or time out.
Spec == Init /\ [][Next]_vars /\ WF_vars(Progress)
-----------------------------------------------------------------------------
(* Properties. *)

TypeOK ==
    /\ there \subseteq Nodes \cup {Root} /\ swept \subseteq Nodes
    /\ op \in Arguments
    /\ pc \in {"look", "delete_one", "walk", "list", "delete", "done", "failed"}
    /\ reason \in {"none", "missing", "not_empty", "fault"}
    /\ pending \in Seq(Folders \cup {Root}) /\ folders \in Seq(Folders \cup {Root})
    /\ current \in Folders \cup {Root}
    /\ files = None \/ files \subseteq Files
    /\ children = None \/ children \subseteq Folders
    /\ adds \in 0..MaxAdds /\ removals \in 0..MaxRemovals /\ faults \in 0..MaxFaults

\* Every folder is empty when its DELETE is sent, down to what others add
\* after it was listed: children go before their parents.
OnlyAddedNodesAreSwept == Cardinality(swept) <= adds

\* The folder itself goes with the last DELETE of the call, so that a call that
\* fails on the way can be repeated.
RootGoesLast ==
    [][(Root \in (there \ there') /\ removals' = removals) => (folders' = <<>>)]_vars

\* The call finds something missing only if others have removed what it was
\* about to delete, or the folder was not there to begin with and the caller
\* did not say that it may be (async_sharepoint.pyi:111).
MissingIsExplained ==
    reason = "missing" /\ removals = 0 =>
        Root \notin there /\ folders = <<>> /\ ~op.ignore_missing
=============================================================================
