------------------------------- MODULE Objects -------------------------------
(***************************************************************************)
(* What an application does with the items of rust/lib.rs, from the list   *)
(* that names them to the end of the operation it runs on one: ls makes    *)
(* objects, each with a task that resolves it; a file's download session   *)
(* and a folder's deletion begin with the same wait for that task as       *)
(* resolve() does.  Listing, Resolve, Download and DeleteTree are the      *)
(* parts; one item is followed.                                            *)
(***************************************************************************)
EXTENDS ListingConstants, ResolveConstants, DownloadConstants, DeleteTreeConstants,
        Sequences, FiniteSets

\* Objects are made by the Python client; the Rust client returns rows.
ASSUME PythonAssumption ==
    Apis = {"python"} /\ {"file_ls", "file_item", "folder_ref"} \subseteq Kinds

VARIABLES
    stage,                                                    \* what is under way
    api, arg, place, seen, list_pc, answer, list_faults, changes,
    object, task, abort, merged, call, cancels,
    length, server, session, chunk_call, got, last, overlapped, disorder,
    lost, ended, chunk_faults, chunk_cancels,
    there, op, pc, reason, pending, current, files, children, folders,
    adds, removals, faults, swept

listVars   == <<api, arg, place, seen, list_pc, answer, list_faults, changes>>
itemVars   == <<object, task, abort, merged, call, cancels>>
chunkVars  == <<length, server, session, chunk_call, got, last, overlapped, disorder,
                lost, ended, chunk_faults, chunk_cancels>>
deleteVars == <<there, op, pc, reason, pending, current, files, children, folders,
                adds, removals, faults, swept>>
vars       == <<stage, listVars, itemVars, chunkVars, deleteVars>>

List   == INSTANCE Listing WITH pc <- list_pc, faults <- list_faults
Item   == INSTANCE Resolve
Chunks == INSTANCE Download WITH call <- chunk_call, faults <- chunk_faults, cancels <- chunk_cancels
Tree   == INSTANCE DeleteTree

Worlds == Tree!Worlds
-----------------------------------------------------------------------------
\* Parts that have not been started, or whose future is gone, are at rest.
NoList     == List!Start("python", "omitted", List!Missing)
NoItem     == /\ object = [kind |-> "none", alive |-> FALSE, held |-> FALSE, path |-> FALSE]
              /\ task = "none" /\ abort = FALSE /\ merged = {} /\ cancels = 0
              /\ call = [c \in Callers |-> Item!NoCall]
NoChunks   == length = 0 /\ server = [totals |-> FALSE, short |-> FALSE] /\ Chunks!Fresh
NoDeletion == there = {} /\ op = [recursive |-> FALSE, ignore_missing |-> FALSE] /\ Tree!Fresh

\* The application starts from a list, from an object it makes itself, or from
\* the path of a file or of a folder.
Init ==
    \/ stage = "list" /\ List!Init /\ NoItem /\ NoChunks /\ NoDeletion
    \/ stage = "item" /\ NoList /\ Item!Init /\ NoChunks /\ NoDeletion
    \/ stage = "download" /\ NoList /\ NoItem /\ Chunks!Init /\ NoDeletion
    \/ stage = "delete" /\ NoList /\ NoItem /\ NoChunks /\ Tree!Init
-----------------------------------------------------------------------------
(* The list. *)

\* What the items of an answer become: a row is a file or a folder, with the
\* FileRef that the view asks for, and has a task; the file of the fallback has
\* none.
KindsOf(what) == IF what = "file" THEN {"file_ls"} ELSE {"file_item", "folder_ref"}

Made(kind) ==
    /\ object' = Item!NewObject(kind) /\ task' = Item!NewTask(kind)
    /\ UNCHANGED <<abort, merged, call, cancels>>

\* Before anything is merged: that takes the GIL, which the conversion holds.
Unmerged == {"file", "file_in", "failed"}

\* The object of a row before the one that cannot be converted is dropped with
\* the rest, wherever its task has got to by then.
MadeInVain ==
    \E kind \in {"file_item", "folder_ref"}, where \in Unmerged :
        /\ object' = [Item!NewObject(kind) EXCEPT !.alive = FALSE]
        /\ task' = where /\ abort' = Item!Aborts(object'.held, where)
        /\ UNCHANGED <<merged, call, cancels>>

\* A step of ls; the answer and the conversion of its items are one.
ListProgress ==
    /\ stage = "list" /\ List!Progress
    /\ \/ list_pc' = "ok" /\ answer'.rows > 0 /\ \E kind \in KindsOf(answer'.what) : Made(kind)
       \/ list_pc' = "failed" /\ list_pc = "items" /\ place.odd /\ place.rows > 1 /\ MadeInVain
       \/ ~(list_pc' = "ok" /\ answer'.rows > 0) /\ UNCHANGED itemVars
    /\ UNCHANGED <<stage, chunkVars, deleteVars>>

ListTrouble ==
    /\ stage = "list" /\ (List!Fault \/ List!Change)
    /\ UNCHANGED <<stage, itemVars, chunkVars, deleteVars>>

\* The application has the list, and keeps one of its items.
Keep ==
    /\ stage = "list" /\ ~List!Running
    /\ stage' = "item"
    /\ api' = "python" /\ arg' = "omitted" /\ place' = List!Missing /\ seen' = {List!Missing}
    /\ list_pc' = "library" /\ answer' = List!Nothing /\ list_faults' = 0 /\ changes' = 0
    /\ UNCHANGED <<itemVars, chunkVars, deleteVars>>
-----------------------------------------------------------------------------
(* The item, and what is begun with it. *)

Others == UNCHANGED <<stage, listVars, chunkVars, deleteVars>>

TaskStep == Item!Background /\ Others
Join(c)  == Item!Join(c) /\ Others

ItemStep ==
    /\ Item!Drop \/ \E c \in Callers : Item!Resolve(c) \/ Item!Cancel(c) \/ Item!Return(c)
    /\ Others

\* A call has the path and goes on with it.  What it begins shares nothing with
\* the item, so that a behaviour follows either the one or the other from here.
GoesOn(c) ==
    /\ stage = "item" /\ call[c].st = "ok"
    /\ object' = [kind |-> "none", alive |-> FALSE, held |-> FALSE, path |-> FALSE]
    /\ task' = "none" /\ abort' = FALSE /\ merged' = {} /\ cancels' = 0
    /\ call' = [d \in Callers |-> Item!NoCall]

\* download_chunks() of the file: __aenter__ was that call.
Enter(c) ==
    /\ ~Item!IsFolder(object.kind) /\ GoesOn(c)
    /\ stage' = "download"
    /\ length' \in Lengths /\ server' \in Chunks!Servers
    /\ UNCHANGED <<session, chunk_call, got, last, overlapped, disorder, lost, ended,
                   chunk_faults, chunk_cancels, listVars, deleteVars>>

\* del_folder() of the folder.  Its task has seen the folder, but others may
\* have changed it since.
DelFolder(c) ==
    /\ Item!IsFolder(object.kind) /\ GoesOn(c)
    /\ stage' = "delete"
    /\ there' \in Worlds /\ op' \in Tree!Arguments
    /\ UNCHANGED <<pc, reason, pending, current, files, children, folders,
                   adds, removals, faults, swept, listVars, chunkVars>>

DownloadOnly == stage = "download" /\ UNCHANGED <<stage, listVars, itemVars, deleteVars>>
DeleteOnly   == stage = "delete" /\ UNCHANGED <<stage, listVars, itemVars, chunkVars>>

Read(r)         == DownloadOnly /\ Chunks!Progress(r)
ReadTrouble     == DownloadOnly /\ \E r \in Readers : Chunks!Fails(r) \/ Chunks!Cancel(r)
DeletionStep    == DeleteOnly /\ Tree!Progress
DeletionTrouble == DeleteOnly /\ (Tree!Fault \/ Tree!OthersChange)

Next ==
    \/ ListProgress \/ ListTrouble \/ Keep
    \/ TaskStep \/ ItemStep
    \/ ReadTrouble \/ DeletionStep \/ DeletionTrouble
    \/ \E c \in Callers : Join(c) \/ Enter(c) \/ DelFolder(c)
    \/ \E r \in Readers : Read(r)

\* Requests are answered or time out, a future whose task has ended is polled,
\* and an application that downloads goes on until it is told to stop.
Fairness ==
    /\ WF_vars(ListProgress) /\ WF_vars(TaskStep) /\ WF_vars(DeletionStep)
    /\ \A c \in Callers : WF_vars(Join(c))
    /\ \A r \in Readers : WF_vars(Read(r))

Spec == Init /\ [][Next]_vars /\ Fairness
-----------------------------------------------------------------------------
(* Properties: those of the parts, wherever the item came from, and how the *)
(* parts follow one another.                                                *)

TypeOK ==
    /\ stage \in {"list", "item", "download", "delete"}
    /\ List!TypeOK /\ Chunks!TypeOK /\ Tree!TypeOK
    /\ NoItem \/ Item!TypeOK

\* ls fails for a reason: see Listing.
ListFailureIsExplained == List!FailureIsExplained

\* The call that waited for the task succeeds only with every property merged,
\* whether it was resolve(), __aenter__ or del_folder(): see Resolve.
JoinerSeesEverything == Item!JoinerSeesEverything

\* A missing path has a reason: see Resolve.
MissingPathIsExplained == Item!MissingPathIsExplained

\* A task nobody has waited for receives nothing once its object is gone, be it
\* that the application dropped it or that ls failed after it was made.
NothingReceivedAfterDrop == Item!NothingReceivedAfterDrop

\* No download and no deletion begins on an item whose path is not known.
BeginsWithPath ==
    [][stage = "item" /\ stage' \in {"download", "delete"} => object.path]_vars

\* The chunks of a session leave no gap: see Download.
NoHole == Chunks!NoHole

\* None comes at the end of the file: see Download.
EndMeansEverything == Chunks!EndMeansEverything

\* A deletion takes nothing with it that it has not seen: see DeleteTree.
OnlyAddedNodesAreSwept == Tree!OnlyAddedNodesAreSwept

\* A deletion that finds something missing has a reason: see DeleteTree.
MissingIsExplained == Tree!MissingIsExplained

\* The folder itself is the last to go: see DeleteTree.
RootGoesLast == Tree!RootGoesLast

\* What has been begun ends: ls, the calls that wait for an item's task, and a
\* deletion, however the tree grows meanwhile.
OperationsEnd ==
    /\ stage = "list" ~> ~(stage = "list" /\ List!Running)
    /\ Item!CallsEnd
    /\ stage = "delete" ~> ~Tree!Running

\* An application that goes on reading is told that the file has ended, if the
\* server names the length (without it the range behind the end is an error),
\* although a late answer to one reader sets the other back.
DownloadEnds == stage = "download" /\ server.totals ~> ended
=============================================================================
