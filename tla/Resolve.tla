------------------------------ MODULE Resolve -------------------------------
(***************************************************************************)
(* One SPFile or SPFolder of rust/lib.rs with the background task that     *)
(* fetches its properties, and the application's calls that need them:     *)
(* resolve, download, ls and the like take the task's handle out of the    *)
(* object and wait for it, then look for the object's path.                *)
(***************************************************************************)
EXTENDS ResolveConstants

VARIABLES
    object,         \* its kind, whether the application keeps it, whether
                    \* resolve_task is Some, and whether the path is known
    task,           \* where the background task is
    abort,          \* abort() has been called on it
    merged,         \* responses merged into the properties
    call,           \* each caller's call
    cancels

vars == <<object, task, abort, merged, call, cancels>>
-----------------------------------------------------------------------------
\* At the await of a request, past it with the response in hand, or finished.
Requests == {"file", "item"}
Arrived(request) == IF request = "file" THEN "file_in" ELSE "item_in"
Finished == {"ok", "failed", "aborted"}
Tasks == {"none", "file", "file_in", "item", "item_in"} \cup Finished

IsFolder(kind)   == kind \in {"folder_ref", "folder_item", "folder_made"}
HasTask(kind)    == kind \notin {"file_ls", "folder_made"}
PathKnown(kind)  == kind \notin {"file_id", "file_item", "folder_item"}
\* list_item_url: the file is addressed by path or id.
ReadsItem(kind)  == kind \in {"file_path", "file_id"}

EndedWell == task \in {"ok", "aborted"}       \* mutant: a failed request never ends the task
TaskEnded == task \in Finished

\* What a finished task has merged.
Everything(kind) == IF ReadsItem(kind) THEN {"file", "item"} ELSE {"file"}

NoCall == [st |-> "idle", joined |-> FALSE, excused |-> FALSE, used |-> 0]

NewObject(kind) ==
    [kind |-> kind, alive |-> TRUE, held |-> HasTask(kind), path |-> PathKnown(kind)]

NewTask(kind) == IF HasTask(kind) THEN "file" ELSE "none"

Init ==
    /\ \E kind \in Kinds : object = NewObject(kind) /\ task = NewTask(kind)
    /\ abort = FALSE /\ merged = {}
    /\ call = [c \in Callers |-> NoCall]
    /\ cancels = 0
-----------------------------------------------------------------------------
(* The background task.  It takes the GIL to merge a response, and nothing  *)
(* stops it between the end of an await and the beginning of the next.      *)

\* get_json returns.  A task that is to be aborted is not polled for it.
Answered(request) ==
    /\ task = request /\ ~abort
    /\ task' = Arrived(request)
    /\ UNCHANGED <<object, abort, merged, call, cancels>>

\* Both answers name ServerRelativeUrl.  A file's path is one of its properties;
\* a folder's is returned, for the caller that joins the task to store.
FileMerged ==
    /\ task = "file_in"
    /\ merged' = merged \cup {"file"}
    /\ task' = IF ReadsItem(object.kind) THEN "item" ELSE "ok"
    /\ object' = [object EXCEPT !.path = @ \/ ~IsFolder(object.kind)]
    /\ UNCHANGED <<abort, call, cancels>>

\* ListItemAllFields is merged.
ItemMerged ==
    /\ task = "item_in"
    /\ merged' = merged \cup {"item"}
    /\ task' = "ok"
    /\ UNCHANGED <<object, abort, call, cancels>>

\* Either request fails, and the task with it.
RequestFails ==
    /\ task \in Requests /\ ~abort
    /\ task' = "failed"
    /\ UNCHANGED <<object, abort, merged, call, cancels>>

\* The runtime drops an aborted task at an await.
Stops ==
    /\ task \in Requests /\ abort
    /\ task' = "aborted"
    /\ UNCHANGED <<object, abort, merged, call, cancels>>
-----------------------------------------------------------------------------
(* resolve_file, resolve_folder. *)

Busy(c) == call[c].st = "waiting"

TakesHandle == [object EXCEPT !.held = FALSE]

\* Is there a reason, at this moment, for a path not to be known?
Excused ==
    \/ \E c \in Callers : Busy(c)
    \/ cancels > 0 \/ task = "failed" \/ ~HasTask(object.kind)

\* The call waits for the handle it takes; without one, the path decides.
Called(c) ==
    [st |-> IF object.held THEN "waiting" ELSE IF object.path THEN "ok" ELSE "no_path",
     joined |-> FALSE, excused |-> Excused, used |-> call[c].used + 1]

Resolve(c) ==
    /\ object.alive /\ call[c].st = "idle" /\ call[c].used < MaxCalls
    /\ call' = [call EXCEPT ![c] = Called(c)]
    /\ object' = TakesHandle
    /\ UNCHANGED <<task, abort, merged, cancels>>

NotStored == object                           \* mutant: the resolved path is dropped
Stored    == [object EXCEPT !.path = TRUE]

RawResult(path)    == task                    \* mutant: the task's result, not unwrapped
IgnoresError(path) == IF path THEN "ok" ELSE "no_path"  \* mutant: one `?` for two
TakesAny(path)     == "ok"                    \* mutant: neither is looked at
JoinResult(path) ==
    IF task = "failed" THEN "task_error" ELSE IF path THEN "ok" ELSE "no_path"

\* The task has ended: its error is the call's, its path the folder's.
Join(c) ==
    /\ Busy(c) /\ TaskEnded
    /\ object' = IF task = "ok" /\ IsFolder(object.kind) THEN Stored ELSE object
    /\ call' = [call EXCEPT ![c].st = JoinResult(object'.path), ![c].joined = TRUE]
    /\ UNCHANGED <<task, abort, merged, cancels>>

Over(c) == [NoCall EXCEPT !.used = call[c].used]

\* Cancelling the call drops the handle, which detaches the task.
Cancel(c) ==
    /\ Busy(c) /\ cancels < MaxCancels
    /\ cancels' = cancels + 1
    /\ call' = [call EXCEPT ![c] = Over(c)]
    /\ UNCHANGED <<object, task, abort, merged>>

\* The application has seen the result and may call again.
Return(c) ==
    /\ call[c].st \in {"ok", "no_path", "task_error"}
    /\ call' = [call EXCEPT ![c] = Over(c)]
    /\ UNCHANGED <<object, task, abort, merged, cancels>>

KeepsRunning(held, where) == FALSE            \* mutant: no Drop
\* drop() aborts the task whose handle is still there, unless it has finished.
Aborts(held, where) == held /\ where \notin Finished

\* The last reference goes; a call holds one.  held stays as Drop has found it.
Drop ==
    /\ object.alive /\ \A c \in Callers : call[c].st = "idle"
    /\ object' = [object EXCEPT !.alive = FALSE]
    /\ abort' = Aborts(object.held, task)
    /\ UNCHANGED <<task, merged, call, cancels>>
-----------------------------------------------------------------------------
Background ==
    \/ \E request \in Requests : Answered(request)
    \/ FileMerged \/ ItemMerged \/ RequestFails \/ Stops

Next ==
    \/ Background \/ Drop
    \/ \E c \in Callers : Resolve(c) \/ Join(c) \/ Cancel(c) \/ Return(c)

\* Requests are answered or time out, and the GIL is released; a future whose
\* task has ended is polled.
Spec ==
    /\ Init /\ [][Next]_vars
    /\ WF_vars(Background) /\ \A c \in Callers : WF_vars(Join(c))
-----------------------------------------------------------------------------
(* Properties. *)

TypeOK ==
    /\ object \in [kind : Kinds, alive : BOOLEAN, held : BOOLEAN, path : BOOLEAN]
    /\ task \in Tasks /\ abort \in BOOLEAN /\ merged \subseteq Requests
    /\ call \in [Callers -> [st : {"idle", "waiting", "ok", "no_path", "task_error"},
                             joined : BOOLEAN, excused : BOOLEAN, used : 0..MaxCalls]]
    /\ cancels \in 0..MaxCancels

\* The call that waited for the task succeeds only with every property merged.
JoinerSeesEverything ==
    \A c \in Callers :
        call[c].st = "ok" /\ call[c].joined => merged = Everything(object.kind)

\* "even after resolving": a path is missing only to a call that came while
\* another was waiting, after a cancelled one, after a failure, or on an object
\* that never had a task.
MissingPathIsExplained ==
    \A c \in Callers : call[c].st = "no_path" => call[c].excused

\* What has been merged, or is about to be.
Received == merged \cup {request \in Requests : task = Arrived(request)}

\* Once the object is gone, a task nobody has waited for receives nothing more:
\* it may still merge the response it had in hand when abort() was called, but
\* no other one, wherever the abort found it.
NothingReceivedAfterDrop == [][~object.alive /\ object.held => UNCHANGED Received]_vars

\* A call that waits comes back.
CallsEnd == \A c \in Callers : Busy(c) ~> ~Busy(c)

\* docs/parallel_eager.md:38-39: a call that needs the refined data waits for
\* the background task, whichever call it is.
EveryCallWaits ==
    \A c \in Callers :
        call[c].st = "ok" /\ HasTask(object.kind) => TaskEnded
=============================================================================
