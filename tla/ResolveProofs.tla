---------------------------- MODULE ResolveProofs ----------------------------
(***************************************************************************)
(* Theorems about Resolve, for any number of futures, calls and            *)
(* cancellations, and every kind of object.                                *)
(***************************************************************************)
EXTENDS Resolve, TLAPS

Objects == [kind : Kinds, alive : BOOLEAN, held : BOOLEAN, path : BOOLEAN]

Calls == [st : {"idle", "waiting", "ok", "no_path", "task_error"},
          joined : BOOLEAN, excused : BOOLEAN, used : 0..MaxCalls]

\* Where the task is says what has been merged, and whether a file has its path.
TaskInv ==
    /\ task = "none" <=> ~HasTask(object.kind)
    /\ task \in {"file", "file_in"} => merged = {}
    /\ task \in {"item", "item_in"} => merged = {"file"} /\ ReadsItem(object.kind) /\ object.path
    /\ task = "ok" => merged = Everything(object.kind) /\ (IsFolder(object.kind) \/ object.path)

\* A handle is that of a task; the task of an object that is gone with its
\* handle has ended or is to be aborted, and only Drop aborts.
HandleInv ==
    /\ object.held => HasTask(object.kind)
    /\ ~object.alive /\ object.held => abort \/ TaskEnded
    /\ abort \/ task = "aborted" => ~object.alive

\* A call holds a reference, waits for a task that exists, has succeeded by
\* waiting only for one that has, and has the path if it has succeeded at all.
CallOK(c) ==
    /\ call[c].st # "idle" => object.alive
    /\ Busy(c) => HasTask(object.kind)
    /\ call[c].st = "ok" /\ call[c].joined => task = "ok"
    /\ call[c].st = "ok" => object.path
    /\ call[c].st = "no_path" => call[c].excused

CallsInv == \A c \in Callers : CallOK(c)

\* Between the moment the handle is taken and the moment the path is there,
\* somebody waits, or there is a reason why nobody does.
WaitInv ==
    object.alive /\ HasTask(object.kind) /\ ~object.held /\ ~object.path =>
        task = "failed" \/ cancels > 0 \/ \E c \in Callers : Busy(c)

ResolveInv == TypeOK /\ TaskInv /\ HandleInv /\ CallsInv /\ WaitInv
-----------------------------------------------------------------------------
LEMMA TypeParts == TypeOK <=> /\ object \in Objects /\ task \in Tasks
                              /\ abort \in BOOLEAN /\ merged \subseteq Requests
                              /\ call \in [Callers -> Calls] /\ cancels \in 0..MaxCancels
    BY DEF TypeOK, Objects, Calls

LEMMA InitInv == Init => ResolveInv
<1> SUFFICES ASSUME Init PROVE ResolveInv
    OBVIOUS
<1>1. PICK kind \in Kinds : object = NewObject(kind) /\ task = NewTask(kind)
    BY DEF Init
<1>2. /\ object \in Objects /\ object.kind = kind /\ object.held = HasTask(kind)
      /\ object.alive = TRUE
    BY <1>1 DEF NewObject, Objects, HasTask, PathKnown
<1>3. task \in Tasks /\ task \in {"file", "none"} /\ (task = "none" <=> ~HasTask(kind))
    BY <1>1 DEF NewTask, Tasks
<1>4. /\ call \in [Callers -> Calls] /\ cancels \in 0..MaxCancels /\ merged = {} /\ abort = FALSE
      /\ \A c \in Callers : call[c].st = "idle"
    BY CallsAssumption DEF Init, NoCall, Calls
<1>5. TypeOK
    BY <1>2, <1>3, <1>4, TypeParts
<1>6. TaskInv /\ HandleInv
    BY <1>2, <1>3, <1>4 DEF TaskInv, HandleInv
<1>7. CallsInv
    BY <1>4 DEF CallsInv, CallOK, Busy
<1>8. WaitInv
    BY <1>2 DEF WaitInv
<1> QED BY <1>5, <1>6, <1>7, <1>8 DEF ResolveInv
-----------------------------------------------------------------------------
\* The task's own steps: calls are as before, and a path appears at most.
LEMMA BackgroundStep == ResolveInv /\ Background => ResolveInv'
<1> SUFFICES ASSUME ResolveInv, Background PROVE ResolveInv'
    OBVIOUS
<1> USE DEF ResolveInv
<1>0. object \in Objects /\ call \in [Callers -> Calls] /\ UNCHANGED <<abort, call, cancels>>
    BY TypeParts DEF Background, Answered, FileMerged, ItemMerged, RequestFails, Stops
<1>1. /\ object' \in Objects /\ object'.kind = object.kind /\ object'.alive = object.alive
      /\ object'.held = object.held /\ (object.path => object'.path)
    BY <1>0 DEF Objects, Background, Answered, FileMerged, ItemMerged, RequestFails, Stops
<1>2. /\ task \in {"file", "file_in", "item", "item_in"} /\ task \notin Finished
      /\ task' \in Tasks /\ task' \notin {"none", "file"}
      /\ merged' \subseteq Requests
    BY TypeParts DEF Background, Answered, FileMerged, ItemMerged, RequestFails, Stops,
                     Requests, Arrived, Tasks, Finished
<1>3. TypeOK'
    BY <1>0, <1>1, <1>2, TypeParts DEF TypeOK, Objects, Calls
<1>4. TaskInv'
  <2>1. ASSUME NEW request \in Requests, Answered(request) PROVE TaskInv'
      BY <1>1, <1>2, <2>1 DEF Answered, Arrived, Requests, TaskInv
  <2>2. CASE FileMerged
    <3>1. merged' = {"file"} /\ (IsFolder(object.kind) \/ object'.path)
        BY <1>0, <2>2 DEF FileMerged, TaskInv, Objects
    <3>2. ReadsItem(object.kind) => ~IsFolder(object.kind)
        BY DEF ReadsItem, IsFolder
    <3>3. task' = IF ReadsItem(object.kind) THEN "item" ELSE "ok"
        BY <2>2 DEF FileMerged
    <3> QED BY <1>1, <1>2, <3>1, <3>2, <3>3 DEF TaskInv, Everything
  <2>3. CASE ItemMerged
    <3>1. merged' = {"file", "item"} /\ task' = "ok" /\ ReadsItem(object.kind) /\ object'.path
        BY <2>3, <1>1 DEF ItemMerged, TaskInv
    <3> QED BY <1>1, <1>2, <3>1 DEF TaskInv, Everything
  <2>4. CASE RequestFails \/ Stops
      BY <1>1, <1>2, <2>4 DEF RequestFails, Stops, TaskInv
  <2> QED BY <2>1, <2>2, <2>3, <2>4 DEF Background
<1>5. HandleInv'
  <2>1. task' = "aborted" => abort
      BY DEF Background, Answered, FileMerged, ItemMerged, RequestFails, Stops, Arrived
  <2> QED BY <1>0, <1>1, <1>2, <2>1 DEF HandleInv, TaskEnded
<1>6. CallsInv'
    BY <1>0, <1>1, <1>2 DEF CallsInv, CallOK, Busy, Finished
<1>7. WaitInv'
    BY <1>0, <1>1, <1>2 DEF WaitInv, Busy, Finished
<1> QED BY <1>3, <1>4, <1>5, <1>6, <1>7

\* A call begins: it takes the handle, or looks for the path at once.
LEMMA ResolveStep ==
    ASSUME ResolveInv, NEW c \in Callers, Resolve(c)
    PROVE  ResolveInv'
<1> USE DEF ResolveInv
<1> DEFINE st == IF object.held THEN "waiting" ELSE IF object.path THEN "ok" ELSE "no_path"
<1>0. /\ object \in Objects /\ call \in [Callers -> Calls] /\ call[c].st = "idle" /\ object.alive
      /\ UNCHANGED <<task, abort, merged, cancels>>
    BY TypeParts DEF Resolve
<1>1. /\ object' \in Objects /\ object'.kind = object.kind /\ object'.alive = object.alive
      /\ object'.held = FALSE /\ object'.path = object.path
    BY <1>0 DEF Objects, Resolve, TakesHandle
<1>2. Excused \in BOOLEAN
    BY DEF Excused
<1>3. /\ call' \in [Callers -> Calls]
      /\ call'[c] = [st |-> st, joined |-> FALSE, excused |-> Excused, used |-> call[c].used + 1]
      /\ \A d \in Callers \ {c} : call'[d] = call[d]
  <2>1. call' = [call EXCEPT ![c] = Called(c)]
      BY DEF Resolve
  <2>2. call[c].used + 1 \in 0..MaxCalls
      BY <1>0, CallsAssumption DEF Resolve, Calls
  <2>3. st \in {"waiting", "ok", "no_path"}
      OBVIOUS
  <2>4. Called(c) \in Calls
    <3> HIDE DEF st
    <3>1. Called(c) = [st |-> st, joined |-> FALSE, excused |-> Excused, used |-> call[c].used + 1]
        BY DEF Called, st
    <3> QED BY <1>2, <2>2, <2>3, <3>1 DEF Calls
  <2> QED BY <1>0, <2>1, <2>4 DEF Called
<1>4. TypeOK'
    BY <1>0, <1>1, <1>3, TypeParts DEF TypeOK, Objects, Calls
<1>5. TaskInv' /\ HandleInv'
    BY <1>0, <1>1 DEF TaskInv, HandleInv, TaskEnded
<1>6. CallsInv'
  <2> SUFFICES ASSUME NEW d \in Callers PROVE CallOK(d)'
      BY DEF CallsInv
  <2>1. CASE d # c
      BY <1>0, <1>1, <1>3, <2>1 DEF CallsInv, CallOK, Busy
  <2>2. CASE d = c
    <3>1. st = "no_path" => Excused
      <4> SUFFICES ASSUME ~object.held, ~object.path PROVE Excused
          OBVIOUS
      <4> QED BY <1>0 DEF WaitInv, Excused
    <3>2. st = "waiting" => HasTask(object.kind)
        BY DEF HandleInv
    <3> QED BY <1>0, <1>1, <1>3, <2>2, <3>1, <3>2 DEF CallOK, Busy
  <2> QED BY <2>1, <2>2
<1>7. WaitInv'
  <2>1. CASE object.held
      BY <1>3, <2>1 DEF WaitInv, Busy
  <2>2. CASE ~object.held
    <3>1. \A d \in Callers : Busy(d) => Busy(d)'
        BY <1>0, <1>3 DEF Busy
    <3> QED BY <1>0, <1>1, <2>2, <3>1 DEF WaitInv
  <2> QED BY <2>1, <2>2
<1> QED BY <1>4, <1>5, <1>6, <1>7

\* A call is told how the task has ended.
LEMMA JoinStep ==
    ASSUME ResolveInv, NEW c \in Callers, Join(c)
    PROVE  ResolveInv'
<1> USE DEF ResolveInv
<1>0. /\ object \in Objects /\ call \in [Callers -> Calls] /\ UNCHANGED <<task, abort, merged, cancels>>
      /\ Busy(c) /\ object.alive /\ HasTask(object.kind)
    BY TypeParts DEF Join, CallsInv, CallOK, Busy
<1>1. task \in {"ok", "failed"}
    BY <1>0 DEF Join, TaskEnded, Finished, HandleInv
<1>2. /\ object' \in Objects /\ object'.kind = object.kind /\ object'.alive = object.alive
      /\ object'.held = object.held /\ (object.path => object'.path)
      /\ task = "ok" => object'.path
  <2>1. CASE task = "ok" /\ IsFolder(object.kind)
      BY <1>0, <2>1 DEF Join, Stored, Objects
  <2>2. CASE ~(task = "ok" /\ IsFolder(object.kind))
    <3>1. object' = object
        BY <2>2 DEF Join
    <3>2. task = "ok" => object.path
        BY <2>2 DEF TaskInv
    <3> QED BY <1>0, <3>1, <3>2
  <2> QED BY <2>1, <2>2
<1>3. JoinResult(object'.path) = IF task = "failed" THEN "task_error" ELSE "ok"
    BY <1>1, <1>2 DEF JoinResult
<1>4. /\ call' \in [Callers -> Calls]
      /\ call'[c].st = (IF task = "failed" THEN "task_error" ELSE "ok")
      /\ \A d \in Callers \ {c} : call'[d] = call[d]
  <2> DEFINE new == [call[c] EXCEPT !.st = JoinResult(object'.path), !.joined = TRUE]
  <2>1. call' = [call EXCEPT ![c] = new]
      BY <1>0, Zenon DEF Join, Calls
  <2>2. new \in Calls /\ new.st = JoinResult(object'.path)
      BY <1>0, <1>3 DEF Calls
  <2> HIDE DEF new
  <2> QED BY <1>0, <1>3, <2>1, <2>2
<1>5. TypeOK'
    BY <1>0, <1>2, <1>4, TypeParts DEF TypeOK, Objects, Calls
<1>6. TaskInv' /\ HandleInv'
    BY <1>0, <1>2 DEF TaskInv, HandleInv, TaskEnded
<1>7. CallsInv'
  <2> SUFFICES ASSUME NEW d \in Callers PROVE CallOK(d)'
      BY DEF CallsInv
  <2>1. CASE d # c
      BY <1>0, <1>2, <1>4, <2>1 DEF CallsInv, CallOK, Busy
  <2>2. CASE d = c
      BY <1>0, <1>1, <1>2, <1>4, <2>2 DEF CallOK, Busy
  <2> QED BY <2>1, <2>2
<1>8. WaitInv'
    BY <1>0, <1>1, <1>2 DEF WaitInv
<1> QED BY <1>5, <1>6, <1>7, <1>8

\* A call is cancelled, or the application goes on after it.
LEMMA OverStep ==
    ASSUME ResolveInv, NEW c \in Callers, Cancel(c) \/ Return(c)
    PROVE  ResolveInv'
<1> USE DEF ResolveInv
<1>0. /\ object \in Objects /\ call \in [Callers -> Calls]
      /\ UNCHANGED <<object, task, abort, merged>> /\ call' = [call EXCEPT ![c] = Over(c)]
    BY TypeParts DEF Cancel, Return
<1>1. Over(c) \in Calls /\ Over(c).st = "idle"
    BY <1>0 DEF Over, NoCall, Calls
<1>2. /\ call' \in [Callers -> Calls] /\ call'[c].st = "idle"
      /\ \A d \in Callers \ {c} : call'[d] = call[d]
    BY <1>0, <1>1
<1>3. cancels' \in 0..MaxCancels
    BY CallsAssumption, TypeParts DEF Cancel, Return
<1>4. TypeOK'
    BY <1>0, <1>2, <1>3, TypeParts DEF TypeOK, Objects, Calls
<1>5. TaskInv' /\ HandleInv'
    BY <1>0 DEF TaskInv, HandleInv, TaskEnded
<1>6. CallsInv'
  <2> SUFFICES ASSUME NEW d \in Callers PROVE CallOK(d)'
      BY DEF CallsInv
  <2>1. CASE d # c
      BY <1>0, <1>2, <2>1 DEF CallsInv, CallOK, Busy
  <2>2. CASE d = c
      BY <1>2, <2>2 DEF CallOK, Busy
  <2> QED BY <2>1, <2>2
<1>7. WaitInv'
  <2>1. CASE Cancel(c)
    <3>1. cancels' > 0
        BY <2>1, TypeParts DEF Cancel
    <3> QED BY <3>1 DEF WaitInv
  <2>2. CASE Return(c)
    <3>1. ~Busy(c) /\ cancels' = cancels
        BY <2>2 DEF Return, Busy
    <3>2. \A d \in Callers : Busy(d) => Busy(d)'
        BY <1>2, <3>1 DEF Busy
    <3> QED BY <1>0, <3>1, <3>2 DEF WaitInv
  <2> QED BY <2>1, <2>2
<1> QED BY <1>4, <1>5, <1>6, <1>7

\* The last reference goes.
LEMMA DropStep == ResolveInv /\ Drop => ResolveInv'
<1> SUFFICES ASSUME ResolveInv, Drop PROVE ResolveInv'
    OBVIOUS
<1> USE DEF ResolveInv
<1>0. /\ object \in Objects /\ call \in [Callers -> Calls]
      /\ UNCHANGED <<task, merged, call, cancels>>
      /\ \A c \in Callers : call[c].st = "idle"
    BY TypeParts DEF Drop
<1>1. /\ object' \in Objects /\ object'.kind = object.kind /\ object'.alive = FALSE
      /\ object'.held = object.held /\ object'.path = object.path
    BY <1>0 DEF Drop, Objects
<1>2. abort' \in BOOLEAN /\ (object.held => abort' \/ TaskEnded)
    BY DEF Drop, Aborts, TaskEnded
<1>3. TypeOK'
    BY <1>0, <1>1, <1>2, TypeParts DEF TypeOK, Objects, Calls
<1>4. TaskInv' /\ HandleInv'
    BY <1>0, <1>1, <1>2 DEF TaskInv, HandleInv, TaskEnded
<1>5. CallsInv'
    BY <1>0 DEF CallsInv, CallOK, Busy
<1>6. WaitInv'
    BY <1>1 DEF WaitInv
<1> QED BY <1>3, <1>4, <1>5, <1>6

LEMMA Inductive == ResolveInv /\ [Next]_vars => ResolveInv'
<1> SUFFICES ASSUME ResolveInv, [Next]_vars PROVE ResolveInv'
    OBVIOUS
<1>1. CASE Background
    BY <1>1, BackgroundStep
<1>2. CASE Drop
    BY <1>2, DropStep
<1>3. ASSUME NEW c \in Callers, Resolve(c) PROVE ResolveInv'
    BY <1>3, ResolveStep
<1>4. ASSUME NEW c \in Callers, Join(c) PROVE ResolveInv'
    BY <1>4, JoinStep
<1>5. ASSUME NEW c \in Callers, Cancel(c) \/ Return(c) PROVE ResolveInv'
    BY <1>5, OverStep
<1>6. CASE UNCHANGED vars
    BY <1>6 DEF vars, ResolveInv, TypeOK, TaskInv, HandleInv, TaskEnded, CallsInv, CallOK, WaitInv, Busy
<1> QED BY <1>1, <1>2, <1>3, <1>4, <1>5, <1>6 DEF Next

LEMMA Invariance == Spec => []ResolveInv
    BY InitInv, Inductive, PTL DEF Spec
-----------------------------------------------------------------------------
(* The theorems. *)

\* Every variable keeps its range.
THEOREM TypeCorrect == Spec => []TypeOK
<1>1. ResolveInv => TypeOK
    BY DEF ResolveInv
<1> QED BY <1>1, Invariance, PTL

\* resolve_file, resolve_folder: the call that waited for the task succeeds only
\* with every property merged.
THEOREM JoinersSeeEverything == Spec => []JoinerSeesEverything
<1>1. ResolveInv => JoinerSeesEverything
    BY DEF ResolveInv, CallsInv, CallOK, TaskInv, JoinerSeesEverything
<1> QED BY <1>1, Invariance, PTL

\* "even after resolving": a missing path has a reason that was there when the
\* call began.
THEOREM MissingPathsExplained == Spec => []MissingPathIsExplained
<1>1. ResolveInv => MissingPathIsExplained
    BY DEF ResolveInv, CallsInv, CallOK, MissingPathIsExplained
<1> QED BY <1>1, Invariance, PTL

\* Drop for SPFile and SPFolder: wherever abort() finds the task, no answer
\* reaches it any more, and what it merges it had in hand.
LEMMA ReceivesNothing ==
    ResolveInv /\ Next /\ ~object.alive /\ object.held => UNCHANGED Received
<1> SUFFICES ASSUME ResolveInv, Next, ~object.alive, object.held PROVE UNCHANGED Received
    OBVIOUS
<1>1. abort \/ task \in Finished
    BY DEF ResolveInv, HandleInv, TaskEnded
<1>2. CASE FileMerged \/ ItemMerged
  <2>1. CASE FileMerged
    <3>1. task = "file_in" /\ task' \in {"item", "ok"} /\ merged' = merged \cup {"file"}
        BY <2>1 DEF FileMerged
    <3> QED BY <3>1 DEF Received, Requests, Arrived
  <2>2. CASE ItemMerged
    <3>1. task = "item_in" /\ task' = "ok" /\ merged' = merged \cup {"item"}
        BY <2>2 DEF ItemMerged
    <3> QED BY <3>1 DEF Received, Requests, Arrived
  <2> QED BY <1>2, <2>1, <2>2
<1>3. CASE Stops
  <2>1. task \in {"file", "item"} /\ task' = "aborted" /\ merged' = merged
      BY <1>3 DEF Stops, Requests
  <2> QED BY <2>1 DEF Received, Requests, Arrived
<1>4. ASSUME NEW request \in Requests, Answered(request) \/ RequestFails PROVE FALSE
    BY <1>1, <1>4 DEF Answered, RequestFails, Requests, Finished
<1>5. CASE Drop \/ \E c \in Callers : Resolve(c) \/ Join(c) \/ Cancel(c) \/ Return(c)
  <2>1. UNCHANGED <<task, merged>>
      BY <1>5 DEF Drop, Resolve, Join, Cancel, Return
  <2> QED BY <2>1 DEF Received, Requests, Arrived
<1> QED BY <1>2, <1>3, <1>4, <1>5 DEF Next, Background, Requests

\* The same of every step of an object.
THEOREM NothingReceived == Spec => NothingReceivedAfterDrop
<1>1. ResolveInv /\ [Next]_vars => [~object.alive /\ object.held => UNCHANGED Received]_vars
    BY ReceivesNothing
<1> QED BY <1>1, Invariance, PTL DEF Spec, NothingReceivedAfterDrop
=============================================================================
