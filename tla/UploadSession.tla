---------------------------- MODULE UploadSession ----------------------------
(***************************************************************************)
(* One session of upload_chunks (UploadChunks of rust/lib.rs) in the hands *)
(* of an application that is free to start several writes before it waits  *)
(* for one, to cancel them, and to go on after one has failed.  The folder *)
(* exists, and chunks are one byte long: Upload covers the rest.           *)
(***************************************************************************)
EXTENDS Naturals, Sequences, SequencesExt, FiniteSets

CONSTANTS
    MaxWrites,      \* bound: calls of write
    MaxFaults,      \* bound: requests that fail in transport
    MaxCancels      \* bound: writes the application cancels

ASSUME BoundsAssumption == MaxWrites \in Nat /\ MaxFaults \in Nat /\ MaxCancels \in Nat

VARIABLES
    overwrite,      \* the argument of upload_chunks
    session,        \* pending, started and position, as in UploadChunks
    op,             \* the calls: write w delivers the chunk w, Exit is __aexit__
    file, open,     \* the server: the file, and what the upload session holds
    stray,          \* requests whose caller is gone, and that may still arrive
    taken,          \* history: the chunks in the order they were buffered
    overlapped,     \* history: whether writes began beside others that were sending
                    \* their chunk, before `started` was set or after
    late,           \* history: a stray request took effect
    faults, cancels

server  == <<file, open>>
history == <<taken, overlapped, late>>
bounds  == <<faults, cancels>>
vars    == <<overwrite, session, op, server, stray, history, bounds>>
-----------------------------------------------------------------------------
Missing == <<0>>         \* no such file, no such upload session
Old     == <<MaxWrites + 1>>
None    == 0             \* no chunk

Exit   == 0
Writes == 1..MaxWrites
Ops    == Writes \cup {Exit}

InRequest == {"add_empty", "start", "continue", "add", "finish"}
InFlight  == {"called", "served"} \cup InRequest
Ended     == {"ok", "raised", "cancelled", "skipped"}

NewOp == [st |-> "new", sent |-> None, position |-> 0]

Init ==
    /\ overwrite \in BOOLEAN
    /\ session = [pending |-> None, started |-> FALSE, position |-> 0]
    /\ op = [o \in Ops |-> NewOp]
    /\ file \in {Missing, Old} /\ open = Missing
    /\ stray = {}
    /\ taken = <<>> /\ overlapped = {} /\ late = FALSE
    /\ faults = 0 /\ cancels = 0
-----------------------------------------------------------------------------
(* write. *)

\* The application calls write, perhaps beside calls that have not come back.
Call(w) ==
    /\ op[w].st = "new" /\ op[Exit].st = "new"
    /\ \A v \in 1..(w - 1) : op[v].st # "new"
    /\ op' = [op EXCEPT ![w].st = "called"]
    /\ UNCHANGED <<overwrite, session, server, stray, history, bounds>>

Sending(w) == op[w].st \in InRequest \cup {"served"}

\* mutant: the chunk that comes in is sent, and the buffered one stays
SendsNew(w) == [st |-> IF session.started THEN "continue" ELSE "add_empty",
                sent |-> w, position |-> session.position]

\* What a write does with the chunk it finds in `pending`.
Dispatched(w) ==
    IF session.pending = None
    THEN [op[w] EXCEPT !.st = "ok"]
    ELSE [st |-> IF session.started THEN "continue" ELSE "add_empty",
          sent |-> session.pending, position |-> session.position]

\* The future's first poll: one look at the session under the GIL.
Begin(w) ==
    /\ op[w].st = "called"
    /\ op' = [op EXCEPT ![w] = Dispatched(w)]
    /\ session' = [session EXCEPT !.pending = w]
    /\ taken' = Append(taken, w)
    /\ overlapped' = overlapped \cup
          IF \E v \in Writes : Sending(v)
          THEN {IF session.started THEN "started" ELSE "starting"} ELSE {}
    /\ UNCHANGED <<overwrite, server, stray, late, bounds>>

NotAdvanced(w)  == op[w].position       \* mutant: the new position is not counted up
NewPosition(w)  == op[w].position + 1

\* The answer is there, and the session is written from what the call had read.
Store(w) ==
    /\ op[w].st = "served"
    /\ session' = [session EXCEPT !.started = TRUE, !.position = NewPosition(w)]
    /\ op' = [op EXCEPT ![w].st = "ok"]
    /\ UNCHANGED <<overwrite, server, stray, history, bounds>>
-----------------------------------------------------------------------------
(* __aexit__. *)

\* What closes the session, read from it when the block is left.
Closing ==
    [st |-> IF session.started THEN "finish"
            ELSE IF session.pending = None THEN "add_empty" ELSE "add",
     sent |-> session.pending, position |-> session.position]

\* The block is left when every write has come back; with an exception nothing
\* is sent.  `pending` is never None once `started` is set.
AExit(has_exception) ==
    /\ op[Exit].st = "new" /\ \A w \in Writes : op[w].st \notin InFlight
    /\ op' = [op EXCEPT ![Exit] = IF has_exception THEN [NewOp EXCEPT !.st = "skipped"]
                                                   ELSE Closing]
    /\ UNCHANGED <<overwrite, session, server, stray, history, bounds>>
-----------------------------------------------------------------------------
(* The server. *)

Refused(r) ==
    \/ r.st \in {"add", "add_empty"} /\ ~overwrite /\ file # Missing
    \/ r.st \in {"continue", "finish"} /\ (open = Missing \/ Len(open) # r.position)

\* A second startUpload with the id of an open session: start over or refuse.
MayRefuse(r) == r.st = "start" /\ open # Missing

Serve(r) ==
    /\ file' = CASE r.st = "add"       -> <<r.sent>>
                 [] r.st = "add_empty" -> <<>>
                 [] r.st = "finish"    -> Append(open, r.sent)
                 [] OTHER              -> file
    /\ open' = CASE r.st = "start"    -> <<r.sent>>
                 [] r.st = "continue" -> Append(open, r.sent)
                 [] OTHER             -> Missing

StartsToo(o) ==                         \* mutant: __aexit__ goes on to startUpload
    IF op[o].st = "add_empty" THEN "start" ELSE IF o = Exit THEN "ok" ELSE "served"

\* After Files/add of an empty file comes startUpload, unless that was all.
After(o) ==
    IF o = Exit THEN "ok" ELSE IF op[o].st = "add_empty" THEN "start" ELSE "served"

Accepted(o) ==
    /\ op[o].st \in InRequest /\ ~Refused(op[o])
    /\ Serve(op[o])
    /\ op' = [op EXCEPT ![o].st = After(o)]
    /\ UNCHANGED <<overwrite, session, stray, history, bounds>>

Rejected(o) ==
    /\ op[o].st \in InRequest /\ (Refused(op[o]) \/ MayRefuse(op[o]))
    /\ op' = [op EXCEPT ![o].st = "raised"]
    /\ UNCHANGED <<overwrite, session, server, stray, history, bounds>>

\* The caller of a request is gone: it was served, or will be, or is lost.
Leaves(r) ==
    \/ UNCHANGED <<server, stray>>
    \/ ~Refused(r) /\ Serve(r) /\ UNCHANGED stray
    \/ stray' = stray \cup {r} /\ UNCHANGED server

\* A request fails in transport or runs into its timeout.
Fault(o) ==
    /\ op[o].st \in InRequest /\ faults < MaxFaults
    /\ faults' = faults + 1
    /\ Leaves(op[o])
    /\ op' = [op EXCEPT ![o].st = "raised"]
    /\ UNCHANGED <<overwrite, session, history, cancels>>

\* The application cancels a write: before its first poll, in a request, or
\* with the answer at hand and not yet stored.
Cancel(w) ==
    /\ op[w].st \in InFlight /\ cancels < MaxCancels
    /\ cancels' = cancels + 1
    /\ IF op[w].st \in InRequest THEN Leaves(op[w]) ELSE UNCHANGED <<server, stray>>
    /\ op' = [op EXCEPT ![w].st = "cancelled"]
    /\ UNCHANGED <<overwrite, session, history, faults>>

Arrives(r) ==
    /\ r \in stray
    /\ stray' = stray \ {r}
    /\ IF Refused(r) THEN UNCHANGED <<server, late>> ELSE Serve(r) /\ late' = TRUE
    /\ UNCHANGED <<overwrite, session, op, taken, overlapped, bounds>>
-----------------------------------------------------------------------------
Next ==
    \/ \E w \in Writes : Call(w) \/ Begin(w) \/ Store(w) \/ Cancel(w)
    \/ \E has_exception \in BOOLEAN : AExit(has_exception)
    \/ \E o \in Ops : Accepted(o) \/ Rejected(o) \/ Fault(o)
    \/ \E r \in stray : Arrives(r)

Spec == Init /\ [][Next]_vars
-----------------------------------------------------------------------------
(* Properties. *)

Strings == Seq(0..(MaxWrites + 1))

TypeOK ==
    /\ overwrite \in BOOLEAN
    /\ session \in [pending : Ops, started : BOOLEAN, position : 0..MaxWrites]
    /\ op[Exit].st \in {"new", "add_empty", "add", "finish"} \cup Ended
    /\ op \in [Ops -> [st : {"new"} \cup InFlight \cup Ended, sent : Ops, position : 0..MaxWrites]]
    /\ {file, open, taken} \subseteq Strings
    /\ stray \subseteq [st : InRequest, sent : Ops, position : 0..MaxWrites]
    /\ overlapped \subseteq {"starting", "started"} /\ late \in BOOLEAN
    /\ faults \in 0..MaxFaults /\ cancels \in 0..MaxCancels

\* Chunks in the hands of a write that did not succeed.
GivenUp == {op[w].sent : w \in {v \in Writes : op[v].st \in {"raised", "cancelled"}}}

\* a comes before b in s.
Before(s, a, b) == \E k, l \in 1..Len(s) : k < l /\ s[k] = a /\ s[l] = b

\* A file that __aexit__ has committed holds every chunk, in the order in which
\* they were buffered, but for those that a write which raised or was cancelled
\* had taken out of `pending`: what an application loses by going on is what it
\* has been told of.  Excepted are a session two writes have started, and one
\* into which a request arrived whose caller was gone.
LossIsVisible ==
    op[Exit].st = "ok" /\ "starting" \notin overlapped /\ ~late =>
        /\ ToSet(file) \subseteq ToSet(taken)
        /\ \A i, j \in 1..Len(file) : i < j => Before(taken, file[i], file[j])
        /\ ToSet(taken) \ ToSet(file) \subseteq GivenUp

\* The server refuses a call only to protect an existing file, or because two
\* calls overlapped or a request's outcome was unknown: a session used as the
\* documentation shows always sends the offset the server expects.
RefusalIsExplained ==
    (\E o \in Ops : op[o].st = "raised") =>
        \/ faults > 0 \/ cancels > 0
        \/ ~overwrite
        \/ overlapped # {}
=============================================================================
