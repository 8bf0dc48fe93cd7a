------------------------- MODULE UploadSessionProofs -------------------------
(***************************************************************************)
(* Theorems about UploadSession, for any number of writes, failures and    *)
(* cancellations: who writes one chunk after another is refused nothing,   *)
(* and what others lose by going on after a failure they have been told.   *)
(***************************************************************************)
EXTENDS UploadSession, FiniteSetTheorems, SequenceTheorems, TLAPS

Requested == [st : InRequest, sent : Ops, position : Nat]

Calls == [st : {"new"} \cup InFlight \cup Ended, sent : Ops, position : Nat]

Types ==
    /\ overwrite \in BOOLEAN
    /\ session \in [pending : Ops, started : BOOLEAN, position : Nat]
    /\ op \in [Ops -> Calls]
    /\ open \in Seq(Nat)
    /\ stray \subseteq Requested
    /\ faults \in Nat /\ cancels \in Nat

\* The block is left when every write has come back, and none begins after it.
ExitAlone == op[Exit].st # "new" => \A w \in Writes : op[w].st \notin InFlight

\* Nothing has happened that explains a refusal.
Calm == faults = 0 /\ cancels = 0 /\ overwrite /\ overlapped = {}

\* Then no call has ended badly, and one write sends at a time.
Unharmed ==
    /\ stray = {}
    /\ \A o \in Ops : op[o].st \notin {"raised", "cancelled"}
    /\ \A v, w \in Writes : Sending(v) /\ Sending(w) => v = w

\* The server has received what a write says, or one chunk more once it has
\* served that write.
WriteOK(w) ==
    /\ op[w].st \notin {"add", "finish"}
    /\ Sending(w) => op[w].sent # None /\ op[w].position = session.position
    /\ op[w].st \in {"add_empty", "start"} => ~session.started /\ open = Missing
    /\ op[w].st = "continue" => open # Missing /\ Len(open) = op[w].position
    /\ op[w].st = "served" => open # Missing /\ Len(open) = op[w].position + 1

\* Between writes it has received what the session says.
RestOK ==
    op[Exit].st = "new" /\ (\A w \in Writes : ~Sending(w)) =>
        IF session.started THEN open # Missing /\ Len(open) = session.position
                           ELSE open = Missing

ExitOK ==
    /\ op[Exit].st \notin {"start", "continue"}
    /\ op[Exit].st = "finish" => open # Missing /\ Len(open) = op[Exit].position

InStep ==
    /\ ~session.started => session.position = 0
    /\ \A w \in Writes : WriteOK(w)
    /\ RestOK /\ ExitOK

SessionInv == Types /\ ExitAlone /\ (Calm => Unharmed /\ InStep)
-----------------------------------------------------------------------------
\* What the sets of names are.
LEMMA Names ==
    /\ Ops \subseteq Nat /\ Exit \in Ops /\ Writes \subseteq Ops /\ Exit \notin Writes
    /\ None \in Ops /\ \A o \in Ops : o = Exit \/ o \in Writes
    BY BoundsAssumption DEF Ops, Exit, Writes, None

LEMMA MissingIs == Missing \in Seq(Nat) /\ Len(Missing) = 1 /\ Missing[1] = 0
    BY DEF Missing

\* A chunk is none of the sequences that stand for nothing.
LEMMA Received ==
    ASSUME NEW s \in Seq(Nat), NEW chunk \in Nat, chunk # None
    PROVE  /\ Append(s, chunk) \in Seq(Nat) /\ Len(Append(s, chunk)) = Len(s) + 1
           /\ Append(s, chunk) # Missing
           /\ <<chunk>> \in Seq(Nat) /\ Len(<<chunk>>) = 1 /\ <<chunk>> # Missing
<1>1. Append(s, chunk)[Len(s) + 1] = chunk
    OBVIOUS
<1>2. Len(Append(s, chunk)) = Len(s) + 1 /\ Append(s, chunk) \in Seq(Nat)
    OBVIOUS
<1>3. Append(s, chunk) # Missing
    BY <1>1, <1>2, MissingIs DEF None
<1>4. <<chunk>> \in Seq(Nat) /\ Len(<<chunk>>) = 1 /\ <<chunk>>[1] = chunk
    OBVIOUS
<1> QED BY <1>2, <1>3, <1>4, MissingIs DEF None

\* Nothing has been sent before the first call.
LEMMA InitInv == Init => SessionInv
<1> SUFFICES ASSUME Init PROVE SessionInv
    OBVIOUS
<1>1. /\ op \in [Ops -> Calls] /\ \A o \in Ops : op[o].st = "new"
    BY Names DEF Init, NewOp, Calls
<1>2. Types
    BY <1>1, Names, MissingIs, BoundsAssumption DEF Init, Types
<1>3. ExitAlone
    BY <1>1, Names DEF ExitAlone
<1>4. \A w \in Writes : ~Sending(w)
    BY <1>1, Names DEF Sending, InRequest
<1>5. Unharmed
    BY <1>1, <1>4 DEF Unharmed, Init
<1>6. InStep
    BY <1>1, <1>4, Names DEF InStep, WriteOK, RestOK, ExitOK, Init
<1> QED BY <1>2, <1>3, <1>5, <1>6 DEF SessionInv
-----------------------------------------------------------------------------
(* Types. *)

\* What a request does to what the upload session holds.
LEMMA Serves ==
    ASSUME NEW r, Serve(r)
    PROVE  /\ r.st = "start" => open' = <<r.sent>>
           /\ r.st = "continue" => open' = Append(open, r.sent)
           /\ r.st \notin {"start", "continue"} => open' = Missing
<1>1. CASE r.st = "start"
    BY <1>1, Zenon DEF Serve
<1>2. CASE r.st = "continue"
    BY <1>2, Zenon DEF Serve
<1>3. CASE r.st \notin {"start", "continue"}
    BY <1>3, Zenon DEF Serve
<1> QED BY <1>1, <1>2, <1>3

\* Only one call changes.
LEMMA TypesStep == Types /\ [Next]_vars => Types'
<1> SUFFICES ASSUME Types, [Next]_vars PROVE Types'
    OBVIOUS
<1> USE Names DEF Types
<1>1. overwrite' \in BOOLEAN /\ faults' \in Nat /\ cancels' \in Nat
  <2>1. ASSUME NEW w \in Writes, Call(w) \/ Begin(w) \/ Store(w) \/ Cancel(w)
        PROVE  overwrite' = overwrite /\ faults' \in Nat /\ cancels' \in Nat
      BY <2>1 DEF bounds, Call, Begin, Store, Cancel
  <2>2. ASSUME NEW o \in Ops, Accepted(o) \/ Rejected(o) \/ Fault(o)
        PROVE  overwrite' = overwrite /\ faults' \in Nat /\ cancels' \in Nat
      BY <2>2 DEF bounds, Accepted, Rejected, Fault
  <2> QED BY <2>1, <2>2 DEF Next, vars, bounds, AExit, Arrives
<1>2. ASSUME NEW r \in Requested, Serve(r) PROVE open' \in Seq(Nat)
  <2>1. r.sent \in Nat
      BY DEF Requested
  <2>2. open' \in {<<r.sent>>, Append(open, r.sent), Missing}
      BY <1>2, Serves
  <2>3. <<r.sent>> \in Seq(Nat) /\ Append(open, r.sent) \in Seq(Nat) /\ Missing \in Seq(Nat)
      BY <2>1, MissingIs
  <2> QED BY <2>2, <2>3
<1>3. ASSUME NEW o \in Ops, op[o].st \in InRequest PROVE op[o] \in Requested
    BY <1>3 DEF Calls, Requested
<1>4. ASSUME NEW r \in Requested, Leaves(r) PROVE open' \in Seq(Nat) /\ stray' \subseteq Requested
    BY <1>2, <1>4 DEF Leaves, server
<1>5. open' \in Seq(Nat) /\ stray' \subseteq Requested
    BY <1>2, <1>3, <1>4 DEF Next, vars, server, Call, Begin, Store, Cancel, AExit, Accepted,
                             Rejected, Fault, Arrives
<1>6. session' \in [pending : Ops, started : BOOLEAN, position : Nat]
  <2>1. ASSUME NEW w \in Writes, Begin(w) PROVE session' \in [pending : Ops, started : BOOLEAN, position : Nat]
      BY <2>1 DEF Begin
  <2>2. ASSUME NEW w \in Writes, Store(w) PROVE session' \in [pending : Ops, started : BOOLEAN, position : Nat]
    <3>1. op[w].position + 1 \in Nat
        BY DEF Calls
    <3> QED BY <2>2, <3>1 DEF Store, NewPosition
  <2> QED BY <2>1, <2>2 DEF Next, vars, Call, Cancel, AExit, Accepted, Rejected, Fault, Arrives
<1>7. op' \in [Ops -> Calls]
  <2>1. ASSUME NEW o \in Ops, NEW r \in Calls, op' = [op EXCEPT ![o] = r] PROVE op' \in [Ops -> Calls]
      BY <2>1
  <2>2. ASSUME NEW o \in Ops, NEW st \in {"new"} \cup InFlight \cup Ended, op' = [op EXCEPT ![o].st = st]
        PROVE  op' \in [Ops -> Calls]
    <3>1. [op[o] EXCEPT !.st = st] \in Calls
      <4>1. op[o] \in Calls
          OBVIOUS
      <4> QED BY <4>1 DEF Calls
    <3> QED BY <2>1, <2>2, <3>1
  <2>3. ASSUME NEW w \in Writes, Call(w) \/ Store(w) \/ Cancel(w) PROVE op' \in [Ops -> Calls]
      BY <2>2, <2>3 DEF Call, Store, Cancel, InFlight, Ended
  <2>4. ASSUME NEW o \in Ops, Accepted(o) \/ Rejected(o) \/ Fault(o) PROVE op' \in [Ops -> Calls]
    <3>1. After(o) \in {"new"} \cup InFlight \cup Ended
        BY DEF After, InFlight, InRequest, Ended
    <3>2. "raised" \in {"new"} \cup InFlight \cup Ended
        BY DEF Ended
    <3>3. CASE Accepted(o)
        BY <2>2, <3>1, <3>3 DEF Accepted
    <3>4. CASE Rejected(o) \/ Fault(o)
        BY <2>2, <3>2, <3>4 DEF Rejected, Fault
    <3> QED BY <2>4, <3>3, <3>4
  <2>5. ASSUME NEW w \in Writes, Begin(w) PROVE op' \in [Ops -> Calls]
    <3>1. Dispatched(w) \in Calls
        BY DEF Dispatched, Calls, InFlight, InRequest, Ended
    <3> QED BY <2>1, <2>5, <3>1 DEF Begin
  <2>6. ASSUME NEW e \in BOOLEAN, AExit(e) PROVE op' \in [Ops -> Calls]
    <3>1. Closing \in Calls /\ [NewOp EXCEPT !.st = "skipped"] \in Calls
        BY DEF Closing, NewOp, Calls, InFlight, InRequest, Ended
    <3> QED BY <2>1, <2>6, <3>1 DEF AExit
  <2> QED BY <2>3, <2>4, <2>5, <2>6 DEF Next, vars, Arrives
<1> QED BY <1>1, <1>5, <1>6, <1>7
-----------------------------------------------------------------------------
(* The steps of a session. *)

\* None begins once the block has been left.
LEMMA ExitStep == Types /\ ExitAlone /\ [Next]_vars => ExitAlone'
<1> SUFFICES ASSUME Types, ExitAlone, [Next]_vars, op'[Exit].st # "new", NEW v \in Writes
             PROVE  op'[v].st \notin InFlight
    BY DEF ExitAlone
<1> USE Names DEF Types
<1>1. ASSUME NEW w \in Writes, Call(w) \/ Begin(w) \/ Store(w) \/ Cancel(w)
      PROVE  op'[v].st \notin InFlight
  <2>1. op'[Exit] = op[Exit]
      BY <1>1 DEF Call, Begin, Store, Cancel
  <2>2. \A x \in Writes : op[x].st \notin InFlight
      BY <2>1 DEF ExitAlone
  <2>3. ~Call(w)
      BY <2>1 DEF Call
  <2> QED BY <1>1, <2>2, <2>3 DEF Begin, Store, Cancel, InFlight
<1>2. ASSUME NEW o \in Ops, Accepted(o) \/ Rejected(o) \/ Fault(o)
      PROVE  op'[v].st \notin InFlight
  <2>1. op[o].st \in InRequest /\ \A x \in Ops \ {o} : op'[x] = op[x]
      BY <1>2 DEF Accepted, Rejected, Fault
  <2>2. op[Exit].st # "new"
      BY <2>1 DEF InRequest
  <2>3. op[v].st \notin InFlight
      BY <2>2 DEF ExitAlone
  <2>4. v # o
      BY <2>1, <2>3 DEF InFlight
  <2> QED BY <2>1, <2>3, <2>4
<1>3. ASSUME NEW e \in BOOLEAN, AExit(e) PROVE op'[v].st \notin InFlight
    BY <1>3 DEF AExit
<1>4. ASSUME UNCHANGED op PROVE op'[v].st \notin InFlight
    BY <1>4 DEF ExitAlone
<1> QED BY <1>1, <1>2, <1>3, <1>4 DEF Next, vars, Arrives

\* What has happened stays an explanation.
LEMMA CalmBefore == Types /\ [Next]_vars /\ Calm' => Calm
<1> DEFINE Grows == /\ overwrite' = overwrite /\ overlapped \subseteq overlapped'
                    /\ faults' \in {faults, faults + 1} /\ cancels' \in {cancels, cancels + 1}
<1> SUFFICES ASSUME Types, [Next]_vars, Calm' PROVE Calm
    OBVIOUS
<1>1. ASSUME NEW w \in Writes, Call(w) \/ Begin(w) \/ Store(w) \/ Cancel(w) PROVE Grows
    BY <1>1 DEF bounds, history, Call, Begin, Store, Cancel
<1>2. ASSUME NEW o \in Ops, Accepted(o) \/ Rejected(o) \/ Fault(o) PROVE Grows
    BY <1>2 DEF bounds, history, Accepted, Rejected, Fault
<1>3. Grows
    BY <1>1, <1>2 DEF Next, vars, bounds, history, AExit, Arrives
<1>4. overwrite /\ overlapped = {}
    BY <1>3 DEF Calm
<1>5. faults = 0 /\ cancels = 0
    BY <1>3 DEF Calm, Types
<1> QED BY <1>4, <1>5 DEF Calm

\* A write begins when no other is sending, and finds what the server has.
LEMMA BeginStep ==
    ASSUME SessionInv, Calm, Calm', NEW w \in Writes, Begin(w)
    PROVE  Unharmed' /\ InStep'
<1> USE Names
<1>0. /\ Types /\ ExitAlone /\ Unharmed /\ InStep
      /\ op[w].st = "called" /\ op' = [op EXCEPT ![w] = Dispatched(w)]
      /\ session' = [session EXCEPT !.pending = w] /\ UNCHANGED <<open, stray>>
    BY DEF SessionInv, Begin, server
<1>1. /\ \A o \in Ops \ {w} : op'[o] = op[o]
      /\ op'[w] = Dispatched(w)
      /\ session'.started = session.started /\ session'.position = session.position
    BY <1>0 DEF Types
<1>2. op[Exit].st = "new" /\ op'[Exit] = op[Exit]
    BY <1>0, <1>1 DEF ExitAlone, InFlight
<1>3. \A v \in Writes : ~Sending(v)
    BY DEF Calm, Begin
<1>4. IF session.started THEN open # Missing /\ Len(open) = session.position ELSE open = Missing
    BY <1>0, <1>2, <1>3 DEF InStep, RestOK
<1>5. /\ op'[w].st \in {"ok", "add_empty", "continue"}
      /\ op'[w].st # "ok" => /\ op'[w].sent = session.pending /\ session.pending # None
                              /\ op'[w].position = session.position
                              /\ op'[w].st = IF session.started THEN "continue" ELSE "add_empty"
    BY <1>0, <1>1 DEF Dispatched, Types, Calls
<1>6. \A v \in Writes : v # w => op'[v] = op[v] /\ op[v].st \notin InRequest \cup {"served"}
    BY <1>1, <1>3 DEF Sending
<1>7. Unharmed'
    BY <1>0, <1>1, <1>5, <1>6 DEF Unharmed, Sending
<1>8. ASSUME NEW v \in Writes PROVE WriteOK(v)'
  <2>1. CASE v = w
      BY <1>0, <1>1, <1>4, <1>5, <2>1 DEF WriteOK, Sending, InRequest
  <2>2. CASE v # w
      BY <1>0, <1>6, <2>2 DEF WriteOK, Sending, InRequest
  <2> QED BY <2>1, <2>2
<1>9. RestOK' /\ ExitOK'
    BY <1>0, <1>1, <1>2, <1>4 DEF RestOK, ExitOK
<1> QED BY <1>0, <1>1, <1>7, <1>8, <1>9 DEF InStep

\* The answer is stored: the session says what the server has again.
LEMMA StoreStep ==
    ASSUME SessionInv, Calm, NEW w \in Writes, Store(w)
    PROVE  Unharmed' /\ InStep'
<1> USE Names
<1>0. /\ Types /\ ExitAlone /\ Unharmed /\ InStep
      /\ op[w].st = "served" /\ op' = [op EXCEPT ![w].st = "ok"]
      /\ session' = [session EXCEPT !.started = TRUE, !.position = op[w].position + 1]
      /\ UNCHANGED <<open, stray>>
    BY DEF SessionInv, Store, server, NewPosition
<1>1. /\ \A o \in Ops \ {w} : op'[o] = op[o]
      /\ op'[w].st = "ok"
      /\ session'.started = TRUE /\ session'.position = op[w].position + 1
    BY <1>0 DEF Types, Calls
<1>2. open # Missing /\ Len(open) = op[w].position + 1
    BY <1>0 DEF InStep, WriteOK
<1>3. \A v \in Writes : v # w => op'[v] = op[v] /\ op[v].st \notin InRequest \cup {"served"}
    BY <1>0, <1>1 DEF Unharmed, Sending
<1>4. op[Exit].st = "new" /\ op'[Exit] = op[Exit]
    BY <1>0, <1>1 DEF ExitAlone, InFlight
<1>5. Unharmed'
    BY <1>0, <1>1, <1>3 DEF Unharmed, Sending
<1>6. ASSUME NEW v \in Writes PROVE WriteOK(v)'
  <2>1. CASE v = w
      BY <1>1, <2>1 DEF WriteOK, Sending, InRequest
  <2>2. CASE v # w
      BY <1>0, <1>3, <2>2 DEF InStep, WriteOK, Sending, InRequest
  <2> QED BY <2>1, <2>2
<1>7. RestOK' /\ ExitOK'
    BY <1>0, <1>1, <1>2, <1>4 DEF RestOK, ExitOK
<1> QED BY <1>1, <1>5, <1>6, <1>7 DEF InStep

\* A request of a session in step is served: what was sent fits.
LEMMA AcceptedStep ==
    ASSUME SessionInv, Calm, NEW o \in Ops, Accepted(o)
    PROVE  Unharmed' /\ InStep'
<1> USE Names
<1>0. /\ Types /\ ExitAlone /\ Unharmed /\ InStep
      /\ op[o].st \in InRequest /\ op' = [op EXCEPT ![o].st = After(o)]
      /\ UNCHANGED <<session, stray>>
    BY DEF SessionInv, Accepted
<1>1. /\ \A x \in Ops \ {o} : op'[x] = op[x]
      /\ op'[o].st = After(o) /\ op'[o].sent = op[o].sent /\ op'[o].position = op[o].position
    BY <1>0 DEF Types, Calls
<1>2. /\ op[o].st = "start" => open' = <<op[o].sent>>
      /\ op[o].st = "continue" => open' = Append(open, op[o].sent)
      /\ op[o].st \notin {"start", "continue"} => open' = Missing
    BY Serves DEF Accepted
<1>3. CASE o = Exit
  <2>1. \A w \in Writes : op[w].st \notin InFlight /\ op'[w] = op[w]
      BY <1>0, <1>1, <1>3 DEF ExitAlone, InRequest
  <2>2. op'[Exit].st = "ok"
      BY <1>1, <1>3 DEF After
  <2>3. Unharmed'
      BY <1>0, <2>1, <2>2, Names DEF Unharmed, Sending, InFlight
  <2>4. InStep'
      BY <1>0, <2>1, <2>2 DEF InStep, WriteOK, RestOK, ExitOK, Sending, InFlight, InRequest
  <2> QED BY <2>3, <2>4
<1>4. CASE o \in Writes
  <2>1. /\ op[o].st \in {"add_empty", "start", "continue"} /\ op[o].sent # None
        /\ op[o].sent \in Nat /\ open \in Seq(Nat) /\ op[o].position = session.position
      BY <1>0, <1>4 DEF Types, Calls, InStep, WriteOK, Sending, InRequest
  <2>2. op'[o].st = IF op[o].st = "add_empty" THEN "start" ELSE "served"
      BY <1>1, <1>4 DEF After
  <2>3. op[Exit].st = "new" /\ op'[Exit] = op[Exit]
      BY <1>0, <1>1, <1>4 DEF ExitAlone, InFlight
  <2>4. \A v \in Writes : v # o => op'[v] = op[v] /\ op[v].st \notin InRequest \cup {"served"}
      BY <1>0, <1>1, <1>4 DEF Unharmed, Sending
  <2>5. Unharmed'
      BY <1>0, <1>1, <2>2, <2>4 DEF Unharmed, Sending
  <2>6. WriteOK(o)'
    <3>1. op'[o].sent # None /\ op'[o].position = session'.position
        BY <1>0, <1>1, <2>1
    <3>2. CASE op[o].st = "add_empty"
        BY <1>0, <1>2, <1>4, <2>2, <3>1, <3>2 DEF InStep, WriteOK
    <3>3. CASE op[o].st = "start"
      <4>1. open' # Missing /\ Len(open') = 1
          BY <1>2, <2>1, <3>3, Received
      <4>2. op[o].position = 0
          BY <1>0, <1>4, <2>1, <3>3 DEF InStep, WriteOK
      <4>3. op'[o].st = "served" /\ op'[o].position = 0
          BY <1>1, <2>2, <3>3, <4>2
      <4>4. Len(open') = op'[o].position + 1
          BY <4>1, <4>3
      <4> QED BY <3>1, <4>1, <4>3, <4>4 DEF WriteOK
    <3>4. CASE op[o].st = "continue"
      <4>1. open' # Missing /\ Len(open') = Len(open) + 1
          BY <1>2, <2>1, <3>4, Received
      <4>2. Len(open) = op[o].position
          BY <1>0, <1>4, <3>4 DEF InStep, WriteOK
      <4> QED BY <1>1, <2>2, <3>1, <3>4, <4>1, <4>2 DEF WriteOK
    <3> QED BY <2>1, <3>2, <3>3, <3>4
  <2>7. ASSUME NEW v \in Writes PROVE WriteOK(v)'
    <3>1. CASE v # o
        BY <1>0, <2>4, <3>1 DEF InStep, WriteOK, Sending, InRequest
    <3> QED BY <2>6, <3>1
  <2>8. RestOK' /\ ExitOK'
    <3>1. Sending(o)'
        BY <2>2 DEF Sending, InRequest
    <3> QED BY <1>4, <2>3, <3>1 DEF RestOK, ExitOK
  <2> QED BY <1>0, <2>5, <2>7, <2>8 DEF InStep
<1> QED BY <1>3, <1>4

\* And it is not refused.
LEMMA NoRejection == SessionInv /\ Calm => \A o \in Ops : ~Rejected(o)
<1> SUFFICES ASSUME SessionInv, Calm, NEW o \in Ops, Rejected(o) PROVE FALSE
    OBVIOUS
<1>1. Types /\ InStep /\ overwrite /\ op[o].st \in InRequest
    BY DEF SessionInv, Calm, Rejected
<1>2. \/ op[o].st \in {"continue", "finish"} /\ (open = Missing \/ Len(open) # op[o].position)
      \/ op[o].st = "start" /\ open # Missing
    BY <1>1 DEF Rejected, Refused, MayRefuse
<1>3. CASE o = Exit
    BY <1>1, <1>2, <1>3 DEF InStep, ExitOK
<1>4. CASE o \in Writes
    BY <1>1, <1>2, <1>4 DEF InStep, WriteOK
<1> QED BY <1>3, <1>4, Names

\* The other steps: a call nobody has polled, and the end of the block.
LEMMA CallStep ==
    ASSUME SessionInv, Calm, NEW w \in Writes, Call(w)
    PROVE  Unharmed' /\ InStep'
<1> USE Names
<1>0. /\ Types /\ Unharmed /\ InStep
      /\ op[w].st = "new" /\ op' = [op EXCEPT ![w].st = "called"]
      /\ UNCHANGED <<session, open, stray>>
    BY DEF SessionInv, Call, server
<1>1. (\A o \in Ops \ {w} : op'[o] = op[o]) /\ op'[w].st = "called"
    BY <1>0 DEF Types, Calls
<1>2. \A v \in Writes : Sending(v)' => Sending(v)
    BY <1>1 DEF Sending, InRequest
<1>3. \A v \in Writes : Sending(v) => Sending(v)'
    BY <1>0, <1>1 DEF Sending, InRequest
<1>4. Unharmed'
    BY <1>0, <1>1, <1>2 DEF Unharmed
<1>5. ASSUME NEW v \in Writes PROVE WriteOK(v)'
  <2>1. CASE v = w
      BY <1>1, <2>1 DEF WriteOK, Sending, InRequest
  <2>2. CASE v # w
      BY <1>0, <1>1, <2>2 DEF InStep, WriteOK, Sending
  <2> QED BY <2>1, <2>2
<1>6. RestOK' /\ ExitOK'
    BY <1>0, <1>1, <1>3 DEF InStep, RestOK, ExitOK
<1> QED BY <1>0, <1>4, <1>5, <1>6 DEF InStep

LEMMA AExitStep ==
    ASSUME SessionInv, Calm, NEW e \in BOOLEAN, AExit(e)
    PROVE  Unharmed' /\ InStep'
<1> USE Names
<1>0. /\ Types /\ Unharmed /\ InStep
      /\ op[Exit].st = "new" /\ \A w \in Writes : op[w].st \notin InFlight
      /\ op' = [op EXCEPT ![Exit] = IF e THEN [NewOp EXCEPT !.st = "skipped"] ELSE Closing]
      /\ UNCHANGED <<session, open, stray>>
    BY DEF SessionInv, AExit, server
<1>1. \A w \in Writes : op'[w] = op[w] /\ ~Sending(w)
    BY <1>0 DEF Types, Sending, InFlight
<1>2. IF session.started THEN open # Missing /\ Len(open) = session.position ELSE open = Missing
    BY <1>0, <1>1 DEF InStep, RestOK
<1>3. /\ op'[Exit].st \in {"skipped", "finish", "add_empty", "add"}
      /\ op'[Exit].st = "finish" => session.started /\ op'[Exit].position = session.position
  <2>1. CASE e
      BY <1>0, <2>1 DEF Types, NewOp
  <2>2. CASE ~e
      BY <1>0, <2>2 DEF Types, Closing
  <2> QED BY <2>1, <2>2
<1>4. Unharmed'
    BY <1>0, <1>1, <1>3 DEF Unharmed, Sending
<1>5. InStep'
    BY <1>0, <1>1, <1>2, <1>3 DEF InStep, WriteOK, RestOK, ExitOK, Sending
<1> QED BY <1>4, <1>5
-----------------------------------------------------------------------------
\* No step of a session breaks the invariant.
LEMMA Inductive == SessionInv /\ [Next]_vars => SessionInv'
<1> SUFFICES ASSUME SessionInv, [Next]_vars PROVE SessionInv'
    OBVIOUS
<1>1. Types' /\ ExitAlone'
    BY TypesStep, ExitStep DEF SessionInv
<1>2. ASSUME Calm' PROVE Unharmed' /\ InStep'
  <2>1. Calm /\ Unharmed /\ InStep /\ Types
      BY <1>2, CalmBefore DEF SessionInv
  <2>2. ASSUME NEW w \in Writes, Call(w) \/ Begin(w) \/ Store(w) PROVE Unharmed' /\ InStep'
      BY <1>2, <2>1, <2>2, CallStep, BeginStep, StoreStep
  <2>3. ASSUME NEW o \in Ops, Accepted(o) \/ Rejected(o) PROVE Unharmed' /\ InStep'
      BY <2>1, <2>3, AcceptedStep, NoRejection
  <2>4. ASSUME NEW e \in BOOLEAN, AExit(e) PROVE Unharmed' /\ InStep'
      BY <2>1, <2>4, AExitStep
  <2>5. ~\E o \in Ops : Fault(o)
      BY <1>2, <2>1 DEF Calm, Fault
  <2>6. ~\E w \in Writes : Cancel(w)
      BY <1>2, <2>1 DEF Calm, Cancel
  <2>7. ~\E r \in stray : Arrives(r)
      BY <2>1 DEF Unharmed
  <2>8. ASSUME UNCHANGED vars PROVE Unharmed' /\ InStep'
      BY <2>1, <2>8 DEF vars, server, Unharmed, InStep, WriteOK, RestOK, ExitOK, Sending
  <2> QED BY <2>2, <2>3, <2>4, <2>5, <2>6, <2>7, <2>8 DEF Next
<1> QED BY <1>1, <1>2 DEF SessionInv

\* It holds in every reachable state.
LEMMA Invariance == Spec => []SessionInv
    BY InitInv, Inductive, PTL DEF Spec

\* UploadChunks::write and __aexit__: an application that writes one chunk after
\* another, and is not interrupted, always sends the offset the server expects.
THEOREM RefusalsExplained == Spec => []RefusalIsExplained
<1>1. SessionInv => RefusalIsExplained
  <2> SUFFICES ASSUME SessionInv, NEW o \in Ops, op[o].st = "raised", ~(faults > 0 \/ cancels > 0),
                      overwrite, overlapped = {}
               PROVE  FALSE
      BY DEF RefusalIsExplained
  <2>1. Calm
      BY DEF Calm, SessionInv, Types
  <2> QED BY <2>1 DEF SessionInv, Unharmed
<1> QED BY <1>1, Invariance, PTL
-----------------------------------------------------------------------------
(* What an upload that goes on after a failure holds in the end. *)

\* What the calls have taken out of `pending`: each the chunk of the call before.
BufferInv ==
    /\ \A k \in 1..Len(taken) : taken[k] \in Writes /\ op[taken[k]].st \notin {"new", "called"}
    /\ \A k, l \in 1..Len(taken) : taken[k] = taken[l] => k = l
    /\ session.pending = IF taken = <<>> THEN None ELSE taken[Len(taken)]
    /\ \A k \in 2..Len(taken) : op[taken[k]].sent = taken[k - 1]
    /\ \A w \in Writes :
        /\ op[w].st \notin {"skipped", "add", "finish"}
        /\ Sending(w) => \E k \in 2..Len(taken) : w = taken[k]

\* Positions count chunks that have been taken.
PositionInv ==
    /\ \A w \in Writes : Sending(w) => op[w].position + 2 <= Len(taken)
    /\ session.position = 0 \/ session.position + 1 <= Len(taken)
    /\ session.started => Len(taken) >= 2

\* What closes the session is what it said when the block was left.
ClosingInv ==
    /\ op[Exit].st = "add_empty" => taken = <<>>
    /\ op[Exit].st = "add" => ~session.started
    /\ op[Exit].st = "finish" => session.started
    /\ op[Exit].st \in {"add", "finish"} => taken # <<>> /\ op[Exit].sent = taken[Len(taken)]

\* The starts of the session have not met, and what arrived had a caller.
Sound == "starting" \notin overlapped /\ ~late

Closed == op[Exit].st \in Ended

\* Until a write has started the session, one write sends at a time.
StartInv ==
    /\ session.position = 0
    /\ \A v, w \in Writes : Sending(v) /\ Sending(w) => v = w
    /\ \A w \in Writes :
        /\ op[w].st # "continue" /\ (Sending(w) => op[w].position = 0)
        /\ op[w].st = "served" => open = <<op[w].sent>>
    /\ \A k \in 2..Len(taken) : op[taken[k]].st # "ok"

\* From then on the session holds chunks that were taken, in their order, and
\* what still fits behind them was taken later.
ContinueInv ==
    /\ open # Missing /\ session.position <= Len(open)
    /\ \A i \in 1..Len(open) : \E k \in 2..Len(taken) : open[i] = taken[k - 1]
    /\ \A i, j \in 1..Len(open) : i < j => Before(taken, open[i], open[j])
    /\ \A w \in Writes :
        /\ op[w].st \notin {"add_empty", "start"}
        /\ op[w].st = "continue" =>
             /\ op[w].position <= Len(open)
             /\ op[w].position = Len(open) => \A i \in 1..Len(open) : Before(taken, open[i], op[w].sent)
        /\ op[w].st = "served" => op[w].position + 1 <= Len(open)
    /\ \A k \in 2..Len(taken) :
        op[taken[k]].st \in {"ok", "served"} => \E i \in 1..Len(open) : open[i] = taken[k - 1]

SessionHolds == Sound /\ ~Closed => IF session.started THEN ContinueInv ELSE StartInv

LossInv ==
    /\ TypeOK /\ ExitAlone
    /\ BufferInv /\ PositionInv /\ ClosingInv /\ SessionHolds /\ LossIsVisible
-----------------------------------------------------------------------------
LEMMA TypesHold == TypeOK => Types
<1> SUFFICES ASSUME TypeOK PROVE Types
    OBVIOUS
<1> USE Names, BoundsAssumption
<1>1. overwrite \in BOOLEAN /\ faults \in Nat /\ cancels \in Nat
    BY DEF TypeOK
<1>2. session \in [pending : Ops, started : BOOLEAN, position : Nat] /\ op \in [Ops -> Calls]
    BY DEF TypeOK, Calls
<1>3. stray \subseteq Requested
    BY DEF TypeOK, Requested
<1>4. open \in Seq(Nat)
  <2>1. open \in Seq(0..(MaxWrites + 1)) /\ 0..(MaxWrites + 1) \subseteq Nat
      BY DEF TypeOK, Strings
  <2> QED BY <2>1, SeqMonotonic
<1> QED BY <1>1, <1>2, <1>3, <1>4 DEF Types

\* Each write takes one chunk.
LEMMA TakenFacts ==
    ASSUME TypeOK, BufferInv
    PROVE  /\ taken \in Seq(Ops) /\ Len(taken) \in Nat /\ Len(taken) <= MaxWrites
           /\ \A k \in 1..Len(taken) : taken[k] \in Writes /\ taken[k] # None /\ taken[k] # Exit
<1>1. /\ taken \in Seq(0..(MaxWrites + 1))
      /\ \A k \in 1..Len(taken) : taken[k] \in Writes
    BY DEF TypeOK, BufferInv, Strings
<1>2. Len(taken) \in Nat /\ taken \in [1..Len(taken) -> 0..(MaxWrites + 1)]
    BY <1>1, LenProperties
<1>3. taken \in [1..Len(taken) -> Writes]
    BY <1>1, <1>2
<1>4. Len(taken) <= MaxWrites
  <2> SUFFICES ASSUME Len(taken) > MaxWrites PROVE FALSE
      BY <1>2, BoundsAssumption
  <2>1. 1 \in Int /\ Len(taken) \in Int /\ MaxWrites \in Int
      BY <1>2, BoundsAssumption
  <2>2. /\ IsFiniteSet(1..Len(taken)) /\ IsFiniteSet(1..MaxWrites)
        /\ Cardinality(1..Len(taken)) = IF 1 > Len(taken) THEN 0 ELSE Len(taken) - 1 + 1
        /\ Cardinality(1..MaxWrites) = IF 1 > MaxWrites THEN 0 ELSE MaxWrites - 1 + 1
      BY <2>1, FS_Interval
  <2>3. Cardinality(1..MaxWrites) < Cardinality(1..Len(taken))
      BY <1>2, <2>2, BoundsAssumption
  <2>4. \E k, l \in 1..Len(taken) : k # l /\ taken[k] = taken[l]
      BY <1>3, <2>2, <2>3, FS_PigeonHole DEF Writes
  <2> QED BY <2>4 DEF BufferInv
<1>5. taken \in Seq(Ops)
  <2>1. taken \in [1..Len(taken) -> Ops]
      BY <1>3, Names
  <2> QED BY <1>2, <2>1, SeqDef
<1>6. None \notin Writes /\ Exit \notin Writes
    BY DEF None, Exit, Writes
<1> QED BY <1>1, <1>2, <1>4, <1>5, <1>6

LEMMA InitLoss == Init => LossInv
<1> SUFFICES ASSUME Init PROVE LossInv
    OBVIOUS
<1> USE Names DEF Init
<1>1. /\ op \in [Ops -> Calls] /\ \A o \in Ops : op[o].st = "new" /\ op[o].position = 0
    BY DEF NewOp, Calls
<1>2. TypeOK
  <2>1. NewOp \in [st : {"new"} \cup InFlight \cup Ended, sent : Ops, position : 0..MaxWrites]
      BY BoundsAssumption DEF NewOp
  <2>2. {Missing, Old, <<>>} \subseteq Strings
      BY BoundsAssumption DEF Missing, Old, Strings
  <2>3. {file, open, taken} \subseteq Strings
      BY <2>2
  <2>4. op \in [Ops -> [st : {"new"} \cup InFlight \cup Ended, sent : Ops, position : 0..MaxWrites]]
      BY <2>1
  <2>5. session \in [pending : Ops, started : BOOLEAN, position : 0..MaxWrites]
      BY BoundsAssumption
  <2>6. 0 \in 0..MaxFaults /\ 0 \in 0..MaxCancels
      BY BoundsAssumption
  <2> QED BY <1>1, <2>3, <2>4, <2>5, <2>6 DEF TypeOK
<1>3. \A w \in Writes : ~Sending(w)
    BY <1>1 DEF Sending, InRequest
<1>4. taken = <<>> /\ Len(taken) = 0
    OBVIOUS
<1>5. ExitAlone /\ BufferInv
    BY <1>1, <1>3, <1>4 DEF ExitAlone, BufferInv, None
<1>6. PositionInv /\ ClosingInv
    BY <1>1, <1>3, <1>4 DEF PositionInv, ClosingInv
<1>7. StartInv
    BY <1>1, <1>3, <1>4 DEF StartInv
<1>8. SessionHolds /\ LossIsVisible
    BY <1>1, <1>7 DEF SessionHolds, LossIsVisible
<1> QED BY <1>2, <1>5, <1>6, <1>8 DEF LossInv
-----------------------------------------------------------------------------
(* Types, with the bounds on positions. *)

States  == {"new"} \cup InFlight \cup Ended
Records == [st : States, sent : Ops, position : 0..MaxWrites]

\* A step that only takes a call to another state.
Settle(o, s) == op' = [op EXCEPT ![o].st = s] /\ taken' = taken

LEMMA Settled ==
    ASSUME TypeOK, NEW o \in Ops, NEW s, Settle(o, s)
    PROVE  /\ \A x \in Ops \ {o} : op'[x] = op[x]
           /\ op'[o].st = s /\ op'[o].sent = op[o].sent /\ op'[o].position = op[o].position
           /\ s \in States => op' \in [Ops -> Records]
    BY DEF TypeOK, Settle, States, Records

\* The steps but for those that look at the session.
LEMMA Settling ==
    /\ \A w \in Writes : /\ Call(w) => Settle(w, "called")
                         /\ Store(w) => Settle(w, "ok")
                         /\ Cancel(w) => Settle(w, "cancelled")
    /\ \A o \in Ops : /\ Accepted(o) => Settle(o, After(o))
                      /\ Rejected(o) \/ Fault(o) => Settle(o, "raised")
    BY DEF Settle, Call, Store, Cancel, Accepted, Rejected, Fault, history

LEMMA ServedTypes ==
    ASSUME TypeOK, NEW r, r.sent \in Ops, Serve(r)
    PROVE  {file', open'} \subseteq Strings
<1>1. r.sent \in 0..(MaxWrites + 1)
    BY BoundsAssumption DEF Ops, Exit, Writes
<1>2. /\ <<r.sent>> \in Strings /\ Append(open, r.sent) \in Strings
      /\ Missing \in Strings /\ <<>> \in Strings /\ file \in Strings /\ open \in Strings
    BY <1>1, BoundsAssumption DEF TypeOK, Strings, Missing
<1>3. file' \in {<<r.sent>>, <<>>, Append(open, r.sent), file}
  <2>1. CASE r.st = "add"
      BY <2>1, Zenon DEF Serve
  <2>2. CASE r.st = "add_empty"
      BY <2>2, Zenon DEF Serve
  <2>3. CASE r.st = "finish"
      BY <2>3, Zenon DEF Serve
  <2>4. CASE r.st \notin {"add", "add_empty", "finish"}
      BY <2>4, Zenon DEF Serve
  <2> QED BY <2>1, <2>2, <2>3, <2>4
<1>4. open' \in {<<r.sent>>, Append(open, r.sent), Missing}
    BY Serves
<1> QED BY <1>2, <1>3, <1>4

LEMMA TypeStep == TypeOK /\ BufferInv /\ PositionInv /\ [Next]_vars => TypeOK'
<1> SUFFICES ASSUME TypeOK, BufferInv, PositionInv, [Next]_vars PROVE TypeOK'
    OBVIOUS
<1> USE Names, BoundsAssumption
<1>1. /\ op \in [Ops -> Records] /\ {file, open, taken} \subseteq Strings
      /\ session \in [pending : Ops, started : BOOLEAN, position : 0..MaxWrites]
      /\ stray \subseteq [st : InRequest, sent : Ops, position : 0..MaxWrites]
    BY DEF TypeOK, Records, States
<1>2. op' \in [Ops -> Records]
  <2>1. "called" \in States /\ "ok" \in States /\ "cancelled" \in States /\ "raised" \in States
      BY DEF States, InFlight, Ended
  <2>2. \A o \in Ops : After(o) \in States
      BY DEF After, States, InFlight, InRequest, Ended
  <2>3. ASSUME NEW w \in Writes, Call(w) \/ Store(w) \/ Cancel(w) PROVE op' \in [Ops -> Records]
      BY <2>1, <2>3, Settling, Settled
  <2>4. ASSUME NEW o \in Ops, Accepted(o) \/ Rejected(o) \/ Fault(o) PROVE op' \in [Ops -> Records]
      BY <2>1, <2>2, <2>4, Settling, Settled
  <2>5. ASSUME NEW w \in Writes, Begin(w) PROVE op' \in [Ops -> Records]
    <3>1. Dispatched(w) \in Records
        BY <1>1 DEF Dispatched, Records, States, InFlight, InRequest, Ended
    <3> QED BY <1>1, <2>5, <3>1 DEF Begin
  <2>6. ASSUME NEW e \in BOOLEAN, AExit(e) PROVE op' \in [Ops -> Records]
    <3>1. Closing \in Records /\ [NewOp EXCEPT !.st = "skipped"] \in Records
        BY <1>1 DEF Closing, NewOp, Records, States, InFlight, InRequest, Ended
    <3> QED BY <1>1, <2>6, <3>1 DEF AExit
  <2>7. ASSUME UNCHANGED op PROVE op' \in [Ops -> Records]
      BY <1>1, <2>7
  <2> QED BY <2>3, <2>4, <2>5, <2>6, <2>7 DEF Next, vars, Arrives
<1>3. op'[Exit].st \in {"new", "add_empty", "add", "finish"} \cup Ended
  <2>1. op[Exit].st \in {"new", "add_empty", "add", "finish"} \cup Ended
      BY DEF TypeOK
  <2>2. ASSUME NEW w \in Writes, Call(w) \/ Begin(w) \/ Store(w) \/ Cancel(w)
        PROVE  op'[Exit] = op[Exit]
    <3>1. Exit \in Ops /\ w \in Ops /\ Exit # w
        OBVIOUS
    <3>2. CASE Begin(w)
        BY <1>1, <3>1, <3>2 DEF Begin
    <3>3. CASE Call(w) \/ Store(w) \/ Cancel(w)
        BY <3>1, <3>3, Settling, Settled
    <3> QED BY <2>2, <3>2, <3>3
  <2>3. ASSUME NEW o \in Ops, Accepted(o) \/ Rejected(o) \/ Fault(o)
        PROVE  op'[Exit] = op[Exit] \/ op'[Exit].st \in Ended
      BY <2>3, Settling, Settled DEF After, Ended
  <2>4. ASSUME NEW e \in BOOLEAN, AExit(e)
        PROVE  op'[Exit].st \in {"new", "add_empty", "add", "finish"} \cup Ended
      BY <1>1, <2>4 DEF AExit, Closing, NewOp, Ended
  <2> QED BY <2>1, <2>2, <2>3, <2>4 DEF Next, vars, Arrives
<1>4. session' \in [pending : Ops, started : BOOLEAN, position : 0..MaxWrites]
  <2>1. ASSUME NEW w \in Writes, Begin(w)
        PROVE  session' \in [pending : Ops, started : BOOLEAN, position : 0..MaxWrites]
      BY <1>1, <2>1 DEF Begin
  <2>2. ASSUME NEW w \in Writes, Store(w)
        PROVE  session' \in [pending : Ops, started : BOOLEAN, position : 0..MaxWrites]
    <3>1. op[w].position + 2 <= Len(taken) /\ op[w].position \in Nat
        BY <1>1, <2>2 DEF Store, PositionInv, Sending, Records
    <3>2. op[w].position + 1 \in 0..MaxWrites
        BY <3>1, TakenFacts
    <3> QED BY <1>1, <2>2, <3>2 DEF Store, NewPosition
  <2>3. ASSUME UNCHANGED session
        PROVE  session' \in [pending : Ops, started : BOOLEAN, position : 0..MaxWrites]
      BY <1>1, <2>3
  <2> QED BY <2>1, <2>2, <2>3 DEF Next, vars, Call, Cancel, AExit, Accepted, Rejected, Fault, Arrives
<1>5. ASSUME NEW r, r.sent \in Ops, Serve(r) PROVE {file', open'} \subseteq Strings
    BY <1>5, ServedTypes
<1>6. \A o \in Ops : op[o].st \in InRequest =>
          op[o].sent \in Ops /\ op[o] \in [st : InRequest, sent : Ops, position : 0..MaxWrites]
    BY <1>1 DEF Records
<1>7. /\ {file', open'} \subseteq Strings
      /\ stray' \subseteq [st : InRequest, sent : Ops, position : 0..MaxWrites]
  <2> DEFINE Kept == /\ {file', open'} \subseteq Strings
                     /\ stray' \subseteq [st : InRequest, sent : Ops, position : 0..MaxWrites]
  <2>1. ASSUME NEW o \in Ops, op[o].st \in InRequest, Leaves(op[o]) PROVE Kept
      BY <1>1, <1>5, <1>6, <2>1 DEF Leaves, server
  <2>2. ASSUME NEW o \in Ops, Accepted(o) \/ Rejected(o) \/ Fault(o) PROVE Kept
      BY <1>1, <1>5, <1>6, <2>1, <2>2 DEF Accepted, Rejected, Fault, server
  <2>3. ASSUME NEW w \in Writes, Cancel(w) PROVE Kept
      BY <1>1, <2>1, <2>3 DEF Cancel, server
  <2>4. ASSUME NEW r \in stray, Arrives(r) PROVE Kept
      BY <1>1, <1>5, <2>4 DEF Arrives, server
  <2>5. ASSUME UNCHANGED <<server, stray>> PROVE Kept
      BY <1>1, <2>5 DEF server
  <2> QED BY <2>2, <2>3, <2>4, <2>5 DEF Next, vars, Call, Begin, Store, AExit
<1>8. taken' \in Strings
  <2>1. ASSUME NEW w \in Writes, Begin(w) PROVE taken' \in Strings
    <3>1. w \in 0..(MaxWrites + 1)
        BY DEF Writes
    <3> QED BY <1>1, <2>1, <3>1 DEF Begin, Strings
  <2> QED BY <1>1, <2>1 DEF Next, vars, history, Call, Store, Cancel, AExit, Accepted, Rejected,
                            Fault, Arrives
<1>9. /\ overwrite' \in BOOLEAN /\ overlapped' \subseteq {"starting", "started"}
      /\ late' \in BOOLEAN /\ faults' \in 0..MaxFaults /\ cancels' \in 0..MaxCancels
  <2> DEFINE Kept == /\ overwrite' \in BOOLEAN /\ overlapped' \subseteq {"starting", "started"}
                     /\ late' \in BOOLEAN /\ faults' \in 0..MaxFaults /\ cancels' \in 0..MaxCancels
  <2>1. /\ overwrite \in BOOLEAN /\ overlapped \subseteq {"starting", "started"}
        /\ late \in BOOLEAN /\ faults \in 0..MaxFaults /\ cancels \in 0..MaxCancels
      BY DEF TypeOK
  <2>2. ASSUME NEW w \in Writes, Call(w) \/ Begin(w) \/ Store(w) PROVE Kept
      BY <2>1, <2>2 DEF Call, Begin, Store, history, bounds
  <2>3. ASSUME NEW w \in Writes, Cancel(w) PROVE Kept
      BY <2>1, <2>3 DEF Cancel, history
  <2>4. ASSUME NEW o \in Ops, Accepted(o) \/ Rejected(o) \/ Fault(o) PROVE Kept
      BY <2>1, <2>4 DEF Accepted, Rejected, Fault, history, bounds
  <2>5. ASSUME NEW e \in BOOLEAN, AExit(e) PROVE Kept
      BY <2>1, <2>5 DEF AExit, history, bounds
  <2>6. ASSUME NEW r \in stray, Arrives(r) PROVE Kept
      BY <2>1, <2>6 DEF Arrives, bounds
  <2>7. ASSUME UNCHANGED vars PROVE Kept
      BY <2>1, <2>7 DEF vars, history, bounds
  <2> QED BY <2>2, <2>3, <2>4, <2>5, <2>6, <2>7 DEF Next
<1> QED BY <1>2, <1>3, <1>4, <1>7, <1>8, <1>9 DEF TypeOK, Records, States
-----------------------------------------------------------------------------
(* What the calls have taken, and where they believe the session to be. *)

\* Once the block has been left, no write changes anything.
LEMMA AfterExit ==
    ASSUME TypeOK, ExitAlone, [Next]_vars, op[Exit].st # "new"
    PROVE  /\ UNCHANGED <<session, taken>> /\ \A w \in Writes : op'[w] = op[w]
           /\ \/ op'[Exit] = op[Exit]
              \/ op[Exit].st \in InRequest /\ op'[Exit].st \in {"ok", "raised"}
<1> USE Names
<1>1. \A w \in Writes : op[w].st \notin InFlight
    BY DEF ExitAlone
<1>2. \A w \in Writes : ~(Call(w) \/ Begin(w) \/ Store(w) \/ Cancel(w))
    BY <1>1 DEF Call, Begin, Store, Cancel, InFlight
<1>3. ASSUME NEW o \in Ops, Accepted(o) \/ Rejected(o) \/ Fault(o)
      PROVE  /\ o = Exit /\ UNCHANGED <<session, taken>> /\ \A w \in Writes : op'[w] = op[w]
             /\ op[Exit].st \in InRequest /\ op'[Exit].st \in {"ok", "raised"}
  <2>1. op[o].st \in InRequest /\ UNCHANGED session
      BY <1>3 DEF Accepted, Rejected, Fault
  <2>2. o = Exit
      BY <1>1, <2>1 DEF InFlight
  <2>3. Settle(o, "ok") \/ Settle(o, "raised")
      BY <1>3, <2>2, Settling DEF After
  <2> QED BY <2>1, <2>2, <2>3, Settled DEF Settle
<1>4. \A e \in BOOLEAN : ~AExit(e)
    BY DEF AExit
<1>5. ASSUME UNCHANGED op PROVE op'[Exit] = op[Exit] /\ \A w \in Writes : op'[w] = op[w]
    BY <1>5
<1> QED BY <1>2, <1>3, <1>4, <1>5 DEF Next, vars, Arrives, history

\* A call that goes from state to state keeps the chunk it has taken.
LEMMA BufferSettles ==
    ASSUME TypeOK, BufferInv, NEW o \in Ops, NEW s, Settle(o, s),
           session'.pending = session.pending, s \notin {"new", "skipped", "add", "finish"},
           s = "called" => op[o].st = "new",
           s \in InRequest \cup {"served"} => Sending(o)
    PROVE  BufferInv'
<1> USE Names
<1>1. /\ taken' = taken /\ Len(taken) \in Nat
      /\ \A k \in 1..Len(taken) : taken[k] \in Writes
      /\ \A x \in Ops : x # o => op'[x] = op[x]
      /\ op'[o].st = s /\ op'[o].sent = op[o].sent
  <2>1. taken' = taken
      BY DEF Settle
  <2>2. Len(taken) \in Nat /\ \A k \in 1..Len(taken) : taken[k] \in Writes
      BY TakenFacts
  <2> QED BY <2>1, <2>2, Settled
<1>2. \A k \in 1..Len(taken) : op'[taken[k]].st \notin {"new", "called"}
    BY <1>1 DEF BufferInv
<1>3. ASSUME NEW k \in 2..Len(taken) PROVE op'[taken[k]].sent = taken[k - 1]
  <2>1. k \in 1..Len(taken) /\ op[taken[k]].sent = taken[k - 1]
      BY <1>1 DEF BufferInv
  <2>2. op'[taken[k]].sent = op[taken[k]].sent
      BY <1>1, <2>1
  <2> QED BY <2>1, <2>2
<1>4. \A w \in Writes : op'[w].st \notin {"skipped", "add", "finish"}
    BY <1>1 DEF BufferInv
<1>5. ASSUME NEW w \in Writes, Sending(w)' PROVE Sending(w)
    BY <1>1, <1>5 DEF Sending
<1> QED BY <1>1, <1>2, <1>3, <1>4, <1>5 DEF BufferInv

\* A write buffers its chunk, and takes the one buffered last.
LEMMA BufferBegins ==
    ASSUME TypeOK, BufferInv, NEW w \in Writes, Begin(w)
    PROVE  BufferInv'
<1> USE Names
<1>1. /\ op \in [Ops -> Records] /\ session \in [pending : Ops, started : BOOLEAN, position : 0..MaxWrites]
      /\ op[w].st = "called" /\ op' = [op EXCEPT ![w] = Dispatched(w)]
      /\ session' = [session EXCEPT !.pending = w] /\ taken' = Append(taken, w)
    BY DEF TypeOK, Begin, Records, States
<1>2. /\ \A x \in Ops : x # w => op'[x] = op[x]
      /\ op'[w] = Dispatched(w) /\ session'.pending = w
    BY <1>1
<1>3. /\ taken \in Seq(Ops) /\ Len(taken) \in Nat
      /\ \A k \in 1..Len(taken) : taken[k] \in Writes /\ taken[k] # None /\ taken[k] # w
    BY <1>1, TakenFacts DEF BufferInv
<1>4. /\ Len(taken') = Len(taken) + 1 /\ taken'[Len(taken) + 1] = w
      /\ \A k \in 1..Len(taken) : taken'[k] = taken[k]
      /\ taken' # <<>>
    BY <1>1, <1>3
<1>5. /\ op'[w].st \in {"ok", "continue", "add_empty"}
      /\ session.pending # None => op'[w].sent = session.pending
      /\ session.pending = None => op'[w].st = "ok"
    BY <1>1, <1>2 DEF Dispatched, Records
<1>6. ASSUME NEW k \in 1..Len(taken') PROVE taken'[k] \in Writes /\ op'[taken'[k]].st \notin {"new", "called"}
  <2>1. CASE k = Len(taken) + 1
      BY <1>2, <1>4, <1>5, <2>1
  <2>2. CASE k \in 1..Len(taken)
    <3>1. taken[k] \in Writes /\ op[taken[k]].st \notin {"new", "called"}
        BY <2>2 DEF BufferInv
    <3>2. taken'[k] = taken[k] /\ op'[taken[k]] = op[taken[k]]
        BY <1>2, <1>3, <1>4, <2>2
    <3> QED BY <3>1, <3>2
  <2> QED BY <1>3, <1>4, <2>1, <2>2
<1>7. ASSUME NEW k \in 1..Len(taken'), NEW l \in 1..Len(taken'), taken'[k] = taken'[l] PROVE k = l
  <2>1. (k \in 1..Len(taken) \/ k = Len(taken) + 1) /\ (l \in 1..Len(taken) \/ l = Len(taken) + 1)
      BY <1>3, <1>4
  <2> QED BY <1>3, <1>4, <1>7, <2>1 DEF BufferInv
<1>8. taken # <<>> => /\ session.pending = taken[Len(taken)] /\ session.pending # None
                      /\ Len(taken) \in 1..Len(taken)
    BY <1>3 DEF BufferInv
<1>9. ASSUME NEW k \in 2..Len(taken') PROVE op'[taken'[k]].sent = taken'[k - 1]
  <2>1. CASE k = Len(taken) + 1
    <3>1. taken # <<>> /\ k - 1 = Len(taken) /\ k - 1 \in 1..Len(taken)
        BY <1>3, <1>4, <2>1
    <3> QED BY <1>4, <1>5, <1>8, <2>1, <3>1
  <2>2. CASE k \in 2..Len(taken)
    <3>1. /\ k \in 1..Len(taken) /\ k - 1 \in 1..Len(taken)
          /\ op[taken[k]].sent = taken[k - 1]
        BY <1>3, <2>2 DEF BufferInv
    <3>2. op'[taken'[k]] = op[taken[k]] /\ taken'[k - 1] = taken[k - 1]
        BY <1>2, <1>3, <1>4, <3>1
    <3> QED BY <3>1, <3>2
  <2> QED BY <1>3, <1>4, <2>1, <2>2
<1>10. ASSUME NEW v \in Writes
       PROVE  /\ op'[v].st \notin {"skipped", "add", "finish"}
              /\ Sending(v)' => \E k \in 2..Len(taken') : v = taken'[k]
  <2>1. CASE v = w
    <3>1. op'[v].st \notin {"skipped", "add", "finish"}
        BY <1>5, <2>1
    <3>2. ASSUME Sending(v)' PROVE Len(taken) + 1 \in 2..Len(taken')
      <4>1. session.pending # None
          BY <1>5, <2>1, <3>2 DEF Sending, InRequest
      <4>2. taken # <<>>
          BY <4>1 DEF BufferInv
      <4> QED BY <1>3, <1>4, <4>2
    <3> QED BY <1>4, <2>1, <3>1, <3>2
  <2>2. CASE v # w
    <3>1. op'[v].st \notin {"skipped", "add", "finish"}
        BY <1>2, <2>2 DEF BufferInv
    <3>2. ASSUME Sending(v)' PROVE \E k \in 2..Len(taken') : v = taken'[k]
      <4>1. PICK k \in 2..Len(taken) : v = taken[k]
          BY <1>2, <2>2, <3>2 DEF BufferInv, Sending
      <4>2. k \in 2..Len(taken') /\ taken'[k] = taken[k]
          BY <1>3, <1>4
      <4> QED BY <4>1, <4>2
    <3> QED BY <3>1, <3>2
  <2> QED BY <2>1, <2>2
<1>11. session'.pending = taken'[Len(taken')]
    BY <1>2, <1>3, <1>4
<1> QED BY <1>4, <1>6, <1>7, <1>9, <1>10, <1>11 DEF BufferInv

LEMMA BufferStep == TypeOK /\ BufferInv /\ [Next]_vars => BufferInv'
<1> SUFFICES ASSUME TypeOK, BufferInv, [Next]_vars PROVE BufferInv'
    OBVIOUS
<1> USE Names
<1>1. ASSUME NEW w \in Writes, Call(w) PROVE BufferInv'
  <2>1. Settle(w, "called") /\ op[w].st = "new" /\ session' = session
      BY <1>1, Settling DEF Call
  <2> QED BY <2>1, BufferSettles DEF InRequest
<1>2. ASSUME NEW w \in Writes, Store(w) PROVE BufferInv'
  <2>1. Settle(w, "ok") /\ session'.pending = session.pending
      BY <1>2, Settling DEF Store, TypeOK
  <2> QED BY <2>1, BufferSettles DEF InRequest
<1>3. ASSUME NEW w \in Writes, Cancel(w) PROVE BufferInv'
  <2>1. Settle(w, "cancelled") /\ session' = session
      BY <1>3, Settling DEF Cancel
  <2> QED BY <2>1, BufferSettles DEF InRequest
<1>4. ASSUME NEW o \in Ops, Accepted(o) PROVE BufferInv'
  <2>1. Settle(o, After(o)) /\ session' = session /\ Sending(o)
      BY <1>4, Settling DEF Accepted, Sending
  <2>2. After(o) \notin {"new", "skipped", "add", "finish", "called"}
      BY DEF After
  <2> QED BY <2>1, <2>2, BufferSettles
<1>5. ASSUME NEW o \in Ops, Rejected(o) \/ Fault(o) PROVE BufferInv'
  <2>1. Settle(o, "raised") /\ session' = session
      BY <1>5, Settling DEF Rejected, Fault
  <2> QED BY <2>1, BufferSettles DEF InRequest
<1>6. ASSUME NEW e \in BOOLEAN, AExit(e) PROVE BufferInv'
  <2>1. UNCHANGED <<session, taken>> /\ \A w \in Writes : op'[w] = op[w]
      BY <1>6 DEF AExit, TypeOK, history
  <2>2. \A w \in Writes : Sending(w)' <=> Sending(w)
      BY <2>1 DEF Sending
  <2>3. \A k \in 2..Len(taken) : k \in 1..Len(taken)
      BY TakenFacts
  <2>4. \A k \in 1..Len(taken) : taken[k] \in Writes /\ op'[taken[k]] = op[taken[k]]
      BY <2>1 DEF BufferInv
  <2>5. \A k \in 2..Len(taken) : op'[taken[k]].sent = taken[k - 1]
      BY <2>3, <2>4 DEF BufferInv
  <2> QED BY <2>1, <2>2, <2>4, <2>5 DEF BufferInv
<1>7. ASSUME UNCHANGED <<session, op, taken>> PROVE BufferInv'
    BY <1>7 DEF BufferInv, Sending
<1> QED BY <1>1, <1>2, <1>3, <1>4, <1>5, <1>6, <1>7, BufferBegins DEF Next, vars, Arrives, history

LEMMA PositionSettles ==
    ASSUME TypeOK, PositionInv, NEW o \in Ops, NEW s, Settle(o, s), session' = session,
           s \in InRequest \cup {"served"} => Sending(o)
    PROVE  PositionInv'
<1>1. ASSUME NEW w \in Writes, Sending(w)' PROVE Sending(w) /\ op'[w].position = op[w].position
    BY <1>1, Names, Settled DEF Sending
<1>2. taken' = taken
    BY DEF Settle
<1> QED BY <1>1, <1>2 DEF PositionInv

LEMMA PositionStep == TypeOK /\ BufferInv /\ PositionInv /\ [Next]_vars => PositionInv'
<1> SUFFICES ASSUME TypeOK, BufferInv, PositionInv, [Next]_vars PROVE PositionInv'
    OBVIOUS
<1> USE Names
<1>0. /\ op \in [Ops -> Records] /\ Len(taken) \in Nat /\ taken \in Seq(Ops)
      /\ session \in [pending : Ops, started : BOOLEAN, position : 0..MaxWrites]
    BY TakenFacts DEF TypeOK, Records, States
<1>1. ASSUME NEW w \in Writes, Call(w) \/ Cancel(w) PROVE PositionInv'
  <2>1. session' = session /\ (Settle(w, "called") \/ Settle(w, "cancelled"))
      BY <1>1, Settling DEF Call, Cancel
  <2> QED BY <2>1, PositionSettles DEF InRequest
<1>2. ASSUME NEW w \in Writes, Begin(w) PROVE PositionInv'
  <2>1. /\ \A x \in Ops : x # w => op'[x] = op[x]
        /\ op'[w] = Dispatched(w) /\ Len(taken') = Len(taken) + 1
        /\ session'.position = session.position /\ session'.started = session.started
      BY <1>0, <1>2 DEF Begin
  <2>2. ASSUME NEW v \in Writes, Sending(v)' PROVE op'[v].position + 2 <= Len(taken')
    <3>1. CASE v = w
      <4>0. session.pending = None => Dispatched(w).st = "ok"
          BY <1>0 DEF Dispatched, Records
      <4>1. session.pending # None /\ op'[w].position = session.position
        <5>1. Dispatched(w).st \in InRequest \cup {"served"}
            BY <2>1, <2>2, <3>1 DEF Sending
        <5>2. session.pending # None
            BY <4>0, <5>1 DEF InRequest
        <5>3. Dispatched(w).position = session.position
            BY <5>2 DEF Dispatched
        <5> QED BY <2>1, <5>2, <5>3
      <4>2. taken # <<>>
          BY <4>1 DEF BufferInv
      <4>3. Len(taken) >= 1
          BY <1>0, <4>2
      <4>4. session.position = 0 \/ session.position + 1 <= Len(taken)
          BY DEF PositionInv
      <4>5. session.position \in Nat
          BY <1>0
      <4> QED BY <1>0, <2>1, <3>1, <4>1, <4>3, <4>4, <4>5
    <3>2. CASE v # w
      <4>1. op'[v] = op[v] /\ op[v] \in Records
          BY <1>0, <2>1, <3>2
      <4>2. Sending(v)
          BY <2>2, <4>1 DEF Sending
      <4>3. op[v].position + 2 <= Len(taken)
          BY <4>2 DEF PositionInv
      <4>4. op[v].position \in Nat
          BY <4>1 DEF Records
      <4> QED BY <1>0, <2>1, <4>1, <4>3, <4>4
    <3> QED BY <3>1, <3>2
  <2>3. session.position \in Nat
      BY <1>0
  <2>4. session'.position = 0 \/ session'.position + 1 <= Len(taken')
      BY <1>0, <2>1, <2>3 DEF PositionInv
  <2>5. session'.started => Len(taken') >= 2
      BY <1>0, <2>1 DEF PositionInv
  <2> QED BY <2>2, <2>4, <2>5 DEF PositionInv
<1>3. ASSUME NEW w \in Writes, Store(w) PROVE PositionInv'
  <2>1. Settle(w, "ok") /\ session'.position = op[w].position + 1 /\ op[w].st = "served"
      BY <1>0, <1>3, Settling DEF Store, NewPosition
  <2>2. op[w].position + 2 <= Len(taken) /\ op[w].position \in Nat
      BY <1>0, <2>1 DEF PositionInv, Sending, Records
  <2>3. ASSUME NEW v \in Writes, Sending(v)' PROVE op'[v].position + 2 <= Len(taken)
    <3>1. Sending(v) /\ op'[v].position = op[v].position
        BY <2>1, <2>3, Settled DEF Sending, InRequest
    <3> QED BY <3>1 DEF PositionInv
  <2>4. taken' = taken /\ session'.position + 1 <= Len(taken) /\ Len(taken) >= 2
    <3>1. taken' = taken
        BY <2>1 DEF Settle
    <3>2. Len(taken) \in Nat
        BY <1>0
    <3> QED BY <2>1, <2>2, <3>1, <3>2
  <2> QED BY <2>3, <2>4 DEF PositionInv
<1>4. ASSUME NEW o \in Ops, Accepted(o) \/ Rejected(o) \/ Fault(o) PROVE PositionInv'
  <2>1. session' = session /\ (Settle(o, After(o)) \/ Settle(o, "raised")) /\ Sending(o)
      BY <1>4, Settling DEF Accepted, Rejected, Fault, Sending
  <2> QED BY <2>1, PositionSettles
<1>5. ASSUME UNCHANGED <<session, taken>>, \A w \in Writes : op'[w] = op[w] PROVE PositionInv'
    BY <1>5 DEF PositionInv, Sending
<1>6. \A e \in BOOLEAN : AExit(e) => UNCHANGED <<session, taken>> /\ \A w \in Writes : op'[w] = op[w]
    BY <1>0 DEF AExit, history
<1> QED BY <1>1, <1>2, <1>3, <1>4, <1>5, <1>6 DEF Next, vars, Arrives, history

LEMMA ClosingStep ==
    TypeOK /\ ExitAlone /\ BufferInv /\ PositionInv /\ ClosingInv /\ [Next]_vars => ClosingInv'
<1> SUFFICES ASSUME TypeOK, ExitAlone, BufferInv, PositionInv, ClosingInv, [Next]_vars PROVE ClosingInv'
    OBVIOUS
<1> USE Names
<1>1. CASE op[Exit].st # "new"
  <2>1. /\ UNCHANGED <<session, taken>>
        /\ op'[Exit] = op[Exit] \/ op'[Exit].st \in {"ok", "raised"}
      BY <1>1, AfterExit
  <2> QED BY <2>1 DEF ClosingInv
<1>2. CASE op[Exit].st = "new"
  <2>0. /\ op \in [Ops -> Records] /\ Len(taken) \in Nat /\ taken \in Seq(Ops)
        /\ \A k \in 1..Len(taken) : taken[k] # None
      BY TakenFacts DEF TypeOK, Records, States
  <2>1. ASSUME NEW w \in Writes, Call(w) \/ Begin(w) \/ Store(w) \/ Cancel(w) PROVE op'[Exit] = op[Exit]
    <3>1. Exit # w
        OBVIOUS
    <3> QED BY <2>0, <2>1, <3>1 DEF Call, Begin, Store, Cancel
  <2>2. ASSUME NEW o \in Ops, Accepted(o) \/ Rejected(o) \/ Fault(o) PROVE op'[Exit] = op[Exit]
    <3>1. Exit # o
        BY <1>2, <2>2 DEF Accepted, Rejected, Fault, InRequest
    <3> QED BY <2>0, <2>2, <3>1 DEF Accepted, Rejected, Fault
  <2>3. CASE op'[Exit] = op[Exit]
      BY <1>2, <2>3 DEF ClosingInv
  <2>4. ASSUME NEW e \in BOOLEAN, AExit(e) PROVE ClosingInv'
    <3>1. UNCHANGED <<session, taken>> /\ (op'[Exit].st = "skipped" \/ op'[Exit] = Closing)
        BY <2>0, <2>4 DEF AExit, NewOp, history
    <3>2. session.started => taken # <<>>
        BY <2>0 DEF PositionInv
    <3>3. taken # <<>> => Len(taken) \in 1..Len(taken) /\ session.pending = taken[Len(taken)]
        BY <2>0 DEF BufferInv
    <3>4. session.pending = None <=> taken = <<>>
        BY <2>0, <3>3 DEF BufferInv
    <3>5. CASE op'[Exit] = Closing
      <4>1. op'[Exit].sent = session.pending
          BY <3>5 DEF Closing
      <4>2. op'[Exit].st = "add_empty" => taken = <<>>
          BY <3>4, <3>5 DEF Closing
      <4>3. op'[Exit].st = "finish" => session.started
          BY <3>5 DEF Closing
      <4>4. op'[Exit].st = "add" => ~session.started /\ taken # <<>>
          BY <3>4, <3>5 DEF Closing
      <4> QED BY <3>1, <3>2, <3>3, <4>1, <4>2, <4>3, <4>4 DEF ClosingInv
    <3>6. CASE op'[Exit].st = "skipped"
        BY <3>6 DEF ClosingInv
    <3> QED BY <3>1, <3>5, <3>6
  <2> QED BY <2>1, <2>2, <2>3, <2>4 DEF Next, vars, Arrives
<1> QED BY <1>1, <1>2

\* What makes a session unsound is not forgotten, and its end is the end.
LEMMA SoundBefore ==
    ASSUME TypeOK, ExitAlone, [Next]_vars
    PROVE  /\ Sound' => Sound
           /\ ~Closed' => ~Closed
<1> DEFINE Grows == overlapped \subseteq overlapped' /\ (late => late')
<1>1. ASSUME NEW w \in Writes, Call(w) \/ Begin(w) \/ Store(w) \/ Cancel(w) PROVE Grows
    BY <1>1 DEF history, Call, Begin, Store, Cancel
<1>2. ASSUME NEW o \in Ops, Accepted(o) \/ Rejected(o) \/ Fault(o) PROVE Grows
    BY <1>2 DEF history, Accepted, Rejected, Fault
<1>3. Grows
    BY <1>1, <1>2 DEF Next, vars, history, AExit, Arrives
<1>4. Sound' => Sound
    BY <1>3 DEF Sound
<1>5. ASSUME Closed PROVE Closed'
  <2>1. op[Exit].st # "new" /\ op[Exit].st \notin InRequest
      BY <1>5 DEF Closed, Ended, InRequest
  <2>2. op'[Exit] = op[Exit]
      BY <2>1, AfterExit
  <2> QED BY <1>5, <2>2 DEF Closed
<1> QED BY <1>4, <1>5
-----------------------------------------------------------------------------
(* What the upload session on the server holds. *)

LEMMA Leaving == ASSUME NEW r, Leaves(r) PROVE open' = open \/ (~Refused(r) /\ Serve(r))
    BY DEF Leaves, server

\* Before the session is started: one write sends, and none has succeeded that
\* had a chunk to send.
LEMMA StartSettles ==
    ASSUME TypeOK, BufferInv, StartInv, NEW w \in Writes, NEW s, Settle(w, s),
           session'.position = session.position,
           s \in {"called", "start", "served", "raised", "cancelled"},
           s \in InRequest \cup {"served"} => Sending(w),
           s = "served" => open' = <<op[w].sent>>,
           open' = open \/ Sending(w)
    PROVE  StartInv'
<1> USE Names
<1>1. /\ taken' = taken /\ \A x \in Ops : x # w => op'[x] = op[x]
      /\ op'[w].st = s /\ op'[w].sent = op[w].sent /\ op'[w].position = op[w].position
  <2>1. taken' = taken
      BY DEF Settle
  <2>2. w \in Ops
      OBVIOUS
  <2> QED BY <2>1, <2>2, Settled
<1>2. ASSUME NEW v \in Writes, Sending(v)' PROVE Sending(v) /\ op'[v].position = 0
    BY <1>1, <1>2 DEF Sending, StartInv
<1>3. \A u, v \in Writes : Sending(u)' /\ Sending(v)' => u = v
    BY <1>2 DEF StartInv
<1>4. ASSUME NEW v \in Writes PROVE op'[v].st # "continue"
    BY <1>1 DEF StartInv
<1>5. ASSUME NEW v \in Writes, op'[v].st = "served" PROVE open' = <<op'[v].sent>>
  <2>1. CASE v = w
      BY <1>1, <1>5, <2>1
  <2>2. CASE v # w
    <3>1. Sending(v) /\ op[v].st = "served" /\ op'[v] = op[v]
        BY <1>1, <1>5, <2>2 DEF Sending
    <3>2. ~Sending(w)
        BY <2>2, <3>1 DEF StartInv
    <3> QED BY <3>1, <3>2 DEF StartInv
  <2> QED BY <2>1, <2>2
<1>6. ASSUME NEW k \in 2..Len(taken') PROVE op'[taken'[k]].st # "ok"
  <2>1. k \in 1..Len(taken) /\ taken[k] \in Writes /\ op[taken[k]].st # "ok"
      BY <1>1, TakenFacts DEF StartInv
  <2> QED BY <1>1, <2>1
<1>7. session'.position = 0
    BY DEF StartInv
<1> QED BY <1>2, <1>3, <1>4, <1>5, <1>6, <1>7 DEF StartInv

\* A write that begins finds no other, or the starts of the session meet.
LEMMA StartBegins ==
    ASSUME TypeOK, BufferInv, StartInv, ~session.started, Sound', NEW w \in Writes, Begin(w)
    PROVE  StartInv'
<1> USE Names
<1>1. /\ op \in [Ops -> Records] /\ session \in [pending : Ops, started : BOOLEAN, position : 0..MaxWrites]
      /\ op' = [op EXCEPT ![w] = Dispatched(w)] /\ session' = [session EXCEPT !.pending = w]
      /\ op[w].st = "called" /\ taken' = Append(taken, w) /\ open' = open
    BY DEF TypeOK, Begin, Records, States, server
<1>2. /\ \A x \in Ops : x # w => op'[x] = op[x]
      /\ op'[w] = Dispatched(w) /\ session'.position = 0
    BY <1>1 DEF StartInv
<1>3. \A v \in Writes : ~Sending(v)
    BY DEF Begin, Sound
<1>4. /\ Dispatched(w).st \in {"ok", "add_empty"}
      /\ Dispatched(w).st = "ok" => session.pending = None
      /\ Dispatched(w).st = "add_empty" => Dispatched(w).position = session.position
    BY <1>1 DEF Dispatched, Records
<1>5. ASSUME NEW v \in Writes, Sending(v)' PROVE v = w /\ op'[v].position = 0
  <2>1. v = w
      BY <1>2, <1>3, <1>5 DEF Sending
  <2>2. op'[w].st # "ok"
      BY <1>5, <2>1 DEF Sending, InRequest
  <2> QED BY <1>2, <1>4, <2>1, <2>2 DEF StartInv
<1>6. ASSUME NEW v \in Writes PROVE op'[v].st # "continue" /\ op'[v].st # "served"
  <2>1. CASE v = w
      BY <1>2, <1>4, <2>1
  <2>2. CASE v # w
      BY <1>2, <1>3, <2>2 DEF Sending, InRequest
  <2> QED BY <2>1, <2>2
<1>7. ASSUME NEW k \in 2..Len(taken') PROVE op'[taken'[k]].st # "ok"
  <2>0. /\ taken \in Seq(Ops) /\ Len(taken) \in Nat
        /\ \A l \in 1..Len(taken) : taken[l] \in Writes /\ taken[l] # None /\ taken[l] # w
      BY <1>1, TakenFacts DEF BufferInv
  <2>1. CASE k = Len(taken) + 1
    <3>1. Len(taken) \in 1..Len(taken) /\ taken # <<>>
        BY <2>0, <2>1
    <3>2. session.pending # None
        BY <2>0, <3>1 DEF BufferInv
    <3> QED BY <1>1, <1>2, <1>4, <2>0, <2>1, <3>2
  <2>2. CASE k \in 2..Len(taken)
    <3>1. k \in 1..Len(taken) /\ taken'[k] = taken[k] /\ op[taken[k]].st # "ok"
        BY <1>1, <2>0, <2>2 DEF StartInv
    <3> QED BY <1>2, <2>0, <3>1
  <2> QED BY <1>1, <2>0, <2>1, <2>2
<1> QED BY <1>2, <1>5, <1>6, <1>7 DEF StartInv

\* The write that started the session goes back with its chunk in it.
LEMMA StartStores ==
    ASSUME TypeOK, BufferInv, StartInv, NEW w \in Writes, Store(w)
    PROVE  session'.started /\ ContinueInv'
<1> USE Names
<1>1. /\ op \in [Ops -> Records] /\ op[w].st = "served" /\ Settle(w, "ok") /\ open' = open
      /\ session \in [pending : Ops, started : BOOLEAN, position : 0..MaxWrites]
      /\ session' = [session EXCEPT !.started = TRUE, !.position = op[w].position + 1]
    BY Settling DEF TypeOK, Records, States, Store, NewPosition, server
<1>2. /\ taken' = taken /\ \A x \in Ops : x # w => op'[x] = op[x]
      /\ op'[w].st = "ok"
    BY <1>1, Settled DEF Settle
<1>3. Sending(w) /\ \A v \in Writes : v # w => ~Sending(v)
    BY <1>1 DEF Sending, StartInv
<1>4. session'.started /\ session'.position = 1
    BY <1>1, <1>3 DEF StartInv
<1>5. PICK m \in 2..Len(taken) : w = taken[m] /\ op[w].sent = taken[m - 1]
    BY <1>3 DEF BufferInv
<1>6. open' = <<op[w].sent>> /\ op[w].sent # None
  <2>1. m - 1 \in 1..Len(taken)
      BY <1>5, TakenFacts
  <2> QED BY <1>1, <1>5, <2>1, TakenFacts DEF StartInv
<1>7. Len(open') = 1 /\ open'[1] = op[w].sent
    BY <1>6
<1>8. open' # Missing
    BY <1>6, <1>7, MissingIs DEF None
<1>9. \A v \in Writes : op'[v].st \notin {"add_empty", "start", "continue", "served"}
    BY <1>2, <1>3 DEF Sending, InRequest
<1>10. \A i \in 1..Len(open') : \E k \in 2..Len(taken') : open'[i] = taken'[k - 1]
    BY <1>2, <1>5, <1>7
<1>11. \A i, j \in 1..Len(open') : ~(i < j)
    BY <1>7
<1>12. ASSUME NEW k \in 2..Len(taken'), op'[taken'[k]].st \in {"ok", "served"}
       PROVE  \E i \in 1..Len(open') : open'[i] = taken'[k - 1]
  <2>1. k \in 1..Len(taken) /\ m \in 1..Len(taken) /\ taken[k] \in Writes
      BY <1>2, <1>5, TakenFacts
  <2>2. taken[k] = w
    <3>1. ASSUME taken[k] # w PROVE FALSE
      <4>1. op'[taken[k]] = op[taken[k]] /\ ~Sending(taken[k])
          BY <1>2, <1>3, <2>1, <3>1
      <4>2. op[taken[k]].st = "ok"
          BY <1>2, <1>12, <4>1 DEF Sending
      <4> QED BY <1>2, <4>2 DEF StartInv
    <3> QED BY <3>1
  <2>3. k = m
      BY <1>5, <2>1, <2>2 DEF BufferInv
  <2> QED BY <1>2, <1>5, <1>7, <2>3
<1> QED BY <1>4, <1>7, <1>8, <1>9, <1>10, <1>11, <1>12 DEF ContinueInv
-----------------------------------------------------------------------------
(* Once it is started. *)

\* What has been buffered stays in its order.
LEMMA BeforeStays ==
    ASSUME NEW s, NEW t, Len(s) \in Nat, Len(t) \in Nat, Len(s) <= Len(t),
           \A k \in 1..Len(s) : t[k] = s[k], NEW a, NEW b, Before(s, a, b)
    PROVE  Before(t, a, b)
<1>1. PICK k, l \in 1..Len(s) : k < l /\ s[k] = a /\ s[l] = b
    BY DEF Before
<1>2. k \in 1..Len(t) /\ l \in 1..Len(t) /\ t[k] = a /\ t[l] = b
    BY <1>1
<1> QED BY <1>1, <1>2 DEF Before

\* A chunk that fits behind the others is one that was buffered after them.
LEMMA ContinueGrows ==
    ASSUME TypeOK, BufferInv, ContinueInv, NEW w \in Writes, NEW s, Settle(w, s),
           op[w].st = "continue", ~Refused(op[w]), Serve(op[w]), session' = session,
           s \in {"served", "raised", "cancelled"}
    PROVE  ContinueInv'
<1> USE Names
<1>1. /\ taken' = taken /\ op \in [Ops -> Records] /\ open \in Seq(Nat) /\ Len(open) \in Nat
      /\ \A x \in Ops : x # w => op'[x] = op[x]
      /\ op'[w].st = s /\ op'[w].sent = op[w].sent /\ op'[w].position = op[w].position
  <2>1. taken' = taken /\ op \in [Ops -> Records] /\ w \in Ops
      BY DEF Settle, TypeOK, Records, States
  <2>2. open \in Seq(Nat)
      BY TypesHold DEF Types
  <2> QED BY <2>1, <2>2, Settled
<1>2. Len(open) = op[w].position
    BY DEF Refused
<1>3. PICK m \in 2..Len(taken) : w = taken[m] /\ op[w].sent = taken[m - 1]
    BY DEF BufferInv, Sending, InRequest
<1>4. m \in 1..Len(taken) /\ m - 1 \in 1..Len(taken) /\ op[w].sent \in Nat /\ op[w].sent # None
  <2>1. m \in 1..Len(taken) /\ m - 1 \in 1..Len(taken)
      BY TakenFacts
  <2>2. taken[m - 1] \in Ops /\ taken[m - 1] # None
      BY <2>1, TakenFacts
  <2> QED BY <1>3, <2>1, <2>2
<1>5. open' = Append(open, op[w].sent)
    BY Serves
<1>6. /\ Len(open') = Len(open) + 1 /\ open'[Len(open) + 1] = op[w].sent /\ open' # Missing
      /\ \A i \in 1..Len(open) : open'[i] = open[i]
  <2>1. open' # Missing
      BY <1>1, <1>4, <1>5, Received
  <2> QED BY <1>1, <1>4, <1>5, <2>1
<1>7. \A i \in 1..Len(open') : i \in 1..Len(open) \/ i = Len(open) + 1
    BY <1>1, <1>6
<1>8. ASSUME NEW i \in 1..Len(open') PROVE \E k \in 2..Len(taken') : open'[i] = taken'[k - 1]
  <2>1. CASE i \in 1..Len(open)
      BY <1>1, <1>6, <2>1 DEF ContinueInv
  <2>2. CASE i = Len(open) + 1
    <3>1. open'[i] = taken[m - 1]
        BY <1>3, <1>6, <2>2
    <3>2. taken' = taken
        BY <1>1
    <3> QED BY <3>1, <3>2
  <2> QED BY <1>7, <2>1, <2>2
<1>9. ASSUME NEW i \in 1..Len(open'), NEW j \in 1..Len(open'), i < j
      PROVE  Before(taken', open'[i], open'[j])
  <2>1. CASE j \in 1..Len(open)
    <3>1. i \in 1..Len(open)
        BY <1>1, <1>9, <2>1
    <3>2. Before(taken, open[i], open[j])
        BY <1>9, <2>1, <3>1 DEF ContinueInv
    <3> QED BY <1>1, <1>6, <2>1, <3>1, <3>2
  <2>2. CASE j = Len(open) + 1
    <3>1. i \in 1..Len(open)
        BY <1>1, <1>6, <1>9, <2>2
    <3>2. Before(taken, open[i], op[w].sent)
        BY <1>2, <3>1 DEF ContinueInv
    <3> QED BY <1>1, <1>6, <2>2, <3>1, <3>2
  <2> QED BY <1>7, <2>1, <2>2
<1>10. ASSUME NEW v \in Writes
       PROVE  /\ op'[v].st \notin {"add_empty", "start"}
              /\ op'[v].st = "continue" => op'[v].position < Len(open')
              /\ op'[v].st = "served" => op'[v].position + 1 <= Len(open')
  <2>1. CASE v = w
      BY <1>1, <1>2, <1>6, <2>1
  <2>2. CASE v # w
    <3>1. op[v] \in Records /\ op'[v] = op[v]
        BY <1>1, <2>2
    <3>2. op[v].position \in Nat
        BY <3>1 DEF Records
    <3>3. /\ op[v].st \notin {"add_empty", "start"}
          /\ op[v].st = "continue" => op[v].position <= Len(open)
          /\ op[v].st = "served" => op[v].position + 1 <= Len(open)
        BY DEF ContinueInv
    <3> QED BY <1>1, <1>6, <3>1, <3>2, <3>3
  <2> QED BY <2>1, <2>2
<1>11. ASSUME NEW k \in 2..Len(taken'), op'[taken'[k]].st \in {"ok", "served"}
       PROVE  \E i \in 1..Len(open') : open'[i] = taken'[k - 1]
  <2>0. k \in 2..Len(taken) /\ Len(taken) \in Nat
      BY <1>1, TakenFacts
  <2>1. k \in 1..Len(taken) /\ taken[k] \in Writes /\ k \in 2..Len(taken)
      BY <2>0, TakenFacts
  <2>2. CASE taken[k] = w
    <3>1. k = m
        BY <1>3, <1>4, <2>1, <2>2 DEF BufferInv
    <3>2. Len(open) + 1 \in 1..Len(open')
        BY <1>1, <1>6
    <3> QED BY <1>1, <1>3, <1>6, <3>1, <3>2
  <2>3. CASE taken[k] # w
    <3>1. op[taken[k]].st \in {"ok", "served"}
        BY <1>1, <1>11, <2>1, <2>3
    <3>2. PICK i \in 1..Len(open) : open[i] = taken[k - 1]
        BY <2>1, <3>1 DEF ContinueInv
    <3>3. i \in 1..Len(open')
        BY <1>1, <1>6
    <3> QED BY <1>1, <1>6, <3>2, <3>3
  <2> QED BY <2>2, <2>3
<1>12. session'.position <= Len(open')
  <2>1. session.position <= Len(open) /\ session.position \in Nat
      BY DEF ContinueInv, TypeOK
  <2> QED BY <1>1, <1>6, <2>1
<1>13. \A v \in Writes : op'[v].st = "continue" => op'[v].position # Len(open') /\ op'[v].position <= Len(open')
  <2>1. ASSUME NEW v \in Writes PROVE op'[v].position \in Nat
    <3>1. op[v] \in Records /\ op'[v].position = op[v].position
        BY <1>1
    <3> QED BY <3>1 DEF Records
  <2> QED BY <1>1, <1>6, <1>10, <2>1
<1> QED BY <1>6, <1>8, <1>9, <1>10, <1>11, <1>12, <1>13 DEF ContinueInv

\* A call that ends, or whose answer is stored, leaves the session as it is.
LEMMA ContinueSettles ==
    ASSUME TypeOK, BufferInv, ContinueInv, NEW w \in Writes, NEW s, Settle(w, s),
           open' = open, session'.position <= Len(open),
           s \in {"called", "raised", "cancelled"} \/ (s = "ok" /\ op[w].st = "served")
    PROVE  ContinueInv'
<1> USE Names
<1>1. /\ taken' = taken /\ \A x \in Ops : x # w => op'[x] = op[x]
      /\ op'[w].st = s /\ op'[w].sent = op[w].sent /\ op'[w].position = op[w].position
  <2>1. taken' = taken /\ w \in Ops
      BY DEF Settle
  <2> QED BY <2>1, Settled
<1>2. ASSUME NEW v \in Writes, op'[v].st \in {"add_empty", "start", "continue", "served"}
      PROVE  op'[v] = op[v]
    BY <1>1, <1>2
<1>3. ASSUME NEW v \in Writes
      PROVE  /\ op'[v].st \notin {"add_empty", "start"}
             /\ op'[v].st = "continue" =>
                  /\ op'[v].position <= Len(open)
                  /\ op'[v].position = Len(open) =>
                       \A i \in 1..Len(open) : Before(taken, open[i], op'[v].sent)
             /\ op'[v].st = "served" => op'[v].position + 1 <= Len(open)
    BY <1>2 DEF ContinueInv
<1>4. ASSUME NEW k \in 2..Len(taken), op'[taken[k]].st \in {"ok", "served"}
      PROVE  \E i \in 1..Len(open) : open[i] = taken[k - 1]
  <2>1. k \in 1..Len(taken) /\ taken[k] \in Writes
      BY TakenFacts
  <2>2. op[taken[k]].st \in {"ok", "served"}
      BY <1>1, <1>4, <2>1
  <2> QED BY <2>2 DEF ContinueInv
<1> QED BY <1>1, <1>3, <1>4 DEF ContinueInv

\* A write that begins takes a chunk buffered after all that the session holds.
LEMMA ContinueBegins ==
    ASSUME TypeOK, BufferInv, PositionInv, ContinueInv, session.started, NEW w \in Writes, Begin(w)
    PROVE  ContinueInv'
<1> USE Names
<1>1. /\ op \in [Ops -> Records] /\ session \in [pending : Ops, started : BOOLEAN, position : 0..MaxWrites]
      /\ op' = [op EXCEPT ![w] = Dispatched(w)] /\ session' = [session EXCEPT !.pending = w]
      /\ op[w].st = "called" /\ taken' = Append(taken, w) /\ open' = open
      /\ open \in Seq(Nat) /\ Len(open) \in Nat
  <2>1. open \in Seq(Nat)
      BY TypesHold DEF Types
  <2> QED BY <2>1 DEF TypeOK, Begin, Records, States, server
<1>2. /\ taken \in Seq(Ops) /\ Len(taken) \in Nat /\ Len(taken) >= 2
      /\ \A k \in 1..Len(taken) : taken[k] \in Writes /\ taken[k] # None /\ taken[k] # w
    BY <1>1, TakenFacts DEF BufferInv, PositionInv
<1>3. /\ Len(taken') = Len(taken) + 1 /\ taken'[Len(taken) + 1] = w
      /\ \A k \in 1..Len(taken) : taken'[k] = taken[k]
    BY <1>1, <1>2
<1>4. session.pending = taken[Len(taken)] /\ session.pending # None
  <2>1. taken # <<>> /\ Len(taken) \in 1..Len(taken)
      BY <1>2
  <2> QED BY <1>2, <2>1 DEF BufferInv
<1>5. /\ \A x \in Ops : x # w => op'[x] = op[x]
      /\ op'[w].st = "continue" /\ op'[w].sent = taken[Len(taken)] /\ op'[w].position = session.position
      /\ session'.position = session.position
    BY <1>1, <1>4 DEF Dispatched
<1>6. ASSUME NEW a, NEW b, Before(taken, a, b) PROVE Before(taken', a, b)
    BY <1>2, <1>3, <1>6, BeforeStays
<1>7. ASSUME NEW i \in 1..Len(open)
      PROVE  /\ \E k \in 2..Len(taken') : open[i] = taken'[k - 1]
             /\ Before(taken', open[i], taken[Len(taken)])
  <2>1. PICK k \in 2..Len(taken) : open[i] = taken[k - 1]
      BY DEF ContinueInv
  <2>2. /\ k - 1 \in 1..Len(taken') /\ k - 1 \in 1..Len(taken) /\ k \in 2..Len(taken')
        /\ k - 1 < Len(taken) /\ Len(taken) \in 1..Len(taken') /\ Len(taken) \in 1..Len(taken)
      BY <1>2, <1>3
  <2>3. taken'[k - 1] = open[i] /\ taken'[Len(taken)] = taken[Len(taken)]
      BY <1>3, <2>1, <2>2
  <2> QED BY <2>2, <2>3 DEF Before
<1>8. ASSUME NEW v \in Writes
      PROVE  /\ op'[v].st \notin {"add_empty", "start"}
             /\ op'[v].st = "continue" =>
                  /\ op'[v].position <= Len(open)
                  /\ op'[v].position = Len(open) =>
                       \A i \in 1..Len(open) : Before(taken', open[i], op'[v].sent)
             /\ op'[v].st = "served" => op'[v].position + 1 <= Len(open)
  <2>1. CASE v = w
    <3>1. session.position <= Len(open)
        BY DEF ContinueInv
    <3> QED BY <1>5, <1>7, <2>1, <3>1
  <2>2. CASE v # w
    <3>1. op'[v] = op[v]
        BY <1>5, <2>2
    <3>2. op[v].st = "continue" /\ op[v].position = Len(open) =>
             \A i \in 1..Len(open) : Before(taken, open[i], op[v].sent)
        BY DEF ContinueInv
    <3>3. op[v].st = "continue" /\ op[v].position = Len(open) =>
             \A i \in 1..Len(open) : Before(taken', open[i], op[v].sent)
        BY <1>6, <3>2
    <3> QED BY <3>1, <3>3 DEF ContinueInv
  <2> QED BY <2>1, <2>2
<1>9. ASSUME NEW k \in 2..Len(taken'), op'[taken'[k]].st \in {"ok", "served"}
      PROVE  \E i \in 1..Len(open) : open[i] = taken'[k - 1]
  <2>1. k # Len(taken) + 1
      BY <1>3, <1>5, <1>9
  <2>2. k \in 2..Len(taken) /\ k \in 1..Len(taken) /\ k - 1 \in 1..Len(taken)
      BY <1>2, <1>3, <2>1
  <2>3. taken'[k] = taken[k] /\ taken'[k - 1] = taken[k - 1] /\ op'[taken[k]] = op[taken[k]]
      BY <1>2, <1>3, <1>5, <2>2
  <2> QED BY <1>9, <2>2, <2>3 DEF ContinueInv
<1>10. ASSUME NEW i \in 1..Len(open), NEW j \in 1..Len(open), i < j
       PROVE  Before(taken', open[i], open[j])
  <2>1. Before(taken, open[i], open[j])
      BY <1>10 DEF ContinueInv
  <2> QED BY <1>6, <2>1
<1>11. open' = open /\ open # Missing /\ session'.position <= Len(open)
    BY <1>1, <1>5 DEF ContinueInv
<1> QED BY <1>7, <1>8, <1>9, <1>10, <1>11 DEF ContinueInv
-----------------------------------------------------------------------------
\* A write's request that fails may have reached the session or not.
LEMMA HoldsUnderLoss ==
    ASSUME TypeOK, BufferInv, NEW w \in Writes, op[w].st \in InRequest, Leaves(op[w]),
           NEW s, Settle(w, s), s \in {"raised", "cancelled"}, session' = session,
           IF session.started THEN ContinueInv ELSE StartInv
    PROVE  IF session'.started THEN ContinueInv' ELSE StartInv'
<1> USE Names
<1>1. Sending(w) /\ (open' = open \/ (~Refused(op[w]) /\ Serve(op[w])))
    BY Leaving DEF Sending
<1>2. CASE ~session.started
    BY <1>1, <1>2, StartSettles DEF InRequest
<1>3. CASE session.started
  <2>1. session.position <= Len(open) /\ op[w].st \notin {"add_empty", "start"}
      BY <1>3 DEF ContinueInv
  <2>2. CASE open' = open
      BY <1>3, <2>1, <2>2, ContinueSettles
  <2>3. CASE ~Refused(op[w]) /\ Serve(op[w])
    <3>1. CASE op[w].st = "continue"
        BY <1>3, <2>3, <3>1, ContinueGrows
    <3>2. op[w].st \notin {"add", "finish"}
        BY DEF BufferInv
    <3> QED BY <2>1, <3>1, <3>2 DEF InRequest
  <2> QED BY <1>1, <2>2, <2>3
<1> QED BY <1>2, <1>3

LEMMA HoldsUnchanged ==
    ASSUME TypeOK, BufferInv, UNCHANGED <<session, open, taken>>, \A w \in Writes : op'[w] = op[w],
           IF session.started THEN ContinueInv ELSE StartInv
    PROVE  IF session'.started THEN ContinueInv' ELSE StartInv'
<1>1. \A k \in 2..Len(taken) : op'[taken[k]] = op[taken[k]]
  <2>1. \A k \in 2..Len(taken) : k \in 1..Len(taken)
      BY TakenFacts
  <2> QED BY <2>1 DEF BufferInv
<1>2. CASE ~session.started
    BY <1>1, <1>2 DEF StartInv, Sending
<1>3. CASE session.started
    BY <1>1, <1>3 DEF ContinueInv
<1> QED BY <1>2, <1>3

LEMMA SessionStep ==
    TypeOK /\ ExitAlone /\ BufferInv /\ PositionInv /\ SessionHolds /\ [Next]_vars => SessionHolds'
<1> SUFFICES ASSUME TypeOK, ExitAlone, BufferInv, PositionInv, SessionHolds, [Next]_vars,
                    Sound', ~Closed'
             PROVE  IF session'.started THEN ContinueInv' ELSE StartInv'
    BY DEF SessionHolds
<1> USE Names
<1> DEFINE Holds == IF session.started THEN ContinueInv ELSE StartInv
           HoldsNext == IF session'.started THEN ContinueInv' ELSE StartInv'
<1>0. /\ Holds /\ op \in [Ops -> Records]
      /\ session \in [pending : Ops, started : BOOLEAN, position : 0..MaxWrites]
    BY SoundBefore DEF SessionHolds, TypeOK, Records, States
<1>1. ASSUME NEW w \in Writes, NEW s, Settle(w, s), UNCHANGED <<session, open>>,
             s \in {"called", "raised", "cancelled"}
      PROVE  HoldsNext
  <2>1. CASE ~session.started
      BY <1>0, <1>1, <2>1, StartSettles DEF InRequest
  <2>2. CASE session.started
    <3>1. session'.position <= Len(open)
        BY <1>0, <1>1, <2>2 DEF ContinueInv
    <3> QED BY <1>0, <1>1, <2>2, <3>1, ContinueSettles
  <2> QED BY <2>1, <2>2
<1>2. ASSUME NEW w \in Writes, NEW s, Settle(w, s), s \in {"raised", "cancelled"},
             op[w].st \in InRequest, Leaves(op[w]), session' = session
      PROVE  HoldsNext
    BY <1>0, <1>2, HoldsUnderLoss
<1>3. ASSUME NEW w \in Writes, Call(w) PROVE HoldsNext
  <2>1. Settle(w, "called") /\ UNCHANGED <<session, open>>
      BY <1>3, Settling DEF Call, server
  <2> QED BY <1>1, <2>1
<1>4. ASSUME NEW w \in Writes, Begin(w) PROVE HoldsNext
  <2>1. session'.started = session.started
      BY <1>0, <1>4 DEF Begin
  <2> QED BY <1>0, <1>4, <2>1, StartBegins, ContinueBegins
<1>5. ASSUME NEW w \in Writes, Store(w) PROVE HoldsNext
  <2>1. CASE ~session.started
      BY <1>0, <1>5, <2>1, StartStores
  <2>2. CASE session.started
    <3>1. /\ Settle(w, "ok") /\ open' = open /\ op[w].st = "served"
          /\ session'.started /\ session'.position = op[w].position + 1
        BY <1>0, <1>5, Settling DEF Store, NewPosition, server
    <3>2. session'.position <= Len(open)
        BY <1>0, <2>2, <3>1 DEF ContinueInv
    <3> QED BY <1>0, <2>2, <3>1, <3>2, ContinueSettles
  <2> QED BY <2>1, <2>2
<1>6. ASSUME NEW w \in Writes, Cancel(w) PROVE HoldsNext
  <2>1. /\ Settle(w, "cancelled") /\ session' = session
        /\ IF op[w].st \in InRequest THEN Leaves(op[w]) ELSE open' = open
      BY <1>6, Settling DEF Cancel, server
  <2> QED BY <1>1, <1>2, <2>1
<1>7. ASSUME NEW e \in BOOLEAN, AExit(e) PROVE HoldsNext
  <2>1. UNCHANGED <<session, open, taken>> /\ \A w \in Writes : op'[w] = op[w]
      BY <1>0, <1>7 DEF AExit, server, history
  <2> QED BY <1>0, <2>1, HoldsUnchanged
<1>8. ASSUME NEW o \in Ops, Accepted(o) PROVE HoldsNext
  <2>1. /\ Settle(o, After(o)) /\ session' = session /\ op[o].st \in InRequest
        /\ ~Refused(op[o]) /\ Serve(op[o])
      BY <1>8, Settling DEF Accepted
  <2>2. o \in Writes
    <3>1. After(Exit) = "ok"
        BY DEF After
    <3>2. o # Exit
      <4> SUFFICES ASSUME o = Exit PROVE FALSE
          OBVIOUS
      <4>1. op'[Exit].st = "ok"
          BY <2>1, <3>1, Settled
      <4> QED BY <4>1 DEF Closed, Ended
    <3> QED BY <3>2
  <2>3. Sending(o) /\ o # Exit /\ op[o].st \notin {"add", "finish"}
      BY <2>1, <2>2 DEF Sending, BufferInv
  <2>4. CASE ~session.started
    <3>1. op[o].st \in {"add_empty", "start"}
        BY <1>0, <2>1, <2>2, <2>3, <2>4 DEF StartInv, InRequest
    <3>2. After(o) \in {"start", "served"} /\ (After(o) = "served" => op[o].st = "start")
        BY <2>3, <3>1 DEF After
    <3>3. After(o) = "served" => open' = <<op[o].sent>>
        BY <2>1, <3>2, Serves
    <3> QED BY <1>0, <2>1, <2>2, <2>3, <2>4, <3>2, <3>3, StartSettles
  <2>5. CASE session.started
    <3>1. op[o].st = "continue" /\ After(o) = "served"
        BY <1>0, <2>1, <2>2, <2>3, <2>5 DEF ContinueInv, InRequest, After
    <3> QED BY <1>0, <2>1, <2>2, <2>5, <3>1, ContinueGrows
  <2> QED BY <2>4, <2>5
<1>9. ASSUME NEW o \in Ops, Rejected(o) \/ Fault(o) PROVE HoldsNext
  <2>1. /\ Settle(o, "raised") /\ session' = session /\ op[o].st \in InRequest
        /\ open' = open \/ Leaves(op[o])
      BY <1>9, Settling DEF Rejected, Fault, server
  <2>2. o \in Writes
    <3>1. o # Exit
      <4> SUFFICES ASSUME o = Exit PROVE FALSE
          OBVIOUS
      <4>1. op'[Exit].st = "raised"
          BY <2>1, Settled
      <4> QED BY <4>1 DEF Closed, Ended
    <3> QED BY <3>1
  <2> QED BY <1>1, <1>2, <2>1, <2>2
<1>10. ASSUME NEW r \in stray, Arrives(r) PROVE HoldsNext
  <2>1. UNCHANGED <<session, open, taken, op>>
      BY <1>10 DEF Arrives, server, Sound
  <2> QED BY <1>0, <2>1, HoldsUnchanged
<1>11. ASSUME UNCHANGED vars PROVE HoldsNext
    BY <1>0, <1>11, HoldsUnchanged DEF vars, server, history
<1> QED BY <1>3, <1>4, <1>5, <1>6, <1>7, <1>8, <1>9, <1>10, <1>11 DEF Next
-----------------------------------------------------------------------------
(* What __aexit__ commits. *)

\* A write that had a chunk to send and did not succeed was given it up.
LEMMA WritersEnd ==
    ASSUME TypeOK, ExitAlone, BufferInv, op[Exit].st # "new", NEW k \in 2..Len(taken)
    PROVE  op[taken[k]].st = "ok" \/ taken[k - 1] \in GivenUp
<1>1. k \in 1..Len(taken) /\ taken[k] \in Writes /\ op[taken[k]].sent = taken[k - 1]
    BY TakenFacts DEF BufferInv
<1>2. op[taken[k]].st \notin {"new", "skipped"} /\ op[taken[k]].st \notin InFlight
    BY <1>1 DEF BufferInv, ExitAlone
<1>3. op[taken[k]].st \in {"ok", "raised", "cancelled"}
  <2>1. op[taken[k]].st \in {"new"} \cup InFlight \cup Ended
      BY <1>1, Names DEF TypeOK
  <2> QED BY <1>2, <2>1 DEF Ended
<1> QED BY <1>1, <1>3 DEF GivenUp

\* Nothing that a committed file is compared with changes, and the file does
\* only when a request arrives whose caller is gone.
LEMMA AfterEnd ==
    ASSUME TypeOK, ExitAlone, [Next]_vars, op[Exit].st = "ok"
    PROVE  /\ taken' = taken /\ op'[Exit] = op[Exit] /\ \A w \in Writes : op'[w] = op[w]
           /\ ~late' => file' = file
<1> USE Names
<1>1. op[Exit].st # "new" /\ op[Exit].st \notin InFlight
    BY DEF InFlight, InRequest
<1>2. \A o \in Ops : op[o].st \notin InFlight
    BY <1>1 DEF ExitAlone
<1>3. ASSUME NEW w \in Writes PROVE ~Begin(w) /\ ~Store(w) /\ ~Cancel(w)
    BY <1>2 DEF Begin, Store, Cancel, InFlight
<1>4. ASSUME NEW o \in Ops PROVE ~Accepted(o) /\ ~Rejected(o) /\ ~Fault(o)
    BY <1>2 DEF Accepted, Rejected, Fault, InFlight
<1>5. \A w \in Writes : ~Call(w)
    BY <1>1 DEF Call
<1>6. \A e \in BOOLEAN : ~AExit(e)
    BY <1>1 DEF AExit
<1>7. (\E r \in stray : Arrives(r)) \/ UNCHANGED vars
    BY <1>3, <1>4, <1>5, <1>6 DEF Next
<1>8. UNCHANGED <<op, taken>> /\ (~late' => file' = file)
    BY <1>7 DEF Arrives, vars, server, history
<1> QED BY <1>8

\* The request that closes the session.
LEMMA CommitLoss ==
    ASSUME TypeOK, ExitAlone, BufferInv, ClosingInv, SessionHolds, [Next]_vars,
           op[Exit].st # "ok", op'[Exit].st = "ok", Sound'
    PROVE  LossIsVisible'
<1> USE Names
<1>0. /\ taken \in Seq(Ops) /\ Len(taken) \in Nat /\ open \in Seq(Nat) /\ Len(open) \in Nat
      /\ op \in [Ops -> Records]
      /\ op[Exit].st \in {"new", "add_empty", "add", "finish"} \cup Ended
  <2>1. open \in Seq(Nat)
      BY TypesHold DEF Types
  <2> QED BY <2>1, TakenFacts DEF TypeOK, Records, States
<1>1. Accepted(Exit)
  <2>1. ASSUME NEW w \in Writes, Call(w) \/ Begin(w) \/ Store(w) \/ Cancel(w) PROVE FALSE
    <3>1. Exit # w
        OBVIOUS
    <3>2. op'[Exit] = op[Exit]
        BY <1>0, <2>1, <3>1 DEF Call, Begin, Store, Cancel
    <3> QED BY <3>2
  <2>2. ASSUME NEW o \in Ops, Rejected(o) \/ Fault(o) PROVE FALSE
    <3>1. Settle(o, "raised")
        BY <2>2, Settling
    <3>2. op'[Exit] = op[Exit] \/ op'[Exit].st = "raised"
        BY <3>1, Settled
    <3> QED BY <3>2
  <2>3. ASSUME NEW e \in BOOLEAN, AExit(e) PROVE FALSE
      BY <1>0, <2>3 DEF AExit, Closing, NewOp
  <2>4. ASSUME NEW o \in Ops, o # Exit, Accepted(o) PROVE FALSE
    <3>1. op'[Exit] = op[Exit]
        BY <2>4, Settling, Settled
    <3> QED BY <3>1
  <2> QED BY <2>1, <2>2, <2>3, <2>4 DEF Next, vars, Arrives
<1>2. /\ op[Exit].st \in {"add_empty", "add", "finish"} /\ ~Refused(op[Exit]) /\ Serve(op[Exit])
      /\ taken' = taken /\ \A w \in Writes : op'[w] = op[w]
  <2>1. op[Exit].st \in {"add_empty", "add", "finish"}
      BY <1>0, <1>1 DEF Accepted, InRequest, Ended
  <2>2. Exit \in Ops /\ \A w \in Writes : w # Exit
      OBVIOUS
  <2> QED BY <1>0, <1>1, <2>1, <2>2 DEF Accepted, history
<1>3. op[Exit].st # "new" /\ ~Closed /\ Sound
    BY <1>2, SoundBefore DEF Closed, Ended
<1>4. IF session.started THEN ContinueInv ELSE StartInv
    BY <1>3 DEF SessionHolds
<1>5. GivenUp' = GivenUp
    BY <1>2 DEF GivenUp
<1>6. ASSUME NEW k \in 2..Len(taken), op[taken[k]].st # "ok" PROVE taken[k - 1] \in GivenUp
    BY <1>3, <1>6, WritersEnd
<1>7. CASE op[Exit].st = "add_empty"
  <2>1. taken = <<>> /\ file' = <<>>
      BY <1>2, <1>7, Zenon DEF ClosingInv, Serve
  <2>2. ToSet(file') = {} /\ ToSet(taken) = {} /\ Len(file') = 0
      BY <2>1 DEF ToSet
  <2> QED BY <1>2, <2>2 DEF LossIsVisible
<1>8. CASE op[Exit].st = "add"
  <2>1. /\ taken # <<>> /\ op[Exit].sent = taken[Len(taken)] /\ StartInv
      BY <1>4, <1>8 DEF ClosingInv
  <2>2. file' = <<taken[Len(taken)]>>
    <3>1. file' = <<op[Exit].sent>>
        BY <1>2, <1>8, Zenon DEF Serve
    <3> QED BY <2>1, <3>1
  <2>3. Len(file') = 1 /\ file'[1] = taken[Len(taken)] /\ Len(taken) \in 1..Len(taken)
      BY <1>0, <2>1, <2>2
  <2>4. ToSet(file') = {taken[Len(taken)]}
      BY <2>2, <2>3 DEF ToSet
  <2>5. ToSet(file') \subseteq ToSet(taken)
      BY <1>0, <2>3, <2>4 DEF ToSet
  <2>6. ASSUME NEW c \in ToSet(taken) \ ToSet(file') PROVE c \in GivenUp
    <3>1. PICK l \in 1..Len(taken) : c = taken[l]
        BY <1>0 DEF ToSet
    <3>2. l + 1 \in 2..Len(taken) /\ taken[(l + 1) - 1] = c
        BY <1>0, <2>4, <3>1
    <3>3. op[taken[l + 1]].st # "ok"
        BY <2>1, <3>2 DEF StartInv
    <3> QED BY <1>6, <3>2, <3>3
  <2>7. \A i, j \in 1..Len(file') : ~(i < j)
      BY <2>3
  <2> QED BY <1>2, <1>5, <2>5, <2>6, <2>7 DEF LossIsVisible
<1>9. CASE op[Exit].st = "finish"
  <2>1. /\ taken # <<>> /\ op[Exit].sent = taken[Len(taken)] /\ ContinueInv
      BY <1>4, <1>9 DEF ClosingInv
  <2>2. file' = Append(open, taken[Len(taken)])
    <3>1. file' = Append(open, op[Exit].sent)
        BY <1>2, <1>9, Zenon DEF Serve
    <3> QED BY <2>1, <3>1
  <2>3. Len(taken) \in 1..Len(taken) /\ taken[Len(taken)] \in Nat
    <3>1. Len(taken) \in 1..Len(taken)
        BY <1>0, <2>1
    <3>2. taken[Len(taken)] \in Ops
        BY <1>0, <3>1
    <3> QED BY <3>1, <3>2
  <2>4. /\ file' \in Seq(Nat) /\ Len(file') = Len(open) + 1 /\ file'[Len(open) + 1] = taken[Len(taken)]
        /\ \A i \in 1..Len(open) : file'[i] = open[i]
      BY <1>0, <2>2, <2>3
  <2>5. \A i \in 1..Len(file') : i \in 1..Len(open) \/ i = Len(open) + 1
      BY <1>0, <2>4
  <2>6. ASSUME NEW i \in 1..Len(open)
        PROVE  \E k \in 1..Len(taken) : k < Len(taken) /\ file'[i] = taken[k]
    <3>1. PICK k \in 2..Len(taken) : open[i] = taken[k - 1]
        BY <2>1 DEF ContinueInv
    <3>2. k - 1 \in 1..Len(taken) /\ k - 1 < Len(taken)
        BY <1>0
    <3> QED BY <2>4, <3>1, <3>2
  <2>7. ASSUME NEW c \in ToSet(file') PROVE c \in ToSet(taken)
    <3>1. PICK i \in 1..Len(file') : c = file'[i]
        BY <2>4 DEF ToSet
    <3>2. \E k \in 1..Len(taken) : c = taken[k]
        BY <2>3, <2>4, <2>5, <2>6, <3>1
    <3> QED BY <1>0, <3>2 DEF ToSet
  <2>8. ASSUME NEW i \in 1..Len(file'), NEW j \in 1..Len(file'), i < j
        PROVE  Before(taken, file'[i], file'[j])
    <3>1. i \in 1..Len(open)
        BY <1>0, <2>4, <2>8
    <3>2. CASE j \in 1..Len(open)
      <4>1. Before(taken, open[i], open[j])
          BY <2>1, <2>8, <3>1, <3>2 DEF ContinueInv
      <4> QED BY <2>4, <3>1, <3>2, <4>1
    <3>3. CASE j = Len(open) + 1
      <4>1. PICK k \in 1..Len(taken) : k < Len(taken) /\ file'[i] = taken[k]
          BY <2>6, <3>1
      <4> QED BY <2>3, <2>4, <3>3, <4>1 DEF Before
    <3> QED BY <2>5, <3>2, <3>3
  <2>9. ASSUME NEW c \in ToSet(taken) \ ToSet(file') PROVE c \in GivenUp
    <3>0. \A i \in 1..Len(file') : file'[i] # c
        BY <2>4 DEF ToSet
    <3>1. PICK l \in 1..Len(taken) : c = taken[l]
        BY <1>0 DEF ToSet
    <3>2. l # Len(taken)
      <4>1. Len(open) + 1 \in 1..Len(file')
          BY <1>0, <2>4
      <4> QED BY <2>4, <3>0, <3>1, <4>1
    <3>3. l + 1 \in 2..Len(taken) /\ taken[(l + 1) - 1] = c
        BY <1>0, <3>1, <3>2
    <3>4. op[taken[l + 1]].st # "ok"
      <4> SUFFICES ASSUME op[taken[l + 1]].st = "ok" PROVE FALSE
          OBVIOUS
      <4>1. PICK i \in 1..Len(open) : open[i] = c
          BY <2>1, <3>3 DEF ContinueInv
      <4>2. i \in 1..Len(file')
          BY <1>0, <2>4
      <4> QED BY <2>4, <3>0, <4>1, <4>2
    <3> QED BY <1>6, <3>3, <3>4
  <2> QED BY <1>2, <1>5, <2>7, <2>8, <2>9 DEF LossIsVisible
<1> QED BY <1>2, <1>7, <1>8, <1>9

LEMMA LossStep == LossInv /\ [Next]_vars => LossInv'
<1> SUFFICES ASSUME LossInv, [Next]_vars PROVE LossInv'
    OBVIOUS
<1>1. /\ TypeOK /\ ExitAlone /\ BufferInv /\ PositionInv /\ ClosingInv /\ SessionHolds /\ LossIsVisible
    BY DEF LossInv
<1>2. TypeOK' /\ BufferInv' /\ PositionInv' /\ ClosingInv' /\ SessionHolds'
    BY <1>1, TypeStep, BufferStep, PositionStep, ClosingStep, SessionStep
<1>3. ExitAlone'
    BY <1>1, TypesHold, ExitStep
<1>4. LossIsVisible'
  <2>1. CASE ~(op'[Exit].st = "ok" /\ Sound')
      BY <2>1 DEF LossIsVisible, Sound
  <2>2. CASE op'[Exit].st = "ok" /\ Sound' /\ op[Exit].st # "ok"
      BY <1>1, <2>2, CommitLoss
  <2>3. CASE op'[Exit].st = "ok" /\ Sound' /\ op[Exit].st = "ok"
    <3>1. Sound /\ taken' = taken /\ \A w \in Writes : op'[w] = op[w]
        BY <1>1, <2>3, AfterEnd, SoundBefore
    <3>2. file' = file
        BY <1>1, <2>3, AfterEnd DEF Sound
    <3>3. GivenUp' = GivenUp
        BY <3>1 DEF GivenUp
    <3> QED BY <1>1, <2>3, <3>1, <3>2, <3>3 DEF LossIsVisible, Sound
  <2> QED BY <2>1, <2>2, <2>3
<1> QED BY <1>2, <1>3, <1>4 DEF LossInv

LEMMA LossInvariance == Spec => []LossInv
    BY InitLoss, LossStep, PTL DEF Spec

\* However many writes overlap, fail or are cancelled, the calls and the session
\* stay what they are (UploadChunks, write and __aexit__): in particular no
\* position counts more chunks than were written.
THEOREM TypeCorrect == Spec => []TypeOK
    BY LossInvariance, PTL DEF LossInv

\* A file committed by __aexit__ lacks only chunks whose writes raised or were
\* cancelled, and holds the others in the order in which they were written.
THEOREM LossesVisible == Spec => []LossIsVisible
    BY LossInvariance, PTL DEF LossInv
=============================================================================
