--------------------------- MODULE DownloadProofs ---------------------------
(***************************************************************************)
(* Theorems about Download, for every length of a file and of a chunk and  *)
(* any number of readers, failures and cancellations.                      *)
(***************************************************************************)
EXTENDS Download, TLAPS

\* The bytes that are with the application or about to reach it.
Held(i) ==
    \/ i \in got
    \/ \E r \in Readers : call[r].st = "answered" /\ call[r].from < i /\ i <= call[r].to

\* Those are the first m of the file: no position of the session or of a call
\* lies behind them, and they are all there is once the end has been reported.
Reach(m) ==
    /\ \A i \in Nat : Held(i) <=> 1 <= i /\ i <= m
    /\ session.position <= m
    /\ \A r \in Readers :
         /\ call[r].st = "requested" => call[r].position <= m
         /\ call[r].st = "answered" => call[r].to <= m
    /\ ended /\ ~server.short => m = length

CoverInv == ~lost => \E m \in 0..length : Reach(m)

\* A call without an answer has no chunk; an empty one lies at the end.
ChunkOK(r) ==
    /\ call[r].st # "answered" => call[r].from = 0 /\ call[r].to = 0
    /\ call[r].st = "answered" =>
         call[r].from < call[r].to \/ (call[r].from = length /\ call[r].to = length)

ChunksInv == \A r \in Readers : ChunkOK(r)

\* Servers that answer in full let a session finish at the end only.
FinishInv == session.finished /\ ~server.short => session.position = length

\* Calls that have not overlapped are one after another, and so is what they read.
OrderInv ==
    ~lost /\ ~overlapped =>
        /\ ~disorder
        /\ \A r, s \in Readers : call[r].st # "idle" /\ call[s].st # "idle" => r = s
        /\ Idle => session.position = last
        /\ \A r \in Readers :
             /\ call[r].st = "requested" => call[r].position = last /\ session.position = last
             /\ call[r].st = "answered" => call[r].from = last /\ session.position = call[r].to

DownloadInv == TypeOK /\ ChunksInv /\ FinishInv /\ CoverInv /\ OrderInv
-----------------------------------------------------------------------------
\* A session before its first call.
LEMMA FreshInv == length \in Nat /\ server \in Servers /\ Fresh => DownloadInv
<1> SUFFICES ASSUME length \in Nat, server \in Servers, Fresh PROVE DownloadInv
    OBVIOUS
<1> USE ReadsAssumption DEF Fresh
<1>1. TypeOK
  <2>1. length \in Nat /\ 0 \in 0..length
    OBVIOUS
  <2>2. session \in Sessions
    BY <2>1 DEF Sessions
  <2>3. call \in [Readers -> Calls]
    BY <2>1 DEF Calls, NoCall
  <2>4. overlapped \in BOOLEAN /\ disorder \in BOOLEAN /\ lost \in BOOLEAN /\ ended \in BOOLEAN
    OBVIOUS
  <2>5. /\ got \subseteq 1..length /\ last \in 0..length
        /\ faults \in 0..MaxReadFaults /\ cancels \in 0..MaxReadCancels
    BY <2>1
  <2>6. server \in Servers
    OBVIOUS
  <2> QED BY <2>1, <2>2, <2>3, <2>4, <2>5, <2>6, Zenon DEF TypeOK
<1>2. ChunksInv /\ FinishInv /\ OrderInv
    BY DEF ChunksInv, ChunkOK, FinishInv, OrderInv, NoCall, Idle
<1>3. CoverInv
  <2>1. Reach(0)
    BY DEF Reach, Held, NoCall
  <2> QED BY <2>1 DEF CoverInv
<1> QED BY <1>1, <1>2, <1>3 DEF DownloadInv

LEMMA InitInv == Init => DownloadInv
    BY FreshInv, SizesAssumption DEF Init

\* An answer holds no more than the chunk, and ends within the file.
LEMMA AnswerBounds ==
    ASSUME TypeOK, NEW p \in 0..length, NEW n \in Answers(p)
    PROVE  /\ n \in Nat /\ p + n \in 0..length /\ n <= ChunkSize
           /\ n = 0 => p = length
           /\ ~server.short /\ n < ChunkSize => p + n = length
    BY SizesAssumption DEF TypeOK, Answers, MinOf

\* What an answer writes into the session and into its call.
LEMMA AnswerEffect ==
    ASSUME TypeOK, NEW r \in Readers, Answered(r)
    PROVE  \E n \in Answers(call[r].position), total \in {Unknown, Known(length)} :
              /\ call[r].st = "requested"
              /\ session' = [position |-> call[r].position + n, total |-> total,
                             finished |-> IsFinished(n, total, call[r].position + n)]
              /\ call' = [call EXCEPT ![r] = [call[r] EXCEPT !.st = "answered",
                             !.from = call[r].position, !.to = call[r].position + n]]
              /\ UNCHANGED <<given, history, lost, ended, faults, cancels>>
    BY DEF TypeOK, Calls, Answered, NewTotal, NewPosition

\* What the other steps do to the calls: one ends, or begins with what the
\* session says.
LEMMA CallEffects ==
    ASSUME TypeOK, NEW r \in Readers
    PROVE  /\ Deliver(r) \/ Fails(r) \/ Unsatisfiable(r) \/ Cancel(r) =>
                call' = [call EXCEPT ![r] = NoCall] /\ UNCHANGED <<given, session, overlapped>>
           /\ GetChunk(r) /\ ~session.finished =>
                /\ call' = [call EXCEPT ![r] = Begun]
                /\ UNCHANGED <<given, session, got, last, disorder, lost, ended>>
           /\ GetChunk(r) /\ session.finished =>
                ended' = TRUE /\ UNCHANGED <<given, session, call, history, lost>>
    BY DEF Deliver, Fails, Unsatisfiable, Cancel, GetChunk, given, history

\* Type correctness.
LEMMA TypeStep == TypeOK /\ [Next]_vars => TypeOK'
<1> SUFFICES ASSUME TypeOK, [Next]_vars PROVE TypeOK'
    OBVIOUS
<1> USE SizesAssumption, ReadsAssumption
<1>0. NoCall \in Calls
    BY DEF TypeOK, NoCall, Calls
<1>1. ASSUME NEW r \in Readers, GetChunk(r) PROVE TypeOK'
  <2>1. call' \in [Readers -> Calls]
    <3>1. Begun \in Calls
      BY DEF TypeOK, Sessions, Begun, Calls
    <3> QED BY <1>1, <3>1, CallEffects DEF TypeOK, GetChunk
  <2>2. Calls' = Calls /\ Sessions' = Sessions
    BY <1>1 DEF GetChunk, given, Calls, Sessions
  <2>3. overlapped' \in BOOLEAN /\ ended' \in BOOLEAN
    BY <1>1 DEF GetChunk, TypeOK
  <2> QED BY <1>1, <2>1, <2>2, <2>3 DEF GetChunk, given, TypeOK
<1>2. ASSUME NEW r \in Readers, Answered(r) PROVE TypeOK'
  <2>1. PICK n \in Answers(call[r].position), total \in {Unknown, Known(length)} :
              /\ session' = [position |-> call[r].position + n, total |-> total,
                             finished |-> IsFinished(n, total, call[r].position + n)]
              /\ call' = [call EXCEPT ![r] = [call[r] EXCEPT !.st = "answered",
                             !.from = call[r].position, !.to = call[r].position + n]]
              /\ UNCHANGED <<given, history, lost, ended, faults, cancels>>
    BY <1>2, AnswerEffect
  <2>2. call[r] \in Calls /\ call[r].position \in 0..length
    BY DEF TypeOK, Calls
  <2>3. call[r].position + n \in 0..length
    BY <2>2, AnswerBounds
  <2>4. [call[r] EXCEPT !.st = "answered", !.from = call[r].position,
                        !.to = call[r].position + n] \in Calls
    BY <2>2, <2>3 DEF Calls
  <2>5. IsFinished(n, total, call[r].position + n) \in BOOLEAN
    BY DEF IsFinished
  <2>6. session' \in Sessions /\ call' \in [Readers -> Calls]
    BY <2>1, <2>3, <2>4, <2>5 DEF Sessions, TypeOK
  <2>7. Calls' = Calls /\ Sessions' = Sessions
    BY <2>1 DEF given, Calls, Sessions
  <2> QED BY <2>1, <2>6, <2>7 DEF given, history, TypeOK
<1>3. ASSUME NEW r \in Readers, Deliver(r) PROVE TypeOK'
  <2>1. call' \in [Readers -> Calls] /\ Calls' = Calls /\ Sessions' = Sessions
    BY <1>0, <1>3, CallEffects DEF TypeOK, Deliver, given, Calls, Sessions
  <2>2. /\ (call[r].from + 1)..call[r].to \subseteq 1..length /\ call[r].to \in 0..length
    BY DEF TypeOK, Calls
  <2>3. got' \subseteq 1..length /\ last' \in 0..length
    BY <1>3, <2>2 DEF Deliver, TypeOK, given
  <2>4. disorder' \in BOOLEAN /\ ended' \in BOOLEAN
    BY <1>3 DEF Deliver, TypeOK
  <2> QED BY <1>3, <2>1, <2>3, <2>4 DEF Deliver, given, TypeOK
<1>4. ASSUME NEW r \in Readers, Fails(r) \/ Unsatisfiable(r) \/ Cancel(r) PROVE TypeOK'
  <2>1. call' \in [Readers -> Calls] /\ Calls' = Calls /\ Sessions' = Sessions
    <3>1. call' = [call EXCEPT ![r] = NoCall] /\ UNCHANGED <<given, session, overlapped>>
      BY <1>4, CallEffects
    <3> QED BY <1>0, <3>1 DEF TypeOK, given, Calls, Sessions
  <2>2. lost' \in BOOLEAN
    BY <1>4 DEF Fails, Unsatisfiable, Cancel, TypeOK
  <2>3. faults' \in 0..MaxReadFaults /\ cancels' \in 0..MaxReadCancels
    BY <1>4 DEF Fails, Unsatisfiable, Cancel, TypeOK
  <2> QED BY <1>4, <2>1, <2>2, <2>3 DEF Fails, Unsatisfiable, Cancel, given, history, TypeOK
<1>5. CASE UNCHANGED vars
    BY <1>5 DEF vars, given, history, TypeOK, Calls, Sessions
<1> QED BY <1>1, <1>2, <1>3, <1>4, <1>5 DEF Next, Progress

\* What calls hold before and with their answers.
LEMMA ChunksStep == TypeOK /\ ChunksInv /\ [Next]_vars => ChunksInv'
<1> SUFFICES ASSUME TypeOK, ChunksInv, [Next]_vars, NEW q \in Readers PROVE ChunkOK(q)'
    BY DEF ChunksInv
<1>0. ChunkOK(q) /\ length' = length
    BY DEF ChunksInv, Next, Progress, GetChunk, Answered, Deliver, Fails, Unsatisfiable,
           Cancel, vars, given
<1>1. ASSUME NEW r \in Readers, GetChunk(r) PROVE ChunkOK(q)'
    BY <1>0, <1>1, CallEffects DEF GetChunk, Begun, ChunkOK, TypeOK
<1>2. ASSUME NEW r \in Readers, Answered(r) PROVE ChunkOK(q)'
  <2>1. PICK n \in Answers(call[r].position) :
              call' = [call EXCEPT ![r] = [call[r] EXCEPT !.st = "answered",
                             !.from = call[r].position, !.to = call[r].position + n]]
    BY <1>2, AnswerEffect
  <2>2. call[r] \in Calls /\ call[r].position \in 0..length /\ length \in Nat
    BY DEF TypeOK, Calls
  <2>3. n \in Nat /\ (n = 0 => call[r].position = length)
    BY <2>2, AnswerBounds
  <2>4. CASE q = r
    <3>1. /\ call'[q].st = "answered" /\ call'[q].from = call[r].position
          /\ call'[q].to = call[r].position + n
      BY <2>1, <2>2, <2>4 DEF TypeOK, Calls
    <3> QED BY <1>0, <2>2, <2>3, <3>1 DEF ChunkOK
  <2>5. CASE q # r
    BY <1>0, <2>1, <2>5 DEF ChunkOK, TypeOK
  <2> QED BY <2>4, <2>5
<1>3. ASSUME NEW r \in Readers, Deliver(r) \/ Fails(r) \/ Unsatisfiable(r) \/ Cancel(r)
      PROVE  ChunkOK(q)'
  <2>1. call' = [call EXCEPT ![r] = NoCall]
    BY <1>3, CallEffects
  <2> QED BY <1>0, <2>1 DEF NoCall, ChunkOK, TypeOK
<1>4. CASE UNCHANGED vars
    BY <1>0, <1>4 DEF vars, ChunkOK
<1> QED BY <1>1, <1>2, <1>3, <1>4 DEF Next, Progress

\* A session finishes at the end of the file, if the server answers in full.
LEMMA FinishStep == TypeOK /\ FinishInv /\ [Next]_vars => FinishInv'
<1> SUFFICES ASSUME TypeOK, FinishInv, [Next]_vars PROVE FinishInv'
    OBVIOUS
<1>1. ASSUME NEW r \in Readers, Answered(r) PROVE FinishInv'
  <2>1. PICK n \in Answers(call[r].position), total \in {Unknown, Known(length)} :
              /\ session' = [position |-> call[r].position + n, total |-> total,
                             finished |-> IsFinished(n, total, call[r].position + n)]
              /\ UNCHANGED <<given, history, lost, ended, faults, cancels>>
    BY <1>1, AnswerEffect
  <2>2. call[r].position \in 0..length /\ length \in Nat
    BY DEF TypeOK, Calls
  <2>3. /\ n \in Nat /\ call[r].position + n \in 0..length
        /\ n = 0 => call[r].position = length
        /\ ~server.short /\ n < ChunkSize => call[r].position + n = length
    BY <2>2, AnswerBounds
  <2>4. total.known => total.value = length
    BY <2>1 DEF Unknown, Known
  <2>5. IsFinished(n, total, call[r].position + n) /\ ~server.short
           => call[r].position + n = length
    BY <2>2, <2>3, <2>4 DEF IsFinished
  <2> QED BY <2>1, <2>5 DEF FinishInv, given
<1>2. ASSUME UNCHANGED <<given, session>> PROVE FinishInv'
    BY <1>2 DEF FinishInv, given
<1>3. ASSUME NEW r \in Readers,
             GetChunk(r) \/ Deliver(r) \/ Fails(r) \/ Unsatisfiable(r) \/ Cancel(r)
      PROVE  UNCHANGED <<given, session>>
    BY <1>3 DEF GetChunk, Deliver, Fails, Unsatisfiable, Cancel
<1>4. CASE UNCHANGED vars
    BY <1>2, <1>4 DEF vars
<1> QED BY <1>1, <1>2, <1>3, <1>4 DEF Next, Progress

\* What has been recorded stays so.
LEMMA HistoryGrows ==
    ASSUME [Next]_vars
    PROVE  (lost => lost') /\ (overlapped => overlapped') /\ (ended => ended')
<1>1. ASSUME NEW r \in Readers, GetChunk(r)
      PROVE  (lost => lost') /\ (overlapped => overlapped') /\ (ended => ended')
    BY <1>1, Zenon DEF GetChunk
<1>2. ASSUME NEW r \in Readers, Answered(r) \/ Fails(r) \/ Unsatisfiable(r)
      PROVE  (lost => lost') /\ (overlapped => overlapped') /\ (ended => ended')
  <2>1. UNCHANGED <<history, lost, ended>>
    BY <1>2 DEF Answered, Fails, Unsatisfiable
  <2> QED BY <2>1 DEF history
<1>3. ASSUME NEW r \in Readers, Deliver(r)
      PROVE  (lost => lost') /\ (overlapped => overlapped') /\ (ended => ended')
  <2>1. (lost => lost') /\ (overlapped => overlapped')
    BY <1>3, Zenon DEF Deliver
  <2>2. ended => ended'
    BY <1>3 DEF Deliver
  <2> QED BY <2>1, <2>2
<1>4. ASSUME NEW r \in Readers, Cancel(r)
      PROVE  (lost => lost') /\ (overlapped => overlapped') /\ (ended => ended')
    BY <1>4, Zenon DEF Cancel, history
<1>5. CASE UNCHANGED vars
    BY <1>5, Zenon DEF vars, history
<1> QED BY <1>1, <1>2, <1>3, <1>4, <1>5 DEF Next, Progress

\* Without overlaps calls follow one another.
LEMMA OrderStep == TypeOK /\ ChunksInv /\ OrderInv /\ [Next]_vars => OrderInv'
<1> SUFFICES ASSUME TypeOK, ChunksInv, OrderInv, [Next]_vars, ~lost', ~overlapped' PROVE OrderInv'
    BY DEF OrderInv
<1> DEFINE Ordered ==
        /\ ~disorder
        /\ \A r, s \in Readers : call[r].st # "idle" /\ call[s].st # "idle" => r = s
        /\ Idle => session.position = last
        /\ \A r \in Readers :
             /\ call[r].st = "requested" => call[r].position = last /\ session.position = last
             /\ call[r].st = "answered" => call[r].from = last /\ session.position = call[r].to
<1>0. ~lost /\ ~overlapped /\ Ordered
  <2>1. ~lost /\ ~overlapped
    BY HistoryGrows
  <2> QED BY <2>1 DEF OrderInv
<1>1. ASSUME NEW r \in Readers, GetChunk(r) PROVE Ordered'
  <2>1. CASE session.finished
    <3>1. UNCHANGED <<session, call, last, disorder>>
      BY <1>1, <2>1, CallEffects DEF history
    <3> QED BY <1>0, <3>1 DEF Idle
  <2>2. CASE ~session.finished
    <3>1. Idle /\ session.position = last /\ call[r].st = "idle"
      BY <1>0, <1>1, <2>2 DEF GetChunk
    <3>2. /\ call' = [call EXCEPT ![r] = Begun]
          /\ UNCHANGED <<given, session, got, last, disorder, lost, ended>>
      BY <1>1, <2>2, CallEffects
    <3>3. call'[r] = Begun /\ \A q \in Readers \ {r} : call'[q].st = "idle"
      BY <3>1, <3>2 DEF TypeOK, Idle
    <3> QED BY <1>0, <3>1, <3>2, <3>3 DEF Begun, Idle
  <2> QED BY <2>1, <2>2
<1>2. ASSUME NEW r \in Readers, Answered(r) PROVE Ordered'
  <2>1. PICK n \in Answers(call[r].position), total \in {Unknown, Known(length)} :
              /\ call[r].st = "requested"
              /\ session' = [position |-> call[r].position + n, total |-> total,
                             finished |-> IsFinished(n, total, call[r].position + n)]
              /\ call' = [call EXCEPT ![r] = [call[r] EXCEPT !.st = "answered",
                             !.from = call[r].position, !.to = call[r].position + n]]
              /\ UNCHANGED <<given, history, lost, ended, faults, cancels>>
    BY <1>2, AnswerEffect
  <2>2. /\ call'[r].st = "answered" /\ call'[r].from = call[r].position
        /\ call'[r].to = call[r].position + n
        /\ \A q \in Readers \ {r} : call'[q] = call[q] /\ call[q].st = "idle"
    BY <1>0, <2>1 DEF TypeOK, Calls
  <2> QED BY <1>0, <2>1, <2>2 DEF Idle, history
<1>3. ASSUME NEW r \in Readers, Deliver(r) PROVE Ordered'
  <2>1. /\ call' = [call EXCEPT ![r] = NoCall] /\ UNCHANGED <<given, session, overlapped>>
        /\ call[r].st = "answered" /\ call[r].from = last /\ session.position = call[r].to
    BY <1>0, <1>3, CallEffects DEF Deliver
  <2>2. call'[r].st = "idle" /\ \A q \in Readers \ {r} : call'[q].st = "idle"
    BY <1>0, <2>1 DEF TypeOK, NoCall
  <2>3. last' = call[r].to
    BY <1>3, <2>1 DEF Deliver
  <2>4. ~disorder'
    BY <1>0, <1>3, <2>1, Zenon DEF Deliver
  <2> QED BY <1>0, <2>1, <2>2, <2>3, <2>4 DEF Idle
<1>4. ASSUME NEW r \in Readers, Fails(r) \/ Unsatisfiable(r) \/ Cancel(r) PROVE Ordered'
  <2>1. /\ call' = [call EXCEPT ![r] = NoCall] /\ UNCHANGED <<given, session, overlapped>>
        /\ call[r].st # "idle" /\ UNCHANGED <<last, disorder>>
    BY <1>4, CallEffects DEF Fails, Unsatisfiable, Cancel, history
  <2>2. call'[r].st = "idle" /\ \A q \in Readers \ {r} : call'[q].st = "idle"
    BY <1>0, <2>1 DEF TypeOK, NoCall
  <2>3. session.position = last
    <3>1. CASE call[r].st = "requested"
      BY <1>0, <3>1
    <3>2. CASE call[r].st = "answered"
      <4>1. call[r].to = call[r].from
        BY <1>4, <3>2 DEF Fails, Unsatisfiable, Cancel
      <4> QED BY <1>0, <3>2, <4>1
    <3> QED BY <2>1, <3>1, <3>2 DEF TypeOK, Calls
  <2> QED BY <1>0, <2>1, <2>2, <2>3 DEF Idle
<1>5. CASE UNCHANGED vars
    BY <1>0, <1>5 DEF vars, history, Idle, OrderInv
<1> QED BY <1>1, <1>2, <1>3, <1>4, <1>5 DEF Next, Progress, OrderInv

\* The bytes at hand grow from the front of the file, whatever overlaps.
LEMMA CoverStep == TypeOK /\ ChunksInv /\ FinishInv /\ CoverInv /\ [Next]_vars => CoverInv'
<1> SUFFICES ASSUME TypeOK, ChunksInv, FinishInv, CoverInv, [Next]_vars, ~lost'
             PROVE  \E m \in 0..length' : Reach(m)'
    BY DEF CoverInv
<1>1. PICK m \in 0..length : Reach(m)
    BY HistoryGrows DEF CoverInv
<1>2. /\ length \in Nat /\ m \in Nat /\ m <= length
      /\ session.position \in 0..length /\ call \in [Readers -> Calls]
      /\ \A r \in Readers : call[r].position \in Nat /\ call[r].from \in Nat /\ call[r].to \in Nat
    BY DEF TypeOK, Sessions, Calls
<1>3. UNCHANGED given
    BY DEF Next, Progress, GetChunk, Answered, Deliver, Fails, Unsatisfiable, Cancel, vars
<1>4. ASSUME NEW r \in Readers, GetChunk(r) PROVE Reach(m)'
  <2>1. CASE session.finished
    <3>1. ended' = TRUE /\ UNCHANGED <<given, session, call, history, lost>>
      BY <1>4, <2>1, CallEffects
    <3>2. ~server.short => m = length
      BY <1>1, <1>2, <2>1 DEF FinishInv, Reach
    <3> QED BY <1>1, <3>1, <3>2 DEF Reach, Held, given, history
  <2>2. CASE ~session.finished
    <3>1. /\ call' = [call EXCEPT ![r] = Begun] /\ call[r].st = "idle"
          /\ UNCHANGED <<given, session, got, last, disorder, lost, ended>>
      BY <1>4, <2>2, CallEffects DEF GetChunk
    <3>2. /\ call'[r].st = "requested" /\ call'[r].position = session.position
          /\ \A q \in Readers \ {r} : call'[q] = call[q]
      BY <1>2, <3>1 DEF Begun
    <3>3. \A i \in Nat : Held(i)' <=> Held(i)
      BY <3>1, <3>2 DEF Held
    <3> QED BY <1>1, <3>1, <3>2, <3>3 DEF Reach, given
  <2> QED BY <2>1, <2>2
<1>5. ASSUME NEW r \in Readers, Answered(r) PROVE \E k \in 0..length : Reach(k)'
  <2>1. PICK n \in Answers(call[r].position), total \in {Unknown, Known(length)} :
              /\ call[r].st = "requested"
              /\ session' = [position |-> call[r].position + n, total |-> total,
                             finished |-> IsFinished(n, total, call[r].position + n)]
              /\ call' = [call EXCEPT ![r] = [call[r] EXCEPT !.st = "answered",
                             !.from = call[r].position, !.to = call[r].position + n]]
              /\ UNCHANGED <<given, history, lost, ended, faults, cancels>>
    BY <1>5, AnswerEffect
  <2> DEFINE p == call[r].position
             k == IF p + n > m THEN p + n ELSE m
  <2>2. p \in 0..length
    BY DEF TypeOK, Calls
  <2>3. n \in Nat /\ p + n \in 0..length
    BY <2>2, AnswerBounds
  <2>4. /\ call'[r].st = "answered" /\ call'[r].from = p /\ call'[r].to = p + n
        /\ \A q \in Readers \ {r} : call'[q] = call[q]
    BY <1>2, <2>1 DEF Calls
  <2>5. \A i \in Nat : Held(i)' <=> Held(i) \/ (p < i /\ i <= p + n)
    BY <2>1, <2>4 DEF Held, history
  <2>6. p <= m
    BY <1>1, <2>1 DEF Reach
  <2>7. k \in 0..length /\ m <= k /\ p + n <= k
    BY <1>2, <2>3
  <2>8. \A i \in Nat : Held(i)' <=> 1 <= i /\ i <= k
    BY <1>1, <1>2, <2>2, <2>3, <2>5, <2>6 DEF Reach
  <2>9. session'.position <= k
    BY <2>1, <2>7
  <2>10. ASSUME NEW q \in Readers
         PROVE  /\ call'[q].st = "requested" => call'[q].position <= k
                /\ call'[q].st = "answered" => call'[q].to <= k
    BY <1>1, <1>2, <2>3, <2>4, <2>7 DEF Reach
  <2>11. ended' /\ ~server'.short => k = length'
    BY <1>1, <1>2, <2>1, <2>7 DEF Reach, given
  <2> HIDE DEF k
  <2> QED BY <2>7, <2>8, <2>9, <2>10, <2>11 DEF Reach
<1>6. ASSUME NEW r \in Readers, Deliver(r) PROVE Reach(m)'
  <2>1. /\ call' = [call EXCEPT ![r] = NoCall] /\ UNCHANGED <<given, session, overlapped>>
        /\ call[r].st = "answered" /\ call[r].to <= m
    BY <1>1, <1>6, CallEffects DEF Deliver, Reach
  <2>2. call'[r].st = "idle" /\ \A q \in Readers \ {r} : call'[q] = call[q]
    BY <1>2, <2>1 DEF NoCall
  <2>3. CASE call[r].to = call[r].from
    <3>1. got' = got /\ m = length
      BY <1>2, <1>6, <2>1, <2>3 DEF Deliver, ChunksInv, ChunkOK
    <3>2. \A i \in Nat : Held(i)' <=> Held(i)
      BY <1>2, <2>1, <2>2, <2>3, <3>1 DEF Held
    <3> QED BY <1>1, <2>1, <2>2, <3>1, <3>2 DEF Reach, given
  <2>4. CASE call[r].to # call[r].from
    <3>1. got' = got \cup ((call[r].from + 1)..call[r].to) /\ ended' = ended
      BY <1>6, <2>4 DEF Deliver
    <3>2. \A i \in Nat : Held(i)' <=> Held(i)
      BY <1>2, <2>1, <2>2, <3>1 DEF Held
    <3> QED BY <1>1, <2>1, <2>2, <3>1, <3>2 DEF Reach, given
  <2> QED BY <2>3, <2>4
<1>7. ASSUME NEW r \in Readers, Fails(r) \/ Unsatisfiable(r) \/ Cancel(r) PROVE Reach(m)'
  <2>1. /\ call' = [call EXCEPT ![r] = NoCall] /\ UNCHANGED <<given, session, overlapped>>
        /\ UNCHANGED <<got, ended>>
    BY <1>7, CallEffects DEF Fails, Unsatisfiable, Cancel, history
  <2>2. call[r].st = "requested" \/ call[r].to = call[r].from
    BY <1>7 DEF Fails, Unsatisfiable, Cancel
  <2>3. call'[r].st = "idle" /\ \A q \in Readers \ {r} : call'[q] = call[q]
    BY <1>2, <2>1 DEF NoCall
  <2>4. \A i \in Nat : Held(i)' <=> Held(i)
    BY <1>2, <2>1, <2>2, <2>3 DEF Held
  <2> QED BY <1>1, <2>1, <2>3, <2>4 DEF Reach, given
<1>8. CASE UNCHANGED vars
    BY <1>1, <1>8 DEF vars, given, history, Reach, Held
<1> QED BY <1>1, <1>3, <1>4, <1>5, <1>6, <1>7, <1>8 DEF Next, Progress, given

\* No step of the readers breaks the invariant.
LEMMA Inductive == DownloadInv /\ [Next]_vars => DownloadInv'
    BY TypeStep, ChunksStep, FinishStep, CoverStep, OrderStep DEF DownloadInv

\* The invariant holds in every reachable state.
LEMMA Invariant == Spec => []DownloadInv
    BY InitInv, Inductive, PTL DEF Spec
-----------------------------------------------------------------------------
(* What the invariant says of the properties. *)

\* Once no call is under way, what is held is what the application has.
LEMMA NoHoleInv == DownloadInv => NoHole
<1> SUFFICES ASSUME DownloadInv, ~lost
             PROVE  (Idle => \E k \in 0..length : got = 1..k) /\ (~overlapped => ~disorder)
  BY DEF NoHole
<1>1. ~overlapped => ~disorder
  BY DEF DownloadInv, OrderInv
<1>2. ASSUME Idle PROVE \E k \in 0..length : got = 1..k
  <2>1. PICK k \in 0..length : Reach(k)
    BY DEF DownloadInv, CoverInv
  <2>2. got \subseteq Nat /\ k \in Nat
    BY DEF DownloadInv, TypeOK
  <2>3. \A i \in Nat : i \in got <=> 1 <= i /\ i <= k
    BY <1>2, <2>1 DEF Reach, Held, Idle
  <2>4. ASSUME NEW i PROVE i \in got <=> i \in 1..k
    <3>1. i \in got => i \in 1..k
      BY <2>2, <2>3
    <3>2. i \in 1..k => i \in got
      BY <2>2, <2>3
    <3> QED BY <3>1, <3>2
  <2>5. got = 1..k
    BY <2>4, Zenon
  <2> QED BY <2>5
<1> QED BY <1>1, <1>2

\* And the end has been reported only when all of it is held.
LEMMA EndInv == DownloadInv => EndMeansEverything
<1> SUFFICES ASSUME DownloadInv, ended, Idle, ~lost, ~server.short PROVE got = 1..length
  BY DEF EndMeansEverything
<1>1. PICK k \in 0..length : Reach(k)
  BY DEF DownloadInv, CoverInv
<1>2. got \subseteq Nat /\ k = length /\ length \in Nat
  BY <1>1 DEF DownloadInv, TypeOK, Reach
<1>3. \A i \in Nat : i \in got <=> 1 <= i /\ i <= length
  BY <1>1, <1>2 DEF Reach, Held, Idle
<1>4. ASSUME NEW i PROVE i \in got <=> i \in 1..length
  <2>1. i \in got => i \in 1..length
    BY <1>2, <1>3
  <2>2. i \in 1..length => i \in got
    BY <1>2, <1>3
  <2> QED BY <2>1, <2>2
<1> QED BY <1>4, Zenon
-----------------------------------------------------------------------------
\* lib.rs:1766-1799: the positions of a session never leave the file.
THEOREM TypeCorrect == Spec => []TypeOK
<1>1. DownloadInv => TypeOK
    BY DEF DownloadInv
<1> QED BY Invariant, <1>1, PTL

\* lib.rs:1787-1799: without a call cancelled with its chunk at hand, what the
\* application has when its calls are back is the file up to some byte.
THEOREM NoHoles == Spec => []NoHole
    BY NoHoleInv, Invariant, PTL

\* lib.rs:1772-1774, 1791-1803: None means that the file is there, for servers
\* that answer ranges in full.
THEOREM EndsMeanEverything == Spec => []EndMeansEverything
    BY EndInv, Invariant, PTL
=============================================================================
