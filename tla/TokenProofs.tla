---------------------------- MODULE TokenProofs -----------------------------
(***************************************************************************)
(* Theorems about the token manager, for every number of callers, every    *)
(* set of times that satisfies the assumptions, and both readings of the   *)
(* failure branch: the invariants of TokenManager, that it implements      *)
(* TokenService, and what the requests of Request get from it.             *)
(***************************************************************************)
EXTENDS Request, TLAPS

\* A value the caller cannot be answered from.
Unanswered(c) ==
    IF call[c].stale = None THEN slot.token = None /\ ~slot.error
                            ELSE slot.generation <= call[c].stale

\* The cursor and the stale argument of a call come from earlier generations,
\* and its timer is untouched until it has looked at the slot once.
CallOK(c) ==
    /\ call[c].stale <= slot.generation
    /\ call[c].seen <= slot.generation
    /\ call[c].st = "polling" => call[c].timer = WaitTimeout
    /\ Waiting(c) => c \in busy

CallsInv == \A c \in Callers : CallOK(c)

\* The published slot belongs to its generation, and the task sleeps only
\* after publishing.
SlotInv ==
    /\ ~slot.error => slot.token = slot.generation
    /\ slot.token <= slot.generation
    /\ slot.token = None /\ ~slot.error => phase # "sleeping"
    /\ phase = "stopped" => Closed

\* What a caller may rely on while it waits for something newer than the slot.
Promise(c) ==
    Waiting(c) /\ ~call[c].ignored /\ Unanswered(c) =>
        \/ phase = "blocked"
        \/ phase = "fetching" /\ call[c].timer > fetchLeft
        \/ phase = "sleeping" /\ requests = 1 /\ call[c].timer = WaitTimeout

PromiseInv == \A c \in Callers : Promise(c)

\* One caller's part of NoLostWakeup, and of what ended calls report.
Awake(c) ==
    call[c].st = "parked" /\ ~Runnable(c) =>
        IF call[c].stale = None THEN slot.token = None /\ ~slot.error
                                ELSE slot.generation <= call[c].stale

Reported(c) ==
    /\ call[c].st = "ok" /\ call[c].stale # None => call[c].token > call[c].stale
    /\ call[c].st = "timeout" => call[c].ignored \/ phase = "blocked"

\* How much of the nap is left bounds how late the refresher can be.
NapInv ==
    /\ overdue <= MaxNap
    /\ phase = "fetching" => overdue = 0
    /\ phase = "sleeping" => nap <= MaxNap
    /\ phase = "sleeping" /\ untilDeadline > 0 => overdue = 0
    /\ phase = "sleeping" /\ overdue # 0 => overdue + nap <= MaxNap

\* The token outlives the sleep and the fetch that follows it.
Undisturbed == (\A e \in ExpiresIn : e > MinLifetime + 2 * FetchTimeout) /\ Suspensions = {}

Margin ==
    /\ phase = "sleeping" => nap <= untilDeadline /\ validFor > untilDeadline + FetchTimeout
    /\ phase = "fetching" => validFor > fetchLeft

MarginInv == Undisturbed /\ slot.token # None /\ ~slot.error => Margin

\* A fetch starts only below the bound on fetches.
FetchBound == phase = "fetching" => slot.generation < MaxGeneration

TypeInv == TypeOK /\ FetchBound

IndInv ==
    /\ TypeInv /\ CallsInv /\ SlotInv /\ PromiseInv /\ NapInv /\ MarginInv
    /\ NoLostWakeup /\ AnsweredByNewer /\ TimeoutIsExplained
-----------------------------------------------------------------------------
\* What spawn sets up satisfies the invariant.
LEMMA InitInv == Init => IndInv
<1> SUFFICES ASSUME Init PROVE IndInv
    OBVIOUS
<1> USE BoundsAssumption, TimesAssumption, WaitAssumption DEF Init, NoCall, None, Waiting
<1>1. TypeInv
    BY DEF TypeInv, FetchBound, TypeOK, Slots, Phases, Calls, MinOf
<1>2. CallsInv /\ SlotInv /\ PromiseInv /\ NapInv /\ MarginInv
    BY DEF CallsInv, SlotInv, PromiseInv, NapInv, MarginInv, Unanswered, CallOK, Promise
<1>3. NoLostWakeup /\ AnsweredByNewer /\ TimeoutIsExplained
    BY DEF NoLostWakeup, AnsweredByNewer, TimeoutIsExplained
<1> QED BY <1>1, <1>2, <1>3 DEF IndInv

\* A future that has no call under way (auth.rs:181).
LEMMA NoCallType == NoCall \in Calls
    BY BoundsAssumption, TimesAssumption DEF NoCall, Calls, None

\* Updating one field of a call within its range gives a call.
LEMMA FieldTypes ==
    ASSUME NEW r \in Calls
    PROVE  /\ \A st \in {"polling", "parked", "blocked", "ok", "token_error", "timeout"} :
                 [r EXCEPT !.st = st] \in Calls
           /\ \A n \in 0..WaitTimeout : [r EXCEPT !.timer = n] \in Calls
           /\ \A g \in 0..MaxGeneration :
                 /\ [r EXCEPT !.stale = g] \in Calls
                 /\ [r EXCEPT !.seen = g] \in Calls
                 /\ [r EXCEPT !.generation = g] \in Calls
                 /\ [r EXCEPT !.token = g] \in Calls
           /\ [r EXCEPT !.ignored = TRUE] \in Calls
    BY TimesAssumption DEF Calls

\* One turn of wait_for_token yields a call.
LEMMA AnswerType ==
    ASSUME TypeOK, NEW c \in Callers
    PROVE  Answer(c) \in Calls
<1> DEFINE r == call[c]
<1>1. /\ r \in Calls /\ 0 \in 0..WaitTimeout
      /\ slot.generation \in 0..MaxGeneration /\ slot.token \in 0..MaxGeneration
    BY TimesAssumption DEF TypeOK, Slots
<1>2. [r EXCEPT !.st = "token_error", !.timer = 0] \in Calls
  <2>1. [r EXCEPT !.st = "token_error"] \in Calls
    BY <1>1, FieldTypes
  <2> QED BY <1>1, <2>1, FieldTypes
<1>3. [r EXCEPT !.st = "ok", !.timer = 0,
                !.generation = slot.generation, !.token = slot.token] \in Calls
  <2>1. [r EXCEPT !.st = "ok"] \in Calls
    BY <1>1, FieldTypes
  <2>2. [r EXCEPT !.st = "ok", !.timer = 0] \in Calls
    BY <1>1, <2>1, FieldTypes
  <2>3. [r EXCEPT !.st = "ok", !.timer = 0, !.generation = slot.generation] \in Calls
    BY <1>1, <2>2, FieldTypes
  <2> QED BY <1>1, <2>3, FieldTypes
<1>4. [r EXCEPT !.st = "parked", !.seen = slot.generation] \in Calls
    BY <1>1 DEF Calls
<1> QED BY <1>2, <1>3, <1>4, Zenon DEF Answer

\* Type correctness, one step per action.
LEMMA TypeStep == TypeInv /\ [Next]_vars => TypeInv'
<1> SUFFICES ASSUME TypeInv, [Next]_vars PROVE TypeInv'
    OBVIOUS
<1> USE BoundsAssumption, TimesAssumption
        DEF TypeInv, TypeOK, FetchBound, history, refresherVars, clientVars
<1>1. ASSUME Application PROVE TypeInv'
    BY <1>1 DEF Application, ForSite, DropHandle
<1>2. ASSUME NEW c \in Callers, Acquire(c) \/ Release(c) \/ Cancel(c) PROVE TypeInv'
    BY <1>2, NoCallType DEF Acquire, Release, Cancel
<1>3. ASSUME NEW c \in Callers, NEW stale \in 0..slot.generation, Get(c, stale) PROVE TypeInv'
  <2>1. [NoCall EXCEPT !.st = "polling", !.stale = stale, !.timer = WaitTimeout] \in Calls
    <3>1. stale \in 0..MaxGeneration /\ WaitTimeout \in 0..WaitTimeout
      BY DEF Slots
    <3>2. [NoCall EXCEPT !.st = "polling"] \in Calls
      BY NoCallType, FieldTypes
    <3>3. [NoCall EXCEPT !.st = "polling", !.stale = stale] \in Calls
      BY <3>1, <3>2, FieldTypes
    <3> QED BY <3>1, <3>3, FieldTypes
  <2>2. requests' \in 0..1
    BY <1>3 DEF Get, TrySend, MinOf
  <2> QED BY <1>3, <2>1, <2>2 DEF Get
<1>4. ASSUME NEW c \in Callers, Poll(c) PROVE TypeInv'
    BY <1>4, AnswerType DEF Poll
<1>5. ASSUME NEW c \in Callers, PollBlocks(c) \/ Expire(c) PROVE TypeInv'
    BY <1>5 DEF PollBlocks, Expire, Calls
<1>6. ASSUME Fetched PROVE TypeInv'
  <2>1. PICK e \in ExpiresIn :
            /\ Publish([generation |-> slot.generation + 1,
                        token |-> slot.generation + 1, error |-> FALSE], Lifetime(e))
            /\ validFor' = Less(e, FetchTimeout - fetchLeft)
    BY <1>6 DEF Fetched
  <2>2. slot' \in Slots
    BY <1>6, <2>1 DEF Fetched, Publish, Slots
  <2>3. Lifetime(e) \in Nat /\ validFor' \in Nat
    BY <2>1 DEF Lifetime, MaxOf, Less
  <2>4. nap' \in Nat
    BY <2>1, <2>3 DEF Publish, NapLength, MinOf
  <2> QED BY <1>6, <2>1, <2>2, <2>3, <2>4 DEF Fetched, Publish, Phases
<1>7. ASSUME FetchFailed PROVE TypeInv'
  <2>1. failures' \in 0..MaxExponent
    BY <1>7 DEF FetchFailed, MinOf
  <2>2. PICK jitter \in Jitter :
            Publish([generation |-> FailedGeneration, token |-> CarriedToken, error |-> TRUE],
                    Backoff(failures') + jitter)
    BY <1>7 DEF FetchFailed
  <2>3. slot' \in Slots
    BY <1>7, <2>2 DEF FetchFailed, Publish, Slots, FailedGeneration, CarriedToken
  <2>4. Backoff(failures') \in Nat
    BY <2>1, PowersAssumption DEF Backoff, MinOf
  <2>5. untilDeadline' \in Nat /\ nap' \in Nat
    BY <2>2, <2>4 DEF Publish, NapLength, MinOf
  <2> QED BY <1>7, <2>1, <2>2, <2>3, <2>5 DEF FetchFailed, Publish, Phases
<1>8. ASSUME BlockOnOwnGuard \/ FetchAbandoned \/ Stop PROVE TypeInv'
    BY <1>8 DEF BlockOnOwnGuard, FetchAbandoned, Stop, Phases, MinOf
<1>9. ASSUME NapOver PROVE TypeInv'
    BY <1>9 DEF NapOver, NapLength, MinOf
<1>10. ASSUME DeadlinePassed \/ ForcedRefresh PROVE TypeInv'
    BY <1>10 DEF DeadlinePassed, ForcedRefresh, StartFetch, Phases
<1>11. ASSUME IgnoredRequest PROVE TypeInv'
  <2>1. \A c \in Callers : [call[c] EXCEPT !.ignored = TRUE] \in Calls
    BY DEF Calls
  <2>2. call' \in [Callers -> Calls]
    BY <1>11, <2>1 DEF IgnoredRequest
  <2> QED BY <1>11, <2>2 DEF IgnoredRequest, NapLength, MinOf
<1>12. ASSUME Tick PROVE TypeInv'
    BY <1>12 DEF Tick, Less, MinOf, Calls
<1>13. ASSUME NEW d \in Suspensions, Suspend(d) PROVE TypeInv'
    BY <1>13 DEF Suspend, Less
<1>14. CASE UNCHANGED vars
    BY <1>14 DEF vars
<1> QED BY <1>1, <1>2, <1>3, <1>4, <1>5, <1>6, <1>7, <1>8, <1>9, <1>10, <1>11, <1>12, <1>13, <1>14
        DEF Next, Refresher, Clock, CallerStep

\* What a failed fetch publishes.
LEMMA FailedSlot ==
    ASSUME FetchFailed
    PROVE  /\ slot'.generation = slot.generation + 1 /\ slot'.token = slot.token
           /\ slot'.error = TRUE /\ phase' = "sleeping"
    BY DEF FetchFailed, Publish, FailedGeneration, CarriedToken

\* The calls' cursors and timers, and who holds the manager.
LEMMA CallsStep == TypeInv /\ CallsInv /\ [Next]_vars => CallsInv'
<1> SUFFICES ASSUME TypeInv, CallsInv, [Next]_vars, NEW d \in Callers PROVE CallOK(d)'
    BY DEF CallsInv
<1> USE TimesAssumption
        DEF TypeInv, TypeOK, CallsInv, CallOK, Waiting, history, refresherVars, clientVars
<1>0. slot.generation \in Nat
    BY DEF Slots
<1>1. ASSUME Application PROVE CallOK(d)'
    BY <1>1 DEF Application, ForSite, DropHandle
<1>2. ASSUME NEW c \in Callers, Acquire(c) \/ Release(c) \/ Cancel(c) PROVE CallOK(d)'
    BY <1>2, <1>0 DEF Acquire, Release, Cancel, NoCall, None
<1>3. ASSUME NEW c \in Callers, NEW stale \in 0..slot.generation, Get(c, stale) PROVE CallOK(d)'
    BY <1>3, <1>0 DEF Get, NoCall, None
<1>4. ASSUME NEW c \in Callers, Poll(c) PROVE CallOK(d)'
    BY <1>4, <1>0 DEF Poll, Answer, Runnable, Calls
<1>5. ASSUME NEW c \in Callers, PollBlocks(c) \/ Expire(c) PROVE CallOK(d)'
    BY <1>5 DEF PollBlocks, Expire, Calls
<1>6. ASSUME Fetched \/ FetchFailed PROVE CallOK(d)'
  <2>1. slot'.generation = slot.generation + 1
    BY <1>6 DEF Fetched, FetchFailed, Publish, FailedGeneration
  <2> QED BY <1>6, <1>0, <2>1 DEF Fetched, FetchFailed, Calls
<1>7. ASSUME BlockOnOwnGuard \/ FetchAbandoned \/ Stop \/ NapOver PROVE CallOK(d)'
    BY <1>7 DEF BlockOnOwnGuard, FetchAbandoned, Stop, NapOver
<1>8. ASSUME DeadlinePassed \/ ForcedRefresh PROVE CallOK(d)'
    BY <1>8 DEF DeadlinePassed, ForcedRefresh, StartFetch
<1>9. ASSUME IgnoredRequest PROVE CallOK(d)'
    BY <1>9 DEF IgnoredRequest, Calls
<1>10. ASSUME Tick PROVE CallOK(d)'
  <2>1. call[d].st # "polling"
    BY <1>10 DEF Tick, Ready, Runnable
  <2>2. /\ call'[d].st = call[d].st /\ call'[d].seen = call[d].seen
        /\ call'[d].stale = call[d].stale
    BY <1>10 DEF Tick, Calls
  <2> QED BY <1>10, <2>1, <2>2 DEF Tick
<1>11. ASSUME NEW s \in Suspensions, Suspend(s) PROVE CallOK(d)'
    BY <1>11 DEF Suspend
<1>12. CASE UNCHANGED vars
    BY <1>12 DEF vars
<1> QED BY <1>1, <1>2, <1>3, <1>4, <1>5, <1>6, <1>7, <1>8, <1>9, <1>10, <1>11, <1>12
        DEF Next, Refresher, Clock, CallerStep

\* The slot, and the three ways out of the refresher.
LEMMA SlotStep == TypeInv /\ SlotInv /\ [Next]_vars => SlotInv'
<1> SUFFICES ASSUME TypeInv, SlotInv, [Next]_vars PROVE SlotInv'
    OBVIOUS
<1> USE BoundsAssumption DEF TypeInv, TypeOK, SlotInv, Closed, None, history, refresherVars, clientVars
<1>1. ASSUME Application PROVE SlotInv'
    BY <1>1 DEF Application, ForSite, DropHandle
<1>2. ASSUME NEW c \in Callers, Acquire(c) \/ Release(c) \/ Cancel(c) PROVE SlotInv'
    BY <1>2 DEF Acquire, Release, Cancel
<1>3. ASSUME NEW c \in Callers, CallerStep(c) \/ (\E stale \in 0..slot.generation : Get(c, stale))
      PROVE  SlotInv'
    BY <1>3 DEF CallerStep, Get, Poll, PollBlocks, Expire
<1>4. ASSUME Fetched PROVE SlotInv'
  <2>1. slot' = [generation |-> slot.generation + 1, token |-> slot.generation + 1, error |-> FALSE]
    BY <1>4 DEF Fetched, Publish
  <2> QED BY <1>4, <2>1 DEF Fetched, Publish, Slots
<1>5. ASSUME FetchFailed PROVE SlotInv'
  <2>1. slot'.token <= slot'.generation
    <3>1. slot.token \in Nat /\ slot.generation \in Nat
      BY DEF Slots
    <3> QED BY <1>5, <3>1, FailedSlot
  <2>2. slot'.error /\ phase' = "sleeping"
    BY <1>5, FailedSlot
  <2> QED BY <2>1, <2>2
<1>6. ASSUME BlockOnOwnGuard \/ FetchAbandoned \/ Stop \/ NapOver PROVE SlotInv'
    BY <1>6 DEF BlockOnOwnGuard, FetchAbandoned, Stop, NapOver
<1>7. ASSUME DeadlinePassed \/ ForcedRefresh \/ IgnoredRequest PROVE SlotInv'
    BY <1>7 DEF DeadlinePassed, ForcedRefresh, StartFetch, IgnoredRequest
<1>8. ASSUME Clock PROVE SlotInv'
    BY <1>8 DEF Clock, Tick, Suspend
<1>9. CASE UNCHANGED vars
    BY <1>9 DEF vars
<1> QED BY <1>1, <1>2, <1>3, <1>4, <1>5, <1>6, <1>7, <1>8, <1>9 DEF Next, Refresher

\* How late the refresher notices a passed deadline.
LEMMA NapStep == TypeInv /\ NapInv /\ [Next]_vars => NapInv'
<1> SUFFICES ASSUME TypeInv, NapInv, [Next]_vars PROVE NapInv'
    OBVIOUS
<1>0. TypeInv'
    BY TypeStep
<1> USE TimesAssumption DEF TypeInv, TypeOK, NapInv, NapLength, MinOf, history, refresherVars
<1>1. ASSUME Application PROVE NapInv'
    BY <1>1 DEF Application, ForSite, DropHandle
<1>2. ASSUME NEW c \in Callers,
             \/ Acquire(c) \/ Release(c) \/ Cancel(c) \/ CallerStep(c)
             \/ \E stale \in 0..slot.generation : Get(c, stale)
      PROVE  NapInv'
    BY <1>2 DEF Acquire, Release, Cancel, CallerStep, Get, Poll, PollBlocks, Expire
<1>3. ASSUME Fetched \/ FetchFailed PROVE NapInv'
  <2>1. /\ phase = "fetching" /\ overdue' = overdue /\ phase' = "sleeping"
        /\ nap' = NapLength(untilDeadline')
    BY <1>3 DEF Fetched, FetchFailed, Publish
  <2>2. untilDeadline' \in Nat
    BY <1>0
  <2>3. overdue' = 0 /\ nap' \in Nat /\ nap' <= MaxNap
    BY <2>1, <2>2
  <2> QED BY <2>1, <2>3
<1>4. ASSUME BlockOnOwnGuard \/ FetchAbandoned \/ Stop PROVE NapInv'
    BY <1>4 DEF BlockOnOwnGuard, FetchAbandoned, Stop
<1>5. ASSUME NapOver \/ IgnoredRequest PROVE NapInv'
    BY <1>5 DEF NapOver, IgnoredRequest
<1>6. ASSUME DeadlinePassed \/ ForcedRefresh PROVE NapInv'
    BY <1>6 DEF DeadlinePassed, ForcedRefresh, StartFetch
<1>7. ASSUME Tick PROVE NapInv'
    BY <1>7 DEF Tick, Ready, Less
<1>8. ASSUME NEW s \in Suspensions, Suspend(s) PROVE NapInv'
    BY <1>8 DEF Suspend, Less
<1>9. CASE UNCHANGED vars
    BY <1>9 DEF vars
<1> QED BY <1>1, <1>2, <1>3, <1>4, <1>5, <1>6, <1>7, <1>8, <1>9 DEF Next, Refresher, Clock

\* The token outlives the sleep and the fetch after it.
LEMMA MarginStep == TypeInv /\ MarginInv /\ [Next]_vars => MarginInv'
<1> SUFFICES ASSUME TypeInv, MarginInv, [Next]_vars, Undisturbed,
                    slot'.token # None, ~slot'.error
             PROVE  Margin'
    BY DEF MarginInv, Undisturbed
<1> USE TimesAssumption
        DEF TypeInv, TypeOK, MarginInv, Margin, Undisturbed, history, refresherVars
<1>1. ASSUME Application PROVE Margin'
    BY <1>1 DEF Application, ForSite, DropHandle
<1>2. ASSUME NEW c \in Callers,
             \/ Acquire(c) \/ Release(c) \/ Cancel(c) \/ CallerStep(c)
             \/ \E stale \in 0..slot.generation : Get(c, stale)
      PROVE  Margin'
    BY <1>2 DEF Acquire, Release, Cancel, CallerStep, Get, Poll, PollBlocks, Expire
<1>3. ASSUME Fetched PROVE Margin'
  <2>1. PICK e \in ExpiresIn :
            /\ phase' = "sleeping" /\ untilDeadline' = Lifetime(e)
            /\ nap' = NapLength(untilDeadline')
            /\ validFor' = Less(e, FetchTimeout - fetchLeft)
    BY <1>3 DEF Fetched, Publish
  <2>2. e \in Nat /\ e > MinLifetime + 2 * FetchTimeout
    OBVIOUS
  <2>3. validFor' > untilDeadline' + FetchTimeout
    BY <2>1, <2>2, MarginAssumption DEF Lifetime, MaxOf, Less
  <2>4. nap' <= untilDeadline'
    BY <2>1, <2>2 DEF NapLength, MinOf, Lifetime, MaxOf, Less
  <2> QED BY <2>1, <2>3, <2>4
<1>4. ASSUME FetchFailed PROVE Margin'
    BY <1>4, FailedSlot
<1>5. ASSUME BlockOnOwnGuard \/ FetchAbandoned \/ Stop PROVE Margin'
    BY <1>5 DEF BlockOnOwnGuard, FetchAbandoned, Stop
<1>6. ASSUME NapOver \/ IgnoredRequest PROVE Margin'
    BY <1>6 DEF NapOver, IgnoredRequest, NapLength, MinOf
<1>7. ASSUME DeadlinePassed \/ ForcedRefresh PROVE Margin'
    BY <1>7 DEF DeadlinePassed, ForcedRefresh, StartFetch
<1>8. ASSUME Tick PROVE Margin'
    BY <1>8 DEF Tick, Ready, Less
<1>9. ASSUME NEW s \in Suspensions, Suspend(s) PROVE Margin'
    OBVIOUS
<1>10. CASE UNCHANGED vars
    BY <1>10 DEF vars
<1> QED BY <1>1, <1>2, <1>3, <1>4, <1>5, <1>6, <1>7, <1>8, <1>9, <1>10 DEF Next, Refresher, Clock

\* A waiting caller that nothing has answered keeps its promise of an answer.
LEMMA PromiseStep ==
    TypeInv /\ CallsInv /\ SlotInv /\ PromiseInv /\ NoLostWakeup /\ [Next]_vars => PromiseInv'
<1> SUFFICES ASSUME TypeInv, CallsInv, SlotInv, PromiseInv, NoLostWakeup, [Next]_vars,
                    NEW d \in Callers
             PROVE  Promise(d)'
    BY DEF PromiseInv
<1> USE TimesAssumption, WaitAssumption
        DEF TypeInv, TypeOK, PromiseInv, Promise, Unanswered, Waiting, None,
            history, refresherVars, clientVars
<1>0. slot.generation \in Nat /\ slot.token \in Nat /\ call[d] \in Calls /\ CallOK(d)
    BY DEF Slots, CallsInv
<1>1. ASSUME Application PROVE Promise(d)'
    BY <1>1 DEF Application, ForSite, DropHandle
<1>2. ASSUME NEW c \in Callers, Acquire(c) \/ Release(c) \/ Cancel(c) PROVE Promise(d)'
    BY <1>2 DEF Acquire, Release, Cancel, NoCall
<1>3. ASSUME NEW c \in Callers, NEW stale \in 0..slot.generation, Get(c, stale) PROVE Promise(d)'
  <2>1. CASE d # c
    BY <1>3, <2>1 DEF Get, TrySend, MinOf
  <2>2. CASE d = c
    <3>1. call'[d].stale = stale /\ call'[d].timer = WaitTimeout
      BY <1>3, <2>2 DEF Get, NoCall
    <3>2. stale # 0 => requests' = 1
      BY <1>3 DEF Get, TrySend, MinOf
    <3>3. phase = "stopped" => c \notin busy
      BY DEF SlotInv, Closed
    <3>4. phase' = phase /\ fetchLeft' = fetchLeft /\ slot' = slot /\ c \in busy
      BY <1>3 DEF Get
    <3>5. slot.token = 0 /\ ~slot.error => phase # "sleeping"
      BY DEF SlotInv
    <3> QED BY <3>1, <3>2, <3>3, <3>4, <3>5 DEF Phases
  <2> QED BY <2>1, <2>2
<1>4. ASSUME NEW c \in Callers, Poll(c) PROVE Promise(d)'
  <2>1. CASE d # c
    BY <1>4, <2>1 DEF Poll
  <2>2. CASE d = c
    <3>1. /\ call'[d].stale = call[d].stale /\ call'[d].ignored = call[d].ignored
          /\ call'[d].st = "parked" => call'[d].timer = call[d].timer
          /\ call'[d].st # "polling"
      BY <1>4, <2>2, <1>0 DEF Poll, Answer, Calls
    <3>2. Waiting(c)
      BY <1>4 DEF Poll, Runnable
    <3>3. slot' = slot /\ phase' = phase /\ fetchLeft' = fetchLeft /\ requests' = requests
      BY <1>4 DEF Poll
    <3>4. Promise(d)
      OBVIOUS
    <3> QED BY <2>2, <3>1, <3>2, <3>3, <3>4
  <2> QED BY <2>1, <2>2
<1>5. ASSUME NEW c \in Callers, PollBlocks(c) \/ Expire(c) PROVE Promise(d)'
    BY <1>5, <1>0 DEF PollBlocks, Expire, Calls
<1>6. ASSUME Fetched PROVE Promise(d)'
  <2>1. slot'.generation = slot.generation + 1 /\ slot'.token = slot.generation + 1
    BY <1>6 DEF Fetched, Publish
  <2>2. call' = call
    BY <1>6 DEF Fetched
  <2> QED BY <1>0, <2>1, <2>2 DEF CallOK, Calls
<1>7. ASSUME FetchFailed PROVE Promise(d)'
  <2>1. slot'.generation = slot.generation + 1 /\ slot'.error = TRUE
    BY <1>7, FailedSlot
  <2>2. call' = call
    BY <1>7 DEF FetchFailed
  <2> QED BY <1>0, <2>1, <2>2 DEF CallOK, Calls
<1>8. ASSUME BlockOnOwnGuard \/ NapOver PROVE Promise(d)'
    BY <1>8 DEF BlockOnOwnGuard, NapOver
<1>9. ASSUME FetchAbandoned \/ Stop PROVE Promise(d)'
    BY <1>9, <1>0 DEF FetchAbandoned, Stop, Closed, CallOK
<1>10. ASSUME DeadlinePassed \/ ForcedRefresh PROVE Promise(d)'
    BY <1>10, <1>0 DEF DeadlinePassed, ForcedRefresh, StartFetch, Calls
<1>11. ASSUME IgnoredRequest PROVE Promise(d)'
  <2>1. call'[d] = IF Counting(d) THEN [call[d] EXCEPT !.ignored = TRUE] ELSE call[d]
    BY <1>11 DEF IgnoredRequest
  <2>2. phase = "sleeping" /\ slot' = slot
    BY <1>11 DEF IgnoredRequest
  <2>3. CASE Counting(d)
    BY <1>0, <2>1, <2>3 DEF Calls
  <2>4. CASE ~Counting(d)
    <3>1. SUFFICES ASSUME Waiting(d), Unanswered(d) PROVE FALSE
      BY <1>0, <2>1, <2>2, <2>4
    <3>2. call[d].stale # 0
      BY <2>2, <3>1 DEF SlotInv
    <3> QED BY <1>0, <2>4, <3>1, <3>2 DEF Counting, CallOK, Calls
  <2> QED BY <2>3, <2>4
<1>12. ASSUME Tick PROVE Promise(d)'
  <2>1. /\ call'[d].st = call[d].st /\ call'[d].ignored = call[d].ignored
        /\ call'[d].stale = call[d].stale /\ call'[d].timer = Less(call[d].timer, 1)
    BY <1>12, <1>0 DEF Tick, Calls
  <2>2. phase = "sleeping" => requests # 1
    BY <1>12 DEF Tick, Ready
  <2>3. phase = "fetching" => fetchLeft > 0
    BY <1>12 DEF Tick, Ready
  <2>4. slot' = slot /\ phase' = phase /\ fetchLeft' = Less(fetchLeft, 1)
    BY <1>12 DEF Tick
  <2> QED BY <1>0, <2>1, <2>2, <2>3, <2>4 DEF Less, Calls
<1>13. ASSUME NEW s \in Suspensions, Suspend(s) PROVE Promise(d)'
    BY <1>13 DEF Suspend
<1>14. CASE UNCHANGED vars
    BY <1>14 DEF vars
<1> QED BY <1>1, <1>2, <1>3, <1>4, <1>5, <1>6, <1>7, <1>8, <1>9, <1>10, <1>11, <1>12, <1>13, <1>14
        DEF Next, Refresher, Clock, CallerStep

\* Parked callers see every publish.
LEMMA WakeupStep == TypeInv /\ CallsInv /\ SlotInv /\ NoLostWakeup /\ [Next]_vars => NoLostWakeup'
<1> SUFFICES ASSUME TypeInv, CallsInv, SlotInv, NoLostWakeup, [Next]_vars, NEW d \in Callers
             PROVE  Awake(d)'
    BY DEF NoLostWakeup, Awake
<1> USE DEF TypeInv, TypeOK, Awake, Runnable, None, history, refresherVars, clientVars
<1>0. /\ slot.generation \in Nat /\ slot.token \in Nat /\ slot.error \in BOOLEAN
      /\ call[d] \in Calls /\ CallOK(d) /\ Awake(d)
    BY DEF Slots, CallsInv, NoLostWakeup
<1>1. ASSUME Application PROVE Awake(d)'
    BY <1>0, <1>1 DEF Application, ForSite, DropHandle
<1>2. ASSUME NEW c \in Callers, Acquire(c) \/ Release(c) \/ Cancel(c) PROVE Awake(d)'
    BY <1>0, <1>2 DEF Acquire, Release, Cancel, NoCall
<1>3. ASSUME NEW c \in Callers, NEW stale \in 0..slot.generation, Get(c, stale) PROVE Awake(d)'
    BY <1>0, <1>3 DEF Get, NoCall
<1>4. ASSUME NEW c \in Callers, Poll(c) PROVE Awake(d)'
  <2>1. CASE d # c
    BY <1>0, <1>4, <2>1 DEF Poll
  <2>2. CASE d = c
    <3>1. slot' = slot /\ call'[d] = Answer(d)
      BY <1>4, <2>2 DEF Poll
    <3>2. Answer(d).st = "parked" =>
              /\ Answer(d).stale = call[d].stale
              /\ ~(Satisfies(call[d].stale) /\ Fails(call[d].stale))
              /\ ~(Satisfies(call[d].stale) /\ slot.token # 0)
      BY <1>0 DEF Answer, Calls
    <3>3. ~slot.error => slot.token = slot.generation
      BY DEF SlotInv
    <3> QED BY <1>0, <3>1, <3>2, <3>3 DEF Satisfies, Fails, Calls
  <2> QED BY <2>1, <2>2
<1>5. ASSUME NEW c \in Callers, PollBlocks(c) \/ Expire(c) PROVE Awake(d)'
    BY <1>0, <1>5 DEF PollBlocks, Expire, Calls
<1>6. ASSUME Fetched \/ FetchFailed PROVE Awake(d)'
  <2>1. Fetched => slot'.generation = slot.generation + 1
    BY DEF Fetched, Publish
  <2>2. FetchFailed => slot'.generation = slot.generation + 1
    BY FailedSlot
  <2>3. call' = call
    BY <1>6 DEF Fetched, FetchFailed
  <2> QED BY <1>0, <1>6, <2>1, <2>2, <2>3 DEF CallOK, Calls
<1>7. ASSUME BlockOnOwnGuard \/ FetchAbandoned \/ Stop \/ NapOver PROVE Awake(d)'
    BY <1>0, <1>7 DEF BlockOnOwnGuard, FetchAbandoned, Stop, NapOver
<1>8. ASSUME DeadlinePassed \/ ForcedRefresh PROVE Awake(d)'
    BY <1>0, <1>8 DEF DeadlinePassed, ForcedRefresh, StartFetch
<1>9. ASSUME IgnoredRequest \/ Tick PROVE Awake(d)'
  <2>1. /\ call'[d].st = call[d].st /\ call'[d].seen = call[d].seen
        /\ call'[d].stale = call[d].stale /\ slot' = slot
    BY <1>0, <1>9 DEF IgnoredRequest, Tick, Calls
  <2> QED BY <1>0, <2>1
<1>10. ASSUME NEW s \in Suspensions, Suspend(s) PROVE Awake(d)'
    BY <1>0, <1>10 DEF Suspend
<1>11. CASE UNCHANGED vars
    BY <1>0, <1>11 DEF vars
<1> QED BY <1>1, <1>2, <1>3, <1>4, <1>5, <1>6, <1>7, <1>8, <1>9, <1>10, <1>11
        DEF Next, Refresher, Clock, CallerStep

\* What an ended call reports is right when it ends, and stays as it is.
LEMMA AnswerStep ==
    IndInv /\ [Next]_vars => AnsweredByNewer' /\ TimeoutIsExplained'
<1> SUFFICES ASSUME IndInv, [Next]_vars, NEW d \in Callers PROVE Reported(d)'
    BY DEF AnsweredByNewer, TimeoutIsExplained, Reported
<1> USE DEF Reported, None, history, refresherVars, clientVars
<1>0. /\ slot.generation \in Nat /\ slot.token \in Nat /\ slot.error \in BOOLEAN
      /\ call \in [Callers -> Calls] /\ call[d] \in Calls /\ Reported(d)
    BY DEF IndInv, TypeInv, TypeOK, Slots, AnsweredByNewer, TimeoutIsExplained
<1>1. ASSUME Application PROVE Reported(d)'
    BY <1>0, <1>1 DEF Application, ForSite, DropHandle
<1>2. ASSUME NEW c \in Callers, Acquire(c) \/ Release(c) \/ Cancel(c) PROVE Reported(d)'
    BY <1>0, <1>2 DEF Acquire, Release, Cancel, NoCall
<1>3. ASSUME NEW c \in Callers, NEW stale \in 0..slot.generation, Get(c, stale) PROVE Reported(d)'
    BY <1>0, <1>3 DEF Get, NoCall
<1>4. ASSUME NEW c \in Callers, Poll(c) PROVE Reported(d)'
  <2>1. CASE d # c
    BY <1>0, <1>4, <2>1 DEF Poll
  <2>2. CASE d = c
    <3>1. call'[d] = Answer(d) /\ phase' = phase
      BY <1>0, <1>4, <2>2 DEF Poll
    <3>2. Answer(d).st # "timeout"
      BY <1>0 DEF Answer, Calls
    <3>3. Answer(d).st = "ok" =>
              /\ Answer(d).stale = call[d].stale /\ Answer(d).token = slot.token
              /\ Satisfies(call[d].stale) /\ ~Fails(call[d].stale)
      <4>1. call[d].st # "ok"
        BY <1>4, <2>2 DEF Poll, Runnable
      <4> QED BY <1>0, <4>1 DEF Answer, Calls
    <3>4. ~slot.error => slot.token = slot.generation
      BY DEF IndInv, SlotInv
    <3> QED BY <1>0, <3>1, <3>2, <3>3, <3>4 DEF Satisfies, Fails
  <2> QED BY <2>1, <2>2
<1>5. ASSUME NEW c \in Callers, PollBlocks(c) PROVE Reported(d)'
    BY <1>0, <1>5 DEF PollBlocks, Calls
<1>6. ASSUME NEW c \in Callers, Expire(c) PROVE Reported(d)'
  <2>1. CASE d # c
    BY <1>0, <1>6, <2>1 DEF Expire
  <2>2. CASE d = c
    <3>1. /\ call'[d].st = "timeout" /\ call'[d].ignored = call[d].ignored
          /\ phase' = phase /\ call[d].st = "parked" /\ ~Runnable(d) /\ call[d].timer = 0
      BY <1>0, <1>6, <2>2 DEF Expire, Expired, Calls
    <3>2. Unanswered(d)
      BY <3>1 DEF IndInv, NoLostWakeup, Unanswered
    <3>3. Promise(d) /\ fetchLeft \in Nat
      BY TimesAssumption DEF IndInv, PromiseInv, TypeInv, TypeOK
    <3>4. call[d].ignored \/ phase = "blocked"
      BY <3>1, <3>2, <3>3, TimesAssumption, WaitAssumption DEF Promise, Waiting
    <3> QED BY <3>1, <3>4
  <2> QED BY <2>1, <2>2
<1>7. ASSUME Fetched \/ FetchFailed \/ BlockOnOwnGuard \/ FetchAbandoned PROVE Reported(d)'
    BY <1>0, <1>7 DEF Fetched, FetchFailed, BlockOnOwnGuard, FetchAbandoned
<1>8. ASSUME NapOver \/ DeadlinePassed \/ ForcedRefresh \/ Stop PROVE Reported(d)'
    BY <1>0, <1>8 DEF NapOver, DeadlinePassed, ForcedRefresh, Stop, StartFetch
<1>9. ASSUME IgnoredRequest \/ Tick PROVE Reported(d)'
  <2>1. /\ call'[d].st = call[d].st /\ call'[d].token = call[d].token
        /\ call'[d].stale = call[d].stale /\ phase' = phase
        /\ call[d].ignored => call'[d].ignored
    BY <1>0, <1>9 DEF IgnoredRequest, Tick, Calls
  <2> QED BY <1>0, <2>1
<1>10. ASSUME NEW s \in Suspensions, Suspend(s) PROVE Reported(d)'
    BY <1>0, <1>10 DEF Suspend
<1>11. CASE UNCHANGED vars
    BY <1>0, <1>11 DEF vars
<1> QED BY <1>1, <1>2, <1>3, <1>4, <1>5, <1>6, <1>7, <1>8, <1>9, <1>10, <1>11
        DEF Next, Refresher, Clock, CallerStep

\* No step of the manager, its callers or the clock breaks the invariant.
LEMMA Inductive == IndInv /\ [Next]_vars => IndInv'
    BY TypeStep, CallsStep, SlotStep, PromiseStep, NapStep, MarginStep, WakeupStep, AnswerStep
    DEF IndInv

\* The invariant holds in every reachable state.
LEMMA Invariant == Spec => []IndInv
    BY InitInv, Inductive, PTL DEF Spec
-----------------------------------------------------------------------------
\* Every variable keeps its range; in particular the request channel, the
\* timers and the cursors never leave theirs.
THEOREM TypeCorrect == Spec => []TypeOK
<1>1. IndInv => TypeOK
    BY DEF IndInv, TypeInv
<1> QED BY Invariant, <1>1, PTL

\* auth.rs:221-229: whoever names a rejected generation gets a newer token.
THEOREM NewerAnswers == Spec => []AnsweredByNewer
<1>1. IndInv => AnsweredByNewer
    BY DEF IndInv
<1> QED BY Invariant, <1>1, PTL

\* auth.rs:188, 220, 232: no publish is missed between the look and the wait.
THEOREM WakeupsArrive == Spec => []NoLostWakeup
<1>1. IndInv => NoLostWakeup
    BY DEF IndInv
<1> QED BY Invariant, <1>1, PTL

\* auth.rs:188, 291: a wait ends in the timeout only after a request that the
\* debounce swallowed, or with a refresher that waits for its own lock.
THEOREM TimeoutsExplained == Spec => []TimeoutIsExplained
<1>1. IndInv => TimeoutIsExplained
    BY DEF IndInv
<1> QED BY Invariant, <1>1, PTL

\* auth.rs:288-290: the capped nap bounds how late a refresh can be.
THEOREM NoticedInTime == Spec => []NoticesWithinOneNap
<1>1. IndInv => NoticesWithinOneNap
    BY DEF IndInv, NapInv, NoticesWithinOneNap
<1> QED BY Invariant, <1>1, PTL

\* auth.rs:263: the margin covers the sleep and the fetch that follows it.
THEOREM HealthyTokensValid == Spec => []HealthyTokenIsValid
<1>1. IndInv => HealthyTokenIsValid
  <2> SUFFICES ASSUME IndInv, Undisturbed, slot.token # None, ~slot.error,
                      phase # "blocked", ~Closed
               PROVE  validFor > 0
    BY DEF HealthyTokenIsValid, Undisturbed
  <2>1. Margin /\ phase \in {"sleeping", "fetching"}
    BY DEF IndInv, MarginInv, SlotInv, TypeInv, TypeOK, Phases
  <2> QED BY <2>1, TimesAssumption DEF Margin, IndInv, TypeInv, TypeOK
<1> QED BY Invariant, <1>1, PTL

\* auth.rs:256-261, 275-278, 291-292: no exit of the task leaves a waiter behind.
THEOREM RefresherOutlives == Spec => []RefresherOutlivesCalls
<1>1. IndInv => RefresherOutlivesCalls
    BY DEF IndInv, CallsInv, CallOK, SlotInv, Closed, RefresherOutlivesCalls
<1> QED BY Invariant, <1>1, PTL

\* auth.rs:272: a failed refresh carries the token, a successful one renews it.
THEOREM TokensAreKept == Spec => TokenIsNeverLost
<1>1. IndInv /\ [Next]_vars => [slot'.token >= slot.token]_slot
  <2> SUFFICES ASSUME IndInv, [Next]_vars, slot' # slot PROVE slot'.token >= slot.token
    OBVIOUS
  <2>1. Fetched \/ FetchFailed
    BY DEF Next, vars, Application, ForSite, DropHandle, Refresher, BlockOnOwnGuard,
           FetchAbandoned, NapOver, DeadlinePassed, ForcedRefresh, IgnoredRequest, Stop,
           StartFetch, Clock, Tick, Suspend, Acquire, Release, Cancel, CallerStep, Poll,
           PollBlocks, Expire, Get
  <2>2. slot.token \in 0..slot.generation /\ slot.generation \in Nat
    BY DEF IndInv, TypeInv, TypeOK, Slots, SlotInv
  <2>3. CASE Fetched
    BY <2>2, <2>3 DEF Fetched, Publish
  <2>4. CASE FetchFailed
    BY <2>2, <2>4, FailedSlot
  <2> QED BY <2>1, <2>3, <2>4
<1> QED BY Invariant, <1>1, PTL DEF Spec, TokenIsNeverLost

-----------------------------------------------------------------------------
(* The refresher, its channels and timers implement TokenService. *)

\* What the callers see of their calls.
Seen == [c \in Callers |-> AsSeen(c)]

\* A step that changes one call changes what one caller sees.
LEMMA OneCallSeen ==
    ASSUME TypeOK, NEW c \in Callers, NEW r, call' = [call EXCEPT ![c] = r]
    PROVE  Seen' = [Seen EXCEPT ![c] =
              [st |-> Outcome(r.st), stale |-> r.stale, token |-> r.token]]
    BY DEF TypeOK, Seen, AsSeen

\* A step that leaves every call's place, complaint and answer alone is not seen.
LEMMA NothingSeen ==
    ASSUME \A c \in Callers : /\ call'[c].st = call[c].st
                              /\ call'[c].stale = call[c].stale
                              /\ call'[c].token = call[c].token
    PROVE  Seen' = Seen
    BY DEF Seen, AsSeen, Outcome

\* The service's part of the initial state.
LEMMA ServiceStarts == Init => Service!Init
    BY DEF Init, Service!Init, Service!NotAsked, AsSeen, Outcome, NoCall, None

\* Steps of the application, the clock and most of the refresher are not seen.
LEMMA SilentSteps ==
    ASSUME TypeOK, Application \/ BlockOnOwnGuard \/ FetchAbandoned \/ NapOver
                   \/ DeadlinePassed \/ ForcedRefresh \/ IgnoredRequest \/ Stop \/ Clock
    PROVE  slot' = slot /\ Seen' = Seen
<1>1. slot' = slot
    BY DEF Application, ForSite, DropHandle, BlockOnOwnGuard, FetchAbandoned, NapOver,
           DeadlinePassed, ForcedRefresh, StartFetch, IgnoredRequest, Stop, Clock, Tick, Suspend
<1>2. ASSUME NEW c \in Callers
      PROVE  /\ call'[c].st = call[c].st /\ call'[c].stale = call[c].stale
             /\ call'[c].token = call[c].token
    BY DEF TypeOK, Calls, Application, ForSite, DropHandle, BlockOnOwnGuard, FetchAbandoned,
           NapOver, DeadlinePassed, ForcedRefresh, StartFetch, IgnoredRequest, Stop, Clock,
           Tick, Suspend
<1> QED BY <1>1, <1>2, NothingSeen

\* A fetch that ends is seen as a newer token, or not at all.
LEMMA FetchSeen ==
    ASSUME IndInv, Fetched \/ FetchFailed
    PROVE  Service!Renew \/ (slot'.token = slot.token /\ Seen' = Seen)
<1>1. Seen' = Seen
    BY NothingSeen DEF Fetched, FetchFailed
<1>2. CASE Fetched
  <2>1. /\ slot.token \in 0..slot.generation /\ slot.generation \in Nat
        /\ slot.generation + 1 \in 0..MaxGeneration
    BY <1>2, BoundsAssumption
       DEF Fetched, IndInv, TypeInv, FetchBound, TypeOK, Slots, SlotInv
  <2>2. slot'.token = slot.generation + 1
    BY <1>2 DEF Fetched, Publish
  <2> QED BY <1>1, <2>1, <2>2 DEF Service!Renew, Seen
<1>3. CASE FetchFailed
    BY <1>1, <1>3, FailedSlot
<1> QED BY <1>2, <1>3

\* A new call of get, with the generation its caller complains of.
LEMMA GetSeen ==
    ASSUME IndInv, NEW c \in Callers, NEW stale \in 0..slot.generation, Get(c, stale)
    PROVE  Service!Ask(c)
<1> DEFINE r == [NoCall EXCEPT !.st = "polling", !.stale = stale, !.timer = WaitTimeout]
<1>1. TypeOK /\ slot.generation \in 0..MaxGeneration
    BY DEF IndInv, TypeInv, TypeOK, Slots
<1>2. call' = [call EXCEPT ![c] = r] /\ slot' = slot
    BY DEF Get
<1>3. r.st = "polling" /\ r.stale = stale /\ r.token = 0
    BY DEF NoCall, None
<1>4. Seen' = [Seen EXCEPT ![c] = [st |-> "waiting", stale |-> stale, token |-> 0]]
  <2> HIDE DEF r
  <2>1. Seen' = [Seen EXCEPT ![c] = [st |-> Outcome(r.st), stale |-> r.stale, token |-> r.token]]
    BY <1>1, <1>2, OneCallSeen
  <2> QED BY <2>1, <1>3 DEF Outcome
<1>5. stale \in 0..MaxGeneration
    BY <1>1, BoundsAssumption
<1>6. Seen[c].st # "waiting"
    BY <1>1 DEF Get, Waiting, Seen, AsSeen, Outcome, TypeOK, Calls
<1> QED BY <1>2, <1>4, <1>5, <1>6 DEF Service!Ask, Service!Waits, Seen

\* One turn of wait_for_token: an answer the caller may be given, or none yet.
LEMMA PollSeen ==
    ASSUME IndInv, NEW c \in Callers, Poll(c)
    PROVE  \/ Service!Grant(c) \/ Service!Refuse(c)
           \/ slot' = slot /\ Seen' = Seen
<1> DEFINE r == call[c]
<1>1. /\ TypeOK /\ Waiting(c) /\ slot' = slot
      /\ r \in Calls /\ r.stale \in Nat
      /\ slot.generation \in Nat /\ slot.token \in Nat
      /\ call' = [call EXCEPT ![c] = Answer(c)]
    BY BoundsAssumption DEF IndInv, TypeInv, TypeOK, Slots, Calls, Poll, Runnable, Waiting
<1>2. Seen[c] = [st |-> "waiting", stale |-> r.stale, token |-> r.token]
    BY <1>1 DEF Seen, AsSeen, Outcome, Waiting
<1>3. Seen' = [Seen EXCEPT ![c] = [st |-> Outcome(Answer(c).st), stale |-> Answer(c).stale,
                                   token |-> Answer(c).token]]
    BY <1>1, OneCallSeen
<1>4. CASE Satisfies(r.stale) /\ Fails(r.stale)
  <2>1. /\ Answer(c).st = "token_error" /\ Answer(c).stale = r.stale
        /\ Answer(c).token = r.token
    BY <1>1, <1>4 DEF Answer, Calls
  <2>2. [Seen[c] EXCEPT !.st = "error"] = [st |-> "error", stale |-> r.stale, token |-> r.token]
    BY <1>2
  <2>3. Seen' = [Seen EXCEPT ![c] = [Seen[c] EXCEPT !.st = "error"]]
    BY <1>3, <2>1, <2>2 DEF Outcome
  <2> QED BY <1>1, <1>2, <2>3 DEF Service!Refuse, Service!IsRefused, Seen
<1>5. CASE Satisfies(r.stale) /\ ~Fails(r.stale) /\ slot.token # None
  <2>1. /\ Answer(c).st = "ok" /\ Answer(c).stale = r.stale
        /\ Answer(c).token = slot.token
    BY <1>1, <1>5 DEF Answer, Calls
  <2>2. Seen' = [Seen EXCEPT ![c] = [st |-> "ok", stale |-> Seen[c].stale, token |-> slot.token]]
    BY <1>2, <1>3, <2>1 DEF Outcome
  <2>3. slot.token > r.stale
    BY <1>1, <1>5 DEF Satisfies, Fails, None, IndInv, SlotInv
  <2> QED BY <1>1, <1>2, <2>2, <2>3 DEF Service!Grant, Service!HasToken, Seen
<1>6. CASE ~Satisfies(r.stale) \/ (~Fails(r.stale) /\ slot.token = None)
  <2>1. /\ Answer(c).st = "parked" /\ Answer(c).stale = r.stale
        /\ Answer(c).token = r.token
    BY <1>1, <1>6 DEF Answer, Calls
  <2>2. Seen' = [Seen EXCEPT ![c] = Seen[c]]
    BY <1>2, <1>3, <2>1 DEF Outcome
  <2>3. Seen' = Seen
    BY <2>2 DEF Seen
  <2> QED BY <1>1, <2>3
<1> QED BY <1>4, <1>5, <1>6

\* The other steps of a caller's future.
LEMMA CallerSeen ==
    ASSUME IndInv, NEW c \in Callers,
           Acquire(c) \/ Release(c) \/ Cancel(c) \/ PollBlocks(c) \/ Expire(c)
    PROVE  \/ Service!Refuse(c) \/ Service!Leave(c)
           \/ slot' = slot /\ Seen' = Seen
<1>1. TypeOK /\ slot' = slot /\ call[c] \in Calls
    BY DEF IndInv, TypeInv, TypeOK, Acquire, Release, Cancel, PollBlocks, Expire
<1>2. CASE Acquire(c)
    BY <1>1, <1>2, NothingSeen DEF Acquire
<1>3. CASE Release(c) \/ Cancel(c)
  <2>1. call' = [call EXCEPT ![c] = NoCall]
    BY <1>3 DEF Release, Cancel
  <2>2. Seen' = [Seen EXCEPT ![c] = [st |-> "idle", stale |-> 0, token |-> 0]]
    BY <1>1, <2>1, OneCallSeen DEF NoCall, Outcome, None
  <2> QED BY <1>1, <2>2 DEF Service!Leave, Service!NotAsked, Seen
<1>4. CASE PollBlocks(c)
  <2>1. \A d \in Callers : AsSeen(d)' = AsSeen(d)
    BY <1>1, <1>4 DEF PollBlocks, Runnable, AsSeen, Outcome, TypeOK, Calls
  <2> QED BY <1>1, <2>1 DEF Seen
<1>5. CASE Expire(c)
  <2>1. /\ call' = [call EXCEPT ![c] = [call[c] EXCEPT !.st = "timeout"]]
        /\ call[c].st = "parked"
    BY <1>5 DEF Expire, Expired
  <2>2. Seen[c] = [st |-> "waiting", stale |-> call[c].stale, token |-> call[c].token]
    BY <2>1 DEF Seen, AsSeen, Outcome
  <2>3. [Seen[c] EXCEPT !.st = "error"]
           = [st |-> "error", stale |-> call[c].stale, token |-> call[c].token]
    BY <2>2
  <2>4. Seen' = [Seen EXCEPT ![c] = [Seen[c] EXCEPT !.st = "error"]]
    <3> DEFINE s == [call[c] EXCEPT !.st = "timeout"]
    <3>1. s.st = "timeout" /\ s.stale = call[c].stale /\ s.token = call[c].token
      BY <1>1 DEF Calls
    <3>2. call' = [call EXCEPT ![c] = s]
      BY <2>1
    <3> HIDE DEF s
    <3>3. Seen' = [Seen EXCEPT ![c] = [st |-> Outcome(s.st), stale |-> s.stale, token |-> s.token]]
      BY <1>1, <3>2, OneCallSeen
    <3> QED BY <2>3, <3>1, <3>3 DEF Outcome
  <2> QED BY <1>1, <2>2, <2>4 DEF Service!Refuse, Service!IsRefused, Seen
<1> QED BY <1>2, <1>3, <1>4, <1>5

\* Every step of the manager is a step of the service, or none.
LEMMA StepSeen == IndInv /\ [Next]_vars => [Service!Next]_Service!service
<1> SUFFICES ASSUME IndInv, [Next]_vars
             PROVE  Service!Next \/ (slot'.token = slot.token /\ Seen' = Seen)
    BY DEF Service!service, Seen
<1>1. TypeOK
    BY DEF IndInv, TypeInv
<1>2. CASE Application \/ BlockOnOwnGuard \/ FetchAbandoned \/ NapOver \/ DeadlinePassed
           \/ ForcedRefresh \/ IgnoredRequest \/ Stop \/ Clock
    BY <1>1, <1>2, SilentSteps
<1>3. CASE Fetched \/ FetchFailed
    BY <1>3, FetchSeen DEF Service!Next
<1>4. ASSUME NEW c \in Callers, NEW stale \in 0..slot.generation, Get(c, stale)
      PROVE  Service!Next
    BY <1>4, GetSeen DEF Service!Next
<1>5. ASSUME NEW c \in Callers, Poll(c)
      PROVE  Service!Next \/ (slot' = slot /\ Seen' = Seen)
    BY <1>5, PollSeen DEF Service!Next
<1>6. ASSUME NEW c \in Callers,
             Acquire(c) \/ Release(c) \/ Cancel(c) \/ PollBlocks(c) \/ Expire(c)
      PROVE  Service!Next \/ (slot' = slot /\ Seen' = Seen)
    BY <1>6, CallerSeen DEF Service!Next
<1>7. CASE UNCHANGED vars
    BY <1>7, NothingSeen DEF vars
<1> QED BY <1>2, <1>3, <1>4, <1>5, <1>6, <1>7 DEF Next, Refresher, CallerStep

\* auth.rs:181-236, 238-296: whatever fails, blocks, is cancelled or comes late,
\* a call is answered with the token current at that moment, newer than the one
\* rejected, or with an error, and the current token only gets newer.
THEOREM ServiceImplemented == Spec => ImplementsService
    BY ServiceStarts, StepSeen, Invariant, PTL DEF Spec, ImplementsService, Service!Spec

-----------------------------------------------------------------------------
(* Every step of a request is a step of the token manager or leaves it     *)
(* alone, so that what is proved of the manager holds of it under the      *)
(* requests, and their own properties follow from it.                      *)

RequestType ==
    [st : {"idle", "attempt", "token", "sent"} \cup Results, attempt : Nat,
     stale : Nat, rejected : Nat, status : Statuses]

\* What get has answered belongs to a generation that was published.
AnswerOK(c) ==
    call[c].st = "ok" =>
        /\ call[c].token # None /\ call[c].token <= call[c].generation
        /\ call[c].generation <= slot.generation

\* The complaint of a request, and its answer, are those of its call; a second
\* attempt has a complaint.
RequestOK(c) ==
    /\ req[c].stale <= slot.generation
    /\ req[c].st \in {"token", "sent"} => call[c].stale = req[c].stale
    /\ req[c].st = "sent" => call[c].st = "ok"
    /\ req[c].rejected <= req[c].stale
    /\ req[c].attempt = 0 \/ (req[c].attempt = 1 /\ req[c].rejected # None)
    /\ req[c].stale # None => req[c].rejected # None
    /\ req[c].st = "http" /\ req[c].status = "rejected" => req[c].rejected # None

RequestInv ==
    /\ IndInv
    /\ req \in [Callers -> RequestType]
    /\ \A c \in Callers : AnswerOK(c) /\ RequestOK(c)
-----------------------------------------------------------------------------
\* Before the first request.
LEMMA RequestInitInv == RequestInit => RequestInv
<1> SUFFICES ASSUME RequestInit PROVE RequestInv
    OBVIOUS
<1>1. IndInv
    BY InitInv DEF RequestInit
<1>2. req \in [Callers -> RequestType]
    BY DEF RequestInit, NoReq, RequestType, Statuses, None
<1>3. ASSUME NEW c \in Callers PROVE AnswerOK(c) /\ RequestOK(c)
    BY DEF RequestInit, Init, NoReq, NoCall, None, AnswerOK, RequestOK
<1> QED BY <1>1, <1>2, <1>3 DEF RequestInv

\* The steps of the requests, as the manager sees them: get is called with a
\* generation that was published.
LEMMA RequestStepsManager == RequestInv /\ [RequestNext]_requestVars => [Next]_vars
<1> SUFFICES ASSUME RequestInv, [RequestNext]_requestVars PROVE [Next]_vars
    OBVIOUS
<1>1. CASE ManagerStep
    BY <1>1 DEF ManagerStep, Next
<1>2. ASSUME NEW c \in Callers, StartRequest(c) \/ WaitStep(c) \/ DropRequest(c) PROVE Next
    BY <1>2 DEF StartRequest, WaitStep, DropRequest, Next
<1>3. ASSUME NEW c \in Callers, AskToken(c) PROVE Next
  <2>1. req[c].stale \in 0..slot.generation
    BY DEF RequestInv, RequestOK, RequestType, IndInv, TypeInv, TypeOK, Slots
  <2> QED BY <1>3, <2>1 DEF AskToken, Next
<1>4. ASSUME NEW c \in Callers, FinishRequest(c) PROVE Next
    BY <1>4 DEF FinishRequest, Next
<1>5. ASSUME NEW c \in Callers, NEW status \in Statuses,
             TokenUnavailable(c) \/ Send(c) \/ Respond(c, status)
      PROVE  UNCHANGED vars
    BY <1>5 DEF TokenUnavailable, Send, Respond
<1>6. CASE UNCHANGED requestVars
    BY <1>6 DEF requestVars
<1> QED BY <1>1, <1>2, <1>3, <1>4, <1>5, <1>6 DEF RequestNext, RequestStep, Statuses

\* Steps of the application, the refresher and the clock change what no call
\* has asked or been answered, and generations only grow.
LEMMA OthersKeepCalls ==
    ASSUME IndInv, Application \/ Refresher \/ Clock, NEW c \in Callers
    PROVE  /\ call'[c].st = call[c].st /\ call'[c].stale = call[c].stale
           /\ call'[c].token = call[c].token /\ call'[c].generation = call[c].generation
           /\ slot'.generation \in Nat /\ slot.generation <= slot'.generation
<1>1. TypeOK /\ slot.generation \in Nat
    BY DEF IndInv, TypeInv, TypeOK, Slots
<1>2. /\ call'[c].st = call[c].st /\ call'[c].stale = call[c].stale
      /\ call'[c].token = call[c].token /\ call'[c].generation = call[c].generation
    BY <1>1 DEF TypeOK, Calls, Application, ForSite, DropHandle, Refresher, Fetched, FetchFailed,
           BlockOnOwnGuard, FetchAbandoned, NapOver, DeadlinePassed, ForcedRefresh, StartFetch,
           IgnoredRequest, Stop, Clock, Tick, Suspend
<1>3. slot'.generation = slot.generation \/ slot'.generation = slot.generation + 1
  <2>1. CASE Fetched
    BY <2>1 DEF Fetched, Publish
  <2>2. CASE FetchFailed
    BY <2>2, FailedSlot
  <2>3. CASE ~Fetched /\ ~FetchFailed
    BY <2>3 DEF Application, ForSite, DropHandle, Refresher, BlockOnOwnGuard, FetchAbandoned,
           NapOver, DeadlinePassed, ForcedRefresh, StartFetch, IgnoredRequest, Stop, Clock,
           Tick, Suspend
  <2> QED BY <2>1, <2>2, <2>3
<1> QED BY <1>1, <1>2, <1>3

\* A caller's own step inside get: an answer comes from the published slot, and
\* the complaint stays what it was.
LEMMA WaitKeepsComplaint ==
    ASSUME IndInv, NEW c \in Callers, CallerStep(c), NEW d \in Callers, AnswerOK(d)
    PROVE  /\ slot' = slot /\ AnswerOK(d)' /\ call'[d].stale = call[d].stale
           /\ call[d].st = "ok" => call'[d] = call[d]
<1>1. /\ TypeOK /\ SlotInv /\ call[d] \in Calls /\ call[c] \in Calls
      /\ slot.generation \in Nat /\ slot.token \in Nat
    BY BoundsAssumption DEF IndInv, TypeInv, TypeOK, Slots
<1>2. slot' = slot
    BY DEF CallerStep, Poll, PollBlocks, Expire
<1>3. CASE d # c
    BY <1>1, <1>2, <1>3 DEF CallerStep, Poll, PollBlocks, Expire, AnswerOK, TypeOK
<1>4. CASE d = c /\ (PollBlocks(c) \/ Expire(c))
    BY <1>1, <1>2, <1>4 DEF PollBlocks, Expire, Expired, Runnable, AnswerOK, TypeOK, Calls
<1>5. CASE d = c /\ Poll(c)
  <2>1. call'[c] = Answer(c) /\ call[c].st # "ok"
    BY <1>1, <1>5 DEF Poll, Runnable, TypeOK
  <2>2. Answer(c).stale = call[c].stale
    BY <1>1 DEF Answer, Calls
  <2>3. Answer(c).st = "ok" => /\ Answer(c).token = slot.token /\ slot.token # None
                              /\ Answer(c).generation = slot.generation
    BY <1>1 DEF Answer, Calls
  <2> QED BY <1>1, <1>2, <1>5, <2>1, <2>2, <2>3 DEF AnswerOK, SlotInv
<1> QED BY <1>2, <1>3, <1>4, <1>5 DEF CallerStep

\* The tests on a response let no throttled one back into the loop, and a
\* rejection only once.
LEMMA Verdicts ==
    ASSUME NEW status \in Statuses, NEW stale, NEW attempt
    PROVE  \/ Verdict(status, stale, attempt) = "refresh" /\ stale = None
           \/ Verdict(status, stale, attempt) = "http" /\ (status = "rejected" => stale # None)
           \/ Verdict(status, stale, attempt) \in {"transport", "response"}
    BY DEF Verdict, IsError, Throttled, Statuses

\* No step of a request, or of the manager under it, breaks the invariant.
LEMMA RequestInductive == RequestInv /\ [RequestNext]_requestVars => RequestInv'
<1> SUFFICES ASSUME RequestInv, [RequestNext]_requestVars PROVE RequestInv'
    OBVIOUS
<1>1. IndInv /\ IndInv'
    BY RequestStepsManager, Inductive DEF RequestInv
<1>2. /\ TypeOK /\ slot.generation \in Nat /\ slot.token \in Nat
      /\ req \in [Callers -> RequestType]
      /\ \A d \in Callers : AnswerOK(d) /\ RequestOK(d)
    BY <1>1, BoundsAssumption DEF RequestInv, IndInv, TypeInv, TypeOK, Slots
<1> DEFINE Good(d) == AnswerOK(d)' /\ RequestOK(d)'
           Typed   == req' \in [Callers -> RequestType]
<1>3. ASSUME ManagerStep PROVE Typed /\ \A d \in Callers : Good(d)
  <2>1. Typed
    BY <1>2, <1>3 DEF ManagerStep
  <2>2. ASSUME NEW d \in Callers PROVE Good(d)
    <3>1. req'[d] = req[d] /\ req[d].stale \in Nat
      BY <1>2, <1>3 DEF ManagerStep, RequestType
    <3>2. /\ call'[d].st = call[d].st /\ call'[d].stale = call[d].stale
          /\ call'[d].token = call[d].token /\ call'[d].generation = call[d].generation
          /\ slot'.generation \in Nat /\ slot.generation <= slot'.generation
          /\ call[d].generation \in Nat
      BY <1>1, <1>2, <1>3, OthersKeepCalls DEF ManagerStep, TypeOK, Calls
    <3> QED BY <1>2, <3>1, <3>2 DEF AnswerOK, RequestOK
  <2> QED BY <2>1, <2>2
<1>4. ASSUME NEW c \in Callers, WaitStep(c) PROVE Typed /\ \A d \in Callers : Good(d)
  <2>1. Typed
    BY <1>2, <1>4 DEF WaitStep
  <2>2. ASSUME NEW d \in Callers PROVE Good(d)
    <3>1. /\ slot' = slot /\ AnswerOK(d)' /\ call'[d].stale = call[d].stale
          /\ call[d].st = "ok" => call'[d] = call[d]
      BY <1>1, <1>2, <1>4, WaitKeepsComplaint DEF WaitStep
    <3> QED BY <1>2, <1>4, <3>1 DEF WaitStep, RequestOK
  <2> QED BY <2>1, <2>2
<1>5. ASSUME NEW c \in Callers, StartRequest(c) PROVE Typed /\ \A d \in Callers : Good(d)
  <2>1. slot' = slot /\ call' = call /\ req' = [req EXCEPT ![c] = [NoReq EXCEPT !.st = "attempt"]]
    BY <1>5 DEF StartRequest, Acquire
  <2>2. [NoReq EXCEPT !.st = "attempt"] \in RequestType
    BY DEF NoReq, RequestType, Statuses, None
  <2> QED BY <1>2, <2>1, <2>2 DEF AnswerOK, RequestOK, NoReq, None
<1>6. ASSUME NEW c \in Callers, AskToken(c) PROVE Typed /\ \A d \in Callers : Good(d)
  <2>1. /\ slot' = slot /\ req' = [req EXCEPT ![c].st = "token"]
        /\ call' = [call EXCEPT ![c] = [NoCall EXCEPT !.st = "polling", !.stale = req[c].stale,
                                                      !.timer = WaitTimeout]]
    BY <1>6 DEF AskToken, Get
  <2>2. /\ call'[c].st = "polling" /\ call'[c].stale = req[c].stale
        /\ \A d \in Callers \ {c} : call'[d] = call[d] /\ req'[d] = req[d]
        /\ req'[c] = [req[c] EXCEPT !.st = "token"]
    BY <1>2, <2>1 DEF TypeOK, NoCall
  <2>3. [req[c] EXCEPT !.st = "token"] \in RequestType
    BY <1>2 DEF RequestType
  <2>4. Typed
    BY <1>2, <2>1, <2>3
  <2>5. ASSUME NEW d \in Callers PROVE Good(d)
    <3>1. CASE d = c
      BY <1>2, <2>1, <2>2, <3>1 DEF AnswerOK, RequestOK, RequestType
    <3>2. CASE d # c
      BY <1>2, <2>1, <2>2, <3>2 DEF AnswerOK, RequestOK
    <3> QED BY <3>1, <3>2
  <2> QED BY <2>4, <2>5
<1>7. ASSUME NEW c \in Callers, TokenUnavailable(c) \/ Send(c)
      PROVE  Typed /\ \A d \in Callers : Good(d)
    BY <1>2, <1>7 DEF TokenUnavailable, Send, vars, AnswerOK, RequestOK, RequestType, Results
<1>8. ASSUME NEW c \in Callers, NEW status \in Statuses, Respond(c, status)
      PROVE  Typed /\ \A d \in Callers : Good(d)
  <2> DEFINE verdict == Verdict(status, req[c].stale, req[c].attempt)
  <2>1. slot' = slot /\ call' = call /\ req[c].st = "sent"
    BY <1>8 DEF Respond, vars
  <2>2. /\ req[c] \in RequestType /\ call[c] \in Calls
        /\ AnswerOK(c) /\ RequestOK(c)
    BY <1>2 DEF TypeOK
  <2>3. /\ call[c].token # None /\ call[c].token <= call[c].generation
        /\ call[c].generation <= slot.generation /\ call[c].stale = req[c].stale
        /\ call[c].token \in Nat /\ call[c].generation \in Nat
    BY <2>1, <2>2, BoundsAssumption DEF AnswerOK, RequestOK, Calls
  <2>4. \A d \in Callers \ {c} : req'[d] = req[d]
    BY <1>2, <1>8 DEF Respond
  <2>5. CASE verdict = "refresh" /\ req[c].stale = None
    <3>1. req' = [req EXCEPT ![c] =
             [req[c] EXCEPT !.st = NextAttempt(req[c].attempt), !.attempt = req[c].attempt + 1,
                            !.stale = call[c].generation, !.rejected = call[c].token,
                            !.status = status]]
      BY <1>8, <2>5 DEF Respond
    <3>2. req[c].rejected = None /\ req[c].attempt = 0
      BY <2>2, <2>5 DEF RequestOK, RequestType, None
    <3>3. /\ req'[c] \in RequestType
          /\ req'[c].st \in {"attempt", "unexpected"} /\ req'[c].attempt = 1
          /\ req'[c].stale = call[c].generation /\ req'[c].rejected = call[c].token
      <4>1. NextAttempt(req[c].attempt) \in {"attempt", "unexpected"}
        BY DEF NextAttempt
      <4>2. req'[c] = [req[c] EXCEPT !.st = NextAttempt(req[c].attempt),
                          !.attempt = req[c].attempt + 1, !.stale = call[c].generation,
                          !.rejected = call[c].token, !.status = status]
        BY <1>2, <3>1
      <4>3. /\ req'[c].st = NextAttempt(req[c].attempt) /\ req'[c].attempt = req[c].attempt + 1
            /\ req'[c].stale = call[c].generation /\ req'[c].rejected = call[c].token
        BY <2>2, <4>2 DEF RequestType
      <4>4. [st |-> NextAttempt(req[c].attempt), attempt |-> req[c].attempt + 1,
             stale |-> call[c].generation, rejected |-> call[c].token,
             status |-> status] \in RequestType
        BY <2>3, <3>2, <4>1 DEF RequestType, Results
      <4>5. req'[c] = [st |-> NextAttempt(req[c].attempt), attempt |-> req[c].attempt + 1,
                       stale |-> call[c].generation, rejected |-> call[c].token,
                       status |-> status]
        BY <2>2, <4>2 DEF RequestType
      <4> QED BY <3>2, <4>1, <4>3, <4>4, <4>5
    <3> QED BY <1>2, <2>1, <2>3, <2>4, <3>1, <3>3 DEF AnswerOK, RequestOK, None
  <2>6. CASE verdict = "http" /\ (status = "rejected" => req[c].stale # None)
    <3>1. req' = [req EXCEPT ![c] = [req[c] EXCEPT !.st = "http", !.status = status]]
      BY <1>8, <2>6 DEF Respond
    <3>2. /\ req'[c] \in RequestType /\ req'[c].st = "http" /\ req'[c].status = status
          /\ req'[c].attempt = req[c].attempt
          /\ req'[c].stale = req[c].stale /\ req'[c].rejected = req[c].rejected
      BY <1>2, <2>2, <3>1 DEF RequestType, Results
    <3> QED BY <1>2, <2>1, <2>2, <2>4, <2>6, <3>1, <3>2 DEF AnswerOK, RequestOK
  <2>7. CASE verdict \in {"transport", "response"}
    <3>1. req' = [req EXCEPT ![c] = [req[c] EXCEPT !.st = verdict, !.status = status]]
      BY <1>8, <2>7 DEF Respond
    <3>2. /\ req'[c] \in RequestType /\ req'[c].st \in {"transport", "response"}
          /\ req'[c].attempt = req[c].attempt
          /\ req'[c].stale = req[c].stale /\ req'[c].rejected = req[c].rejected
      BY <1>2, <2>2, <2>7, <3>1 DEF RequestType, Results
    <3> QED BY <1>2, <2>1, <2>2, <2>4, <3>1, <3>2 DEF AnswerOK, RequestOK
  <2> QED BY <2>5, <2>6, <2>7, Verdicts
<1>9. ASSUME NEW c \in Callers, FinishRequest(c) \/ DropRequest(c)
      PROVE  Typed /\ \A d \in Callers : Good(d)
  <2>1. /\ slot' = slot /\ req' = [req EXCEPT ![c] = NoReq]
        /\ call' = [call EXCEPT ![c] = NoCall]
    BY <1>9 DEF FinishRequest, DropRequest, Cancel, Release
  <2>2. NoReq \in RequestType
    BY DEF NoReq, RequestType, Statuses, None
  <2> QED BY <1>2, <2>1, <2>2 DEF AnswerOK, RequestOK, NoReq, NoCall, None, TypeOK
<1>10. ASSUME UNCHANGED requestVars PROVE Typed /\ \A d \in Callers : Good(d)
  <2>1. slot' = slot /\ call' = call /\ req' = req
    BY <1>10 DEF requestVars, vars
  <2> QED BY <1>2, <2>1 DEF AnswerOK, RequestOK
<1>11. Typed /\ \A d \in Callers : Good(d)
  <2> HIDE DEF Typed, Good
  <2>1. ASSUME NEW c \in Callers, RequestStep(c) PROVE Typed /\ \A d \in Callers : Good(d)
    BY <1>6, <1>7, <1>8, <1>9, <2>1 DEF RequestStep
  <2> QED BY <1>3, <1>4, <1>5, <1>9, <1>10, <2>1 DEF RequestNext
<1> QED BY <1>1, <1>11 DEF RequestInv

\* Requests keep the invariant.
LEMMA RequestInvariant == RequestSpec => []RequestInv
    BY RequestInitInv, RequestInductive, PTL DEF RequestSpec
-----------------------------------------------------------------------------
\* http.rs:102-166: whatever the requests do, the manager under them behaves as
\* TokenManager says.
THEOREM RequestsUseManager == RequestSpec => Spec
<1>1. RequestInit => Init
    BY DEF RequestInit
<1> QED BY <1>1, RequestInvariant, RequestStepsManager, PTL DEF RequestSpec, Spec

\* http.rs:103-104, 131-134: an attempt after a rejection carries a newer token.
THEOREM RetriesAreNewer == RequestSpec => []RetryUsesNewerToken
<1>1. RequestInv => RetryUsesNewerToken
  <2> SUFFICES ASSUME RequestInv, NEW c \in Callers, req[c].st = "sent", req[c].rejected # None
               PROVE  call[c].token > req[c].rejected
    BY DEF RetryUsesNewerToken
  <2>1. /\ req[c] \in RequestType /\ call[c] \in Calls /\ RequestOK(c)
        /\ AnsweredByNewer
    BY DEF RequestInv, IndInv, TypeInv, TypeOK
  <2>2. /\ call[c].st = "ok" /\ call[c].stale = req[c].stale
        /\ req[c].stale # None /\ req[c].rejected <= req[c].stale
    BY <2>1 DEF RequestOK, RequestType, None
  <2>3. call[c].token > call[c].stale
    BY <2>1, <2>2 DEF AnsweredByNewer
  <2> QED BY <2>1, <2>2, <2>3, BoundsAssumption DEF RequestType, Calls
<1> QED BY <1>1, RequestInvariant, PTL

\* http.rs:130-134: one repetition, for the first rejection only.
THEOREM RejectionsRetriedOnce == RequestSpec => []RejectionIsRetriedOnce
<1>1. RequestInv => RejectionIsRetriedOnce
  <2> SUFFICES ASSUME RequestInv, NEW c \in Callers
               PROVE  /\ req[c].attempt <= 1
                      /\ req[c].st = "http" /\ req[c].status = "rejected" => req[c].rejected # None
    BY DEF RejectionIsRetriedOnce
  <2>1. RequestOK(c)
    BY DEF RequestInv
  <2> QED BY <2>1 DEF RequestOK
<1> QED BY <1>1, RequestInvariant, PTL
-----------------------------------------------------------------------------
\* A request's future holds an Arc from its first step to its last.
Holding == \A c \in Callers : req[c].st # "idle" => c \in busy

LEMMA HoldingStep == RequestInv /\ Holding /\ [RequestNext]_requestVars => Holding'
<1> SUFFICES ASSUME RequestInv, Holding, [RequestNext]_requestVars, NEW d \in Callers
             PROVE  req'[d].st # "idle" => d \in busy'
    BY DEF Holding
<1>1. req \in [Callers -> RequestType] /\ (req[d].st # "idle" => d \in busy)
    BY DEF RequestInv, Holding
<1>2. CASE ManagerStep
    BY <1>1, <1>2 DEF ManagerStep, Application, ForSite, DropHandle, Refresher, Fetched,
           FetchFailed, BlockOnOwnGuard, FetchAbandoned, NapOver, DeadlinePassed,
           ForcedRefresh, StartFetch, IgnoredRequest, Stop, Clock, Tick, Suspend, clientVars
<1>3. ASSUME NEW c \in Callers, StartRequest(c) PROVE req'[d].st # "idle" => d \in busy'
    BY <1>1, <1>3 DEF StartRequest, Acquire
<1>4. ASSUME NEW c \in Callers, WaitStep(c) PROVE req'[d].st # "idle" => d \in busy'
    BY <1>1, <1>4 DEF WaitStep, CallerStep, Poll, PollBlocks, Expire, clientVars
<1>5. ASSUME NEW c \in Callers, NEW status \in Statuses,
             AskToken(c) \/ TokenUnavailable(c) \/ Send(c) \/ Respond(c, status)
      PROVE  req'[d].st # "idle" => d \in busy'
  <2>1. busy' = busy /\ req[c].st # "idle" /\ (d # c => req'[d] = req[d])
      BY <1>1, <1>5 DEF AskToken, Get, TokenUnavailable, Send, Respond, vars, clientVars
  <2>2. c \in busy
      BY <2>1 DEF Holding
  <2> QED BY <1>1, <2>1, <2>2
<1>6. ASSUME NEW c \in Callers, FinishRequest(c) \/ DropRequest(c)
      PROVE  req'[d].st # "idle" => d \in busy'
  <2>1. busy' = busy \ {c} /\ req' = [req EXCEPT ![c] = NoReq]
      BY <1>6 DEF FinishRequest, DropRequest, Cancel, Release
  <2> QED BY <1>1, <2>1 DEF NoReq
<1>7. CASE UNCHANGED requestVars
    BY <1>1, <1>7 DEF requestVars, vars, clientVars
<1> QED BY <1>2, <1>3, <1>4, <1>5, <1>6, <1>7 DEF RequestNext, RequestStep, Statuses

\* http.rs:79-166 and auth.rs:291-292: every stage of a request has its refresher,
\* whatever the application drops meanwhile.
THEOREM RefresherOutlivesAll == RequestSpec => []RefresherOutlivesRequests
<1>1. RequestInit => Holding
    BY DEF RequestInit, NoReq, Holding
<1>2. RequestInv /\ Holding => RefresherOutlivesRequests
    BY DEF RequestInv, IndInv, SlotInv, Closed, Holding, RefresherOutlivesRequests
<1> QED BY <1>1, <1>2, HoldingStep, RequestInvariant, PTL DEF RequestSpec
=============================================================================
