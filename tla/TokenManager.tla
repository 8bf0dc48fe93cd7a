---------------------------- MODULE TokenManager ----------------------------
(***************************************************************************)
(* The token refresher of core/src/auth.rs and the callers of              *)
(* TokenManager::get.  One background task fetches tokens and publishes    *)
(* them in a watch channel (slot); callers wait for a value that is newer  *)
(* than the one SharePoint rejected, and nudge the refresher through a     *)
(* channel of capacity one (requests).                                     *)
(*                                                                         *)
(* Time is a set of countdown timers in one coarse unit.  Suspending the   *)
(* machine moves the wall clock (SystemTime) and not the monotonic one     *)
(* (Instant, tokio's sleep and timeout).                                   *)
(***************************************************************************)
EXTENDS Naturals

CONSTANTS
    Callers,              \* futures that may call get
    MaxHandles,           \* bound: ClientStates the application holds at once
    MaxGeneration,        \* bound: fetches per behaviour
    ExpiresIn,            \* lifetimes Entra may announce (expires_in)
    Suspensions,          \* lengths of a machine suspension, in wall-clock units
    Jitter,               \* values of the random part of the backoff
    RefreshMargin,        \* TOKEN_REFRESH_MARGIN
    MinLifetime,          \* MIN_TOKEN_LIFETIME
    MaxNap,               \* MAX_REFRESH_NAP
    Debounce,             \* FORCED_REFRESH_DEBOUNCE
    WaitTimeout,          \* TOKEN_WAIT_TIMEOUT
    FetchTimeout,         \* the total timeout of the HTTP client
    MaxBackoff,           \* MAX_BACKOFF
    MaxExponent,          \* the cap of failures.min(6)
    GuardHeldAcrossSend   \* {TRUE} is the code, FALSE what its documentation
                          \* describes: see BlockOnOwnGuard

ASSUME BoundsAssumption == MaxHandles \in Nat /\ MaxGeneration \in Nat \ {0}

ASSUME TimesAssumption ==
    /\ ExpiresIn \subseteq Nat /\ Suspensions \subseteq Nat /\ Jitter \subseteq Nat
    /\ RefreshMargin \in Nat /\ MinLifetime \in Nat /\ MaxNap \in Nat
    /\ Debounce \in Nat /\ WaitTimeout \in Nat /\ FetchTimeout \in Nat
    /\ MaxBackoff \in Nat /\ MaxExponent \in Nat

\* Exponentiation is opaque to the provers; TLC evaluates this.
ASSUME PowersAssumption == \A n \in 0..MaxExponent : 2^n \in Nat

\* The margin covers a fetch that times out and one more: 300s against 30s.
ASSUME MarginAssumption == 2 * FetchTimeout < RefreshMargin

\* The wait outlasts one fetch: 60s against the client's 30s (http.rs:231).
ASSUME WaitAssumption == FetchTimeout < WaitTimeout

ASSUME GuardAssumption == GuardHeldAcrossSend \subseteq BOOLEAN

VARIABLES
    slot,           \* the watch channel's value: a TokenSlot
    phase,          \* where the refresher task is
    fetchLeft,      \* time until the HTTP client gives up on the fetch
    untilDeadline,  \* wall-clock time until the deadline of the current sleep
    nap,            \* monotonic time left of the current nap
    age,            \* fetched_at.elapsed(), counted up to Debounce
    failures,       \* consecutive failures, counted up to MaxExponent
    requests,       \* messages in the mpsc channel
    handles,        \* ClientStates (one Arc each) the application holds
    busy,           \* callers whose future holds an Arc of its own
    call,           \* each caller's call of get
    validFor,       \* history: wall-clock time slot.token is still accepted
    overdue         \* history: running time since the deadline passed, while asleep

refresherVars == <<phase, fetchLeft, untilDeadline, nap, age, failures>>
clientVars    == <<handles, busy>>
history       == <<validFor, overdue>>
vars == <<slot, refresherVars, requests, clientVars, call, history>>
-----------------------------------------------------------------------------
\* Generations start at 1, so 0 stands for an absent token or stale argument.
None == 0

MinOf(a, b) == IF a < b THEN a ELSE b
MaxOf(a, b) == IF a < b THEN b ELSE a
Less(a, b)  == IF a < b THEN 0 ELSE a - b      \* subtraction that stops at 0

\* slot.token is named by the generation whose fetch returned it.
Slots == [generation : 0..MaxGeneration, token : 0..MaxGeneration, error : BOOLEAN]

Phases == {"fetching", "sleeping", "blocked", "stopped"}

Calls == [st      : {"idle", "polling", "parked", "blocked", "ok", "token_error", "timeout"},
          stale   : 0..MaxGeneration,   \* the argument of get
          seen    : 0..MaxGeneration,   \* the cursor of the cloned watch receiver
          timer   : 0..WaitTimeout,     \* what tokio::time::timeout has left
          generation : 0..MaxGeneration, token : 0..MaxGeneration,   \* the answer
          ignored : BOOLEAN]            \* history: the debounce swallowed a request for it

NoCall == [st |-> "idle", stale |-> None, seen |-> 0, timer |-> 0,
           generation |-> 0, token |-> None, ignored |-> FALSE]

Waiting(c) == call[c].st \in {"polling", "parked"}

HandlesOnly == handles = 0       \* mutant: a future does not keep the Arc alive
Leaked      == FALSE             \* mutant: the task owns a sender of its own

\* The last Arc<TokenManager> is gone: no watch receiver, no request sender.
Closed == handles = 0 /\ busy = {}

Init ==
    /\ slot = [generation |-> 0, token |-> None, error |-> FALSE]
    /\ phase = "fetching"
    /\ fetchLeft = FetchTimeout
    /\ untilDeadline = 0 /\ nap = 0 /\ age = 0 /\ failures = 0
    /\ requests = 0
    /\ handles = MinOf(1, MaxHandles)
    /\ busy = {}
    /\ call = [c \in Callers |-> NoCall]
    /\ validFor = 0 /\ overdue = 0
-----------------------------------------------------------------------------
(* The application: clients that share the manager, and their futures. *)

\* ClientState::for_site shares the Arc of its parent.
ForSite ==
    /\ handles \in 1..(MaxHandles - 1)
    /\ handles' = handles + 1
    /\ UNCHANGED <<slot, refresherVars, requests, busy, call, history>>

DropHandle ==
    /\ handles > 0
    /\ handles' = handles - 1
    /\ UNCHANGED <<slot, refresherVars, requests, busy, call, history>>

\* A method of a client starts: its future holds an Arc of its own.
Acquire(c) ==
    /\ handles > 0 /\ c \notin busy
    /\ busy' = busy \cup {c}
    /\ UNCHANGED <<slot, refresherVars, requests, handles, call, history>>

\* The future completes.
Release(c) ==
    /\ c \in busy /\ ~Waiting(c) /\ call[c].st # "blocked"
    /\ busy' = busy \ {c}
    /\ call' = [call EXCEPT ![c] = NoCall]
    /\ UNCHANGED <<slot, refresherVars, requests, handles, history>>

\* The application cancels a future that waits for a token: it is dropped at
\* its await, and the request it may have sent stays in the channel.
Cancel(c) ==
    /\ Waiting(c)
    /\ busy' = busy \ {c}
    /\ call' = [call EXCEPT ![c] = NoCall]
    /\ UNCHANGED <<slot, refresherVars, requests, handles, history>>
-----------------------------------------------------------------------------
(* TokenManager::get and wait_for_token. *)

Unbounded(queued) == queued + 1  \* mutant: a channel without a capacity
NotSent(queued)   == queued      \* mutant: get forgets try_send

\* try_send on a channel of capacity one: Full is discarded.
TrySend(queued) == MinOf(queued + 1, 1)

\* get up to its first poll: a stale generation nudges the refresher, and a
\* channel that is already full drops the nudge.
Get(c, stale) ==
    /\ c \in busy /\ ~Waiting(c) /\ call[c].st # "blocked"
    /\ requests' = IF stale = None THEN requests ELSE TrySend(requests)
    /\ call' = [call EXCEPT ![c] = [NoCall EXCEPT
                    !.st = "polling", !.stale = stale, !.timer = WaitTimeout]]
    /\ UNCHANGED <<slot, refresherVars, clientVars, history>>

OrEqual(stale) == slot.generation >= stale           \* mutant: >= for >
TokenFirst(stale) == slot.error /\ slot.token = None \* mutant: a carried token is an answer

\* The published value is one this caller may be answered from ...
Satisfies(stale) == stale = None \/ slot.generation > stale
\* ... and is an error to it: always when it named a stale generation, and
\* otherwise only when there is no token to carry on with.
Fails(stale) == slot.error /\ (stale # None \/ slot.token = None)

\* One turn of wait_for_token's loop: borrow_and_update, then an answer or
\* changed().await with the cursor at the value just seen.
SharedCursor(c) ==               \* mutant: get does not clone the receiver
    \/ call[c].st = "polling"
    \/ call[c].st = "parked" /\ \A d \in Callers : call[d].seen # slot.generation

Runnable(c) ==
    \/ call[c].st = "polling"
    \/ call[c].st = "parked" /\ call[c].seen # slot.generation

Answer(c) ==
    LET stale == call[c].stale IN
    IF Satisfies(stale) /\ Fails(stale)
    THEN [call[c] EXCEPT !.st = "token_error", !.timer = 0]
    ELSE IF Satisfies(stale) /\ slot.token # None
    THEN [call[c] EXCEPT !.st = "ok", !.timer = 0,
                         !.generation = slot.generation, !.token = slot.token]
    ELSE [call[c] EXCEPT !.st = "parked", !.seen = slot.generation]

Poll(c) ==
    /\ Runnable(c) /\ phase # "blocked"
    /\ call' = [call EXCEPT ![c] = Answer(c)]
    /\ UNCHANGED <<slot, refresherVars, requests, clientVars, history>>

\* The refresher waits for the write lock, so the read lock that
\* borrow_and_update takes blocks the thread, out of reach of the timeout.
PollBlocks(c) ==
    /\ Runnable(c) /\ phase = "blocked"
    /\ call' = [call EXCEPT ![c].st = "blocked"]
    /\ UNCHANGED <<slot, refresherVars, requests, clientVars, history>>

\* timeout() polls the wait before its timer: a value that is there is taken.
Expired(c) == call[c].st = "parked" /\ ~Runnable(c) /\ call[c].timer = 0

Expire(c) ==
    /\ Expired(c)
    /\ call' = [call EXCEPT ![c].st = "timeout"]
    /\ UNCHANGED <<slot, refresherVars, requests, clientVars, history>>
-----------------------------------------------------------------------------
(* The refresher task. *)

NoMargin(expiresIn) == expiresIn \* mutant: refresh at expiry
WholeNap(remaining) == remaining \* mutant: one sleep up to the deadline
Forgotten           == None      \* mutant: a failed refresh wipes the token

Lifetime(expiresIn) == MaxOf(Less(expiresIn, RefreshMargin), MinLifetime)
Backoff(n)          == MinOf(2^n, MaxBackoff)
NapLength(remaining) == MinOf(remaining, MaxNap)
CarriedToken        == slot.token
\* `generation += 1` at the top of the loop, published when the fetch fails.
FailedGeneration    == slot.generation + 1

\* Publish a slot and enter the sleep loop: fetched_at and the deadline are set.
Publish(newSlot, lifetime) ==
    /\ slot' = newSlot
    /\ phase' = "sleeping" /\ fetchLeft' = 0 /\ age' = 0
    /\ untilDeadline' = lifetime
    /\ nap' = NapLength(lifetime)

Fetched ==
    /\ phase = "fetching" /\ ~Closed
    /\ \E expiresIn \in ExpiresIn :
         /\ Publish([generation |-> slot.generation + 1,
                     token |-> slot.generation + 1, error |-> FALSE],
                    Lifetime(expiresIn))
         \* Counted from the moment the token was asked for, the earliest
         \* at which it can have been issued.
         /\ validFor' = Less(expiresIn, FetchTimeout - fetchLeft)
    /\ failures' = 0
    /\ UNCHANGED <<requests, clientVars, call, overdue>>

MayPublish == FALSE \in GuardHeldAcrossSend
MayBlock   == TRUE \in GuardHeldAcrossSend

\* The failure branch once `sender.borrow()` has been released before `send`.
FetchFailed ==
    /\ phase = "fetching" /\ ~Closed /\ MayPublish
    /\ failures' = MinOf(failures + 1, MaxExponent)
    /\ \E jitter \in Jitter :
         Publish([generation |-> FailedGeneration,
                  token |-> CarriedToken, error |-> TRUE],
                 Backoff(failures') + jitter)
    /\ UNCHANGED <<requests, clientVars, call, history>>

\* The failure branch as written: `sender.borrow()` is a temporary in the
\* condition of an `if`, so its read guard lives until `send(..).is_err()`
\* has been evaluated, and send waits for the write lock of the same RwLock.
BlockOnOwnGuard ==
    /\ phase = "fetching" /\ ~Closed /\ MayBlock
    /\ phase' = "blocked" /\ fetchLeft' = 0
    /\ failures' = MinOf(failures + 1, MaxExponent)
    /\ UNCHANGED <<slot, untilDeadline, nap, age, requests, clientVars, call, history>>

\* send() finds no receiver.
FetchAbandoned ==
    /\ phase = "fetching" /\ Closed
    /\ phase' = "stopped" /\ fetchLeft' = 0
    /\ UNCHANGED <<slot, untilDeadline, nap, age, failures, requests, clientVars, call, history>>

StartFetch ==
    /\ slot.generation < MaxGeneration
    /\ phase' = "fetching" /\ fetchLeft' = FetchTimeout
    /\ untilDeadline' = 0 /\ nap' = 0 /\ age' = 0
    /\ overdue' = 0
    /\ UNCHANGED <<slot, failures, clientVars, validFor>>

\* The nap ends; the deadline is recomputed from the wall clock.
NapOver ==
    /\ phase = "sleeping" /\ nap = 0 /\ untilDeadline > 0
    /\ nap' = NapLength(untilDeadline)
    /\ UNCHANGED <<slot, phase, fetchLeft, untilDeadline, age, failures, requests, clientVars, call, history>>

DeadlinePassed ==
    /\ phase = "sleeping" /\ nap = 0 /\ untilDeadline = 0
    /\ StartFetch
    /\ UNCHANGED <<requests, call>>

Debounced == age < Debounce

OnlyForced == ~Debounced  \* mutant: the loop does not look at the deadline again

\* A request ends the sleep, unless it comes too soon after the last fetch.
\* One that does is thrown away, and ends the sleep all the same when the wall
\* clock has passed the deadline in the meantime (the loop's own condition).
EndsSleep == ~Debounced \/ untilDeadline = 0

ForcedRefresh ==
    /\ phase = "sleeping" /\ requests = 1 /\ EndsSleep
    /\ requests' = 0
    /\ StartFetch
    /\ UNCHANGED call

\* Callers that count on the request that IgnoredRequest throws away.
Counting(c) == Waiting(c) /\ call[c].stale # None /\ call[c].stale = slot.generation

IgnoredRequest ==
    /\ phase = "sleeping" /\ requests = 1 /\ ~EndsSleep
    /\ requests' = 0
    /\ nap' = NapLength(untilDeadline)
    /\ call' = [c \in Callers |-> IF Counting(c) THEN [call[c] EXCEPT !.ignored = TRUE]
                                                 ELSE call[c]]
    /\ UNCHANGED <<slot, phase, fetchLeft, untilDeadline, age, failures, clientVars, history>>

\* recv() yields None, or closed() resolves.
Stop ==
    /\ phase = "sleeping" /\ Closed
    /\ phase' = "stopped" /\ untilDeadline' = 0 /\ nap' = 0
    /\ UNCHANGED <<slot, fetchLeft, age, failures, requests, clientVars, call, history>>
-----------------------------------------------------------------------------
(* Time. *)

\* Tasks that are ready run before a whole unit passes.
Ready ==
    \/ \E c \in Callers : Runnable(c) \/ Expired(c)
    \/ phase = "sleeping" /\ (nap = 0 \/ requests = 1 \/ Closed)
    \/ phase = "fetching" /\ fetchLeft = 0

Tick ==
    /\ ~Ready
    /\ fetchLeft' = Less(fetchLeft, 1)
    /\ untilDeadline' = Less(untilDeadline, 1)
    /\ nap' = Less(nap, 1)
    /\ age' = MinOf(age + 1, Debounce)
    /\ validFor' = Less(validFor, 1)
    /\ overdue' = IF phase = "sleeping" /\ untilDeadline = 0
                  THEN MinOf(overdue + 1, MaxNap + 1) ELSE 0
    /\ call' = [c \in Callers |-> [call[c] EXCEPT !.timer = Less(@, 1)]]
    /\ UNCHANGED <<slot, phase, failures, requests, clientVars>>

\* The machine sleeps for d: only the wall clock moves.
Suspend(d) ==
    /\ phase = "sleeping" /\ untilDeadline > 0
    /\ untilDeadline' = Less(untilDeadline, d)
    /\ validFor' = Less(validFor, d)
    /\ UNCHANGED <<slot, phase, fetchLeft, nap, age, failures, requests, clientVars, call, overdue>>
-----------------------------------------------------------------------------
Application == ForSite \/ DropHandle

CallerStep(c) == Poll(c) \/ PollBlocks(c) \/ Expire(c)

Refresher ==
    \/ Fetched \/ FetchFailed \/ BlockOnOwnGuard \/ FetchAbandoned
    \/ NapOver \/ DeadlinePassed \/ ForcedRefresh \/ IgnoredRequest \/ Stop

Clock == Tick \/ \E d \in Suspensions : Suspend(d)

Next ==
    \/ Application \/ Refresher \/ Clock
    \/ \E c \in Callers :
         \/ Acquire(c) \/ Release(c) \/ Cancel(c) \/ CallerStep(c)
         \* A caller was given its stale generation by an earlier get.
         \/ \E stale \in 0..slot.generation : Get(c, stale)

Spec == Init /\ [][Next]_vars

\* The runtime polls what it woke, a fetch ends by its timeout, and time passes.
\* Tick is strongly fair because a caller that asks again and again without
\* waiting makes Ready come and go.  Release is, because a future makes a
\* bounded number of calls (the seven attempts of http.rs:103).
Fairness ==
    /\ WF_vars(Refresher) /\ SF_vars(Tick)
    /\ \A c \in Callers : WF_vars(CallerStep(c)) /\ SF_vars(Release(c))

FairSpec == Spec /\ Fairness
-----------------------------------------------------------------------------
(* What all this amounts to for the callers. *)

Outcome(st) ==
    IF st \in {"polling", "parked", "blocked"} THEN "waiting"
    ELSE IF st \in {"token_error", "timeout"} THEN "error" ELSE st

AsSeen(c) == [st |-> Outcome(call[c].st), stale |-> call[c].stale, token |-> call[c].token]

Service == INSTANCE TokenService WITH
    Tokens  <- 0..MaxGeneration,
    current <- slot.token,
    asked   <- [c \in Callers |-> AsSeen(c)]

\* auth.rs:181-236: get answers with the token that is current
\* at that moment and newer than the one rejected, or with an error; publishing
\* in between, a failure that carries a token forward, other callers' complaints
\* and cancelled calls never show a caller anything else.
ImplementsService == Service!Spec
-----------------------------------------------------------------------------
(* Properties. *)

\* Every variable keeps its range; the request channel never holds more than
\* the one message its capacity allows.
TypeOK ==
    /\ slot \in Slots
    /\ phase \in Phases
    /\ fetchLeft \in 0..FetchTimeout
    /\ untilDeadline \in Nat /\ nap \in Nat /\ validFor \in Nat /\ overdue \in Nat
    /\ age \in 0..Debounce /\ failures \in 0..MaxExponent
    /\ requests \in 0..1
    /\ handles \in 0..MaxHandles /\ busy \subseteq Callers
    /\ call \in [Callers -> Calls]

\* A caller that named a rejected generation is answered with a token fetched
\* after that generation, even while a failed refresh carries the rejected
\* token forward (wait_for_token's error test).
AnsweredByNewer ==
    \A c \in Callers :
        call[c].st = "ok" /\ call[c].stale # None => call[c].token > call[c].stale

\* Nobody is parked on a value that would answer it: a publish between the
\* look at the slot and changed().await, or one another caller has already
\* seen, still wakes the caller (the clone of the receiver in get).
NoLostWakeup ==
    \A c \in Callers :
        call[c].st = "parked" /\ ~Runnable(c) =>
            IF call[c].stale = None THEN slot.token = None /\ ~slot.error
                                    ELSE slot.generation <= call[c].stale

\* A caller runs into the 60s timeout for two reasons only: the debounce
\* swallowed the request it relied on, or the refresher blocked itself.
\* Neither a failed fetch nor a slow one nor a full channel does it.
TimeoutIsExplained ==
    \A c \in Callers :
        call[c].st = "timeout" => call[c].ignored \/ phase = "blocked"

\* As long as refreshes succeed and the machine is not suspended, the token
\* handed out has not expired: the margin covers the slowest fetch, for tokens
\* that live longer than the shortest sleep and the two fetches around it.
HealthyTokenIsValid ==
    (\A e \in ExpiresIn : e > MinLifetime + 2 * FetchTimeout) /\ Suspensions = {}
    /\ slot.token # None /\ ~slot.error /\ phase # "blocked" /\ ~Closed
        => validFor > 0

\* After a suspension the refresher notices a passed deadline within one nap
\* of running time, whatever the length of the suspension.
NoticesWithinOneNap == overdue <= MaxNap

\* The refresher outlives every future that waits for it, also when the
\* application has dropped its clients (the Arc the future holds).
RefresherOutlivesCalls ==
    \A c \in Callers : Waiting(c) => phase # "stopped"

\* Once there is a token there is one to carry on with: failures keep it and
\* no step replaces it by an older one.
TokenIsNeverLost == [][slot'.token >= slot.token]_slot

\* The refresher wants a fetch that MaxGeneration forbids: the clock stops
\* there, and nothing is promised beyond it.
AtBound ==
    /\ slot.generation = MaxGeneration /\ phase = "sleeping"
    /\ (requests = 1 /\ EndsSleep) \/ (nap = 0 /\ untilDeadline = 0)

\* Every call of get comes back, with a token, with an error or by timeout,
\* however often other callers ask for a refresh, unless the refresher has
\* blocked itself.
EveryCallEnds ==
    \A c \in Callers :
        Waiting(c) ~> ~Waiting(c) \/ phase = "blocked" \/ AtBound

\* docs/auth.md:149-151: a fetch that fails still publishes a new generation,
\* so that waiters see the error rather than blocking.
EveryFetchIsPublished == phase = "fetching" ~> phase \in {"sleeping", "stopped"}

\* Once the last client and the last future that uses one are gone, the
\* refresher ends, wherever it is, unless it has blocked itself.
ShutdownStops == handles = 0 /\ busy = {} ~> phase \in {"stopped", "blocked"}
=============================================================================
