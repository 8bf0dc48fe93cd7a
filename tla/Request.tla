------------------------------ MODULE Request -------------------------------
(***************************************************************************)
(* ClientState::request_with_headers of core/src/http.rs on top of the     *)
(* token manager: each caller runs one HTTP request at a time, asks for a  *)
(* token before every attempt, and decides by the response's status.       *)
(***************************************************************************)
EXTENDS TokenManager

CONSTANT MaxRetries        \* MAX_RETRIES

ASSUME RetriesAssumption == MaxRetries \in Nat

VARIABLE req               \* the request each caller is running

requestVars == <<vars, req>>
-----------------------------------------------------------------------------
\* Statuses as far as the loop tells them apart: 401 and 403, the three
\* throttling codes, any other 4xx or 5xx, success; a transport error has none.
Statuses == {"ok", "rejected", "throttled", "other_error", "transport"}

\* How a request ends: the response, or one of the error variants.
Results == {"response", "http", "transport", "token_error", "timeout", "unexpected"}

\* st, the attempt's number, the generation that was rejected and, as history,
\* the token that was rejected and the status of the last response.
NoReq == [st |-> "idle", attempt |-> 0, stale |-> None, rejected |-> None, status |-> "ok"]

Finished(c) == req[c].st \in Results

RequestInit == Init /\ req = [c \in Callers |-> NoReq]

BorrowsClient(c) ==              \* mutant: the future does not clone the Arc
    /\ handles > 0 /\ req[c].st = "idle"
    /\ req' = [req EXCEPT ![c] = [NoReq EXCEPT !.st = "attempt"]]
    /\ UNCHANGED vars

StartRequest(c) ==
    /\ Acquire(c)
    /\ req' = [req EXCEPT ![c] = [NoReq EXCEPT !.st = "attempt"]]

\* self.tokens.get(stale) at the top of an attempt.
AskToken(c) ==
    /\ req[c].st = "attempt"
    /\ Get(c, req[c].stale)
    /\ req' = [req EXCEPT ![c].st = "token"]

\* get failed: `?` returns its error.
TokenUnavailable(c) ==
    /\ req[c].st = "token" /\ call[c].st \in {"token_error", "timeout"}
    /\ req' = [req EXCEPT ![c].st = call[c].st]
    /\ UNCHANGED vars

\* The request goes out with the token get returned.
Send(c) ==
    /\ req[c].st = "token" /\ call[c].st = "ok"
    /\ req' = [req EXCEPT ![c].st = "sent"]
    /\ UNCHANGED vars

Throttled(status) == status = "throttled"
IsError(status)   == status \in {"rejected", "throttled", "other_error"}

AlwaysRefreshes(status, stale, attempt) ==   \* mutant: without `stale.is_none()`
    IF status = "rejected" THEN "refresh" ELSE IF status = "ok" THEN "response" ELSE "http"

\* The tests on a response, in the order of the code.  Every throttling code is
\* a client or server error, so the tests after that one see successes only.
Verdict(status, stale, attempt) ==
    IF status = "transport" THEN "transport"
    ELSE IF status = "rejected" /\ stale = None THEN "refresh"
    ELSE IF IsError(status) THEN "http"
    ELSE IF ~Throttled(status) \/ attempt = MaxRetries THEN "response"
    ELSE "backoff"

\* `continue`, until the attempts are used up.
NextAttempt(attempt) == IF attempt = MaxRetries THEN "unexpected" ELSE "attempt"

Respond(c, status) ==
    LET r == req[c]
        verdict == Verdict(status, r.stale, r.attempt)
    IN
    /\ r.st = "sent"
    /\ req' = [req EXCEPT ![c] =
          IF verdict = "refresh"
          THEN [r EXCEPT !.st = NextAttempt(r.attempt), !.attempt = r.attempt + 1,
                         !.stale = call[c].generation, !.rejected = call[c].token,
                         !.status = status]
          ELSE IF verdict = "backoff"
          THEN [r EXCEPT !.st = NextAttempt(r.attempt), !.attempt = r.attempt + 1,
                         !.status = status]
          ELSE [r EXCEPT !.st = verdict, !.status = status]]
    /\ UNCHANGED vars

FinishRequest(c) ==
    /\ Finished(c)
    /\ Release(c)
    /\ req' = [req EXCEPT ![c] = NoReq]

\* The application cancels the future at one of its awaits.
DropRequest(c) ==
    /\ Cancel(c) \/ (req[c].st = "sent" /\ Release(c))
    /\ req' = [req EXCEPT ![c] = NoReq]
-----------------------------------------------------------------------------
ManagerStep == (Application \/ Refresher \/ Clock) /\ UNCHANGED req

WaitStep(c) == CallerStep(c) /\ UNCHANGED req

RequestStep(c) ==
    \/ AskToken(c) \/ TokenUnavailable(c) \/ Send(c) \/ FinishRequest(c)
    \/ \E status \in Statuses : Respond(c, status)

RequestNext ==
    \/ ManagerStep
    \/ \E c \in Callers : StartRequest(c) \/ WaitStep(c) \/ RequestStep(c) \/ DropRequest(c)

RequestSpec == RequestInit /\ [][RequestNext]_requestVars
-----------------------------------------------------------------------------
(* Properties. *)

\* The second attempt carries a token fetched after the one that was rejected,
\* whatever failed in between and whoever else asked for a refresh.
RetryUsesNewerToken ==
    \A c \in Callers :
        req[c].st = "sent" /\ req[c].rejected # None => call[c].token > req[c].rejected

\* A request is repeated once, for a rejected token, and a rejection reaches
\* the caller only after a second token was rejected too.
RejectionIsRetriedOnce ==
    \A c \in Callers :
        /\ req[c].attempt <= 1
        /\ req[c].st = "http" /\ req[c].status = "rejected" => req[c].rejected # None

\* The refresher outlives every request, at whatever it waits, also when the
\* application has dropped its clients: the retry of a token rejected after
\* that still finds a refresher to ask.
RefresherOutlivesRequests ==
    \A c \in Callers : req[c].st # "idle" => phase # "stopped"

\* README.md:35 promises retries for throttling: a throttled response ends the
\* request only when the attempts are used up.
ThrottlingIsRetried ==
    \A c \in Callers :
        req[c].st = "http" /\ req[c].status = "throttled" => req[c].attempt = MaxRetries

\* docs/auth.md:145-147: a request whose token was rejected fails fast with the
\* real error; it does not sit out the 60s of the token wait.
RejectedFailsFast ==
    \A c \in Callers :
        req[c].st = "timeout" /\ req[c].rejected # None => phase = "blocked"
=============================================================================
