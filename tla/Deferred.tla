------------------------------ MODULE Deferred ------------------------------
(***************************************************************************)
(* get and get_items with max_wait (rust/lib.rs): fetch_deferred reads     *)
(* pages one after another until the time is up, and a second awaitable    *)
(* runs fetch_all from the link where it stopped.  The caller puts the two *)
(* results together.                                                       *)
(***************************************************************************)
EXTENDS FetchAll

VARIABLE initial        \* how often each row is in the first result

deferredVars == <<vars, initial>>

\* Without max_wait the call is fetch_all from the list's first page.
DeferredInit ==
    /\ \E where \in {"initial", "first"} : Start(where)
    /\ initial = [i \in Ids |-> 0]

\* One page of fetch_deferred.  Whether max_wait has elapsed is looked at only
\* after a page, so the first is always read; a list that ends leaves nothing
\* for the second awaitable.
ReadInitial ==
    /\ pc = "initial"
    /\ initial' = [i \in Ids |-> initial[i] + (IF i \in Visible(token) THEN 1 ELSE 0)]
    /\ \/ Link(token) = None /\ pc' = "done" /\ token' = None
       \/ Link(token) # None /\ pc' \in {"initial", "first"} /\ token' = Link(token)
    /\ UNCHANGED <<server, results, n, guess, tasks>>

\* The error of a page is the call's; what was read is dropped with it.
ReadInitialFails ==
    /\ pc = "initial"
    /\ pc' = "failed"
    /\ UNCHANGED <<server, results, n, token, guess, tasks, initial>>

\* The call's own steps; fetch_all starts on the link with that token.
Call ==
    \/ ReadInitial \/ ReadInitialFails
    \/ Fetch /\ UNCHANGED initial

DeferredNext == Call \/ (Others /\ UNCHANGED initial)

\* Every request is answered or times out, and the runtime goes on.
DeferredSpec == DeferredInit /\ [][DeferredNext]_deferredVars /\ WF_deferredVars(Call)
-----------------------------------------------------------------------------
(* Properties. *)

\* Rows that were there all the time and that the caller may see.
Lasting == (before \cap rows) \ trimmed

\* A call that has finished has returned every row that was there all the time
\* exactly once, in one of the two results (docs/parallel_eager.md:53, 59-61): in every
\* order of the answers, with every guess that was cancelled, wherever the
\* budget ended, and whatever rows came and went meanwhile.  Rows without an id
\* may come more than once, where the page of one guess reaches into another's.
CompleteResult ==
    pc = "done" => \A i \in Lasting :
        initial[i] + results[i] = 1 \/ (~keyed /\ initial[i] + results[i] > 1)

\* The answer of a task that has not been cancelled holds the row.
Brings(x, i) ==
    \/ x.status = "running" /\ ~x.aborted /\ x.guess < i /\ i <= x.guess + PageSize
    \/ x.status = "served" /\ i \in x.page
    \/ x.status = "error"

\* While guessing, every such row is in the results, or a guess that has not
\* been cancelled will bring it, or the guesses have not come to it yet: no
\* cancellation and no boundary leaves a hole behind the frontier.
NothingUncovered ==
    pc = "guess" =>
        \A i \in Lasting :
            \/ initial[i] + results[i] > 0
            \/ \E x \in tasks : Brings(x, i)
            \/ CanDispatch /\ NextGuess < i /\ i <= NextGuess + PageSize
            \/ i > dispatched_max + PageSize /\ terminal_at = None

\* The call ends.
Terminates == <>(pc \in {"done", "failed"})
=============================================================================
