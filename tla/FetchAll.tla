------------------------------ MODULE FetchAll ------------------------------
(***************************************************************************)
(* fetch_all of rust/lib.rs: page through a list while guessing the        *)
(* continuation tokens ahead.  A token is the p_ID of a skiptoken: the     *)
(* server answers it with the first PageSize rows whose id is larger, and  *)
(* with a link to the last of them when rows are left.                     *)
(***************************************************************************)
EXTENDS Naturals, FiniteSets

CONSTANTS
    Ids,          \* row ids
    Lists,        \* lists as the server may hold them when the call starts
    PageSize,     \* rows per page
    MaxGuesses,   \* MAX_GUESSES
    MaxChurn      \* bound: rows others add or delete during the call

\* A list: its rows, those of them the server counts into a page and does not
\* return, the tokens it writes in a form skiptoken_p_id cannot read, and
\* whether the rows it returns have an id.
ASSUME ListsAssumption ==
    /\ Ids \subseteq Nat \ {0}
    /\ Lists \subseteq [rows : SUBSET Ids, trimmed : SUBSET Ids, opaque : SUBSET Ids,
                       keyed : BOOLEAN]
    /\ \A list \in Lists : IsFiniteSet(list.rows)

ASSUME SizesAssumption ==
    PageSize \in Nat \ {0} /\ MaxGuesses \in Nat /\ MaxChurn \in Nat

VARIABLES
    rows,            \* the server: rows of the list now
    trimmed, opaque, keyed, \* the server: see ListsAssumption
    before,          \* history: rows of the list when the call started
    newest,          \* the server: the largest id handed out so far
    churn,           \* changes by others so far
    pc,              \* where the call is
    results,         \* how often each row was pushed on `results`, which is
                     \* sorted at the end: its order carries no information
    n,               \* rows returned by the last page read one after another
    token,           \* next_url of the sequential part
    frontier_id, frontier_n, next_offset, terminal_at,   \* as in the code
    dispatched_max,  \* as in the code
    tasks            \* the JoinSet, with abort_handles folded in

server == <<rows, trimmed, opaque, keyed, before, newest, churn>>
guess  == <<frontier_id, frontier_n, next_offset, terminal_at, dispatched_max>>
vars   == <<server, pc, results, n, token, guess, tasks>>
-----------------------------------------------------------------------------
None == 0        \* no token, no boundary: ids start at 1

MinOf(a, b) == IF a < b THEN a ELSE b
MaxOf(a, b) == IF a < b THEN b ELSE a

(* The server. *)

\* The rows a page after position p holds, and whether more are left.
Page(p)    == {i \in rows : i > p /\ Cardinality({j \in rows : p < j /\ j < i}) < PageSize}
More(p)    == \E i \in rows : i > p /\ i \notin Page(p)
LastOf(s)  == CHOOSE i \in s : \A j \in s : j <= i
Visible(p) == Page(p) \ trimmed
Link(p)    == IF More(p) THEN LastOf(Page(p)) ELSE None

\* skiptoken_p_id of a link.
Readable(link) == link # None /\ link \notin opaque

(* The client's results. *)

\* The rows of a page that merge_page has not seen; rows without an id, as a
\* $select may ask for, are all new to it.
New(s) == {i \in s : keyed => results[i] = 0}

Merge(s) == results' = [i \in Ids |-> results[i] + (IF i \in New(s) THEN 1 ELSE 0)]

(* The guesses. *)

NextGuess == frontier_id + frontier_n * next_offset

SameAgain == next_offset                         \* mutant: the offset is never counted up
Advance   == next_offset + 1

CanDispatch ==
    /\ Cardinality(tasks) <= MaxGuesses
    /\ terminal_at = None \/ NextGuess <= terminal_at

\* A task: its guess and expected_next, a number that tells apart two tasks
\* with one guess, whether abort_handles still maps the guess to it, whether
\* it was aborted, and the response once it is there.
NewTask(no) ==
    [no |-> no, guess |-> NextGuess, expected |-> NextGuess + frontier_n,
     handle |-> TRUE, aborted |-> FALSE, status |-> "running", page |-> {}, next |-> None]

Start(where) ==
    /\ \E list \in Lists :
         /\ rows = list.rows /\ trimmed = list.trimmed
         /\ opaque = list.opaque /\ keyed = list.keyed
    /\ before = rows
    /\ newest = IF rows = {} THEN 0 ELSE LastOf(rows)
    /\ churn = 0
    /\ pc = where
    /\ results = [i \in Ids |-> 0]
    /\ n = 0 /\ token = None
    /\ frontier_id = 0 /\ frontier_n = 1 /\ next_offset = 0
    /\ terminal_at = None /\ dispatched_max = 0
    /\ tasks = {}

Init == Start("first")
-----------------------------------------------------------------------------
(* One page after another. *)

CanGuess(returned, link) == returned > 0 /\ Readable(link)

\* The top of `while let Some(url) = next_url.take()` with the page just read:
\* stop, read on, or start guessing.
Continue(returned, link) ==
    IF link = None
    THEN pc' = "done" /\ token' = None /\ UNCHANGED guess
    ELSE IF ~CanGuess(returned, link)
    THEN pc' = "sequential" /\ token' = link /\ UNCHANGED guess
    ELSE /\ pc' = "guess" /\ token' = None
         /\ frontier_id' = link /\ frontier_n' = returned /\ next_offset' = 0
         /\ dispatched_max' = link /\ terminal_at' = None

\* get_json on the next page: the first has no token, position 0.
ReadPage ==
    /\ pc \in {"initial", "first", "sequential"}
    /\ Merge(Visible(token))
    /\ n' = Cardinality(Visible(token))
    /\ Continue(n', Link(token))
    /\ UNCHANGED <<server, tasks>>

\* A request failed: `?` returns, and dropping the JoinSet drops the guesses.
ReadFails ==
    /\ pc \in {"initial", "first", "sequential"}
    /\ pc' = "failed"
    /\ UNCHANGED <<server, results, n, token, guess, tasks>>
-----------------------------------------------------------------------------
(* Guessing ahead. *)

\* One turn of the dispatch loop: abort_handles.insert replaces the handle of
\* an older task with the same guess.
Dispatch ==
    /\ pc = "guess" /\ CanDispatch
    /\ LET free == CHOOSE k \in 1..(Cardinality(tasks) + 1) : \A x \in tasks : x.no # k IN
       tasks' = {NewTask(free)} \cup
                {[x EXCEPT !.handle = x.handle /\ x.guess # NextGuess] : x \in tasks}
    /\ dispatched_max' = MaxOf(dispatched_max, NextGuess)
    /\ next_offset' = Advance
    /\ UNCHANGED <<server, pc, results, n, token, frontier_id, frontier_n, terminal_at>>

\* The server answers a guess; an abort may come too late to stop the task.
Respond(x) ==
    /\ pc = "guess" /\ x.status = "running"
    /\ tasks' = (tasks \ {x}) \cup
                {[x EXCEPT !.status = "served", !.page = Page(x.guess), !.next = Link(x.guess)]}
    /\ UNCHANGED <<server, pc, results, n, token, guess>>

RespondError(x) ==
    /\ pc = "guess" /\ x.status = "running"
    /\ tasks' = (tasks \ {x}) \cup {[x EXCEPT !.status = "error"]}
    /\ UNCHANGED <<server, pc, results, n, token, guess>>

\* join_next yields a cancelled task.
JoinCancelled(x) ==
    /\ pc = "guess" /\ ~CanDispatch
    /\ x.aborted /\ x.status = "running"
    /\ tasks' = tasks \ {x}
    /\ UNCHANGED <<server, pc, results, n, token, guess>>

JoinError(x) ==
    /\ pc = "guess" /\ ~CanDispatch /\ x.status = "error"
    /\ pc' = "failed" /\ tasks' = {}
    /\ UNCHANGED <<server, results, n, token, guess>>

Guesses == {y.guess : y \in tasks}

\* The tasks left after joining x, with the redundant ones aborted; an abort
\* does nothing to a task that has finished.
Rest(x, redundant) ==
    LET hit(y) == y.handle /\ y.guess # x.guess /\ y.guess \in redundant IN
    {[y EXCEPT !.handle = y.handle /\ y.guess # x.guess /\ ~hit(y),
               !.aborted = y.aborted \/ (hit(y) /\ y.status = "running")] : y \in tasks \ {x}}

\* The link of the answer has no next_id: taken for the end of the list.
ShortPage(x) == \/ ~Readable(x.next)              \* mutant: a short page is the last one
                \/ Cardinality(x.page \ trimmed) < frontier_n
IsEnd(x)     == ~Readable(x.next)

\* next_id > expected_next + 1.5 * frontier_n, in integers.
Jumps(x) == 2 * x.next > 2 * x.expected + 3 * frontier_n

\* The guesses that the page of x has swallowed.
BehindToo(x, id) == id < x.next - frontier_n      \* mutant: the guesses before x as well
Swallowed(x, id) == x.guess < id /\ id < x.next - frontier_n

\* page_len.max(1)
RawLength(x) == Cardinality(x.page \ trimmed)     \* mutant: an empty page gives step 0
NewStep(x)   == MaxOf(Cardinality(x.page \ trimmed), 1)

Joined(x) == pc = "guess" /\ ~CanDispatch /\ x.status = "served"

\* The page ends about where it was expected to.
JoinExpected(x) ==
    /\ Joined(x) /\ ~IsEnd(x) /\ ~Jumps(x)
    /\ Merge(x.page \ trimmed)
    /\ tasks' = Rest(x, {})
    /\ UNCHANGED <<server, pc, n, token, guess>>

\* The page swallowed other guesses: regroup on its own link.
JoinRegroup(x) ==
    /\ Joined(x) /\ ~IsEnd(x) /\ Jumps(x)
    /\ Merge(x.page \ trimmed)
    /\ tasks' = Rest(x, {id \in Guesses : Swallowed(x, id)})
    /\ frontier_id' = x.next
    /\ frontier_n' = NewStep(x)
    /\ next_offset' = 0
    /\ UNCHANGED <<server, pc, n, token, terminal_at, dispatched_max>>

Boundary(id) == IF terminal_at = None THEN id ELSE MinOf(terminal_at, id)

\* No link, or none that can be read: nothing exists past this guess.
JoinTerminal(x) ==
    /\ Joined(x) /\ IsEnd(x)
    /\ Merge(x.page \ trimmed)
    /\ terminal_at' = Boundary(x.guess)
    /\ tasks' = Rest(x, {id \in Guesses : id > terminal_at'})
    /\ UNCHANGED <<server, pc, n, token, frontier_id, frontier_n, next_offset, dispatched_max>>

\* join_next yields None; next_url has been taken, so the outer loop ends too.
Finish ==
    /\ pc = "guess" /\ ~CanDispatch /\ tasks = {}
    /\ pc' = "done"
    /\ UNCHANGED <<server, results, n, token, guess, tasks>>
-----------------------------------------------------------------------------
(* Others change the list: new rows get larger ids than any before. *)

AddRow ==
    /\ churn < MaxChurn /\ newest + 1 \in Ids
    /\ rows' = rows \cup {newest + 1}
    /\ newest' = newest + 1 /\ churn' = churn + 1
    /\ UNCHANGED <<trimmed, opaque, keyed, before, pc, results, n, token, guess, tasks>>

DeleteRow(i) ==
    /\ churn < MaxChurn
    /\ rows' = rows \ {i} /\ churn' = churn + 1
    /\ UNCHANGED <<trimmed, opaque, keyed, before, newest, pc, results, n, token, guess, tasks>>
-----------------------------------------------------------------------------
TaskStep(x) ==
    \/ Respond(x) \/ RespondError(x) \/ JoinCancelled(x) \/ JoinError(x)
    \/ JoinExpected(x) \/ JoinRegroup(x) \/ JoinTerminal(x)

Fetch ==
    \/ ReadPage \/ ReadFails \/ Dispatch \/ Finish
    \/ \E x \in tasks : TaskStep(x)

Running == pc \notin {"done", "failed"}

Others == Running /\ (AddRow \/ \E i \in rows : DeleteRow(i))

Next == Fetch \/ Others

Spec == Init /\ [][Next]_vars
-----------------------------------------------------------------------------
(* Properties. *)

TypeOK ==
    /\ {rows, trimmed, opaque, before} \subseteq SUBSET Ids
    /\ keyed \in BOOLEAN /\ newest \in Nat /\ churn \in 0..MaxChurn
    /\ pc \in {"initial", "first", "sequential", "guess", "done", "failed"}
    /\ results \in [Ids -> Nat]
    /\ n \in Nat /\ token \in Nat
    /\ frontier_id \in Nat /\ frontier_n \in Nat \ {0} /\ next_offset \in Nat
    /\ terminal_at \in Nat /\ dispatched_max \in Nat
    /\ tasks \subseteq [no : Nat, guess : Nat, expected : Nat, handle : BOOLEAN, aborted : BOOLEAN,
                        status : {"running", "served", "error"}, page : SUBSET Ids, next : Nat]
=============================================================================
