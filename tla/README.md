# TLA+ models of Async-Sharepoint

Async-Sharepoint is an asynchronous SharePoint client: a Rust core (`core/src`) with
authentication, HTTP and OData helpers, and a Python extension (`rust/lib.rs`) that adds
parallel pagination, eager property resolution, chunked uploads and downloads and folder
operations. The modules here model the parts in which tasks, requests, other users of the site
and cancellation interleave and check them with TLC. Every invariant and every action property
that a passing run checks, and both refinements, are also proved with TLAPS, for all values of the
constants; liveness is model-checked.

## Inventory

| Part | State | Operations | What is hard about it |
|---|---|---|---|
| Token refresher and `TokenManager::get` (`core/src/auth.rs`) | the watch channel's slot (generation, token, error), the request channel of capacity 1, the refresher's position, its deadline (wall clock) and nap (monotonic clock), the callers' cursors and timeouts | `spawn`, `get`, `wait_for_token`, fetch success and failure, sleep, forced refresh, shutdown | lost wakeups, a failed refresh that carries a rejected token, the debounce, timeouts, suspension, the lock inside the channel |
| Request loop, `ClientState` (`core/src/http.rs`) | attempt, stale generation | `request_with_headers` | which answer is retried, with which token |
| `fetch_all` (`rust/lib.rs`) | results and ids seen, frontier, offset, terminal boundary, a JoinSet of guesses with abort handles | first page, sequential fallback, dispatch, join, regroup, terminal, end | answers in any order, aborts, gaps, rows that come and go, rows without ids |
| `fetch_deferred` and the remaining awaitable | pages read, next link | | the seam between the two results |
| `ls`, `ls_items` (`rust/lib.rs`), `ls` (`core/src/client.rs`) | none beyond the call; the objects made have tasks | library, root folder, GetItems with one of two views, fallback to a file | the path changes between requests; which error means "a file"; a row that cannot be converted after others have started tasks |
| `SPFile`, `SPFolder` | `resolve_task`, properties, path | start, resolve (and what needs it), `resolved`, `Drop` | two calls share one handle; cancellation; failure |
| Uploads and `ensure_folder_path` | `pending`, `started`, `position`; the server's file, sessions and folders | add, startUpload, continueUpload, finishUpload, the retry after 404, probes, creation, `write`, `__aexit__` | one chunk behind the source, partial failure, concurrent creation, two uploads of one file, writes that overlap or go on after an error |
| Downloads in ranges | `position`, `total`, `finished` | `get_chunk`, `download_url_to_file` | the session is read before and written after the request; several readers |
| `delete_folder_path` | stack of paths, folders walked | look, walk, list, delete | others change the tree; order; partial failure |
| Search, permissions, metadata, `add_folder`, static tokens, certificates, OData helpers, Python getters, scripts | none beyond a call | | straight-line requests or pure functions |

`ClientState` is shared by every component: each of their requests is one run of the loop in
`Request`, which asks the token manager before each attempt. Above that loop a request either
answers or fails, and that is how the modules of `rust/lib.rs` see it. `fetch_all` is called by
the deferred retrieval and by folder deletion; resolution is started by every operation that
returns an item, `ls` first of all; `download_chunks` and `del_folder` begin with the same wait
as `resolve()`. Nothing is persisted, so there is no crash recovery; what survives a failure is
what the server has.

## Modules

| Module | Extends or instantiates | Contents |
|---|---|---|
| `TokenService` | | abstract: what a token manager promises to those who ask it |
| `TokenManager` | instantiates `TokenService` | the refresher, its channels, callers of `get`, the clients that keep it alive, time |
| `Request` | `TokenManager` | the request loop on top of it |
| `TokenProofs` | `Request` | theorems about all three: the manager, that it implements `TokenService`, requests |
| `FetchAll` | | pagination with guesses |
| `Deferred`, `DeferredMC` | `FetchAll` | `max_wait` before it, the properties of both; lists to run them on |
| `DeferredProofs` | `Deferred` | theorems about both |
| `VisibleFile` | | abstract: what readers of an uploaded file may see |
| `Upload`, `UploadMC`, `UploadProofs` | instantiates `VisibleFile` | the upload protocol and folder creation, with the refinement mapping `View`; two uploads, with symmetry; theorems about it |
| `UploadSession`, `UploadSessionProofs` | | one `UploadChunks` whose writes overlap, fail, are cancelled and go on, and theorems about it |
| `Listing` | `ListingConstants` | `ls` of both clients |
| `Resolve`, `ResolveProofs` | `ResolveConstants` | one `SPFile` or `SPFolder`, and theorems about it |
| `Download`, `DownloadProofs` | `DownloadConstants` | ranges, and theorems about them |
| `DeleteTree`, `DeleteTreeProofs` | `DeleteTreeConstants` | folder deletion, and theorems about it |
| `Objects`, `ObjectsMC` | the four `*Constants`; instantiates `Listing`, `Resolve`, `Download`, `DeleteTree` | an item from its listing to the operation on it; a tree of six nodes to run it on |
| `ObjectsProofs` | `Objects`; instantiates `ResolveProofs`, `DownloadProofs`, `DeleteTreeProofs` | theorems about the whole |

A `*Constants` module holds the parameters of a part with their assumptions, so that the part
and `Objects` declare them once. `MC` modules exist where a constant needs a definition; the
others are run on their own module with model values in the `.cfg`. Operators commented `mutant`
are plausible bugs of the definition that follows them. No specification uses them; PROJECT.json
lists which property each of them breaks.

### TokenManager and TokenService

A token is named by the generation whose fetch returned it, so "newer than the rejected one" is
a comparison. `slot` is the value in the watch channel, `call[c].seen` the version a cloned receiver has seen,
`requests` the number of messages in the mpsc channel. The refresher is `fetching`,
`sleeping` (in the `select!`), `stopped`, or `blocked`.

`blocked` stands for what the failure branch does as written (auth.rs:267-283): `sender.borrow()`
is a temporary inside the argument of `sender.send` in the condition of an `if`, its read guard
is released when the condition has been evaluated, and `send` takes the write lock of the same
`RwLock`. `GuardHeldAcrossSend = {TRUE}` is that program. `{FALSE}` is the branch docs/auth.md
describes, with the guard gone before `send`: without it nothing that follows a failed fetch
could be examined. The passing runs allow both, so that each failed fetch does either; the
theorems hold for any choice.

Time is measured by countdown timers in one coarse unit. A fetch that is under way counts down
the HTTP client's timeout; the nap counts down with the monotonic clock; the deadline with the
wall clock, which `Suspend` moves alone. `Tick` waits for tasks that are ready, that is, a
runtime polls a task it has woken in less than a unit. The constants keep the order and rough
proportions of the real ones (refresh margin 300s, nap 600s, debounce 5s, wait 60s, fetch 30s),
stated as assumptions: two fetches fit into the margin, one fetch into the wait. A suspension
during a fetch or a wait is not modelled. A caller that hits the lock of a blocked refresher is
`blocked` too, since `borrow_and_update` blocks its thread; that such threads use up the pool
and stop other tasks is not modelled.

A future owns a reference to the manager from its start to its end (`busy`), beside the clients
the application holds (`handles`): the refresher sees its channels closed when both are gone.

`TokenService` has none of this: one current token that only gets newer, and calls that are
answered with the token of the moment if it is newer than the one complained of, or with an
error. `ImplementsService` maps the slot's token to the current one, and a call that is about to
look, parked or blocked to one that waits.

### Request

One request per caller. Statuses are `ok`, `rejected` (401, 403), `throttled` (429, 503, 504),
`other_error`, and `transport` for a failed send. `Verdict` keeps the order of the tests in
http.rs:131-151. The sleep between attempts is untimed, and unreachable, as `RequestThrottled`
shows.

### FetchAll and Deferred

Rows are ids. The server answers the token `p` with the first `PageSize` rows above `p` and a
link to the last of them if rows are left; rows in `trimmed` count for the page and are not
returned, so pages may be short or empty; links in `opaque` hold no id that `skiptoken_p_id` can
read. `keyed` says whether the rows carry an id the client can see: `merge_page` takes rows
without one as new each time (lib.rs:145), so that such a list may come back with repetitions,
which `CompleteResult` allows. A behaviour starts with any list of the constant `Lists`. The
client's variables have the code's names. `tasks` is the JoinSet together with `abort_handles`:
a task knows whether the map still leads to it and whether it was aborted, and an abort may come
too late. `results` counts how often each row was pushed; its final order is not modelled. Others
add rows with larger ids and delete rows.

`Deferred` puts the pages of `fetch_deferred` before `fetch_all`, with the budget running out
after any page, and adds both results; without `max_wait` the call is `fetch_all` from the first
page on.

### Upload and VisibleFile

`upload`, `upload_file` and a session of `upload_chunks` send the same requests: always one chunk
behind their source, the first two chunks decide between one `Files/add` and a session. The
source delivers chunks of any of the given `Sizes`. A file is the sequence of its bytes, named
by their upload and their place in its source, so that order, loss, repetition and mixture are
visible. Each upload writes any of the `Files`, so that two may write the same one: each empties
what the other has committed, and SharePoint may refuse a second session or end one whose file
gets a new content (`MayRefuse`, `MayEnd`). The folders of the path form one chain, of which the
server has a prefix; uploads share it. A request answered with 404 inside
`with_missing_folder_retry` leads to `ensure_folder_path` - parallel probes, each about the
server at its own moment, then creation from the first missing folder - and is run once more
from its start. `Fault` fails a request with or without its effect.

`VisibleFile` is the abstract specification: a file goes from absent or old, perhaps by way of
empty, to the whole content of one upload in one step, and may be deleted. `Upload` implements it
under the mapping `View`, which calls any other content `partial`.

### UploadSession

`Upload` has one write at a time and stops at the first error; this module is the rest of what an
application may do with an `UploadChunks`. A write that is polled first takes the chunk it finds
in `pending` and reads `started` and `position` under the GIL (`Begin`), sends its requests, and
writes `started` and the new position when the last answer is there (`Store`); between the two
other writes do the same. Writes are cancelled before the first poll, in a request, or with the
answer not yet stored; a request whose caller is gone has been served, is lost, or arrives later
(`stray`). `__aexit__` closes the session when the writes are back. Chunks are one byte long and
carry the number of their write, so an offset is a count of chunks.

### Listing

`ls` as a sequence of requests - library, root folder, `GetItems`, and the path as a file if
`GetItems` is answered with 500 - while others move, replace, fill or empty what the path names.
`api` is the client: the Python one uses a view without `FileDirRef` for the root and converts
the rows, where one of an unknown type fails the call; the Rust one returns rows and filters the
root as well. `RowLimit` cuts the answer. `seen` records what the path has named during the call,
which is what a failure may be explained with.

### Resolve

One object of any of the seven kinds the code makes, which differ in whether there is a task,
whether its path is known at once and whether one or two responses are merged. A call takes the
handle out of the object; a second one finds none; a cancelled one detaches the task.

The task alternates between an await (`file`, `item`) and a response in hand (`file_in`,
`item_in`), which it converts and merges as soon as it gets the GIL, without another await. `Drop`
aborts the task if nobody has taken the handle, and `abort()` only asks for it: the flag `abort`
takes effect at the next await. A task that is past its response merges it after the object is
gone, then stops. `NothingReceivedAfterDrop` therefore counts what has been received, merged or
in hand: nothing is received after the object was dropped with its handle. Every response about a
file or a folder is taken to name `ServerRelativeUrl`.

### Download

A chunk is an interval. The call keeps what it read of the session when it began, and writes the
session before its result is delivered. Any number of readers share a session; where their calls
overlap they ask for the same range, and a late answer sets the session back. `server` says, for
a whole behaviour, whether the answers always name the length and whether an answer may hold
fewer bytes than were asked for and exist. The file does not change.

### DeleteTree

The walk of `delete_folder_path` over a tree that others change. The tree is `Parent`; `Path(x)`,
a node with the folders it is in, is the least set that holds `x` and with each member but the
root its parent, and `TreeAssumption` asks that it always reach the root. A listing, which the code gets
from `fetch_all`, is one step, and its two listings come in either order. Deleting a folder on
the server takes everything below it, which `swept` records.

### Objects

What an application does with an item, put together from the four modules above. `stage` says
what is under way. `ls` ends with the conversion of its rows: one of the items, which is
followed, becomes an object with its task (`Made`), or, when a later row cannot be converted, an
object that is dropped again before the application has seen it (`MadeInVain`). The conversion
holds the GIL, so the task of such a row may have got as far as its first response, or have
failed, but has merged nothing; the `Drop` asks it to stop wherever it is, and it goes on from
there as any other. The application keeps an item (`Keep`), resolves it or not, and a call that has
returned with the path may be the beginning of a download session (`__aenter__`, `Enter`) or of a
deletion (`del_folder`, `DelFolder`). From there the item is forgotten, because neither
operation looks at it again. Each part may also be the first thing the application does, so that
every behaviour of a part is one of `Objects`: the parts need no runs of their own.

## Runs

All run with two workers in two minutes or less. `CHECK_DEADLOCK FALSE` is set where a call
that has returned, or an application that has stopped, takes no further step.

| Run | Bounds | Shows |
|---|---|---|
| `Token` | 2 callers, 2 clients, 2 fetches, a suspension of 4; failures as built and as documented | `TokenService` is implemented; wakeups, answers, timeouts, naps; every `get` ends and dropping the last client stops the refresher, unless it is blocked |
| `Request` | 2 requests at a time, 3 fetches; failures as built and as documented | one repetition, with a newer token; tokens handed out are valid; the refresher outlives every request |
| `FetchAll` | all lists of up to 8 ids with first page {1,2}, 8 lists with gaps up to id 12, 16 with an unreadable first link and an empty page, 3 without ids; pages of 2, 2 guesses, one row added or deleted | complete and without duplicates, with `max_wait` and without; no row uncovered on the way; termination |
| `Upload` | 2 uploads (symmetric), of one file or two, 6 bytes, chunks of 0 and 2, 2 folders, root site or not, 2 faults, 1 deletion | whole files, one creator, missing folders, offsets, refinement of `VisibleFile` |
| `UploadSession` | 4 writes, 2 faults, 1 cancellation, file there or not, overwrite or not | what is lost was reported; an application that waits for each write is refused nothing |
| `Objects` | lists of 0-3 rows with a limit of 2, 1 failing request and 1 change; all kinds of object, 2 callers with 2 calls each, 1 cancellation; files of 0-6 bytes in ranges of 3, every kind of server, 2 readers, 1 failure, 1 cancellation; all trees within 5 nodes, 2 additions, 1 removal, 1 fault | failures of `ls`; joins, paths, Drop; nothing begins without a path; no gap, and the end is the end; order of deletion and its errors; what has been begun ends |

Why these bounds are enough to be of interest. Two callers suffice for a shared cursor, a full
channel and a second request in the debounce window, three fetches for a rejection, a failed
refresh and a successful one. Eight ids and pages of two leave room for a guess in the middle of
a page, one swallowed, and one beyond the end; the lists with gaps make a page swallow a guess,
and the frontier move backwards. Six bytes in chunks of zero or two give sessions of any number
of chunks, among them empty ones at each place, and one with add, start, continue and finish; two
faults can hit an upload and its retry. Four writes are a first one that only buffers, one that
starts the session and two that go on with it, beside each other or after a failure. Three rows
with a limit of two are cut, and a row that cannot be converted comes first or after another. Lengths up to 6 with ranges of 3
include 0, one short chunk and exact multiples, and two readers suffice for an answer that sets
the session back. A tree three folders deep has a folder whose children must go first at each
level. The symmetry of uploads and files is sound because the checked properties are safety
properties that name none of them; the refinement mapping names none either.

Runs that end in a violation, each checking what the documentation says against what the code
does:

| Run | Property | Documentation | Code |
|---|---|---|---|
| `TokenFailedFetch` | `EveryFetchIsPublished` | docs/auth.md:149-151, 178-180 | one failed fetch blocks the refresher for good (auth.rs:272) |
| `RequestThrottled` | `ThrottlingIsRetried` | README.md:35 | a throttled response is returned as an error at once (http.rs:136) |
| `RequestRejectedTwice` | `RejectedFailsFast` | docs/auth.md:145-147 | the debounce drops the request, the caller waits 60s (auth.rs:291) |
| `FetchAllOpaque` | `CompleteResult` | docs/parallel_eager.md:15-16 | an unreadable link in the chain counts as the end (lib.rs:312) |
| `ResolveTwoCalls` | `EveryCallWaits` | docs/parallel_eager.md:38-39 | only the first call waits (lib.rs:814) |
| `ListingRoot` | `OmittedPathIsListed` | core/src/client.rs:61, rust/lib.rs:540-542 | the Rust client filters the root by `FileDirRef`, which rust/lib.rs says SharePoint refuses with 500, and then takes the root for a file (client.rs:90, 106) |

Other places where the code does less than its documentation says appear as conditions of the
properties that hold:

| Condition | Documentation | Code |
|---|---|---|
| `NoHole` except after a call cancelled with its answer at hand (`lost`), and its order except after calls that overlapped | async_sharepoint.pyi:388 | the session is written before the chunk is delivered (lib.rs:1796) |
| `EndMeansEverything` except for a server that answers short | docs/usage.md:197-198 | an answer shorter than the range ends the download, whatever the total (lib.rs:1792) |
| `DownloadEnds` only for a server that names the length | docs/usage.md:197-198 | without it a file that is a multiple of the range ends with a request behind its end, answered 416 (http.rs:136) |
| `MissingPathIsExplained` excuses calls beside a waiting one and after a cancelled one | docs/parallel_eager.md:38-39 | only the call that joins stores a folder's path (lib.rs:487) |
| `OnlyAddedNodesAreSwept` allows what others add | docs/api.md:73-74 | ItemCount is checked by one request, and the folder deleted by the next (lib.rs:1399-1404) |
| `MissingIsExplained` excuses what others remove, with `ignore_missing` too | async_sharepoint.pyi:110-111 | only the first request ignores 404 (lib.rs:1395) |
| `LossIsVisible` allows the loss of a chunk whose write raised | docs/usage.md:256-264 | `write` gives up the buffered chunk before it sends it (lib.rs:1642): an application that catches the error and goes on commits a file without it |
| `LossIsVisible` except after two writes have both started the session, or a late request has arrived | docs/usage.md:256-264 | `started` is read before the request and set after it (lib.rs:1654, 1668) |
| `CompleteResult` allows repetitions of rows without an id | docs/parallel_eager.md:53, 59-61 | `merge_page` takes every such row as new (lib.rs:145) |

Four things have no property because no document promises anything, or the code is plain: the
getter `resolved` is true from the moment some call waits for the task (lib.rs:870), which
docs/api.md:82-83 puts differently; `del_folder` with `ignore_missing` raises if the folder's own
task has already failed with 404 (lib.rs:693), although async_sharepoint.pyi:110-111 says that a
missing folder is ignored; the row limit of 500 ends a listing silently (lib.rs:548); and the
comparator that sorts the final rows is no total order (lib.rs:338).

## Fairness

Requests are answered or time out, because the HTTP client gives every one 30 seconds
(http.rs:229-233), and tokio polls what it has woken: weak fairness of the refresher, of callers
that have something to do, of joins, of the background tasks and of the steps of a call. Whoever
holds the GIL gives it up, so that a task merges what it has received. Time passes:
`Tick` is strongly fair, because a caller that asks again and again makes `Ready` come and go.
`Release` is strongly fair because a future makes at most seven attempts before it returns.
Nothing is assumed of other users, of faults, cancellations or suspensions, nor that an
application takes a next step - except in a download, whose readers go on until they are told of
the end, since `DownloadEnds` is about those that do. It assumes nothing about their order.
`OperationsEnd` says that `ls`, the calls that wait for a task, and a deletion end without any
help of the application, however others change the path and the tree within their bounds.
`EveryCallEnds` ends at `AtBound`, where the refresher wants a fetch beyond `MaxGeneration`.
`Request`, `Upload` and `UploadSession` are checked for safety only: their calls end because each
of their loops is bounded, by the attempts, by the one retry and by the source, and the state
spaces of `Request` and `Upload` leave no time for a liveness check.

## Proofs

The first part of `TokenProofs` proves for every set of callers, every bound and every choice of times that
satisfies the named assumptions, and for either reading of the failure branch:

| Theorem | Statement |
|---|---|
| `TypeCorrect` | `Spec => []TypeOK` |
| `NewerAnswers` | `Spec => []AnsweredByNewer` |
| `WakeupsArrive` | `Spec => []NoLostWakeup` |
| `TimeoutsExplained` | `Spec => []TimeoutIsExplained` |
| `NoticedInTime` | `Spec => []NoticesWithinOneNap` |
| `HealthyTokensValid` | `Spec => []HealthyTokenIsValid` |
| `RefresherOutlives` | `Spec => []RefresherOutlivesCalls` |
| `TokensAreKept` | `Spec => TokenIsNeverLost` |

`TokenIsNeverLost`, that no step replaces the token by none or an older one, is implied by the
refinement below, and so has no run of its own.

The assumptions are those of `TokenManager`: the constants are natural numbers
(`PowersAssumption` states it of the powers of two, which the provers cannot compute), two fetches fit into the
margin, a fetch is shorter than the wait.

None of the properties is inductive. The invariant `IndInv` adds

- `CallsInv`: stale arguments and cursors are not ahead of the slot, a call that has not looked
  yet has its whole timeout, and a waiting call's future holds the manager;
- `SlotInv`: a slot without an error holds the token of its generation, the task sleeps only
  after it has published, and it has stopped only when nobody is left;
- `PromiseInv`, on which `TimeoutIsExplained` rests: a caller that waits for something newer
  than the slot, and whose request was not swallowed, has a blocked refresher, or a fetch under
  way that ends before its timer does, or a request in the channel that is taken before the
  timer starts to run;
- `NapInv`: overdue time and what is left of the nap together never exceed one nap;
- `MarginInv`: while asleep, the token outlives the deadline by more than a fetch, and during a
  fetch it outlives the fetch.

Each part has a step lemma with one case per action; `Inductive` puts them together.

The second part proves `ServiceImplemented`: `Spec => ImplementsService`. The initial state
maps to an initial state, and under `IndInv` every step of the manager maps to a step of the
service or to a stutter: a published token to `Renew`, `Get` to `Ask`, a poll that answers to
`Grant` or `Refuse`, everything else to nothing. That an answer is current when it is given needs
`SlotInv`; that it is newer than the complaint is the test in `wait_for_token`.

The third part proves `RequestsUseManager`, `RequestSpec => Spec`: every step of a request is one
of the manager or leaves it alone, because `get` is only ever called with a generation that was
published. So all that is proved of the manager holds under requests. `RetriesAreNewer` and
`RejectionsRetriedOnce` follow from `RequestInv`: an answer's token was published, a request's
complaint is that of its call, and a second attempt has a complaint. `RefresherOutlivesAll`,
that the refresher has not stopped while a request is in any of its attempts, or between two of
them, follows from `Holding`: a request's future holds the client, and with it the manager, from
its first step to its last.

`ResolveProofs` proves `TypeCorrect`, `JoinersSeeEverything`, `MissingPathsExplained` and
`NothingReceived` for any callers, kinds and numbers of calls and cancellations. `ResolveInv` says
where the task is from what has been merged (`TaskInv`), that only a task's handle is held, that
only `Drop` aborts, and that the task of an object gone with its handle has ended or is to be
aborted (`HandleInv`), what a call in each state may rely on (`CallsInv`), and - the
part without which `MissingPathIsExplained` is not inductive - that between the moment the handle
is taken and the moment the path is there somebody waits, or has been cancelled, or the task has
failed (`WaitInv`).

`DownloadProofs` proves `TypeCorrect`, `NoHoles` and `EndsMeanEverything` for any length, range
and number of readers. `CoverInv` says that the bytes delivered or at hand are the first `m` of
the file for some `m` that no position of the session or of a call exceeds, `FinishInv` that a
finished session stands at the end, `OrderInv` that calls which have not overlapped are one after
another.

`DeleteTreeProofs` proves `TreeTypeCorrect`, `SweptWasAdded`, `NothingVanishes` and
`RootIsDeletedLast` for every finite tree, wherever others add and remove. Its lemmas about
`Path` take the place of an induction over the depth of the tree: whatever is closed under
`Parent` and holds `x` contains `Path(x)`. The invariant `TreeIndInv` has these parts:

- `OrderInv`, on which the others rest: of the folders already walked none is in one walked
  after it, the folders on the stack are apart from each other and in none of those walked, and
  the same of the folder being listed and what its two listings have brought. `Descend` pushes
  siblings, and `delete_folder_path` reverses the walk, which gives children before parents;
- `TreeInv`: what exists is in a folder that exists;
- `ThereInv`: while others remove nothing, everything the call means to ask for or delete is
  there, since only its own DELETEs take anything away, and these go by `OrderInv`;
- `SweptInv`: the nodes taken unseen, together with those that could be - there, and neither
  listed nor going to be - are no more than others have added. `OnlyAddedNodesAreSwept` counts the first
  only, and is not inductive, because a DELETE turns the second into the first.

`ObjectsProofs` carries all three over to `Objects`. An item is at rest or satisfies
`ResolveInv`; a session always satisfies `DownloadInv`, and is at rest until it is entered; a
deletion always satisfies `TreeIndInv`, and is at rest until it is begun: each step of the
whole is one of a part, for which the part's own lemma is cited through an instance of its proof
module, or leaves it alone, or makes an object, a session or a deletion as the part has it begin.
`ListInv` is what `ls` needs: whenever it is on the way to a failure, `seen` or a failed request
excuses it. The theorems are those of the parts, stated of the composition that the run `Objects`
checks: `JoinersSeeEverything`, `MissingPathsExplained`, `NothingReceived`, `NoHoles`,
`EndsMeanEverything`, `SweptWasAdded`, `NothingVanishes`, `RootIsDeletedLast`, and three of its
own, `TypeCorrect`, `BeginsWithAPath` and `ListFailuresExplained`.

`DeferredProofs` proves of `DeferredSpec`, for all finite lists, page sizes and numbers of
guesses, `TypeCorrect` and `NoRowTwice`, and for every behaviour in which the links that guesses
get can be read (`[]TokensReadable`) `NothingIsUncovered` and `ResultsComplete`. The hypothesis
is needed: a link that cannot be read is taken for the end of the list, and the run
`FetchAllOpaque` shows the rows this loses. It is about the guesses only - the links that
`fetch_deferred` and the sequential start read may have any form - and `PlainListsComplete` shows
that a server whose links are all readable satisfies it. The invariant has two halves:

- `Shape`, which holds whatever the links are: `TypeOK`; `ServerInv`, new rows get larger ids;
  `ResultsInv`, what `fetch_deferred` and the sequential start have returned lies behind the
  token, and behind the frontier once guesses are made, so that with ids no row is returned twice; `TasksInv`, a
  guess lies behind what was read one page after another and up to `dispatched_max`, and a served
  one holds all lasting rows from the guess to its link;
- `Coverage`: `ReadInv`, everything up to the token has been returned; `NothingUncovered`, the
  property itself; and `GuessInv`, without which it is not inductive: nothing is missing behind
  `terminal_at`, and without a boundary what lies more than a page behind the last dispatched
  guess lies behind the next one as well, because a step of the guesses is never longer than a page.

The lemmas about pages (`RowsBetween` and those after it) say what a page holds and that the
rows up to its link are all in it. Termination stays with TLC.

`UploadProofs` proves of `Upload`, for any uploads, files, folders, chunks, failures and
deletions, every property its run checks: `TypeCorrect`, `CommitsAreWhole`, `OneCreates`,
`FoldersAreMade`, `RefusalsProtect` and the refinement `WholeFilesSeen`,
`Spec => ReadersSeeWholeFiles`. None is inductive. `UploadInv` has a part for each that the
others lean on:

- `ClientOK`, of one upload alone: what is sent begins where the server stands, and what is
  buffered begins where that ends; the last request holds the rest of the source;
- `SessionOK`: a session has received the first bytes of its source, whatever has failed;
  together with `Aligned` this makes the file of `add` and `finish` the whole of the source;
- `FileOK`, `CommitOK`: a file is what it was, empty, or the whole of an upload that has ended
  its source; after a success it is that upload's or a rival's;
- `OwnOK`: without rivals the session holds as much as the client believes, or the file is gone;
- `FoldersOK`: without deletions what the probes found is still there, and an upload that has
  passed its first request still has its file;
- `RivalsOK`: of two uploads that must not overwrite one file only one has passed.

A step that changes no file and no session needs only the upload's own part shown again
(`GrowStep`), which leaves one lemma for each client action, one for a served request, answered
or not (`ServedStep`), and one for a deletion. For the refinement, every file looks as `View`
says without its case `partial`, a served request is `Clear`, `Commit` or a stutter, a deletion
is `Delete`, and all else is a stutter.

`UploadSessionProofs` proves of `UploadSession`, for any number of writes, failures and
cancellations, every property its run checks. `RefusalsExplained` rests on `SessionInv`, which
says that `__aexit__` runs alone, and that while the session is `Calm` - no failure, no
cancellation, no overlap, allowed to overwrite - no call has ended badly, at most one write is
sending, and the server's length is the client's position, or one chunk ahead of it between an
answer and the moment the client notes it.

`TypeCorrect` and `LossesVisible` are about sessions that are anything but calm: writes overlap,
fail, are cancelled, and requests without a caller arrive. Their invariant `LossInv` adds

- `BufferInv`: each write has taken the chunk buffered before its own, and none twice;
- `PositionInv`: a position never counts more chunks than have been buffered, which
  bounds the positions in `TypeOK`;
- `ClosingInv`: what `__aexit__` sends is what the session said when the block was left;
- `SessionHolds`, unless two writes have started the session or a late request has taken effect:
  until it is started (`StartInv`) one write sends at a time, and none that had a chunk has
  succeeded; from then on (`ContinueInv`) the server holds chunks that were taken, in their
  order, among them those of all writes that were answered, no call believes it to hold more than
  it does, and a chunk whose offset still fits was taken after all it holds. The last part is why
  overlapping writes cannot mix up the file: of two that read the same position the server takes
  one, and no chunk of an older position after it.

`LossIsVisible` is stated by inclusion and by `Before`, which both TLC and the proof can use.

Finding the proofs corrected two statements. `TypeOK` of `Listing` bounded an answer's rows by
`MaxRows`, which is false if `MaxRows = 0`, because the answer for a file is one row; no run had
that value. And `Path` was a recursive function, of which nothing can be proved about a tree of
unknown depth; it is now the least closed set, with the same values.

Only model-checked: the liveness properties (`EveryCallEnds`, `ShutdownStops`, `Terminates`,
`OperationsEnd`, `DownloadEnds`), whose proofs need `ENABLED` under fairness. The runs that end in a
violation have nothing to prove.

## Not modelled

Static tokens, credentials, OData and URL functions, JSON conversion, Python getters: pure
functions or constants. Search, permissions, `get_file`, `add_folder`, `download`: sequences of
requests that keep nothing. The order of `fetch_all`'s results; more than one item of a list at
the same time, since items share nothing but the client; `upload`'s final resolution, which is
that of any other object; a file replaced during its download; a suspension during a request; the
exhaustion of the runtime's threads behind a blocked refresher; a response about a file or folder
that lacks `ServerRelativeUrl`. PROJECT.json lists each of these
as a component or a hazard with its reason.

## Plan

1. Done: every component with state or concurrency, each in one run with all its properties;
   `Objects` composes the item's parts; two refinements (`TokenService`, `VisibleFile`).
2. Done: proofs of every invariant, action property and refinement that a passing run checks.
3. Left: safety counterparts of the liveness properties, which need no fairness (how many
   requests a deletion or a call of `fetch_all` can make at most); an abstract specification of
   pagination, one answer with every lasting row, and `Deferred` as its implementation.
