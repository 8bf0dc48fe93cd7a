------------------------------- MODULE Upload -------------------------------
(***************************************************************************)
(* Uploads of rust/lib.rs: upload, upload_file and the sessions of         *)
(* upload_chunks send a file as one Files/add, or as add, startUpload,     *)
(* continueUpload ... finishUpload, always one chunk behind their source,  *)
(* and create the missing folders of the path when the first request is    *)
(* answered with 404.  All uploads here share one chain of folders, and    *)
(* some may write the same file.  A file is the sequence of its bytes, and *)
(* a byte is its upload and its place in that upload's source.             *)
(***************************************************************************)
EXTENDS Integers, Sequences

CONSTANTS
    Uploads,        \* uploads that run at the same time
    Files,          \* files they write
    Depth,          \* folders between the site's root (0) and the file
    FirstProbes,    \* see first_probe
    Sizes,          \* sizes of the chunks a source delivers
    Length,         \* bound: bytes of a source
    MaxFaults,      \* bound: requests that fail for no reason of the path's
    MaxDeletes      \* bound: deletions of folders by others

ASSUME PathAssumption == Depth \in Nat \ {0} /\ FirstProbes \subseteq {0, 1}

ASSUME SourceAssumption == Sizes \subseteq Nat /\ Length \in Nat

ASSUME FaultsAssumption == MaxFaults \in Nat /\ MaxDeletes \in Nat

VARIABLES
    first_probe,    \* 0, or 1 when the site is its host's root: nothing to probe there
    target,         \* the file each upload writes
    deepest,        \* the server: the deepest folder of the chain that exists
    file,           \* the server: each file, as readers see it
    session,        \* the server: what an open upload session has received
    up,             \* the client: where each upload is
    faults, deletes \* how often the environment has interfered

given  == <<first_probe, target>>
server == <<given, deepest, file, session>>
bounds == <<faults, deletes>>
vars   == <<server, up, bounds>>
-----------------------------------------------------------------------------
Missing == << <<"none", 0>> >>   \* no such file, no such session
Old     == << <<"old", 0>> >>    \* what a file held before

MaxOf(a, b) == IF a < b THEN b ELSE a

\* A chunk is an interval of the source, last byte included.
Chunk(from, to) == [from |-> from, to |-> to]
NoChunk      == Chunk(0, 0)
Size(chunk)  == chunk.to - chunk.from
Bytes(u, chunk) == [k \in 1..Size(chunk) |-> <<u, chunk.from + k>>]
Whole(u)        == Bytes(u, Chunk(0, up[u].taken))

\* Other uploads that write the file of u.
Rivals(u) == {w \in Uploads \ {u} : target[w] = target[u]}

Requests   == {"add", "add_empty", "start", "continue", "finish"}
Repeatable == {"add", "add_empty", "start"}      \* inside with_missing_folder_retry
Ended      == {"done", "failed", "abandoned"}

NewUpload(overwrite) ==
    [st |-> "source", overwrite |-> overwrite, taken |-> 0, closing |-> FALSE,
     buffered |-> FALSE, pending |-> NoChunk, sent |-> NoChunk,
     position |-> 0, started |-> FALSE, retried |-> FALSE,
     probes |-> {}, found |-> -1, next |-> 0, reason |-> "none"]

Init ==
    /\ first_probe \in FirstProbes /\ target \in [Uploads -> Files]
    /\ deepest \in 0..Depth
    /\ file \in [Files -> IF deepest = Depth THEN {Missing, Old} ELSE {Missing}]
    /\ session = [u \in Uploads |-> Missing]
    /\ up \in [Uploads -> {NewUpload(TRUE), NewUpload(FALSE)}]
    /\ faults = 0 /\ deletes = 0

\* A call that has ended leaves nothing of its locals behind, and of an upload
\* only what it was about.
Over(r, st) ==
    [NewUpload(r.overwrite) EXCEPT !.st = st, !.taken = r.taken, !.closing = r.closing]

Fail(r, reason) == [Over(r, "failed") EXCEPT !.reason = reason]
-----------------------------------------------------------------------------
(* The source: bytes in memory, a local file, or the application's writes. *)

Set(u, r) == up' = [up EXCEPT ![u] = r]

SendsCurrent(r, chunk) ==        \* mutant: the new chunk goes out, not the buffered one
    [r EXCEPT !.st = IF r.started THEN "continue" ELSE "add_empty",
              !.sent = chunk, !.pending = chunk, !.retried = FALSE]

FinishesEach(r, chunk) ==        \* mutant: every further chunk is taken for the last
    [r EXCEPT !.st = IF r.started THEN "finish" ELSE "add_empty",
              !.sent = r.pending, !.pending = chunk, !.retried = FALSE]

\* What sends `previous`, the chunk taken out of `pending`.
SendPrevious(r, chunk) ==
    [r EXCEPT !.st = IF r.started THEN "continue" ELSE "add_empty",
              !.sent = r.pending, !.pending = chunk, !.retried = FALSE]

\* One chunk more: it is buffered, and the chunk buffered before it goes out.
Take(u, size) ==
    LET r == up[u]
        chunk == Chunk(r.taken, r.taken + size)
    IN
    /\ r.st = "source" /\ r.taken + size <= Length
    /\ Set(u, [IF r.buffered THEN SendPrevious(r, chunk) ELSE [r EXCEPT !.pending = chunk]
                  EXCEPT !.buffered = TRUE, !.taken = r.taken + size])
    /\ UNCHANGED <<server, bounds>>

\* The source has ended, or __aexit__ runs without an exception: the last chunk
\* finishes the session, or is the only one and is added as the whole file.
End(u) ==
    /\ up[u].st = "source"
    /\ Set(u, [up[u] EXCEPT !.st = IF up[u].started THEN "finish" ELSE "add",
                            !.sent = up[u].pending, !.closing = TRUE, !.retried = FALSE])
    /\ UNCHANGED <<server, bounds>>

\* __aexit__ with an exception of the application's sends nothing.
Abandon(u) ==
    /\ up[u].st = "source"
    /\ Set(u, Over(up[u], "abandoned"))
    /\ UNCHANGED <<server, bounds>>
-----------------------------------------------------------------------------
(* The server on a request of the chunk protocol. *)

Gone(u) ==
    \/ deepest < Depth
    \/ up[u].st \notin {"add", "add_empty"} /\ file[target[u]] = Missing

OrRepeated(r) == r.overwrite \/ r.retried        \* mutant: the folder was new, so why not
Overwrites(r) == r.overwrite                     \* Files/add(overwrite=...)

Refused(u) ==
    \/ up[u].st \in {"add", "add_empty"} /\ ~Overwrites(up[u]) /\ file[target[u]] # Missing
    \/ /\ up[u].st \in {"continue", "finish"}
       /\ session[u] = Missing \/ Len(session[u]) # up[u].position

\* SharePoint may refuse a second session on one file, and a new content may
\* end the sessions that others have on it.
MayRefuse(u) == up[u].st = "start" /\ \E w \in Rivals(u) : session[w] # Missing

MayEnd(u) ==
    IF up[u].st \in {"add", "add_empty", "finish"} THEN {{}, Rivals(u)} ELSE {{}}

Serve(u) ==
    LET st == up[u].st  bytes == Bytes(u, up[u].sent) IN
    /\ file' = [file EXCEPT ![target[u]] = CASE st = "add"       -> bytes
                                             [] st = "add_empty" -> <<>>
                                             [] st = "finish"    -> session[u] \o bytes
                                             [] OTHER            -> @]
    /\ \E ends \in MayEnd(u) :
         session' = [w \in Uploads |->
            CASE w = u /\ st = "start"    -> bytes
              [] w = u /\ st = "continue" -> session[u] \o bytes
              [] w = u /\ st \notin {"start", "continue"} -> Missing
              [] w # u -> IF w \in ends THEN Missing ELSE session[w]]
    /\ UNCHANGED <<given, deepest>>
-----------------------------------------------------------------------------
(* The client on the answer. *)

StaleOffset(r)  == r.position                    \* mutant: position is not advanced
NextPosition(r) == IF r.st = "start" THEN Size(r.sent) ELSE r.position + Size(r.sent)

Advance(r) ==
    CASE r.st = "add_empty" -> [r EXCEPT !.st = "start"]
      [] r.st \in {"start", "continue"} ->
            [r EXCEPT !.st = "source", !.started = TRUE, !.position = NextPosition(r),
                      !.sent = NoChunk, !.retried = FALSE]
      [] OTHER -> Over(r, "done")

Accepted(u) ==
    /\ up[u].st \in Requests /\ ~Gone(u) /\ ~Refused(u)
    /\ Serve(u)
    /\ Set(u, Advance(up[u]))
    /\ UNCHANGED bounds

Rejected(u) ==
    /\ up[u].st \in Requests /\ ~Gone(u) /\ (Refused(u) \/ MayRefuse(u))
    /\ Set(u, Fail(up[u], "refused"))
    /\ UNCHANGED <<server, bounds>>

MayRepeat(r) == r.st \in Repeatable /\ ~r.retried

\* 404: make the folders and run the operation once more, from its start.
NotFound(u) ==
    /\ up[u].st \in Requests /\ Gone(u)
    /\ Set(u, IF MayRepeat(up[u])
              THEN [up[u] EXCEPT !.st = "probe", !.probes = first_probe..Depth, !.found = -1]
              ELSE Fail(up[u], "missing"))
    /\ UNCHANGED <<server, bounds>>

\* A request fails in transport or times out, with or without its effect.
Fault(u) ==
    /\ up[u].st \in Requests /\ faults < MaxFaults
    /\ faults' = faults + 1
    /\ \/ UNCHANGED server
       \/ ~Gone(u) /\ ~Refused(u) /\ Serve(u)
    /\ Set(u, Fail(up[u], "fault"))
    /\ UNCHANGED deletes
-----------------------------------------------------------------------------
(* ensure_folder_path. *)

\* The parallel probes are answered one by one, each about the server of then.
Probe(u, i) ==
    /\ up[u].st = "probe" /\ i \in up[u].probes
    /\ Set(u, [up[u] EXCEPT !.probes = @ \ {i},
                            !.found = IF i <= deepest THEN MaxOf(@, i) ELSE @])
    /\ UNCHANGED <<server, bounds>>

SkipsOne(r)     == r.found + 2                   \* mutant: off by one
FirstMissing(r) == r.found + 1

OnePastEnd(r, next) ==           \* mutant: one folder too many
    IF next > Depth + 1
    THEN [r EXCEPT !.st = IF r.closing THEN "add" ELSE "add_empty", !.retried = TRUE,
                   !.found = -1, !.next = 0]
    ELSE [r EXCEPT !.st = "create", !.next = next]

\* The operation again, unless a folder is left to create.
CreateFrom(r, next) ==
    IF next > Depth
    THEN [r EXCEPT !.st = IF r.closing THEN "add" ELSE "add_empty", !.retried = TRUE,
                   !.found = -1, !.next = 0]
    ELSE [r EXCEPT !.st = "create", !.next = next]

Probed(u) ==
    /\ up[u].st = "probe" /\ up[u].probes = {}
    /\ Set(u, IF up[u].found = -1 THEN Fail(up[u], "no_parent")
              ELSE CreateFrom(up[u], FirstMissing(up[u])))
    /\ UNCHANGED <<server, bounds>>

NextFolder(r) == r.next + 1

\* AddUsingPath with Overwrite=true: a folder that exists by now is accepted.
Create(u) ==
    /\ up[u].st = "create"
    /\ IF up[u].next <= deepest + 1
       THEN /\ deepest' = MaxOf(deepest, up[u].next)
            /\ Set(u, CreateFrom(up[u], NextFolder(up[u])))
       ELSE Set(u, Fail(up[u], "missing")) /\ UNCHANGED deepest
    /\ UNCHANGED <<given, file, session, bounds>>

\* A probe or a creation fails for another reason than 404: `?` ends it all.
EnsureFault(u) ==
    /\ up[u].st \in {"probe", "create"} /\ faults < MaxFaults
    /\ faults' = faults + 1
    /\ Set(u, Fail(up[u], "fault"))
    /\ UNCHANGED <<server, deletes>>
-----------------------------------------------------------------------------
\* Somebody deletes a folder of the chain with everything in it.
DeleteFolder(d) ==
    /\ deletes < MaxDeletes /\ d < deepest
    /\ deepest' = d /\ deletes' = deletes + 1
    /\ file' = [x \in Files |-> Missing] /\ session' = [u \in Uploads |-> Missing]
    /\ UNCHANGED <<given, up, faults>>

Progress(u) ==
    \/ Accepted(u) \/ Rejected(u) \/ NotFound(u)
    \/ \E i \in 0..Depth : Probe(u, i)
    \/ Probed(u) \/ Create(u)

Next ==
    \/ \E u \in Uploads :
         \/ \E size \in Sizes : Take(u, size)
         \/ End(u) \/ Abandon(u)
         \/ Progress(u)
         \/ Fault(u) \/ EnsureFault(u)
    \/ \E d \in 0..(Depth - 1) : DeleteFolder(d)

Spec == Init /\ [][Next]_vars
-----------------------------------------------------------------------------
(* What readers of the file see, and the promise made to them. *)

IsWhole(x) == \E u \in Uploads : target[u] = x /\ up[u].closing /\ file[x] = Whole(u)

View(x) == CASE file[x] = Missing -> "absent"
             [] file[x] = Old     -> "old"
             [] file[x] = <<>>    -> "empty"
             [] file[x] \notin {Missing, Old, <<>>} -> IF IsWhole(x) THEN "whole" ELSE "partial"

Readers == INSTANCE VisibleFile WITH view <- [x \in Files |-> View(x)]

\* Readers never see a part of an upload, nor parts of two, nor the file coming
\* back to what it was: by way of empty or not, it goes to the whole of one.
ReadersSeeWholeFiles == Readers!Spec
-----------------------------------------------------------------------------
(* Properties. *)

Contents == Seq((Uploads \cup {"none", "old"}) \X (0..Length))

Chunks == [from : 0..Length, to : 0..Length]

TypeOK ==
    /\ first_probe \in FirstProbes /\ target \in [Uploads -> Files]
    /\ deepest \in 0..Depth
    /\ file \in [Files -> Contents] /\ session \in [Uploads -> Contents]
    /\ faults \in 0..MaxFaults /\ deletes \in 0..MaxDeletes
    /\ up \in [Uploads ->
         [st : Requests \cup Ended \cup {"source", "probe", "create"},
          overwrite : BOOLEAN, taken : 0..Length, closing : BOOLEAN,
          buffered : BOOLEAN, pending : Chunks, sent : Chunks,
          position : 0..Length, started : BOOLEAN, retried : BOOLEAN,
          probes : SUBSET (0..Depth), found : -1..Depth, next : 0..Depth,
          reason : {"none", "refused", "missing", "no_parent", "fault"}]]

\* An upload that succeeds leaves every byte of its source in the file, in
\* order and once, whatever folders were missing, made or deleted meanwhile,
\* until another upload to the same file empties or replaces it.
CommittedIsWhole ==
    \A u \in Uploads : up[u].st = "done" =>
        \/ file[target[u]] \in {Missing, Whole(u)}
        \/ \E w \in Rivals(u) : file[target[u]] \in {<<>>, Whole(w)}

\* docs/usage.md and async_sharepoint.pyi: overwrite=False raises if the file
\* exists.  Of the uploads that say so about one file at most one succeeds, in
\* whatever order their requests arrive, unless the file was deleted between.
OnlyOneCreates ==
    \A u, w \in Uploads :
        /\ u \in Rivals(w) /\ ~up[u].overwrite /\ ~up[w].overwrite
        /\ up[u].st = "done" /\ up[w].st = "done"
        => deletes > 0

\* docs/usage.md:229-230: a missing folder fails an upload only when somebody
\* deletes folders meanwhile, or when a root site lacks the library itself;
\* uploads that make the same folders at the same time do not get in each
\* other's way.
MissingFoldersAreMade ==
    \A u \in Uploads :
        /\ up[u].reason = "missing" => deletes > 0
        /\ up[u].reason = "no_parent" => first_probe = 1

\* The server refuses a request only to protect an existing file, or the
\* session of another upload to the same file: the offset sent is always the
\* length of what the session has received.
RefusedOnlyToProtect ==
    \A u \in Uploads : up[u].reason = "refused" => ~up[u].overwrite \/ Rivals(u) # {}
=============================================================================
