------------------------------ MODULE Download ------------------------------
(***************************************************************************)
(* Downloads of rust/lib.rs in HTTP ranges: a session of download_chunks   *)
(* whose get_chunk reads its position before the request and writes it     *)
(* after, and download_url_to_file, which runs the same step in a loop.    *)
(* Several tasks of the application may call get_chunk of one session.  A  *)
(* chunk is an interval of the file, whose content does not change.        *)
(***************************************************************************)
EXTENDS DownloadConstants

VARIABLES
    length,         \* of the file
    server,         \* whether Content-Range always names the length, and whether a
                    \* range may be answered with fewer bytes than there are
    session,        \* position, total and finished, as in DownloadChunks
    call,           \* each reader's call, with what it read of the session
    got,            \* history: the bytes the application has
    last,           \* history: the last byte of the chunk delivered last
    overlapped,     \* history: two calls were under way at the same time
    disorder,       \* history: a chunk began elsewhere than at `last`
    lost,           \* history: a call was cancelled with its chunk at hand
    ended,          \* the application was told that there is no more
    faults, cancels

given   == <<length, server>>
history == <<got, last, overlapped, disorder>>
vars    == <<given, session, call, history, lost, ended, faults, cancels>>
-----------------------------------------------------------------------------
Unknown == [known |-> FALSE, value |-> 0]
Known(n) == [known |-> TRUE, value |-> n]

MinOf(a, b) == IF a < b THEN a ELSE b

NoCall == [st |-> "idle", position |-> 0, total |-> Unknown, from |-> 0, to |-> 0]

Servers == [totals : BOOLEAN, short : BOOLEAN]

\* The session before its first call.
Fresh ==
    /\ session = [position |-> 0, total |-> Unknown, finished |-> FALSE]
    /\ call = [r \in Readers |-> NoCall]
    /\ got = {} /\ last = 0 /\ overlapped = FALSE /\ disorder = FALSE
    /\ lost = FALSE /\ ended = FALSE
    /\ faults = 0 /\ cancels = 0

Init == length \in Lengths /\ server \in Servers /\ Fresh
-----------------------------------------------------------------------------
Idle == \A r \in Readers : call[r].st = "idle"

Begun == [st |-> "requested", position |-> session.position, total |-> session.total,
          from |-> 0, to |-> 0]

\* get_chunk reads the session; a finished one answers None without a request.
GetChunk(r) ==
    /\ call[r].st = "idle" /\ ~ended
    /\ IF session.finished
       THEN ended' = TRUE /\ UNCHANGED <<call, overlapped>>
       ELSE /\ call' = [call EXCEPT ![r] = Begun]
            /\ overlapped' = (overlapped \/ ~Idle)
            /\ UNCHANGED ended
    /\ UNCHANGED <<given, session, got, last, disorder, lost, faults, cancels>>

\* How many bytes the server sends from a position on.
Answers(position) ==
    LET there == MinOf(ChunkSize, length - position) IN
    IF server.short /\ there > 0 THEN 1..there ELSE {there}

OneTooMany(n, total, position) == n <= ChunkSize       \* mutant: <= for <
WithoutTotal(n, total, position) == n < ChunkSize      \* mutant: the total is ignored

\* is_finished: nothing, a short answer, or the end by the length reported.
IsFinished(n, total, position) ==
    n = 0 \/ n < ChunkSize \/ (total.known /\ position >= total.value)

NewTotal(total, reported) == IF total.known THEN total ELSE reported

FromNow(r, n)     == session.position + n          \* mutant: added to what the session says now
NewPosition(r, n) == call[r].position + n

\* The answer arrives, and the session is written from what the call had read.
\* A range that starts at or behind the end of a file that is not empty is
\* answered with 416: see Unsatisfiable.
Answered(r) ==
    LET own == call[r] IN
    /\ own.st = "requested" /\ (own.position < length \/ length = 0)
    /\ \E n \in Answers(own.position), reports \in {TRUE, server.totals} :
         LET total == NewTotal(own.total, IF reports THEN Known(length) ELSE Unknown)
             position == NewPosition(r, n)
         IN
         /\ session' = [position |-> position, total |-> total,
                        finished |-> IsFinished(n, total, position)]
         /\ call' = [call EXCEPT ![r].st = "answered", ![r].from = own.position,
                                 ![r].to = own.position + n]
    /\ UNCHANGED <<given, history, lost, ended, faults, cancels>>

\* The chunk reaches the application, or None if it is empty.
Deliver(r) ==
    LET own == call[r] IN
    /\ own.st = "answered"
    /\ IF own.to = own.from
       THEN ended' = TRUE /\ UNCHANGED <<got, last, disorder>>
       ELSE /\ got' = got \cup ((own.from + 1)..own.to)
            /\ last' = own.to
            /\ disorder' = (disorder \/ own.from # last)
            /\ UNCHANGED ended
    /\ call' = [call EXCEPT ![r] = NoCall]
    /\ UNCHANGED <<given, session, overlapped, lost, faults, cancels>>

\* The request fails: get_chunk raises, and the application may call it again.
Fails(r) ==
    /\ call[r].st = "requested" /\ faults < MaxReadFaults
    /\ faults' = faults + 1 /\ call' = [call EXCEPT ![r] = NoCall]
    /\ UNCHANGED <<given, session, history, lost, ended, cancels>>

\* 416 is an error like any other.
Unsatisfiable(r) ==
    /\ call[r].st = "requested" /\ length > 0 /\ call[r].position >= length
    /\ call' = [call EXCEPT ![r] = NoCall]
    /\ UNCHANGED <<given, session, history, lost, ended, faults, cancels>>

\* The application cancels the call and later makes another one.  A call whose
\* answer is there has written the session already.
Cancel(r) ==
    /\ call[r].st \in {"requested", "answered"} /\ cancels < MaxReadCancels
    /\ cancels' = cancels + 1 /\ call' = [call EXCEPT ![r] = NoCall]
    /\ lost' = (lost \/ call[r].to # call[r].from)
    /\ UNCHANGED <<given, session, history, ended, faults>>

Progress(r) == GetChunk(r) \/ Answered(r) \/ Deliver(r) \/ Unsatisfiable(r)

Next == \E r \in Readers : Progress(r) \/ Fails(r) \/ Cancel(r)

\* The application calls until it is told to stop, and requests are answered.
Spec == Init /\ [][Next]_vars /\ \A r \in Readers : WF_vars(Progress(r))
-----------------------------------------------------------------------------
(* Properties. *)

Sessions == [position : 0..length, total : {Unknown, Known(length)}, finished : BOOLEAN]

Calls == [st : {"idle", "requested", "answered"}, position : 0..length,
          total : {Unknown, Known(length)}, from : 0..length, to : 0..length]

\* Positions stay within the file, and a total that is known is its length.
TypeOK ==
    /\ length \in Nat /\ server \in Servers
    /\ session \in Sessions /\ call \in [Readers -> Calls]
    /\ got \subseteq 1..length /\ last \in 0..length
    /\ overlapped \in BOOLEAN /\ disorder \in BOOLEAN /\ lost \in BOOLEAN /\ ended \in BOOLEAN
    /\ faults \in 0..MaxReadFaults /\ cancels \in 0..MaxReadCancels

\* Whatever calls fail, overlap or are cancelled before they have an answer, the
\* application has the file up to some byte once they have come back; and the
\* chunks of calls that did not overlap follow one another without a repetition.
\* The session is written before the chunk is handed over, hence `lost`.
NoHole ==
    ~lost =>
        /\ Idle => \E k \in 0..length : got = 1..k
        /\ ~overlapped => ~disorder

\* docs/usage.md:198, async_sharepoint.pyi:388-390: None comes once the file
\* has been read to its end, and not before, from a server that answers ranges
\* in full: what is missing then is in the hands of another call.
EndMeansEverything == ended /\ Idle /\ ~lost /\ ~server.short => got = 1..length
=============================================================================
