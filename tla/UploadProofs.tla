---------------------------- MODULE UploadProofs ----------------------------
(***************************************************************************)
(* Theorems about Upload, for any uploads, files and depth of folders,     *)
(* chunks of any sizes, any number of failures and deletions: a file that  *)
(* readers see is whole, what is refused or missing has its reason, and    *)
(* uploads implement VisibleFile.                                          *)
(***************************************************************************)
EXTENDS Upload, SequenceTheorems, TLAPS

\* What a file is a sequence of.
Content == (Uploads \cup {"none", "old"}) \X (0..Length)

\* The first n bytes of an upload's source.
First(u, n) == Bytes(u, Chunk(0, n))
-----------------------------------------------------------------------------
(* Sequences of bytes. *)

\* The bytes of an interval of the source, in order.
LEMMA BytesAre ==
    ASSUME NEW u \in Uploads, NEW a \in Nat, NEW b \in Nat, a <= b, b <= Length
    PROVE  /\ Bytes(u, Chunk(a, b)) \in Seq(Content)
           /\ Len(Bytes(u, Chunk(a, b))) = b - a
           /\ \A k \in 1..(b - a) : Bytes(u, Chunk(a, b))[k] = <<u, a + k>>
<1> DEFINE s == [k \in 1..(b - a) |-> <<u, a + k>>]
<1>1. Size(Chunk(a, b)) = b - a /\ Chunk(a, b).from = a
    BY DEF Chunk, Size
<1>2. Bytes(u, Chunk(a, b)) = s
    BY <1>1 DEF Bytes
<1>3. b - a \in Nat
    OBVIOUS
<1>4. ASSUME NEW k \in 1..(b - a) PROVE <<u, a + k>> \in Content
  <2>1. a + k \in 0..Length
      BY SourceAssumption
  <2> QED BY <2>1 DEF Content
<1>5. s \in [1..(b - a) -> Content]
    BY <1>4
<1>6. s \in Seq(Content)
    BY <1>3, <1>5, SeqDef
<1>7. Len(s) = b - a
    BY <1>3, <1>6, LenProperties
<1>8. \A k \in 1..(b - a) : s[k] = <<u, a + k>>
    OBVIOUS
<1> QED BY <1>2, <1>6, <1>7, <1>8

\* The first n bytes of a source.
LEMMA FirstIs ==
    ASSUME NEW u \in Uploads, NEW n \in Nat, n <= Length
    PROVE  /\ First(u, n) \in Seq(Content) /\ Len(First(u, n)) = n
           /\ \A k \in 1..n : First(u, n)[k] = <<u, k>>
<1> DEFINE s == Bytes(u, Chunk(0, n))
<1>1. s \in Seq(Content) /\ Len(s) = n - 0 /\ \A k \in 1..(n - 0) : s[k] = <<u, 0 + k>>
  <2>1. 0 \in Nat /\ 0 <= n
      OBVIOUS
  <2> QED BY <2>1, BytesAre, Zenon
<1> HIDE DEF s
<1>2. Len(s) = n /\ \A k \in 1..n : s[k] = <<u, k>>
    BY <1>1
<1> QED BY <1>1, <1>2 DEF s, First

\* What follows the first bytes, put after them, makes more first bytes.
LEMMA BytesJoin ==
    ASSUME NEW u \in Uploads, NEW a \in Nat, NEW b \in Nat, a <= b, b <= Length
    PROVE  First(u, a) \o Bytes(u, Chunk(a, b)) = First(u, b)
<1>1. /\ First(u, a) \in Seq(Content) /\ Len(First(u, a)) = a
      /\ \A k \in 1..a : First(u, a)[k] = <<u, k>>
  <2>1. a <= Length
      BY SourceAssumption
  <2> QED BY <2>1, FirstIs
<1>2. /\ Bytes(u, Chunk(a, b)) \in Seq(Content) /\ Len(Bytes(u, Chunk(a, b))) = b - a
      /\ \A k \in 1..(b - a) : Bytes(u, Chunk(a, b))[k] = <<u, a + k>>
    BY BytesAre
<1>3. /\ First(u, b) \in Seq(Content) /\ Len(First(u, b)) = b
      /\ \A k \in 1..b : First(u, b)[k] = <<u, k>>
    BY FirstIs
<1> DEFINE s == First(u, a)  t == Bytes(u, Chunk(a, b))  w == First(u, b)
<1> HIDE DEF s, t, w
<1>4. /\ s \o t \in Seq(Content) /\ Len(s \o t) = Len(s) + Len(t)
      /\ \A i \in 1..(Len(s) + Len(t)) :
            (s \o t)[i] = IF i <= Len(s) THEN s[i] ELSE t[i - Len(s)]
    BY <1>1, <1>2, ConcatProperties DEF s, t
<1>5. Len(s) = a /\ Len(t) = b - a /\ Len(s) + Len(t) = b
    BY <1>1, <1>2 DEF s, t
<1>6. ASSUME NEW k \in 1..b PROVE (s \o t)[k] = w[k]
  <2>0. (s \o t)[k] = IF k <= a THEN s[k] ELSE t[k - a]
      BY <1>4, <1>5
  <2>1. w[k] = <<u, k>>
      BY <1>3 DEF w
  <2>2. CASE k <= a
    <3>1. k \in 1..a
        BY <2>2
    <3>2. s[k] = <<u, k>>
        BY <3>1, <1>1 DEF s
    <3> QED BY <2>0, <2>1, <2>2, <3>2
  <2>3. CASE ~(k <= a)
    <3>1. k - a \in 1..(b - a) /\ a + (k - a) = k
        BY <2>3
    <3>2. t[k - a] = <<u, k>>
        BY <1>2, <3>1 DEF t
    <3> QED BY <2>0, <2>1, <2>3, <3>2
  <2> QED BY <2>2, <2>3
<1>7. s \o t = w
    BY <1>3, <1>4, <1>5, <1>6, SeqEqual DEF w
<1> QED BY <1>7 DEF s, t, w

\* No such bytes are taken for a file that is missing or that was there before.
LEMMA BytesDiffer ==
    ASSUME NEW u \in Uploads, NEW a \in Nat, NEW b \in Nat, a <= b, b <= Length
    PROVE  Bytes(u, Chunk(a, b)) \notin {Missing, Old}
<1>1. Len(Missing) = 1 /\ Missing[1] = <<"none", 0>> /\ Len(Old) = 1 /\ Old[1] = <<"old", 0>>
    BY DEF Missing, Old
<1>2. SUFFICES ASSUME Bytes(u, Chunk(a, b)) \in {Missing, Old} PROVE FALSE
    OBVIOUS
<1>3. b - a = 1
    BY <1>1, <1>2, BytesAre
<1>4. Bytes(u, Chunk(a, b))[1] = <<u, a + 1>>
  <2>1. 1 \in 1..(b - a)
      BY <1>3
  <2> QED BY <2>1, BytesAre
<1>5. <<u, a + 1>>[2] = a + 1
    OBVIOUS
<1>6. <<u, a + 1>>[2] = 0
    BY <1>1, <1>2, <1>4
<1> QED BY <1>5, <1>6

\* What stands for no file, for an old one and for an empty one differ.
LEMMA Constants == Missing # Old /\ Missing # <<>> /\ Old # <<>>
<1>1. Len(Missing) = 1 /\ Len(Old) = 1 /\ Len(<<>>) = 0
    BY DEF Missing, Old
<1>2. Missing[1][1] = "none" /\ Old[1][1] = "old"
    BY DEF Missing, Old
<1> QED BY <1>1, <1>2
-----------------------------------------------------------------------------
(* The inductive invariant. *)

UploadRecords ==
    [st : Requests \cup Ended \cup {"source", "probe", "create"},
     overwrite : BOOLEAN, taken : 0..Length, closing : BOOLEAN,
     buffered : BOOLEAN, pending : Chunks, sent : Chunks,
     position : 0..Length, started : BOOLEAN, retried : BOOLEAN,
     probes : SUBSET (0..Depth), found : -1..Depth, next : 0..Depth,
     reason : {"none", "refused", "missing", "no_parent", "fault"}]

\* What is sent follows what the server has received, and what is buffered
\* follows what is sent; the last chunk sent is the rest of the source.
Aligned(r) ==
    IF r.closing
    THEN r.sent = Chunk(r.position, r.taken)
    ELSE \E m \in r.position..r.taken :
            r.sent = Chunk(r.position, m) /\ r.pending = Chunk(m, r.taken)

\* An upload on its own, whatever the server does.
ClientOK(r) ==
    /\ r.position <= r.taken
    /\ ~r.started => r.position = 0
    /\ r.st \notin Ended => r.buffered \/ r.taken = 0
    /\ r.st = "source" => ~r.closing /\ r.pending = Chunk(r.position, r.taken)
    /\ r.st \in Requests \cup {"probe", "create"} => Aligned(r)
    /\ r.st \in {"add", "finish", "done"} => r.closing
    /\ r.st \in {"add_empty", "start", "continue"} => ~r.closing
    /\ r.st \in {"continue", "finish"} => r.started
    /\ r.started => r.st \in {"source", "continue", "finish"}
    /\ r.reason # "none" => r.st = "failed"

\* The upload has put a file there, empty or whole.
Passed(r) == r.st \in {"start", "done"} \/ r.started

\* Without deletions what the client knows of the folders remains true.
FoldersOK(u) ==
    LET r == up[u] IN
    /\ deletes = 0 =>
         /\ r.st = "probe" => r.found <= deepest
         /\ r.st = "create" => r.next <= deepest + 1
         /\ r.retried /\ r.st \in {"add", "add_empty"} => deepest = Depth
         /\ r.st = "start" \/ r.started => deepest = Depth
         /\ Passed(r) => file[target[u]] # Missing
         /\ r.reason # "missing"
    /\ first_probe = 0 =>
         /\ r.st = "probe" => 0 \in r.probes \/ r.found >= 0
         /\ r.reason # "no_parent"

\* A session has received the beginning of its source.
SessionOK(u) ==
    session[u] = Missing \/ \E m \in 0..up[u].taken : session[u] = First(u, m)

\* Alone on its file, an upload finds its session as it left it, unless the
\* file is gone.
OwnOK(u) ==
    Rivals(u) = {} =>
        /\ up[u].started => file[target[u]] = Missing \/ session[u] = First(u, up[u].position)
        /\ up[u].reason = "refused" => ~up[u].overwrite

IsWholeOf(x, u) == target[u] = x /\ up[u].closing /\ file[x] = Whole(u)

\* Readers find what was there, nothing, or the whole of an upload.
FileOK(x) == file[x] \in {Missing, Old, <<>>} \/ \E u \in Uploads : IsWholeOf(x, u)

\* After an upload they find it, or what an upload to the same file put there.
CommitOK(u) ==
    up[u].st = "done" =>
        \/ file[target[u]] \in {Missing, Whole(u)}
        \/ \E w \in Rivals(u) : file[target[u]] = <<>> \/ IsWholeOf(target[u], w)

\* Two uploads that must not overwrite do not both get past their first request.
RivalsOK(u, w) ==
    u \in Rivals(w) /\ ~up[u].overwrite /\ ~up[w].overwrite /\ deletes = 0
        => ~(Passed(up[u]) /\ Passed(up[w]))

UploadInv ==
    /\ TypeOK
    /\ \A u \in Uploads :
         ClientOK(up[u]) /\ FoldersOK(u) /\ SessionOK(u) /\ OwnOK(u) /\ CommitOK(u)
    /\ \A x \in Files : FileOK(x)
    /\ \A u, w \in Uploads : RivalsOK(u, w)
-----------------------------------------------------------------------------
(* What every proof below starts from. *)

\* The numbers that every type is made of.
LEMMA Ranges ==
    /\ Depth \in Nat /\ Length \in Nat
    /\ 0 \in 0..Depth /\ 0 \in 0..Length /\ -1 \in -1..Depth
    /\ NoChunk \in Chunks
BY PathAssumption, SourceAssumption DEF NoChunk, Chunks, Chunk

\* The types, taken one by one.
LEMMA Unprimed ==
    ASSUME TypeOK, NEW u \in Uploads
    PROVE  /\ up \in [Uploads -> UploadRecords] /\ up[u] \in UploadRecords
           /\ target[u] \in Files /\ deepest \in 0..Depth /\ deletes \in Nat /\ faults \in Nat
           /\ file[target[u]] \in Seq(Content) /\ session[u] \in Seq(Content)
           /\ first_probe \in 0..1
<1>1. /\ up \in [Uploads -> UploadRecords] /\ target \in [Uploads -> Files]
      /\ file \in [Files -> Seq(Content)] /\ session \in [Uploads -> Seq(Content)]
    BY DEF TypeOK, UploadRecords, Contents, Content
<1>2. deepest \in 0..Depth /\ deletes \in Nat /\ faults \in Nat
    BY FaultsAssumption DEF TypeOK
<1>3. first_probe \in 0..1
    BY PathAssumption DEF TypeOK
<1> QED BY <1>1, <1>2, <1>3

\* A call that has ended keeps what its upload was about.
LEMMA OverIs ==
    ASSUME NEW r \in UploadRecords, NEW st \in Ended
    PROVE  /\ Over(r, st) \in UploadRecords
           /\ Over(r, st).st = st /\ Over(r, st).reason = "none"
           /\ Over(r, st).overwrite = r.overwrite /\ Over(r, st).taken = r.taken
           /\ Over(r, st).closing = r.closing /\ Over(r, st).position = 0
           /\ ~Over(r, st).started /\ ~Over(r, st).retried
<1>1. NewUpload(r.overwrite) \in UploadRecords
    BY Ranges DEF NewUpload, UploadRecords
<1>2. r.taken \in 0..Length /\ r.closing \in BOOLEAN
    BY DEF UploadRecords
<1>3. Over(r, st) \in UploadRecords
    BY <1>1, <1>2 DEF Over, UploadRecords
<1> QED BY <1>3 DEF Over, NewUpload

\* So does one that has failed.
LEMMA FailIs ==
    ASSUME NEW r \in UploadRecords, NEW why \in {"refused", "missing", "no_parent", "fault"}
    PROVE  /\ Fail(r, why) \in UploadRecords
           /\ Fail(r, why).st = "failed" /\ Fail(r, why).reason = why
           /\ Fail(r, why).overwrite = r.overwrite /\ Fail(r, why).taken = r.taken
           /\ Fail(r, why).closing = r.closing /\ Fail(r, why).position = 0
           /\ ~Fail(r, why).started /\ ~Fail(r, why).retried
           /\ ClientOK(Fail(r, why))
<1> DEFINE n == Over(r, "failed")
<1>1. /\ n \in UploadRecords /\ n.st = "failed"
      /\ n.overwrite = r.overwrite /\ n.taken = r.taken /\ n.closing = r.closing
      /\ n.position = 0 /\ ~n.started /\ ~n.retried
    BY OverIs DEF Ended
<1> HIDE DEF n
<1>2. Fail(r, why) = [n EXCEPT !.reason = why]
    BY DEF Fail, n
<1>3. /\ Fail(r, why) \in UploadRecords
      /\ Fail(r, why).st = "failed" /\ Fail(r, why).reason = why
      /\ Fail(r, why).overwrite = r.overwrite /\ Fail(r, why).taken = r.taken
      /\ Fail(r, why).closing = r.closing /\ Fail(r, why).position = 0
      /\ ~Fail(r, why).started /\ ~Fail(r, why).retried
    BY <1>1, <1>2 DEF UploadRecords
<1> HIDE DEF Fail
<1>4. r.taken \in Nat
    BY Ranges DEF UploadRecords
<1>5. ClientOK(Fail(r, why))
    BY <1>3, <1>4 DEF ClientOK, Requests, Ended
<1> QED BY <1>3, <1>5
-----------------------------------------------------------------------------
(* Steps of one upload that change no file and no session. *)

Quiet(r, n) ==
    /\ n.overwrite = r.overwrite /\ n.taken >= r.taken
    /\ r.closing => n.closing /\ n.taken = r.taken
    /\ n.st \notin {"start", "done"}
    /\ n.started => r.started /\ n.position = r.position

\* If the upload's own part of the invariant holds after such a step, all of it
\* does: the other parts lean on what the step keeps.  Folders may be added.
LEMMA GrowStep ==
    ASSUME UploadInv, NEW u \in Uploads, NEW n \in UploadRecords, Quiet(up[u], n), ClientOK(n),
           up' = [up EXCEPT ![u] = n], UNCHANGED <<given, file, session, deletes>>,
           deepest' \in 0..Depth, deepest' >= deepest, faults' \in 0..MaxFaults,
           FoldersOK(u)', n.reason = "refused" /\ Rivals(u) = {} => ~n.overwrite
    PROVE  UploadInv'
<1> DEFINE r == up[u]
<1>0. /\ TypeOK /\ r \in UploadRecords /\ up \in [Uploads -> UploadRecords]
    BY Unprimed DEF UploadInv
<1>1. up'[u] = n /\ \A w \in Uploads \ {u} : up'[w] = up[w]
    BY <1>0
<1>2. /\ first_probe' = first_probe /\ target' = target
      /\ file' = file /\ session' = session /\ deletes' = deletes
    BY DEF given
<1>3. TypeOK'
  <2>1. up' \in [Uploads -> UploadRecords]
      BY <1>0
  <2> QED BY <1>0, <1>2, <2>1 DEF TypeOK, UploadRecords
<1>4. \A w \in Uploads : up'[w].overwrite = up[w].overwrite /\ up[w].taken \in Nat
                         /\ up'[w].taken \in Nat /\ up'[w].taken >= up[w].taken
  <2>1. \A w \in Uploads : up[w].taken \in Nat
      BY <1>0, Ranges DEF UploadRecords
  <2>2. n.taken \in Nat
      BY Ranges DEF UploadRecords
  <2> QED BY <1>1, <2>1, <2>2 DEF Quiet
<1>5. ASSUME NEW x \in Files, NEW w \in Uploads, IsWholeOf(x, w) PROVE IsWholeOf(x, w)'
  <2>1. up'[w].closing /\ up'[w].taken = up[w].taken
      BY <1>1, <1>5 DEF Quiet, IsWholeOf
  <2> QED BY <1>2, <1>5, <2>1 DEF IsWholeOf, Whole
<1>6. \A w \in Uploads : Rivals(w)' = Rivals(w)
    BY <1>2 DEF Rivals
<1>7. ASSUME NEW w \in Uploads, w # u
      PROVE  ClientOK(up[w])' /\ FoldersOK(w)' /\ SessionOK(w)' /\ OwnOK(w)' /\ CommitOK(w)'
  <2>1. ClientOK(up[w]) /\ FoldersOK(w) /\ SessionOK(w) /\ OwnOK(w) /\ CommitOK(w)
      BY DEF UploadInv
  <2>2. up'[w] = up[w]
      BY <1>1, <1>7
  <2>3. ClientOK(up[w])' /\ SessionOK(w)' /\ OwnOK(w)'
      BY <1>2, <1>6, <2>1, <2>2 DEF ClientOK, SessionOK, OwnOK, Aligned, First
  <2>4. FoldersOK(w)'
    <3>1. deepest \in 0..Depth /\ up[w] \in UploadRecords
        BY <1>0, Unprimed
    <3>2. up[w].found \in -1..Depth /\ up[w].next \in 0..Depth
        BY <3>1 DEF UploadRecords
    <3> QED BY <1>2, <2>1, <2>2, <3>1, <3>2, Ranges DEF FoldersOK, Passed
  <2>5. CommitOK(w)'
    <3>1. target[w] \in Files /\ Rivals(w) \subseteq Uploads
        BY <1>0, Unprimed DEF Rivals
    <3> QED BY <1>2, <1>5, <1>6, <2>1, <2>2, <3>1 DEF CommitOK, Whole
  <2> QED BY <2>3, <2>4, <2>5
<1>8. ClientOK(up[u])' /\ SessionOK(u)' /\ OwnOK(u)' /\ CommitOK(u)'
  <2>1. SessionOK(u) /\ OwnOK(u)
      BY DEF UploadInv
  <2>2. ClientOK(up[u])' 
      BY <1>1
  <2>3. SessionOK(u)'
      BY <1>2, <1>4, <2>1 DEF SessionOK, First
  <2>4. OwnOK(u)'
      BY <1>1, <1>2, <1>6, <2>1 DEF OwnOK, Quiet, First
  <2>5. CommitOK(u)'
      BY <1>1 DEF CommitOK, Quiet
  <2> QED BY <2>2, <2>3, <2>4, <2>5
<1>9. ASSUME NEW x \in Files PROVE FileOK(x)'
  <2>1. FileOK(x)
      BY DEF UploadInv
  <2> QED BY <1>2, <1>5, <2>1 DEF FileOK
<1>10. ASSUME NEW v \in Uploads, NEW w \in Uploads PROVE RivalsOK(v, w)'
  <2>1. RivalsOK(v, w)
      BY DEF UploadInv
  <2>2. \A x \in Uploads : Passed(up[x])' => Passed(up[x])
      BY <1>1 DEF Passed, Quiet
  <2> QED BY <1>2, <1>4, <1>6, <2>1, <2>2 DEF RivalsOK
<1> QED BY <1>3, <1>7, <1>8, <1>9, <1>10 DEF UploadInv

\* The same where no folder is added.
LEMMA QuietStep ==
    ASSUME UploadInv, NEW u \in Uploads, NEW n \in UploadRecords, Quiet(up[u], n), ClientOK(n),
           up' = [up EXCEPT ![u] = n], UNCHANGED <<server, deletes>>, faults' \in 0..MaxFaults,
           FoldersOK(u)', n.reason = "refused" /\ Rivals(u) = {} => ~n.overwrite
    PROVE  UploadInv'
<1>1. deepest' = deepest /\ UNCHANGED <<given, file, session, deletes>>
    BY DEF server
<1>2. deepest' \in 0..Depth /\ deepest' >= deepest
    BY <1>1, Ranges DEF UploadInv, TypeOK
<1> QED BY <1>1, <1>2, GrowStep
-----------------------------------------------------------------------------
(* Steps that leave the server alone, one by one. *)

\* A failure for a reason that its property allows.
LEMMA FailureIsQuiet ==
    ASSUME UploadInv, NEW u \in Uploads,
           NEW why \in {"refused", "missing", "no_parent", "fault"},
           up' = [up EXCEPT ![u] = Fail(up[u], why)], UNCHANGED <<server, deletes>>,
           faults' \in 0..MaxFaults,
           why = "missing" => deletes # 0,
           why = "no_parent" => first_probe # 0,
           why = "refused" => Rivals(u) # {} \/ ~up[u].overwrite
    PROVE  UploadInv'
<1> DEFINE r == up[u]  n == Fail(r, why)
<1>1. r \in UploadRecords /\ up \in [Uploads -> UploadRecords]
    BY Unprimed DEF UploadInv
<1>2. n \in UploadRecords /\ ClientOK(n) /\ n.st = "failed" /\ n.reason = why
      /\ n.overwrite = r.overwrite /\ n.taken = r.taken /\ n.closing = r.closing
      /\ ~n.started /\ ~n.retried
    BY <1>1, FailIs
<1>3. r.taken \in Nat
    BY <1>1, Ranges DEF UploadRecords
<1>4. up'[u] = n
    BY <1>1
<1> HIDE DEF n
<1>5. Quiet(r, n)
    BY <1>2, <1>3 DEF Quiet
<1>6. FoldersOK(u)'
    BY <1>2, <1>4 DEF FoldersOK, Passed, server, given
<1> QED BY <1>2, <1>4, <1>5, <1>6, QuietStep DEF n

\* The chunk before the new one goes out, from where the server stands.
LEMMA TakeStep ==
    ASSUME UploadInv, NEW u \in Uploads, NEW size \in Sizes, Take(u, size)
    PROVE  UploadInv'
<1> DEFINE r == up[u]
           c == Chunk(r.taken, r.taken + size)
           m == IF r.buffered THEN SendPrevious(r, c) ELSE [r EXCEPT !.pending = c]
           n == [m EXCEPT !.buffered = TRUE, !.taken = r.taken + size]
<1>1. /\ TypeOK /\ ClientOK(r) /\ FoldersOK(u)
      /\ r \in UploadRecords /\ up \in [Uploads -> UploadRecords]
    BY Unprimed DEF UploadInv
<1>2. /\ r.st = "source" /\ r.taken + size <= Length /\ up' = [up EXCEPT ![u] = n]
      /\ UNCHANGED <<server, bounds>>
    BY DEF Take, Set
<1>3. /\ r.taken \in Nat /\ size \in Nat /\ r.position \in Nat /\ r.taken + size \in 0..Length
      /\ r.pending \in Chunks /\ c \in Chunks
    BY <1>1, <1>2, SourceAssumption, Ranges DEF UploadRecords, Chunks, Chunk
<1>4. /\ ~r.closing /\ r.pending = Chunk(r.position, r.taken) /\ r.position <= r.taken
      /\ ~r.started => r.position = 0
      /\ r.buffered \/ r.taken = 0
      /\ r.reason = "none"
    BY <1>1, <1>2 DEF ClientOK, Ended
<1>5. m \in UploadRecords
  <2>1. CASE r.buffered
      BY <1>1, <1>3, <2>1 DEF SendPrevious, UploadRecords, Requests, Ended
  <2>2. CASE ~r.buffered
      BY <1>1, <1>3, <2>2 DEF UploadRecords
  <2> QED BY <2>1, <2>2
<1>6. /\ m.pending = c /\ m.overwrite = r.overwrite /\ m.closing = r.closing
      /\ m.started = r.started /\ m.position = r.position /\ m.reason = r.reason
      /\ r.buffered => /\ m.sent = r.pending /\ ~m.retried
                       /\ m.st = IF r.started THEN "continue" ELSE "add_empty"
      /\ ~r.buffered => m.st = "source"
  <2>1. CASE r.buffered
      BY <1>1, <1>3, <2>1 DEF SendPrevious, UploadRecords
  <2>2. CASE ~r.buffered
      BY <1>1, <1>2, <1>3, <2>2 DEF UploadRecords
  <2> QED BY <2>1, <2>2
<1> HIDE DEF m
<1>7. n \in UploadRecords
    BY <1>3, <1>5 DEF UploadRecords
<1>8. /\ n.pending = c /\ n.overwrite = r.overwrite /\ n.closing = r.closing
      /\ n.started = r.started /\ n.position = r.position /\ n.reason = r.reason
      /\ n.buffered /\ n.st = m.st /\ n.sent = m.sent /\ n.retried = m.retried /\ n.taken = r.taken + size
    BY <1>5, <1>6 DEF UploadRecords
<1> HIDE DEF n
<1>9. Quiet(r, n)
    BY <1>2, <1>3, <1>4, <1>6, <1>8 DEF Quiet
<1>10. ClientOK(n)
  <2>1. n.position <= n.taken /\ (~n.started => n.position = 0) /\ n.buffered /\ ~n.closing
        /\ n.reason = "none"
      BY <1>3, <1>4, <1>8
  <2>2. CASE r.buffered
    <3>1. /\ n.st = IF r.started THEN "continue" ELSE "add_empty"
          /\ n.sent = Chunk(n.position, r.taken) /\ n.pending = Chunk(r.taken, n.taken)
        BY <1>4, <1>6, <1>8, <2>2
    <3>2. r.taken \in n.position..n.taken
        BY <1>3, <1>4, <1>8
    <3>3. Aligned(n)
        BY <2>1, <3>1, <3>2 DEF Aligned
    <3> QED BY <1>8, <2>1, <3>1, <3>3 DEF ClientOK
  <2>3. CASE ~r.buffered
    <3>1. n.st = "source" /\ r.taken = 0 /\ r.position = 0
        BY <1>3, <1>4, <1>6, <1>8, <2>3
    <3>2. n.pending = Chunk(n.position, n.taken)
        BY <1>6, <1>8, <3>1
    <3> QED BY <2>1, <3>1, <3>2 DEF ClientOK, Requests
  <2> QED BY <2>2, <2>3
<1>11. up'[u] = n
    BY <1>1, <1>2
<1>12. FoldersOK(u)'
  <2>1. /\ n.st \in {"source", "continue", "add_empty"} /\ (n.st = "add_empty" => ~n.retried)
        /\ n.started = r.started /\ n.reason = "none"
      BY <1>4, <1>6, <1>8
  <2> QED BY <1>1, <1>2, <1>11, <2>1 DEF FoldersOK, Passed, server, given, bounds
<1>13. faults' \in 0..MaxFaults /\ UNCHANGED <<server, deletes>>
    BY <1>1, <1>2 DEF bounds, TypeOK
<1> QED BY <1>2, <1>4, <1>7, <1>8, <1>9, <1>10, <1>12, <1>13, QuietStep

\* The rest of the source goes out.
LEMMA EndStep ==
    ASSUME UploadInv, NEW u \in Uploads, End(u)
    PROVE  UploadInv'
<1> DEFINE r == up[u]
           n == [r EXCEPT !.st = IF r.started THEN "finish" ELSE "add",
                          !.sent = r.pending, !.closing = TRUE, !.retried = FALSE]
<1>1. /\ TypeOK /\ ClientOK(r) /\ FoldersOK(u)
      /\ r \in UploadRecords /\ up \in [Uploads -> UploadRecords]
    BY Unprimed DEF UploadInv
<1>2. r.st = "source" /\ up' = [up EXCEPT ![u] = n] /\ UNCHANGED <<server, bounds>>
    BY DEF End, Set
<1>3. /\ ~r.closing /\ r.pending = Chunk(r.position, r.taken) /\ r.position <= r.taken
      /\ ~r.started => r.position = 0
      /\ r.buffered \/ r.taken = 0
      /\ r.reason = "none" /\ r.taken \in Nat
    BY <1>1, <1>2, Ranges DEF ClientOK, Ended, UploadRecords
<1>4. n \in UploadRecords
    BY <1>1 DEF UploadRecords, Requests
<1>5. /\ n.overwrite = r.overwrite /\ n.closing /\ n.taken = r.taken /\ n.buffered = r.buffered
      /\ n.started = r.started /\ n.position = r.position /\ n.reason = r.reason
      /\ n.st = IF r.started THEN "finish" ELSE "add"
      /\ n.sent = r.pending /\ ~n.retried
    BY <1>1 DEF UploadRecords
<1> HIDE DEF n
<1>6. Quiet(r, n)
    BY <1>3, <1>5 DEF Quiet
<1>7. ClientOK(n)
  <2>1. Aligned(n)
      BY <1>3, <1>5 DEF Aligned
  <2> QED BY <1>3, <1>5, <2>1 DEF ClientOK
<1>8. up'[u] = n
    BY <1>1, <1>2
<1>9. FoldersOK(u)'
    BY <1>1, <1>2, <1>3, <1>5, <1>8 DEF FoldersOK, Passed, server, given, bounds
<1>10. faults' \in 0..MaxFaults /\ UNCHANGED <<server, deletes>>
    BY <1>1, <1>2 DEF bounds, TypeOK
<1> QED BY <1>2, <1>3, <1>4, <1>5, <1>6, <1>7, <1>9, <1>10, QuietStep

\* Nothing goes out.
LEMMA AbandonStep ==
    ASSUME UploadInv, NEW u \in Uploads, Abandon(u)
    PROVE  UploadInv'
<1> DEFINE r == up[u]  n == Over(r, "abandoned")
<1>1. /\ TypeOK /\ r \in UploadRecords /\ up \in [Uploads -> UploadRecords]
    BY Unprimed DEF UploadInv
<1>2. up' = [up EXCEPT ![u] = n] /\ UNCHANGED <<server, bounds>>
    BY DEF Abandon, Set
<1>3. /\ n \in UploadRecords /\ n.st = "abandoned" /\ n.reason = "none"
      /\ n.overwrite = r.overwrite /\ n.taken = r.taken /\ n.closing = r.closing
      /\ n.position = 0 /\ ~n.started /\ ~n.retried
    BY <1>1, OverIs DEF Ended
<1>4. r.taken \in Nat
    BY <1>1, Ranges DEF UploadRecords
<1> HIDE DEF n
<1>5. Quiet(r, n) /\ ClientOK(n)
    BY <1>3, <1>4 DEF Quiet, ClientOK, Requests, Ended
<1>6. up'[u] = n
    BY <1>1, <1>2
<1>7. FoldersOK(u)'
    BY <1>3, <1>6 DEF FoldersOK, Passed
<1>8. faults' \in 0..MaxFaults /\ UNCHANGED <<server, deletes>>
    BY <1>1, <1>2 DEF bounds, TypeOK
<1> QED BY <1>2, <1>3, <1>5, <1>7, <1>8, QuietStep

\* The offset sent is what the server has received.
LEMMA RejectedStep ==
    ASSUME UploadInv, NEW u \in Uploads, Rejected(u)
    PROVE  UploadInv'
<1> DEFINE r == up[u]
<1>1. /\ TypeOK /\ ClientOK(r) /\ OwnOK(u) /\ r \in UploadRecords /\ file[target[u]] \in Seq(Content)
    BY Unprimed DEF UploadInv
<1>2. /\ r.st \in Requests /\ ~Gone(u) /\ (Refused(u) \/ MayRefuse(u))
      /\ up' = [up EXCEPT ![u] = Fail(r, "refused")] /\ UNCHANGED <<server, bounds>>
    BY DEF Rejected, Set
<1>3. ASSUME Rivals(u) = {}, r.overwrite PROVE FALSE
  <2>1. r.st \in {"continue", "finish"} /\ (session[u] = Missing \/ Len(session[u]) # r.position)
      BY <1>2, <1>3 DEF Refused, MayRefuse, Overwrites
  <2>2. session[u] = First(u, r.position)
      BY <1>1, <1>2, <1>3, <2>1 DEF OwnOK, Gone, ClientOK
  <2>3. r.position \in Nat /\ r.position <= Length
      BY <1>1, Ranges DEF UploadRecords
  <2>4. Len(session[u]) = r.position
      BY <2>2, <2>3, FirstIs
  <2>5. session[u] # Missing
      BY <2>2, <2>3, BytesDiffer DEF First
  <2> QED BY <2>1, <2>4, <2>5
<1>4. faults' \in 0..MaxFaults /\ UNCHANGED <<server, deletes>>
    BY <1>1, <1>2 DEF bounds, TypeOK
<1>5. "refused" \in {"refused", "missing", "no_parent", "fault"}
    OBVIOUS
<1>6. Rivals(u) # {} \/ ~r.overwrite
    BY <1>3
<1> QED BY <1>2, <1>4, <1>5, <1>6, FailureIsQuiet

\* Only a folder or a file that was deleted is missing twice.
LEMMA NotFoundStep ==
    ASSUME UploadInv, NEW u \in Uploads, NotFound(u)
    PROVE  UploadInv'
<1> DEFINE r == up[u]
           n == [r EXCEPT !.st = "probe", !.probes = first_probe..Depth, !.found = -1]
<1>1. /\ TypeOK /\ ClientOK(r) /\ FoldersOK(u) /\ deletes \in Nat /\ first_probe \in 0..1
      /\ r \in UploadRecords /\ up \in [Uploads -> UploadRecords] /\ deepest \in 0..Depth
    BY Unprimed DEF UploadInv
<1>2. r.st \in Requests /\ Gone(u) /\ UNCHANGED <<server, bounds>>
    BY DEF NotFound
<1>3. faults' \in 0..MaxFaults /\ UNCHANGED <<server, deletes>>
    BY <1>1, <1>2 DEF bounds, TypeOK
<1>4. CASE ~MayRepeat(r)
  <2>1. up' = [up EXCEPT ![u] = Fail(r, "missing")]
      BY <1>4 DEF NotFound, Set
  <2>2. deletes # 0
    <3>1. SUFFICES ASSUME deletes = 0 PROVE FALSE
        OBVIOUS
    <3>2. CASE r.st \in {"add", "add_empty"}
        BY <1>1, <1>2, <1>4, <3>1, <3>2, Ranges DEF MayRepeat, Repeatable, FoldersOK, Gone
    <3>3. CASE r.st \in {"start", "continue", "finish"}
        BY <1>1, <1>2, <3>1, <3>3, Ranges DEF FoldersOK, ClientOK, Gone, Passed
    <3> QED BY <1>2, <3>2, <3>3 DEF Requests
  <2>3. "missing" \in {"refused", "missing", "no_parent", "fault"}
      OBVIOUS
  <2> QED BY <1>3, <2>1, <2>2, <2>3, FailureIsQuiet
<1>5. CASE MayRepeat(r)
  <2>1. up' = [up EXCEPT ![u] = n]
      BY <1>5 DEF NotFound, Set
  <2>2. r.st \in {"add", "add_empty", "start"}
      BY <1>5 DEF MayRepeat, Repeatable
  <2>3. first_probe..Depth \subseteq 0..Depth /\ (first_probe = 0 => 0 \in first_probe..Depth)
      BY <1>1, Ranges
  <2>4. n \in UploadRecords
      BY <1>1, <2>3, Ranges DEF UploadRecords
  <2>5. /\ n.st = "probe" /\ n.probes = first_probe..Depth /\ n.found = -1
        /\ n.overwrite = r.overwrite /\ n.closing = r.closing /\ n.taken = r.taken
        /\ n.buffered = r.buffered /\ n.started = r.started /\ n.position = r.position
        /\ n.reason = r.reason /\ n.sent = r.sent /\ n.pending = r.pending /\ n.retried = r.retried
      BY <1>1 DEF UploadRecords
  <2>6. ~r.started /\ r.reason = "none" /\ r.taken \in Nat /\ Aligned(r)
      BY <1>1, <2>2, Ranges DEF ClientOK, UploadRecords, Requests
  <2> HIDE DEF n
  <2>7. Quiet(r, n)
      BY <2>5, <2>6 DEF Quiet
  <2>8. ClientOK(n)
    <3>1. Aligned(n)
        BY <2>5, <2>6 DEF Aligned
    <3> QED BY <1>1, <2>2, <2>5, <2>6, <3>1 DEF ClientOK, Ended
  <2>9. up'[u] = n
      BY <1>1, <2>1
  <2>10. FoldersOK(u)'
      BY <1>1, <1>2, <2>3, <2>5, <2>6, <2>9, Ranges DEF FoldersOK, Passed, server, given
  <2>11. n.reason # "refused"
      BY <2>5, <2>6
  <2> QED BY <1>3, <2>1, <2>4, <2>7, <2>8, <2>10, <2>11, QuietStep
<1> QED BY <1>4, <1>5
-----------------------------------------------------------------------------
(* ensure_folder_path. *)

\* A folder that was found is there, unless folders are deleted.
LEMMA ProbeStep ==
    ASSUME UploadInv, NEW u \in Uploads, NEW i \in 0..Depth, Probe(u, i)
    PROVE  UploadInv'
<1> DEFINE r == up[u]
           found == IF i <= deepest THEN MaxOf(r.found, i) ELSE r.found
           n == [r EXCEPT !.probes = r.probes \ {i}, !.found = found]
<1>1. /\ TypeOK /\ ClientOK(r) /\ FoldersOK(u)
      /\ r \in UploadRecords /\ up \in [Uploads -> UploadRecords] /\ deepest \in 0..Depth
    BY Unprimed DEF UploadInv
<1>2. r.st = "probe" /\ up' = [up EXCEPT ![u] = n] /\ UNCHANGED <<server, bounds>>
    BY DEF Probe, Set
<1>3. r.found \in -1..Depth /\ r.probes \subseteq 0..Depth /\ r.taken \in Nat
    BY <1>1, Ranges DEF UploadRecords
<1>4. /\ found \in -1..Depth /\ found >= r.found
      /\ i <= deepest => found >= i
      /\ r.found <= deepest => found <= deepest
    BY <1>1, <1>3, Ranges DEF MaxOf
<1> HIDE DEF found
<1>5. n \in UploadRecords
    BY <1>1, <1>3, <1>4 DEF UploadRecords
<1>6. /\ n.st = "probe" /\ n.probes = r.probes \ {i} /\ n.found = found
      /\ n.overwrite = r.overwrite /\ n.closing = r.closing /\ n.taken = r.taken
      /\ n.buffered = r.buffered /\ n.started = r.started /\ n.position = r.position
      /\ n.reason = r.reason /\ n.sent = r.sent /\ n.pending = r.pending /\ n.retried = r.retried
    BY <1>1, <1>2 DEF UploadRecords
<1> HIDE DEF n
<1>7. ~r.started /\ r.reason = "none" /\ Aligned(r)
    BY <1>1, <1>2 DEF ClientOK
<1>8. Quiet(r, n)
    BY <1>3, <1>6, <1>7 DEF Quiet
<1>9. ClientOK(n)
  <2>1. Aligned(n)
      BY <1>6, <1>7 DEF Aligned
  <2> QED BY <1>1, <1>2, <1>6, <1>7, <2>1 DEF ClientOK, Ended
<1>10. up'[u] = n
    BY <1>1, <1>2
<1>11. FoldersOK(u)'
  <2>1. first_probe = 0 => 0 \in n.probes \/ n.found >= 0
    <3>1. SUFFICES ASSUME first_probe = 0 PROVE 0 \in n.probes \/ n.found >= 0
        OBVIOUS
    <3>2. 0 \in r.probes \/ r.found >= 0
        BY <1>1, <1>2, <3>1 DEF FoldersOK
    <3>3. CASE i = 0
        BY <1>1, <1>4, <1>6, <3>3
    <3>4. CASE i # 0
        BY <1>3, <1>4, <1>6, <3>2, <3>4
    <3> QED BY <3>3, <3>4
  <2> QED BY <1>1, <1>2, <1>4, <1>6, <1>7, <1>10, <2>1 DEF FoldersOK, Passed, server, given, bounds
<1>12. faults' \in 0..MaxFaults /\ UNCHANGED <<server, deletes>>
    BY <1>1, <1>2 DEF bounds, TypeOK
<1> QED BY <1>2, <1>5, <1>6, <1>7, <1>8, <1>9, <1>11, <1>12, QuietStep

\* The operation again, or a folder more.
LEMMA CreateFromIs ==
    ASSUME NEW r \in UploadRecords, ClientOK(r), r.st \in {"probe", "create"},
           NEW next \in 0..(Depth + 1)
    PROVE  LET n == CreateFrom(r, next) IN
           /\ n \in UploadRecords /\ Quiet(r, n) /\ ClientOK(n)
           /\ ~n.started /\ n.reason = "none"
           /\ next > Depth => n.st \in {"add", "add_empty"}
           /\ next <= Depth => n.st = "create" /\ n.next = next
<1> DEFINE n == CreateFrom(r, next)
           st == IF next > Depth THEN IF r.closing THEN "add" ELSE "add_empty" ELSE "create"
<1>1. /\ n \in UploadRecords /\ n.st = st
      /\ n.overwrite = r.overwrite /\ n.closing = r.closing /\ n.taken = r.taken
      /\ n.buffered = r.buffered /\ n.started = r.started /\ n.position = r.position
      /\ n.reason = r.reason /\ n.sent = r.sent /\ n.pending = r.pending
      /\ next <= Depth => n.next = next
  <2>1. CASE next > Depth
    <3>1. n = [r EXCEPT !.st = st, !.retried = TRUE, !.found = -1, !.next = 0]
        BY <2>1 DEF CreateFrom
    <3>2. st \in {"add", "add_empty"} /\ ~(next <= Depth)
        BY <2>1, Ranges
    <3> HIDE DEF n, st
    <3> QED BY <3>1, <3>2, Ranges DEF UploadRecords, Requests
  <2>2. CASE ~(next > Depth)
    <3>1. n = [r EXCEPT !.st = "create", !.next = next] /\ st = "create"
        BY <2>2 DEF CreateFrom
    <3>2. next \in 0..Depth
        BY <2>2, Ranges
    <3> HIDE DEF n, st
    <3> QED BY <3>1, <3>2 DEF UploadRecords
  <2> QED BY <2>1, <2>2
<1>2. ~r.started /\ r.reason = "none" /\ Aligned(r) /\ r.taken \in Nat
    BY Ranges DEF ClientOK, UploadRecords
<1>3. /\ st \in {"add", "add_empty", "create"}
      /\ st = "add" => r.closing
      /\ st = "add_empty" => ~r.closing
    OBVIOUS
<1>4. /\ next > Depth => st \in {"add", "add_empty"}
      /\ next <= Depth => st = "create"
    BY Ranges
<1> HIDE DEF n, st
<1>5. Quiet(r, n)
    BY <1>1, <1>2, <1>3 DEF Quiet
<1>6. ClientOK(n)
  <2>1. Aligned(n)
      BY <1>1, <1>2 DEF Aligned
  <2> QED BY <1>1, <1>2, <1>3, <2>1 DEF ClientOK, Ended
<1> QED BY <1>1, <1>2, <1>4, <1>5, <1>6 DEF n

\* The root was found, so something was.
LEMMA ProbedStep ==
    ASSUME UploadInv, NEW u \in Uploads, Probed(u)
    PROVE  UploadInv'
<1> DEFINE r == up[u]  n == CreateFrom(r, r.found + 1)
<1>1. /\ TypeOK /\ ClientOK(r) /\ FoldersOK(u) /\ first_probe \in 0..1
      /\ r \in UploadRecords /\ up \in [Uploads -> UploadRecords] /\ deepest \in 0..Depth
    BY Unprimed DEF UploadInv
<1>2. r.st = "probe" /\ r.probes = {} /\ UNCHANGED <<server, bounds>>
    BY DEF Probed
<1>3. faults' \in 0..MaxFaults /\ UNCHANGED <<server, deletes>>
    BY <1>1, <1>2 DEF bounds, TypeOK
<1>4. CASE r.found = -1
  <2>1. up' = [up EXCEPT ![u] = Fail(r, "no_parent")]
      BY <1>4 DEF Probed, Set
  <2>2. first_probe # 0
      BY <1>1, <1>2, <1>4 DEF FoldersOK
  <2>3. "no_parent" \in {"refused", "missing", "no_parent", "fault"}
      OBVIOUS
  <2> QED BY <1>3, <2>1, <2>2, <2>3, FailureIsQuiet
<1>5. CASE r.found # -1
  <2>1. up' = [up EXCEPT ![u] = n]
      BY <1>5 DEF Probed, Set, FirstMissing
  <2>2. r.found \in -1..Depth /\ r.found + 1 \in 0..(Depth + 1)
      BY <1>1, <1>5, Ranges DEF UploadRecords
  <2>3. /\ n \in UploadRecords /\ Quiet(r, n) /\ ClientOK(n)
        /\ ~n.started /\ n.reason = "none"
        /\ r.found + 1 > Depth => n.st \in {"add", "add_empty"}
        /\ r.found + 1 <= Depth => n.st = "create" /\ n.next = r.found + 1
      BY <1>1, <1>2, <2>2, CreateFromIs
  <2> HIDE DEF n
  <2>4. up'[u] = n
      BY <1>1, <2>1
  <2>5. FoldersOK(u)'
    <3>1. deletes = 0 => r.found <= deepest
        BY <1>1, <1>2 DEF FoldersOK
    <3> QED BY <1>1, <1>3, <2>2, <2>3, <2>4, <3>1, Ranges DEF FoldersOK, Passed, server, given
  <2> QED BY <1>3, <2>1, <2>3, <2>5, QuietStep
<1> QED BY <1>4, <1>5

\* The folder above the one created is there, unless folders are deleted.
LEMMA CreateStep ==
    ASSUME UploadInv, NEW u \in Uploads, Create(u)
    PROVE  UploadInv'
<1> DEFINE r == up[u]  n == CreateFrom(r, r.next + 1)
<1>1. /\ TypeOK /\ ClientOK(r) /\ FoldersOK(u)
      /\ r \in UploadRecords /\ up \in [Uploads -> UploadRecords] /\ deepest \in 0..Depth
    BY Unprimed DEF UploadInv
<1>2. r.st = "create" /\ UNCHANGED <<given, file, session, bounds>>
    BY DEF Create
<1>3. faults' \in 0..MaxFaults /\ UNCHANGED <<given, file, session, deletes>>
    BY <1>1, <1>2 DEF bounds, TypeOK
<1>4. CASE ~(r.next <= deepest + 1)
  <2>1. up' = [up EXCEPT ![u] = Fail(r, "missing")] /\ deepest' = deepest
      BY <1>4 DEF Create, Set
  <2>2. deletes # 0
      BY <1>1, <1>2, <1>4 DEF FoldersOK
  <2>3. "missing" \in {"refused", "missing", "no_parent", "fault"}
      OBVIOUS
  <2>4. UNCHANGED <<server, deletes>>
      BY <1>3, <2>1 DEF server
  <2> QED BY <1>3, <2>1, <2>2, <2>3, <2>4, FailureIsQuiet
<1>5. CASE r.next <= deepest + 1
  <2>1. up' = [up EXCEPT ![u] = n] /\ deepest' = MaxOf(deepest, r.next)
      BY <1>5 DEF Create, Set, NextFolder
  <2>2. r.next \in 0..Depth /\ r.next + 1 \in 0..(Depth + 1)
      BY <1>1, Ranges DEF UploadRecords
  <2>3. /\ n \in UploadRecords /\ Quiet(r, n) /\ ClientOK(n)
        /\ ~n.started /\ n.reason = "none"
        /\ r.next + 1 > Depth => n.st \in {"add", "add_empty"}
        /\ r.next + 1 <= Depth => n.st = "create" /\ n.next = r.next + 1
      BY <1>1, <1>2, <2>2, CreateFromIs
  <2> HIDE DEF n
  <2>4. up'[u] = n
      BY <1>1, <2>1
  <2>5. deepest' \in 0..Depth /\ deepest' >= deepest /\ deepest' >= r.next
      BY <1>1, <2>1, <2>2, Ranges DEF MaxOf
  <2>6. FoldersOK(u)'
    <3>1. first_probe = 0 => n.st # "probe" /\ n.reason # "no_parent"
        BY <2>2, <2>3, Ranges
    <3> QED BY <1>3, <2>2, <2>3, <2>4, <2>5, <3>1, Ranges DEF FoldersOK, Passed, given
  <2> QED BY <1>3, <2>1, <2>3, <2>5, <2>6, GrowStep
<1> QED BY <1>4, <1>5

\* A failure on the way says so.
LEMMA EnsureFaultStep ==
    ASSUME UploadInv, NEW u \in Uploads, EnsureFault(u)
    PROVE  UploadInv'
<1>1. /\ up' = [up EXCEPT ![u] = Fail(up[u], "fault")] /\ UNCHANGED <<server, deletes>>
      /\ faults' = faults + 1 /\ faults < MaxFaults
    BY DEF EnsureFault, Set
<1>2. faults' \in 0..MaxFaults
    BY <1>1, FaultsAssumption DEF UploadInv, TypeOK
<1>3. "fault" \in {"refused", "missing", "no_parent", "fault"}
    OBVIOUS
<1> QED BY <1>1, <1>2, <1>3, FailureIsQuiet
-----------------------------------------------------------------------------
(* A request is served. *)

\* What a request sends is its place in the source, and the last one makes the
\* file the whole of it.
LEMMA SentIs ==
    ASSUME UploadInv, NEW u \in Uploads, up[u].st \in Requests, ~Gone(u), ~Refused(u)
    PROVE  LET r == up[u]  bytes == Bytes(u, r.sent) IN
           /\ r.taken \in Nat /\ r.taken <= Length /\ r.sent.to \in 0..r.taken
           /\ r.st = "add" => bytes = Whole(u)
           /\ r.st = "start" => bytes = First(u, r.sent.to)
           /\ r.st = "continue" => session[u] \o bytes = First(u, r.sent.to)
           /\ r.st = "finish" => session[u] \o bytes = Whole(u)
           /\ r.st = "start" => Size(r.sent) = r.sent.to
           /\ r.st = "continue" => r.position + Size(r.sent) = r.sent.to
<1> DEFINE r == up[u]
<1>1. ClientOK(r) /\ SessionOK(u) /\ r \in UploadRecords
    BY Unprimed DEF UploadInv
<1>2. /\ r.taken \in Nat /\ r.taken <= Length /\ r.position \in Nat /\ r.position <= r.taken
      /\ ~r.started => r.position = 0
    BY <1>1, Ranges DEF UploadRecords, ClientOK
<1>3. PICK m \in r.position..r.taken : r.sent = Chunk(r.position, m) /\ (r.closing => m = r.taken)
    BY <1>1, <1>2 DEF ClientOK, Aligned
<1>4. r.sent.to = m /\ Size(r.sent) = m - r.position
    BY <1>3 DEF Chunk, Size
<1>5. r.st \in {"add", "add_empty", "start"} => ~r.started /\ r.position = 0
    BY <1>1, <1>2 DEF ClientOK
<1>6. r.st \in {"add", "finish"} => m = r.taken
    BY <1>1, <1>3 DEF ClientOK
<1>7. r.st \in {"continue", "finish"} => session[u] = First(u, r.position)
  <2>1. SUFFICES ASSUME r.st \in {"continue", "finish"} PROVE session[u] = First(u, r.position)
      OBVIOUS
  <2>2. session[u] # Missing /\ Len(session[u]) = r.position
      BY <2>1 DEF Refused
  <2>3. PICK k \in 0..r.taken : session[u] = First(u, k)
      BY <1>1, <2>2 DEF SessionOK
  <2>4. Len(First(u, k)) = k
      BY <1>2, <2>3, Ranges, FirstIs
  <2> QED BY <2>2, <2>3, <2>4
<1>8. First(u, r.position) \o Bytes(u, Chunk(r.position, m)) = First(u, m)
  <2>1. m \in Nat /\ r.position <= m /\ m <= Length
      BY <1>2, <1>3, Ranges
  <2> QED BY <1>2, <2>1, BytesJoin
<1>9. Whole(u) = First(u, r.taken)
    BY DEF Whole, First
<1>10. r.position = 0 => Bytes(u, r.sent) = First(u, m)
    BY <1>3 DEF First
<1> HIDE DEF r
<1>11. Size(r.sent) = r.sent.to - r.position /\ m \in 0..r.taken /\ m \in Nat
    BY <1>2, <1>3, <1>4
<1>12. /\ r.position = 0 => Size(r.sent) = r.sent.to
       /\ r.position + Size(r.sent) = r.sent.to
    BY <1>2, <1>4, <1>11
<1>13. /\ r.st = "add" => Bytes(u, r.sent) = Whole(u)
       /\ r.st = "start" => Bytes(u, r.sent) = First(u, r.sent.to)
    BY <1>4, <1>5, <1>6, <1>9, <1>10
<1>14. /\ r.st = "continue" => session[u] \o Bytes(u, r.sent) = First(u, r.sent.to)
       /\ r.st = "finish" => session[u] \o Bytes(u, r.sent) = Whole(u)
    BY <1>3, <1>4, <1>6, <1>7, <1>8, <1>9
<1> QED BY <1>2, <1>4, <1>5, <1>11, <1>12, <1>13, <1>14 DEF r

\* The server after the request.
LEMMA ServeIs ==
    ASSUME UploadInv, NEW u \in Uploads, up[u].st \in Requests, ~Gone(u), ~Refused(u), Serve(u)
    PROVE  LET st == up[u].st  x == target[u] IN
           /\ UNCHANGED <<given, deepest>>
           /\ file' \in [Files -> Contents] /\ session' \in [Uploads -> Contents]
           /\ \A y \in Files \ {x} : file'[y] = file[y]
           /\ st \in {"add", "finish"} => file'[x] = Whole(u)
           /\ st = "add_empty" => file'[x] = <<>>
           /\ st \in {"start", "continue"} => file'[x] = file[x]
           /\ st \in {"start", "continue"} => session'[u] = First(u, up[u].sent.to)
           /\ st \notin {"start", "continue"} => session'[u] = Missing
           /\ \A w \in Uploads \ {u} :
                session'[w] = session[w] \/ (session'[w] = Missing /\ w \in Rivals(u))
<1> DEFINE r == up[u]  st == r.st  x == target[u]  bytes == Bytes(u, r.sent)
           new == CASE st = "add"       -> bytes
                    [] st = "add_empty" -> <<>>
                    [] st = "finish"    -> session[u] \o bytes
                    [] OTHER            -> file[x]
<1>1. /\ TypeOK /\ target \in [Uploads -> Files] /\ file \in [Files -> Contents]
      /\ session \in [Uploads -> Contents] /\ r \in UploadRecords /\ x \in Files
    BY Unprimed DEF UploadInv, TypeOK
<1>2. file' = [file EXCEPT ![x] = new]
    BY Zenon DEF Serve
<1>3. PICK ends \in MayEnd(u) :
        session' = [w \in Uploads |->
            CASE w = u /\ st = "start"    -> bytes
              [] w = u /\ st = "continue" -> session[u] \o bytes
              [] w = u /\ st \notin {"start", "continue"} -> Missing
              [] w # u -> IF w \in ends THEN Missing ELSE session[w]]
    BY Zenon DEF Serve
<1>4. ends \subseteq Rivals(u)
    BY DEF MayEnd
<1> DEFINE held(w) == CASE w = u /\ st = "start"    -> bytes
                        [] w = u /\ st = "continue" -> session[u] \o bytes
                        [] w = u /\ st \notin {"start", "continue"} -> Missing
                        [] w # u -> IF w \in ends THEN Missing ELSE session[w]
<1>5. /\ r.taken \in Nat /\ r.taken <= Length /\ r.sent.to \in 0..r.taken
      /\ st = "add" => bytes = Whole(u)
      /\ st = "start" => bytes = First(u, r.sent.to)
      /\ st = "continue" => session[u] \o bytes = First(u, r.sent.to)
      /\ st = "finish" => session[u] \o bytes = Whole(u)
    BY SentIs
<1>6. /\ st \in {"add", "finish"} => new = Whole(u)
      /\ st = "add_empty" => new = <<>>
      /\ st \in {"start", "continue"} => new = file[x]
  <2>1. CASE st = "add"
      BY <1>5, <2>1, Zenon
  <2>2. CASE st = "add_empty"
      BY <2>2, Zenon
  <2>3. CASE st = "finish"
      BY <1>5, <2>3, Zenon
  <2>4. CASE st \in {"start", "continue"}
      BY <2>4, Zenon
  <2> QED BY <2>1, <2>2, <2>3, <2>4, Zenon DEF Requests
<1>7. /\ st \in {"start", "continue"} => held(u) = First(u, r.sent.to)
      /\ st \notin {"start", "continue"} => held(u) = Missing
  <2>1. CASE st = "start"
      BY <1>5, <2>1, Zenon
  <2>2. CASE st = "continue"
      BY <1>5, <2>2, Zenon
  <2>3. CASE st \notin {"start", "continue"}
      BY <2>3, Zenon
  <2> QED BY <2>1, <2>2, <2>3, Zenon
<1>8. ASSUME NEW w \in Uploads \ {u}
      PROVE  held(w) = IF w \in ends THEN Missing ELSE session[w]
    BY <1>8, Zenon
<1>9. Whole(u) \in Contents /\ First(u, r.sent.to) \in Contents /\ Missing \in Contents
      /\ <<>> \in Contents
  <2>1. Contents = Seq(Content)
      BY DEF Contents, Content
  <2>2. Whole(u) = First(u, r.taken)
      BY DEF Whole, First
  <2>3. First(u, r.taken) \in Seq(Content) /\ First(u, r.sent.to) \in Seq(Content)
    <3>1. r.sent.to \in Nat /\ r.sent.to <= Length
        BY <1>5, Ranges
    <3> QED BY <1>5, <3>1, FirstIs
  <2>4. <<"none", 0>> \in Content
      BY Ranges DEF Content
  <2>5. Missing \in Seq(Content) /\ <<>> \in Seq(Content)
      BY <2>4 DEF Missing
  <2> QED BY <2>1, <2>2, <2>3, <2>5
<1> HIDE DEF new, held
<1>10. session' = [w \in Uploads |-> held(w)]
    BY <1>3, Zenon DEF held
<1>11. new \in Contents
  <2>1. file[x] \in Contents
      BY <1>1
  <2> QED BY <1>6, <1>9, <2>1 DEF Requests
<1>12. \A w \in Uploads : held(w) \in Contents
    BY <1>1, <1>7, <1>8, <1>9
<1>13. file' \in [Files -> Contents] /\ session' \in [Uploads -> Contents]
    BY <1>1, <1>2, <1>10, <1>11, <1>12
<1>14. file'[x] = new /\ \A y \in Files \ {x} : file'[y] = file[y]
    BY <1>1, <1>2
<1>15. \A w \in Uploads : session'[w] = held(w)
    BY <1>10
<1>16. UNCHANGED <<given, deepest>>
    BY DEF Serve
<1>17. \A w \in Uploads \ {u} :
         session'[w] = session[w] \/ (session'[w] = Missing /\ w \in Rivals(u))
  <2>1. ASSUME NEW w \in Uploads \ {u}
        PROVE  session'[w] = session[w] \/ (session'[w] = Missing /\ w \in Rivals(u))
    <3>1. session'[w] = IF w \in ends THEN Missing ELSE session[w]
        BY <1>8, <1>15
    <3> QED BY <1>4, <3>1
  <2> QED BY <2>1
<1>18. /\ st \in {"add", "finish"} => file'[x] = Whole(u)
       /\ st = "add_empty" => file'[x] = <<>>
       /\ st \in {"start", "continue"} => file'[x] = file[x]
    BY <1>6, <1>14
<1>19. /\ st \in {"start", "continue"} => session'[u] = First(u, r.sent.to)
       /\ st \notin {"start", "continue"} => session'[u] = Missing
    BY <1>7, <1>15
<1> QED BY <1>13, <1>14, <1>16, <1>17, <1>18, <1>19, Zenon
-----------------------------------------------------------------------------
(* The client on an answer, or on a failure after the request was served. *)

Answered(r, n) ==
    /\ n.overwrite = r.overwrite /\ n.taken = r.taken /\ n.closing = r.closing
    /\ n.started => r.st \in {"start", "continue"} /\ n.position = r.sent.to
    /\ n.st = "start" => r.st = "add_empty"
    /\ n.st = "done" => r.st \in {"add", "finish"}
    /\ n.st \in {"start", "source", "done", "failed"} /\ n.reason \in {"none", "fault"}

\* The next chunk is asked for.
LEMMA SourcedIs ==
    ASSUME NEW r \in UploadRecords, NEW n, NextPosition(r) \in 0..Length,
           n = [r EXCEPT !.st = "source", !.started = TRUE, !.position = NextPosition(r),
                         !.sent = NoChunk, !.retried = FALSE]
    PROVE  /\ n \in UploadRecords /\ n.st = "source" /\ n.reason = r.reason
           /\ n.overwrite = r.overwrite /\ n.taken = r.taken /\ n.closing = r.closing
           /\ n.started /\ n.position = NextPosition(r) /\ n.buffered = r.buffered
           /\ n.pending = r.pending
<1>1. NoChunk \in Chunks
    BY Ranges
<1> QED BY <1>1 DEF UploadRecords

\* The client moves to where the server stands.
LEMMA AdvanceIs ==
    ASSUME UploadInv, NEW u \in Uploads, up[u].st \in Requests, ~Gone(u), ~Refused(u)
    PROVE  LET n == Advance(up[u]) IN
           n \in UploadRecords /\ ClientOK(n) /\ Answered(up[u], n)
<1> DEFINE r == up[u]  n == Advance(r)
           sourced == [r EXCEPT !.st = "source", !.started = TRUE, !.position = NextPosition(r),
                                !.sent = NoChunk, !.retried = FALSE]
<1>1. r \in UploadRecords /\ ClientOK(r)
    BY Unprimed DEF UploadInv
<1>2. r.taken \in Nat /\ r.taken <= Length /\ r.sent.to \in 0..r.taken
    BY SentIs
<1>3. r.reason = "none" /\ Aligned(r)
    BY <1>1 DEF ClientOK, Requests
<1>4. CASE r.st = "add_empty"
  <2>1. n = [r EXCEPT !.st = "start"]
      BY <1>4, Zenon DEF Advance
  <2>2. /\ n \in UploadRecords /\ n.st = "start" /\ n.reason = "none"
        /\ n.overwrite = r.overwrite /\ n.taken = r.taken /\ n.closing = r.closing
        /\ n.started = r.started /\ n.position = r.position /\ n.buffered = r.buffered
        /\ n.sent = r.sent /\ n.pending = r.pending
      BY <1>1, <1>3, <2>1 DEF UploadRecords, Requests
  <2> HIDE DEF n
  <2>3. ~r.started
      BY <1>1, <1>4 DEF ClientOK
  <2>4. Aligned(n)
      BY <1>3, <2>2 DEF Aligned
  <2>5. ClientOK(n)
      BY <1>1, <1>4, <2>2, <2>3, <2>4 DEF ClientOK, Ended
  <2> QED BY <1>4, <2>2, <2>3, <2>5 DEF Answered, n
<1>5. CASE r.st \in {"start", "continue"}
  <2>1. n = sourced
      BY <1>5, Zenon DEF Advance
  <2>2. NextPosition(r) = r.sent.to
      BY <1>5, SentIs DEF NextPosition
  <2>3. r.sent.to \in 0..Length
      BY <1>2, Ranges
  <2>4. /\ n \in UploadRecords /\ n.st = "source" /\ n.reason = "none"
        /\ n.overwrite = r.overwrite /\ n.taken = r.taken /\ n.closing = r.closing
        /\ n.started /\ n.position = r.sent.to /\ n.buffered = r.buffered
        /\ n.pending = r.pending
    <3>1. NextPosition(r) \in 0..Length
        BY <2>2, <2>3
    <3>2. /\ n \in UploadRecords /\ n.st = "source" /\ n.reason = r.reason
          /\ n.overwrite = r.overwrite /\ n.taken = r.taken /\ n.closing = r.closing
          /\ n.started /\ n.position = NextPosition(r) /\ n.buffered = r.buffered
          /\ n.pending = r.pending
        BY <1>1, <2>1, <3>1, SourcedIs, Zenon
    <3> HIDE DEF n
    <3> QED BY <1>3, <2>2, <3>2
  <2> HIDE DEF n
  <2>5. ~r.closing /\ (r.buffered \/ r.taken = 0)
      BY <1>1, <1>5 DEF ClientOK, Ended
  <2>6. r.pending = Chunk(r.sent.to, r.taken)
    <3>1. PICK m \in r.position..r.taken : r.sent = Chunk(r.position, m) /\ r.pending = Chunk(m, r.taken)
        BY <1>3, <2>5 DEF Aligned
    <3>2. r.sent.to = m
        BY <3>1 DEF Chunk
    <3> QED BY <3>1, <3>2
  <2>7. ClientOK(n)
      BY <1>2, <2>4, <2>5, <2>6 DEF ClientOK, Requests
  <2> QED BY <1>5, <2>4, <2>7 DEF Answered, n
<1>6. CASE r.st \in {"add", "finish"}
  <2>1. n = Over(r, "done")
      BY <1>6, Zenon DEF Advance
  <2>2. /\ n \in UploadRecords /\ n.st = "done" /\ n.reason = "none"
        /\ n.overwrite = r.overwrite /\ n.taken = r.taken /\ n.closing = r.closing
        /\ n.position = 0 /\ ~n.started
      BY <1>1, <2>1, OverIs DEF Ended
  <2> HIDE DEF n
  <2>3. r.closing
      BY <1>1, <1>6 DEF ClientOK
  <2>4. ClientOK(n)
      BY <1>2, <2>2, <2>3 DEF ClientOK, Requests, Ended
  <2> QED BY <1>6, <2>2, <2>4 DEF Answered, n
<1> QED BY <1>4, <1>5, <1>6 DEF Requests

\* A served request leaves the file whole, empty or as it was, and the session
\* one chunk longer, gone, or as it was.
LEMMA ServedStep ==
    ASSUME UploadInv, NEW u \in Uploads, up[u].st \in Requests, ~Gone(u), ~Refused(u), Serve(u),
           NEW n \in UploadRecords, ClientOK(n), Answered(up[u], n),
           up' = [up EXCEPT ![u] = n], deletes' = deletes, faults' \in 0..MaxFaults
    PROVE  UploadInv'
<1> DEFINE r == up[u]  x == target[u]
<1>0. /\ TypeOK /\ r \in UploadRecords /\ up \in [Uploads -> UploadRecords]
      /\ target \in [Uploads -> Files] /\ x \in Files /\ deepest \in 0..Depth
      /\ ClientOK(r) /\ FoldersOK(u)
    BY Unprimed DEF UploadInv, TypeOK
<1>1. up'[u] = n /\ \A w \in Uploads \ {u} : up'[w] = up[w]
    BY <1>0
<1>2. /\ first_probe' = first_probe /\ target' = target /\ deepest' = deepest
      /\ deletes' = deletes
    BY DEF Serve, given
<1>3. /\ file' \in [Files -> Contents] /\ session' \in [Uploads -> Contents]
      /\ \A y \in Files \ {x} : file'[y] = file[y]
      /\ r.st \in {"add", "finish"} => file'[x] = Whole(u)
      /\ r.st = "add_empty" => file'[x] = <<>>
      /\ r.st \in {"start", "continue"} => file'[x] = file[x]
      /\ r.st \in {"start", "continue"} => session'[u] = First(u, r.sent.to)
      /\ r.st \notin {"start", "continue"} => session'[u] = Missing
      /\ \A w \in Uploads \ {u} :
           session'[w] = session[w] \/ (session'[w] = Missing /\ w \in Rivals(u))
    BY ServeIs, Zenon
<1>4. TypeOK'
  <2>1. up' \in [Uploads -> UploadRecords]
      BY <1>0
  <2> QED BY <1>0, <1>2, <1>3, <2>1 DEF TypeOK, UploadRecords
<1>5. /\ deepest = Depth /\ (r.st \notin {"add", "add_empty"} => file[x] # Missing)
  <2> QED BY <1>0, Ranges DEF Gone
<1>6. file'[x] # Missing /\ \A w \in Uploads : file[target[w]] # Missing => file'[target[w]] # Missing
  <2>1. Whole(u) # Missing
    <3>1. 0 \in Nat /\ 0 <= r.taken /\ r.taken \in Nat /\ r.taken <= Length
        BY <1>0, Ranges DEF UploadRecords
    <3> QED BY <3>1, BytesDiffer DEF Whole
  <2>2. file'[x] # Missing
      BY <1>3, <1>5, <2>1, Constants DEF Requests
  <2> QED BY <1>0, <1>3, <2>2
<1>7. \A w \in Uploads : Rivals(w)' = Rivals(w)
    BY <1>2 DEF Rivals
<1>8. \A w \in Uploads : /\ up'[w].taken = up[w].taken /\ up'[w].closing = up[w].closing
                         /\ up'[w].overwrite = up[w].overwrite /\ Whole(w)' = Whole(w)
  <2>1. \A w \in Uploads : /\ up'[w].taken = up[w].taken /\ up'[w].closing = up[w].closing
                           /\ up'[w].overwrite = up[w].overwrite
      BY <1>1 DEF Answered
  <2> QED BY <2>1 DEF Whole
<1>9. ASSUME NEW y \in Files, NEW w \in Uploads, IsWholeOf(y, w), y # x PROVE IsWholeOf(y, w)'
    BY <1>2, <1>3, <1>8, <1>9 DEF IsWholeOf
<1>10. \/ IsWholeOf(x, u)'
       \/ file'[x] = <<>>
       \/ file'[x] = file[x] /\ \A w \in Uploads : IsWholeOf(x, w) => IsWholeOf(x, w)'
  <2>1. CASE r.st \in {"add", "finish"}
    <3>1. r.closing
        BY <1>0, <2>1 DEF ClientOK
    <3> QED BY <1>2, <1>3, <1>8, <2>1, <3>1 DEF IsWholeOf
  <2>2. CASE r.st = "add_empty"
      BY <1>3, <2>2
  <2>3. CASE r.st \in {"start", "continue"}
      BY <1>2, <1>3, <1>8, <2>3 DEF IsWholeOf
  <2> QED BY <2>1, <2>2, <2>3 DEF Requests
<1>11. ASSUME NEW y \in Files PROVE FileOK(y)'
  <2>1. FileOK(y)
      BY DEF UploadInv
  <2>2. CASE y = x
    <3>1. CASE IsWholeOf(x, u)'
        BY <1>2, <2>2, <3>1 DEF FileOK
    <3>2. CASE file'[x] = <<>>
        BY <2>2, <3>2 DEF FileOK
    <3>3. CASE file'[x] = file[x] /\ \A w \in Uploads : IsWholeOf(x, w) => IsWholeOf(x, w)'
      <4>1. CASE file[x] \in {Missing, Old, <<>>}
          BY <2>2, <3>3, <4>1 DEF FileOK
      <4>2. CASE \E w \in Uploads : IsWholeOf(x, w)
          BY <1>2, <2>2, <3>3, <4>2 DEF FileOK
      <4> QED BY <2>1, <2>2, <4>1, <4>2 DEF FileOK
    <3> QED BY <1>10, <3>1, <3>2, <3>3
  <2>3. CASE y # x
      BY <1>3, <1>9, <2>1, <2>3 DEF FileOK
  <2> QED BY <2>2, <2>3
<1>12. ASSUME NEW w \in Uploads, w # u
       PROVE  ClientOK(up[w])' /\ FoldersOK(w)' /\ SessionOK(w)' /\ OwnOK(w)' /\ CommitOK(w)'
  <2>1. ClientOK(up[w]) /\ FoldersOK(w) /\ SessionOK(w) /\ OwnOK(w) /\ CommitOK(w)
      BY DEF UploadInv
  <2>2. up'[w] = up[w] /\ target[w] \in Files
      BY <1>0, <1>1, <1>12
  <2>3. ClientOK(up[w])'
      BY <2>1, <2>2
  <2>4. FoldersOK(w)'
      BY <1>2, <1>6, <2>1, <2>2 DEF FoldersOK, Passed
  <2>5. SessionOK(w)'
      BY <1>3, <1>12, <2>1, <2>2 DEF SessionOK, First
  <2>6. OwnOK(w)'
    <3>1. SUFFICES ASSUME Rivals(w) = {} PROVE OwnOK(w)'
        BY <1>7 DEF OwnOK
    <3>2. target[w] # x /\ w \notin Rivals(u)
        BY <1>12, <3>1 DEF Rivals
    <3>3. file'[target[w]] = file[target[w]] /\ session'[w] = session[w]
        BY <1>3, <1>12, <2>2, <3>2
    <3> QED BY <1>2, <1>7, <2>1, <2>2, <3>3 DEF OwnOK, First
  <2>7. CommitOK(w)'
    <3>1. CASE target[w] # x
      <4>1. file'[target[w]] = file[target[w]]
          BY <1>3, <2>2, <3>1
      <4>2. \A v \in Rivals(w) : IsWholeOf(target[w], v) => IsWholeOf(target[w], v)'
        <5>1. ASSUME NEW v \in Uploads, IsWholeOf(target[w], v) PROVE IsWholeOf(target[w], v)'
            BY <1>2, <1>9, <2>2, <3>1, <5>1
        <5> QED BY <5>1 DEF Rivals
      <4> QED BY <1>2, <1>7, <1>8, <2>1, <2>2, <4>1, <4>2 DEF CommitOK
    <3>2. CASE target[w] = x
      <4>1. u \in Rivals(w) /\ Rivals(w) \subseteq Uploads
          BY <1>12, <3>2 DEF Rivals
      <4>2. CASE IsWholeOf(x, u)' \/ file'[x] = <<>>
          BY <1>2, <1>7, <3>2, <4>1, <4>2 DEF CommitOK
      <4>3. CASE file'[x] = file[x] /\ \A v \in Uploads : IsWholeOf(x, v) => IsWholeOf(x, v)'
          BY <1>2, <1>7, <1>8, <2>1, <2>2, <3>2, <4>1, <4>3 DEF CommitOK
      <4> QED BY <1>10, <4>2, <4>3
    <3> QED BY <3>1, <3>2
  <2> QED BY <2>3, <2>4, <2>5, <2>6, <2>7
<1>13. ClientOK(up[u])' /\ FoldersOK(u)' /\ SessionOK(u)' /\ OwnOK(u)' /\ CommitOK(u)'
  <2>1. ClientOK(up[u])'
      BY <1>1
  <2>2. FoldersOK(u)'
      BY <1>0, <1>1, <1>2, <1>5, <1>6 DEF FoldersOK, Passed, Answered
  <2>3. SessionOK(u)'
    <3>1. r.sent.to \in 0..r.taken
        BY SentIs
    <3> QED BY <1>3, <1>8, <3>1 DEF SessionOK, First
  <2>4. OwnOK(u)'
      BY <1>1, <1>3 DEF OwnOK, Answered, First
  <2>5. CommitOK(u)'
      BY <1>1, <1>2, <1>3, <1>8 DEF CommitOK, Answered
  <2> QED BY <2>1, <2>2, <2>3, <2>4, <2>5
<1>14. ASSUME NEW v \in Uploads, u \in Rivals(v), ~n.overwrite, ~up[v].overwrite, deletes = 0
       PROVE  ~(Passed(n) /\ Passed(up[v]))
  <2>1. SUFFICES ASSUME Passed(n), Passed(up[v]) PROVE FALSE
      OBVIOUS
  <2>2. RivalsOK(u, v) /\ RivalsOK(v, u) /\ FoldersOK(v)
      BY DEF UploadInv
  <2>3. target[v] = x /\ ~r.overwrite
      BY <1>14 DEF Rivals, Answered
  <2>4. ~Passed(r)
      BY <1>14, <2>1, <2>2, <2>3 DEF RivalsOK
  <2>5. r.st \in {"add", "add_empty"}
      BY <1>0, <2>4 DEF Passed, ClientOK, Requests
  <2>6. file[x] = Missing
      BY <2>3, <2>5 DEF Refused, Overwrites
  <2>7. file[x] # Missing
      BY <1>14, <2>1, <2>2, <2>3 DEF FoldersOK
  <2> QED BY <2>6, <2>7
<1>15. ASSUME NEW v \in Uploads, NEW w \in Uploads PROVE RivalsOK(v, w)'
  <2>1. SUFFICES ASSUME v \in Rivals(w), ~up'[v].overwrite, ~up'[w].overwrite, deletes = 0,
                        Passed(up'[v]), Passed(up'[w])
                 PROVE  FALSE
      BY <1>2, <1>7 DEF RivalsOK, Passed
  <2>2. w \in Rivals(v) /\ v # w
      BY <2>1 DEF Rivals
  <2>3. CASE v = u
      BY <1>1, <1>14, <2>1, <2>2, <2>3
  <2>4. CASE w = u
      BY <1>1, <1>14, <2>1, <2>2, <2>4
  <2>5. CASE v # u /\ w # u
    <3>1. RivalsOK(v, w)
        BY DEF UploadInv
    <3> QED BY <1>1, <2>1, <2>5, <3>1 DEF RivalsOK
  <2> QED BY <2>3, <2>4, <2>5
<1> QED BY <1>4, <1>11, <1>12, <1>13, <1>15 DEF UploadInv

\* The answer arrives ...
LEMMA AcceptedStep ==
    ASSUME UploadInv, NEW u \in Uploads, Accepted(u)
    PROVE  UploadInv'
<1>1. /\ up[u].st \in Requests /\ ~Gone(u) /\ ~Refused(u) /\ Serve(u)
      /\ up' = [up EXCEPT ![u] = Advance(up[u])] /\ UNCHANGED bounds
    BY DEF Accepted, Set
<1>2. Advance(up[u]) \in UploadRecords /\ ClientOK(Advance(up[u])) /\ Answered(up[u], Advance(up[u]))
    BY <1>1, AdvanceIs
<1>3. deletes' = deletes /\ faults' \in 0..MaxFaults
    BY <1>1 DEF bounds, UploadInv, TypeOK
<1> QED BY <1>1, <1>2, <1>3, ServedStep

\* ... or it does not, and nobody knows whether the request was served.
LEMMA FaultStep ==
    ASSUME UploadInv, NEW u \in Uploads, Fault(u)
    PROVE  UploadInv'
<1> DEFINE r == up[u]  n == Fail(r, "fault")
<1>1. /\ r.st \in Requests /\ up' = [up EXCEPT ![u] = n] /\ deletes' = deletes
      /\ faults' = faults + 1 /\ faults < MaxFaults
    BY DEF Fault, Set
<1>2. faults' \in 0..MaxFaults
    BY <1>1, FaultsAssumption DEF UploadInv, TypeOK
<1>3. "fault" \in {"refused", "missing", "no_parent", "fault"}
    OBVIOUS
<1>4. CASE UNCHANGED server
    BY <1>1, <1>2, <1>3, <1>4, FailureIsQuiet
<1>5. CASE ~Gone(u) /\ ~Refused(u) /\ Serve(u)
  <2>1. r \in UploadRecords
      BY Unprimed DEF UploadInv
  <2>2. /\ n \in UploadRecords /\ ClientOK(n) /\ n.st = "failed" /\ n.reason = "fault"
        /\ n.overwrite = r.overwrite /\ n.taken = r.taken /\ n.closing = r.closing /\ ~n.started
      BY <1>3, <2>1, FailIs
  <2> HIDE DEF n
  <2>3. Answered(r, n)
      BY <2>2 DEF Answered
  <2> QED BY <1>1, <1>2, <1>5, <2>2, <2>3, ServedStep
<1> QED BY <1>4, <1>5 DEF Fault

\* Files and sessions go with their folder.
LEMMA DeleteStep ==
    ASSUME UploadInv, NEW d \in 0..(Depth - 1), DeleteFolder(d)
    PROVE  UploadInv'
<1>1. /\ deletes < MaxDeletes /\ d < deepest /\ deepest' = d /\ deletes' = deletes + 1
      /\ file' = [x \in Files |-> Missing] /\ session' = [u \in Uploads |-> Missing]
      /\ first_probe' = first_probe /\ target' = target /\ up' = up /\ faults' = faults
    BY DEF DeleteFolder, given
<1>2. TypeOK
    BY DEF UploadInv
<1>3. deletes \in Nat /\ deletes' # 0 /\ deletes' \in 0..MaxDeletes /\ deepest' \in 0..Depth
    BY <1>1, <1>2, FaultsAssumption, Ranges DEF TypeOK
<1>4. Missing \in Contents
  <2>1. <<"none", 0>> \in Content
      BY Ranges DEF Content
  <2>2. Missing \in Seq(Content)
      BY <2>1 DEF Missing
  <2> QED BY <2>2 DEF Contents, Content
<1>5. TypeOK'
    BY <1>1, <1>2, <1>3, <1>4 DEF TypeOK
<1>6. ASSUME NEW u \in Uploads
      PROVE  ClientOK(up[u])' /\ FoldersOK(u)' /\ SessionOK(u)' /\ OwnOK(u)' /\ CommitOK(u)'
  <2>1. ClientOK(up[u]) /\ FoldersOK(u) /\ OwnOK(u)
      BY DEF UploadInv
  <2>2. target[u] \in Files
      BY <1>2 DEF TypeOK
  <2>3. file'[target'[u]] = Missing /\ session'[u] = Missing
      BY <1>1, <2>2
  <2>4. Rivals(u)' = Rivals(u)
      BY <1>1 DEF Rivals
  <2>5. ClientOK(up[u])'
      BY <1>1, <2>1
  <2>6. FoldersOK(u)'
      BY <1>1, <1>3, <2>1 DEF FoldersOK
  <2>7. SessionOK(u)'
      BY <2>3 DEF SessionOK
  <2>8. OwnOK(u)'
      BY <1>1, <2>1, <2>3, <2>4 DEF OwnOK
  <2>9. CommitOK(u)'
      BY <2>3 DEF CommitOK
  <2> QED BY <2>5, <2>6, <2>7, <2>8, <2>9
<1>7. \A x \in Files : FileOK(x)'
    BY <1>1 DEF FileOK
<1>8. \A u, w \in Uploads : RivalsOK(u, w)'
    BY <1>3 DEF RivalsOK
<1> QED BY <1>5, <1>6, <1>7, <1>8 DEF UploadInv

\* Nothing has been taken from a source or sent.
LEMMA InitInv == Init => UploadInv
<1> SUFFICES ASSUME Init PROVE UploadInv
    OBVIOUS
<1>1. ASSUME NEW b \in BOOLEAN
      PROVE  LET n == NewUpload(b) IN
             /\ n \in UploadRecords /\ ClientOK(n) /\ ~Passed(n) /\ ~n.started /\ ~n.retried
             /\ n.st = "source" /\ n.reason = "none"
  <2> DEFINE n == NewUpload(b)
  <2>1. n \in UploadRecords
      BY Ranges DEF NewUpload, UploadRecords
  <2>2. /\ n.st = "source" /\ n.reason = "none" /\ ~n.started /\ ~n.retried /\ ~n.closing
        /\ n.position = 0 /\ n.taken = 0 /\ n.pending = Chunk(0, 0)
      BY DEF NewUpload, NoChunk
  <2> HIDE DEF n
  <2>3. ClientOK(n) /\ ~Passed(n)
      BY <2>2 DEF ClientOK, Requests, Passed
  <2> QED BY <2>1, <2>2, <2>3 DEF n
<1>2. /\ first_probe \in FirstProbes /\ target \in [Uploads -> Files] /\ deepest \in 0..Depth
      /\ session = [u \in Uploads |-> Missing] /\ faults = 0 /\ deletes = 0
      /\ up \in [Uploads -> {NewUpload(TRUE), NewUpload(FALSE)}]
    BY DEF Init
<1>3. /\ file \in [Files -> {Missing, Old}]
  <2>1. file \in [Files -> IF deepest = Depth THEN {Missing, Old} ELSE {Missing}]
      BY DEF Init
  <2> QED BY <2>1
<1>4. ASSUME NEW u \in Uploads
      PROVE  /\ up[u] \in UploadRecords /\ ClientOK(up[u]) /\ ~Passed(up[u])
             /\ ~up[u].started /\ ~up[u].retried /\ up[u].st = "source" /\ up[u].reason = "none"
  <2>1. CASE up[u] = NewUpload(TRUE)
      BY <1>1, <2>1
  <2>2. CASE up[u] = NewUpload(FALSE)
      BY <1>1, <2>2
  <2> QED BY <1>2, <2>1, <2>2
<1>5. Missing \in Contents /\ Old \in Contents
  <2>1. <<"none", 0>> \in Content /\ <<"old", 0>> \in Content
      BY Ranges DEF Content
  <2>2. Missing \in Seq(Content) /\ Old \in Seq(Content)
      BY <2>1 DEF Missing, Old
  <2> QED BY <2>2 DEF Contents, Content
<1>6. TypeOK
  <2>1. up \in [Uploads -> UploadRecords]
      BY <1>2, <1>4
  <2>2. faults \in 0..MaxFaults /\ deletes \in 0..MaxDeletes
      BY <1>2, FaultsAssumption
  <2>3. file \in [Files -> Contents] /\ session \in [Uploads -> Contents]
      BY <1>2, <1>3, <1>5
  <2> QED BY <1>2, <2>1, <2>2, <2>3 DEF TypeOK, UploadRecords
<1>7. ASSUME NEW u \in Uploads
      PROVE  ClientOK(up[u]) /\ FoldersOK(u) /\ SessionOK(u) /\ OwnOK(u) /\ CommitOK(u)
    BY <1>2, <1>4 DEF FoldersOK, SessionOK, OwnOK, CommitOK
<1>8. \A x \in Files : FileOK(x)
    BY <1>3 DEF FileOK
<1>9. \A u, w \in Uploads : RivalsOK(u, w)
    BY <1>4 DEF RivalsOK
<1> QED BY <1>6, <1>7, <1>8, <1>9 DEF UploadInv

\* One lemma for each action.
LEMMA Inductive == UploadInv /\ [Next]_vars => UploadInv'
<1> SUFFICES ASSUME UploadInv, [Next]_vars PROVE UploadInv'
    OBVIOUS
<1>1. ASSUME NEW u \in Uploads, Progress(u) PROVE UploadInv'
    BY <1>1, AcceptedStep, RejectedStep, NotFoundStep, ProbeStep, ProbedStep, CreateStep DEF Progress
<1>2. CASE UNCHANGED vars
  <2>1. /\ first_probe' = first_probe /\ target' = target /\ deepest' = deepest /\ file' = file
        /\ session' = session /\ up' = up /\ faults' = faults /\ deletes' = deletes
      BY <1>2 DEF vars, server, given, bounds
  <2> QED BY <2>1 DEF UploadInv, TypeOK, ClientOK, FoldersOK, SessionOK, OwnOK, FileOK,
                       CommitOK, RivalsOK, IsWholeOf, Whole, First, Rivals, Passed, Aligned
<1> QED BY <1>1, <1>2, TakeStep, EndStep, AbandonStep, FaultStep, EnsureFaultStep, DeleteStep
        DEF Next
-----------------------------------------------------------------------------
(* Theorems. *)

\* The invariant holds.
LEMMA Always == Spec => []UploadInv
BY InitInv, Inductive, PTL DEF Spec

\* Every variable keeps its range.
THEOREM TypeCorrect == Spec => []TypeOK
<1>1. UploadInv => TypeOK
    BY DEF UploadInv
<1> QED BY <1>1, Always, PTL

\* What an upload that succeeds has left in the file is all of its source,
\* until another upload to the same file empties or replaces it.
THEOREM CommitsAreWhole == Spec => []CommittedIsWhole
<1>1. UploadInv => CommittedIsWhole
    BY DEF UploadInv, CommitOK, CommittedIsWhole, IsWholeOf
<1> QED BY <1>1, Always, PTL

\* Of the uploads that must not overwrite one file at most one succeeds.
THEOREM OneCreates == Spec => []OnlyOneCreates
<1>1. UploadInv => OnlyOneCreates
    BY Unprimed DEF UploadInv, RivalsOK, Passed, OnlyOneCreates
<1> QED BY <1>1, Always, PTL

\* A missing folder fails an upload only when somebody deletes folders, or when
\* the library of a root site is missing.
THEOREM FoldersAreMade == Spec => []MissingFoldersAreMade
<1>1. UploadInv => MissingFoldersAreMade
  <2>1. ASSUME UploadInv, NEW u \in Uploads
        PROVE  /\ up[u].reason = "missing" => deletes > 0
               /\ up[u].reason = "no_parent" => first_probe = 1
    <3>1. FoldersOK(u) /\ deletes \in Nat /\ first_probe \in 0..1
        BY <2>1, Unprimed DEF UploadInv
    <3> QED BY <3>1 DEF FoldersOK
  <2> QED BY <2>1 DEF MissingFoldersAreMade
<1> QED BY <1>1, Always, PTL

\* A request is refused only to protect a file or another upload's session.
THEOREM RefusalsProtect == Spec => []RefusedOnlyToProtect
<1>1. UploadInv => RefusedOnlyToProtect
    BY DEF UploadInv, OwnOK, RefusedOnlyToProtect
<1> QED BY <1>1, Always, PTL
-----------------------------------------------------------------------------
(* The refinement of VisibleFile. *)

Looks(x) ==
    /\ file[x] = Missing => View(x) = "absent"
    /\ file[x] = Old => View(x) = "old"
    /\ file[x] = <<>> => View(x) = "empty"
    /\ file[x] \notin {Missing, Old, <<>>} => View(x) = "whole"

\* Under the invariant no file is partial.
LEMMA ViewIs == UploadInv => \A x \in Files : Looks(x)
<1> SUFFICES ASSUME UploadInv, NEW x \in Files PROVE Looks(x)
    OBVIOUS
<1>1. CASE file[x] = Missing
    BY <1>1, Constants, Zenon DEF View, Looks
<1>2. CASE file[x] = Old
    BY <1>2, Constants, Zenon DEF View, Looks
<1>3. CASE file[x] = <<>>
    BY <1>3, Constants, Zenon DEF View, Looks
<1>4. CASE file[x] \notin {Missing, Old, <<>>}
  <2>1. IsWhole(x)
      BY <1>4 DEF UploadInv, FileOK, IsWholeOf, IsWhole
  <2> QED BY <1>4, <2>1, Zenon DEF View, Looks
<1> QED BY <1>1, <1>2, <1>3, <1>4

view == [x \in Files |-> View(x)]

\* What readers see after a step, from what is in the files.
LEMMA ViewsAre ==
    ASSUME UploadInv, UploadInv'
    PROVE  /\ \A x \in Files : Looks(x) /\ Looks(x)' /\ view[x] \in Readers!Views
           /\ \A x \in Files : file'[x] = file[x] => view'[x] = view[x]
           /\ \A x \in Files : view[x] = View(x) /\ view'[x] = View(x)'
<1>1. \A x \in Files : view[x] = View(x) /\ view'[x] = View(x)'
    BY DEF view
<1>2. (UploadInv => \A x \in Files : Looks(x))'
    BY ViewIs, PTL
<1>3. \A x \in Files : Looks(x) /\ Looks(x)'
    BY <1>2, ViewIs
<1>4. \A x \in Files : view[x] \in Readers!Views
    BY <1>1, <1>3 DEF Looks, Readers!Views
<1>5. ASSUME NEW x \in Files, file'[x] = file[x] PROVE view'[x] = view[x]
  <2>1. Looks(x) /\ Looks(x)' /\ view[x] = View(x) /\ view'[x] = View(x)'
      BY <1>1, <1>3
  <2> QED BY <1>5, <2>1 DEF Looks, Missing, Old
<1> QED BY <1>1, <1>3, <1>4, <1>5

\* Readers find what was there before, or nothing.
LEMMA SeenInit == UploadInv /\ Init => Readers!Init
<1> SUFFICES ASSUME UploadInv, Init PROVE Readers!Init
    OBVIOUS
<1>1. ASSUME NEW x \in Files PROVE View(x) \in {"absent", "old"}
  <2>1. file[x] \in {Missing, Old}
      BY DEF Init
  <2> QED BY <2>1, ViewIs DEF Looks
<1> QED BY <1>1 DEF Readers!Init

\* A served request shows the file empty, or the whole of the upload, or what it
\* was before; a deletion shows nothing; all other steps leave the files alone.
LEMMA SeenNext == UploadInv /\ UploadInv' /\ [Next]_vars => [Readers!Next]_view
<1> SUFFICES ASSUME UploadInv, UploadInv', [Next]_vars PROVE [Readers!Next]_view
    OBVIOUS
<1>1. ASSUME file' = file PROVE view' = view
  <2>1. \A x \in Files : view'[x] = view[x]
      BY <1>1, ViewsAre
  <2> QED BY <2>1 DEF view
<1>2. ASSUME NEW u \in Uploads, up[u].st \in Requests, ~Gone(u), ~Refused(u), Serve(u)
      PROVE  [Readers!Next]_view
  <2>1. PICK x \in Files : x = target[u]
      BY Unprimed DEF UploadInv
  <2>2. /\ \A y \in Files \ {x} : file'[y] = file[y]
        /\ up[u].st \in {"add", "finish"} => file'[x] = Whole(u)
        /\ up[u].st = "add_empty" => file'[x] = <<>>
        /\ up[u].st \in {"start", "continue"} => file'[x] = file[x]
      BY <1>2, <2>1, ServeIs
  <2>3. Whole(u) \notin {Missing, Old}
    <3>1. up[u].taken \in Nat /\ 0 \in Nat /\ 0 <= up[u].taken /\ up[u].taken <= Length
        BY Unprimed, Ranges DEF UploadInv, UploadRecords
    <3> QED BY <3>1, BytesDiffer DEF Whole
  <2>4. file'[x] \notin {Missing, Old} \/ file'[x] = file[x]
      BY <1>2, <2>2, <2>3, Constants DEF Requests
  <2>5. view' = [view EXCEPT ![x] = view'[x]]
    <3>1. \A y \in Files \ {x} : view'[y] = view[y]
        BY <2>2, ViewsAre
    <3> QED BY <3>1 DEF view
  <2>6. view[x] \in {"absent", "old", "empty", "whole"}
      BY ViewsAre DEF Readers!Views
  <2>7. view'[x] = view[x] \/ view'[x] \in {"empty", "whole"}
    <3>1. CASE file'[x] = file[x]
        BY <3>1, ViewsAre
    <3>2. CASE file'[x] \notin {Missing, Old}
      <4>1. Looks(x)' /\ view'[x] = View(x)'
          BY ViewsAre
      <4> QED BY <3>2, <4>1 DEF Looks, Missing, Old
    <3> QED BY <2>4, <3>1, <3>2
  <2>8. CASE view'[x] = view[x]
    <3>1. view' = view
      <4>1. \A y \in Files : view'[y] = view[y]
          BY <2>2, <2>8, ViewsAre
      <4> QED BY <4>1 DEF view
    <3> QED BY <3>1
  <2>9. CASE view'[x] = "whole"
      BY <2>5, <2>6, <2>9 DEF Readers!Next, Readers!Commit, Readers!Views, view
  <2>10. CASE view'[x] = "empty" /\ view[x] # "empty"
      BY <2>5, <2>6, <2>10 DEF Readers!Next, Readers!Clear, view
  <2> QED BY <2>7, <2>8, <2>9, <2>10
<1>3. ASSUME NEW d \in 0..(Depth - 1), DeleteFolder(d) PROVE [Readers!Next]_view
  <2>1. ASSUME NEW x \in Files PROVE view'[x] = "absent"
    <3>1. file'[x] = Missing
        BY <1>3 DEF DeleteFolder
    <3>2. Looks(x)' /\ view'[x] = View(x)'
        BY ViewsAre
    <3> QED BY <3>1, <3>2 DEF Looks, Missing
  <2>2. view' = [x \in Files |-> IF x \in Files THEN "absent" ELSE view[x]]
    <3>1. view' = [x \in Files |-> view'[x]]
        BY DEF view
    <3> QED BY <2>1, <3>1
  <2>3. Readers!Delete
      BY <2>2 DEF Readers!Delete, view
  <2> QED BY <2>3 DEF Readers!Next
<1>4. ASSUME NEW u \in Uploads, NEW size \in Sizes, Take(u, size) PROVE file' = file
    BY <1>4 DEF Take, server
<1>5. ASSUME NEW u \in Uploads, NEW i \in 0..Depth,
             \/ End(u) \/ Abandon(u) \/ EnsureFault(u) \/ Rejected(u) \/ NotFound(u)
             \/ Probe(u, i) \/ Probed(u) \/ Create(u)
      PROVE  file' = file
    BY <1>5 DEF End, Abandon, EnsureFault, Rejected, NotFound, Probe, Probed, Create, server
<1>6. ASSUME NEW u \in Uploads, Accepted(u) \/ Fault(u) PROVE [Readers!Next]_view
  <2>1. CASE UNCHANGED server
      BY <1>1, <2>1 DEF server
  <2>2. CASE up[u].st \in Requests /\ ~Gone(u) /\ ~Refused(u) /\ Serve(u)
      BY <1>2, <2>2
  <2> QED BY <1>6, <2>1, <2>2 DEF Accepted, Fault
<1>7. CASE UNCHANGED vars
    BY <1>1, <1>7 DEF vars, server
<1>8. 0 \in 0..Depth
    BY Ranges
<1> QED BY <1>1, <1>3, <1>4, <1>5, <1>6, <1>7, <1>8 DEF Next, Progress

\* Uploads implement VisibleFile: readers see files that are whole.
THEOREM WholeFilesSeen == Spec => ReadersSeeWholeFiles
<1>1. UploadInv /\ UploadInv' /\ [Next]_vars => [Readers!Next]_([x \in Files |-> View(x)])
    BY SeenNext DEF view
<1> QED BY <1>1, InitInv, SeenInit, Always, PTL DEF Spec, ReadersSeeWholeFiles, Readers!Spec
=============================================================================
