--------------------------- MODULE DeferredProofs ---------------------------
(***************************************************************************)
(* Theorems about FetchAll and Deferred, for lists of every size, every    *)
(* page size and every number of guesses: a finished call has returned     *)
(* every lasting row exactly once, and no cancellation or boundary leaves  *)
(* a hole behind the guesses.                                              *)
(***************************************************************************)
EXTENDS Deferred, FiniteSetTheorems, TLAPS

Sequential == {"initial", "first", "sequential"}

Got(i) == initial[i] + results[i] > 0

\* Ids are handed out in increasing order, so that a row that was there at the
\* start and still is has been there all the time.
ServerInv ==
    /\ IsFiniteSet(rows)
    /\ \A i \in before \cup rows : i <= newest

\* No row is returned twice: each part of the call reads behind what the parts
\* before it have read.
ResultsInv ==
    /\ initial \in [Ids -> Nat]
    /\ \A i \in Ids : initial[i] <= 1 /\ (keyed => initial[i] + results[i] <= 1)
    /\ pc \in Sequential => tasks = {} /\ \A i \in Ids : Got(i) => i <= token
    /\ pc = "guess" => \A i \in Ids : initial[i] > 0 => i <= frontier_id

\* A guess lies behind what fetch_deferred has read, and its answer holds all
\* lasting rows from the guess to the link, or to the end if there is no link.
AnswerOK(x) ==
    /\ IsFiniteSet(x.page) /\ Cardinality(x.page) <= PageSize
    /\ \A i \in x.page : i > x.guess
    /\ x.next # None => x.next > x.guess
    /\ \A i \in Lasting : x.guess < i /\ (i <= x.next \/ x.next = None) => i \in x.page

TaskOK(x) ==
    /\ x.guess > 0 /\ x.guess <= dispatched_max
    /\ \A i \in Ids : initial[i] > 0 => i <= x.guess
    /\ x.status = "served" => AnswerOK(x)

TasksInv ==
    /\ IsFiniteSet(tasks) /\ Cardinality(tasks) <= MaxGuesses + 1
    /\ pc = "guess" => /\ frontier_id > 0 /\ frontier_n <= PageSize
                       /\ \A x \in tasks : TaskOK(x)

Shape == TypeOK /\ ServerInv /\ ResultsInv /\ TasksInv

\* What has been read one page after another is complete up to its token, and
\* a call that is done has everything.
ReadInv ==
    /\ pc \in Sequential => \A i \in Lasting : i <= token => Got(i)
    /\ pc = "done" => \A i \in Lasting : Got(i)

\* Nothing is missing past the boundary, and what lies past all guesses made so
\* far lies past the next one too.
GuessInv ==
    pc = "guess" =>
        /\ terminal_at # None => \A i \in Lasting : i > terminal_at => Got(i)
        /\ terminal_at = None =>
               \A i \in Lasting : i > dispatched_max + PageSize => Got(i) \/ i > NextGuess

Coverage == ReadInv /\ GuessInv /\ NothingUncovered

IndInv == Shape /\ Coverage

\* The links of the answers that guesses get are absent or can be read.  Where
\* one cannot, fetch_all takes it for the end of the list.
TokensReadable ==
    \A x \in tasks : x.status = "served" => x.next = None \/ Readable(x.next)
-----------------------------------------------------------------------------
(* Finite sets of numbers. *)

\* A nonempty finite set of numbers has a greatest element.
LEMMA Greatest ==
    ASSUME NEW S \in SUBSET Nat, IsFiniteSet(S), S # {}
    PROVE  \E m \in S : \A j \in S : j <= m
<1> DEFINE Bad == {U \in FiniteSubsetsOf(S) : U # {} /\ ~ \E m \in U : \A j \in U : j <= m}
<1> SUFFICES ASSUME Bad # {} PROVE FALSE
    BY DEF FiniteSubsetsOf
<1>1. PICK U \in Bad : \A V \in Bad : <<V, U>> \notin StrictSubsetOrdering(S)
  <2>1. Bad \subseteq FiniteSubsetsOf(S)
      OBVIOUS
  <2> QED BY <2>1, FS_StrictSubsetOrderingWellFounded, WFMin
<1>2. PICK x \in U : TRUE
    BY <1>1
<1>3. U \ {x} \in FiniteSubsetsOf(S) /\ <<U \ {x}, U>> \in StrictSubsetOrdering(S)
    BY <1>1, <1>2, FS_RemoveElement DEF FiniteSubsetsOf, StrictSubsetOrdering
<1>4. U \ {x} \notin Bad
    BY <1>1, <1>3
<1>5. U \subseteq Nat /\ x \in Nat
    BY <1>1, <1>2 DEF FiniteSubsetsOf
<1>6. CASE U \ {x} = {}
    BY <1>1, <1>2, <1>5, <1>6
<1>7. CASE U \ {x} # {}
  <2>1. PICK m \in U \ {x} : \A j \in U \ {x} : j <= m
      BY <1>3, <1>4, <1>7
  <2>2. CASE x <= m
      BY <1>1, <1>5, <2>1, <2>2
  <2>3. CASE m < x
      BY <1>1, <1>2, <1>5, <2>1, <2>3
  <2> QED BY <1>5, <2>1, <2>2, <2>3
<1> QED BY <1>6, <1>7

\* A nonempty set of numbers has a least element.
LEMMA Least ==
    ASSUME NEW S \in SUBSET Nat, S # {}
    PROVE  \E m \in S : \A j \in S : m <= j
<1>1. PICK b \in S : TRUE
    OBVIOUS
<1> DEFINE D == {d \in 0..b : b - d \in S}
<1>2. D \in SUBSET Nat /\ IsFiniteSet(D)
  <2>1. b \in Nat /\ 0 \in Int /\ b \in Int
      BY <1>1
  <2>2. D \in SUBSET (0..b)
      OBVIOUS
  <2>3. IsFiniteSet(0..b)
      BY <2>1, FS_Interval
  <2>4. IsFiniteSet(D)
      BY <2>2, <2>3, FS_Subset
  <2> QED BY <2>2, <2>4
<1>3. 0 \in D
    BY <1>1
<1>4. PICK d \in D : \A e \in D : e <= d
    BY <1>2, <1>3, Greatest
<1>5. b - d \in S
    BY <1>4
<1>6. ASSUME NEW j \in S, j < b - d PROVE FALSE
  <2>1. b - j \in D
      BY <1>1, <1>4, <1>6
  <2> QED BY <1>1, <1>4, <1>6, <2>1
<1> QED BY <1>1, <1>4, <1>5, <1>6
-----------------------------------------------------------------------------
(* The server's pages. *)

\* What the rows of a list are.
ServerType == rows \subseteq Ids /\ IsFiniteSet(rows)

\* The rows between two positions are finitely many, and a smaller interval has
\* no more of them.
LEMMA RowsBetween ==
    ASSUME ServerType, NEW p \in Nat, NEW i \in Nat, NEW k \in Nat, i <= k
    PROVE  /\ IsFiniteSet({j \in rows : p < j /\ j < k})
           /\ Cardinality({j \in rows : p < j /\ j < k}) \in Nat
           /\ Cardinality({j \in rows : p < j /\ j < i})
                  <= Cardinality({j \in rows : p < j /\ j < k})
<1>1. IsFiniteSet({j \in rows : p < j /\ j < k})
    BY FS_Subset DEF ServerType
<1>2. {j \in rows : p < j /\ j < i} \in SUBSET {j \in rows : p < j /\ j < k}
  <2>1. \A j \in rows : j \in Nat
      BY ListsAssumption DEF ServerType
  <2>2. \A j \in rows : j < i => j < k
      BY <2>1
  <2> QED BY <2>2
<1> QED BY <1>1, <1>2, FS_Subset, FS_CardinalityType

\* A page holds finitely many rows behind its position, no more than fit on it,
\* and with a row all rows before it.
LEMMA PageRows ==
    ASSUME ServerType, NEW p \in Nat
    PROVE  /\ Page(p) \subseteq rows /\ IsFiniteSet(Page(p))
           /\ Cardinality(Page(p)) \in Nat /\ Cardinality(Page(p)) <= PageSize
           /\ \A i \in Page(p) : p < i
           /\ \A k \in Page(p) : \A i \in rows : p < i /\ i <= k => i \in Page(p)
<1>1. Page(p) \subseteq rows /\ IsFiniteSet(Page(p)) /\ Cardinality(Page(p)) \in Nat
    BY FS_Subset, FS_CardinalityType DEF Page, ServerType
<1>2. \A i \in Page(p) : p < i
    BY DEF Page
<1>3. ASSUME NEW k \in Page(p), NEW i \in rows, p < i, i <= k PROVE i \in Page(p)
  <2>1. i \in Nat /\ k \in Nat
      BY <1>1, ListsAssumption DEF ServerType
  <2>2. IsFiniteSet({j \in rows : p < j /\ j < i})
      BY <2>1, RowsBetween
  <2>3. Cardinality({j \in rows : p < j /\ j < i}) \in Nat
      BY <2>2, FS_CardinalityType
  <2> QED BY <1>3, <2>1, <2>3, RowsBetween, SizesAssumption DEF Page
<1>4. Cardinality(Page(p)) <= PageSize
  <2>1. CASE Page(p) = {}
      BY <2>1, FS_EmptySet, SizesAssumption
  <2>2. CASE Page(p) # {}
    <3>1. Page(p) \in SUBSET Nat
        BY <1>1, ListsAssumption DEF ServerType
    <3>2. PICK k \in Page(p) : \A i \in Page(p) : i <= k
        BY <1>1, <2>2, <3>1, Greatest
    <3> DEFINE Before == {j \in rows : p < j /\ j < k}
    <3>3. IsFiniteSet(Before) /\ Cardinality(Before) \in Nat /\ Cardinality(Before) < PageSize
        BY <3>1, <3>2, RowsBetween DEF Page
    <3>4. Page(p) \in SUBSET (Before \cup {k})
        BY <1>1, <1>2, <3>1, <3>2
    <3>5. /\ IsFiniteSet(Before \cup {k})
          /\ Cardinality(Before \cup {k}) <= Cardinality(Before) + 1
        BY <3>3, FS_AddElement
    <3>6. Cardinality(Page(p)) <= Cardinality(Before \cup {k})
        BY <3>4, <3>5, FS_Subset
    <3> QED BY <1>1, <3>3, <3>5, <3>6, FS_CardinalityType, SizesAssumption
  <2> QED BY <2>1, <2>2
<1> QED BY <1>1, <1>2, <1>3, <1>4

\* The rows among the next PageSize ids are on the page.
LEMMA NextIdsOnPage ==
    ASSUME ServerType, NEW p \in Nat, NEW i \in rows, p < i, i <= p + PageSize
    PROVE  i \in Page(p)
<1> DEFINE Before == {j \in rows : p < j /\ j < i}
<1>1. i \in Nat /\ PageSize \in Nat
    BY ListsAssumption, SizesAssumption DEF ServerType
<1>2. Before \in SUBSET ((p + 1)..(i - 1))
  <2>1. \A j \in rows : j \in Nat
      BY ListsAssumption DEF ServerType
  <2>2. \A j \in Before : j \in (p + 1)..(i - 1)
      BY <1>1, <2>1
  <2> QED BY <2>2
<1>3. IsFiniteSet((p + 1)..(i - 1)) /\ Cardinality((p + 1)..(i - 1)) = i - p - 1
  <2>1. p + 1 \in Int /\ i - 1 \in Int /\ p + 1 <= i
      BY <1>1
  <2>2. /\ IsFiniteSet((p + 1)..(i - 1))
        /\ Cardinality((p + 1)..(i - 1)) =
               IF p + 1 > i - 1 THEN 0 ELSE (i - 1) - (p + 1) + 1
      BY <2>1, FS_Interval
  <2> QED BY <1>1, <2>1, <2>2
<1>4. Cardinality(Before) <= i - p - 1 /\ Cardinality(Before) \in Nat
  <2> HIDE DEF Before
  <2>1. IsFiniteSet(Before) /\ Cardinality(Before) <= Cardinality((p + 1)..(i - 1))
      BY <1>2, <1>3, FS_Subset
  <2>2. Cardinality(Before) \in Nat
      BY <2>1, FS_CardinalityType
  <2> QED BY <1>3, <2>1, <2>2
<1> QED BY <1>1, <1>4 DEF Page

\* A link leads to the last row of a page that is not empty; without a link all
\* rows that are left are on the page.
LEMMA LinkOfPage ==
    ASSUME ServerType, NEW p \in Nat
    PROVE  /\ Link(p) \in Nat
           /\ Link(p) # None => Link(p) > p /\ \A i \in Page(p) : i <= Link(p)
           /\ \A i \in rows : p < i /\ (Link(p) = None \/ i <= Link(p)) => i \in Page(p)
<1>1. rows \subseteq Nat /\ Page(p) \in SUBSET Nat
    BY PageRows, ListsAssumption DEF ServerType
<1>2. CASE More(p)
  <2> DEFINE Left == {i \in rows : i > p}
  <2>1. Left \in SUBSET Nat /\ Left # {}
      BY <1>1, <1>2 DEF More
  <2>2. PICK i \in Left : \A j \in Left : i <= j
      BY <2>1, Least
  <2>3. {j \in rows : p < j /\ j < i} = {}
    <3>1. \A j \in rows : ~(p < j /\ j < i)
        BY <1>1, <2>2
    <3> QED BY <3>1
  <2>4. i \in Page(p)
      BY <2>2, <2>3, FS_EmptySet, SizesAssumption DEF Page
  <2>5. \E k \in Page(p) : \A j \in Page(p) : j <= k
      BY <1>1, <2>4, PageRows, Greatest
  <2>6. LastOf(Page(p)) \in Page(p) /\ \A j \in Page(p) : j <= LastOf(Page(p))
      BY <2>5 DEF LastOf
  <2>7. Link(p) = LastOf(Page(p))
      BY <1>2 DEF Link
  <2>8. Link(p) > p /\ Link(p) # None
      BY <1>1, <2>6, <2>7, PageRows DEF None
  <2> QED BY <1>1, <2>6, <2>7, <2>8, PageRows
<1>3. CASE ~More(p)
    BY <1>3 DEF More, Link, None
<1> QED BY <1>2, <1>3
-----------------------------------------------------------------------------
(* The initial states, and what steps have in common. *)

TaskType ==
    [no : Nat, guess : Nat, expected : Nat, handle : BOOLEAN, aborted : BOOLEAN,
     status : {"running", "served", "error"}, page : SUBSET Ids, next : Nat]

LEMMA InitInv == DeferredInit => IndInv
<1> SUFFICES ASSUME DeferredInit PROVE IndInv
    OBVIOUS
<1> USE DEF DeferredInit, Start, None
<1>1. /\ rows \in SUBSET Ids /\ trimmed \in SUBSET Ids /\ opaque \in SUBSET Ids
      /\ keyed \in BOOLEAN /\ IsFiniteSet(rows)
    BY ListsAssumption
<1>2. newest \in Nat /\ \A i \in rows : i <= newest
  <2>1. CASE rows = {}
      BY <2>1
  <2>2. CASE rows # {}
    <3>1. rows \in SUBSET Nat
        BY <1>1, ListsAssumption
    <3>2. \E m \in rows : \A j \in rows : j <= m
        BY <1>1, <2>2, <3>1, Greatest
    <3> QED BY <2>2, <3>1, <3>2 DEF LastOf
  <2> QED BY <2>1, <2>2
<1>3. TypeOK
  <2>1. tasks = {} /\ before = rows /\ churn = 0 /\ 0 \in 0..MaxChurn
      BY SizesAssumption
  <2> QED BY <1>1, <1>2, <2>1 DEF TypeOK
<1>4. ServerInv
    BY <1>1, <1>2 DEF ServerInv
<1>5. ResultsInv
    BY DEF ResultsInv, Got
<1>6. TasksInv
    BY FS_EmptySet, SizesAssumption DEF TasksInv
<1>7. Coverage
  <2>1. \A i \in Lasting : i \in Nat /\ i > 0
      BY <1>1, ListsAssumption DEF Lasting
  <2> QED BY <2>1 DEF Coverage, ReadInv, GuessInv, NothingUncovered
<1> QED BY <1>3, <1>4, <1>5, <1>6, <1>7 DEF IndInv, Shape

\* What the server's type says of rows and of pages.
LEMMA ServerTyped == TypeOK /\ ServerInv => ServerType
    BY DEF TypeOK, ServerInv, ServerType

\* The tasks left after a join: the same answers, one task fewer, and only
\* redundant ones newly aborted.
LEMMA RestTasks ==
    ASSUME tasks \subseteq TaskType, IsFiniteSet(tasks), NEW x \in tasks, NEW R
    PROVE  /\ Rest(x, R) \subseteq TaskType
           /\ IsFiniteSet(Rest(x, R)) /\ Cardinality(Rest(x, R)) \in Nat
           /\ Cardinality(Rest(x, R)) <= Cardinality(tasks) - 1
           /\ \A z \in Rest(x, R) : \E y \in tasks :
                  z.guess = y.guess /\ z.status = y.status /\ z.page = y.page /\ z.next = y.next
           /\ \A y \in tasks \ {x} : \E z \in Rest(x, R) :
                  /\ z.guess = y.guess /\ z.status = y.status
                  /\ z.page = y.page /\ z.next = y.next
                  /\ z.aborted => y.aborted \/ y.guess \in R
<1> DEFINE Hit(y) == y.handle /\ y.guess # x.guess /\ y.guess \in R
           Left(y) == [y EXCEPT !.handle = y.handle /\ y.guess # x.guess /\ ~Hit(y),
                                !.aborted = y.aborted \/ (Hit(y) /\ y.status = "running")]
           f == [y \in tasks \ {x} |-> Left(y)]
<1>1. Rest(x, R) = {Left(y) : y \in tasks \ {x}}
    BY DEF Rest
<1>2. ASSUME NEW y \in TaskType
      PROVE  /\ Left(y) \in TaskType
             /\ Left(y).guess = y.guess /\ Left(y).status = y.status
             /\ Left(y).page = y.page /\ Left(y).next = y.next
             /\ Left(y).aborted => y.aborted \/ y.guess \in R
    BY <1>2 DEF TaskType
<1>3. /\ IsFiniteSet(tasks \ {x})
      /\ Cardinality(tasks \ {x}) = Cardinality(tasks) - 1
      /\ Cardinality(tasks) \in Nat
    BY FS_RemoveElement, FS_CardinalityType
<1>4. f \in Surjection(tasks \ {x}, Rest(x, R))
  <2> HIDE DEF Left
  <2>1. f \in [tasks \ {x} -> Rest(x, R)]
      BY <1>1
  <2>2. \A z \in Rest(x, R) : \E y \in tasks \ {x} : f[y] = z
      BY <1>1
  <2> QED BY <2>1, <2>2 DEF Surjection
<1>5. IsFiniteSet(Rest(x, R)) /\ Cardinality(Rest(x, R)) <= Cardinality(tasks \ {x})
    BY <1>3, <1>4, FS_Surjection
<1>6. Cardinality(Rest(x, R)) \in Nat
    BY <1>5, FS_CardinalityType
<1> HIDE DEF Left, f
<1>7. Rest(x, R) \subseteq TaskType
    BY <1>1, <1>2
<1>8. \A z \in Rest(x, R) : \E y \in tasks :
          z.guess = y.guess /\ z.status = y.status /\ z.page = y.page /\ z.next = y.next
    BY <1>1, <1>2
<1>9. \A y \in tasks \ {x} : \E z \in Rest(x, R) :
          /\ z.guess = y.guess /\ z.status = y.status
          /\ z.page = y.page /\ z.next = y.next
          /\ z.aborted => y.aborted \/ y.guess \in R
  <2> SUFFICES ASSUME NEW y \in tasks \ {x}
               PROVE  \E z \in Rest(x, R) :
                          /\ z.guess = y.guess /\ z.status = y.status
                          /\ z.page = y.page /\ z.next = y.next
                          /\ z.aborted => y.aborted \/ y.guess \in R
      OBVIOUS
  <2>1. Left(y) \in Rest(x, R)
      BY <1>1
  <2> QED BY <1>2, <2>1
<1> QED BY <1>3, <1>5, <1>6, <1>7, <1>8, <1>9

\* Among one number more than there are tasks, one is free.
LEMMA FreeNumber ==
    ASSUME tasks \subseteq TaskType, IsFiniteSet(tasks)
    PROVE  \E k \in 1..(Cardinality(tasks) + 1) : \A x \in tasks : x.no # k
<1> DEFINE T == {x.no : x \in tasks}
           f == [x \in tasks |-> x.no]
           c == Cardinality(tasks)
<1> SUFFICES ASSUME \A k \in 1..(c + 1) : \E x \in tasks : x.no = k PROVE FALSE
    OBVIOUS
<1>1. c \in Nat
    BY FS_CardinalityType
<1>2. f \in Surjection(tasks, T)
    BY DEF Surjection
<1>3. IsFiniteSet(T) /\ Cardinality(T) <= c
    BY <1>2, FS_Surjection
<1>4. 1..(c + 1) \in SUBSET T
    OBVIOUS
<1>5. Cardinality(1..(c + 1)) <= Cardinality(T) /\ Cardinality(T) \in Nat
    BY <1>3, <1>4, FS_Subset, FS_CardinalityType
<1>6. Cardinality(1..(c + 1)) = c + 1
  <2>1. 1 \in Int /\ c + 1 \in Int
      BY <1>1
  <2>2. Cardinality(1..(c + 1)) = IF 1 > c + 1 THEN 0 ELSE (c + 1) - 1 + 1
      BY <2>1, FS_Interval
  <2> QED BY <1>1, <2>2
<1> QED BY <1>1, <1>3, <1>5, <1>6

\* The next guess is a number.
LEMMA NextGuessType == TypeOK => NextGuess \in Nat
<1> SUFFICES ASSUME TypeOK PROVE NextGuess \in Nat
    OBVIOUS
<1>1. frontier_n * next_offset \in Nat /\ frontier_id \in Nat
    BY DEF TypeOK
<1> QED BY <1>1 DEF NextGuess

\* A dispatch adds one task with the next guess and leaves the answers and the
\* cancellations of the others alone.
LEMMA DispatchTasks ==
    ASSUME TypeOK, IsFiniteSet(tasks), Dispatch
    PROVE  /\ tasks' \subseteq TaskType
           /\ IsFiniteSet(tasks') /\ Cardinality(tasks') <= Cardinality(tasks) + 1
           /\ Cardinality(tasks) \in Nat /\ Cardinality(tasks') \in Nat
           /\ \E z \in tasks' : z.guess = NextGuess /\ z.status = "running" /\ ~z.aborted
           /\ \A z \in tasks' :
                  \/ z.guess = NextGuess /\ z.status = "running"
                  \/ \E y \in tasks : /\ z.guess = y.guess /\ z.status = y.status
                                     /\ z.page = y.page /\ z.next = y.next
           /\ \A y \in tasks : \E z \in tasks' :
                  /\ z.guess = y.guess /\ z.status = y.status
                  /\ z.page = y.page /\ z.next = y.next /\ z.aborted = y.aborted
<1> DEFINE free == CHOOSE k \in 1..(Cardinality(tasks) + 1) : \A x \in tasks : x.no # k
           new  == NewTask(free)
           Kept(y) == [y EXCEPT !.handle = y.handle /\ y.guess # NextGuess]
           K == {Kept(y) : y \in tasks}
           f == [y \in tasks |-> Kept(y)]
<1>1. tasks' = {new} \cup K
    BY DEF Dispatch
<1>2. tasks \subseteq TaskType /\ Cardinality(tasks) \in Nat
    BY FS_CardinalityType DEF TypeOK, TaskType
<1>3. free \in Nat
  <2>1. free \in 1..(Cardinality(tasks) + 1)
      BY <1>2, FreeNumber
  <2> QED BY <1>2, <2>1
<1> HIDE DEF free
<1>4. /\ new \in TaskType /\ new.guess = NextGuess
      /\ new.status = "running" /\ ~new.aborted
  <2>1. NextGuess \in Nat /\ NextGuess + frontier_n \in Nat
      BY NextGuessType DEF TypeOK
  <2> HIDE DEF free
  <2> QED BY <1>3, <2>1 DEF NewTask, TaskType, None
<1>5. ASSUME NEW y \in TaskType
      PROVE  /\ Kept(y) \in TaskType
             /\ Kept(y).guess = y.guess /\ Kept(y).status = y.status
             /\ Kept(y).page = y.page /\ Kept(y).next = y.next /\ Kept(y).aborted = y.aborted
    BY <1>5 DEF TaskType
<1>6. f \in Surjection(tasks, K)
  <2> HIDE DEF Kept
  <2> QED BY DEF Surjection
<1>7. IsFiniteSet(K) /\ Cardinality(K) <= Cardinality(tasks)
    BY <1>6, FS_Surjection
<1>8. /\ IsFiniteSet(K \cup {new}) /\ Cardinality(K \cup {new}) <= Cardinality(K) + 1
      /\ Cardinality(K) \in Nat /\ Cardinality(K \cup {new}) \in Nat
  <2>1. Cardinality(K) \in Nat
      BY <1>7, FS_CardinalityType
  <2>2. /\ IsFiniteSet(K \cup {new})
        /\ Cardinality(K \cup {new}) = IF new \in K THEN Cardinality(K) ELSE Cardinality(K) + 1
      BY <1>7, FS_AddElement
  <2> QED BY <2>1, <2>2
<1>9. tasks' = K \cup {new}
    BY <1>1
<1> HIDE DEF Kept, new, f
<1>10. /\ IsFiniteSet(tasks') /\ Cardinality(tasks') <= Cardinality(tasks) + 1
       /\ Cardinality(tasks') \in Nat
    BY <1>2, <1>7, <1>8, <1>9
<1>11. tasks' \subseteq TaskType
    BY <1>1, <1>2, <1>4, <1>5
<1>12. \A z \in tasks' :
          \/ z.guess = NextGuess /\ z.status = "running"
          \/ \E y \in tasks : /\ z.guess = y.guess /\ z.status = y.status
                             /\ z.page = y.page /\ z.next = y.next
    BY <1>1, <1>2, <1>4, <1>5
<1>13. \A y \in tasks : \E z \in tasks' :
          /\ z.guess = y.guess /\ z.status = y.status
          /\ z.page = y.page /\ z.next = y.next /\ z.aborted = y.aborted
  <2> SUFFICES ASSUME NEW y \in tasks
               PROVE  \E z \in tasks' :
                          /\ z.guess = y.guess /\ z.status = y.status
                          /\ z.page = y.page /\ z.next = y.next /\ z.aborted = y.aborted
      OBVIOUS
  <2>1. Kept(y) \in tasks'
      BY <1>1
  <2> QED BY <1>2, <1>5, <2>1
<1>14. \E z \in tasks' : z.guess = NextGuess /\ z.status = "running" /\ ~z.aborted
    BY <1>1, <1>4
<1> QED BY <1>2, <1>10, <1>11, <1>12, <1>13, <1>14

\* An answer replaces one task by itself with the answer.
LEMMA RespondTasks ==
    ASSUME TypeOK, ServerInv, NEW x \in tasks, Respond(x) \/ RespondError(x)
    PROVE  \E z \in TaskType :
              /\ tasks' = (tasks \ {x}) \cup {z}
              /\ z.guess = x.guess
              /\ \/ /\ z.status = "served"
                    /\ z.page = Page(x.guess) /\ z.next = Link(x.guess)
                 \/ z.status = "error"
<1>1. x \in TaskType
    BY DEF TypeOK, TaskType
<1>2. x.guess \in Nat /\ Page(x.guess) \subseteq Ids /\ Link(x.guess) \in Nat
  <2>1. x.guess \in Nat
      BY <1>1 DEF TaskType
  <2> QED BY <2>1, ServerTyped, PageRows, LinkOfPage DEF ServerType
<1>3. CASE Respond(x)
  <2> DEFINE z == [x EXCEPT !.status = "served", !.page = Page(x.guess), !.next = Link(x.guess)]
  <2>1. /\ z \in TaskType /\ z.guess = x.guess /\ z.status = "served"
        /\ z.page = Page(x.guess) /\ z.next = Link(x.guess)
      BY <1>1, <1>2 DEF TaskType
  <2>2. tasks' = (tasks \ {x}) \cup {z}
      BY <1>3 DEF Respond
  <2> QED BY <2>1, <2>2
<1>4. CASE RespondError(x)
  <2> DEFINE z == [x EXCEPT !.status = "error"]
  <2>1. z \in TaskType /\ z.guess = x.guess /\ z.status = "error"
      BY <1>1 DEF TaskType
  <2>2. tasks' = (tasks \ {x}) \cup {z}
      BY <1>4 DEF RespondError
  <2> QED BY <2>1, <2>2
<1> QED BY <1>3, <1>4

\* Replacing a task leaves no more of them than there were.
LEMMA ReplacedTask ==
    ASSUME NEW T, IsFiniteSet(T), NEW x \in T, NEW z
    PROVE  /\ IsFiniteSet((T \ {x}) \cup {z})
           /\ Cardinality((T \ {x}) \cup {z}) <= Cardinality(T)
           /\ Cardinality(T) \in Nat /\ Cardinality((T \ {x}) \cup {z}) \in Nat
<1>1. /\ IsFiniteSet(T \ {x}) /\ Cardinality(T \ {x}) = Cardinality(T) - 1
      /\ Cardinality(T) \in Nat
    BY FS_RemoveElement, FS_CardinalityType
<1>2. /\ IsFiniteSet((T \ {x}) \cup {z})
      /\ Cardinality((T \ {x}) \cup {z}) =
             IF z \in T \ {x} THEN Cardinality(T \ {x}) ELSE Cardinality(T \ {x}) + 1
    BY <1>1, FS_AddElement
<1> QED BY <1>1, <1>2, FS_CardinalityType
-----------------------------------------------------------------------------
(* What a step leaves of the shape of the state. *)

\* Others change the list, and nothing that the call holds.
LEMMA OthersStep ==
    ASSUME TypeOK, ServerInv, Others
    PROVE  /\ rows' \subseteq Ids /\ newest' \in Nat /\ churn' \in 0..MaxChurn
           /\ IsFiniteSet(rows') /\ \A i \in before \cup rows' : i <= newest'
           /\ Lasting' \subseteq Lasting
           /\ UNCHANGED <<trimmed, opaque, keyed, before, pc, results, n, token, guess, tasks>>
<1>1. MaxChurn \in Nat /\ churn \in 0..MaxChurn /\ newest \in Nat /\ before \cup rows \subseteq Nat
    BY ListsAssumption, SizesAssumption DEF TypeOK
<1>2. CASE AddRow
  <2>1. newest + 1 \notin before
      BY <1>1 DEF ServerInv
  <2>2. IsFiniteSet(rows')
      BY <1>2, FS_AddElement DEF AddRow, ServerInv
  <2>3. \A i \in before \cup rows' : i <= newest'
      BY <1>1, <1>2 DEF AddRow, ServerInv
  <2>4. churn' \in 0..MaxChurn /\ newest' \in Nat
      BY <1>1, <1>2 DEF AddRow
  <2>5. rows' \subseteq Ids
      BY <1>2 DEF AddRow, TypeOK
  <2>6. Lasting' \subseteq Lasting
      BY <1>2, <2>1 DEF AddRow, Lasting
  <2> QED BY <1>2, <2>2, <2>3, <2>4, <2>5, <2>6 DEF AddRow
<1>3. ASSUME NEW i \in rows, DeleteRow(i)
      PROVE  /\ rows' \subseteq Ids /\ newest' \in Nat /\ churn' \in 0..MaxChurn
             /\ IsFiniteSet(rows') /\ \A k \in before \cup rows' : k <= newest'
             /\ Lasting' \subseteq Lasting
             /\ UNCHANGED <<trimmed, opaque, keyed, before, pc, results, n, token, guess, tasks>>
  <2>1. IsFiniteSet(rows')
      BY <1>3, FS_RemoveElement DEF DeleteRow, ServerInv
  <2>2. churn' \in 0..MaxChurn
      BY <1>1, <1>3 DEF DeleteRow
  <2>3. rows' \subseteq rows /\ Lasting' \subseteq Lasting
      BY <1>3 DEF DeleteRow, Lasting
  <2> QED BY <1>1, <1>3, <2>1, <2>2, <2>3 DEF DeleteRow, TypeOK, ServerInv
<1> QED BY <1>2, <1>3 DEF Others

\* The call's own steps leave the server alone.
LEMMA CallStep ==
    Call => UNCHANGED server
<1> SUFFICES ASSUME Call PROVE UNCHANGED server
    OBVIOUS
<1>1. ASSUME NEW x \in tasks, TaskStep(x) PROVE UNCHANGED server
    BY <1>1 DEF TaskStep, Respond, RespondError, JoinCancelled, JoinError,
                JoinExpected, JoinRegroup, JoinTerminal
<1> QED BY <1>1 DEF Call, ReadInitial, ReadInitialFails, Fetch, ReadPage, ReadFails, Dispatch, Finish

\* The server's part of the invariant.
LEMMA ServerStep ==
    TypeOK /\ ServerInv /\ [DeferredNext]_deferredVars => ServerInv' /\ Lasting' \subseteq Lasting
<1> SUFFICES ASSUME TypeOK, ServerInv, [DeferredNext]_deferredVars
             PROVE  ServerInv' /\ Lasting' \subseteq Lasting
    OBVIOUS
<1>1. CASE Others
    BY <1>1, OthersStep DEF ServerInv
<1>2. CASE UNCHANGED server
    BY <1>2 DEF server, ServerInv, Lasting
<1> QED BY <1>1, <1>2, CallStep DEF DeferredNext, deferredVars, vars

\* Merging a page counts each of its new rows once.
LEMMA MergeType ==
    ASSUME TypeOK, NEW s \in SUBSET Ids, Merge(s)
    PROVE  /\ results' \in [Ids -> Nat]
           /\ \A i \in Ids : results'[i] = results[i] \/ (i \in s /\ results'[i] = results[i] + 1)
           /\ \A i \in Ids : i \in s => results'[i] > 0
           /\ keyed => \A i \in Ids : results[i] > 0 => results'[i] = results[i]
<1>1. \A i \in Ids : results[i] \in Nat
    BY DEF TypeOK
<1>2. \A i \in Ids : results'[i] = results[i] + (IF i \in New(s) THEN 1 ELSE 0)
    BY DEF Merge
<1>3. results' \in [Ids -> Nat]
    BY <1>1 DEF Merge
<1> QED BY <1>1, <1>2, <1>3 DEF New

\* The part of the type that pages and joins change.
GuessType ==
    /\ frontier_id \in Nat /\ frontier_n \in Nat \ {0} /\ next_offset \in Nat
    /\ terminal_at \in Nat /\ dispatched_max \in Nat

\* What is read of a page, and how much.
LEMMA VisibleRows ==
    ASSUME TypeOK, ServerInv
    PROVE  /\ Visible(token) \in SUBSET Ids
           /\ Cardinality(Visible(token)) \in Nat /\ Cardinality(Visible(token)) <= PageSize
           /\ \A i \in Visible(token) : i > token
<1>1. ServerType /\ token \in Nat
    BY ServerTyped DEF TypeOK
<1>2. /\ Page(token) \subseteq rows /\ IsFiniteSet(Page(token))
      /\ Cardinality(Page(token)) \in Nat /\ Cardinality(Page(token)) <= PageSize
      /\ \A i \in Page(token) : token < i
    BY <1>1, PageRows
<1>3. Visible(token) \in SUBSET Page(token)
    BY DEF Visible
<1>4. /\ IsFiniteSet(Visible(token))
      /\ Cardinality(Visible(token)) <= Cardinality(Page(token))
    BY <1>2, <1>3, FS_Subset
<1>5. Cardinality(Visible(token)) \in Nat
    BY <1>4, FS_CardinalityType
<1>6. \A i \in Visible(token) : i > token
    BY <1>1, <1>2, <1>3, ListsAssumption DEF ServerType
<1> QED BY <1>1, <1>2, <1>3, <1>4, <1>5, <1>6, SizesAssumption DEF ServerType

\* What is merged of an answer, and the step it gives.
LEMMA AnswerRows ==
    ASSUME TypeOK, TasksInv, pc = "guess", NEW x \in tasks, x.status = "served"
    PROVE  /\ x.page \ trimmed \in SUBSET Ids
           /\ NewStep(x) \in Nat \ {0} /\ NewStep(x) <= PageSize
<1>1. x \in TaskType
    BY DEF TypeOK, TaskType
<1>2. x.page \subseteq Ids
    BY <1>1 DEF TaskType
<1>3. AnswerOK(x)
    BY DEF TasksInv, TaskOK
<1>4. /\ IsFiniteSet(x.page) /\ Cardinality(x.page) <= PageSize
      /\ x.page \ trimmed \in SUBSET x.page
    BY <1>3 DEF AnswerOK
<1>5. /\ Cardinality(x.page) \in Nat /\ Cardinality(x.page \ trimmed) \in Nat
      /\ Cardinality(x.page \ trimmed) <= Cardinality(x.page)
    BY <1>4, FS_Subset, FS_CardinalityType
<1> QED BY <1>2, <1>4, <1>5, SizesAssumption DEF NewStep, MaxOf

LEMMA TypeStep == Shape /\ [DeferredNext]_deferredVars => TypeOK'
<1> SUFFICES ASSUME Shape, [DeferredNext]_deferredVars PROVE TypeOK'
    OBVIOUS
<1>1. TypeOK /\ ServerInv /\ TasksInv
    BY DEF Shape
<1>2. TypeOK => tasks \subseteq TaskType /\ GuessType
    BY DEF TypeOK, TaskType, GuessType
<1>3. ASSUME /\ UNCHANGED server
             /\ pc' \in Sequential \cup {"guess", "done", "failed"}
             /\ results' \in [Ids -> Nat] /\ n' \in Nat /\ token' \in Nat
             /\ GuessType' /\ tasks' \subseteq TaskType
      PROVE  TypeOK'
    BY <1>1, <1>3 DEF server, TypeOK, TaskType, GuessType, Sequential
<1>4. CASE Others
    BY <1>1, <1>4, OthersStep DEF TypeOK, guess
<1>5. CASE ReadInitial
  <2>1. Link(token) \in Nat
      BY <1>1, ServerTyped, LinkOfPage DEF TypeOK
  <2>2. token' \in Nat /\ pc' \in Sequential \cup {"guess", "done", "failed"}
      BY <1>5, <2>1 DEF ReadInitial, Sequential, None
  <2> QED BY <1>1, <1>2, <1>3, <1>5, <2>2 DEF ReadInitial, GuessType, guess, TypeOK
<1>6. CASE ReadInitialFails \/ ReadFails
    BY <1>1, <1>2, <1>3, <1>6 DEF ReadInitialFails, ReadFails, GuessType, guess, TypeOK
<1>7. CASE ReadPage
  <2>1. Link(token) \in Nat /\ n' \in Nat /\ Visible(token) \in SUBSET Ids
      BY <1>1, <1>7, ServerTyped, LinkOfPage, VisibleRows DEF TypeOK, ReadPage
  <2>2. results' \in [Ids -> Nat]
      BY <1>1, <1>7, <2>1, MergeType DEF ReadPage
  <2>3. /\ pc' \in Sequential \cup {"guess", "done", "failed"} /\ token' \in Nat
        /\ GuessType'
      BY <1>1, <1>2, <1>7, <2>1
         DEF ReadPage, Continue, CanGuess, GuessType, guess, Sequential, None
  <2>4. tasks' \subseteq TaskType
      BY <1>1, <1>2, <1>7 DEF ReadPage
  <2> QED BY <1>3, <1>7, <2>1, <2>2, <2>3, <2>4 DEF ReadPage
<1>8. CASE Dispatch
  <2>1. tasks' \subseteq TaskType
      BY <1>1, <1>8, DispatchTasks DEF TasksInv
  <2>2. GuessType'
      BY <1>1, <1>2, <1>8, NextGuessType DEF Dispatch, GuessType, MaxOf, Advance
  <2> QED BY <1>1, <1>3, <1>8, <2>1, <2>2 DEF Dispatch, TypeOK
<1>9. CASE Finish
    BY <1>1, <1>2, <1>3, <1>9 DEF Finish, GuessType, guess, TypeOK
<1>10. ASSUME NEW x \in tasks, TaskStep(x) PROVE TypeOK'
  <2>1. x \in TaskType
      BY <1>1, <1>2
  <2>2. CASE Respond(x) \/ RespondError(x)
    <3>1. tasks' \subseteq TaskType
        BY <1>1, <1>2, <2>2, RespondTasks
    <3> QED BY <1>1, <1>2, <1>3, <2>2, <3>1 DEF Respond, RespondError, GuessType, guess, TypeOK
  <2>3. CASE JoinCancelled(x) \/ JoinError(x)
    <3>1. tasks' \subseteq TaskType
        BY <1>1, <1>2, <2>3 DEF JoinCancelled, JoinError
    <3>2. GuessType' /\ UNCHANGED <<server, results, n, token>>
        BY <1>1, <1>2, <2>3 DEF JoinCancelled, JoinError, GuessType, guess
    <3>3. pc' \in Sequential \cup {"guess", "done", "failed"}
        BY <1>1, <2>3 DEF JoinCancelled, JoinError, TypeOK, Sequential
    <3> QED BY <1>1, <1>3, <3>1, <3>2, <3>3 DEF TypeOK
  <2>4. CASE JoinExpected(x) \/ JoinRegroup(x) \/ JoinTerminal(x)
    <3>1. pc = "guess" /\ x.status = "served"
        BY <2>4 DEF JoinExpected, JoinRegroup, JoinTerminal, Joined
    <3>2. results' \in [Ids -> Nat]
        BY <1>1, <2>4, <3>1, AnswerRows, MergeType DEF JoinExpected, JoinRegroup, JoinTerminal
    <3>3. \E R : tasks' = Rest(x, R)
        BY <2>4 DEF JoinExpected, JoinRegroup, JoinTerminal
    <3>4. tasks' \subseteq TaskType
        BY <1>1, <1>2, <3>3, RestTasks DEF TasksInv
    <3>5. x.next \in Nat /\ x.guess \in Nat /\ NewStep(x) \in Nat \ {0}
        BY <1>1, <2>1, <3>1, AnswerRows DEF TaskType
    <3>6. GuessType'
        BY <1>1, <1>2, <2>4, <3>5
           DEF JoinExpected, JoinRegroup, JoinTerminal, GuessType, guess, Boundary, MinOf
    <3>7. UNCHANGED <<server, pc, n, token>>
        BY <2>4 DEF JoinExpected, JoinRegroup, JoinTerminal
    <3> QED BY <1>1, <1>3, <3>1, <3>2, <3>4, <3>6, <3>7 DEF TypeOK
  <2> QED BY <1>10, <2>2, <2>3, <2>4 DEF TaskStep
<1>11. CASE UNCHANGED deferredVars
    BY <1>1, <1>11 DEF TypeOK, deferredVars, vars, server, guess
<1> QED BY <1>4, <1>5, <1>6, <1>7, <1>8, <1>9, <1>10, <1>11 DEF DeferredNext, Call, Fetch

LEMMA ResultsStep == Shape /\ [DeferredNext]_deferredVars => ResultsInv'
<1> SUFFICES ASSUME Shape, [DeferredNext]_deferredVars PROVE ResultsInv'
    OBVIOUS
<1>1. TypeOK /\ ServerInv /\ ResultsInv /\ TasksInv /\ tasks \subseteq TaskType
    BY DEF Shape, TypeOK, TaskType
<1>2. \A i \in Ids : i \in Nat /\ results[i] \in Nat /\ initial[i] \in Nat
    BY <1>1, ListsAssumption DEF TypeOK, ResultsInv
<1>3. token \in Nat /\ frontier_id \in Nat /\ ServerType
    BY <1>1, ServerTyped DEF TypeOK
<1>4. /\ Link(token) \in Nat
      /\ Link(token) # None => Link(token) > token /\ \A i \in Visible(token) : i <= Link(token)
    BY <1>3, LinkOfPage DEF Visible
<1>5. Visible(token) \in SUBSET Ids /\ \A i \in Visible(token) : i > token
    BY <1>1, VisibleRows
<1>6. ASSUME UNCHANGED <<keyed, results, initial>>,
             pc' \in Sequential => UNCHANGED <<pc, token, tasks>>,
             pc' = "guess" => UNCHANGED <<pc, frontier_id>>
      PROVE  ResultsInv'
    BY <1>1, <1>6 DEF ResultsInv, Got, Sequential
<1>7. CASE Others /\ UNCHANGED initial
    BY <1>1, <1>6, <1>7, OthersStep DEF guess
<1>8. CASE ReadInitial
  <2>1. \A i \in Ids : i \in Visible(token) => initial[i] = 0 /\ results[i] = 0
    <3>1. \A i \in Ids : initial[i] + results[i] > 0 => i <= token
        BY <1>1, <1>8 DEF ReadInitial, ResultsInv, Got, Sequential
    <3> QED BY <1>2, <1>3, <1>5, <3>1
  <2>2. \A i \in Ids :
            /\ initial'[i] = initial[i] + (IF i \in Visible(token) THEN 1 ELSE 0)
            /\ results'[i] = results[i]
      BY <1>8 DEF ReadInitial
  <2>3. initial' \in [Ids -> Nat]
      BY <1>2, <1>8 DEF ReadInitial
  <2>4. \A i \in Ids : initial'[i] <= 1 /\ (keyed => initial'[i] + results'[i] <= 1)
      BY <1>1, <1>2, <2>1, <2>2 DEF ResultsInv
  <2>5. pc' # "guess" /\ keyed' = keyed /\ tasks' = {}
      BY <1>1, <1>8 DEF ReadInitial, ResultsInv, Sequential, server
  <2>6. ASSUME pc' \in Sequential, NEW i \in Ids, initial'[i] + results'[i] > 0
        PROVE  i <= token'
    <3>1. Link(token) # None /\ token' = Link(token)
        BY <1>8, <2>6 DEF ReadInitial, Sequential
    <3>2. CASE i \in Visible(token)
        BY <1>4, <3>1, <3>2
    <3>3. CASE i \notin Visible(token)
      <4>1. initial[i] + results[i] > 0
          BY <1>2, <2>2, <2>6, <3>3
      <4>2. i <= token
          BY <1>1, <1>8, <4>1 DEF ReadInitial, ResultsInv, Got, Sequential
      <4> QED BY <1>2, <1>3, <1>4, <3>1, <4>2
    <3> QED BY <3>2, <3>3
  <2> QED BY <2>3, <2>4, <2>5, <2>6 DEF ResultsInv, Got
<1>9. CASE ReadPage /\ UNCHANGED initial
  <2>1. Merge(Visible(token))
      BY <1>9 DEF ReadPage
  <2>2. \A i \in Ids :
            /\ results'[i] = results[i] \/ (i \in Visible(token) /\ results'[i] = results[i] + 1)
      BY <1>1, <1>5, <2>1, MergeType
  <2>3. \A i \in Ids : i \in Visible(token) => initial[i] = 0 /\ results[i] = 0
    <3>1. \A i \in Ids : initial[i] + results[i] > 0 => i <= token
        BY <1>1, <1>9 DEF ReadPage, ResultsInv, Got, Sequential
    <3> QED BY <1>2, <1>3, <1>5, <3>1
  <2>4. \A i \in Ids : initial'[i] <= 1 /\ (keyed => initial'[i] + results'[i] <= 1)
      BY <1>1, <1>2, <1>9, <2>2, <2>3 DEF ResultsInv
  <2>5. keyed' = keyed /\ tasks' = {} /\ initial' \in [Ids -> Nat]
      BY <1>1, <1>9 DEF ReadPage, ResultsInv, Sequential, server
  <2>6. ASSUME NEW i \in Ids, initial'[i] + results'[i] > 0, Link(token) # None
        PROVE  i <= Link(token)
    <3>1. CASE i \in Visible(token)
        BY <1>4, <2>6, <3>1
    <3>2. CASE i \notin Visible(token)
      <4>1. initial[i] + results[i] > 0
          BY <1>2, <1>9, <2>2, <2>6, <3>2
      <4>2. i <= token
          BY <1>1, <1>9, <4>1 DEF ReadPage, ResultsInv, Got, Sequential
      <4> QED BY <1>2, <1>3, <1>4, <2>6, <4>2
    <3> QED BY <3>1, <3>2
  <2>7. pc' \in Sequential => Link(token) # None /\ token' = Link(token)
      BY <1>9 DEF ReadPage, Continue, Sequential
  <2>8. pc' = "guess" => Link(token) # None /\ frontier_id' = Link(token)
      BY <1>9 DEF ReadPage, Continue, Sequential
  <2>9. \A i \in Ids : initial'[i] + results'[i] > 0 \/ initial'[i] = 0
    <3>1. results' \in [Ids -> Nat]
        BY <1>1, <1>5, <2>1, MergeType
    <3> QED BY <1>2, <1>9, <3>1
  <2>10. \A i \in Ids : initial'[i] \in Nat
      BY <1>2, <1>9
  <2> QED BY <2>4, <2>5, <2>6, <2>7, <2>8, <2>9, <2>10 DEF ResultsInv, Got
<1>10. CASE Dispatch /\ UNCHANGED initial
    BY <1>6, <1>10 DEF Dispatch, Sequential, server
<1>11. CASE (ReadFails \/ ReadInitialFails \/ Finish) /\ UNCHANGED initial
    BY <1>6, <1>11 DEF ReadFails, ReadInitialFails, Finish, Sequential, server
<1>12. ASSUME NEW x \in tasks, TaskStep(x), UNCHANGED initial PROVE ResultsInv'
  <2>1. CASE Respond(x) \/ RespondError(x) \/ JoinCancelled(x)
      BY <1>6, <1>12, <2>1 DEF Respond, RespondError, JoinCancelled, Sequential, server, guess
  <2>2. CASE JoinError(x)
      BY <1>6, <1>12, <2>2 DEF JoinError, Sequential, server, guess
  <2>3. CASE JoinExpected(x) \/ JoinRegroup(x) \/ JoinTerminal(x)
    <3>1. pc = "guess" /\ x.status = "served" /\ pc' = pc /\ keyed' = keyed
        BY <2>3 DEF JoinExpected, JoinRegroup, JoinTerminal, Joined, server
    <3>2. TaskOK(x) /\ AnswerOK(x) /\ x \in TaskType
        BY <1>1, <3>1 DEF TasksInv, TaskOK
    <3>3. x.page \ trimmed \in SUBSET Ids /\ Merge(x.page \ trimmed)
        BY <1>1, <2>3, <3>1, AnswerRows DEF JoinExpected, JoinRegroup, JoinTerminal
    <3>4. /\ \A i \in Ids : results'[i] = results[i] \/ (/\ i \in x.page \ trimmed
                                                        /\ results'[i] = results[i] + 1)
          /\ keyed => \A i \in Ids : results[i] > 0 => results'[i] = results[i]
        BY <1>1, <3>3, MergeType
    <3>5. \A i \in x.page : i \in Ids => initial[i] = 0
      <4>1. x.guess \in Nat
          BY <3>2 DEF TaskType
      <4> QED BY <1>2, <3>2, <4>1 DEF TaskOK, AnswerOK
    <3>6. \A i \in Ids : initial'[i] <= 1 /\ (keyed => initial'[i] + results'[i] <= 1)
        BY <1>1, <1>2, <1>12, <3>4, <3>5 DEF ResultsInv
    <3>7. \A i \in Ids : initial[i] > 0 => i <= frontier_id'
      <4>1. CASE JoinRegroup(x)
        <5>1. x.next # None /\ frontier_id' = x.next
            BY <4>1 DEF JoinRegroup, IsEnd, Readable
        <5>2. x.next > x.guess /\ x.next \in Nat /\ x.guess \in Nat
            BY <3>2, <5>1 DEF AnswerOK, TaskType
        <5> QED BY <1>2, <3>2, <5>1, <5>2 DEF TaskOK
      <4>2. CASE JoinExpected(x) \/ JoinTerminal(x)
          BY <1>1, <3>1, <4>2 DEF JoinExpected, JoinTerminal, guess, ResultsInv
      <4> QED BY <2>3, <4>1, <4>2
    <3> QED BY <1>1, <1>12, <3>1, <3>6, <3>7 DEF ResultsInv, Sequential
  <2> QED BY <1>12, <2>1, <2>2, <2>3 DEF TaskStep
<1>13. CASE UNCHANGED deferredVars
    BY <1>6, <1>13 DEF deferredVars, vars, server, guess
<1> QED BY <1>7, <1>8, <1>9, <1>10, <1>11, <1>12, <1>13
       DEF DeferredNext, Call, Fetch, ReadInitialFails

\* Whether a task is as it should be depends on its answer, the lasting rows,
\* the first result and the guesses made.
LEMMA TaskStaysOK ==
    ASSUME NEW y, NEW z, y \in TaskType, TaskOK(y),
           z.guess = y.guess, z.status = y.status, z.page = y.page, z.next = y.next,
           Lasting' \subseteq Lasting, initial' = initial,
           dispatched_max \in Nat, dispatched_max' \in Nat, dispatched_max <= dispatched_max'
    PROVE  (TaskOK(z))'
<1>1. z.guess > 0 /\ z.guess <= dispatched_max'
  <2>1. y.guess \in Nat
      BY DEF TaskType
  <2> QED BY <2>1 DEF TaskOK
<1> QED BY <1>1 DEF TaskOK, AnswerOK

LEMMA TasksStep == Shape /\ [DeferredNext]_deferredVars => TasksInv'
<1> SUFFICES ASSUME Shape, [DeferredNext]_deferredVars PROVE TasksInv'
    OBVIOUS
<1>1. TypeOK /\ ServerInv /\ ResultsInv /\ TasksInv /\ tasks \subseteq TaskType /\ ServerType
    BY ServerTyped DEF Shape, TypeOK, TaskType
<1>2. Lasting' \subseteq Lasting
    BY <1>1, ServerStep
<1>3. /\ MaxGuesses \in Nat /\ PageSize \in Nat
      /\ Cardinality(tasks) \in Nat /\ Cardinality(tasks) <= MaxGuesses + 1
    BY <1>1, SizesAssumption, FS_CardinalityType DEF TasksInv
<1>4. dispatched_max \in Nat /\ token \in Nat /\ NextGuess \in Nat
    BY <1>1, NextGuessType DEF TypeOK
<1>5. ASSUME UNCHANGED <<tasks, initial>>,
             pc' = "guess" => UNCHANGED <<pc, guess>>
      PROVE  TasksInv'
  <2>1. ASSUME pc' = "guess", NEW x \in tasks PROVE (TaskOK(x))'
      BY <1>1, <1>2, <1>4, <1>5, <2>1, TaskStaysOK DEF TasksInv, guess
  <2> QED BY <1>1, <1>5, <2>1 DEF TasksInv, guess
<1>6. CASE Others /\ UNCHANGED initial
    BY <1>1, <1>5, <1>6, OthersStep
<1>7. CASE ReadInitial
  <2>1. pc' # "guess" /\ tasks' = tasks
      BY <1>7 DEF ReadInitial
  <2> QED BY <1>1, <2>1 DEF TasksInv
<1>8. CASE ReadPage /\ UNCHANGED initial
  <2>1. tasks' = {} /\ tasks = {}
      BY <1>1, <1>8 DEF ReadPage, ResultsInv, Sequential
  <2>2. Link(token) \in Nat /\ n' \in Nat /\ n' <= PageSize
      BY <1>1, <1>4, <1>8, VisibleRows, LinkOfPage DEF ReadPage
  <2>3. pc' = "guess" => frontier_id' > 0 /\ frontier_n' <= PageSize
      BY <1>8, <2>2 DEF ReadPage, Continue, None
  <2> QED BY <1>1, <2>1, <2>3 DEF TasksInv
<1>9. CASE (ReadFails \/ ReadInitialFails \/ Finish) /\ UNCHANGED initial
    BY <1>5, <1>9 DEF ReadFails, ReadInitialFails, Finish
<1>10. CASE Dispatch /\ UNCHANGED initial
  <2>1. /\ IsFiniteSet(tasks') /\ Cardinality(tasks') <= Cardinality(tasks) + 1
        /\ Cardinality(tasks') \in Nat
        /\ \A z \in tasks' :
               \/ z.guess = NextGuess /\ z.status = "running"
               \/ \E y \in tasks : /\ z.guess = y.guess /\ z.status = y.status
                                  /\ z.page = y.page /\ z.next = y.next
      BY <1>1, <1>10, DispatchTasks DEF TasksInv
  <2>2. Cardinality(tasks') <= MaxGuesses + 1
      BY <1>3, <1>10, <2>1 DEF Dispatch, CanDispatch
  <2>3. /\ pc = "guess" /\ pc' = "guess"
        /\ frontier_id' = frontier_id /\ frontier_n' = frontier_n
        /\ dispatched_max' \in Nat /\ dispatched_max <= dispatched_max'
        /\ NextGuess <= dispatched_max'
      BY <1>4, <1>10 DEF Dispatch, MaxOf
  <2>4. NextGuess >= frontier_id
    <3>1. frontier_n * next_offset \in Nat /\ frontier_id \in Nat
        BY <1>1 DEF TypeOK
    <3> QED BY <3>1 DEF NextGuess
  <2>5. ASSUME NEW z \in tasks' PROVE (TaskOK(z))'
    <3>1. CASE z.guess = NextGuess /\ z.status = "running"
      <4>1. z.guess > 0 /\ z.guess <= dispatched_max'
          BY <1>1, <1>4, <2>3, <2>4, <3>1 DEF TasksInv, TypeOK
      <4>2. \A i \in Ids : initial[i] > 0 => i <= z.guess
        <5>1. frontier_id \in Nat /\ Ids \subseteq Nat
            BY <1>1, ListsAssumption DEF TypeOK
        <5> QED BY <1>1, <1>4, <2>3, <2>4, <3>1, <5>1 DEF ResultsInv
      <4> QED BY <1>10, <3>1, <4>1, <4>2 DEF TaskOK
    <3>2. ASSUME NEW y \in tasks, z.guess = y.guess, z.status = y.status,
                 z.page = y.page, z.next = y.next
          PROVE  (TaskOK(z))'
        BY <1>1, <1>2, <1>4, <1>10, <2>3, <3>2, TaskStaysOK DEF TasksInv
    <3> QED BY <2>1, <3>1, <3>2
  <2> QED BY <1>1, <2>1, <2>2, <2>3, <2>5 DEF TasksInv
<1>11. ASSUME NEW x \in tasks, TaskStep(x), UNCHANGED initial PROVE TasksInv'
  <2>1. pc = "guess" /\ x \in TaskType /\ TaskOK(x)
      BY <1>1, <1>11 DEF TaskStep, Respond, RespondError, JoinCancelled, JoinError,
                JoinExpected, JoinRegroup, JoinTerminal, Joined, TasksInv
  <2>2. CASE Respond(x) \/ RespondError(x)
    <3>1. PICK z \in TaskType :
              /\ tasks' = (tasks \ {x}) \cup {z}
              /\ z.guess = x.guess
              /\ \/ /\ z.status = "served"
                    /\ z.page = Page(x.guess) /\ z.next = Link(x.guess)
                 \/ z.status = "error"
        BY <1>1, <2>2, RespondTasks
    <3>2. UNCHANGED <<pc, guess, initial>> /\ UNCHANGED server
        BY <1>11, <2>2 DEF Respond, RespondError
    <3>3. /\ IsFiniteSet(tasks') /\ Cardinality(tasks') <= Cardinality(tasks)
          /\ Cardinality(tasks') \in Nat
        BY <1>1, <3>1, ReplacedTask DEF TasksInv
    <3>4. z.status = "served" => AnswerOK(z)
      <4>1. x.guess \in Nat
          BY <2>1 DEF TaskType
      <4>2. /\ Page(x.guess) \subseteq rows /\ IsFiniteSet(Page(x.guess))
            /\ Cardinality(Page(x.guess)) <= PageSize
            /\ \A i \in Page(x.guess) : x.guess < i
          BY <1>1, <4>1, PageRows
      <4>3. /\ Link(x.guess) # None => Link(x.guess) > x.guess
            /\ \A i \in rows : x.guess < i /\ (Link(x.guess) = None \/ i <= Link(x.guess))
                              => i \in Page(x.guess)
          BY <1>1, <4>1, LinkOfPage
      <4>4. \A i \in Page(x.guess) : i > x.guess
          BY <1>1, <4>1, <4>2, ListsAssumption DEF ServerType
      <4>5. Lasting \subseteq rows
          BY DEF Lasting
      <4> QED BY <3>1, <4>2, <4>3, <4>4, <4>5 DEF AnswerOK
    <3>5. TaskOK(z)
        BY <2>1, <3>1, <3>4 DEF TaskOK
    <3>6. ASSUME NEW y \in tasks' PROVE (TaskOK(y))'
      <4>1. y \in TaskType /\ TaskOK(y)
          BY <1>1, <2>1, <3>1, <3>5, <3>6 DEF TasksInv
      <4> QED BY <1>2, <1>4, <3>2, <4>1, TaskStaysOK DEF guess
    <3> QED BY <1>1, <1>3, <2>1, <3>2, <3>3, <3>6 DEF TasksInv, guess
  <2>3. CASE JoinCancelled(x)
    <3>1. tasks' = tasks \ {x} /\ UNCHANGED <<pc, guess>>
        BY <2>3 DEF JoinCancelled
    <3>2. /\ IsFiniteSet(tasks') /\ Cardinality(tasks') = Cardinality(tasks) - 1
        BY <1>1, <3>1, FS_RemoveElement DEF TasksInv
    <3>3. ASSUME NEW y \in tasks' PROVE (TaskOK(y))'
        BY <1>1, <1>2, <1>4, <1>11, <2>1, <3>1, TaskStaysOK DEF TasksInv, guess
    <3> QED BY <1>1, <1>3, <2>1, <3>1, <3>2, <3>3 DEF TasksInv, guess
  <2>4. CASE JoinError(x)
    <3>1. tasks' = {} /\ pc' = "failed"
        BY <2>4 DEF JoinError
    <3> QED BY <1>3, <3>1, FS_EmptySet DEF TasksInv
  <2>5. CASE JoinExpected(x) \/ JoinRegroup(x) \/ JoinTerminal(x)
    <3>1. PICK R : tasks' = Rest(x, R)
        BY <2>5 DEF JoinExpected, JoinRegroup, JoinTerminal
    <3>2. /\ IsFiniteSet(tasks') /\ Cardinality(tasks') \in Nat
          /\ Cardinality(tasks') <= Cardinality(tasks) - 1
          /\ \A z \in tasks' : \E y \in tasks :
                z.guess = y.guess /\ z.status = y.status /\ z.page = y.page /\ z.next = y.next
        BY <1>1, <3>1, RestTasks DEF TasksInv
    <3>3. pc' = pc /\ dispatched_max' = dispatched_max /\ x.status = "served"
        BY <2>5 DEF JoinExpected, JoinRegroup, JoinTerminal, Joined, guess
    <3>4. ASSUME NEW z \in tasks' PROVE (TaskOK(z))'
      <4>1. PICK y \in tasks :
                z.guess = y.guess /\ z.status = y.status /\ z.page = y.page /\ z.next = y.next
          BY <3>2
      <4> QED BY <1>1, <1>2, <1>4, <1>11, <2>1, <3>3, <4>1, TaskStaysOK DEF TasksInv
    <3>5. frontier_id' > 0 /\ frontier_n' <= PageSize
      <4>1. CASE JoinRegroup(x)
        <5>1. x.next # None /\ x.next \in Nat /\ frontier_id' = x.next /\ frontier_n' = NewStep(x)
            BY <2>1, <4>1 DEF JoinRegroup, IsEnd, Readable, TaskType
        <5> QED BY <1>1, <2>1, <3>3, <5>1, AnswerRows DEF None
      <4>2. CASE JoinExpected(x) \/ JoinTerminal(x)
          BY <1>1, <2>1, <4>2 DEF JoinExpected, JoinTerminal, guess, TasksInv
      <4> QED BY <2>5, <4>1, <4>2
    <3> QED BY <1>3, <3>2, <3>4, <3>5 DEF TasksInv
  <2> QED BY <1>11, <2>2, <2>3, <2>4, <2>5 DEF TaskStep
<1>12. CASE UNCHANGED deferredVars
    BY <1>5, <1>12 DEF deferredVars, vars
<1> QED BY <1>6, <1>7, <1>8, <1>9, <1>10, <1>11, <1>12
       DEF DeferredNext, Call, Fetch, ReadInitialFails

LEMMA ShapeStep == Shape /\ [DeferredNext]_deferredVars => Shape'
    BY TypeStep, ServerStep, ResultsStep, TasksStep DEF Shape
-----------------------------------------------------------------------------
(* What a step leaves covered. *)

\* What has been returned stays returned, and what a join merges is returned.
LEMMA GotStays ==
    ASSUME Shape, [DeferredNext]_deferredVars, NEW i \in Ids, Got(i)
    PROVE  initial'[i] + results'[i] > 0
<1>1. TypeOK /\ ServerInv /\ ResultsInv /\ TasksInv
    BY DEF Shape
<1>2. initial[i] \in Nat /\ results[i] \in Nat /\ initial[i] + results[i] > 0
    BY <1>1 DEF TypeOK, ResultsInv, Got
<1>3. CASE UNCHANGED <<results, initial>>
    BY <1>2, <1>3
<1>4. CASE ReadInitial
  <2>1. initial'[i] \in {initial[i], initial[i] + 1} /\ results' = results
      BY <1>2, <1>4 DEF ReadInitial
  <2> QED BY <1>2, <2>1
<1>5. ASSUME NEW s \in SUBSET Ids, Merge(s), UNCHANGED initial
      PROVE  initial'[i] + results'[i] > 0
  <2>1. results'[i] \in {results[i], results[i] + 1}
      BY <1>1, <1>5, MergeType
  <2> QED BY <1>2, <1>5, <2>1
<1>6. CASE ReadPage /\ UNCHANGED initial
    BY <1>1, <1>5, <1>6, VisibleRows DEF ReadPage
<1>7. ASSUME NEW x \in tasks, TaskStep(x), UNCHANGED initial
      PROVE  initial'[i] + results'[i] > 0
  <2>1. CASE Respond(x) \/ RespondError(x) \/ JoinCancelled(x) \/ JoinError(x)
      BY <1>3, <1>7, <2>1 DEF Respond, RespondError, JoinCancelled, JoinError
  <2>2. CASE JoinExpected(x) \/ JoinRegroup(x) \/ JoinTerminal(x)
    <3>1. pc = "guess" /\ x.status = "served" /\ Merge(x.page \ trimmed)
        BY <2>2 DEF JoinExpected, JoinRegroup, JoinTerminal, Joined
    <3> QED BY <1>1, <1>5, <1>7, <3>1, AnswerRows
  <2> QED BY <1>7, <2>1, <2>2 DEF TaskStep
<1>8. CASE (Others \/ ReadFails \/ ReadInitialFails \/ Dispatch \/ Finish) /\ UNCHANGED initial
    BY <1>1, <1>3, <1>8, OthersStep DEF ReadFails, ReadInitialFails, Dispatch, Finish
<1>9. CASE UNCHANGED deferredVars
    BY <1>3, <1>9 DEF deferredVars, vars
<1> QED BY <1>4, <1>6, <1>7, <1>8, <1>9 DEF DeferredNext, Call, Fetch, ReadInitialFails

\* The lasting rows up to the link of the page just read, or all of them if it
\* is the last one, are returned or visible on it.
LEMMA ReadUpToLink ==
    ASSUME Shape, ReadInv, pc \in Sequential, NEW i \in Lasting,
           Link(token) = None \/ i <= Link(token)
    PROVE  Got(i) \/ i \in Visible(token)
<1>1. TypeOK /\ ServerInv /\ ServerType
    BY ServerTyped DEF Shape
<1>2. token \in Nat /\ i \in rows /\ i \notin trimmed /\ i \in Nat
    BY <1>1, ListsAssumption DEF TypeOK, Lasting
<1>3. CASE i <= token
    BY <1>3 DEF ReadInv
<1>4. CASE token < i
    BY <1>1, <1>2, <1>4, LinkOfPage DEF Visible
<1> QED BY <1>2, <1>3, <1>4

LEMMA ReadStep == IndInv /\ [DeferredNext]_deferredVars => ReadInv'
<1> SUFFICES ASSUME IndInv, [DeferredNext]_deferredVars PROVE ReadInv'
    OBVIOUS
<1>1. /\ Shape /\ ReadInv /\ GuessInv /\ NothingUncovered
      /\ TypeOK /\ ServerInv /\ ResultsInv /\ TasksInv
    BY DEF IndInv, Coverage, Shape
<1>2. Lasting' \subseteq Lasting /\ Lasting \subseteq Ids
    BY <1>1, ServerStep DEF Lasting, TypeOK
<1>3. ASSUME pc' \in Sequential \cup {"done"} => UNCHANGED <<pc, token>>
      PROVE  ReadInv'
    BY <1>1, <1>2, <1>3, GotStays DEF ReadInv, Got
<1>4. CASE (Others \/ ReadFails \/ ReadInitialFails \/ Dispatch) /\ UNCHANGED initial
    BY <1>1, <1>3, <1>4, OthersStep DEF ReadFails, ReadInitialFails, Dispatch, Sequential
<1>5. CASE ReadInitial \/ (ReadPage /\ UNCHANGED initial)
  <2>1. pc \in Sequential /\ Lasting' = Lasting
      BY <1>5 DEF ReadInitial, ReadPage, Sequential, server, Lasting
  <2>2. ASSUME NEW i \in Lasting, Link(token) = None \/ i <= Link(token)
        PROVE  initial'[i] + results'[i] > 0
    <3>1. Got(i) => initial'[i] + results'[i] > 0
        BY <1>1, <1>2, GotStays
    <3>2. i \in Visible(token) => initial'[i] + results'[i] > 0
      <4>1. initial[i] \in Nat /\ results[i] \in Nat /\ i \in Ids
          BY <1>1, <1>2 DEF TypeOK, ResultsInv
      <4>2. CASE ReadInitial
          BY <4>1, <4>2 DEF ReadInitial
      <4>3. CASE ReadPage /\ UNCHANGED initial
        <5>1. i \in Visible(token) => results'[i] > 0 /\ results'[i] \in Nat
            BY <1>1, <4>1, <4>3, VisibleRows, MergeType DEF ReadPage
        <5> QED BY <4>1, <4>3, <5>1
      <4> QED BY <1>5, <4>2, <4>3
    <3> QED BY <1>1, <2>1, <2>2, <3>1, <3>2, ReadUpToLink
  <2>3. pc' = "done" => Link(token) = None
      BY <1>5 DEF ReadInitial, ReadPage, Continue
  <2>4. pc' \in Sequential => token' = Link(token)
      BY <1>5 DEF ReadInitial, ReadPage, Continue, Sequential
  <2> QED BY <1>2, <2>1, <2>2, <2>3, <2>4 DEF ReadInv, Got, Sequential
<1>6. CASE Finish /\ UNCHANGED initial
  <2>1. /\ pc = "guess" /\ ~CanDispatch /\ tasks = {} /\ pc' = "done"
        /\ UNCHANGED <<results, initial>>
      BY <1>6 DEF Finish
  <2>2. terminal_at # None
      BY <2>1, FS_EmptySet, SizesAssumption DEF CanDispatch
  <2>3. \A i \in Lasting : Got(i)
      BY <1>1, <2>1, <2>2 DEF NothingUncovered, Got
  <2> QED BY <1>2, <2>1, <2>3 DEF ReadInv, Got, Sequential
<1>7. ASSUME NEW x \in tasks, TaskStep(x) PROVE ReadInv'
    BY <1>3, <1>7 DEF TaskStep, Respond, RespondError, JoinCancelled, JoinError,
                      JoinExpected, JoinRegroup, JoinTerminal, Joined, Sequential
<1>8. CASE UNCHANGED deferredVars
    BY <1>3, <1>8 DEF deferredVars, vars
<1> QED BY <1>4, <1>5, <1>6, <1>7, <1>8 DEF DeferredNext, Call, Fetch, ReadInitialFails

\* What NothingUncovered says of one row.
Covered(i) ==
    \/ Got(i)
    \/ \E x \in tasks : Brings(x, i)
    \/ CanDispatch /\ NextGuess < i /\ i <= NextGuess + PageSize
    \/ i > dispatched_max + PageSize /\ terminal_at = None

\* The guess step's part of the invariant: what it says of one row.
BoundsOK(i) ==
    /\ terminal_at # None /\ i > terminal_at => Got(i)
    /\ terminal_at = None /\ i > dispatched_max + PageSize => Got(i) \/ i > NextGuess

LEMMA CoverageByRow ==
    /\ NothingUncovered <=> (pc = "guess" => \A i \in Lasting : Covered(i))
    /\ GuessInv <=> (pc = "guess" => \A i \in Lasting : BoundsOK(i))
    BY DEF NothingUncovered, GuessInv, Covered, BoundsOK, Got

\* A dispatch: the new guess covers the next PageSize ids, and the one after it
\* leaves out none behind them.
LEMMA DispatchCovers ==
    ASSUME Shape, Dispatch, UNCHANGED initial, NEW i \in Lasting, Covered(i), BoundsOK(i)
    PROVE  (Covered(i))' /\ (BoundsOK(i))'
<1>1. TypeOK /\ TasksInv /\ pc = "guess" /\ i \in Nat
    BY ListsAssumption DEF Shape, Dispatch, Lasting, TypeOK
<1>2. /\ NextGuess \in Nat /\ dispatched_max \in Nat /\ PageSize \in Nat
      /\ frontier_n \in Nat /\ frontier_n <= PageSize
    BY <1>1, NextGuessType, SizesAssumption DEF TypeOK, TasksInv
<1>3. /\ \E z \in tasks' : z.guess = NextGuess /\ z.status = "running" /\ ~z.aborted
      /\ \A y \in tasks : \E z \in tasks' :
            /\ z.guess = y.guess /\ z.status = y.status
            /\ z.page = y.page /\ z.next = y.next /\ z.aborted = y.aborted
    BY <1>1, DispatchTasks DEF TasksInv
<1>4. /\ dispatched_max' \in Nat /\ dispatched_max' \in {dispatched_max, NextGuess}
      /\ dispatched_max <= dispatched_max' /\ NextGuess <= dispatched_max'
      /\ UNCHANGED <<terminal_at, results>>
    BY <1>2 DEF Dispatch, MaxOf
<1>5. NextGuess' = NextGuess + frontier_n
  <2>1. frontier_id \in Nat /\ frontier_n \in Nat /\ next_offset \in Nat
      BY <1>1 DEF TypeOK
  <2>2. frontier_n * (next_offset + 1) = frontier_n * next_offset + frontier_n
      BY <2>1
  <2>3. frontier_n * next_offset \in Nat
      BY <2>1
  <2>4. /\ frontier_id' = frontier_id /\ frontier_n' = frontier_n
        /\ next_offset' = next_offset + 1
      BY DEF Dispatch, Advance
  <2> QED BY <2>1, <2>2, <2>3, <2>4 DEF NextGuess
<1>6. (Got(i))' <=> Got(i)
    BY <1>4 DEF Got
<1>7. (Covered(i))'
  <2>1. CASE Got(i)
      BY <1>6, <2>1 DEF Covered
  <2>2. CASE \E y \in tasks : Brings(y, i)
      BY <1>3, <2>2 DEF Covered, Brings
  <2>3. CASE NextGuess < i /\ i <= NextGuess + PageSize
      BY <1>3, <2>3 DEF Covered, Brings
  <2>4. CASE /\ i > dispatched_max + PageSize /\ terminal_at = None
             /\ i > NextGuess + PageSize
    <3>1. i > dispatched_max' + PageSize
        BY <1>4, <2>4
    <3> QED BY <1>4, <2>4, <3>1 DEF Covered
  <2>5. /\ i > dispatched_max + PageSize /\ terminal_at = None
        => Got(i) \/ i > NextGuess
      BY DEF BoundsOK
  <2> QED BY <1>1, <1>2, <2>1, <2>2, <2>3, <2>4, <2>5 DEF Covered
<1>8. (BoundsOK(i))'
  <2>1. terminal_at' # None /\ i > terminal_at' => (Got(i))'
      BY <1>4, <1>6 DEF BoundsOK
  <2>2. i > dispatched_max' + PageSize => i > NextGuess'
    <3>1. dispatched_max' \in Nat /\ NextGuess <= dispatched_max'
        BY <1>4
    <3>2. \A d, g, f, k \in Nat : g <= d /\ f <= PageSize /\ k > d + PageSize => k > g + f
        BY <1>2
    <3>3. i > dispatched_max' + PageSize => i > NextGuess + frontier_n
        BY <1>1, <1>2, <3>1, <3>2
    <3> QED BY <1>5, <3>3
  <2> QED BY <2>1, <2>2 DEF BoundsOK
<1> QED BY <1>7, <1>8

\* An answer to a guess holds the lasting rows that it was to bring.
LEMMA RespondCovers ==
    ASSUME Shape, NEW x \in tasks, Respond(x) \/ RespondError(x), UNCHANGED initial,
           NEW i \in Lasting, Covered(i), BoundsOK(i)
    PROVE  (Covered(i))' /\ (BoundsOK(i))'
<1>1. /\ TypeOK /\ TasksInv /\ ServerInv /\ ServerType /\ pc = "guess"
      /\ x.guess \in Nat /\ x.status = "running" /\ i \in rows
    BY ServerTyped DEF Shape, Respond, RespondError, Lasting, TypeOK
<1>2. PICK z \in TaskType :
          /\ tasks' = (tasks \ {x}) \cup {z}
          /\ z.guess = x.guess
          /\ \/ /\ z.status = "served"
                /\ z.page = Page(x.guess) /\ z.next = Link(x.guess)
             \/ z.status = "error"
    BY <1>1, RespondTasks
<1>3. UNCHANGED <<results, guess, initial>>
    BY DEF Respond, RespondError
<1>4. CanDispatch => CanDispatch'
  <2>1. /\ Cardinality(tasks') <= Cardinality(tasks)
        /\ Cardinality(tasks') \in Nat /\ Cardinality(tasks) \in Nat
      BY <1>1, <1>2, ReplacedTask DEF TasksInv
  <2> QED BY <1>3, <2>1, SizesAssumption DEF CanDispatch, NextGuess, guess
<1>5. (BoundsOK(i))'
    BY <1>3 DEF BoundsOK, Got, NextGuess, guess
<1>6. ASSUME NEW y \in tasks, Brings(y, i) PROVE \E w \in tasks' : Brings(w, i)
  <2>1. CASE y # x
      BY <1>2, <1>6, <2>1
  <2>2. CASE y = x
    <3>1. i \in Page(x.guess)
        BY <1>1, <1>6, <2>2, NextIdsOnPage DEF Brings
    <3>2. Brings(z, i)
        BY <1>2, <3>1 DEF Brings
    <3> QED BY <1>2, <3>2
  <2> QED BY <2>1, <2>2
<1>7. (Covered(i))'
  <2>1. CASE \E y \in tasks : Brings(y, i)
    <3>1. PICK w \in tasks' : Brings(w, i)
        BY <1>6, <2>1
    <3> QED BY <3>1 DEF Covered, Brings
  <2>2. CASE ~ \E y \in tasks : Brings(y, i)
      BY <1>3, <1>4, <2>2 DEF Covered, Got, NextGuess, guess
  <2> QED BY <2>1, <2>2
<1> QED BY <1>5, <1>7

\* A join merges what its answer holds; a row that another guess was to bring is
\* still to be brought, unless that guess was redundant and running.
LEMMA JoinCovers ==
    ASSUME Shape, NEW x \in tasks, Joined(x), Merge(x.page \ trimmed), UNCHANGED initial,
           NEW R, tasks' = Rest(x, R), UNCHANGED dispatched_max, NEW i \in Lasting
    PROVE  /\ x.guess \in Nat /\ x.guess > 0 /\ x.guess <= dispatched_max /\ x.next \in Nat
           /\ Cardinality(tasks') \in Nat /\ Cardinality(tasks') <= MaxGuesses
           /\ Got(i) => (Got(i))'
           /\ x.guess < i /\ (i <= x.next \/ x.next = None) => (Got(i))'
           /\ \A y \in tasks : Brings(y, i) =>
                  \/ (Got(i))'
                  \/ \E z \in tasks' : Brings(z, i)
                  \/ y.guess \in R /\ y.guess < i /\ i <= y.guess + PageSize
<1>1. /\ TypeOK /\ TasksInv /\ ResultsInv /\ pc = "guess" /\ x.status = "served"
      /\ x \in TaskType /\ tasks \subseteq TaskType /\ i \in Ids /\ i \notin trimmed
    BY DEF Shape, Joined, Lasting, TypeOK, TaskType
<1>2. TaskOK(x) /\ AnswerOK(x)
    BY <1>1 DEF TasksInv, TaskOK
<1>3. /\ x.guess \in Nat /\ x.guess > 0 /\ x.guess <= dispatched_max /\ x.next \in Nat
    BY <1>1, <1>2 DEF TaskOK, TaskType
<1>4. /\ Cardinality(tasks') \in Nat /\ Cardinality(tasks') <= Cardinality(tasks) - 1
      /\ \A y \in tasks \ {x} : \E z \in tasks' :
            /\ z.guess = y.guess /\ z.status = y.status
            /\ z.page = y.page /\ z.next = y.next
            /\ z.aborted => y.aborted \/ y.guess \in R
    BY <1>1, RestTasks DEF TasksInv
<1>5. Cardinality(tasks') <= MaxGuesses
    BY <1>1, <1>4, SizesAssumption, FS_CardinalityType DEF TasksInv
<1>6. /\ initial[i] \in Nat /\ results[i] \in Nat
      /\ results'[i] \in {results[i], results[i] + 1}
      /\ i \in x.page => results'[i] > 0
  <2>1. x.page \ trimmed \in SUBSET Ids
      BY <1>1, AnswerRows
  <2>2. \A j \in Ids : results'[j] = results[j] \/ (/\ j \in x.page \ trimmed
                                                  /\ results'[j] = results[j] + 1)
      BY <1>1, <2>1, MergeType
  <2>3. \A j \in Ids : j \in x.page \ trimmed => results'[j] > 0
      BY <1>1, <2>1, MergeType
  <2> QED BY <1>1, <2>2, <2>3 DEF TypeOK, ResultsInv
<1>7. Got(i) => (Got(i))'
    BY <1>6 DEF Got
<1>8. i \in x.page => (Got(i))'
    BY <1>6 DEF Got
<1>9. x.guess < i /\ (i <= x.next \/ x.next = None) => (Got(i))'
    BY <1>2, <1>8 DEF AnswerOK
<1>10. ASSUME NEW y \in tasks, Brings(y, i)
       PROVE  \/ (Got(i))'
              \/ \E z \in tasks' : Brings(z, i)
              \/ y.guess \in R /\ y.guess < i /\ i <= y.guess + PageSize
  <2>1. CASE y = x
      BY <1>1, <1>8, <1>10, <2>1 DEF Brings
  <2>2. CASE y # x
    <3>1. PICK z \in tasks' :
            /\ z.guess = y.guess /\ z.status = y.status
            /\ z.page = y.page /\ z.next = y.next
            /\ z.aborted => y.aborted \/ y.guess \in R
        BY <1>4, <2>2
    <3> QED BY <1>10, <3>1 DEF Brings
  <2> QED BY <2>1, <2>2
<1> QED BY <1>3, <1>4, <1>5, <1>7, <1>9, <1>10

\* A page that ends where it was expected to cancels nothing.
LEMMA ExpectedCovers ==
    ASSUME Shape, NEW x \in tasks, JoinExpected(x), UNCHANGED initial,
           NEW i \in Lasting, Covered(i), BoundsOK(i)
    PROVE  (Covered(i))' /\ (BoundsOK(i))'
<1>1. /\ Joined(x) /\ Merge(x.page \ trimmed) /\ tasks' = Rest(x, {})
      /\ UNCHANGED guess /\ ~CanDispatch
    BY DEF JoinExpected, Joined
<1>2. /\ Got(i) => (Got(i))'
      /\ \A y \in tasks : Brings(y, i) => (Got(i))' \/ \E z \in tasks' : Brings(z, i)
    BY <1>1, JoinCovers DEF guess
<1>3. (BoundsOK(i))'
    BY <1>1, <1>2 DEF BoundsOK, NextGuess, guess
<1>4. (Covered(i))'
  <2>1. CASE \E y \in tasks : Brings(y, i)
      BY <1>2, <2>1 DEF Covered, Brings
  <2>2. CASE ~ \E y \in tasks : Brings(y, i)
      BY <1>1, <1>2, <2>2 DEF Covered, guess
  <2> QED BY <2>1, <2>2
<1> QED BY <1>3, <1>4

\* A page that swallowed guesses: what they were to bring is on it, or follows
\* its link and will be dispatched again, or lies past the end.
LEMMA RegroupCovers ==
    ASSUME Shape, NEW x \in tasks, JoinRegroup(x), UNCHANGED initial,
           NEW i \in Lasting, Covered(i), BoundsOK(i)
    PROVE  (Covered(i))' /\ (BoundsOK(i))'
<1> DEFINE R == {id \in Guesses : Swallowed(x, id)}
<1>1. /\ Joined(x) /\ Merge(x.page \ trimmed) /\ tasks' = Rest(x, R)
      /\ UNCHANGED <<dispatched_max, terminal_at>> /\ ~CanDispatch /\ x.next # None
      /\ frontier_id' = x.next /\ frontier_n' = NewStep(x) /\ next_offset' = 0
    BY DEF JoinRegroup, Joined, IsEnd, Readable
<1>2. TypeOK /\ TasksInv /\ pc = "guess" /\ x.status = "served" /\ i \in Nat
    BY <1>1, ListsAssumption DEF Shape, Joined, Lasting, TypeOK
<1>3. /\ x.guess \in Nat /\ x.guess <= dispatched_max /\ x.next \in Nat
      /\ Cardinality(tasks') \in Nat /\ Cardinality(tasks') <= MaxGuesses
      /\ Got(i) => (Got(i))'
      /\ x.guess < i /\ i <= x.next => (Got(i))'
      /\ \A y \in tasks : Brings(y, i) =>
             \/ (Got(i))'
             \/ \E z \in tasks' : Brings(z, i)
             \/ y.guess \in R /\ y.guess < i /\ i <= y.guess + PageSize
    BY <1>1, JoinCovers
<1>4. NextGuess' = x.next
  <2>1. NewStep(x) \in Nat
      BY <1>2, AnswerRows
  <2>2. NewStep(x) * 0 = 0
      BY <2>1
  <2> QED BY <1>1, <1>3, <2>2 DEF NextGuess
<1>5. /\ dispatched_max \in Nat /\ frontier_n \in Nat /\ PageSize \in Nat
      /\ terminal_at \in Nat
    BY <1>2, SizesAssumption DEF TypeOK
<1>6. (BoundsOK(i))'
  <2>1. terminal_at' # None /\ i > terminal_at' => (Got(i))'
      BY <1>1, <1>3 DEF BoundsOK
  <2>2. i > dispatched_max + PageSize => (Got(i))' \/ i > x.next
      BY <1>2, <1>3, <1>5
  <2> QED BY <1>1, <1>4, <2>1, <2>2 DEF BoundsOK
<1>7. ASSUME NEW y \in tasks, Brings(y, i) PROVE (Covered(i))'
  <2>1. CASE (Got(i))'
      BY <2>1 DEF Covered
  <2>2. CASE \E z \in tasks' : Brings(z, i)
      BY <2>2 DEF Covered, Brings
  <2>3. CASE ~(Got(i))' /\ y.guess \in R /\ y.guess < i /\ i <= y.guess + PageSize
    <3>1. x.guess < y.guess /\ y.guess < x.next - frontier_n /\ y.guess \in Nat
        BY <1>2, <1>7, <2>3 DEF Swallowed, TypeOK
    <3>2. i > x.next
        BY <1>2, <1>3, <2>3, <3>1
    <3>3. i <= x.next + PageSize
        BY <1>2, <1>3, <1>5, <2>3, <3>1
    <3>4. terminal_at = None \/ x.next <= terminal_at
        BY <1>2, <1>3, <1>5, <2>3, <3>2 DEF BoundsOK
    <3>5. CanDispatch'
        BY <1>1, <1>3, <1>4, <3>4 DEF CanDispatch
    <3> QED BY <1>4, <3>2, <3>3, <3>5 DEF Covered
  <2> QED BY <1>3, <1>7, <2>1, <2>2, <2>3
<1>8. (Covered(i))'
  <2>1. CASE ~ \E y \in tasks : Brings(y, i)
      BY <1>1, <1>3, <2>1 DEF Covered
  <2> QED BY <1>7, <2>1
<1> QED BY <1>6, <1>8

\* The last page: what the guesses behind it were to bring has been returned.
LEMMA TerminalCovers ==
    ASSUME Shape, TokensReadable, NEW x \in tasks, JoinTerminal(x), UNCHANGED initial,
           NEW i \in Lasting, Covered(i), BoundsOK(i)
    PROVE  (Covered(i))' /\ (BoundsOK(i))'
<1> DEFINE R == {id \in Guesses : id > terminal_at'}
<1>1. /\ Joined(x) /\ Merge(x.page \ trimmed) /\ tasks' = Rest(x, R) /\ ~CanDispatch
      /\ UNCHANGED <<frontier_id, frontier_n, next_offset, dispatched_max>>
      /\ terminal_at' = Boundary(x.guess)
    BY DEF JoinTerminal, Joined
<1>2. x.next = None
    BY <1>1 DEF JoinTerminal, IsEnd, TokensReadable, Joined
<1>3. /\ TypeOK /\ terminal_at \in Nat /\ dispatched_max \in Nat /\ PageSize \in Nat
      /\ i \in Nat
    BY ListsAssumption, SizesAssumption DEF Shape, Lasting, TypeOK
<1>4. /\ x.guess \in Nat /\ x.guess > 0 /\ x.guess <= dispatched_max
      /\ Got(i) => (Got(i))'
      /\ x.guess < i => (Got(i))'
      /\ \A y \in tasks : Brings(y, i) =>
             \/ (Got(i))'
             \/ \E z \in tasks' : Brings(z, i)
             \/ y.guess \in R /\ y.guess < i /\ i <= y.guess + PageSize
    BY <1>1, <1>2, JoinCovers
<1>5. /\ terminal_at' \in Nat /\ terminal_at' # None
      /\ terminal_at' = x.guess \/ (terminal_at # None /\ terminal_at' = terminal_at)
    BY <1>1, <1>3, <1>4 DEF Boundary, MinOf, None
<1>6. i > terminal_at' => (Got(i))'
    BY <1>4, <1>5 DEF BoundsOK
<1>7. (BoundsOK(i))'
    BY <1>5, <1>6 DEF BoundsOK
<1>8. ASSUME NEW y \in tasks, Brings(y, i) PROVE (Covered(i))'
  <2>1. CASE (Got(i))'
      BY <2>1 DEF Covered
  <2>2. CASE \E z \in tasks' : Brings(z, i)
      BY <2>2 DEF Covered, Brings
  <2>3. CASE y.guess \in R /\ y.guess < i
    <3>1. y.guess \in Nat /\ y.guess > terminal_at'
        BY <1>3, <1>8, <2>3 DEF TypeOK
    <3> QED BY <1>3, <1>5, <1>6, <2>1, <2>3, <3>1
  <2> QED BY <1>4, <1>8, <2>1, <2>2, <2>3
<1>9. (Covered(i))'
  <2>1. CASE Got(i)
      BY <1>4, <2>1 DEF Covered
  <2>2. CASE i > dispatched_max + PageSize
    <3>1. x.guess < i
        BY <1>3, <1>4, <2>2
    <3> QED BY <1>4, <3>1 DEF Covered
  <2> QED BY <1>1, <1>8, <2>1, <2>2 DEF Covered
<1> QED BY <1>7, <1>9

\* The first guesses start at the link of the page that was read last.
LEMMA GuessingCovers ==
    ASSUME Shape, ReadInv, ReadPage, UNCHANGED initial, pc' = "guess",
           NEW i \in Lasting, [DeferredNext]_deferredVars
    PROVE  (Covered(i))' /\ (BoundsOK(i))'
<1>1. /\ TypeOK /\ ServerInv /\ ResultsInv /\ pc \in Sequential
      /\ i \in Ids /\ i \in Nat /\ PageSize \in Nat
    BY ListsAssumption, SizesAssumption DEF Shape, ReadPage, Sequential, Lasting, TypeOK
<1>2. /\ frontier_id' = Link(token) /\ next_offset' = 0 /\ terminal_at' = None
      /\ dispatched_max' = Link(token) /\ frontier_n' = n' /\ tasks' = {}
    BY <1>1 DEF ReadPage, Continue, ResultsInv
<1>3. Link(token) \in Nat /\ n' \in Nat
    BY <1>1, ServerTyped, LinkOfPage, VisibleRows DEF ReadPage, TypeOK
<1>4. NextGuess' = Link(token)
  <2>1. \A k \in Nat : k * 0 = 0
      OBVIOUS
  <2> QED BY <1>2, <1>3, <2>1 DEF NextGuess
<1>5. i <= Link(token) => (Got(i))'
  <2>1. Got(i) => initial'[i] + results'[i] > 0
      BY <1>1, GotStays
  <2>2. i \in Visible(token) => results'[i] > 0 /\ results'[i] \in Nat /\ initial[i] \in Nat
      BY <1>1, VisibleRows, MergeType DEF ReadPage, ResultsInv
  <2> QED BY <1>1, <2>1, <2>2, ReadUpToLink DEF Got
<1>6. CanDispatch'
    BY <1>2, FS_EmptySet, SizesAssumption DEF CanDispatch
<1>7. (Covered(i))'
  <2>1. CASE i <= Link(token)
      BY <1>5, <2>1 DEF Covered
  <2>2. CASE i > Link(token) /\ i <= Link(token) + PageSize
      BY <1>4, <1>6, <2>2 DEF Covered
  <2>3. CASE i > Link(token) + PageSize
      BY <1>2, <2>3 DEF Covered
  <2> QED BY <1>1, <1>3, <2>1, <2>2, <2>3
<1>8. (BoundsOK(i))'
    BY <1>1, <1>2, <1>3, <1>4 DEF BoundsOK
<1> QED BY <1>7, <1>8

LEMMA GuessStep ==
    IndInv /\ TokensReadable /\ [DeferredNext]_deferredVars => GuessInv' /\ NothingUncovered'
<1> SUFFICES ASSUME IndInv, TokensReadable, [DeferredNext]_deferredVars, pc' = "guess",
                    NEW i \in Lasting'
             PROVE  (Covered(i))' /\ (BoundsOK(i))'
    BY DEF NothingUncovered, GuessInv, Covered, BoundsOK, Got
<1>1. /\ Shape /\ ReadInv /\ GuessInv /\ NothingUncovered
      /\ TypeOK /\ ServerInv
    BY DEF IndInv, Coverage, Shape
<1>2. i \in Lasting
    BY <1>1, ServerStep
<1>3. pc = "guess" => Covered(i) /\ BoundsOK(i)
    BY <1>1, <1>2, CoverageByRow
<1>4. CASE UNCHANGED <<pc, results, initial, guess, tasks>>
    BY <1>3, <1>4
       DEF Covered, BoundsOK, Got, Brings, CanDispatch, NextGuess, guess
<1>5. CASE Others /\ UNCHANGED initial
    BY <1>1, <1>4, <1>5, OthersStep
<1>6. CASE ReadInitial \/ ReadInitialFails \/ ReadFails \/ Finish
    BY <1>6 DEF ReadInitial, ReadInitialFails, ReadFails, Finish
<1>7. CASE ReadPage /\ UNCHANGED initial
    BY <1>1, <1>2, <1>7, GuessingCovers
<1>8. CASE Dispatch /\ UNCHANGED initial
    BY <1>1, <1>2, <1>3, <1>8, DispatchCovers DEF Dispatch
<1>9. ASSUME NEW x \in tasks, TaskStep(x), UNCHANGED initial
      PROVE  (Covered(i))' /\ (BoundsOK(i))'
  <2>1. pc = "guess"
      BY <1>9 DEF TaskStep, Respond, RespondError, JoinCancelled, JoinError,
                  JoinExpected, JoinRegroup, JoinTerminal, Joined
  <2>2. CASE Respond(x) \/ RespondError(x)
      BY <1>1, <1>2, <1>3, <1>9, <2>1, <2>2, RespondCovers
  <2>3. CASE JoinCancelled(x)
    <3>1. /\ tasks' = tasks \ {x} /\ x.aborted /\ x.status = "running"
          /\ UNCHANGED <<results, guess>> /\ ~CanDispatch
        BY <2>3 DEF JoinCancelled
    <3>2. \A y \in tasks : Brings(y, i) => y \in tasks'
        BY <3>1 DEF Brings
    <3>3. (BoundsOK(i))'
        BY <1>3, <1>9, <2>1, <3>1 DEF BoundsOK, Got, NextGuess, guess
    <3>4. CASE \E y \in tasks : Brings(y, i)
      <4>1. PICK y \in tasks' : Brings(y, i)
          BY <3>2, <3>4
      <4> QED BY <3>3, <4>1 DEF Covered, Brings
    <3>5. CASE ~ \E y \in tasks : Brings(y, i)
        BY <1>3, <1>9, <2>1, <3>1, <3>3, <3>5 DEF Covered, Got, guess
    <3> QED BY <3>4, <3>5
  <2>4. CASE JoinError(x)
      BY <2>4 DEF JoinError
  <2>5. CASE JoinExpected(x)
      BY <1>1, <1>2, <1>3, <1>9, <2>1, <2>5, ExpectedCovers
  <2>6. CASE JoinRegroup(x)
      BY <1>1, <1>2, <1>3, <1>9, <2>1, <2>6, RegroupCovers
  <2>7. CASE JoinTerminal(x)
      BY <1>1, <1>2, <1>3, <1>9, <2>1, <2>7, TerminalCovers
  <2> QED BY <1>9, <2>2, <2>3, <2>4, <2>5, <2>6, <2>7 DEF TaskStep
<1>10. CASE UNCHANGED deferredVars
    BY <1>4, <1>10 DEF deferredVars, vars
<1> QED BY <1>5, <1>6, <1>7, <1>8, <1>9, <1>10
       DEF DeferredNext, Call, Fetch, ReadInitialFails
-----------------------------------------------------------------------------
(* Theorems. *)

LEMMA ShapeInvariant == DeferredSpec => []Shape
<1>1. DeferredInit => Shape
    BY InitInv DEF IndInv
<1> QED BY <1>1, ShapeStep, PTL DEF DeferredSpec

LEMMA Invariant == DeferredSpec /\ []TokensReadable => []IndInv
<1>1. IndInv /\ TokensReadable /\ [DeferredNext]_deferredVars => IndInv'
    BY ShapeStep, ReadStep, GuessStep DEF IndInv, Coverage
<1> QED BY <1>1, InitInv, PTL DEF DeferredSpec

\* The state keeps its type: the step of the guesses is never 0, whatever the
\* pages hold, and the numbers that tell tasks apart do not run out.
THEOREM TypeCorrect == DeferredSpec => []TypeOK
<1>1. Shape => TypeOK
    BY DEF Shape
<1> QED BY <1>1, ShapeInvariant, PTL

\* fetch_all's dispatch and cancellation: while guessing, every lasting row has
\* been returned, is to be brought by a guess that is not cancelled, or lies
\* ahead of the guesses and before the end, as long as the links that guesses
\* get can be read.
THEOREM NothingIsUncovered == DeferredSpec /\ []TokensReadable => []NothingUncovered
<1>1. IndInv => NothingUncovered
    BY DEF IndInv, Coverage
<1> QED BY <1>1, Invariant, PTL

\* get and get_items, with and without max_wait: a finished call has returned
\* every lasting row, once if the rows have ids, as long as the links that
\* guesses get can be read.
THEOREM ResultsComplete == DeferredSpec /\ []TokensReadable => []CompleteResult
<1>1. IndInv => CompleteResult
  <2> SUFFICES ASSUME IndInv, pc = "done", NEW i \in Lasting
               PROVE  initial[i] + results[i] = 1 \/ (~keyed /\ initial[i] + results[i] > 1)
      BY DEF CompleteResult
  <2>1. i \in Ids /\ TypeOK /\ ResultsInv /\ ReadInv
      BY DEF IndInv, Shape, Coverage, Lasting, TypeOK
  <2>2. initial[i] \in Nat /\ results[i] \in Nat
      BY <2>1 DEF TypeOK, ResultsInv
  <2>3. initial[i] + results[i] > 0 /\ (keyed => initial[i] + results[i] <= 1)
      BY <2>1 DEF ReadInv, ResultsInv, Got
  <2>4. keyed \in BOOLEAN
      BY <2>1 DEF TypeOK
  <2> QED BY <2>2, <2>3, <2>4
<1> QED BY <1>1, Invariant, PTL

\* No row is ever returned twice while rows have ids, whatever the links are:
\* neither by fetch_deferred and fetch_all together nor by two guesses.
THEOREM NoRowTwice ==
    DeferredSpec => [](keyed => \A i \in Ids : initial[i] + results[i] <= 1)
<1>1. Shape => (keyed => \A i \in Ids : initial[i] + results[i] <= 1)
    BY DEF Shape, ResultsInv
<1> QED BY <1>1, ShapeInvariant, PTL

\* Where the server writes every token in a form that can be read, the
\* hypothesis of the theorems above holds.
THEOREM PlainListsComplete ==
    (\A list \in Lists : list.opaque = {}) /\ DeferredSpec => []CompleteResult
<1>1. (\A list \in Lists : list.opaque = {}) /\ DeferredInit => opaque = {}
    BY DEF DeferredInit, Start
<1>2. Shape /\ opaque = {} /\ [DeferredNext]_deferredVars => (opaque = {})'
  <2> SUFFICES ASSUME Shape, opaque = {}, [DeferredNext]_deferredVars PROVE (opaque = {})'
      OBVIOUS
  <2>1. CASE Others
      BY <2>1, OthersStep DEF Shape
  <2> QED BY <2>1, CallStep DEF DeferredNext, deferredVars, vars, server
<1>3. opaque = {} => TokensReadable
    BY DEF TokensReadable, Readable
<1> QED BY <1>1, <1>2, <1>3, ShapeInvariant, ResultsComplete, PTL DEF DeferredSpec
=============================================================================
