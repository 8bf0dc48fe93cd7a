-------------------------- MODULE DeleteTreeProofs --------------------------
(***************************************************************************)
(* Theorems about DeleteTree, for every finite tree and whatever others    *)
(* add and remove: what a deletion takes with it unseen has been added     *)
(* meanwhile, it finds nothing missing that nobody has removed, and the    *)
(* folder itself goes last.                                                *)
(***************************************************************************)
EXTENDS DeleteTree, FiniteSetTheorems, SequenceTheorems, TLAPS

All == Nodes \cup {Root}

Walking == pc \in {"walk", "list"}
Over    == pc \in {"done", "failed"}

\* No folder of a sequence is in an earlier one, in a later one, in any other one.
ChildrenFirst(s) == \A k \in 1..Len(s), l \in 1..Len(s) : k < l => s[k] \notin Path(s[l])
ParentsBefore(s) == \A k \in 1..Len(s), l \in 1..Len(s) : k < l => s[l] \notin Path(s[k])
Apart(s)         == \A k \in 1..Len(s), l \in 1..Len(s) : k # l => s[k] \notin Path(s[l])

\* The folders still to walk are in none of the folders walked, and none of them
\* is in another one.
OrderInv ==
    /\ pc \in {"look", "delete_one"} => folders = <<>>
    /\ Walking =>
         /\ ParentsBefore(folders) /\ Apart(pending)
         /\ \A k \in 1..Len(folders), l \in 1..Len(pending) : pending[l] \notin Path(folders[k])
    /\ pc = "list" =>
         /\ \A k \in 1..Len(folders) : current \notin Path(folders[k])
         /\ \A l \in 1..Len(pending) : /\ pending[l] \notin Path(current)
                                      /\ current \notin Path(pending[l])
         /\ files # None => \A x \in files : Parent[x] = current
         /\ children # None => \A x \in children : Parent[x] = current
    /\ pc = "delete" => ChildrenFirst(folders)

\* What exists is in a folder that exists.
TreeInv == \A x \in there \cap Nodes : Parent[x] \in there

\* What the call is going to ask for or to delete is there until others remove it.
ThereInv ==
    removals = 0 =>
        /\ Walking \/ pc = "delete" => \A k \in 1..Len(folders) : folders[k] \in there
        /\ Walking => \A l \in 1..Len(pending) : pending[l] \in there
        /\ pc = "delete_one" => Root \in there
        /\ pc = "list" => /\ current \in there
                          /\ files # None => files \subseteq there
                          /\ children # None => children \subseteq there
        /\ reason = "missing" => Root \notin there /\ folders = <<>> /\ ~op.ignore_missing

\* A call has a reason once it has failed.
ReasonInv == reason = "none" \/ pc = "failed"

\* The nodes that the call will still see before a DELETE could take them: those
\* that it has listed or is going to list.
Planned(y) ==
    \/ pc = "look" \/ Over
    \/ \E k \in 1..Len(folders) : y = folders[k]
    \/ Walking /\ \E l \in 1..Len(pending) : pending[l] \in Path(y)
    \/ /\ pc = "list"
       /\ \/ y = current
          \/ y \in Files /\ Parent[y] = current /\ (files = None \/ y \in files)
          \/ \E c \in Path(y) \cap Folders :
                 Parent[c] = current /\ (children = None \/ c \in children)

Unseen == {y \in there \cap Nodes : ~Planned(y)}

\* What has been taken unseen, and what could be, has been added by others.
SweptInv == Cardinality(swept \cup Unseen) <= adds

TreeIndInv ==
    TypeOK /\ OrderInv /\ TreeInv /\ ThereInv /\ ReasonInv /\ SweptInv
-----------------------------------------------------------------------------
(* Paths. *)

LEMMA PathHas ==
    ASSUME NEW x \in All
    PROVE  /\ x \in Path(x) /\ Path(x) \subseteq All
           /\ \A z \in Path(x) \ {Root} : Parent[z] \in Path(x)
<1>1. Path(x) = {y \in All :
                    \A s \in SUBSET All :
                        x \in s /\ (\A z \in s \ {Root} : Parent[z] \in s) => y \in s}
    BY DEF Path, Paths, All
<1>2. ASSUME NEW z \in Path(x) \ {Root} PROVE Parent[z] \in Path(x)
  <2>1. Parent[z] \in All
      BY <1>1, <1>2, TreeAssumption DEF All, Nodes
  <2>2. ASSUME NEW s \in SUBSET All, x \in s, \A w \in s \ {Root} : Parent[w] \in s
        PROVE  Parent[z] \in s
    <3>1. z \in s
        BY <1>1, <1>2, <2>2
    <3> QED BY <1>2, <2>2, <3>1
  <2> QED BY <1>1, <2>1, <2>2
<1> QED BY <1>1, <1>2

LEMMA PathLeast ==
    ASSUME NEW x \in All, NEW s \in SUBSET All, x \in s,
           \A z \in s \ {Root} : Parent[z] \in s
    PROVE  Path(x) \subseteq s
    BY DEF Path, Paths, All

LEMMA PathRoot == Path(Root) = {Root}
<1>1. Root \in All /\ {Root} \in SUBSET All
    BY DEF All
<1>2. Path(Root) \subseteq {Root}
    BY <1>1, PathLeast
<1> QED BY <1>1, <1>2, PathHas

LEMMA RootOnPath == \A x \in All : Root \in Path(x)
    BY TreeAssumption, PathRoot DEF All

LEMMA PathWithin ==
    ASSUME NEW x \in All, NEW y \in Path(x)
    PROVE  y \in All /\ Path(y) \subseteq Path(x)
<1>1. y \in All /\ Path(x) \in SUBSET All /\ \A z \in Path(x) \ {Root} : Parent[z] \in Path(x)
    BY PathHas
<1> QED BY <1>1, PathLeast

LEMMA ParentType == \A x \in Nodes : Parent[x] \in Folders \cup {Root} /\ Parent[x] \in All
    BY TreeAssumption DEF All, Nodes

\* A path is a node followed by the path of its folder.
LEMMA PathUp ==
    ASSUME NEW x \in Nodes
    PROVE  Path(x) = {x} \cup Path(Parent[x])
<1>1. x \in All /\ Parent[x] \in All /\ x # Root
    BY ParentType, TreeAssumption DEF All
<1>2. Parent[x] \in Path(x)
    BY <1>1, PathHas
<1>3. {x} \cup Path(Parent[x]) \subseteq Path(x)
    BY <1>1, <1>2, PathHas, PathWithin
<1>4. Path(x) \subseteq {x} \cup Path(Parent[x])
  <2> DEFINE s == {x} \cup Path(Parent[x])
  <2>1. s \in SUBSET All /\ x \in s
      BY <1>1, PathHas
  <2>2. \A z \in s \ {Root} : Parent[z] \in s
      BY <1>1, PathHas
  <2> QED BY <1>1, <2>1, <2>2, PathLeast
<1> QED BY <1>3, <1>4

\* No folder is below itself.
LEMMA NoCycle ==
    ASSUME NEW x \in Nodes
    PROVE  x \notin Path(Parent[x])
<1> SUFFICES ASSUME x \in Path(Parent[x]) PROVE FALSE
    OBVIOUS
<1> DEFINE s == {z \in Path(x) : x \in Path(z)}
<1>1. x \in All /\ x # Root /\ Path(x) \subseteq All
    BY PathHas, TreeAssumption DEF All
<1>2. s \in SUBSET All /\ x \in s
    BY <1>1, PathHas
<1>3. ASSUME NEW z \in s \ {Root} PROVE Parent[z] \in s
  <2>1. z \in Nodes /\ Parent[z] \in Path(x)
      BY <1>1, <1>3, PathHas DEF All
  <2>2. x \in Path(Parent[z])
    <3>1. CASE z = x
        BY <3>1
    <3>2. CASE z # x
        BY <1>3, <2>1, <3>2, PathUp
    <3> QED BY <3>1, <3>2
  <2> QED BY <2>1, <2>2
<1>4. Root \in s
    BY <1>1, <1>2, <1>3, PathLeast, RootOnPath
<1> QED BY <1>1, <1>4, PathRoot

\* On the way down from a folder to a node below it is a member of the folder.
LEMMA Toward ==
    ASSUME NEW y \in All, NEW f \in Path(y), y # f
    PROVE  \E c \in Path(y) \cap Nodes : Parent[c] = f
<1> DEFINE s == {z \in Path(y) : z = y \/ \E c \in Path(y) \cap Nodes : Parent[c] = z}
<1>1. s \in SUBSET All /\ y \in s
    BY PathHas
<1>2. ASSUME NEW z \in s \ {Root} PROVE Parent[z] \in s
  <2>1. z \in Path(y) \cap Nodes /\ Parent[z] \in Path(y)
      BY <1>2, PathHas DEF All
  <2> QED BY <2>1
<1>3. Path(y) \subseteq s
    BY <1>1, <1>2, PathLeast
<1> QED BY <1>3

\* Nothing is in a file.
LEMMA FileIsLeaf ==
    ASSUME NEW y \in All, NEW x \in Files, x \in Path(y)
    PROVE  y = x
    BY Toward, ParentType, TreeAssumption DEF Nodes

\* Where the folder of each node that exists exists, the whole path does.
LEMMA PathExists ==
    ASSUME there \subseteq All, TreeInv, NEW y \in there
    PROVE  Path(y) \subseteq there
<1>1. \A z \in there \ {Root} : Parent[z] \in there
    BY DEF TreeInv, All
<1> QED BY <1>1, PathLeast
-----------------------------------------------------------------------------
(* Sequences. *)

\* The set that a sequence of folders is made of, each of them once.
LEMMA SetAsSequence ==
    ASSUME NEW S, IsFiniteSet(S)
    PROVE  /\ SetToSeq(S) \in Seq(S)
           /\ \A x \in S : \E k \in 1..Len(SetToSeq(S)) : SetToSeq(S)[k] = x
           /\ \A k, l \in 1..Len(SetToSeq(S)) : SetToSeq(S)[k] = SetToSeq(S)[l] => k = l
<1> DEFINE c == Cardinality(S)
<1>1. c \in Nat /\ Bijection(1..c, S) # {}
    BY FS_CardinalityType DEF ExistsBijection
<1>2. \E f \in [1..c -> S] : IsInjective(f)
    BY <1>1 DEF Bijection, Injection
<1>3. SetToSeq(S) \in [1..c -> S] /\ IsInjective(SetToSeq(S))
    BY <1>2 DEF SetToSeq
<1>4. SetToSeq(S) \in Injection(1..c, S)
    BY <1>3 DEF Injection
<1>5. IsFiniteSet(1..c) /\ Cardinality(1..c) = c
  <2>1. 1 \in Int /\ c \in Int
      BY <1>1
  <2>2. IsFiniteSet(1..c) /\ Cardinality(1..c) = IF 1 > c THEN 0 ELSE c - 1 + 1
      BY <2>1, FS_Interval
  <2> QED BY <1>1, <2>2
<1>6. SetToSeq(S) \in Surjection(1..c, S)
    BY <1>4, <1>5, FS_Injection
<1>7. SetToSeq(S) \in Seq(S) /\ Len(SetToSeq(S)) = c
    BY <1>1, <1>3, SeqDef, LenProperties
<1> QED BY <1>3, <1>6, <1>7 DEF Surjection, IsInjective

LEMMA LastAndFront ==
    ASSUME NEW S, NEW s \in Seq(S), s # <<>>
    PROVE  /\ Len(s) \in Nat \ {0} /\ Last(s) = s[Len(s)] /\ Last(s) \in S
           /\ Front(s) \in Seq(S) /\ Len(Front(s)) = Len(s) - 1
           /\ \A k \in 1..(Len(s) - 1) : Front(s)[k] = s[k]
<1>1. Len(s) \in Nat \ {0} /\ \A k \in 1..Len(s) : s[k] \in S
    BY LenProperties, EmptySeq, ElementOfSeq
<1>2. Last(s) = s[Len(s)] /\ Front(s) = SubSeq(s, 1, Len(s) - 1)
    BY DEF Last, Front
<1>3. PICK n \in Nat : Len(s) = n + 1
  <2>1. Len(s) - 1 \in Nat /\ Len(s) = (Len(s) - 1) + 1
      BY <1>1
  <2> QED BY <2>1
<1>4. Front(s) = SubSeq(s, 1, n) /\ Len(s) - 1 = n
    BY <1>2, <1>3
<1>5. SubSeq(s, 1, n) = [k \in 1..n |-> s[k]]
    BY <1>3, SubSeqRestrict DEF Restrict
<1> DEFINE f == [k \in 1..n |-> s[k]]
<1>6. f \in [1..n -> S] /\ \A k \in 1..n : f[k] = s[k]
    BY <1>1, <1>3
<1> HIDE DEF f
<1>7. f \in Seq(S) /\ Len(f) = n
    BY <1>3, <1>6, SeqDef, LenProperties
<1>8. Last(s) \in S
    BY <1>1, <1>2
<1> QED BY <1>1, <1>2, <1>4, <1>5, <1>6, <1>7, <1>8 DEF f

LEMMA HeadAndTail ==
    ASSUME NEW S, NEW s \in Seq(S), s # <<>>
    PROVE  /\ Len(s) \in Nat \ {0} /\ Head(s) = s[1] /\ Head(s) \in S
           /\ Tail(s) \in Seq(S) /\ Len(Tail(s)) = Len(s) - 1
           /\ \A k \in 1..(Len(s) - 1) : Tail(s)[k] = s[k + 1]
<1>1. Len(s) \in Nat \ {0} /\ \A k \in 1..Len(s) : s[k] \in S
    BY LenProperties, EmptySeq, ElementOfSeq
<1> QED BY <1>1, HeadTailProperties

LEMMA Appended ==
    ASSUME NEW S, NEW s \in Seq(S), NEW e \in S
    PROVE  /\ Len(s) \in Nat
           /\ Append(s, e) \in Seq(S) /\ Len(Append(s, e)) = Len(s) + 1
           /\ \A k \in 1..Len(s) : Append(s, e)[k] = s[k]
           /\ Append(s, e)[Len(s) + 1] = e
    BY AppendProperties, LenProperties

LEMMA Reversed ==
    ASSUME NEW S, NEW s \in Seq(S)
    PROVE  /\ Len(s) \in Nat
           /\ Reverse(s) \in Seq(S) /\ Len(Reverse(s)) = Len(s)
           /\ \A k \in 1..Len(s) : Reverse(s)[k] = s[Len(s) + 1 - k]
<1>1. Len(s) \in Nat /\ \A k \in 1..Len(s) : s[k] \in S
    BY LenProperties, ElementOfSeq
<1>2. Reverse(s) = [k \in 1..Len(s) |-> s[(Len(s) - k) + 1]]
    BY DEF Reverse
<1>3. Reverse(s) \in [1..Len(s) -> S]
    BY <1>1, <1>2
<1>4. Reverse(s) \in Seq(S) /\ Len(Reverse(s)) = Len(s)
    BY <1>1, <1>3, SeqDef, LenProperties
<1>5. ASSUME NEW k \in 1..Len(s) PROVE Reverse(s)[k] = s[Len(s) + 1 - k]
    BY <1>1, <1>2
<1> QED BY <1>1, <1>4, <1>5

\* A listing is put on top of the folders still to walk, each of its folders once.
LEMMA Pushed ==
    ASSUME TypeOK, children # None
    PROVE  /\ Len(pending) \in Nat /\ Len(Push(pending)) \in Nat
           /\ Len(pending) <= Len(Push(pending))
           /\ Push(pending) \in Seq(Folders \cup {Root})
           /\ \A k \in 1..Len(pending) : Push(pending)[k] = pending[k]
           /\ \A k \in 1..Len(Push(pending)) : k > Len(pending) => Push(pending)[k] \in children
           /\ \A c \in children : \E k \in 1..Len(Push(pending)) : Push(pending)[k] = c
           /\ \A k, l \in 1..Len(Push(pending)) :
                 k > Len(pending) /\ l > Len(pending) /\ Push(pending)[k] = Push(pending)[l] => k = l
<1> DEFINE t == SetToSeq(children)
<1>1. children \subseteq Folders /\ IsFiniteSet(children)
    BY TreeAssumption, FS_Subset DEF TypeOK, Nodes
<1>2. /\ t \in Seq(children)
      /\ \A x \in children : \E k \in 1..Len(t) : t[k] = x
      /\ \A k, l \in 1..Len(t) : t[k] = t[l] => k = l
    BY <1>1, SetAsSequence
<1>3. t \in Seq(Folders \cup {Root}) /\ pending \in Seq(Folders \cup {Root})
  <2>1. /\ \A k \in 1..Len(t) : t[k] \in Folders \cup {Root}
        /\ Len(t) \in Nat /\ t \in [1..Len(t) -> children]
      BY <1>1, <1>2, LenProperties, ElementOfSeq
  <2>2. t \in [1..Len(t) -> Folders \cup {Root}]
      BY <2>1
  <2> QED BY <2>1, <2>2, SeqDef DEF TypeOK
<1>4. Push(pending) = pending \o t
    BY DEF Push
<1> HIDE DEF t
<1>5. /\ pending \o t \in Seq(Folders \cup {Root})
      /\ Len(pending) \in Nat /\ Len(t) \in Nat /\ Len(pending \o t) = Len(pending) + Len(t)
      /\ \A k \in 1..(Len(pending) + Len(t)) :
            (pending \o t)[k] = IF k <= Len(pending) THEN pending[k] ELSE t[k - Len(pending)]
    BY <1>3, ConcatProperties, LenProperties
<1>6. \A k \in 1..Len(t) : t[k] \in children
    BY <1>2, ElementOfSeq
<1>7. ASSUME NEW c \in children PROVE \E k \in 1..Len(pending \o t) : (pending \o t)[k] = c
  <2>1. PICK k \in 1..Len(t) : t[k] = c
      BY <1>2
  <2>2. /\ k + Len(pending) \in 1..(Len(pending) + Len(t))
        /\ ~(k + Len(pending) <= Len(pending)) /\ k + Len(pending) - Len(pending) = k
      BY <1>5
  <2> QED BY <1>5, <2>1, <2>2
<1>8. ASSUME NEW k \in 1..Len(pending \o t), k > Len(pending)
      PROVE  k - Len(pending) \in 1..Len(t) /\ (pending \o t)[k] = t[k - Len(pending)]
    BY <1>5, <1>8
<1>9. ASSUME NEW k \in 1..Len(pending \o t), NEW l \in 1..Len(pending \o t),
             k > Len(pending), l > Len(pending), (pending \o t)[k] = (pending \o t)[l]
      PROVE  k = l
  <2>0. /\ k - Len(pending) \in 1..Len(t) /\ (pending \o t)[k] = t[k - Len(pending)]
        /\ l - Len(pending) \in 1..Len(t) /\ (pending \o t)[l] = t[l - Len(pending)]
      BY <1>8, <1>9
  <2>1. k - Len(pending) = l - Len(pending)
    <3>1. t[k - Len(pending)] = t[l - Len(pending)]
        BY <1>9, <2>0
    <3> QED BY <1>2, <2>0, <3>1
  <2> QED BY <1>5, <2>1
<1>10. \A k \in 1..Len(pending) : (pending \o t)[k] = pending[k]
    BY <1>5
<1>11. Len(pending) <= Len(pending \o t) /\ Len(pending \o t) \in Nat
    BY <1>5
<1> QED BY <1>4, <1>5, <1>6, <1>7, <1>8, <1>9, <1>10, <1>11
-----------------------------------------------------------------------------
(* The invariant holds at first, and every step keeps it. *)

LEMMA InitIndInv == Init => TreeIndInv
<1> SUFFICES ASSUME Init PROVE TreeIndInv
    OBVIOUS
<1> USE DEF Init, Fresh
<1>1. there \subseteq All /\ TreeInv
  <2>1. CASE there = {}
      BY <2>1 DEF TreeInv
  <2>2. ASSUME NEW t \in Trees, there = t \cup {Root} PROVE there \subseteq All /\ TreeInv
    <3>1. there \cap Nodes \subseteq t
        BY <2>2, TreeAssumption DEF Trees
    <3> QED BY <2>2, <3>1 DEF Trees, TreeInv, All
  <2> QED BY <2>1, <2>2 DEF Worlds
<1>2. TypeOK
  <2>1. <<>> \in Seq(Folders \cup {Root})
      BY EmptySeq
  <2> QED BY <1>1, <2>1, ChangesAssumption DEF TypeOK, None, All
<1>3. OrderInv
    BY DEF OrderInv, Walking
<1>4. ThereInv /\ ReasonInv
    BY DEF ThereInv, ReasonInv, Walking
<1>5. SweptInv
  <2>1. swept \cup Unseen = {}
      BY DEF Unseen, Planned
  <2>2. Cardinality(swept \cup Unseen) = 0
      BY <2>1, FS_EmptySet
  <2> QED BY <2>2 DEF SweptInv
<1> QED BY <1>1, <1>2, <1>3, <1>4, <1>5 DEF TreeIndInv

LEMMA TypeStep == TypeOK /\ OrderInv /\ [Next]_vars => TypeOK'
<1> SUFFICES ASSUME TypeOK, OrderInv, [Next]_vars PROVE TypeOK'
    OBVIOUS
<1> USE ChangesAssumption
<1>1. \A f : Below(f) \subseteq there
    BY DEF Below
<1>2. ASSUME NEW f \in Folders \cup {Root}, DeleteFolder(f)
      PROVE  there' \subseteq Nodes \cup {Root} /\ swept' \subseteq Nodes
  <2>1. Root \in Below(f) => f = Root
    <3>1. f = Root \/ f \in Nodes
        BY DEF Nodes
    <3> QED BY <3>1, PathRoot DEF Below
  <2> QED BY <1>1, <1>2, <2>1 DEF TypeOK, DeleteFolder
<1>3. CASE Look
  <2>1. <<Root>> \in Seq(Folders \cup {Root})
      OBVIOUS
  <2> QED BY <1>3, <2>1 DEF Look, Fail, TypeOK, bounds
<1>4. CASE DeleteOne
    BY <1>2, <1>4 DEF DeleteOne, Fail, TypeOK, bounds
<1>5. CASE Walk
  <2>1. Last(pending) \in Folders \cup {Root} /\ Front(pending) \in Seq(Folders \cup {Root})
      BY <1>5, LastAndFront DEF Walk, TypeOK
  <2> QED BY <1>5, <2>1 DEF Walk, TypeOK, bounds
<1>6. CASE ListFiles
    BY <1>6 DEF ListFiles, Fail, TypeOK, bounds
<1>7. CASE ListFolders
    BY <1>7 DEF ListFolders, Fail, TypeOK, bounds
<1>8. CASE Descend
  <2>1. Push(pending) \in Seq(Folders \cup {Root})
      BY <1>8, Pushed DEF Descend, Listed
  <2>2. Append(folders, current) \in Seq(Folders \cup {Root})
      BY Appended DEF TypeOK
  <2> QED BY <1>8, <2>1, <2>2 DEF Descend, TypeOK, bounds
<1>9. CASE WalkedAll
    BY <1>9, Reversed DEF WalkedAll, DeletionOrder, TypeOK, bounds
<1>10. CASE DeleteNext
  <2>1. Head(folders) \in Folders \cup {Root} /\ Tail(folders) \in Seq(Folders \cup {Root})
      BY <1>10, HeadAndTail DEF DeleteNext, TypeOK
  <2> QED BY <1>2, <1>10, <2>1 DEF DeleteNext, Fail, TypeOK, bounds
<1>11. CASE Finish
    BY <1>11 DEF Finish, TypeOK, bounds
<1>12. ASSUME NEW x \in Files, DeleteFile(x) PROVE TypeOK'
  <2>1. files # None /\ files \subseteq Files
      BY <1>12 DEF DeleteFile, Listed, TypeOK
  <2> QED BY <1>12, <2>1 DEF DeleteFile, Fail, TypeOK, bounds
<1>13. CASE Fault
    BY <1>13 DEF Fault, Fail, TypeOK
<1>14. ASSUME NEW x \in Nodes, AddNode(x) PROVE TypeOK'
    BY <1>14 DEF AddNode, TypeOK, client
<1>15. ASSUME NEW x \in Nodes \cup {Root}, RemoveNode(x) PROVE TypeOK'
    BY <1>1, <1>15 DEF RemoveNode, TypeOK, client
<1>16. CASE UNCHANGED vars
    BY <1>16 DEF vars, client, bounds, TypeOK
<1> QED BY <1>3, <1>4, <1>5, <1>6, <1>7, <1>8, <1>9, <1>10, <1>11, <1>12, <1>13, <1>14, <1>15, <1>16
        DEF Next, Progress, OthersChange

LEMMA ReasonStep == ReasonInv /\ [Next]_vars => ReasonInv'
<1> SUFFICES ASSUME ReasonInv, [Next]_vars PROVE ReasonInv'
    OBVIOUS
<1>1. CASE Look \/ DeleteOne \/ ListFiles \/ ListFolders \/ DeleteNext \/ Fault
    BY <1>1 DEF ReasonInv, Look, DeleteOne, ListFiles, ListFolders, DeleteNext, Fault, Fail
<1>2. ASSUME NEW x \in Files, DeleteFile(x) PROVE ReasonInv'
    BY <1>2 DEF ReasonInv, DeleteFile, Listed, Fail
<1>3. CASE Walk \/ Descend \/ WalkedAll \/ Finish
    BY <1>3 DEF ReasonInv, Walk, Descend, Listed, WalkedAll, Finish
<1>4. CASE UNCHANGED client
    BY <1>4 DEF ReasonInv, client
<1> QED BY <1>1, <1>2, <1>3, <1>4 DEF Next, Progress, OthersChange, AddNode, RemoveNode, vars

\* The folders of a listing are in no folder that is still to walk, and hold none.
LEMMA ChildrenApart ==
    ASSUME TypeOK, OrderInv, pc = "list", children # None, NEW c \in children
    PROVE  /\ c \in Nodes /\ Path(c) = {c} \cup Path(current) /\ c \notin Path(current)
           /\ \A y \in All : c \in Path(y) => current \in Path(y)
<1>1. c \in Nodes /\ c \in All /\ c # Root /\ Parent[c] = current
    BY TreeAssumption DEF TypeOK, OrderInv, Nodes, All
<1>2. Path(c) = {c} \cup Path(current) /\ c \notin Path(current)
    BY <1>1, PathUp, NoCycle
<1>3. ASSUME NEW y \in All, c \in Path(y) PROVE current \in Path(y)
    BY <1>1, <1>3, PathHas
<1> QED BY <1>1, <1>2, <1>3

LEMMA DescendKeepsOrder == TypeOK /\ OrderInv /\ Descend => OrderInv'
<1> SUFFICES ASSUME TypeOK, OrderInv, Descend PROVE OrderInv'
    OBVIOUS
<1> DEFINE p == Push(pending)
           f == Append(folders, current)
           n == Len(pending)
           m == Len(folders)
<1>1. pc = "list" /\ children # None /\ pending' = p /\ folders' = f /\ pc' = "walk"
    BY DEF Descend, Listed
<1>2. /\ n \in Nat /\ Len(p) \in Nat /\ n <= Len(p)
      /\ \A k \in 1..n : p[k] = pending[k]
      /\ \A k \in 1..Len(p) : k > n => p[k] \in children
      /\ \A k, l \in 1..Len(p) : k > n /\ l > n /\ p[k] = p[l] => k = l
    BY <1>1, Pushed
<1>3. /\ m \in Nat /\ Len(f) = m + 1 /\ f[m + 1] = current
      /\ \A k \in 1..m : f[k] = folders[k]
    BY Appended DEF TypeOK
<1>4. /\ \A k \in 1..m : folders[k] \in All
      /\ \A l \in 1..n : pending[l] \in All
      /\ current \in All
    BY ElementOfSeq DEF TypeOK, All, Nodes
<1>5. /\ \A c \in children : /\ Path(c) = {c} \cup Path(current) /\ c \notin Path(current)
                            /\ \A y \in All : c \in Path(y) => current \in Path(y)
    BY <1>1, ChildrenApart
<1>6. /\ ParentsBefore(folders) /\ Apart(pending)
      /\ \A k \in 1..m, l \in 1..n : pending[l] \notin Path(folders[k])
      /\ \A k \in 1..m : current \notin Path(folders[k])
      /\ \A l \in 1..n : pending[l] \notin Path(current) /\ current \notin Path(pending[l])
    BY <1>1 DEF OrderInv, Walking
<1> HIDE DEF p, f
<1>7. ParentsBefore(f)
  <2> SUFFICES ASSUME NEW k \in 1..(m + 1), NEW l \in 1..(m + 1), k < l
               PROVE  f[l] \notin Path(f[k])
      BY <1>3 DEF ParentsBefore
  <2>1. k \in 1..m
      BY <1>3
  <2>2. CASE l = m + 1
      BY <1>3, <1>6, <2>1, <2>2
  <2>3. CASE l \in 1..m
      BY <1>3, <1>6, <2>1, <2>3 DEF ParentsBefore
  <2> QED BY <1>3, <2>2, <2>3
<1>8. ASSUME NEW k \in 1..Len(f), NEW l \in 1..Len(p) PROVE p[l] \notin Path(f[k])
  <2>1. CASE l \in 1..n /\ k \in 1..m
      BY <1>2, <1>3, <1>6, <2>1
  <2>2. CASE l \in 1..n /\ k = m + 1
      BY <1>2, <1>3, <1>6, <2>2
  <2>3. CASE l > n /\ k \in 1..m
      BY <1>2, <1>3, <1>4, <1>5, <1>6, <2>3
  <2>4. CASE l > n /\ k = m + 1
      BY <1>2, <1>3, <1>5, <2>4
  <2> QED BY <1>2, <1>3, <2>1, <2>2, <2>3, <2>4
<1>9. ASSUME NEW k \in 1..Len(p), NEW l \in 1..Len(p), k # l PROVE p[k] \notin Path(p[l])
  <2>1. CASE k \in 1..n /\ l \in 1..n
      BY <1>2, <1>6, <1>9, <2>1 DEF Apart
  <2>2. CASE k \in 1..n /\ l > n
    <3>1. p[k] = pending[k] /\ p[l] \in children
        BY <1>2, <2>2
    <3>2. current \in Path(p[l])
        BY <1>4, <1>5, <3>1, PathHas
    <3> QED BY <1>5, <1>6, <2>2, <3>1, <3>2
  <2>3. CASE k > n /\ l \in 1..n
      BY <1>2, <1>4, <1>5, <1>6, <2>3
  <2>4. CASE k > n /\ l > n
      BY <1>2, <1>5, <1>9, <2>4
  <2> QED BY <1>2, <2>1, <2>2, <2>3, <2>4
<1> QED BY <1>1, <1>7, <1>8, <1>9 DEF OrderInv, Walking, Apart

LEMMA OrderStep == TypeOK /\ OrderInv /\ [Next]_vars => OrderInv'
<1> SUFFICES ASSUME TypeOK, OrderInv, [Next]_vars PROVE OrderInv'
    OBVIOUS
<1>1. CASE Look
  <2>1. CASE pc' = "walk"
    <3>1. folders = <<>> /\ folders' = <<>> /\ pending' = <<Root>>
        BY <1>1, <2>1 DEF Look, OrderInv, Fail
    <3> QED BY <2>1, <3>1 DEF OrderInv, Walking, ParentsBefore, Apart
  <2>2. CASE pc' # "walk"
      BY <1>1, <2>2 DEF Look, Fail, OrderInv, Walking
  <2> QED BY <2>1, <2>2
<1>2. CASE DeleteOne \/ Finish \/ Fault
    BY <1>2 DEF DeleteOne, Finish, Fault, Fail, OrderInv, Walking
<1>3. CASE Walk
  <2> DEFINE n == Len(pending)
             p == Front(pending)
  <2>1. /\ n \in Nat \ {0} /\ Len(p) = n - 1 /\ current' = pending[n]
        /\ \A k \in 1..(n - 1) : p[k] = pending[k]
      BY <1>3, LastAndFront DEF Walk, TypeOK
  <2>2. /\ pending' = p /\ folders' = folders /\ pc' = "list" /\ pc = "walk"
        /\ files' = None /\ children' = None
      BY <1>3 DEF Walk
  <2>3. /\ ParentsBefore(folders) /\ Apart(pending)
        /\ \A k \in 1..Len(folders), l \in 1..n : pending[l] \notin Path(folders[k])
      BY <2>2 DEF OrderInv, Walking
  <2> HIDE DEF n, p
  <2>4. Apart(p) /\ \A k \in 1..Len(folders), l \in 1..Len(p) : p[l] \notin Path(folders[k])
      BY <2>1, <2>3 DEF Apart, n
  <2>5. \A l \in 1..Len(p) : p[l] \notin Path(pending[n]) /\ pending[n] \notin Path(p[l])
      BY <2>1, <2>3 DEF Apart, n
  <2>6. \A k \in 1..Len(folders) : pending[n] \notin Path(folders[k])
      BY <2>1, <2>3
  <2> QED BY <2>1, <2>2, <2>3, <2>4, <2>5, <2>6 DEF OrderInv, Walking
<1>4. CASE ListFiles
    BY <1>4 DEF ListFiles, Fail, OrderInv, Walking, ChildrenOf
<1>5. CASE ListFolders
    BY <1>5 DEF ListFolders, Fail, OrderInv, Walking, ChildrenOf
<1>6. CASE Descend
    BY <1>6, DescendKeepsOrder
<1>7. CASE WalkedAll
  <2> DEFINE n == Len(folders)
             r == Reverse(folders)
  <2>1. n \in Nat /\ Len(r) = n /\ \A k \in 1..n : r[k] = folders[n + 1 - k]
      BY Reversed DEF TypeOK
  <2>2. ParentsBefore(folders) /\ folders' = r /\ pc' = "delete"
      BY <1>7 DEF WalkedAll, DeletionOrder, OrderInv, Walking
  <2> HIDE DEF n, r
  <2>3. ASSUME NEW k \in 1..Len(r), NEW l \in 1..Len(r), k < l PROVE r[k] \notin Path(r[l])
    <3>1. n + 1 - k \in 1..n /\ n + 1 - l \in 1..n /\ n + 1 - l < n + 1 - k
        BY <2>1, <2>3
    <3> QED BY <2>1, <2>2, <3>1 DEF ParentsBefore, n
  <2> QED BY <2>2, <2>3 DEF OrderInv, Walking, ChildrenFirst
<1>8. CASE DeleteNext
  <2>1. CASE Head(folders) \in there
    <3> DEFINE n == Len(folders)
               q == Tail(folders)
    <3>1. n \in Nat \ {0} /\ Len(q) = n - 1 /\ \A k \in 1..(n - 1) : q[k] = folders[k + 1]
        BY <1>8, HeadAndTail DEF TypeOK, DeleteNext
    <3>2. ChildrenFirst(folders) /\ folders' = q /\ pc' = "delete"
        BY <1>8, <2>1 DEF DeleteNext, OrderInv
    <3> HIDE DEF n, q
    <3>3. ASSUME NEW k \in 1..Len(q), NEW l \in 1..Len(q), k < l PROVE q[k] \notin Path(q[l])
      <4>1. k + 1 \in 1..n /\ l + 1 \in 1..n /\ k + 1 < l + 1 /\ k \in 1..(n-1) /\ l \in 1..(n-1)
          BY <3>1, <3>3
      <4> QED BY <3>1, <3>2, <4>1 DEF ChildrenFirst, n
    <3> QED BY <3>2, <3>3 DEF OrderInv, Walking, ChildrenFirst
  <2>2. CASE Head(folders) \notin there
      BY <1>8, <2>2 DEF DeleteNext, Fail, OrderInv, Walking
  <2> QED BY <2>1, <2>2
<1>9. ASSUME NEW x \in Files, DeleteFile(x) PROVE OrderInv'
    BY <1>9 DEF DeleteFile, Listed, Fail, OrderInv, Walking
<1>10. CASE UNCHANGED client
    BY <1>10 DEF client, OrderInv, Walking, ParentsBefore, Apart, ChildrenFirst
<1> QED BY <1>1, <1>2, <1>3, <1>4, <1>5, <1>6, <1>7, <1>8, <1>9, <1>10
        DEF Next, Progress, OthersChange, AddNode, RemoveNode, vars

\* A DELETE of a folder leaves a tree.
LEMMA CutKeepsTree ==
    ASSUME TypeOK, TreeInv, NEW f \in All
    PROVE  \A x \in (there \ Below(f)) \cap Nodes : Parent[x] \in there \ Below(f)
<1> SUFFICES ASSUME NEW x \in (there \ Below(f)) \cap Nodes PROVE Parent[x] \in there \ Below(f)
    OBVIOUS
<1>1. Parent[x] \in there
    BY DEF TreeInv
<1>2. f \notin Path(x)
    BY DEF Below
<1>3. f \notin Path(Parent[x])
    BY <1>2, PathUp
<1> QED BY <1>1, <1>3 DEF Below

LEMMA TreeStep == TypeOK /\ TreeInv /\ [Next]_vars => TreeInv'
<1> SUFFICES ASSUME TypeOK, TreeInv, [Next]_vars PROVE TreeInv'
    OBVIOUS
<1>1. ASSUME NEW f \in All, there' = there \ Below(f) PROVE TreeInv'
    BY <1>1, CutKeepsTree DEF TreeInv
<1>2. ASSUME UNCHANGED there PROVE TreeInv'
    BY <1>2 DEF TreeInv
<1>3. CASE Look \/ Walk \/ ListFiles \/ ListFolders \/ Descend \/ WalkedAll \/ Finish \/ Fault
    BY <1>2, <1>3 DEF Look, Walk, ListFiles, ListFolders, Descend, WalkedAll, Finish, Fault
<1>4. CASE DeleteOne
    BY <1>1, <1>2, <1>4 DEF DeleteOne, DeleteFolder, All
<1>5. CASE DeleteNext
  <2>1. Head(folders) \in All
      BY <1>5, HeadAndTail DEF DeleteNext, TypeOK, All, Nodes
  <2> QED BY <1>1, <1>2, <1>5, <2>1 DEF DeleteNext, DeleteFolder
<1>6. ASSUME NEW x \in Files, DeleteFile(x) PROVE TreeInv'
  <2>1. CASE there' = there
      BY <1>2, <2>1
  <2>2. CASE there' = there \ {x}
      BY <2>2, ParentType, TreeAssumption DEF TreeInv, Nodes
  <2> QED BY <1>6, <2>1, <2>2 DEF DeleteFile
<1>7. ASSUME NEW x \in Nodes, AddNode(x) PROVE TreeInv'
    BY <1>7 DEF AddNode, TreeInv
<1>8. ASSUME NEW x \in Nodes \cup {Root}, RemoveNode(x) PROVE TreeInv'
    BY <1>1, <1>8 DEF RemoveNode, All
<1>9. CASE UNCHANGED vars
    BY <1>2, <1>9 DEF vars
<1> QED BY <1>3, <1>4, <1>5, <1>6, <1>7, <1>8, <1>9 DEF Next, Progress, OthersChange

LEMMA ThereStep == TypeOK /\ OrderInv /\ ReasonInv /\ ThereInv /\ [Next]_vars => ThereInv'
<1> SUFFICES ASSUME TypeOK, OrderInv, ReasonInv, ThereInv, [Next]_vars, removals' = 0
             PROVE  ThereInv'
    BY DEF ThereInv
<1>1. removals \in Nat /\ adds \in Nat /\ MaxRemovals \in Nat
    BY ChangesAssumption DEF TypeOK
<1>2. /\ \A k \in 1..Len(folders) : folders[k] \in Folders \cup {Root}
      /\ \A l \in 1..Len(pending) : pending[l] \in Folders \cup {Root}
    BY ElementOfSeq DEF TypeOK
<1>3. CASE Look
  <2>1. folders = <<>> /\ folders' = <<>> /\ removals = 0 /\ reason = "none"
      BY <1>3 DEF Look, OrderInv, bounds, ReasonInv
  <2>2. CASE pc' = "walk"
    <3>1. pending' = <<Root>> /\ Root \in there' /\ reason' = "none"
        BY <1>3, <2>1, <2>2 DEF Look, Fail
    <3> QED BY <2>1, <2>2, <3>1 DEF ThereInv, Walking
  <2>3. CASE pc' # "walk"
      BY <1>3, <2>1, <2>3 DEF Look, Fail, ThereInv, Walking
  <2> QED BY <2>2, <2>3
<1>4. CASE DeleteOne
    BY <1>4 DEF DeleteOne, bounds, ThereInv, ReasonInv, Walking
<1>5. CASE Walk
  <2>1. /\ removals = 0 /\ UNCHANGED <<there, folders>>
        /\ pc = "walk" /\ pc' = "list" /\ files' = None /\ children' = None
        /\ reason' = "none"
      BY <1>5 DEF Walk, bounds, ReasonInv
  <2>2. \A k \in 1..Len(folders) : folders[k] \in there
      BY <2>1 DEF ThereInv, Walking
  <2>3. current' \in there /\ \A l \in 1..Len(pending') : pending'[l] \in there
    <3>1. /\ Len(pending) \in Nat \ {0} /\ Len(pending') = Len(pending) - 1
          /\ current' = pending[Len(pending)]
          /\ \A k \in 1..(Len(pending) - 1) : pending'[k] = pending[k]
        BY <1>5, LastAndFront DEF Walk, TypeOK
    <3>2. \A l \in 1..Len(pending) : pending[l] \in there
        BY <2>1 DEF ThereInv, Walking
    <3> QED BY <3>1, <3>2
  <2> QED BY <2>1, <2>2, <2>3 DEF ThereInv, Walking
<1>6. CASE ListFiles
    BY <1>6 DEF ListFiles, bounds, ThereInv, ReasonInv, Walking, ChildrenOf
<1>7. CASE ListFolders
    BY <1>7 DEF ListFolders, bounds, ThereInv, ReasonInv, Walking, ChildrenOf
<1>8. CASE Descend
  <2>1. /\ removals = 0 /\ UNCHANGED there /\ pc = "list" /\ pc' = "walk" /\ children # None
        /\ folders' = Append(folders, current) /\ pending' = Push(pending)
        /\ reason' = "none"
      BY <1>8 DEF Descend, Listed, bounds, ReasonInv
  <2>2. \A k \in 1..Len(folders') : folders'[k] \in there
    <3>1. /\ Len(folders) \in Nat /\ Len(folders') = Len(folders) + 1
          /\ folders'[Len(folders) + 1] = current
          /\ \A k \in 1..Len(folders) : folders'[k] = folders[k]
        BY <2>1, Appended DEF TypeOK
    <3>2. current \in there /\ \A k \in 1..Len(folders) : folders[k] \in there
        BY <2>1 DEF ThereInv, Walking
    <3> QED BY <3>1, <3>2
  <2>3. \A l \in 1..Len(pending') : pending'[l] \in there
    <3>1. /\ Len(pending) \in Nat /\ Len(pending') \in Nat
          /\ \A k \in 1..Len(pending) : pending'[k] = pending[k]
          /\ \A k \in 1..Len(pending') : k > Len(pending) => pending'[k] \in children
        BY <2>1, Pushed
    <3>2. children \subseteq there /\ \A l \in 1..Len(pending) : pending[l] \in there
        BY <2>1 DEF ThereInv, Walking
    <3> QED BY <3>1, <3>2
  <2> QED BY <2>1, <2>2, <2>3 DEF ThereInv, Walking
<1>9. CASE WalkedAll
  <2>1. /\ removals = 0 /\ UNCHANGED there /\ pc = "walk" /\ pc' = "delete"
        /\ folders' = Reverse(folders) /\ reason' = "none"
      BY <1>9 DEF WalkedAll, DeletionOrder, bounds, ReasonInv
  <2>2. /\ Len(folders) \in Nat /\ Len(folders') = Len(folders)
        /\ \A k \in 1..Len(folders) : folders'[k] = folders[Len(folders) + 1 - k]
      BY <2>1, Reversed DEF TypeOK
  <2>3. \A k \in 1..Len(folders) : folders[k] \in there
      BY <2>1 DEF ThereInv, Walking
  <2>4. \A k \in 1..Len(folders') : folders'[k] \in there
      BY <2>2, <2>3
  <2> QED BY <2>1, <2>4 DEF ThereInv, Walking
<1>10. CASE DeleteNext
  <2>1. /\ removals = 0 /\ pc = "delete" /\ folders # <<>> /\ ChildrenFirst(folders)
        /\ \A k \in 1..Len(folders) : folders[k] \in there
      BY <1>10 DEF DeleteNext, bounds, OrderInv, ThereInv
  <2>2. /\ Len(folders) \in Nat \ {0} /\ Head(folders) = folders[1]
        /\ Len(Tail(folders)) = Len(folders) - 1
        /\ \A k \in 1..(Len(folders) - 1) : Tail(folders)[k] = folders[k + 1]
      BY <2>1, HeadAndTail DEF TypeOK
  <2>3. /\ there' = there \ Below(folders[1]) /\ folders' = Tail(folders) /\ pc' = "delete"
        /\ reason' = "none"
      BY <1>10, <2>1, <2>2 DEF DeleteNext, DeleteFolder, ReasonInv
  <2>4. ASSUME NEW k \in 1..Len(folders') PROVE folders'[k] \in there'
    <3>1. k + 1 \in 1..Len(folders) /\ 1 \in 1..Len(folders) /\ 1 < k + 1
          /\ folders'[k] = folders[k + 1]
        BY <2>2, <2>3
    <3>2. folders[1] \notin Path(folders[k + 1])
        BY <2>1, <3>1 DEF ChildrenFirst
    <3> QED BY <2>1, <2>3, <3>1, <3>2 DEF Below
  <2> QED BY <2>3, <2>4 DEF ThereInv, Walking
<1>11. CASE Finish
    BY <1>11 DEF Finish, bounds, ThereInv, ReasonInv, Walking
<1>12. ASSUME NEW x \in Files, DeleteFile(x) PROVE ThereInv'
  <2>1. /\ removals = 0 /\ pc = "list" /\ files # None /\ children # None /\ x \in files
        /\ reason = "none" /\ UNCHANGED <<pending, current, children, folders>>
      BY <1>12 DEF DeleteFile, Listed, bounds, ReasonInv
  <2>2. /\ x \in there /\ files \subseteq there /\ children \subseteq there /\ current \in there
        /\ \A k \in 1..Len(folders) : folders[k] \in there
        /\ \A l \in 1..Len(pending) : pending[l] \in there
      BY <2>1 DEF ThereInv, Walking
  <2>3. there' = there \ {x} /\ files' = files \ {x} /\ pc' = "list" /\ reason' = "none"
      BY <1>12, <2>1, <2>2 DEF DeleteFile
  <2>4. x # Root /\ x \notin Folders /\ current # x /\ x \notin children
      BY <2>1, TreeAssumption DEF TypeOK, Nodes
  <2>5. /\ \A k \in 1..Len(folders) : folders[k] \in there'
        /\ \A l \in 1..Len(pending) : pending[l] \in there'
      BY <1>2, <2>2, <2>3, <2>4
  <2> QED BY <2>1, <2>2, <2>3, <2>4, <2>5 DEF ThereInv, Walking
<1>13. CASE Fault
    BY <1>13 DEF Fault, Fail, ThereInv, Walking
<1>14. ASSUME NEW x \in Nodes, AddNode(x) PROVE ThereInv'
  <2>1. there \subseteq there' /\ UNCHANGED <<client, removals>> /\ reason = "none"
      BY <1>14 DEF AddNode, Running, ReasonInv
  <2> QED BY <2>1 DEF ThereInv, Walking, client
<1>15. ASSUME NEW x \in Nodes \cup {Root}, RemoveNode(x) PROVE ThereInv'
    BY <1>1, <1>15 DEF RemoveNode
<1>16. CASE UNCHANGED vars
    BY <1>16 DEF vars, client, bounds, ThereInv, Walking
<1> QED BY <1>3, <1>4, <1>5, <1>6, <1>7, <1>8, <1>9, <1>10, <1>11, <1>12, <1>13, <1>14, <1>15, <1>16
        DEF Next, Progress, OthersChange

\* Nothing becomes unseen that was not, and what is taken was unseen.
LEMMA SweptKept ==
    ASSUME TypeOK, SweptInv, adds' = adds, swept' \subseteq swept \cup Unseen,
           \A y \in there' \cap Nodes : y \in there /\ (Planned(y) => Planned(y)')
    PROVE  SweptInv'
<1>1. swept' \cup Unseen' \subseteq swept \cup Unseen
    BY DEF Unseen
<1>2. swept \cup Unseen \subseteq Nodes
    BY DEF Unseen, TypeOK
<1>3. IsFiniteSet(swept \cup Unseen)
    BY <1>2, TreeAssumption, FS_Subset
<1>4. /\ IsFiniteSet(swept' \cup Unseen')
      /\ Cardinality(swept' \cup Unseen') <= Cardinality(swept \cup Unseen)
    BY <1>1, <1>3, FS_Subset
<1>5. /\ Cardinality(swept' \cup Unseen') \in Nat /\ Cardinality(swept \cup Unseen) \in Nat
      /\ adds \in Nat
    BY <1>3, <1>4, FS_CardinalityType, ChangesAssumption DEF TypeOK
<1>6. Cardinality(swept' \cup Unseen') <= adds
    BY <1>4, <1>5 DEF SweptInv
<1> QED BY <1>6 DEF SweptInv

\* Once the call is over nothing more is taken.
LEMMA SweptWhenOver ==
    ASSUME TypeOK, SweptInv, adds' = adds, swept' \subseteq swept \cup Unseen,
           there' \subseteq there, pc' \in {"done", "failed"}
    PROVE  SweptInv'
<1>1. \A y \in there' \cap Nodes : y \in there /\ (Planned(y) => Planned(y)')
    BY DEF Planned, Over
<1> QED BY <1>1, SweptKept

LEMMA LookSweeps == TypeOK /\ TreeInv /\ SweptInv /\ Look => SweptInv'
<1> SUFFICES ASSUME TypeOK, TreeInv, SweptInv, Look PROVE SweptInv'
    OBVIOUS
<1>1. there' = there /\ swept' = swept /\ adds' = adds
    BY DEF Look, bounds
<1>2. CASE pc' \in {"done", "failed"}
    BY <1>1, <1>2, SweptWhenOver
<1>3. CASE pc' = "walk"
  <2>1. pending' = <<Root>>
      BY <1>3 DEF Look, Fail
  <2>2. ASSUME NEW y \in there' \cap Nodes PROVE Planned(y)'
    <3>1. Root \in Path(y)
        BY RootOnPath DEF All
    <3>2. Len(pending') = 1 /\ pending'[1] = Root
        BY <2>1
    <3>3. \E l \in 1..Len(pending') : pending'[l] \in Path(y)
        BY <3>1, <3>2
    <3> QED BY <1>3, <3>3 DEF Planned, Walking
  <2> QED BY <1>1, <2>2, SweptKept
<1>4. CASE pc' = "delete_one"
  <2>1. ChildrenOf(Root) = {}
      BY <1>4 DEF Look, Fail
  <2>2. ASSUME NEW y \in there \cap Nodes PROVE FALSE
    <3>1. y \in All /\ y # Root /\ Root \in Path(y)
        BY RootOnPath, TreeAssumption DEF All
    <3>2. PICK c \in Path(y) \cap Nodes : Parent[c] = Root
        BY <3>1, Toward
    <3>3. c \in there
        BY <3>2, PathExists DEF TypeOK, All
    <3> QED BY <2>1, <3>2, <3>3 DEF ChildrenOf
  <2> QED BY <1>1, <2>2, SweptKept
<1>5. pc' \in {"done", "failed", "walk", "delete_one"}
    BY DEF Look, Fail
<1> QED BY <1>2, <1>3, <1>4, <1>5

LEMMA WalkSweeps == TypeOK /\ TreeInv /\ SweptInv /\ Walk => SweptInv'
<1> SUFFICES ASSUME TypeOK, SweptInv, Walk PROVE SweptInv'
    OBVIOUS
<1>1. /\ UNCHANGED <<there, swept, adds, folders>> /\ pc = "walk" /\ pc' = "list"
      /\ files' = None /\ children' = None
    BY DEF Walk, bounds
<1>2. /\ Len(pending) \in Nat \ {0} /\ Len(pending') = Len(pending) - 1
      /\ current' = pending[Len(pending)] /\ current' \in Folders \cup {Root}
      /\ \A k \in 1..(Len(pending) - 1) : pending'[k] = pending[k]
    BY LastAndFront DEF Walk, TypeOK
<1>3. ASSUME NEW y \in there' \cap Nodes, Planned(y) PROVE Planned(y)'
  <2>1. CASE \E k \in 1..Len(folders) : y = folders[k]
      BY <1>1, <2>1 DEF Planned
  <2>2. ASSUME NEW l \in 1..Len(pending), pending[l] \in Path(y) PROVE Planned(y)'
    <3>1. CASE l \in 1..(Len(pending) - 1)
      <4>1. l \in 1..Len(pending') /\ pending'[l] \in Path(y)
          BY <1>2, <2>2, <3>1
      <4> QED BY <1>1, <4>1 DEF Planned, Walking
    <3>2. CASE l = Len(pending) /\ y # current'
      <4>1. y \in All /\ current' \in Path(y)
          BY <1>2, <2>2, <3>2 DEF All
      <4>2. PICK c \in Path(y) \cap Nodes : Parent[c] = current'
          BY <3>2, <4>1, Toward
      <4>3. CASE c \in Folders
          BY <1>1, <4>2, <4>3 DEF Planned
      <4>4. CASE c \in Files
        <5>1. y = c
            BY <4>1, <4>2, <4>4, FileIsLeaf
        <5> QED BY <1>1, <4>2, <4>4, <5>1 DEF Planned
      <4> QED BY <4>2, <4>3, <4>4 DEF Nodes
    <3>3. CASE y = current'
        BY <1>1, <3>3 DEF Planned
    <3> QED BY <1>2, <2>2, <3>1, <3>2, <3>3
  <2> QED BY <1>1, <1>3, <2>1, <2>2 DEF Planned, Over
<1> QED BY <1>1, <1>3, SweptKept

LEMMA ListSweeps ==
    TypeOK /\ TreeInv /\ SweptInv /\ (ListFiles \/ ListFolders) => SweptInv'
<1> SUFFICES ASSUME TypeOK, TreeInv, SweptInv, ListFiles \/ ListFolders PROVE SweptInv'
    OBVIOUS
<1>1. /\ UNCHANGED <<there, swept, adds, folders, pending, current>> /\ pc = "list"
      /\ pc' = "list" \/ pc' = "failed"
    BY DEF ListFiles, ListFolders, Fail, bounds
<1>2. CASE pc' = "failed"
    BY <1>1, <1>2, SweptWhenOver
<1>3. ASSUME pc' = "list", ListFiles, NEW y \in there' \cap Nodes, Planned(y) PROVE Planned(y)'
  <2>1. files = None /\ files' = ChildrenOf(current) \cap Files /\ children' = children
      BY <1>3 DEF ListFiles, Fail
  <2>2. y \in Files /\ Parent[y] = current => y \in files'
      BY <1>1, <1>3, <2>1 DEF ChildrenOf
  <2> QED BY <1>1, <1>3, <2>1, <2>2 DEF Planned, Over, Walking
<1>4. ASSUME pc' = "list", ListFolders, NEW y \in there' \cap Nodes, Planned(y) PROVE Planned(y)'
  <2>1. children = None /\ children' = ChildrenOf(current) \cap Folders /\ files' = files
      BY <1>4 DEF ListFolders, Fail
  <2>2. Path(y) \subseteq there
      BY <1>1, <1>4, PathExists DEF TypeOK, All
  <2>3. \A c \in Path(y) \cap Folders : Parent[c] = current => c \in children'
      BY <2>1, <2>2 DEF ChildrenOf, Nodes
  <2> QED BY <1>1, <1>4, <2>1, <2>3 DEF Planned, Over, Walking
<1> QED BY <1>1, <1>2, <1>3, <1>4, SweptKept

LEMMA DeleteFileSweeps ==
    ASSUME TypeOK, SweptInv, NEW x \in Files, DeleteFile(x)
    PROVE  SweptInv'
<1>1. /\ UNCHANGED <<swept, adds, folders, pending, current, children>> /\ pc = "list"
      /\ there' \subseteq there /\ files # None
    BY DEF DeleteFile, Listed, Fail, bounds
<1>2. CASE x \notin there
    BY <1>1, <1>2, SweptWhenOver DEF DeleteFile, Fail
<1>3. CASE x \in there
  <2>1. there' = there \ {x} /\ files' = files \ {x} /\ pc' = "list"
      BY <1>1, <1>3 DEF DeleteFile
  <2>2. ASSUME NEW y \in there' \cap Nodes, Planned(y) PROVE Planned(y)'
      BY <1>1, <2>1, <2>2 DEF Planned, Over, Walking
  <2> QED BY <1>1, <2>2, SweptKept
<1> QED BY <1>2, <1>3

LEMMA DescendSweeps == TypeOK /\ SweptInv /\ Descend => SweptInv'
<1> SUFFICES ASSUME TypeOK, SweptInv, Descend PROVE SweptInv'
    OBVIOUS
<1>1. /\ UNCHANGED <<there, swept, adds>> /\ pc = "list" /\ pc' = "walk"
      /\ files = {} /\ files # None /\ children # None
      /\ folders' = Append(folders, current) /\ pending' = Push(pending)
    BY DEF Descend, Listed, bounds
<1>2. /\ Len(folders) \in Nat /\ Len(folders') = Len(folders) + 1
      /\ folders'[Len(folders) + 1] = current
      /\ \A k \in 1..Len(folders) : folders'[k] = folders[k]
    BY <1>1, Appended DEF TypeOK
<1>3. /\ Len(pending) \in Nat /\ Len(pending') \in Nat /\ Len(pending) <= Len(pending')
      /\ \A k \in 1..Len(pending) : pending'[k] = pending[k]
      /\ \A c \in children : \E k \in 1..Len(pending') : pending'[k] = c
    BY <1>1, Pushed
<1>4. ASSUME NEW y \in there' \cap Nodes, Planned(y) PROVE Planned(y)'
  <2>1. ASSUME NEW k \in 1..Len(folders), y = folders[k] PROVE Planned(y)'
    <3>1. k \in 1..Len(folders') /\ y = folders'[k]
        BY <1>2, <2>1
    <3> QED BY <3>1 DEF Planned
  <2>2. ASSUME NEW l \in 1..Len(pending), pending[l] \in Path(y) PROVE Planned(y)'
    <3>1. l \in 1..Len(pending') /\ pending'[l] \in Path(y)
        BY <1>3, <2>2
    <3> QED BY <1>1, <3>1 DEF Planned, Walking
  <2>3. CASE y = current
    <3>1. Len(folders) + 1 \in 1..Len(folders') /\ y = folders'[Len(folders) + 1]
        BY <1>2, <2>3
    <3> QED BY <3>1 DEF Planned
  <2>4. ASSUME NEW c \in Path(y), c \in children PROVE Planned(y)'
    <3>1. \E k \in 1..Len(pending') : pending'[k] \in Path(y)
        BY <1>3, <2>4
    <3> QED BY <1>1, <3>1 DEF Planned, Walking
  <2> QED BY <1>1, <1>4, <2>1, <2>2, <2>3, <2>4 DEF Planned, Over
<1> QED BY <1>1, <1>4, SweptKept

LEMMA WalkedAllSweeps == TypeOK /\ SweptInv /\ WalkedAll => SweptInv'
<1> SUFFICES ASSUME TypeOK, SweptInv, WalkedAll PROVE SweptInv'
    OBVIOUS
<1>1. /\ UNCHANGED <<there, swept, adds>> /\ pc = "walk" /\ pc' = "delete"
      /\ pending = <<>> /\ folders' = Reverse(folders)
    BY DEF WalkedAll, DeletionOrder, bounds
<1>2. /\ Len(folders) \in Nat /\ Len(folders') = Len(folders)
      /\ \A k \in 1..Len(folders) : folders'[k] = folders[Len(folders) + 1 - k]
    BY <1>1, Reversed DEF TypeOK
<1>3. ASSUME NEW y \in there' \cap Nodes, Planned(y) PROVE Planned(y)'
  <2>1. PICK k \in 1..Len(folders) : y = folders[k]
      BY <1>1, <1>3 DEF Planned, Over
  <2>2. /\ Len(folders) + 1 - k \in 1..Len(folders')
        /\ Len(folders) + 1 - (Len(folders) + 1 - k) = k
      BY <1>2
  <2>3. y = folders'[Len(folders) + 1 - k]
      BY <1>2, <2>1, <2>2
  <2> QED BY <2>2, <2>3 DEF Planned
<1> QED BY <1>1, <1>3, SweptKept

LEMMA DeleteOneSweeps == TypeOK /\ OrderInv /\ SweptInv /\ DeleteOne => SweptInv'
<1> SUFFICES ASSUME TypeOK, OrderInv, SweptInv, DeleteOne PROVE SweptInv'
    OBVIOUS
<1>1. /\ pc = "delete_one" /\ folders = <<>> /\ adds' = adds /\ pc' \in {"done", "failed"}
      /\ there' \subseteq there
    BY DEF DeleteOne, DeleteFolder, Fail, OrderInv, bounds
<1>2. \A y : ~Planned(y)
    BY <1>1 DEF Planned, Over, Walking
<1>3. Below(Root) \ {Root} \subseteq Unseen
    BY <1>2 DEF Below, Unseen, TypeOK
<1>4. swept' \subseteq swept \cup Unseen
    BY <1>3 DEF DeleteOne, DeleteFolder
<1> QED BY <1>1, <1>4, SweptWhenOver

LEMMA DeleteNextSweeps == TypeOK /\ OrderInv /\ SweptInv /\ DeleteNext => SweptInv'
<1> SUFFICES ASSUME TypeOK, OrderInv, SweptInv, DeleteNext PROVE SweptInv'
    OBVIOUS
<1> DEFINE f == folders[1]
<1>1. pc = "delete" /\ folders # <<>> /\ adds' = adds /\ ChildrenFirst(folders)
    BY DEF DeleteNext, bounds, OrderInv
<1>2. /\ Len(folders) \in Nat \ {0} /\ Head(folders) = f /\ f \in Folders \cup {Root}
      /\ Len(Tail(folders)) = Len(folders) - 1
      /\ \A k \in 1..(Len(folders) - 1) : Tail(folders)[k] = folders[k + 1]
    BY <1>1, HeadAndTail DEF TypeOK
<1>3. CASE f \notin there
    BY <1>2, <1>3, SweptWhenOver, <1>1 DEF DeleteNext, Fail
<1>4. CASE f \in there
  <2>1. /\ there' = there \ Below(f) /\ swept' = swept \cup (Below(f) \ {f})
        /\ folders' = Tail(folders) /\ pc' = "delete"
      BY <1>1, <1>2, <1>4 DEF DeleteNext, DeleteFolder
  <2>2. ASSUME NEW k \in 1..Len(folders), k # 1 PROVE f \notin Path(folders[k])
    <3>1. 1 \in 1..Len(folders) /\ 1 < k
        BY <1>2, <2>2
    <3> QED BY <1>1, <3>1 DEF ChildrenFirst
  <2>3. f \in Below(f)
    <3>1. f \in All
        BY <1>2 DEF All, Nodes
    <3> QED BY <1>4, <3>1, PathHas DEF Below
  <2>4. ASSUME NEW y \in Below(f) \ {f} PROVE y \in Unseen
    <3>1. y \in there /\ f \in Path(y)
        BY <2>4 DEF Below
    <3>2. y \in Nodes
      <4>1. y # Root
          BY <2>4, <3>1, PathRoot
      <4> QED BY <3>1, <4>1 DEF TypeOK
    <3>3. ~Planned(y)
        BY <1>1, <2>2, <2>4, <3>1 DEF Planned, Over, Walking
    <3> QED BY <3>1, <3>2, <3>3 DEF Unseen
  <2>5. ASSUME NEW y \in there' \cap Nodes, Planned(y) PROVE Planned(y)'
    <3>1. PICK k \in 1..Len(folders) : y = folders[k]
        BY <1>1, <2>5 DEF Planned, Over, Walking
    <3>2. k # 1
        BY <2>1, <2>3, <2>5, <3>1
    <3>3. k - 1 \in 1..(Len(folders) - 1) /\ (k - 1) + 1 = k
        BY <1>2, <3>2
    <3>4. k - 1 \in 1..Len(folders') /\ y = folders'[k - 1]
        BY <1>2, <2>1, <3>1, <3>3
    <3> QED BY <3>4 DEF Planned
  <2>6. swept' \subseteq swept \cup Unseen /\ there' \subseteq there
      BY <2>1, <2>4
  <2> QED BY <1>1, <2>5, <2>6, SweptKept
<1> QED BY <1>3, <1>4

LEMMA AddSweeps ==
    ASSUME TypeOK, SweptInv, NEW x \in Nodes, AddNode(x)
    PROVE  SweptInv'
<1>1. /\ there' = there \cup {x} /\ adds' = adds + 1
      /\ UNCHANGED client /\ swept' = swept
    BY DEF AddNode
<1>2. ASSUME NEW y PROVE Planned(y)' <=> Planned(y)
    BY <1>1 DEF client, Planned, Over, Walking
<1>3. swept' \cup Unseen' \subseteq (swept \cup Unseen) \cup {x}
    BY <1>1, <1>2 DEF Unseen
<1>4. IsFiniteSet(swept \cup Unseen)
  <2>1. swept \cup Unseen \subseteq Nodes
      BY DEF Unseen, TypeOK
  <2> QED BY <2>1, TreeAssumption, FS_Subset
<1> DEFINE w == swept \cup Unseen
<1> HIDE DEF w
<1>5. /\ IsFiniteSet(w \cup {x})
      /\ Cardinality(w \cup {x}) = Cardinality(w) \/ Cardinality(w \cup {x}) = Cardinality(w) + 1
    BY <1>4, FS_AddElement DEF w
<1>6. /\ IsFiniteSet(swept' \cup Unseen')
      /\ Cardinality(swept' \cup Unseen') <= Cardinality(w \cup {x})
    BY <1>3, <1>5, FS_Subset DEF w
<1>7. /\ Cardinality(swept' \cup Unseen') \in Nat /\ Cardinality(w) \in Nat
      /\ Cardinality(w \cup {x}) \in Nat /\ adds \in Nat
    BY <1>4, <1>5, <1>6, FS_CardinalityType, ChangesAssumption DEF TypeOK, w
<1>8. Cardinality(w) <= adds
    BY DEF SweptInv, w
<1>9. Cardinality(swept' \cup Unseen') <= adds'
    BY <1>1, <1>5, <1>6, <1>7, <1>8
<1> QED BY <1>9 DEF SweptInv

LEMMA RemoveSweeps ==
    ASSUME TypeOK, SweptInv, NEW x \in Nodes \cup {Root}, RemoveNode(x)
    PROVE  SweptInv'
<1>1. there' \subseteq there /\ adds' = adds /\ UNCHANGED client /\ swept' = swept
    BY DEF RemoveNode
<1>2. ASSUME NEW y PROVE Planned(y)' <=> Planned(y)
    BY <1>1 DEF client, Planned, Over, Walking
<1> QED BY <1>1, <1>2, SweptKept

LEMMA SweptStep ==
    TypeOK /\ OrderInv /\ TreeInv /\ SweptInv /\ [Next]_vars => SweptInv'
<1> SUFFICES ASSUME TypeOK, OrderInv, TreeInv, SweptInv, [Next]_vars PROVE SweptInv'
    OBVIOUS
<1>1. CASE Finish \/ Fault
    BY <1>1, SweptWhenOver DEF Finish, Fault, Fail, bounds
<1>2. CASE UNCHANGED vars
  <2>1. ASSUME NEW y PROVE Planned(y)' <=> Planned(y)
      BY <1>2 DEF vars, client, Planned, Over, Walking
  <2>2. there' = there /\ swept' = swept /\ adds' = adds
      BY <1>2 DEF vars, bounds
  <2> QED BY <2>1, <2>2, SweptKept
<1> QED BY <1>1, <1>2, LookSweeps, WalkSweeps, ListSweeps, DeleteFileSweeps, DescendSweeps,
           WalkedAllSweeps, DeleteOneSweeps, DeleteNextSweeps, AddSweeps, RemoveSweeps
        DEF Next, Progress, OthersChange

LEMMA StepIndInv == TreeIndInv /\ [Next]_vars => TreeIndInv'
    BY TypeStep, OrderStep, TreeStep, ThereStep, ReasonStep, SweptStep DEF TreeIndInv

\* Only the last DELETE of the call takes the folder itself: a folder that has
\* others behind it in the order of deletion holds none of them.
LEMMA RootStep ==
    TypeOK /\ OrderInv /\ [Next]_vars =>
        (Root \in (there \ there') /\ removals' = removals => folders' = <<>>)
<1> SUFFICES ASSUME TypeOK, OrderInv, [Next]_vars, Root \in there, Root \notin there',
                    removals' = removals
             PROVE  folders' = <<>>
    OBVIOUS
<1>1. CASE DeleteOne
    BY <1>1 DEF DeleteOne, OrderInv
<1>2. CASE DeleteNext
  <2>1. /\ pc = "delete" /\ folders # <<>> /\ ChildrenFirst(folders)
        /\ there' = there \ Below(Head(folders)) /\ folders' = Tail(folders)
      BY <1>2 DEF DeleteNext, DeleteFolder, OrderInv
  <2>2. /\ Len(folders) \in Nat \ {0} /\ Head(folders) = folders[1]
        /\ Tail(folders) \in Seq(Folders \cup {Root}) /\ Len(Tail(folders)) = Len(folders) - 1
        /\ \A k \in 1..Len(folders) : folders[k] \in All
      BY <2>1, HeadAndTail, ElementOfSeq DEF TypeOK, All, Nodes
  <2>3. folders[1] = Root
      BY <2>1, <2>2, PathRoot DEF Below
  <2>4. ~(Len(folders) > 1)
    <3>1. ASSUME Len(folders) > 1 PROVE FALSE
      <4>1. 1 \in 1..Len(folders) /\ 2 \in 1..Len(folders) /\ 1 < 2
          BY <2>2, <3>1
      <4>2. folders[1] \notin Path(folders[2]) /\ folders[2] \in All
          BY <2>1, <2>2, <4>1 DEF ChildrenFirst
      <4> QED BY <2>3, <4>2, RootOnPath
    <3> QED BY <3>1
  <2>5. Len(Tail(folders)) = 0
      BY <2>2, <2>4
  <2>6. Tail(folders) = <<>>
      BY <2>2, <2>5, EmptySeq
  <2> QED BY <2>1, <2>6
<1>3. ASSUME NEW x \in Files, DeleteFile(x) PROVE FALSE
    BY <1>3, TreeAssumption DEF DeleteFile, Nodes
<1>4. ASSUME NEW x \in Nodes \cup {Root}, RemoveNode(x) PROVE FALSE
    BY <1>4 DEF RemoveNode, TypeOK
<1>5. ASSUME NEW x \in Nodes, AddNode(x) PROVE FALSE
    BY <1>5 DEF AddNode
<1>6. CASE Look \/ Walk \/ ListFiles \/ ListFolders \/ Descend \/ WalkedAll \/ Finish \/ Fault
    BY <1>6 DEF Look, Walk, ListFiles, ListFolders, Descend, WalkedAll, Finish, Fault
<1>7. CASE UNCHANGED vars
    BY <1>7 DEF vars
<1> QED BY <1>1, <1>2, <1>3, <1>4, <1>5, <1>6, <1>7 DEF Next, Progress, OthersChange
-----------------------------------------------------------------------------
LEMMA IndInvSwept == TreeIndInv => OnlyAddedNodesAreSwept
<1> SUFFICES ASSUME TreeIndInv PROVE Cardinality(swept) <= adds
    BY DEF OnlyAddedNodesAreSwept
<1>1. swept \cup Unseen \subseteq Nodes /\ SweptInv /\ adds \in Nat
    BY ChangesAssumption DEF TreeIndInv, Unseen, TypeOK
<1>2. IsFiniteSet(swept \cup Unseen)
    BY <1>1, TreeAssumption, FS_Subset
<1>3. IsFiniteSet(swept) /\ Cardinality(swept) <= Cardinality(swept \cup Unseen)
    BY <1>2, FS_Subset
<1>4. Cardinality(swept) \in Nat /\ Cardinality(swept \cup Unseen) \in Nat
    BY <1>2, <1>3, FS_CardinalityType
<1> QED BY <1>1, <1>3, <1>4 DEF SweptInv

LEMMA Invariance == Spec => []TreeIndInv
    BY InitIndInv, StepIndInv, PTL DEF Spec

\* Type correctness.
THEOREM TreeTypeCorrect == Spec => []TypeOK
<1>1. TreeIndInv => TypeOK
    BY DEF TreeIndInv
<1> QED BY <1>1, Invariance, PTL

\* A DELETE takes nothing unseen but what others have added: the walk has listed
\* everything else, and deletes it before the folder that it is in.
THEOREM SweptWasAdded == Spec => []OnlyAddedNodesAreSwept
    BY IndInvSwept, Invariance, PTL

\* While others remove nothing, the call finds nothing missing that it has seen.
THEOREM NothingVanishes == Spec => []MissingIsExplained
<1>1. TreeIndInv => MissingIsExplained
    BY DEF TreeIndInv, ThereInv, MissingIsExplained
<1> QED BY <1>1, Invariance, PTL

\* The folder itself goes with the last DELETE.
THEOREM RootIsDeletedLast == Spec => RootGoesLast
<1>1. TreeIndInv /\ [Next]_vars =>
        [(Root \in (there \ there') /\ removals' = removals) => (folders' = <<>>)]_vars
    BY RootStep DEF TreeIndInv
<1> QED BY <1>1, Invariance, PTL DEF Spec, RootGoesLast
=============================================================================
