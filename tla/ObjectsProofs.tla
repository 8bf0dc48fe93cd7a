---------------------------- MODULE ObjectsProofs ----------------------------
(***************************************************************************)
(* Theorems about Objects: what has been proved of an object, of a         *)
(* download and of a deletion on their own holds of the item that a        *)
(* listing made and of what began with it, and a listing fails for a       *)
(* reason.                                                                 *)
(***************************************************************************)
EXTENDS Objects, TLAPS

ItemP  == INSTANCE ResolveProofs
ChunkP == INSTANCE DownloadProofs WITH
            call <- chunk_call, faults <- chunk_faults, cancels <- chunk_cancels
TreeP  == INSTANCE DeleteTreeProofs

\* An item is at rest, or as Resolve has it; there is one once it can be seen.
ItemInv ==
    /\ NoItem \/ ItemP!ResolveInv
    /\ stage = "list" /\ List!Running => NoItem

\* The session is at rest until it is entered.
ChunkInv ==
    /\ ChunkP!DownloadInv
    /\ stage # "download" => NoChunks

\* The deletion is at rest until it is begun.
DeleteInv ==
    /\ TreeP!TreeIndInv
    /\ stage # "delete" => NoDeletion

\* Where a listing has seen something else than a folder that it can use.
Excuse ==
    \/ list_faults > 0
    \/ \E p \in seen : p = List!Missing \/ p.odd
    \/ List!File \in seen /\ \E p \in seen : p.what = "folder"

SeenInv ==
    /\ api = "python" /\ place \in seen
    /\ list_pc = "file" => Excuse \/ List!File \in seen
    /\ list_pc = "failed" => Excuse

ListInv == List!TypeOK /\ SeenInv

ObjectsInv ==
    /\ stage \in {"list", "item", "download", "delete"}
    /\ ItemInv /\ ChunkInv /\ DeleteInv /\ ListInv
-----------------------------------------------------------------------------
(* The parts as their theorems name them. *)

LEMMA SameInit == Item!Init <=> ItemP!Init
    BY DEF Item!Init, Item!NewObject, Item!NewTask, Item!NoCall, Item!HasTask, Item!PathKnown,
           ItemP!Init, ItemP!NewObject, ItemP!NewTask, ItemP!NoCall, ItemP!HasTask, ItemP!PathKnown

LEMMA SameBackground == Item!Background <=> ItemP!Background
<1>1. Item!Requests = ItemP!Requests /\ Item!Finished = ItemP!Finished
    BY DEF Item!Requests, ItemP!Requests, Item!Finished, ItemP!Finished
<1>2. \A request \in Item!Requests : Item!Answered(request) <=> ItemP!Answered(request)
    BY DEF Item!Answered, Item!Arrived, ItemP!Answered, ItemP!Arrived
<1>3. Item!FileMerged <=> ItemP!FileMerged
    BY DEF Item!FileMerged, Item!ReadsItem, Item!IsFolder,
           ItemP!FileMerged, ItemP!ReadsItem, ItemP!IsFolder
<1>4. (Item!ItemMerged <=> ItemP!ItemMerged) /\ (Item!Stops <=> ItemP!Stops)
      /\ (Item!RequestFails <=> ItemP!RequestFails)
    BY <1>1 DEF Item!ItemMerged, Item!RequestFails, Item!Stops,
                ItemP!ItemMerged, ItemP!RequestFails, ItemP!Stops
<1> QED BY <1>1, <1>2, <1>3, <1>4 DEF Item!Background, ItemP!Background

LEMMA SameCalls ==
    ASSUME NEW c \in Callers
    PROVE  /\ Item!Resolve(c) <=> ItemP!Resolve(c)
           /\ Item!Join(c) <=> ItemP!Join(c)
           /\ Item!Cancel(c) <=> ItemP!Cancel(c)
           /\ Item!Return(c) <=> ItemP!Return(c)
<1>1. Item!Resolve(c) <=> ItemP!Resolve(c)
    BY DEF Item!Resolve, Item!Called, Item!TakesHandle, Item!Excused, Item!Busy, Item!HasTask,
           ItemP!Resolve, ItemP!Called, ItemP!TakesHandle, ItemP!Excused, ItemP!Busy, ItemP!HasTask
<1>2. Item!Join(c) <=> ItemP!Join(c)
    BY DEF Item!Join, Item!Busy, Item!TaskEnded, Item!Finished, Item!IsFolder, Item!Stored, Item!JoinResult,
           ItemP!Join, ItemP!Busy, ItemP!TaskEnded, ItemP!Finished, ItemP!IsFolder, ItemP!Stored, ItemP!JoinResult
<1>3. Item!Cancel(c) <=> ItemP!Cancel(c)
    BY DEF Item!Cancel, Item!Busy, Item!Over, Item!NoCall,
           ItemP!Cancel, ItemP!Busy, ItemP!Over, ItemP!NoCall
<1>4. Item!Return(c) <=> ItemP!Return(c)
    BY DEF Item!Return, Item!Over, Item!NoCall, ItemP!Return, ItemP!Over, ItemP!NoCall
<1> QED BY <1>1, <1>2, <1>3, <1>4

LEMMA SameDrop == Item!Drop <=> ItemP!Drop
    BY DEF Item!Drop, Item!Aborts, Item!Finished, ItemP!Drop, ItemP!Aborts, ItemP!Finished

LEMMA SameReceived == Item!Received = ItemP!Received
    BY DEF Item!Received, Item!Requests, Item!Arrived,
           ItemP!Received, ItemP!Requests, ItemP!Arrived

LEMMA SameFresh ==
    /\ Chunks!Fresh <=> ChunkP!Fresh
    /\ Chunks!Servers = ChunkP!Servers
    BY DEF Chunks!Fresh, Chunks!Unknown, Chunks!NoCall, Chunks!Servers,
           ChunkP!Fresh, ChunkP!Unknown, ChunkP!NoCall, ChunkP!Servers

LEMMA SameReads ==
    ASSUME NEW r \in Readers
    PROVE  Chunks!Progress(r) \/ Chunks!Fails(r) \/ Chunks!Cancel(r) => ChunkP!Next
<1>1. Chunks!GetChunk(r) => ChunkP!GetChunk(r)
    BY DEF Chunks!GetChunk, Chunks!Begun, Chunks!Idle, Chunks!given,
           ChunkP!GetChunk, ChunkP!Begun, ChunkP!Idle, ChunkP!given
<1>2. Chunks!Answered(r) => ChunkP!Answered(r)
    BY DEF Chunks!Answered, Chunks!Answers, Chunks!MinOf, Chunks!NewTotal, Chunks!NewPosition,
           Chunks!IsFinished, Chunks!Known, Chunks!Unknown, Chunks!given, Chunks!history,
           ChunkP!Answered, ChunkP!Answers, ChunkP!MinOf, ChunkP!NewTotal, ChunkP!NewPosition,
           ChunkP!IsFinished, ChunkP!Known, ChunkP!Unknown, ChunkP!given, ChunkP!history
<1>3. Chunks!Deliver(r) => ChunkP!Deliver(r)
    BY DEF Chunks!Deliver, Chunks!NoCall, Chunks!Unknown, Chunks!given,
           ChunkP!Deliver, ChunkP!NoCall, ChunkP!Unknown, ChunkP!given
<1>4. Chunks!Unsatisfiable(r) => ChunkP!Unsatisfiable(r)
    BY DEF Chunks!Unsatisfiable, Chunks!NoCall, Chunks!Unknown, Chunks!given, Chunks!history,
           ChunkP!Unsatisfiable, ChunkP!NoCall, ChunkP!Unknown, ChunkP!given, ChunkP!history
<1>5. Chunks!Fails(r) => ChunkP!Fails(r)
    BY DEF Chunks!Fails, Chunks!NoCall, Chunks!Unknown, Chunks!given, Chunks!history,
           ChunkP!Fails, ChunkP!NoCall, ChunkP!Unknown, ChunkP!given, ChunkP!history
<1>6. Chunks!Cancel(r) => ChunkP!Cancel(r)
    BY DEF Chunks!Cancel, Chunks!NoCall, Chunks!Unknown, Chunks!given, Chunks!history,
           ChunkP!Cancel, ChunkP!NoCall, ChunkP!Unknown, ChunkP!given, ChunkP!history
<1> QED BY <1>1, <1>2, <1>3, <1>4, <1>5, <1>6 DEF Chunks!Progress, ChunkP!Next, ChunkP!Progress
LEMMA SameTree ==
    /\ Nodes = TreeP!Nodes
    /\ \A x : Path(x) = TreeP!Path(x)
    /\ \A s : IsFiniteSet(s) = TreeP!IsFiniteSet(s)
<1>1. Nodes = TreeP!Nodes
    BY DEF Nodes, TreeP!Nodes
<1>2. Paths = TreeP!Paths
    BY <1>1 DEF Paths, TreeP!Paths
<1> QED BY <1>1, <1>2 DEF Path, TreeP!Path, IsFiniteSet, TreeP!IsFiniteSet

LEMMA SameDeletion ==
    /\ Tree!Init => TreeP!Init
    /\ Tree!Fresh <=> TreeP!Fresh
    /\ Tree!Worlds = TreeP!Worlds /\ Tree!Arguments = TreeP!Arguments
<1>1. Tree!Nodes = TreeP!Nodes
    BY DEF Tree!Nodes, TreeP!Nodes
<1>2. Tree!Worlds = TreeP!Worlds
    BY <1>1 DEF Tree!Worlds, Tree!Trees, TreeP!Worlds, TreeP!Trees
<1>3. Tree!Arguments = TreeP!Arguments
    BY DEF Tree!Arguments, TreeP!Arguments
<1>4. Tree!Fresh <=> TreeP!Fresh
    BY DEF Tree!Fresh, Tree!None, TreeP!Fresh, TreeP!None
<1> QED BY <1>2, <1>3, <1>4 DEF Tree!Init, TreeP!Init

LEMMA SameDeletionSteps == Tree!Progress \/ Tree!Fault \/ Tree!OthersChange => TreeP!Next
<1>1. Tree!Nodes = TreeP!Nodes /\ \A f : Tree!ChildrenOf(f) = TreeP!ChildrenOf(f)
    BY DEF Tree!Nodes, TreeP!Nodes, Tree!ChildrenOf, TreeP!ChildrenOf
<1>2. \A f : Tree!Below(f) = TreeP!Below(f)
  <2>1. Tree!Paths = TreeP!Paths
      BY <1>1 DEF Tree!Paths, TreeP!Paths
  <2> QED BY <2>1 DEF Tree!Path, TreeP!Path, Tree!Below, TreeP!Below
<1>3. \A f : Tree!DeleteFolder(f) <=> TreeP!DeleteFolder(f)
    BY <1>2 DEF Tree!DeleteFolder, TreeP!DeleteFolder
<1>4. Tree!Look => TreeP!Look
    BY <1>1 DEF Tree!Look, TreeP!Look, Tree!Fail, TreeP!Fail, Tree!bounds, TreeP!bounds
<1>5. Tree!DeleteOne => TreeP!DeleteOne
    BY <1>3 DEF Tree!DeleteOne, TreeP!DeleteOne, Tree!Fail, TreeP!Fail, Tree!bounds, TreeP!bounds
<1>6. Tree!Walk => TreeP!Walk
    BY DEF Tree!Walk, TreeP!Walk, Tree!None, TreeP!None, Tree!bounds, TreeP!bounds,
           Tree!Last, TreeP!Last, Tree!Front, TreeP!Front
<1>7. Tree!ListFiles \/ Tree!ListFolders => TreeP!ListFiles \/ TreeP!ListFolders
    BY <1>1 DEF Tree!ListFiles, TreeP!ListFiles, Tree!ListFolders, TreeP!ListFolders,
                Tree!None, TreeP!None, Tree!Fail, TreeP!Fail, Tree!bounds, TreeP!bounds
<1>8. Tree!Listed <=> TreeP!Listed
    BY DEF Tree!Listed, TreeP!Listed, Tree!None, TreeP!None
<1>9. \A x \in Files : Tree!DeleteFile(x) => TreeP!DeleteFile(x)
    BY <1>8 DEF Tree!DeleteFile, TreeP!DeleteFile, Tree!Fail, TreeP!Fail,
                Tree!bounds, TreeP!bounds
<1>10. Tree!Descend => TreeP!Descend
  <2>1. Tree!Cardinality(children) = TreeP!Cardinality(children)
      BY Zenon DEF Tree!Cardinality, TreeP!Cardinality
  <2>2. Tree!SetToSeq(children) = TreeP!SetToSeq(children)
      BY <2>1, Zenon DEF Tree!SetToSeq, TreeP!SetToSeq, Tree!IsInjective, TreeP!IsInjective
  <2> QED BY <1>8, <2>2 DEF Tree!Descend, TreeP!Descend, Tree!Push, TreeP!Push,
                            Tree!bounds, TreeP!bounds
<1>11. Tree!WalkedAll \/ Tree!Finish => TreeP!WalkedAll \/ TreeP!Finish
    BY DEF Tree!WalkedAll, TreeP!WalkedAll, Tree!Finish, TreeP!Finish,
           Tree!DeletionOrder, TreeP!DeletionOrder, Tree!Reverse, TreeP!Reverse,
           Tree!bounds, TreeP!bounds
<1>12. Tree!DeleteNext => TreeP!DeleteNext
    BY <1>3 DEF Tree!DeleteNext, TreeP!DeleteNext, Tree!Fail, TreeP!Fail, Tree!bounds, TreeP!bounds
<1>13. Tree!Fault => TreeP!Fault
    BY <1>8 DEF Tree!Fault, TreeP!Fault, Tree!Fail, TreeP!Fail
<1>14. Tree!OthersChange => TreeP!OthersChange
    BY <1>1, <1>2 DEF Tree!OthersChange, TreeP!OthersChange, Tree!AddNode, TreeP!AddNode,
           Tree!RemoveNode, TreeP!RemoveNode, Tree!Running, TreeP!Running,
           Tree!client, TreeP!client
<1> QED BY <1>4, <1>5, <1>6, <1>7, <1>9, <1>10, <1>11, <1>12, <1>13, <1>14
        DEF Tree!Progress, TreeP!Next, TreeP!Progress
-----------------------------------------------------------------------------
(* The parts at rest. *)

\* A deletion before its first step, of a folder that is there or is not.
LEMMA FreshDeletion ==
    there \in Tree!Worlds /\ op \in Tree!Arguments /\ Tree!Fresh => TreeP!TreeIndInv
<1>1. there \in Tree!Worlds /\ op \in Tree!Arguments /\ Tree!Fresh => TreeP!Init
    BY SameDeletion DEF TreeP!Init
<1> QED BY <1>1, TreeP!InitIndInv, SameTree, TreeAssumption, ChangesAssumption

LEMMA RestingDeletion == NoDeletion => TreeP!TreeIndInv
    BY FreshDeletion DEF NoDeletion, Tree!Worlds, Tree!Arguments

LEMMA DeletionStays ==
    DeleteInv /\ UNCHANGED deleteVars => TreeP!TreeIndInv' /\ (NoDeletion => NoDeletion')
<1> SUFFICES ASSUME DeleteInv, UNCHANGED deleteVars
             PROVE  TreeP!TreeIndInv' /\ (NoDeletion => NoDeletion')
    OBVIOUS
<1>1. UNCHANGED TreeP!vars
    BY DEF deleteVars, TreeP!vars, TreeP!client, TreeP!bounds
<1>2. TreeP!TreeIndInv'
    BY <1>1, TreeP!StepIndInv, SameTree, TreeAssumption, ChangesAssumption DEF DeleteInv
<1>3. NoDeletion => NoDeletion'
    BY DEF deleteVars, NoDeletion, Tree!Fresh, Tree!None
<1> QED BY <1>2, <1>3

\* A session before its first call, of no file or of any.
LEMMA FreshChunks ==
    length \in Nat /\ server \in Chunks!Servers /\ Chunks!Fresh => ChunkP!DownloadInv
    BY ChunkP!FreshInv, SameFresh, ReadsAssumption, SizesAssumption

LEMMA RestingChunks == NoChunks => ChunkP!DownloadInv
    BY FreshChunks DEF NoChunks, Chunks!Servers

\* An object as it is made.
LEMMA ItemBegins == Item!Init => ItemP!ResolveInv
    BY SameInit, ItemP!InitInv, KindsAssumption, CallsAssumption DEF AllKinds, ItemP!AllKinds

\* No step of Resolve is one of an item at rest.
LEMMA RestingItem ==
    ASSUME NoItem
    PROVE  /\ ~Item!Background /\ ~Item!Drop
           /\ \A c \in Callers :
                ~Item!Resolve(c) /\ ~Item!Join(c) /\ ~Item!Cancel(c) /\ ~Item!Return(c)
    BY DEF NoItem, Item!NoCall, Item!Background, Item!Answered, Item!Requests,
           Item!FileMerged, Item!ItemMerged, Item!RequestFails, Item!Stops, Item!Drop, Item!Resolve, Item!Join, Item!Cancel, Item!Return, Item!Busy

LEMMA ItemStays == ItemInv /\ UNCHANGED itemVars => (NoItem \/ ItemP!ResolveInv)'
<1> SUFFICES ASSUME ItemInv, UNCHANGED itemVars PROVE (NoItem \/ ItemP!ResolveInv)'
    OBVIOUS
<1>1. CASE NoItem
    BY <1>1 DEF NoItem, itemVars
<1>2. CASE ItemP!ResolveInv
  <2>1. UNCHANGED ItemP!vars
      BY DEF itemVars, ItemP!vars
  <2>2. ItemP!ResolveInv'
      BY <1>2, <2>1, ItemP!Inductive, KindsAssumption, CallsAssumption DEF AllKinds, ItemP!AllKinds
  <2> QED BY <2>2
<1> QED BY <1>1, <1>2 DEF ItemInv

LEMMA ChunksStay == ChunkInv /\ UNCHANGED chunkVars => ChunkP!DownloadInv' /\ (NoChunks => NoChunks')
<1> SUFFICES ASSUME ChunkInv, UNCHANGED chunkVars
             PROVE  ChunkP!DownloadInv' /\ (NoChunks => NoChunks')
    OBVIOUS
<1>1. UNCHANGED ChunkP!vars
    BY DEF chunkVars, ChunkP!vars, ChunkP!given, ChunkP!history
<1>2. ChunkP!DownloadInv'
    BY <1>1, ChunkP!Inductive, SizesAssumption, ReadsAssumption DEF ChunkInv
<1>3. NoChunks => NoChunks'
    BY DEF chunkVars, NoChunks, Chunks!Fresh, Chunks!Unknown, Chunks!NoCall
<1> QED BY <1>2, <1>3
-----------------------------------------------------------------------------
(* The list. *)

LEMMA FreshList ==
    ASSUME NEW argument \in {"omitted", "root", "path"}, NEW named \in List!Places,
           List!Start("python", argument, named)
    PROVE  ListInv
<1>1. List!TypeOK
    BY PythonAssumption, ListingAssumption DEF List!Start, List!TypeOK, List!Nothing
<1> QED BY <1>1 DEF List!Start, ListInv, SeenInv

LEMMA ListTypeStep ==
    List!TypeOK /\ (List!Progress \/ List!Fault \/ List!Change) => List!TypeOK'
<1> SUFFICES ASSUME List!TypeOK, List!Progress \/ List!Fault \/ List!Change PROVE List!TypeOK'
    OBVIOUS
<1>1. CASE \/ List!GetLibrary \/ List!GetRootFolder \/ List!ItemsRefused
           \/ List!ItemsMissing \/ List!GetFile
  <2>1. UNCHANGED <<api, arg, place, seen, list_faults, changes>>
      BY <1>1 DEF List!GetLibrary, List!GetRootFolder, List!ItemsRefused, List!ItemsMissing,
                  List!GetFile, List!Go, List!bounds
  <2>2. list_pc' \in {"library", "root_folder", "items", "file", "ok", "failed"}
      BY <1>1 DEF List!GetLibrary, List!GetRootFolder, List!ItemsRefused, List!ItemsMissing,
                  List!GetFile, List!Go, List!OnServerError
  <2>3. CASE answer' = answer
      BY <2>1, <2>2, <2>3 DEF List!TypeOK
  <2>4. CASE answer' # answer
    <3>1. answer' = [what |-> "file", rows |-> 1] /\ place.what = "file"
        BY <1>1, <2>4 DEF List!GetLibrary, List!GetRootFolder, List!ItemsRefused,
                          List!ItemsMissing, List!GetFile, List!Go
    <3> QED BY <2>1, <2>2, <3>1, ListingAssumption DEF List!TypeOK
  <2> QED BY <2>3, <2>4
<1>2. CASE List!GetItems
  <2>1. /\ UNCHANGED <<api, arg, place, seen, list_faults, changes>>
        /\ list_pc' \in {"ok", "failed"}
        /\ \/ answer' = List!Nothing
           \/ answer' = [what |-> "items", rows |-> List!Limited(place.rows)]
        /\ place.what = "folder"
      BY <1>2 DEF List!GetItems, List!Converted, List!bounds
  <2>2. place.rows \in 0..MaxRows
      BY ListingAssumption DEF List!TypeOK, List!Places, List!FolderPlaces, List!Folder,
                               List!File, List!Missing
  <2>3. List!Limited(place.rows) \in 0..MaxRows
      BY <2>2, ListingAssumption DEF List!Limited, List!MinOf
  <2>4. answer' \in [what : {"nothing", "items", "file"}, rows : (0..MaxRows) \cup {1}]
      BY <2>1, <2>3, ListingAssumption DEF List!Nothing
  <2> QED BY <2>1, <2>4 DEF List!TypeOK
<1>3. CASE List!Fault
    BY <1>3, ListingAssumption DEF List!Fault, List!OnServerError, List!TypeOK
<1>4. CASE List!Change
  <2>1. UNCHANGED <<api, arg, list_pc, answer, list_faults>> /\ place' \in List!Places
      BY <1>4 DEF List!Change
  <2>2. seen' \subseteq List!Places
      BY <1>4, <2>1 DEF List!Change, List!TypeOK
  <2>3. changes' \in 0..MaxChanges
      BY <1>4, ListingAssumption DEF List!Change, List!TypeOK
  <2> QED BY <2>1, <2>2, <2>3 DEF List!TypeOK
<1> QED BY <1>1, <1>2, <1>3, <1>4 DEF List!Progress

\* What the path named stays among what it is known to have named.
LEMMA ListStep == ListInv /\ (List!Progress \/ List!Fault \/ List!Change) => ListInv'
<1> SUFFICES ASSUME ListInv, List!Progress \/ List!Fault \/ List!Change PROVE ListInv'
    OBVIOUS
<1>0. List!TypeOK' /\ place \in List!Places /\ list_faults \in Nat /\ SeenInv
    BY ListTypeStep, ListingAssumption DEF ListInv, List!TypeOK
<1> SUFFICES SeenInv'
    BY <1>0 DEF ListInv
<1>1. CASE List!GetLibrary \/ List!GetRootFolder
    BY <1>0, <1>1 DEF List!GetLibrary, List!GetRootFolder, List!Go, List!bounds, SeenInv, Excuse
<1>2. CASE List!GetItems
  <2>1. /\ UNCHANGED <<api, place, seen, list_faults>>
        /\ list_pc' = IF place.odd THEN "failed" ELSE "ok"
      BY <1>0, <1>2 DEF List!GetItems, List!Converted, List!bounds, SeenInv
  <2>2. place.odd => Excuse
      BY <1>0 DEF SeenInv, Excuse
  <2> QED BY <1>0, <2>1, <2>2 DEF SeenInv, Excuse
<1>3. CASE List!ItemsRefused
  <2>1. /\ UNCHANGED <<api, place, seen, list_faults>> /\ list_pc' = "file"
        /\ place.what = "file"
      BY <1>0, <1>3 DEF List!ItemsRefused, List!OnServerError, List!Go, List!bounds, List!Refused,
                  List!ScopedView, SeenInv
  <2>2. place = List!File
      BY <1>0, <2>1 DEF SeenInv, List!Places, List!FolderPlaces, List!Folder, List!File, List!Missing
  <2> QED BY <1>0, <2>1, <2>2 DEF SeenInv, Excuse
<1>4. CASE List!ItemsMissing
  <2>1. /\ UNCHANGED <<api, place, seen, list_faults>> /\ list_pc' \in {"file", "failed"}
        /\ place.what = "missing"
      BY <1>4 DEF List!ItemsMissing, List!OnServerError, List!Go, List!bounds
  <2>2. place = List!Missing
      BY <1>0, <2>1 DEF SeenInv, List!Places, List!FolderPlaces, List!Folder, List!File, List!Missing
  <2> QED BY <1>0, <2>1, <2>2 DEF SeenInv, Excuse
<1>5. CASE List!GetFile
  <2>1. /\ UNCHANGED <<api, place, seen, list_faults>> /\ list_pc = "file"
        /\ list_pc' = IF place.what = "file" THEN "ok" ELSE "failed"
      BY <1>5 DEF List!GetFile, List!bounds
  <2>2. place.what # "file" => place = List!Missing \/ place.what = "folder"
      BY <1>0 DEF SeenInv, List!Places, List!FolderPlaces, List!Folder, List!File, List!Missing
  <2>3. place.what # "file" => Excuse
      BY <1>0, <2>1, <2>2 DEF SeenInv, Excuse
  <2> QED BY <1>0, <2>1, <2>3 DEF SeenInv, Excuse
<1>6. CASE List!Fault
    BY <1>0, <1>6 DEF List!Fault, List!OnServerError, SeenInv, Excuse
<1>7. CASE List!Change
  <2>1. /\ UNCHANGED <<api, list_pc, list_faults>> /\ place' \in List!Places
        /\ seen' = seen \cup {place'} /\ list_pc \notin {"ok", "failed"}
      BY <1>7 DEF List!Change, List!Running
  <2>2. Excuse => Excuse'
      BY <2>1 DEF Excuse
  <2> QED BY <1>0, <2>1, <2>2 DEF SeenInv
<1> QED BY <1>1, <1>2, <1>3, <1>4, <1>5, <1>6, <1>7 DEF List!Progress

LEMMA ListStays == ListInv /\ UNCHANGED listVars => ListInv'
    BY DEF listVars, ListInv, SeenInv, Excuse, List!TypeOK
-----------------------------------------------------------------------------
(* The steps of the whole. *)

LEMMA InitInv == Init => ObjectsInv
<1> SUFFICES ASSUME Init PROVE ObjectsInv
    OBVIOUS
<1>1. NoList => ListInv
  <2>1. List!Missing \in List!Places
      BY DEF List!Places
  <2> QED BY <2>1, FreshList DEF NoList
<1>2. List!Init => ListInv
    BY FreshList, PythonAssumption DEF List!Init
<1>3. Item!Init => ItemP!ResolveInv
    BY ItemBegins
<1>4. Chunks!Init => ChunkP!DownloadInv
    BY FreshChunks, SizesAssumption DEF Chunks!Init
<1>5. ListInv
    BY <1>1, <1>2 DEF Init
<1>6. ItemInv
    BY <1>3 DEF Init, ItemInv
<1>7. ChunkInv
    BY <1>4, RestingChunks DEF Init, ChunkInv
<1>8. DeleteInv
    BY FreshDeletion, RestingDeletion DEF Init, Tree!Init, DeleteInv
<1> QED BY <1>5, <1>6, <1>7, <1>8 DEF Init, ObjectsInv

\* An object begins as Resolve has it begin.
LEMMA MadeItem ==
    ASSUME NoItem, NEW kind \in Kinds, Made(kind)
    PROVE  ItemP!ResolveInv'
<1>1. Item!Init'
    BY DEF NoItem, Made, Item!Init
<1> QED BY <1>1, ItemBegins, PTL

\* One that was dropped before the application saw it is to be aborted, if its
\* task has not failed.
LEMMA DroppedItem == NoItem /\ MadeInVain => ItemP!ResolveInv'
<1> SUFFICES ASSUME NoItem, MadeInVain PROVE ItemP!ResolveInv'
    OBVIOUS
<1>1. PICK kind \in {"file_item", "folder_ref"}, where \in Unmerged :
          /\ object' = [Item!NewObject(kind) EXCEPT !.alive = FALSE]
          /\ task' = where /\ abort' = Item!Aborts(object'.held, where)
    BY DEF MadeInVain
<1>2. object' = [kind |-> kind, alive |-> FALSE, held |-> TRUE, path |-> kind = "folder_ref"]
    BY <1>1 DEF Item!NewObject, Item!HasTask, Item!PathKnown
<1>3. /\ task' \in {"file", "file_in", "failed"} /\ abort' = (task' # "failed")
      /\ merged' = {} /\ cancels' = 0 /\ call' = [c \in Callers |-> Item!NoCall]
    BY <1>1, <1>2 DEF MadeInVain, NoItem, Unmerged, Item!Aborts, Item!Finished
<1>4. kind \in Kinds
    BY PythonAssumption
<1>5. ItemP!TypeOK'
  <2>1. object' \in [kind : Kinds, alive : BOOLEAN, held : BOOLEAN, path : BOOLEAN]
      BY <1>2, <1>4
  <2>2. call' \in [Callers -> [st : {"idle", "waiting", "ok", "no_path", "task_error"},
                               joined : BOOLEAN, excused : BOOLEAN, used : 0..MaxCalls]]
      BY <1>3, CallsAssumption DEF Item!NoCall
  <2>3. cancels' \in 0..MaxCancels
      BY <1>3, CallsAssumption
  <2> QED BY <1>3, <2>1, <2>2, <2>3 DEF ItemP!TypeOK, ItemP!Tasks, ItemP!Finished
<1>6. ItemP!TaskInv' /\ ItemP!HandleInv'
    BY <1>2, <1>3 DEF ItemP!TaskInv, ItemP!HandleInv, ItemP!HasTask, ItemP!TaskEnded, ItemP!Finished
<1>7. ItemP!CallsInv' /\ ItemP!WaitInv'
    BY <1>2, <1>3 DEF ItemP!CallsInv, ItemP!CallOK, ItemP!WaitInv, ItemP!Busy, Item!NoCall
<1> QED BY <1>5, <1>6, <1>7 DEF ItemP!ResolveInv

\* A step of ls; there is an object once it has answered.
LEMMA ListProgressStep == ObjectsInv /\ ListProgress => ObjectsInv'
<1> SUFFICES ASSUME ObjectsInv, ListProgress PROVE ObjectsInv'
    OBVIOUS
<1>1. List!Progress /\ stage = "list" /\ UNCHANGED <<stage, chunkVars, deleteVars>>
    BY DEF ListProgress
<1>2. List!Running
    BY <1>1 DEF List!Progress, List!GetLibrary, List!GetRootFolder, List!GetItems,
               List!ItemsRefused, List!ItemsMissing, List!GetFile, List!Running
<1>3. NoItem
    BY <1>1, <1>2 DEF ObjectsInv, ItemInv
<1>4. ListInv'
    BY <1>1, ListStep DEF ObjectsInv
<1>5. ChunkInv'
  <2>1. NoChunks /\ ChunkInv
      BY <1>1 DEF ObjectsInv, ChunkInv
  <2> QED BY <1>1, <2>1, ChunksStay DEF ChunkInv
<1>6. ItemInv'
  <2>1. ASSUME NEW kind \in KindsOf(answer'.what), Made(kind), list_pc' = "ok" PROVE ItemInv'
    <3>1. kind \in Kinds
        BY <2>1, PythonAssumption DEF KindsOf
    <3>2. ItemP!ResolveInv'
        BY <1>3, <2>1, <3>1, MadeItem
    <3> QED BY <2>1, <3>2 DEF ItemInv, List!Running
  <2>2. ASSUME MadeInVain, list_pc' = "failed" PROVE ItemInv'
    <3>1. ItemP!ResolveInv'
        BY <1>3, <2>2, DroppedItem
    <3> QED BY <2>2, <3>1 DEF ItemInv, List!Running
  <2>3. ASSUME UNCHANGED itemVars PROVE ItemInv'
    <3>1. NoItem'
        BY <1>3, <2>3 DEF NoItem, itemVars, Item!NoCall
    <3> QED BY <3>1 DEF ItemInv
  <2> QED BY <2>1, <2>2, <2>3 DEF ListProgress
<1>7. DeleteInv'
  <2>1. NoDeletion /\ DeleteInv
      BY <1>1 DEF ObjectsInv, DeleteInv
  <2> QED BY <1>1, <2>1, DeletionStays DEF DeleteInv
<1> QED BY <1>1, <1>4, <1>5, <1>6, <1>7 DEF ObjectsInv

LEMMA ListTroubleStep == ObjectsInv /\ ListTrouble => ObjectsInv'
<1> SUFFICES ASSUME ObjectsInv, ListTrouble PROVE ObjectsInv'
    OBVIOUS
<1>1. /\ List!Fault \/ List!Change
      /\ stage = "list"
      /\ UNCHANGED <<stage, itemVars, chunkVars, deleteVars>>
    BY DEF ListTrouble
<1>2. List!Running
    BY <1>1 DEF List!Fault, List!Change, List!Running
<1>3. NoItem'
  <2>1. NoItem
      BY <1>1, <1>2 DEF ObjectsInv, ItemInv
  <2> QED BY <1>1, <2>1 DEF NoItem, itemVars, Item!NoCall
<1>4. ListInv'
    BY <1>1, ListStep DEF ObjectsInv
<1>5. ChunkInv'
  <2>1. NoChunks /\ ChunkInv
      BY <1>1 DEF ObjectsInv, ChunkInv
  <2> QED BY <1>1, <2>1, ChunksStay DEF ChunkInv
<1>6. DeleteInv'
  <2>1. NoDeletion /\ DeleteInv
      BY <1>1 DEF ObjectsInv, DeleteInv
  <2> QED BY <1>1, <2>1, DeletionStays DEF DeleteInv
<1> QED BY <1>1, <1>3, <1>4, <1>5, <1>6 DEF ObjectsInv, ItemInv

LEMMA KeepStep == ObjectsInv /\ Keep => ObjectsInv'
<1> SUFFICES ASSUME ObjectsInv, Keep PROVE ObjectsInv'
    OBVIOUS
<1>1. ListInv'
  <2>1. List!TypeOK'
      BY PythonAssumption, ListingAssumption
         DEF Keep, List!TypeOK, List!Nothing, List!Places
  <2> QED BY <2>1 DEF Keep, ListInv, SeenInv
<1>2. ItemInv'
    BY ItemStays DEF Keep, ObjectsInv, ItemInv
<1>3. ChunkInv'
  <2>1. NoChunks /\ ChunkInv
      BY DEF Keep, ObjectsInv, ChunkInv
  <2> QED BY <2>1, ChunksStay DEF Keep, ChunkInv
<1>4. DeleteInv'
  <2>1. NoDeletion /\ DeleteInv
      BY DEF Keep, ObjectsInv, DeleteInv
  <2> QED BY <2>1, DeletionStays DEF Keep, DeleteInv
<1> QED BY <1>1, <1>2, <1>3, <1>4 DEF Keep, ObjectsInv

\* The item's own steps are those of Resolve; an item at rest takes none.
LEMMA ItemSteps ==
    ASSUME ObjectsInv, TaskStep \/ ItemStep \/ \E c \in Callers : Join(c)
    PROVE  ObjectsInv' /\ ItemP!ResolveInv /\ ItemP!Next
<1>1. Others
    BY DEF TaskStep, ItemStep, Join
<1>2. ItemP!Next /\ ~NoItem
  <2>1. \/ Item!Background \/ Item!Drop
        \/ \E c \in Callers : Item!Resolve(c) \/ Item!Join(c) \/ Item!Cancel(c) \/ Item!Return(c)
      BY DEF TaskStep, ItemStep, Join
  <2> QED BY <2>1, RestingItem, SameBackground, SameDrop, SameCalls DEF ItemP!Next
<1>3. ItemP!ResolveInv
    BY <1>2 DEF ObjectsInv, ItemInv
<1>4. ItemP!ResolveInv'
    BY <1>2, <1>3, ItemP!Inductive, KindsAssumption, CallsAssumption DEF AllKinds, ItemP!AllKinds
<1>5. ItemInv'
  <2>1. ~(stage = "list" /\ List!Running)
      BY <1>2 DEF ObjectsInv, ItemInv
  <2>2. stage' = stage /\ list_pc' = list_pc
      BY <1>1 DEF Others, listVars
  <2> QED BY <1>4, <2>1, <2>2 DEF ItemInv, List!Running
<1>6. ListInv'
    BY <1>1, ListStays DEF Others, ObjectsInv
<1>7. ChunkInv'
    BY <1>1, ChunksStay DEF Others, ObjectsInv, ChunkInv
<1>8. DeleteInv' /\ stage' = stage
    BY <1>1, DeletionStays DEF Others, ObjectsInv, DeleteInv
<1> QED BY <1>2, <1>3, <1>5, <1>6, <1>7, <1>8 DEF ObjectsInv

\* Beginning a download or a deletion leaves the item at rest.
LEMMA BeginSteps ==
    ASSUME ObjectsInv, NEW c \in Callers, Enter(c) \/ DelFolder(c)
    PROVE  ObjectsInv' /\ object.path /\ ItemP!ResolveInv
<1>1. GoesOn(c) /\ stage' \in {"download", "delete"} /\ UNCHANGED listVars
    BY DEF Enter, DelFolder
<1>2. ItemP!ResolveInv /\ object.path
  <2>1. ~NoItem
      BY <1>1 DEF GoesOn, NoItem, Item!NoCall
  <2>2. ItemP!ResolveInv
      BY <2>1 DEF ObjectsInv, ItemInv
  <2> QED BY <1>1, <2>2 DEF ItemP!ResolveInv, ItemP!CallsInv, ItemP!CallOK, GoesOn
<1>3. ItemInv'
    BY <1>1 DEF GoesOn, NoItem, Item!NoCall, ItemInv
<1>4. ListInv'
    BY <1>1, ListStays DEF ObjectsInv
<1>5. NoChunks /\ NoDeletion
    BY <1>1 DEF GoesOn, ObjectsInv, ChunkInv, DeleteInv
<1>6. CASE Enter(c)
  <2>1. length' \in Nat /\ stage' = "download"
      BY <1>6, SizesAssumption DEF Enter
  <2>2. Chunks!Fresh'
      BY <1>5, <1>6 DEF Enter, NoChunks, Chunks!Fresh, Chunks!Unknown, Chunks!NoCall
  <2>3. (length \in Nat /\ server \in Chunks!Servers /\ Chunks!Fresh)'
      BY <1>6, <2>1, <2>2 DEF Enter, Chunks!Servers
  <2>4. ChunkP!DownloadInv'
      BY <2>3, FreshChunks, PTL
  <2>5. DeleteInv'
      BY <1>5, <1>6, DeletionStays DEF Enter, ObjectsInv, DeleteInv
  <2> QED BY <1>2, <1>3, <1>4, <2>1, <2>4, <2>5 DEF ObjectsInv, ChunkInv
<1>7. CASE DelFolder(c)
  <2>1. ChunkInv'
      BY <1>5, <1>7, ChunksStay DEF DelFolder, ObjectsInv, ChunkInv
  <2>2. stage' = "delete" /\ there' \in Tree!Worlds /\ op' \in Tree!Arguments
      BY <1>7 DEF DelFolder, Worlds
  <2>3. Tree!Fresh'
      BY <1>5, <1>7 DEF DelFolder, NoDeletion, Tree!Fresh, Tree!None
  <2>4. (there \in Tree!Worlds /\ op \in Tree!Arguments /\ Tree!Fresh)'
      BY <2>2, <2>3 DEF Tree!Worlds, Tree!Arguments
  <2>5. TreeP!TreeIndInv'
      BY <2>4, FreshDeletion, PTL
  <2>6. DeleteInv'
      BY <2>2, <2>5 DEF DeleteInv
  <2> QED BY <1>2, <1>3, <1>4, <2>1, <2>2, <2>6 DEF ObjectsInv
<1> QED BY <1>6, <1>7

\* The steps of a session are those of Download.
LEMMA ReadSteps == ObjectsInv /\ (ReadTrouble \/ \E r \in Readers : Read(r)) => ObjectsInv'
<1> SUFFICES ASSUME ObjectsInv, ReadTrouble \/ \E r \in Readers : Read(r) PROVE ObjectsInv'
    OBVIOUS
<1>1. DownloadOnly
    BY DEF ReadTrouble, Read
<1>2. ChunkP!Next
    BY SameReads DEF ReadTrouble, Read
<1>3. ChunkP!DownloadInv'
    BY <1>2, ChunkP!Inductive, SizesAssumption, ReadsAssumption DEF ObjectsInv, ChunkInv
<1>4. ChunkInv'
    BY <1>1, <1>3 DEF DownloadOnly, ChunkInv
<1>5. ListInv'
    BY <1>1, ListStays DEF DownloadOnly, ObjectsInv
<1>6. ItemInv'
    BY <1>1, ItemStays DEF DownloadOnly, ObjectsInv, ItemInv
<1>7. DeleteInv' /\ stage' = stage
    BY <1>1, DeletionStays DEF DownloadOnly, ObjectsInv, DeleteInv
<1> QED BY <1>4, <1>5, <1>6, <1>7 DEF ObjectsInv

\* The steps of a deletion are those of DeleteTree.
LEMMA DeletionSteps == ObjectsInv /\ (DeletionStep \/ DeletionTrouble) => ObjectsInv'
<1> SUFFICES ASSUME ObjectsInv, DeletionStep \/ DeletionTrouble PROVE ObjectsInv'
    OBVIOUS
<1>1. DeleteOnly
    BY DEF DeletionStep, DeletionTrouble
<1>2. ChunkInv'
    BY <1>1, ChunksStay DEF DeleteOnly, ObjectsInv, ChunkInv
<1>3. ListInv'
    BY <1>1, ListStays DEF DeleteOnly, ObjectsInv
<1>4. ItemInv'
    BY <1>1, ItemStays DEF DeleteOnly, ObjectsInv, ItemInv
<1>5. TreeP!Next
    BY SameDeletionSteps DEF DeletionStep, DeletionTrouble
<1>6. TreeP!TreeIndInv'
    BY <1>5, TreeP!StepIndInv, SameTree, TreeAssumption, ChangesAssumption
       DEF ObjectsInv, DeleteInv
<1>7. DeleteInv' /\ stage' = stage
    BY <1>1, <1>6 DEF DeleteOnly, DeleteInv
<1> QED BY <1>2, <1>3, <1>4, <1>7 DEF ObjectsInv

LEMMA IdleSteps == ObjectsInv /\ UNCHANGED vars => ObjectsInv'
<1> SUFFICES ASSUME ObjectsInv, UNCHANGED vars PROVE ObjectsInv'
    OBVIOUS
<1>1. UNCHANGED <<stage, listVars, itemVars, chunkVars, deleteVars>>
    BY DEF vars
<1>2. ChunkInv'
    BY <1>1, ChunksStay DEF ObjectsInv, ChunkInv
<1>3. ListInv'
    BY <1>1, ListStays DEF ObjectsInv
<1>4. list_pc' = list_pc
    BY <1>1 DEF listVars
<1>5. ItemInv'
  <2>1. CASE stage = "list" /\ List!Running
    <3>1. NoItem
        BY <2>1 DEF ObjectsInv, ItemInv
    <3>2. NoItem'
        BY <1>1, <3>1 DEF NoItem, itemVars, Item!NoCall
    <3> QED BY <3>2 DEF ItemInv
  <2>2. CASE ~(stage = "list" /\ List!Running)
      BY <1>1, <1>4, <2>2, ItemStays DEF ObjectsInv, ItemInv, List!Running
  <2> QED BY <2>1, <2>2
<1>6. DeleteInv'
    BY <1>1, DeletionStays DEF ObjectsInv, DeleteInv
<1> QED BY <1>1, <1>2, <1>3, <1>5, <1>6 DEF ObjectsInv

LEMMA Inductive == ObjectsInv /\ [Next]_vars => ObjectsInv'
    BY ListProgressStep, ListTroubleStep, KeepStep, ItemSteps, BeginSteps, ReadSteps,
       DeletionSteps, IdleSteps DEF Next

LEMMA Invariance == Spec => []ObjectsInv
    BY InitInv, Inductive, PTL DEF Spec
-----------------------------------------------------------------------------
(* The theorems. *)

\* await_resolve and resolve_file, whoever made the object and whichever
\* operation waits: a call that joined the task and succeeds finds everything
\* the task fetches.
THEOREM JoinersSeeEverything == Spec => []JoinerSeesEverything
<1>1. NoItem => JoinerSeesEverything
    BY DEF NoItem, Item!NoCall, JoinerSeesEverything, Item!JoinerSeesEverything
<1>2. ItemP!ResolveInv => JoinerSeesEverything
    BY DEF ItemP!ResolveInv, ItemP!CallsInv, ItemP!CallOK, ItemP!TaskInv, ItemP!Everything,
           ItemP!ReadsItem, JoinerSeesEverything, Item!JoinerSeesEverything, Item!Everything,
           Item!ReadsItem
<1>3. ObjectsInv => JoinerSeesEverything
    BY <1>1, <1>2 DEF ObjectsInv, ItemInv
<1> QED BY <1>3, Invariance, PTL

\* The errors "file_name or server_relative_path ... even after resolving": a
\* path is missing only for a reason.
THEOREM MissingPathsExplained == Spec => []MissingPathIsExplained
<1>1. NoItem => MissingPathIsExplained
    BY DEF NoItem, Item!NoCall, MissingPathIsExplained, Item!MissingPathIsExplained
<1>2. ItemP!ResolveInv => MissingPathIsExplained
    BY DEF ItemP!ResolveInv, ItemP!CallsInv, ItemP!CallOK, MissingPathIsExplained,
           Item!MissingPathIsExplained
<1>3. ObjectsInv => MissingPathIsExplained
    BY <1>1, <1>2 DEF ObjectsInv, ItemInv
<1> QED BY <1>3, Invariance, PTL

\* Drop for SPFile and SPFolder, also of the objects that ls drops when it
\* fails at a later row: nothing is received after it.
THEOREM NothingReceived == Spec => NothingReceivedAfterDrop
<1> DEFINE Kept == [~object.alive /\ object.held => UNCHANGED Item!Received]_Item!vars
<1>1. ObjectsInv /\ [Next]_vars => Kept
  <2> SUFFICES ASSUME ObjectsInv, [Next]_vars, ~object.alive, object.held
               PROVE  UNCHANGED Item!Received
      OBVIOUS
  <2>1. ~NoItem
      BY DEF NoItem
  <2>2. ASSUME TaskStep \/ ItemStep \/ \E c \in Callers : Join(c)
        PROVE  UNCHANGED Item!Received
    <3>1. UNCHANGED ItemP!Received
        BY <2>2, ItemSteps, ItemP!ReceivesNothing, KindsAssumption, CallsAssumption
           DEF AllKinds, ItemP!AllKinds
    <3>2. Item!Received' = ItemP!Received'
        BY DEF Item!Received, Item!Requests, Item!Arrived,
               ItemP!Received, ItemP!Requests, ItemP!Arrived
    <3> QED BY <3>1, <3>2, SameReceived
  <2>3. ASSUME UNCHANGED <<task, merged>> PROVE UNCHANGED Item!Received
      BY <2>3 DEF Item!Received, Item!Requests, Item!Arrived
  <2>4. ASSUME ListProgress PROVE FALSE
    <3>1. stage = "list" /\ List!Running
        BY <2>4 DEF ListProgress, List!Progress, List!GetLibrary, List!GetRootFolder,
               List!GetItems, List!ItemsRefused, List!ItemsMissing, List!GetFile, List!Running
    <3> QED BY <2>1, <3>1 DEF ObjectsInv, ItemInv
  <2>5. ASSUME NEW c \in Callers, Enter(c) \/ DelFolder(c) PROVE FALSE
    <3>1. ItemP!ResolveInv /\ call[c].st = "ok"
        BY <2>5, BeginSteps DEF Enter, DelFolder, GoesOn
    <3> QED BY <3>1 DEF ItemP!ResolveInv, ItemP!CallsInv, ItemP!CallOK
  <2>6. ASSUME \/ ListTrouble \/ Keep \/ ReadTrouble \/ DeletionStep \/ DeletionTrouble
               \/ \E r \in Readers : Read(r)
               \/ UNCHANGED vars
        PROVE  UNCHANGED <<task, merged>>
      BY <2>6 DEF ListTrouble, Keep, ReadTrouble, DeletionStep, DeletionTrouble, Read,
                  DownloadOnly, DeleteOnly, vars, itemVars
  <2> QED BY <2>2, <2>3, <2>4, <2>5, <2>6 DEF Next
<1> QED BY <1>1, Invariance, PTL DEF Spec, NothingReceivedAfterDrop, Item!NothingReceivedAfterDrop

\* __aenter__ of DownloadChunks and del_folder: nothing begins without a path.
THEOREM BeginsWithAPath == Spec => BeginsWithPath
<1>1. ObjectsInv /\ [Next]_vars =>
          [stage = "item" /\ stage' \in {"download", "delete"} => object.path]_vars
  <2> SUFFICES ASSUME ObjectsInv, Next, stage = "item", stage' \in {"download", "delete"}
               PROVE  object.path
      OBVIOUS
  <2>1. \E c \in Callers : Enter(c) \/ DelFolder(c)
      BY DEF Next, ListProgress, ListTrouble, Keep, TaskStep, ItemStep, Others, Join,
             ReadTrouble, DeletionStep, DeletionTrouble, Read, DownloadOnly, DeleteOnly
  <2> QED BY <2>1, BeginSteps
<1> QED BY <1>1, Invariance, PTL DEF Spec, BeginsWithPath

\* get_chunk: see Download; however the session came to be entered.
THEOREM NoHoles == Spec => []NoHole
<1>1. ChunkP!NoHole => NoHole
    BY DEF ChunkP!NoHole, ChunkP!Idle, NoHole, Chunks!NoHole, Chunks!Idle
<1>2. ObjectsInv => NoHole
    BY <1>1, ChunkP!NoHoleInv, SizesAssumption, ReadsAssumption DEF ObjectsInv, ChunkInv
<1> QED BY <1>2, Invariance, PTL

\* The same of None at the end of the file.
THEOREM EndsMeanEverything == Spec => []EndMeansEverything
<1>1. ChunkP!EndMeansEverything => EndMeansEverything
    BY DEF ChunkP!EndMeansEverything, ChunkP!Idle, EndMeansEverything,
           Chunks!EndMeansEverything, Chunks!Idle
<1>2. ObjectsInv => EndMeansEverything
    BY <1>1, ChunkP!EndInv, SizesAssumption, ReadsAssumption DEF ObjectsInv, ChunkInv
<1> QED BY <1>2, Invariance, PTL

\* ls: without a failed request, what fails is a path that named something else
\* than one folder that can be listed, or one file, at some moment of the call.
THEOREM ListFailuresExplained == Spec => []ListFailureIsExplained
<1>1. ObjectsInv => ListFailureIsExplained
    BY DEF ObjectsInv, ListInv, SeenInv, Excuse, ListFailureIsExplained, List!FailureIsExplained
<1> QED BY <1>1, Invariance, PTL

\* The parts are type correct, at rest and at work.
THEOREM TypeCorrect == Spec => []TypeOK
<1>1. ChunkP!TypeOK => Chunks!TypeOK
    BY DEF ChunkP!TypeOK, ChunkP!Servers, ChunkP!Sessions, ChunkP!Calls, ChunkP!Unknown, ChunkP!Known,
           Chunks!TypeOK, Chunks!Servers, Chunks!Sessions, Chunks!Calls, Chunks!Unknown, Chunks!Known
<1>2. ItemP!TypeOK => Item!TypeOK
    BY DEF ItemP!TypeOK, ItemP!Tasks, ItemP!Finished, ItemP!Requests,
           Item!TypeOK, Item!Tasks, Item!Finished, Item!Requests
<1>3. TreeP!TypeOK => Tree!TypeOK
    BY DEF TreeP!TypeOK, TreeP!Nodes, TreeP!None, TreeP!Arguments,
           Tree!TypeOK, Tree!Nodes, Tree!None, Tree!Arguments
<1>4. ObjectsInv => TypeOK
    BY <1>1, <1>2, <1>3
       DEF ObjectsInv, ItemInv, ChunkInv, DeleteInv, ListInv, TypeOK, ItemP!ResolveInv,
           ChunkP!DownloadInv, TreeP!TreeIndInv
<1> QED BY <1>4, Invariance, PTL

\* delete_folder_path, however the folder's object came to be: what goes
\* unseen has been added by others since the call began to look.
THEOREM SweptWasAdded == Spec => []OnlyAddedNodesAreSwept
<1>1. ObjectsInv => OnlyAddedNodesAreSwept
    BY TreeP!IndInvSwept, SameTree, TreeAssumption, ChangesAssumption
       DEF ObjectsInv, DeleteInv, OnlyAddedNodesAreSwept, Tree!OnlyAddedNodesAreSwept,
           TreeP!OnlyAddedNodesAreSwept, Tree!Cardinality, TreeP!Cardinality
<1> QED BY <1>1, Invariance, PTL

\* A deletion finds nothing missing that it has seen, while others remove nothing.
THEOREM NothingVanishes == Spec => []MissingIsExplained
<1>1. ObjectsInv => MissingIsExplained
    BY DEF ObjectsInv, DeleteInv, TreeP!TreeIndInv, TreeP!ThereInv,
           MissingIsExplained, Tree!MissingIsExplained
<1> QED BY <1>1, Invariance, PTL

\* The folder itself goes with the last DELETE, so that a deletion that fails
\* on the way can be called again.
THEOREM RootIsDeletedLast == Spec => RootGoesLast
<1> DEFINE Kept == [(Root \in (there \ there') /\ removals' = removals) => (folders' = <<>>)]_Tree!vars
<1>1. ObjectsInv /\ [Next]_vars => Kept
  <2> SUFFICES ASSUME ObjectsInv, [Next]_vars, Root \in there, Root \notin there',
                      removals' = removals
               PROVE  folders' = <<>>
      BY DEF Tree!vars
  <2>1. ASSUME DeletionStep \/ DeletionTrouble PROVE folders' = <<>>
    <3>1. TreeP!Next
        BY <2>1, SameDeletionSteps DEF DeletionStep, DeletionTrouble
    <3>2. TreeP!TypeOK /\ TreeP!OrderInv
        BY DEF ObjectsInv, DeleteInv, TreeP!TreeIndInv
    <3> QED BY <3>1, <3>2, TreeP!RootStep, SameTree, TreeAssumption, ChangesAssumption
  <2>2. ASSUME there # {} , stage # "delete" PROVE FALSE
      BY <2>2 DEF ObjectsInv, DeleteInv, NoDeletion
  <2>3. ASSUME UNCHANGED deleteVars PROVE FALSE
      BY <2>3 DEF deleteVars
  <2>4. ASSUME NEW c \in Callers, DelFolder(c) PROVE FALSE
      BY <2>2, <2>4 DEF DelFolder, GoesOn
  <2> QED BY <2>1, <2>3, <2>4
          DEF Next, ListProgress, ListTrouble, Keep, TaskStep, ItemStep, Others, Join, Enter,
              ReadTrouble, Read, DownloadOnly, vars
<1> QED BY <1>1, Invariance, PTL DEF Spec, RootGoesLast, Tree!RootGoesLast
=============================================================================
