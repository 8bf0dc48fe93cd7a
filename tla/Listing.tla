------------------------------- MODULE Listing -------------------------------
(***************************************************************************)
(* ls of rust/lib.rs (ls_items) and of core/client.rs: ask for the default *)
(* document library and its root folder, read the items of the path with   *)
(* one request, and take a path that SharePoint refuses to list for a      *)
(* file.  Others change what the path names between the requests.          *)
(***************************************************************************)
EXTENDS ListingConstants

VARIABLES
    api,            \* which of the two
    arg,            \* the argument: omitted, the root's own path, or another path
    place,          \* the server: what the path names, and the children of a folder
    seen,           \* history: what the path named at some moment of the call
    pc,             \* where the call is, and how it ended
    answer,         \* the items returned
    faults, changes

bounds == <<faults, changes>>
vars   == <<api, arg, place, seen, pc, answer, bounds>>
-----------------------------------------------------------------------------
MinOf(a, b) == IF a < b THEN a ELSE b

\* odd: one of the children is neither a file nor a folder to the client.
Folder(rows, odd) == [what |-> "folder", rows |-> rows, odd |-> odd]
File    == [what |-> "file", rows |-> 0, odd |-> FALSE]
Missing == [what |-> "missing", rows |-> 0, odd |-> FALSE]

FolderPlaces == {Folder(n, odd) : n \in 0..MaxRows, odd \in BOOLEAN}
Places  == {File, Missing} \cup {p \in FolderPlaces : p.odd => p.rows > 0}

IsRoot == arg \in {"omitted", "root"}

Nothing == [what |-> "nothing", rows |-> 0]

Start(which, argument, named) ==
    /\ api = which /\ arg = argument /\ place = named
    /\ seen = {named}
    /\ pc = "library" /\ answer = Nothing
    /\ faults = 0 /\ changes = 0

Init ==
    \E which \in Apis, argument \in {"omitted", "root", "path"}, named \in Places :
        /\ argument # "path" => named.what = "folder"
        /\ Start(which, argument, named)
-----------------------------------------------------------------------------
Go(to) == pc' = to /\ UNCHANGED <<api, arg, place, seen, answer, bounds>>

\* The Rust client asks for the root folder only if it needs its path.
GetLibrary ==
    /\ pc = "library"
    /\ Go(IF api = "python" \/ arg = "omitted" THEN "root_folder" ELSE "items")

GetRootFolder == pc = "root_folder" /\ Go("items")

\* The view that reads the children without a filter on FileDirRef.
ScopedView == api = "python" /\ IsRoot

\* SharePoint answers 500 to the filter on the root, and to a path of a file.
Refused == (IsRoot /\ ~ScopedView) \/ place.what = "file"

Limited(rows) == MinOf(rows, RowLimit)

\* Converting the items stops at one of an unknown type; Rust returns them raw.
Converted(items) == IF api = "python" /\ items.odd THEN "failed" ELSE "ok"

GetItems ==
    /\ pc = "items" /\ ~Refused /\ place.what = "folder"
    /\ pc' = Converted(place)
    /\ answer' = IF pc' = "ok" THEN [what |-> "items", rows |-> Limited(place.rows)] ELSE Nothing
    /\ UNCHANGED <<api, arg, place, seen, bounds>>

NoFallback == "failed"                         \* mutant: no second look at the path
OnServerError == "file"

ItemsRefused == pc = "items" /\ Refused /\ Go(OnServerError)

\* A path that names nothing: SharePoint's answer may be a 500 or another error.
ItemsMissing ==
    /\ pc = "items" /\ ~Refused /\ place.what = "missing"
    /\ Go("failed") \/ Go(OnServerError)

\* The path, asked for as a file.
GetFile ==
    /\ pc = "file"
    /\ IF place.what = "file"
       THEN pc' = "ok" /\ answer' = [what |-> "file", rows |-> 1]
       ELSE pc' = "failed" /\ UNCHANGED answer
    /\ UNCHANGED <<api, arg, place, seen, bounds>>

\* Any other failure.  One of GetItems that is a 500, or whose text holds
\* " 500 ", is taken for the refusal of a file.
Fault ==
    /\ pc \in {"library", "root_folder", "items", "file"} /\ faults < MaxListFaults
    /\ faults' = faults + 1
    /\ pc' \in IF pc = "items" THEN {"failed", OnServerError} ELSE {"failed"}
    /\ UNCHANGED <<api, arg, place, seen, answer, changes>>

Running == pc \notin {"ok", "failed"}

\* Others move, replace, fill or empty what the path names.
Change ==
    /\ Running /\ changes < MaxChanges /\ arg = "path"
    /\ place' \in Places \ {place}
    /\ changes' = changes + 1 /\ seen' = seen \cup {place'}
    /\ UNCHANGED <<api, arg, pc, answer, faults>>
-----------------------------------------------------------------------------
Progress == GetLibrary \/ GetRootFolder \/ GetItems \/ ItemsRefused \/ ItemsMissing \/ GetFile

Next == Progress \/ Fault \/ Change

\* Requests are answered or time out.
Spec == Init /\ [][Next]_vars /\ WF_vars(Progress)
-----------------------------------------------------------------------------
(* Properties. *)

TypeOK ==
    /\ api \in Apis /\ arg \in {"omitted", "root", "path"}
    /\ place \in Places /\ seen \subseteq Places
    /\ pc \in {"library", "root_folder", "items", "file", "ok", "failed"}
    /\ answer \in [what : {"nothing", "items", "file"}, rows : (0..MaxRows) \cup {1}]
    /\ faults \in 0..MaxListFaults /\ changes \in 0..MaxChanges

\* A listing fails only after a request has failed, or because the path named
\* something that cannot be listed, or something else by the second look.  Two
\* requests that disagree about a path which both could have listed are such a
\* case: the fallback finds a folder where there was a file.
FailureIsExplained ==
    pc = "failed" /\ api = "python" =>
        \/ faults > 0
        \/ \E p \in seen : p = Missing \/ p.odd
        \/ File \in seen /\ \E p \in seen : p.what = "folder"

\* core/src/client.rs:61: ls lists the default document library when the
\* path is omitted.
OmittedPathIsListed == pc = "failed" /\ arg = "omitted" => faults > 0
=============================================================================
