SPECIFICATION Spec
CONSTANTS
    Apis = {"python"}
    RowLimit = 2
    MaxRows = 3
    MaxListFaults = 1
    MaxChanges = 1
    Callers = {c1, c2}
    Kinds = {"file_path", "file_id", "file_item", "file_ls",
             "folder_ref", "folder_item", "folder_made"}
    MaxCalls = 2
    MaxCancels = 1
    Readers = {r1, r2}
    Lengths = {0, 1, 2, 3, 4, 6}
    ChunkSize = 3
    MaxReadFaults = 1
    MaxReadCancels = 1
    MaxFaults = 1
    r = r
    d1 = d1
    d2 = d2
    d3 = d3
    f1 = f1
    f2 = f2
    Folders = {d1, d2, d3}
    Files = {f1, f2}
    Root = r
    Parent <- TreeParent
    MaxAdds = 2
    MaxRemovals = 1
INVARIANTS TypeOK ListFailureIsExplained JoinerSeesEverything MissingPathIsExplained NoHole EndMeansEverything OnlyAddedNodesAreSwept MissingIsExplained
PROPERTIES NothingReceivedAfterDrop BeginsWithPath RootGoesLast OperationsEnd DownloadEnds
\* Every operation ends, and the application stops.
CHECK_DEADLOCK FALSE
