SPECIFICATION Spec
CONSTANTS
    u1 = u1
    u2 = u2
    f1 = f1
    f2 = f2
    Uploads = {u1, u2}
    Files = {f1, f2}
    Depth = 2
    FirstProbes = {0, 1}
    Sizes = {0, 2}
    Length = 6
    MaxFaults = 2
    MaxDeletes = 1
INVARIANTS TypeOK CommittedIsWhole OnlyOneCreates MissingFoldersAreMade RefusedOnlyToProtect
PROPERTIES ReadersSeeWholeFiles
SYMMETRY Symmetry
\* Every upload ends.
CHECK_DEADLOCK FALSE
