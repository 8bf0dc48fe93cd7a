SPECIFICATION Spec
CONSTANTS
    Apis = {"rust"}
    RowLimit = 2
    MaxRows = 3
    MaxListFaults = 0
    MaxChanges = 0
INVARIANTS OmittedPathIsListed
\* A call that has returned takes no further step.
CHECK_DEADLOCK FALSE
