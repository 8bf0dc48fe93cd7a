SPECIFICATION Spec
CONSTANTS
    MaxWrites = 4
    MaxFaults = 2
    MaxCancels = 1
INVARIANTS TypeOK LossIsVisible RefusalIsExplained
\* The application leaves the block once.
CHECK_DEADLOCK FALSE
