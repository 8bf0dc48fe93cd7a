SPECIFICATION DeferredSpec
CONSTANTS
    Ids = {1,2,3,4,5,6,7}
    Lists <- OpaqueLists
    PageSize = 2
    MaxGuesses = 1
    MaxChurn = 0
INVARIANTS CompleteResult
\* A call that has returned takes no further step.
CHECK_DEADLOCK FALSE
