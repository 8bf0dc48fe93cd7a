SPECIFICATION DeferredSpec
CONSTANTS
    Ids = {1,2,3,4,5,6,7,8,9,10,11,12}
    Lists <- SomeLists
    PageSize = 2
    MaxGuesses = 2
    MaxChurn = 1
INVARIANTS TypeOK NothingUncovered CompleteResult
PROPERTIES Terminates
\* A call that has returned takes no further step.
CHECK_DEADLOCK FALSE
