SPECIFICATION Spec
CONSTANTS
    Callers = {c1, c2}
    Kinds = {"file_path"}
    MaxCalls = 1
    MaxCancels = 0
INVARIANTS EveryCallWaits
\* The application stops calling, and drops the object.
CHECK_DEADLOCK FALSE
