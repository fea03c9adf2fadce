SPECIFICATION Spec
CONSTANTS
    InputLists <- CommandLines
    Requests <- EveryWay
    Exact = 4
    SameFile <- IgnoringCase
    Failures = TRUE
    MaxRuns = 2
INVARIANTS
    BlocksFindTheirOwn
    RefusalIsJust
    ListedOutputsExist
\* A run which is over stops.
CHECK_DEADLOCK FALSE
