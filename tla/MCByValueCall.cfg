SPECIFICATION Spec
CONSTANTS
    N = 3
INVARIANTS
    OnlyObjectsAreUsed
    CallsEndWell
\* A call which is over stops.
CHECK_DEADLOCK FALSE
