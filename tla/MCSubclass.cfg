SPECIFICATION Spec
CONSTANTS
    MaxHandles = 3
    MaxDepth = 5
    Modes = {"cpp", "rust", "self"}
    CallsInDrop = {"rust", "self"}
INVARIANTS
    ObsIsWhole
    LivesWhileOwned
    NeverDroppedUnderABorrow
    NothingLeaks
\* A pair which is gone, or a panic, ends the program modelled here.
CHECK_DEADLOCK FALSE
