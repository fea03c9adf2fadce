SPECIFICATION Spec
CONSTANTS
    MaxHandles = 1
    MaxDepth = 3
    Modes = {"cpp"}
    CallsInDrop = {"cpp"}
INVARIANTS
    ObsIsWhole
CHECK_DEADLOCK FALSE
