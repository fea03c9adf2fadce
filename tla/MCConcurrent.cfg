SPECIFICATION Spec
CONSTANTS
    Builder <- MCBuilder
    Path <- MCPath
    File <- MCPath
    FileOf <- Exactly
    Bytes <- MCBytes
    Torn = Torn
    Absent = Absent
    Unwritten = Unwritten
    Blocks <- Overlapping
    Prelude <- SamePrelude
    Body <- MCBody
    CxxH = "cxx.h"
    NoPath = "-"
    GenName <- MCGenName
    Offer <- DefaultNamers
    MaxNumber <- MCNumber
    MaxRunning = 2
    Faults = {}
    DirRemade = FALSE
    MaxRestarts = 0
INVARIANTS
    ChosenNamesNeverCollide
PROPERTIES
    FirstWriterSettles
CHECK_DEADLOCK FALSE
