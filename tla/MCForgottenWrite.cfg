SPECIFICATION Spec
CONSTANTS
    Builder <- MCBuilder
    Path <- MCPath
    File <- MCPath
    FileOf <- Exactly
    Bytes <- MCBytes
    Torn = Torn
    Absent = Absent
    Unwritten = Unwritten
    Blocks <- Races
    Prelude <- SamePrelude
    Body <- MCBody
    CxxH = "cxx.h"
    NoPath = "-"
    GenName <- MCGenName
    Offer <- DefaultNamers
    MaxNumber <- MCNumber
    MaxRunning = 3
    Faults = {"write"}
    DirRemade = FALSE
    MaxRestarts = 0
INVARIANTS
    KeepsItsFiles
CHECK_DEADLOCK FALSE
