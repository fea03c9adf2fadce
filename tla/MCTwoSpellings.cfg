SPECIFICATION Spec
CONSTANTS
    Builder <- Two
    Path <- MCPath
    File <- MCPath
    FileOf <- IgnoringCase
    Bytes <- MCBytes
    Torn = Torn
    Absent = Absent
    Unwritten = Unwritten
    Blocks <- InTurn
    Prelude <- TwoPreludes
    Body <- MCBody
    CxxH = "cxx.h"
    NoPath = "-"
    GenName <- MCGenName
    Offer <- TwoNamers
    MaxNumber <- MCNumber
    MaxRunning = 2
    Faults = {}
    DirRemade = FALSE
    MaxRestarts = 0
INVARIANTS
    KeepsItsFiles
CHECK_DEADLOCK FALSE
