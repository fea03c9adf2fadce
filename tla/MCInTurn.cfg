SPECIFICATION Spec
CONSTANTS
    Builder <- Two
    Path <- MCPath
    File <- MCPath
    FileOf <- IgnoringCase
    Bytes <- MCBytes
    Torn = Torn
    Absent = Absent
    Unwritten = Unwritten
    Blocks <- InTurn
    Prelude <- TwoPreludes
    Body <- MCBody
    CxxH = "cxx.h"
    NoPath = "-"
    GenName <- MCGenName
    Offer <- TwoNamers
    MaxNumber <- MCNumber
    MaxRunning = 1
    Faults = {"write", "marker"}
    DirRemade = TRUE
    MaxRestarts = 1
INVARIANTS
    KeepsItsFiles
PROPERTIES
    RefusalsAreJust
    OnlyRecordedBytesLand
    BuildersReturn
CHECK_DEADLOCK FALSE
