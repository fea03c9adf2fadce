SPECIFICATION Spec
CONSTANTS
    Programs <- MCPrograms
INVARIANTS
    AcceptedIsSpeakable
    BoundDestroysOnlyWhole
    NamesAreNeverShared
    HoldersAreUsable
CHECK_DEADLOCK FALSE
