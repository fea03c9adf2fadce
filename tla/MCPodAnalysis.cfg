SPECIFICATION Spec
CONSTANTS
    Name <- MCName
    Spelling <- MCSpelling
    KnownSafe = {"int"}
    KnownUnsafe = {"string"}
    Opaque = "opaque"
    Substitute <- MCSubstitute
    Programs <- MCPrograms
INVARIANTS
    PodAllTheWayDown
    VerdictIsJust
PROPERTIES
    Terminates
CHECK_DEADLOCK FALSE
