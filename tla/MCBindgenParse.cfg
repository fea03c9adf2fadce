\* The blocks of MCBindgenParse, each tried twice on a stable toolchain. An engine which
\* has generated, or has been refused for the last time, does nothing more.
CONSTANTS
    Blocks <- AllBlocks
    MaxAttempts = 2
    Nightly = FALSE
    InvalidIdents <- TheInvalidIdents
    VtableIdents <- TheVtableIdents
    KnownTypes <- TheKnownTypes
    Substitutes <- TheSubstitutes
    UnsupportedTypes <- TheUnsupportedTypes
    CharacterTypes <- TheCharacterTypes
    MaxDigit = 3
SPECIFICATION Spec
CHECK_DEADLOCK FALSE
INVARIANTS
    ReportsReachTheirOwner
    NothingVanishes
    DirectivesAreAnswered
    ReproductionSaysTheSame
