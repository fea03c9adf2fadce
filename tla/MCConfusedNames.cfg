\* Names bindgen's reports confuse: a class beside a function of its name, and classes named
\* like the functions autocxx renames.
CONSTANTS
    Blocks <- ConfusedBlocks
    MaxAttempts = 1
    Nightly = FALSE
    InvalidIdents <- TheInvalidIdents
    VtableIdents <- TheVtableIdents
    KnownTypes <- TheKnownTypes
    Substitutes <- TheSubstitutes
    UnsupportedTypes <- TheUnsupportedTypes
    CharacterTypes <- TheCharacterTypes
    MaxDigit = 3
SPECIFICATION Spec
CHECK_DEADLOCK FALSE
INVARIANTS
    DirectivesAreAnswered
    NoneIsUnreported
    CppNamesAreOriginal
