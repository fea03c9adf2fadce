CONSTANTS
    Kinds <- AllKinds
    Libraries <- HeadersOf
SPECIFICATION Spec
\* The passes run once, and end.
CHECK_DEADLOCK FALSE
INVARIANTS
    OfferedIsAllowed
    NothingIsLost
    AbstractExactly
    DestructorsAreKnown
