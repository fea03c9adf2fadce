CONSTANTS
    Kinds = {"virtual base"}
    Libraries <- HeadersOf
SPECIFICATION Spec
\* The passes run once, and end.
CHECK_DEADLOCK FALSE
INVARIANT
    OfferedIsAllowed
