SPECIFICATION Spec
CONSTANTS
    N = 4
    Extra <- MCExtra
    Known <- MCKnown
    Directive <- MCDirective
    Must <- MCMust
    Lists <- MCLists
    Kept = Kept
    Nothing = Nothing
    int = int
    lost = lost
    peer = peer
    gen = gen
    ns = ns
INVARIANTS
    ReasonsAreRootCauses
    OutputIsExact
    VerdictIsJust
PROPERTIES
    Withdraws
CHECK_DEADLOCK FALSE
