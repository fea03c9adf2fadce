SPECIFICATION Spec
CONSTANTS
    Programs <- MCPrograms
INVARIANT
    AnAliasIsTheSameArgument
CHECK_DEADLOCK FALSE
