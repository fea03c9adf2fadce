SPECIFICATION Spec
CONSTANT
    Programs <- AllLibraries
INVARIANTS
    NamesAreSound
    BorrowedFunctionsAreMeant
    TheTwoSidesAgree
    OverridesMatchTheMethod
    SafeMeansSafe
    BorrowsAreTied
