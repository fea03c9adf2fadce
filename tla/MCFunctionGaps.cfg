SPECIFICATION Spec
CONSTANT
    Programs <- ContestedLibraries
INVARIANTS
    ReferencesComeFromOne
    CastsHaveOneWayUp
