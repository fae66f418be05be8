SPECIFICATION Spec
CONSTANT
    Inputs <- MCInputs
INVARIANTS
    SizesAreFinite
    DefaultsAreExact
    DanglingReferencesStopTheRun
    OutputIsOfThisRun
    RegenerationChangesNothing
CHECK_DEADLOCK FALSE
