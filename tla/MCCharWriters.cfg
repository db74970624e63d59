CONSTANTS
    Count = 60
    Inputs <- MCInputs
SPECIFICATION Spec
INVARIANTS
    CharsExact
CHECK_DEADLOCK TRUE
