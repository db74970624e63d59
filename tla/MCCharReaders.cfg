CONSTANTS
    Inputs <- MCInputs
SPECIFICATION Spec
INVARIANTS
    LoadsInBounds
    RefusesExactly
    ElementsExact
CHECK_DEADLOCK TRUE
