CONSTANTS
    Base = 3
    Group = 2
    LeafChars = 5
    Wrap = 9
    MaxLen = 18
    AllLen = 7
    Inputs <- MCInputs
SPECIFICATION Spec
INVARIANTS
    PowersExact
    ResultExact
CHECK_DEADLOCK TRUE
