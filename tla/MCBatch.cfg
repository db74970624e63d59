CONSTANTS
    Limbs = 18
    RawBuf = 90
    SingleVec = 16
    ZeroBytes = 64
    MaxN = 9
    Junk = Junk
    Inputs <- MCInputs
SPECIFICATION Spec
INVARIANTS
    TypeOK
    StoresInBounds
    ResultsCorrect
PROPERTIES
    PublishedStable
    Termination
CHECK_DEADLOCK TRUE
