CONSTANTS
    Kept = Kept
    Dirty = Dirty
    Junk = Junk
    GrowBound = 2
    Inputs <- MCInputs
SPECIFICATION Spec
INVARIANTS
    StoresInBounds
    ResultExact
    CallerBytesKept
    ReusesCapacity
CHECK_DEADLOCK TRUE
