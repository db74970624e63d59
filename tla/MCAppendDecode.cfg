CONSTANTS
    Base = 3
    ByteBase = 4
    LimbBytes = 2
    GroupChars = 4
    SizeNum = 4
    SizeDen = 5
    LargeThreshold = 10
    GrowBound = 1
    MaxLen = 6
    BadLen = 4
    LongLen = 11
    Kept = Kept
    Dirty = Dirty
    base58Chars <- MCChars
    Sizes <- MCSizes
    MaxLens <- MCMaxLens
    Inputs <- MCInputs
SPECIFICATION Spec
INVARIANTS
    TypeOK
    ResultExact
    CallerBufferKept
    ReusesCapacity
    LimbsSuffice
    FixedSizesTakeFastPath
CHECK_DEADLOCK TRUE
