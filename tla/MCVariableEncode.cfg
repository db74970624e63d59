CONSTANTS
    Base = 2
    LimbDigits = 3
    ByteBase = 3
    WordBytes = 2
    Wrap = 140
    SmallBytes = 2
    HalfBytes = 6
    BlockBytes = 8
    HalfLimbs = 4
    BlockLimbs = 5
    UnrolledWords = 3
    SeedTail = 3
    CombaMin = 6
    LargeBytes = 19
    SizeNum = 16
    SizeDen = 10
    SizeRound = 3
    MaxLen = 19
    Step = 772249
    base58Chars <- MCChars
    Inputs <- MCInputs
SPECIFICATION Spec
INVARIANTS
    ValuePreserved
    StoresInBounds
    ResultExact
CHECK_DEADLOCK TRUE
