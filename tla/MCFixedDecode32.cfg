CONSTANTS
    Base = 3
    LimbDigits = 2
    ByteBase = 4
    WordBytes = 3
    Wrap = 1024
    Words = 2
    Limbs = 4
    BadLen = 5
    Old = Old
    base58Chars <- MCChars
    Inputs <- AllStrings
SPECIFICATION Spec
INVARIANTS
    TypeOK
    OutcomeExact
    AcceptsOnlyEncodings
CHECK_DEADLOCK TRUE
