CONSTANTS
    Base = 3
    LimbDigits = 2
    ByteBase = 4
    WordBytes = 3
    Wrap = 1886
    Words = 4
    Limbs = 8
    BadLen = 5
    Old = Old
    base58Chars <- MCChars
    Inputs <- EdgeStrings
SPECIFICATION Spec
INVARIANTS
    ValuePreserved
    OutcomeExact
CHECK_DEADLOCK TRUE
