CONSTANTS
    Base = 3
    LimbDigits = 2
    ByteBase = 4
    WordBytes = 3
    Wrap = 1000
    Words = 2
    HeadWords = 2
    Limbs = 4
    EncodedMaxLen = 8
    base58Chars <- MCChars
    WordValues <- AllWords
    Inputs <- MCInputs
    Paths = {"raw", "render", "append"}
SPECIFICATION Spec
INVARIANTS
    TypeOK
    ResultCorrect
CHECK_DEADLOCK TRUE
