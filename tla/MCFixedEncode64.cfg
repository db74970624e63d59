CONSTANTS
    Base = 3
    LimbDigits = 2
    ByteBase = 4
    WordBytes = 3
    Wrap = 1000
    Words = 5
    HeadWords = 3
    Limbs = 10
    EncodedMaxLen = 19
    base58Chars <- MCChars
    WordValues = {0, 1, 20, 41, 63}
    Inputs <- MCInputs
    Paths = {"raw", "render", "write", "full"}
SPECIFICATION Spec
INVARIANTS
    ValuePreserved
    LimbsReduced
    ResultCorrect
CHECK_DEADLOCK TRUE
