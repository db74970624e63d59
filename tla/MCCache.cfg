CONSTANTS
    k1 = k1
    k2 = k2
    k3 = k3
    s1 = s1
    s2 = s2
    s3 = s3
    Nil = Nil
    Callers = {g1, g2}
    Addrs = {a1, a2, a3, a4}
    Keys <- MCKeys
    Strings <- MCStrings
    Slots <- MCSlots
    Index <- MCIndex
    Encode32 <- MCEncode32
SPECIFICATION Spec
INVARIANTS
    ResultCorrect
    SlotHoldsOwnKeys
    BuiltInPrivate
PROPERTIES
    EntriesImmutable
    ImplementsService
CHECK_DEADLOCK TRUE
