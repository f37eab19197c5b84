SPECIFICATION Spec
CONSTANTS
    x = x  y = y  m = m  s = s  v = v  u = u
    NULL = NULL
    Chars <- MCChars
    Literals <- MCLiterals
    TypeNames <- MCTypeNames
    Muts <- MCMuts
    Strs <- MCStrs
    OtherSlots <- MCVals
    Vals <- MCVals
    Blocks <- MCBlocks
    SIZE_MAX = 7
    DefaultCapacity = 2
SYMMETRY ValueSymmetry
INVARIANTS
    BlocksOwnedOnce
    ClaimsAllocated
PROPERTIES
    UndefinedTwoWays
    OnlyCopyLosesType
    ImplementsTexts
CHECK_DEADLOCK FALSE
