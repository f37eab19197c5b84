SPECIFICATION Spec
CONSTANTS
    NUL = NUL  Junk = Junk
    Chars <- MCChars
    Files <- MCFiles
    LayoutLength = 2
    InitialCapacity = 4
INVARIANTS
    NumbersAccepted
CHECK_DEADLOCK FALSE
