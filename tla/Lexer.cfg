SPECIFICATION FairSpec
CONSTANTS
    NUL = NUL  Junk = Junk
    Chars <- MCChars
    Files <- MCFiles
    LayoutLength = 6
    InitialCapacity = 4
INVARIANTS
    TypeOK
    RoomBehindLine
    TokensAreWords
    SameWordSameType
PROPERTIES
    LexerEnds
CHECK_DEADLOCK FALSE
