SPECIFICATION Spec
CONSTANT
    MaxInstructions = 2
INVARIANTS
    NothingLeft
    UsedAfterFree
    FieldsPointToBlocks
CHECK_DEADLOCK FALSE
