SPECIFICATION LineSpec
CONSTANTS
    Words <- MCWords
INVARIANTS
    FirstMisfitNamed
    LabelsWhereLabelsBelong
    TokensFreedOnce
    StringsOwnedOnce
PROPERTIES
    ReleaseFreesTheRest
CHECK_DEADLOCK FALSE
