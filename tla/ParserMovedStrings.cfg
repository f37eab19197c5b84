SPECIFICATION Spec
CONSTANTS
    a = a  b = b  c = c
    NoLabel = NoLabel
    Labels <- MCLabels
    Words <- MCWords
    TableInitSize = 2
    ArrayInitSize = 2
    MaxLines = 4
INVARIANTS
    MovedStringsLeftAlone
CHECK_DEADLOCK FALSE
