SPECIFICATION Spec
CONSTANTS
    a = a  b = b  c = c
    NoLabel = NoLabel
    Labels <- MCLabels
    Words <- MCWords
    TableInitSize = 2
    ArrayInitSize = 2
    MaxLines = 4
SYMMETRY LabelSymmetry
INVARIANTS
    TypeOK
    TableMatchesProgram
    JumpsResolve
    JumpsForward
PROPERTIES
    ImplementsAssembler
CHECK_DEADLOCK FALSE
