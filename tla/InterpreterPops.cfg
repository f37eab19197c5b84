SPECIFICATION Spec
CONSTANTS
    a = a  b = b
    NoFrame = NoFrame  NoValue = NoValue
    Names <- MCNames
    Programs <- MixedPrograms
    Length = 4
    StackCapacity = 4
    FrameCapacity = 2
    MaxFrames = 4
    MaxDepth = 4
PROPERTIES
    PopsTakeTheTop
CHECK_DEADLOCK FALSE
