SPECIFICATION FairSpec
CONSTANTS
    a = a  b = b
    NoFrame = NoFrame  NoValue = NoValue
    Names <- MCNames
    Programs <- MixedPrograms
    Length = 6
    StackCapacity = 1
    FrameCapacity = 2
    MaxFrames = 7
    MaxDepth = 7
INVARIANTS
    TypeOK
    PushesInsideAllocation
    FramesInOnePlace
    FramesReleasedOnce
    StringsHaveOneOwner
PROPERTIES
    OnlyReturnLoops
    ImplementsFrames
CHECK_DEADLOCK FALSE
