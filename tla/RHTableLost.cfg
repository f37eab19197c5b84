SPECIFICATION LostSpec
CONSTANTS
    a = a  d = d  v = v
    NoKey = NoKey
    NoValue = NoValue
    Keys <- LostKeys
    Values <- LostValues
    Hash <- LostHash
    Finger <- LostFinger
    InitCapacity = 2
    MaxCapacity = 4
    DistanceLimit = 4
    MaxCopyFailures = 2
INVARIANTS
    LostSlotsHideNothing
PROPERTIES
    CallsReturn
CHECK_DEADLOCK FALSE
