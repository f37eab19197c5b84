SPECIFICATION MCSpec
CONSTANTS
    a = a  b = b  c = c  d = d  v = v  w = w
    NoKey = NoKey
    NoValue = NoValue
    Keys <- MCKeys
    Values <- MCValues
    Hash <- MCHash
    Finger <- MCFinger
    InitCapacity = 4
    MaxCapacity = 8
    DistanceLimit = 65536
    MaxCopyFailures = 1
INVARIANTS
    TypeOK
    IndexesDistinct
    ProbePathsHeld
    SizeCountsEntries
    KeysWrittenBeforeRead
    IterationExact
PROPERTIES
    PointersStable
    ImplementsDict
CHECK_DEADLOCK FALSE
