SPECIFICATION FancySpec
CONSTANTS
    Thread = {0, 1}
    MAXINT = 7
    WAKE = 1
    Size <- NarrowSize
    kBucketIncr <- NarrowIncr
INVARIANTS MutualExclusion LostByDelayOnly HistogramTrue LinesTrueIfWaited
PROPERTY SleepersWake
