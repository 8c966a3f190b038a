CONSTANTS
    a = a  b = b  k = k  v = v  w = w  None = None
    Port = {1, 2}
    Client = {a, b}
    Key = {k}
    Value = {v, w}
    Jobs <- SomeJobs
    SPINS = 1
SPECIFICATION FairSpec
INVARIANTS OneInside NothingHalfRead FailsOnlyIf
PROPERTIES AtomicStore RequestsEnd
CHECK_DEADLOCK FALSE
