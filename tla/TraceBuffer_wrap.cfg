SPECIFICATION FairSpec
CONSTANTS
    c1 = c1
    x1 = x1
    x2 = x2
    CPU = {c1}
    NoCPU = NoCPU
    Ctx = {x1, x2}
    BLK = 4
    NBLOCKS = 3
    HEADFIRST = 1
    HEAD = 1
    TAIL = 1
    MAXLEN = 2
    IPCWORDS = 4
    EntryLens = {2}
    ResetFlags <- WrapOrIpc
    MaxNest = 1
    MaxOver = 2
    MaxUnder = 0

INVARIANTS
    ReadOutComplete
PROPERTIES
    FirstBlockSurvives
    InsertEnds
