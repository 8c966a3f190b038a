SPECIFICATION Spec
CONSTANTS
    c1 = c1
    c2 = c2
    x1 = x1
    x2 = x2
    CPU = {c1, c2}
    NoCPU = NoCPU
    Ctx = {x1, x2}
    BLK = 6
    NBLOCKS = 3
    HEADFIRST = 2
    HEAD = 1
    TAIL = 2
    MAXLEN = 2
    IPCWORDS = 0
    EntryLens = {1}
    ResetFlags <- WrapFlags
    MaxNest = 0
    MaxOver = 1
    MaxUnder = 0
SYMMETRY Symmetry
INVARIANTS
    ExclusiveClaims
