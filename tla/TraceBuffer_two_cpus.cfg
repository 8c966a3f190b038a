SPECIFICATION Spec
CONSTANTS
    c1 = c1
    c2 = c2
    x1 = x1
    x2 = x2
    CPU = {c1, c2}
    NoCPU = NoCPU
    Ctx = {x1, x2}
    BLK = 8
    NBLOCKS = 2
    HEADFIRST = 2
    HEAD = 1
    TAIL = 3
    MAXLEN = 3
    IPCWORDS = 0
    EntryLens = {1, 2}
    ResetFlags <- NoFlags
    MaxNest = 1
    MaxOver = 1
    MaxUnder = 0
SYMMETRY Symmetry
INVARIANTS
    ExclusiveClaims
    EntriesInsideBlock
    CurrentBlockWhole
PROPERTIES
    ImplementsClaimSpace
