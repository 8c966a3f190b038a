SPECIFICATION Spec
CONSTANTS
    Menus <- OneThenZero
    BlockWords = 2
    NBLOCKS = 3
    LiveBlocks = 2
CHECK_DEADLOCK FALSE
INVARIANTS
    TimesBracketed
