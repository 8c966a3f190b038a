SPECIFICATION FairSpec
CONSTANTS
    Menus <- AllMenus
    BlockWords = 2
    NBLOCKS = 3
    LiveBlocks = 2
CHECK_DEADLOCK FALSE
INVARIANTS
    TimesBracketedIfKept
PROPERTIES
    FileIsTrace
    NamesStay
    SessionEnds
