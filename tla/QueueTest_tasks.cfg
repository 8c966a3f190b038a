SPECIFICATION FairSpec
CONSTANTS
    NWORKERS = 2
    Patterns <- MCPatterns
    N = 3
    kMaxTransInFlight = 1
    FIXED = FALSE
INVARIANTS NothingLost InFlightLimited NoLostWakeup
PROPERTY ItemsEnd
CHECK_DEADLOCK FALSE
