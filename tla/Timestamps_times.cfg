SPECIFICATION Spec
CONSTANTS
    PERIOD = 16
    FORWARD = 14
    LATE = 2
    SLACK = 1
    ARG = 256
    LARGE = 120
    MAXDELTA = 3
    BlockWords = 4
    Gaps = {0, 1, 14, 15, 33}
    InitGaps = {0, 1}
    FirstClock = 29
    LastClock = 33
CHECK_DEADLOCK FALSE
INVARIANTS
    TimesRecovered
    GapsRecorded
    ReturnsTrue
