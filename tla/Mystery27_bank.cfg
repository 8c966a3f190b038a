SPECIFICATION FairBankSpec
CONSTANTS
    w1 = w1
    w2 = w2
    Workers <- Two
    Dashboard = dashboard
    Nobody = Nobody
    LastAccount = 1
    Amounts = {1}
    WORKER_ITER = 2
    DASHBOARD_ITER = 1
INVARIANTS NothingLost PageTrue BooksBalance
PROPERTY ThreadsFinish
CHECK_DEADLOCK FALSE
