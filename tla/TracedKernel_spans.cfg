CONSTANTS
    c1 = c1  c2 = c2  p1 = p1  p2 = p2  idle = idle
    read = read  write = write  clone = clone  fault = fault
    disk = disk  resched = resched  bhhi = bhhi  sched = sched
    CPU = {c1, c2}
    Pid = {p1, p2, idle}
    Idle = idle
    Syscalls = {read, write, clone}
    Traps = {fault}
    Irqs = {disk, resched, bhhi}
    BottomHalves = {bhhi}
    Sched = sched
    Resched = resched
    BHhi = bhhi
    Clone = clone
    Wakers = {disk}
    Rpcs = {0, 7}
    MinCexit = 2
    MinWait = 1
    Mixes <- MixSet
SPECIFICATION Spec
INVARIANTS
    StacksNest
    PreprocSuffices
    StacksTrue
    SpansTrue
    SpansTile
    WaitsTrueIfSwitched
    RpcTrue
PROPERTY AllConverted
CHECK_DEADLOCK FALSE
