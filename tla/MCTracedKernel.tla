---------------------------- MODULE MCTracedKernel ----------------------------
(* Workloads for TLC, each around a few kinds of events.                   *)
EXTENDS TracedKernel

CONSTANTS c1, c2, p1, p2, idle, read, write, clone, fault, disk, resched, bhhi, sched

Mix(cpus, procs, calls, kinds, begin, f, flags, events) ==
    [cpus |-> cpus, procs |-> procs, calls |-> calls, kinds |-> kinds,
     begin |-> begin, fresh |-> f, opt |-> "opt" \in flags,
     drop |-> "drop" \in flags, stay |-> "stay" \in flags,
     intr |-> "intr" \in flags, early |-> "early" \in flags,
     hurry |-> "hurry" \in flags, events |-> events]

SomeThreads == {<<>>, <<read>>, <<read, disk>>, <<sched>>, <<read, sched>>}

NestMix == Mix({c1}, {p1, p2}, {read, write, fault, disk, sched}, {}, {<<>>, <<sched>>}, {}, {"opt"}, 9)
StartMix == Mix({c1}, {p1, p2}, {read, disk, sched}, {"sample"}, SomeThreads, {}, {"stay"}, 9)
DropMix == Mix({c1}, {p1}, {read, fault, disk, sched}, {"mark", "sample"}, {<<>>}, {}, {"drop"}, 12)
IntrMix == Mix({c1}, {p1, p2}, {read, disk, sched}, {}, {<<>>, <<read, sched>>, <<sched>>}, {}, {"intr", "stay"}, 9)
FreshMix == Mix({c1}, {p1, p2}, {clone, disk, resched, sched}, {"wakeup"}, {<<>>, <<sched>>}, {p2}, {"opt"}, 7)
IdleMix == Mix({c1}, {p1}, {disk, sched}, {"mwait", "mwait_exit", "rpc", "other"}, {<<>>, <<sched>>}, {}, {}, 11)
WaitMix == Mix({c1}, {p1}, {read, disk, sched}, {"wakeup"}, {<<>>}, {}, {}, 13)
EarlyMix == Mix({c1}, {p1, p2}, {read, sched}, {"mark", "rpc"}, {<<>>, <<read>>}, {p2}, {"early"}, 8)
TwoMix == Mix({c1, c2}, {p1}, {disk, sched}, {"wakeup", "ipi", "monitor_store"}, {<<>>, <<sched>>}, {}, {}, 6)
MoveMix == Mix({c1, c2}, {p1}, {sched}, {}, {<<>>}, {}, {}, 13)
HurryMix == Mix({c1, c2}, {p1}, {sched}, {}, {<<>>}, {}, {"hurry"}, 12)

SoftMix == Mix({c1}, {p1}, {read, bhhi, disk, sched}, {"wakeup"}, {<<>>, <<read, bhhi>>}, {}, {"opt"}, 9)

MixSet == {NestMix, StartMix, DropMix, IntrMix, FreshMix, IdleMix, WaitMix,
           EarlyMix, TwoMix, MoveMix, HurryMix, SoftMix}
SoftMixSet == {SoftMix}
IntrMixSet == {IntrMix}
=============================================================================
