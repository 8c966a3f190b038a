----------------------------- MODULE TracedLock ------------------------------
(***************************************************************************)
(* The entries the lock of Mutex2 makes in a trace, and the lines that     *)
(* postproc/eventtospan3.cc draws from them: dots while a thread tries to  *)
(* get the lock, a line while it holds it.                                 *)
(*                                                                         *)
(* The lock logs only what has to do with contention, as far as it can     *)
(* tell.  The converter keeps the last entry of every thread and draws     *)
(* from it to the thread's next one, so it depends on the lock to log a    *)
(* release for every acquire it logged.                                    *)
(***************************************************************************)
EXTENDS Mutex2

VARIABLE lockpending    \* eventnum of each thread's pending LockContend

tracedvars == <<vars, lockpending>>

(***************************************************************************)
(* mutex2.cc                                                               *)
(***************************************************************************)

(* The entry a step of thread t makes: the quick try failed; the lock was  *)
(* got by waiting, or quickly while others wait; the lock was given back   *)
(* and there may be waiters.                                               *)
LockEvent(t) ==
    CASE At(t, "idle") /\ lock = 1 -> "LOCKNOACQUIRE"
      [] At(t, "won") \/ (At(t, "quick") /\ 0 < waiters) -> "LOCKACQUIRE"
      [] pc[t] \in {"clear", "check"} /\ pc'[t] \in {"wake", "drain_wake"} -> "LOCKWAKEUP"
      [] OTHER -> "none"

(***************************************************************************)
(* eventtospan3.cc                                                         *)
(***************************************************************************)

(* A release ends the thread's interest in the lock; any other entry is    *)
(* remembered instead of the one before it, to which a span may be drawn.  *)
ProcessLockEvent(t, e) ==
    lockpending' = [lockpending EXCEPT ![t] = CASE e = "none" -> @
                                                [] e = "LOCKWAKEUP" -> "none"
                                                [] OTHER -> e]

-----------------------------------------------------------------------------

TracedInit == Init /\ lockpending = [t \in Thread |-> "none"]

TracedStep(t) == Step(t) /\ ProcessLockEvent(t, LockEvent(t))

(* Nobody has to take the lock, and no signal has to come.                 *)
Unforced(t) == (QuickTry(t) \/ Interrupted(t)) /\ ProcessLockEvent(t, LockEvent(t))

TracedNext == \E t \in Thread : TracedStep(t) \/ Unforced(t)

TracedSpec == TracedInit /\ [][TracedNext]_tracedvars

-----------------------------------------------------------------------------

Trying == {"spin", "count", "wait", "asleep", "retry", "leave", "won"}
Holding == {"held", "clear", "drain", "drain_wake", "check"}

(* The lines of threads that waited are true.  From a failed try to the    *)
(* entry that ends its dots the thread has not got into its block; a       *)
(* thread that waited has a line, and the line does not go on after it let *)
(* go of the lock, whatever other threads do to waiters.                   *)
(*                                                                         *)
(* Of a thread that got the lock quickly while others waited this is not   *)
(* so: before it looks at waiters again to log its release a waiter may    *)
(* have got the lock and uncounted itself.  Its line then goes on to its   *)
(* next release that is logged, over time it does not hold the lock.       *)
LinesTrueIfWaited ==
    \A t \in Thread :
        /\ lockpending[t] = "LOCKNOACQUIRE" => pc[t] \in Trying
        /\ pc[t] = "held" /\ holder < 0 => lockpending[t] = "LOCKACQUIRE"
        /\ lockpending[t] = "LOCKACQUIRE" /\ was_contended_acquire[t]
              => pc[t] \in Holding
=============================================================================
