------------------------------- MODULE Mutex2 -------------------------------
(***************************************************************************)
(* The contention-tracing lock of bookcode/mutex2.cc: Acquirelock spins    *)
(* for a few microseconds and then waits on a futex, Releaselock wakes     *)
(* waiters only when it has a sign that there are some.                    *)
(*                                                                         *)
(* One step per access to the shared FancyLock2Struct.  Trace entries,     *)
(* lock names and the histogram of waiting times are left out: they touch  *)
(* none of lock, waiters and holder.                                       *)
(***************************************************************************)
EXTENDS Integers, FiniteSets

CONSTANTS
    Thread,      \* whoami of the threads that use the lock
    MAXINT,      \* the largest int
    WAKE         \* how many waiters one FUTEX_WAKE wakes: 4 in the code

ASSUME ThreadAssumption ==
    /\ MAXINT \in Nat
    /\ Thread \subseteq 0 .. (MAXINT - 1)
    /\ IsFiniteSet(Thread)
ASSUME WakeAssumption == WAKE \in Nat /\ 1 <= WAKE

VARIABLES
    lock,        \* 0 = unlocked, 1 = locked
    waiters,     \* threads counted inside AcquireWait
    holder,      \* who holds it, or its complement after a contended acquire
    pc,          \* where each thread is
    was_contended_acquire,  \* Releaselock's local variable of that name
    delayed      \* history: a store of 0 that was delayed past the test of
                 \* waiters became visible while a thread slept

vars == <<lock, waiters, holder, pc, was_contended_acquire, delayed>>

NoHolder == -MAXINT - 1        \* 0x80000000
Complement(t) == -t - 1        \* ~whoami

(* "quick" and "won" hold the lock and are to set holder, "leave" is to    *)
(* uncount itself first; "held" is inside the block of the Mutex2 object.  *)
Owning == {"quick", "leave", "won", "held", "clear", "drain", "drain_wake"}
Counted == {"wait", "asleep", "retry", "leave"}
PCs == {"idle", "spin", "count", "check", "wake"} \cup Owning \cup Counted

Sleepers == {t \in Thread : pc[t] = "asleep"}

Init ==
    /\ lock = 0
    /\ waiters = 0
    /\ holder = NoHolder
    /\ pc = [t \in Thread |-> "idle"]
    /\ was_contended_acquire = [t \in Thread |-> FALSE]
    /\ delayed = FALSE

At(t, l) == pc[t] = l
Goto(t, l) == pc' = [pc EXCEPT ![t] = l]

(* __atomic_test_and_set: the lock is 1 afterwards in any case.            *)
TestAndSet(t, got, missed) ==
    /\ lock' = 1
    /\ \/ lock = 0 /\ Goto(t, got)
       \/ lock = 1 /\ \E l \in missed : Goto(t, l)
    /\ UNCHANGED <<waiters, holder, was_contended_acquire, delayed>>

(***************************************************************************)
(* Acquirelock                                                             *)
(***************************************************************************)

QuickTry(t) == At(t, "idle") /\ TestAndSet(t, "quick", {"spin"})

(* One round of AcquireSpin: whether or not the lock was seen free, it is  *)
(* tried; on a miss GetUsec decides whether there is another round.        *)
AcquireSpin(t) == At(t, "spin") /\ TestAndSet(t, "won", {"spin", "count"})

(* AcquireWait counts the thread,                                          *)
AddWaiter(t) ==
    /\ At(t, "count")
    /\ waiters' = waiters + 1
    /\ Goto(t, "wait")
    /\ UNCHANGED <<lock, holder, was_contended_acquire, delayed>>

FutexWait_Always(t) ==
    /\ At(t, "wait")
    /\ Goto(t, "asleep")
    /\ UNCHANGED <<lock, waiters, holder, was_contended_acquire, delayed>>

(* sleeps if the lock is still 1 when the kernel looks at it,              *)
FutexWait(t) ==
    /\ At(t, "wait")
    /\ Goto(t, IF lock = 1 THEN "asleep" ELSE "retry")
    /\ UNCHANGED <<lock, waiters, holder, was_contended_acquire, delayed>>

(* (FUTEX_WAIT may also return because of a signal)                        *)
Interrupted(t) ==
    /\ At(t, "asleep")
    /\ Goto(t, "retry")
    /\ UNCHANGED <<lock, waiters, holder, was_contended_acquire, delayed>>

Retry_Trusting(t) ==
    /\ At(t, "retry")
    /\ lock' = 1
    /\ Goto(t, "leave")
    /\ UNCHANGED <<waiters, holder, was_contended_acquire, delayed>>

(* tries the lock again, back to sleep on a miss,                          *)
Retry(t) == At(t, "retry") /\ TestAndSet(t, "leave", {"wait"})

(* and uncounts itself.                                                    *)
SubWaiter(t) ==
    /\ At(t, "leave")
    /\ waiters' = waiters - 1
    /\ Goto(t, "won")
    /\ UNCHANGED <<lock, holder, was_contended_acquire, delayed>>

SetHolder(t) ==
    /\ \/ At(t, "quick") /\ holder' = t
       \/ At(t, "won") /\ holder' = Complement(t)
    /\ Goto(t, "held")
    /\ UNCHANGED <<lock, waiters, was_contended_acquire, delayed>>

(***************************************************************************)
(* Releaselock                                                             *)
(***************************************************************************)

ClearHolder(t) ==
    /\ At(t, "held")
    /\ was_contended_acquire' = [was_contended_acquire EXCEPT ![t] = holder < 0]
    /\ holder' = NoHolder
    /\ Goto(t, "clear")
    /\ UNCHANGED <<lock, waiters, delayed>>

ClearLock(t) ==
    /\ At(t, "clear")
    /\ lock' = 0
    /\ Goto(t, "check")
    /\ UNCHANGED <<waiters, holder, was_contended_acquire, delayed>>

(* Mutant: the sign is the count alone.                                    *)
MayHaveWaiters_Counted(t) == 0 < waiters

(* The sign that somebody may be waiting.                                  *)
MayHaveWaiters(t) == was_contended_acquire[t] \/ 0 < waiters

TestWaiters(t) ==
    /\ At(t, "check")
    /\ Goto(t, IF MayHaveWaiters(t) THEN "wake" ELSE "idle")
    /\ UNCHANGED <<lock, waiters, holder, was_contended_acquire, delayed>>

(* __atomic_clear with release order keeps earlier accesses before the     *)
(* store, not later ones behind it: the store may wait in the store buffer *)
(* of an x86 or ARM processor while waiters is read.                       *)
TestWaitersEarly(t) ==
    /\ At(t, "clear")
    /\ Goto(t, IF MayHaveWaiters(t) THEN "drain_wake" ELSE "drain")
    /\ UNCHANGED <<lock, waiters, holder, was_contended_acquire, delayed>>

Drain(t) ==
    /\ \/ At(t, "drain") /\ Goto(t, "idle")
       \/ At(t, "drain_wake") /\ Goto(t, "wake")
    /\ lock' = 0
    /\ delayed' = (delayed \/ (At(t, "drain") /\ Sleepers # {}))
    /\ UNCHANGED <<waiters, holder, was_contended_acquire>>

Woken_None(S) == {{}}

(* FUTEX_WAKE: the kernel takes up to WAKE of the sleepers.                *)
Woken(S) == {W \in SUBSET S : \/ Cardinality(W) = WAKE
                              \/ W = S /\ Cardinality(W) < WAKE}

FutexWake(t) ==
    /\ At(t, "wake")
    /\ \E W \in Woken(Sleepers) :
          pc' = [u \in Thread |-> IF u = t THEN "idle"
                                  ELSE IF u \in W THEN "retry" ELSE pc[u]]
    /\ UNCHANGED <<lock, waiters, holder, was_contended_acquire, delayed>>

-----------------------------------------------------------------------------

(* Every step but the first of a new acquire and a signal.                 *)
Step(t) ==
    \/ AcquireSpin(t) \/ AddWaiter(t) \/ FutexWait(t) \/ Retry(t)
    \/ SubWaiter(t) \/ SetHolder(t)
    \/ ClearHolder(t) \/ ClearLock(t) \/ TestWaiters(t)
    \/ TestWaitersEarly(t) \/ Drain(t) \/ FutexWake(t)

Next == \E t \in Thread : QuickTry(t) \/ Interrupted(t) \/ Step(t)

Spec == Init /\ [][Next]_vars

(* A thread that can run runs and leaves its block; no thread has to take  *)
(* the lock again, and no signal has to come.                              *)
FairSpec == Spec /\ \A t \in Thread : WF_vars(Step(t))

-----------------------------------------------------------------------------

(* Type correctness; waiters never goes below zero.                        *)
TypeOK ==
    /\ lock \in {0, 1}
    /\ waiters \in Nat
    /\ holder \in {NoHolder} \cup Thread \cup {Complement(t) : t \in Thread}
    /\ pc \in [Thread -> PCs]
    /\ was_contended_acquire \in [Thread -> BOOLEAN]
    /\ delayed \in BOOLEAN

(* "just declaring one of these in a block makes the block run only when   *)
(* holding the lock": at most one thread is between its successful         *)
(* test-and-set and its store of 0, whichever of the three ways in it      *)
(* came, and lock is 1 as long as it is.                                   *)
MutualExclusion ==
    /\ \A t, u \in Thread : pc[t] \in Owning /\ pc[u] \in Owning => t = u
    /\ \A t \in Thread : pc[t] \in Owning => lock = 1

(* The holder field, which a reader of a stuck lock looks at, never names  *)
(* a thread that does not hold the lock, and names the thread inside its   *)
(* block: the test of holder < 0 in Releaselock is about this thread's own *)
(* acquire.                                                                *)
HolderNamesOwner ==
    /\ \A t \in Thread : pc[t] = "held" => holder \in {t, Complement(t)}
    /\ lock = 0 => holder = NoHolder

(* No lost wakeup: while the lock is free and a thread sleeps on it, some  *)
(* thread is awake that will try the lock or wake a sleeper; the test of   *)
(* waiters in Releaselock misses nobody.                                   *)
NoLostWakeup ==
    lock = 0 /\ Sleepers # {} =>
        \E u \in Thread : pc[u] \in {"check", "wake", "retry"}

(* A store of 0 that is delayed past the test of waiters is the one way to *)
(* lose a wakeup: as long as no such store became visible while a thread   *)
(* slept, the counting in AcquireWait and the test in Releaselock miss     *)
(* nobody.                                                                 *)
LostByDelayOnly == ~delayed => NoLostWakeup

(* With no more sleepers than FUTEX_WAKE wakes, nobody sleeps forever, with*)
(* that exception.                                                         *)
SleepersWake == \A t \in Thread : At(t, "asleep") ~> ~At(t, "asleep") \/ delayed
=============================================================================
