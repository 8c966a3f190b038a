---------------------------- MODULE Locks_proofs -----------------------------
(***************************************************************************)
(* Proofs about the lock and about the program that demonstrates it.       *)
(*                                                                         *)
(* Mutex2, for any finite set of threads and any number of waiters woken   *)
(* at a time: the lock excludes, its holder field is right, only a delayed *)
(* store of the lock loses a wakeup, and the lines drawn from the entries  *)
(* of the threads that waited are true.                                    *)
(*                                                                         *)
(* Mystery27, for any number of workers, accounts, amounts and iterations  *)
(* and all options: no posting is lost, the dashboard shows the accounts   *)
(* as they are at one moment, and with one pair of locks the books         *)
(* balance.                                                                *)
(*                                                                         *)
(* FancyLock2, for any number of buckets of any even sizes: the packed     *)
(* histogram of waiting times is the counts kept one by one.               *)
(***************************************************************************)
EXTENDS FancyLock2, Mystery27, FiniteSetTheorems, SequenceTheorems,
        WellFoundedInduction, TLAPS

(***************************************************************************)
(* The lock: the inductive invariant                                       *)
(***************************************************************************)

CountedThreads == {t \in Thread : pc[t] \in Counted}

(* waiters is exactly the number of threads inside AcquireWait: a sleeper  *)
(* keeps it above zero.                                                    *)
WaitersCount == waiters = Cardinality(CountedThreads)

(* Between its two stores in Releaselock a thread has cleared holder.      *)
HolderCleared ==
    \A t \in Thread : pc[t] \in {"clear", "drain", "drain_wake"} => holder = NoHolder

IInv == TypeOK /\ WaitersCount /\ MutualExclusion /\ HolderNamesOwner /\ HolderCleared

(***************************************************************************)
(* Facts about threads and counting                                        *)
(***************************************************************************)

LEMMA ThreadFacts ==
    ASSUME NEW t \in Thread
    PROVE  /\ t \in Int /\ 0 <= t
           /\ Complement(t) \in Int /\ Complement(t) < 0
           /\ t # NoHolder /\ Complement(t) # NoHolder
  BY ThreadAssumption DEF Complement, NoHolder

LEMMA CountFinite == IsFiniteSet(CountedThreads) /\ Cardinality(CountedThreads) \in Nat
<1>1. CountedThreads \in SUBSET Thread
  BY DEF CountedThreads
<1>2. IsFiniteSet(CountedThreads)
  BY <1>1, FS_Subset, ThreadAssumption
<1> QED
  BY <1>2, FS_CardinalityType

(* What one thread's move does to the number of counted threads.           *)
LEMMA CountMove ==
    ASSUME pc \in [Thread -> PCs], NEW t \in Thread, NEW l, Goto(t, l)
    PROVE  Cardinality(CountedThreads') =
             Cardinality(CountedThreads)
               + (IF l \in Counted THEN 1 ELSE 0)
               - (IF pc[t] \in Counted THEN 1 ELSE 0)
<1> USE DEF CountedThreads, Goto
<1>1. CASE l \in Counted
  <2>1. CountedThreads' = CountedThreads \cup {t}
    BY <1>1
  <2>2. Cardinality(CountedThreads \cup {t}) =
           IF t \in CountedThreads THEN Cardinality(CountedThreads)
                                   ELSE Cardinality(CountedThreads) + 1
    BY CountFinite, FS_AddElement
  <2> QED
    BY <1>1, <2>1, <2>2, CountFinite
<1>2. CASE l \notin Counted
  <2>1. CountedThreads' = CountedThreads \ {t}
    BY <1>2
  <2>2. Cardinality(CountedThreads \ {t}) =
           IF t \in CountedThreads THEN Cardinality(CountedThreads) - 1
                                   ELSE Cardinality(CountedThreads)
    BY CountFinite, FS_RemoveElement
  <2> QED
    BY <1>2, <2>1, <2>2, CountFinite
<1> QED
  BY <1>1, <1>2

(* While a thread is counted, waiters is above zero.                       *)
LEMMA CountedPositive ==
    ASSUME TypeOK, WaitersCount, NEW t \in Thread, pc[t] \in Counted
    PROVE  1 <= waiters
<1>1. CountedThreads # {}
  BY DEF CountedThreads
<1>2. Cardinality(CountedThreads) # 0
  BY <1>1, CountFinite, FS_EmptySet
<1> QED
  BY <1>2, CountFinite DEF WaitersCount

(* FUTEX_WAKE wakes somebody if somebody sleeps, and nobody else.          *)
LEMMA WokenFacts ==
    ASSUME NEW S \in SUBSET Thread, NEW W \in Woken(S)
    PROVE  /\ W \in SUBSET S
           /\ S # {} => W # {}
<1>1. W \in SUBSET S
  BY DEF Woken
<1>2. ASSUME W = {}, S # {} PROVE FALSE
  <2>1. Cardinality(W) = 0
    BY <1>2, FS_EmptySet
  <2> QED
    BY <1>2, <2>1, WakeAssumption DEF Woken
<1> QED
  BY <1>1, <1>2

(***************************************************************************)
(* Every step preserves the invariant                                      *)
(***************************************************************************)

LEMMA InitIInv == Init => IInv
<1> SUFFICES ASSUME Init PROVE IInv
  OBVIOUS
<1>1. TypeOK
  BY DEF Init, TypeOK, PCs
<1>2. WaitersCount
  <2>1. CountedThreads = {}
    BY DEF Init, CountedThreads, Counted
  <2> QED
    BY <2>1, FS_EmptySet DEF Init, WaitersCount
<1>3. MutualExclusion /\ HolderNamesOwner /\ HolderCleared
  BY DEF Init, MutualExclusion, HolderNamesOwner, HolderCleared, Owning
<1> QED
  BY <1>1, <1>2, <1>3 DEF IInv

(* A test-and-set by a thread that owns nothing.                           *)
LEMMA TestAndSetIInv ==
    ASSUME IInv, NEW t \in Thread, NEW got, NEW missed,
           TestAndSet(t, got, missed),
           got \in {"quick", "won", "leave"},
           missed \subseteq {"spin", "count", "wait"},
           pc[t] \in {"idle", "spin", "retry"},
           got \in Counted <=> pc[t] \in Counted,
           \A l \in missed : l \in Counted <=> pc[t] \in Counted
    PROVE  IInv'
<1> USE DEF TestAndSet
<1>1. PICK l : /\ Goto(t, l)
               /\ \/ lock = 0 /\ l = got
                  \/ lock = 1 /\ l \in missed
  OBVIOUS
<1>2. TypeOK'
  BY <1>1 DEF IInv, TypeOK, PCs, Goto, Owning, Counted
<1>3. WaitersCount'
  <2>1. Cardinality(CountedThreads') = Cardinality(CountedThreads)
    BY <1>1, CountMove, CountFinite DEF IInv, TypeOK
  <2> QED
    BY <2>1 DEF IInv, WaitersCount
<1>4. MutualExclusion'
  BY <1>1 DEF IInv, TypeOK, MutualExclusion, Goto, Owning
<1>5. HolderNamesOwner' /\ HolderCleared'
  BY <1>1 DEF IInv, TypeOK, HolderNamesOwner, HolderCleared, Goto
<1> QED
  BY <1>2, <1>3, <1>4, <1>5 DEF IInv

LEMMA TriesIInv ==
    ASSUME IInv, NEW t \in Thread, QuickTry(t) \/ AcquireSpin(t) \/ Retry(t)
    PROVE  IInv'
<1>1. CASE QuickTry(t)
  BY <1>1, TestAndSetIInv DEF QuickTry, At, Counted
<1>2. CASE AcquireSpin(t)
  BY <1>2, TestAndSetIInv DEF AcquireSpin, At, Counted
<1>3. CASE Retry(t)
  BY <1>3, TestAndSetIInv DEF Retry, At, Counted
<1> QED
  BY <1>1, <1>2, <1>3

(* Steps that only move a thread, neither into nor out of owning the lock. *)
LEMMA MoveIInv ==
    ASSUME IInv, NEW t \in Thread, NEW l \in PCs, Goto(t, l),
           UNCHANGED <<lock, waiters, holder, was_contended_acquire, delayed>>,
           l \in Counted <=> pc[t] \in Counted,
           l \in Owning <=> pc[t] \in Owning,
           l # "held",
           l \in {"clear", "drain", "drain_wake"} => pc[t] = "clear"
    PROVE  IInv'
<1>1. TypeOK'
  BY DEF IInv, TypeOK, Goto
<1>2. WaitersCount'
  <2>1. Cardinality(CountedThreads') = Cardinality(CountedThreads)
    BY CountMove, CountFinite DEF IInv, TypeOK
  <2> QED
    BY <2>1 DEF IInv, WaitersCount
<1>3. MutualExclusion'
  BY DEF IInv, TypeOK, MutualExclusion, Goto
<1>4. HolderNamesOwner' /\ HolderCleared'
  BY DEF IInv, TypeOK, HolderNamesOwner, HolderCleared, Goto
<1> QED
  BY <1>1, <1>2, <1>3, <1>4 DEF IInv

LEMMA MovesIInv ==
    ASSUME IInv, NEW t \in Thread,
           \/ FutexWait(t) \/ Interrupted(t) \/ TestWaiters(t) \/ TestWaitersEarly(t)
    PROVE  IInv'
<1> USE DEF At, PCs, Counted, Owning
<1>1. CASE FutexWait(t)
  BY <1>1, MoveIInv DEF FutexWait
<1>2. CASE Interrupted(t)
  BY <1>2, MoveIInv DEF Interrupted
<1>3. CASE TestWaiters(t)
  BY <1>3, MoveIInv DEF TestWaiters
<1>4. CASE TestWaitersEarly(t)
  BY <1>4, MoveIInv DEF TestWaitersEarly
<1> QED
  BY <1>1, <1>2, <1>3, <1>4

LEMMA WaitersIInv ==
    ASSUME IInv, NEW t \in Thread, AddWaiter(t) \/ SubWaiter(t)
    PROVE  IInv'
<1> USE DEF At
<1>1. CASE AddWaiter(t)
  <2>1. WaitersCount' /\ waiters' \in Nat
    BY <1>1, CountMove, CountFinite DEF AddWaiter, IInv, TypeOK, WaitersCount, Counted
  <2>2. TypeOK'
    BY <1>1, <2>1 DEF AddWaiter, IInv, TypeOK, Goto, PCs, Counted
  <2>3. MutualExclusion' /\ HolderNamesOwner' /\ HolderCleared'
    BY <1>1 DEF AddWaiter, IInv, TypeOK, Goto, MutualExclusion,
                HolderNamesOwner, HolderCleared, Owning
  <2> QED
    BY <2>1, <2>2, <2>3 DEF IInv
<1>2. CASE SubWaiter(t)
  <2>1. 1 <= waiters
    BY <1>2, CountedPositive DEF SubWaiter, IInv, Counted
  <2>2. Cardinality(CountedThreads') = Cardinality(CountedThreads) - 1
    BY <1>2, CountMove, CountFinite DEF SubWaiter, IInv, TypeOK, Counted
  <2>3. WaitersCount' /\ waiters' \in Nat
    BY <1>2, <2>1, <2>2 DEF SubWaiter, IInv, TypeOK, WaitersCount
  <2>4. TypeOK'
    BY <1>2, <2>3 DEF SubWaiter, IInv, TypeOK, Goto, PCs, Owning
  <2>5. MutualExclusion' /\ HolderNamesOwner' /\ HolderCleared'
    BY <1>2 DEF SubWaiter, IInv, TypeOK, Goto, MutualExclusion,
                HolderNamesOwner, HolderCleared, Owning
  <2> QED
    BY <2>3, <2>4, <2>5 DEF IInv
<1> QED
  BY <1>1, <1>2

LEMMA HolderIInv ==
    ASSUME IInv, NEW t \in Thread, SetHolder(t) \/ ClearHolder(t)
    PROVE  IInv'
<1> USE DEF At
<1>1. CASE SetHolder(t)
  <2> USE <1>1 DEF SetHolder
  <2>1. pc[t] \in Owning /\ lock = 1
    BY DEF IInv, MutualExclusion, Owning
  <2>2. \A u \in Thread \ {t} : pc[u] \notin Owning
    BY <2>1 DEF IInv, MutualExclusion
  <2>3. TypeOK'
    BY DEF IInv, TypeOK, Goto, PCs, Owning
  <2>4. WaitersCount'
    BY CountMove, CountFinite DEF IInv, TypeOK, WaitersCount, Counted
  <2>5. MutualExclusion'
    BY <2>1, <2>2 DEF IInv, TypeOK, MutualExclusion, Goto, Owning
  <2>6. HolderNamesOwner' /\ HolderCleared'
    BY <2>1, <2>2 DEF IInv, TypeOK, HolderNamesOwner, HolderCleared, Goto, Owning
  <2> QED
    BY <2>3, <2>4, <2>5, <2>6 DEF IInv
<1>2. CASE ClearHolder(t)
  <2> USE <1>2 DEF ClearHolder
  <2>1. pc[t] \in Owning /\ lock = 1
    BY DEF IInv, MutualExclusion, Owning
  <2>2. \A u \in Thread \ {t} : pc[u] \notin Owning
    BY <2>1 DEF IInv, MutualExclusion
  <2>3. TypeOK'
    BY DEF IInv, TypeOK, Goto, PCs, Owning
  <2>4. WaitersCount'
    BY CountMove, CountFinite DEF IInv, TypeOK, WaitersCount, Counted
  <2>5. MutualExclusion'
    BY <2>1, <2>2 DEF IInv, TypeOK, MutualExclusion, Goto, Owning
  <2>6. HolderNamesOwner' /\ HolderCleared'
    BY <2>1, <2>2 DEF IInv, TypeOK, HolderNamesOwner, HolderCleared, Goto, Owning
  <2> QED
    BY <2>3, <2>4, <2>5, <2>6 DEF IInv
<1> QED
  BY <1>1, <1>2

(* The store of 0: nobody else owns the lock, and holder is cleared.       *)
LEMMA FreeIInv ==
    ASSUME IInv, NEW t \in Thread, ClearLock(t) \/ Drain(t)
    PROVE  IInv'
<1> USE DEF At, ClearLock, Drain
<1>1. PICK l \in {"check", "idle", "wake"} : Goto(t, l)
  OBVIOUS
<1>2. pc[t] \in {"clear", "drain", "drain_wake"}
      /\ lock' = 0 /\ UNCHANGED <<waiters, holder, was_contended_acquire>>
      /\ delayed' \in BOOLEAN
  BY DEF IInv, TypeOK
<1>3. \A u \in Thread \ {t} : pc[u] \notin Owning
  BY <1>2 DEF IInv, MutualExclusion, Owning
<1>4. TypeOK'
  BY <1>1, <1>2 DEF IInv, TypeOK, Goto, PCs
<1>5. WaitersCount'
  <2>1. Cardinality(CountedThreads') = Cardinality(CountedThreads)
    BY <1>1, <1>2, CountMove, CountFinite DEF IInv, TypeOK, Counted
  <2> QED
    BY <1>2, <2>1 DEF IInv, WaitersCount
<1>6. MutualExclusion'
  BY <1>1, <1>3 DEF IInv, TypeOK, MutualExclusion, Goto, Owning
<1>7. HolderNamesOwner' /\ HolderCleared'
  BY <1>1, <1>2, <1>3 DEF IInv, TypeOK, HolderNamesOwner, HolderCleared, Goto, Owning
<1> QED
  BY <1>4, <1>5, <1>6, <1>7 DEF IInv

LEMMA WakeIInv ==
    ASSUME IInv, NEW t \in Thread, FutexWake(t)
    PROVE  IInv'
<1> USE DEF At, FutexWake
<1>1. PICK W \in Woken(Sleepers) :
         pc' = [u \in Thread |-> IF u = t THEN "idle"
                                 ELSE IF u \in W THEN "retry" ELSE pc[u]]
  OBVIOUS
<1>2. \A u \in W : u \in Thread /\ pc[u] = "asleep"
  BY WokenFacts DEF Sleepers
<1>3. TypeOK'
  BY <1>1 DEF IInv, TypeOK, PCs, Counted
<1>4. WaitersCount'
  <2>1. CountedThreads' = CountedThreads
    BY <1>1, <1>2 DEF CountedThreads, Counted
  <2> QED
    BY <2>1 DEF IInv, WaitersCount
<1>5. MutualExclusion'
  BY <1>1, <1>2 DEF IInv, MutualExclusion, Owning
<1>6. HolderNamesOwner' /\ HolderCleared'
  BY <1>1, <1>2 DEF IInv, HolderNamesOwner, HolderCleared
<1> QED
  BY <1>3, <1>4, <1>5, <1>6 DEF IInv

LEMMA NextIInv == IInv /\ [Next]_vars => IInv'
<1> SUFFICES ASSUME IInv, [Next]_vars PROVE IInv'
  OBVIOUS
<1>1. ASSUME NEW t \in Thread, QuickTry(t) \/ Interrupted(t) \/ Step(t)
      PROVE  IInv'
  BY <1>1, TriesIInv, MovesIInv, WaitersIInv, HolderIInv, FreeIInv, WakeIInv DEF Step
<1>2. CASE UNCHANGED vars
  BY <1>2 DEF vars, IInv, TypeOK, WaitersCount, CountedThreads, MutualExclusion,
              HolderNamesOwner, HolderCleared
<1> QED
  BY <1>1, <1>2 DEF Next

(* Type correctness: in particular waiters never goes below zero, however  *)
(* many threads enter and leave AcquireWait at once.                       *)
THEOREM TypeCorrect == Spec => []TypeOK
<1>1. IInv => TypeOK
  BY DEF IInv
<1> QED
  BY <1>1, InitIInv, NextIInv, PTL DEF Spec

(* At most one thread is inside the block a Mutex2 object guards, with or  *)
(* without a store buffer, for any number of threads.                      *)
THEOREM MutualExclusionHolds == Spec => []MutualExclusion
<1>1. IInv => MutualExclusion
  BY DEF IInv
<1> QED
  BY <1>1, InitIInv, NextIInv, PTL DEF Spec

(* The holder field names the thread that holds the lock.                  *)
THEOREM HolderNamesOwnerHolds == Spec => []HolderNamesOwner
<1>1. IInv => HolderNamesOwner
  BY DEF IInv
<1> QED
  BY <1>1, InitIInv, NextIInv, PTL DEF Spec

(***************************************************************************)
(* No lost wakeup                                                          *)
(***************************************************************************)

(* LostByDelayOnly is inductive given that sleepers are counted: a thread  *)
(* goes to sleep only while the lock is 1, the store of 0 leaves its       *)
(* thread at the test of waiters, that test sees the sleeper, and the      *)
(* wakeup leaves one at its retry.                                         *)
LEMMA NextLostByDelayOnly ==
    ASSUME IInv, LostByDelayOnly, [Next]_vars
    PROVE  LostByDelayOnly'
<1> SUFFICES ASSUME ~delayed', lock' = 0, Sleepers' # {}
             PROVE  \E u \in Thread : pc'[u] \in {"check", "wake", "retry"}
  BY DEF LostByDelayOnly, NoLostWakeup
<1> USE DEF At, IInv, TypeOK, LostByDelayOnly, NoLostWakeup, Sleepers
<1>1. ASSUME NEW t \in Thread, QuickTry(t) \/ AcquireSpin(t) \/ Retry(t)
      PROVE  FALSE
  BY <1>1 DEF QuickTry, AcquireSpin, Retry, TestAndSet
<1>2. ASSUME NEW t \in Thread,
             \/ AddWaiter(t) \/ FutexWait(t) \/ SubWaiter(t)
             \/ SetHolder(t) \/ ClearHolder(t)
      PROVE  \E u \in Thread : pc'[u] \in {"check", "wake", "retry"}
  <2>1. lock = 0 /\ Sleepers # {}
    BY <1>2 DEF AddWaiter, FutexWait, SubWaiter, SetHolder, ClearHolder, Goto
  <2>2. delayed' = delayed
    BY <1>2 DEF AddWaiter, FutexWait, SubWaiter, SetHolder, ClearHolder
  <2>3. PICK u \in Thread : pc[u] \in {"check", "wake", "retry"}
    BY <2>1, <2>2
  <2>4. pc'[u] = pc[u]
    BY <1>2, <2>3 DEF AddWaiter, FutexWait, SubWaiter, SetHolder, ClearHolder, Goto
  <2> QED
    BY <2>3, <2>4
<1>3. ASSUME NEW t \in Thread, Interrupted(t)
      PROVE  pc'[t] = "retry"
  BY <1>3 DEF Interrupted, Goto
<1>4. ASSUME NEW t \in Thread, ClearLock(t)
      PROVE  pc'[t] = "check"
  BY <1>4 DEF ClearLock, Goto
<1>5. ASSUME NEW t \in Thread, TestWaiters(t)
      PROVE  pc'[t] = "wake"
  <2>1. PICK s \in Thread : pc[s] = "asleep"
    BY <1>5 DEF TestWaiters, Goto
  <2>2. 0 < waiters
    BY <2>1, CountedPositive DEF Counted
  <2> QED
    BY <1>5, <2>2 DEF TestWaiters, Goto, MayHaveWaiters
<1>6. ASSUME NEW t \in Thread, FutexWake(t)
      PROVE  \E u \in Thread : pc'[u] = "retry"
  <2>1. PICK W \in Woken(Sleepers) :
           pc' = [u \in Thread |-> IF u = t THEN "idle"
                                   ELSE IF u \in W THEN "retry" ELSE pc[u]]
    BY <1>6 DEF FutexWake
  <2>2. Sleepers # {}
    BY <1>6, <2>1
  <2>3. PICK w \in W : w \in Thread /\ pc[w] = "asleep"
    BY <2>2, WokenFacts
  <2> QED
    BY <1>6, <2>1, <2>3 DEF FutexWake
<1>7. ASSUME NEW t \in Thread, TestWaitersEarly(t)
      PROVE  FALSE
  BY <1>7 DEF TestWaitersEarly, MutualExclusion, Owning
<1>8. ASSUME NEW t \in Thread, Drain(t)
      PROVE  pc'[t] = "wake"
  <2>1. CASE At(t, "drain") /\ Goto(t, "idle")
    <3>1. Sleepers = {}
      BY <1>8, <2>1 DEF Drain
    <3>2. Sleepers' = {}
      BY <2>1, <3>1 DEF Goto
    <3> QED
      BY <3>2
  <2>2. CASE At(t, "drain_wake") /\ Goto(t, "wake")
    BY <2>2 DEF Goto
  <2> QED
    BY <1>8, <2>1, <2>2 DEF Drain
<1>9. CASE UNCHANGED vars
  BY <1>9 DEF vars
<1> QED
  BY <1>1, <1>2, <1>3, <1>4, <1>5, <1>6, <1>7, <1>8, <1>9 DEF Next, Step

(* The counting of waiters and Releaselock's test lose no wakeup, for any  *)
(* number of threads and any number woken at a time: unless a store of 0   *)
(* was delayed past the test and became visible while a thread slept, a    *)
(* thread that sleeps on a free lock is about to be woken or overtaken.    *)
THEOREM LostByDelayOnlyHolds == Spec => []LostByDelayOnly
<1>1. Init => IInv /\ LostByDelayOnly
  BY InitIInv DEF Init, LostByDelayOnly, NoLostWakeup, Sleepers
<1>2. IInv /\ LostByDelayOnly /\ [Next]_vars => (IInv /\ LostByDelayOnly)'
  BY NextIInv, NextLostByDelayOnly
<1> QED
  BY <1>1, <1>2, PTL DEF Spec

(***************************************************************************)
(* The lines drawn from the lock's trace entries                           *)
(***************************************************************************)

(* LinesTrueIfWaited is nearly inductive: nobody but the thread inside     *)
(* its block writes holder, and a contended acquire is a sign of its own   *)
(* for Releaselock, whatever has become of waiters.                        *)
(* A thread whose store of 0 is delayed has made its test already.         *)
Draining ==
    \A t \in Thread : /\ pc[t] = "drain" => ~was_contended_acquire[t]
                      /\ pc[t] = "drain_wake" => lockpending[t] = "none"

LInv == /\ lockpending \in [Thread -> {"none", "LOCKNOACQUIRE", "LOCKACQUIRE"}]
        /\ LinesTrueIfWaited
        /\ Draining

(* What a step of thread t does to the pending entries.                    *)
LEMMA PendingMove ==
    ASSUME LInv, NEW t \in Thread, NEW e, ProcessLockEvent(t, e),
           e \in {"none", "LOCKNOACQUIRE", "LOCKACQUIRE", "LOCKWAKEUP"}
    PROVE  /\ lockpending' \in [Thread -> {"none", "LOCKNOACQUIRE", "LOCKACQUIRE"}]
           /\ \A u \in Thread \ {t} : lockpending'[u] = lockpending[u]
           /\ e = "none" => lockpending'[t] = lockpending[t]
           /\ e = "LOCKWAKEUP" => lockpending'[t] = "none"
           /\ e = "LOCKNOACQUIRE" => lockpending'[t] = "LOCKNOACQUIRE"
           /\ e = "LOCKACQUIRE" => lockpending'[t] = "LOCKACQUIRE"
  BY DEF LInv, ProcessLockEvent

LEMMA LockEventFacts ==
    ASSUME NEW t \in Thread
    PROVE  /\ LockEvent(t) \in {"none", "LOCKNOACQUIRE", "LOCKACQUIRE", "LOCKWAKEUP"}
           /\ pc[t] = "idle" => LockEvent(t) = IF lock = 1 THEN "LOCKNOACQUIRE" ELSE "none"
           /\ pc[t] = "won" => LockEvent(t) = "LOCKACQUIRE"
           /\ pc[t] = "quick" => LockEvent(t) \in {"none", "LOCKACQUIRE"}
           /\ pc[t] \in {"clear", "check"} =>
                LockEvent(t) = IF pc'[t] \in {"wake", "drain_wake"} THEN "LOCKWAKEUP" ELSE "none"
           /\ pc[t] \notin {"idle", "won", "quick", "clear", "check"} => LockEvent(t) = "none"
  BY DEF LockEvent, At

(* A step of t leaves the lines of every other thread as they are.         *)
LEMMA OtherLines ==
    ASSUME IInv, LInv, NEW t \in Thread, NEW u \in Thread \ {t},
           lockpending'[u] = lockpending[u],
           pc'[u] = pc[u] \/ (pc[u] = "asleep" /\ pc'[u] = "retry"),
           was_contended_acquire'[u] = was_contended_acquire[u],
           pc[t] \in Owning \/ holder' = holder
    PROVE  /\ lockpending'[u] = "LOCKNOACQUIRE" => pc'[u] \in Trying
           /\ pc'[u] = "held" /\ holder' < 0 => lockpending'[u] = "LOCKACQUIRE"
           /\ lockpending'[u] = "LOCKACQUIRE" /\ was_contended_acquire'[u] => pc'[u] \in Holding
           /\ pc'[u] = "drain" => ~was_contended_acquire'[u]
           /\ pc'[u] = "drain_wake" => lockpending'[u] = "none"
<1>1. pc[u] = "held" => pc[t] \notin Owning
  BY DEF IInv, MutualExclusion, Owning
<1> QED
  BY <1>1 DEF LInv, LinesTrueIfWaited, Draining, Trying, Holding

LEMMA StepLines ==
    ASSUME IInv, LInv, NEW t \in Thread, QuickTry(t) \/ Interrupted(t) \/ Step(t),
           ProcessLockEvent(t, LockEvent(t))
    PROVE  LInv'
<1> DEFINE e == LockEvent(t)
<1>1. /\ lockpending' \in [Thread -> {"none", "LOCKNOACQUIRE", "LOCKACQUIRE"}]
      /\ \A u \in Thread \ {t} : lockpending'[u] = lockpending[u]
      /\ e = "none" => lockpending'[t] = lockpending[t]
      /\ e = "LOCKWAKEUP" => lockpending'[t] = "none"
      /\ e = "LOCKNOACQUIRE" => lockpending'[t] = "LOCKNOACQUIRE"
      /\ e = "LOCKACQUIRE" => lockpending'[t] = "LOCKACQUIRE"
  BY PendingMove, LockEventFacts
<1>2. \A u \in Thread \ {t} :
        /\ pc'[u] = pc[u] \/ (pc[u] = "asleep" /\ pc'[u] = "retry")
        /\ was_contended_acquire'[u] = was_contended_acquire[u]
  <2>1. CASE FutexWake(t)
    <3>1. PICK W \in Woken(Sleepers) :
             pc' = [u \in Thread |-> IF u = t THEN "idle"
                                     ELSE IF u \in W THEN "retry" ELSE pc[u]]
      BY <2>1 DEF FutexWake
    <3>2. \A u \in W : pc[u] = "asleep"
      BY <3>1, WokenFacts DEF Sleepers
    <3> QED
      BY <2>1, <3>1, <3>2 DEF FutexWake
  <2>2. CASE ~FutexWake(t)
    <3>1. \E l : Goto(t, l)
      BY <2>2 DEF Step, QuickTry, Interrupted, TestAndSet, AcquireSpin, AddWaiter, FutexWait,
         Retry, SubWaiter, SetHolder, ClearHolder, ClearLock, TestWaiters, TestWaitersEarly, Drain
    <3>2. \/ UNCHANGED was_contended_acquire
          \/ was_contended_acquire' = [was_contended_acquire EXCEPT ![t] = holder < 0]
      BY <2>2 DEF Step, QuickTry, Interrupted, TestAndSet, AcquireSpin, AddWaiter, FutexWait,
         Retry, SubWaiter, SetHolder, ClearHolder, ClearLock, TestWaiters, TestWaitersEarly, Drain
    <3> QED
      BY <3>1, <3>2 DEF Goto, IInv, TypeOK
  <2> QED
    BY <2>1, <2>2
<1>3. pc[t] \in Owning \/ holder' = holder
  BY DEF Step, QuickTry, Interrupted, TestAndSet, AcquireSpin, AddWaiter, FutexWait, FutexWake,
     Retry, SubWaiter, SetHolder, ClearHolder, ClearLock, TestWaiters, TestWaitersEarly, Drain,
     At, Owning
<1>4. /\ lockpending'[t] = "LOCKNOACQUIRE" => pc'[t] \in Trying
      /\ pc'[t] = "held" /\ holder' < 0 => lockpending'[t] = "LOCKACQUIRE"
      /\ lockpending'[t] = "LOCKACQUIRE" /\ was_contended_acquire'[t] => pc'[t] \in Holding
      /\ pc'[t] = "drain" => ~was_contended_acquire'[t]
      /\ pc'[t] = "drain_wake" => lockpending'[t] = "none"
  <2> USE <1>1, LockEventFacts, ThreadFacts
      DEF At, Goto, IInv, TypeOK, LInv, LinesTrueIfWaited, Draining, Trying, Holding
  <2>1. CASE QuickTry(t) \/ AcquireSpin(t) \/ Retry(t)
    BY <2>1 DEF QuickTry, AcquireSpin, Retry, TestAndSet
  <2>2. CASE Interrupted(t) \/ AddWaiter(t) \/ FutexWait(t) \/ SubWaiter(t)
    BY <2>2 DEF Interrupted, AddWaiter, FutexWait, SubWaiter
  <2>3. CASE SetHolder(t)
    BY <2>3 DEF SetHolder
  <2>4. CASE ClearHolder(t)
    BY <2>4 DEF ClearHolder
  <2>5. CASE ClearLock(t)
    BY <2>5 DEF ClearLock
  <2>6. CASE TestWaiters(t) \/ TestWaitersEarly(t)
    BY <2>6 DEF TestWaiters, TestWaitersEarly, MayHaveWaiters
  <2>7. CASE Drain(t)
    BY <2>7 DEF Drain
  <2>8. CASE FutexWake(t)
    BY <2>8 DEF FutexWake
  <2> QED
    BY <2>1, <2>2, <2>3, <2>4, <2>5, <2>6, <2>7, <2>8 DEF Step
<1> QED
  BY <1>1, <1>2, <1>3, <1>4, OtherLines DEF LInv, LinesTrueIfWaited, Draining

(* The lines drawn for threads that waited for a lock are true, for any    *)
(* number of threads: the entries of mutex2.cc are enough for the          *)
(* converter, which only remembers the last one of each thread.            *)
THEOREM LinesTrueHolds == TracedSpec => []LinesTrueIfWaited
<1>1. TracedInit => IInv /\ LInv
  BY InitIInv DEF TracedInit, Init, LInv, LinesTrueIfWaited, Draining
<1>2. IInv /\ LInv /\ [TracedNext]_tracedvars => (IInv /\ LInv)'
  <2> SUFFICES ASSUME IInv, LInv, [TracedNext]_tracedvars PROVE (IInv /\ LInv)'
    OBVIOUS
  <2>1. ASSUME NEW t \in Thread, TracedStep(t) \/ Unforced(t) PROVE (IInv /\ LInv)'
    <3>1. /\ QuickTry(t) \/ Interrupted(t) \/ Step(t)
          /\ ProcessLockEvent(t, LockEvent(t))
      BY <2>1 DEF TracedStep, Unforced
    <3>2. [Next]_vars
      BY <3>1 DEF Next
    <3> QED
      BY <3>1, <3>2, NextIInv, StepLines
  <2>2. CASE UNCHANGED tracedvars
    <3>1. IInv'
      BY <2>2, NextIInv DEF tracedvars
    <3>2. LInv'
      BY <2>2 DEF tracedvars, vars, LInv, LinesTrueIfWaited, Draining
    <3> QED
      BY <3>1, <3>2
  <2> QED
    BY <2>1, <2>2 DEF TracedNext
<1>3. LInv => LinesTrueIfWaited
  BY DEF LInv
<1> QED
  BY <1>1, <1>2, <1>3, PTL DEF TracedSpec

(***************************************************************************)
(* The bank: the inductive invariant                                       *)
(***************************************************************************)

(* Who does what: the dashboard always has the same work, and a worker an  *)
(* action while it is busy.                                                *)
Busy ==
    /\ job[Dashboard] = Show
    /\ \A t \in Threads :
          /\ phase[t] = "idle" => taken[t] = 0
          /\ phase[t] # "idle" => left[t] > 0
          /\ phase[t] # "idle" /\ t # Dashboard => job[t] \in Update \cup Balance

(* A thread owns the locks it has taken, and they are the first ones of    *)
(* the list of its work.                                                   *)
Owned ==
    \A t \in Threads :
       /\ taken[t] <= Len(Order(job[t], opt))
       /\ \A i \in 1 .. taken[t] : owner[Order(job[t], opt)[i]] = t

(* An update has both its locks and a fresh balance.                       *)
Locked ==
    \A t \in Threads :
       /\ phase[t] \in Updating => job[t].type = "update" /\ taken[t] = 2
       /\ phase[t] = "account" => seen[t] = accounts[job[t].account]

(* With locks, the page is filled only while all of them are held.         *)
PageEmpty ==
    /\ opt.dashlocks /\ taken[Dashboard] # 4 => page = <<>>
    /\ phase[Dashboard] # "acquire" => page = <<>>

BankInv == /\ BankTypeOK /\ Busy /\ Owned /\ Locked /\ PageEmpty
        /\ NothingLost /\ PageTrue

(***************************************************************************)
(* The lists of locks                                                      *)
(***************************************************************************)

LEMMA LockNumber ==
    ASSUME NEW j \in Update \cup Balance, NEW o \in Options
    PROVE  locknum(j, o) \in {0, 1}
BY InputsAssumption DEF Update, Balance, Options, Accounts, locknum

LEMMA DashboardOrder ==
    ASSUME NEW o \in Options
    PROVE  /\ o.dashlocks => /\ Len(Order(Show, o)) = 4
                             /\ Order(Show, o)[1] = reader(0)
                             /\ Order(Show, o)[2] = reader(1)
                             /\ Order(Show, o)[3] = writer(0)
                             /\ Order(Show, o)[4] = writer(1)
           /\ ~o.dashlocks => Len(Order(Show, o)) = 0
<1>1. CASE o.dashlocks
  <2>1. Order(Show, o) = <<reader(0), reader(1), writer(0), writer(1)>>
    BY <1>1 DEF Order, Show
  <2> QED BY <1>1, <2>1
<1>2. CASE ~o.dashlocks
  <2>1. Order(Show, o) = <<>>
    BY <1>2 DEF Order, Show
  <2> QED BY <1>2, <2>1
<1> QED BY <1>1, <1>2

LEMMA UpdateOrder ==
    ASSUME NEW j \in Update, NEW o \in Options
    PROVE  /\ Len(Order(j, o)) = 2
           /\ Order(j, o)[1] = reader(locknum(j, o))
           /\ Order(j, o)[2] = writer(locknum(j, o))
<1>1. Order(j, o) = <<reader(locknum(j, o)), writer(locknum(j, o))>>
  BY DEF Order, Update
<1> QED BY <1>1

LEMMA BalanceOrder ==
    ASSUME NEW j \in Balance, NEW o \in Options
    PROVE  /\ o.lockbal => /\ Len(Order(j, o)) = 1
                           /\ Order(j, o)[1] = reader(locknum(j, o))
           /\ ~o.lockbal => Len(Order(j, o)) = 0
<1>1. CASE o.lockbal
  <2>1. Order(j, o) = <<reader(locknum(j, o))>>
    BY <1>1 DEF Order, Balance
  <2> QED BY <1>1, <2>1
<1>2. CASE ~o.lockbal
  <2>1. Order(j, o) = <<>>
    BY <1>2 DEF Order, Balance
  <2> QED BY <1>2, <2>1
<1> QED BY <1>1, <1>2

LEMMA LockNames ==
    /\ reader(0) \in Locks /\ reader(1) \in Locks
    /\ writer(0) \in Locks /\ writer(1) \in Locks
    /\ reader(0) # reader(1) /\ writer(0) # writer(1)
    /\ reader(0) # writer(0) /\ reader(0) # writer(1)
    /\ reader(1) # writer(0) /\ reader(1) # writer(1)
<1>1. \A m, n : reader(m)[1] = "readerlock" /\ writer(n)[1] = "writerlock"
  BY DEF reader, writer
<1>2. \A m : reader(m)[2] = m /\ writer(m)[2] = m
  BY DEF reader, writer
<1>3. reader(0) # reader(1) /\ writer(0) # writer(1)
  BY <1>2
<1>4. /\ reader(0) # writer(0) /\ reader(0) # writer(1)
      /\ reader(1) # writer(0) /\ reader(1) # writer(1)
  BY <1>1
<1>5. /\ reader(0) \in Locks /\ reader(1) \in Locks
      /\ writer(0) \in Locks /\ writer(1) \in Locks
  BY DEF reader, writer, Locks
<1> QED BY <1>3, <1>4, <1>5

(* A list has at most four locks, and no lock twice.                       *)
LEMMA OrderFacts ==
    ASSUME NEW j \in Update \cup Balance \cup {Show}, NEW o \in Options
    PROVE  /\ Len(Order(j, o)) \in 0..4
           /\ \A i \in 1 .. Len(Order(j, o)) : Order(j, o)[i] \in Locks
           /\ \A i, k \in 1 .. Len(Order(j, o)) :
                 Order(j, o)[i] = Order(j, o)[k] => i = k
<1>1. CASE j = Show
  <2>1. CASE o.dashlocks
    <3>1. Len(Order(j, o)) = 4
      BY <1>1, <2>1, DashboardOrder
    <3>2. \A i \in 1 .. Len(Order(j, o)) : i = 1 \/ i = 2 \/ i = 3 \/ i = 4
      BY <3>1
    <3> QED BY <1>1, <2>1, <3>1, <3>2, DashboardOrder, LockNames
  <2>2. CASE ~o.dashlocks
    <3>1. Len(Order(j, o)) = 0 /\ \A i \in 1 .. Len(Order(j, o)) : FALSE
      BY <1>1, <2>2, DashboardOrder
    <3> QED BY <1>1, <2>2, <3>1, DashboardOrder
  <2> QED BY <2>1, <2>2
<1>2. CASE j \in Update
  <2>1. Len(Order(j, o)) = 2
    BY <1>2, UpdateOrder
  <2>2. \A i \in 1 .. Len(Order(j, o)) : i = 1 \/ i = 2
    BY <2>1
  <2>3. CASE locknum(j, o) = 0
    BY <1>2, <2>1, <2>2, <2>3, UpdateOrder, LockNames
  <2>4. CASE locknum(j, o) = 1
    BY <1>2, <2>1, <2>2, <2>4, UpdateOrder, LockNames
  <2> QED BY <1>2, <2>3, <2>4, LockNumber
<1>3. CASE j \in Balance
  <2>1. CASE o.lockbal
    <3>1. Len(Order(j, o)) = 1 /\ \A i \in 1 .. Len(Order(j, o)) : i = 1
      BY <1>3, <2>1, BalanceOrder
    <3>2. CASE locknum(j, o) = 0
      BY <1>3, <2>1, <3>1, <3>2, BalanceOrder, LockNames
    <3>3. CASE locknum(j, o) = 1
      BY <1>3, <2>1, <3>1, <3>3, BalanceOrder, LockNames
    <3> QED BY <1>3, <3>2, <3>3, LockNumber
  <2>2. CASE ~o.lockbal
    <3>1. Len(Order(j, o)) = 0 /\ \A i \in 1 .. Len(Order(j, o)) : FALSE
      BY <1>3, <2>2, BalanceOrder
    <3> QED BY <1>3, <2>2, <3>1, BalanceOrder
  <2> QED BY <2>1, <2>2
<1> QED BY <1>1, <1>2, <1>3

(* Two threads that have all locks of their updates do not update the same *)
(* account, and the dashboard with all its locks meets no update.          *)
LEMMA UpdatesApart ==
    ASSUME BankTypeOK, Busy, Owned, Locked,
           NEW t \in Threads, NEW u \in Threads, t # u,
           phase[t] \in Updating, phase[u] \in Updating
    PROVE  job[t].account # job[u].account
<1>1. job[t] \in Update /\ job[u] \in Update /\ opt \in Options
  BY DEF BankTypeOK, Busy, Locked, Update, Balance, Show
<1>2. SUFFICES ASSUME job[t].account = job[u].account PROVE FALSE
  OBVIOUS
<1>3. locknum(job[t], opt) = locknum(job[u], opt)
  BY <1>2 DEF locknum
<1>4. 1 \in 1 .. taken[t] /\ 1 \in 1 .. taken[u]
  BY DEF Locked
<1>5. owner[reader(locknum(job[t], opt))] = t /\ owner[reader(locknum(job[u], opt))] = u
  BY <1>1, <1>4, UpdateOrder DEF Owned
<1> QED BY <1>3, <1>5

LEMMA NoUpdateWhileShown ==
    ASSUME BankTypeOK, Busy, Owned, Locked, taken[Dashboard] = 4,
           NEW t \in Threads, phase[t] \in Updating
    PROVE  FALSE
<1>1. job[t] \in Update /\ opt \in Options /\ t # Dashboard
  BY DEF BankTypeOK, Busy, Locked, Update, Balance, Show
<1>2. opt.dashlocks /\ Len(Order(Show, opt)) = 4
  BY <1>1, DashboardOrder DEF Owned, Busy, Threads
<1>3. \A i \in 1..4 : owner[Order(Show, opt)[i]] = Dashboard
  BY DEF Owned, Busy, Threads
<1>4. owner[reader(0)] = Dashboard /\ owner[reader(1)] = Dashboard
  BY <1>1, <1>2, <1>3, DashboardOrder
<1>5. 1 \in 1 .. taken[t]
  BY DEF Locked
<1>6. owner[reader(locknum(job[t], opt))] = t
  BY <1>1, <1>5, UpdateOrder DEF Owned
<1>7. locknum(job[t], opt) \in {0, 1}
  BY <1>1, LockNumber
<1> QED BY <1>1, <1>4, <1>6, <1>7

(***************************************************************************)
(* The invariant is preserved, action by action                            *)
(***************************************************************************)

LEMMA Start == BankInit => BankInv
<1> SUFFICES ASSUME BankInit PROVE BankInv
  OBVIOUS
<1>1. BankTypeOK
  BY ThreadsAssumption, InputsAssumption
     DEF BankInit, BankTypeOK, Threads, Accounts, Locks
<1>2. Busy /\ Locked /\ PageEmpty /\ NothingLost
  BY DEF BankInit, Busy, Locked, PageEmpty, NothingLost, Updating, Threads
<1>3. Owned
  BY <1>1, OrderFacts DEF BankInit, Owned, BankTypeOK
<1>4. PageTrue
  BY DEF BankInit, PageTrue, Threads
<1> QED BY <1>1, <1>2, <1>3, <1>4 DEF BankInv

LEMMA AcquireKeeps ==
    ASSUME BankInv, NEW t \in Threads, Acquire(t)
    PROVE  BankInv'
<1> USE DEF BankInv
<1> DEFINE l == Order(job[t], opt)[taken[t] + 1]
<1>1. /\ owner[l] = Nobody /\ owner' = [owner EXCEPT ![l] = t]
      /\ taken' = [taken EXCEPT ![t] = @ + 1]
      /\ phase[t] = "acquire" /\ taken[t] < Len(Order(job[t], opt))
      /\ UNCHANGED <<opt, asleep, accounts, bankbalance, posted, phase, job, seen, left, page>>
  BY DEF Acquire, NextLock, books
<1>2. \A u \in Threads : job[u] \in Update \cup Balance \cup {Show} /\ taken[u] \in 0..4
  BY DEF BankTypeOK
<1>3. opt \in Options
  BY DEF BankTypeOK
<1>4. taken[t] + 1 \in 1 .. Len(Order(job[t], opt)) /\ l \in Locks
  <2>1. /\ Len(Order(job[t], opt)) \in 0..4
        /\ \A i \in 1 .. Len(Order(job[t], opt)) : Order(job[t], opt)[i] \in Locks
    BY <1>2, <1>3, OrderFacts
  <2>2. taken[t] + 1 \in 1 .. Len(Order(job[t], opt))
    BY <1>1, <1>2, <2>1
  <2> QED
    BY <2>1, <2>2
<1>5. BankTypeOK'
  <2>1. taken' \in [Threads -> 0..4]
    <3>1. Len(Order(job[t], opt)) \in 0..4 /\ taken \in [Threads -> 0..4]
      BY <1>2, <1>3, OrderFacts DEF BankTypeOK
    <3>2. taken[t] + 1 \in 0..4
      BY <1>1, <3>1
    <3> QED BY <1>1, <3>1, <3>2
  <2>2. owner' \in [Locks -> Threads \cup {Nobody}]
    BY <1>1, <1>4 DEF BankTypeOK
  <2> QED BY <1>1, <2>1, <2>2 DEF BankTypeOK
<1>6. Busy'
  BY <1>1, <1>2 DEF Busy, BankTypeOK
<1>7. Owned'
  <2> SUFFICES ASSUME NEW u \in Threads
               PROVE  /\ taken'[u] <= Len(Order(job[u], opt))
                      /\ \A i \in 1 .. taken'[u] : owner'[Order(job[u], opt)[i]] = u
    BY <1>1 DEF Owned
  <2>1. CASE u = t
    <3>1. taken'[u] = taken[t] + 1
      BY <1>1, <2>1 DEF BankTypeOK
    <3>2. SUFFICES ASSUME NEW i \in 1 .. (taken[t] + 1)
                   PROVE  owner'[Order(job[t], opt)[i]] = t
      BY <1>1, <1>2, <1>3, <2>1, <3>1, OrderFacts
    <3>3. CASE i = taken[t] + 1
      BY <1>1, <1>4, <3>3 DEF BankTypeOK
    <3>4. CASE i # taken[t] + 1
      <4>1. i \in 1 .. taken[t] /\ i \in 1 .. Len(Order(job[t], opt))
        BY <1>1, <1>2, <1>3, <3>4, OrderFacts
      <4>2. Order(job[t], opt)[i] # l
        BY <1>2, <1>3, <1>4, <3>4, <4>1, OrderFacts
      <4>3. owner[Order(job[t], opt)[i]] = t /\ Order(job[t], opt)[i] \in Locks
        BY <1>2, <1>3, <4>1, OrderFacts DEF Owned
      <4> QED BY <1>1, <4>2, <4>3 DEF BankTypeOK
    <3> QED BY <3>3, <3>4
  <2>2. CASE u # t
    <3>1. taken'[u] = taken[u]
      BY <1>1, <2>2 DEF BankTypeOK
    <3>2. ASSUME NEW i \in 1 .. taken[u] PROVE owner'[Order(job[u], opt)[i]] = u
      <4>1. owner[Order(job[u], opt)[i]] = u
        BY DEF Owned
      <4>2. Order(job[u], opt)[i] # l
        BY <1>1, <4>1, ThreadsAssumption DEF Threads
      <4>3. i \in 1 .. Len(Order(job[u], opt))
        BY <1>2, <1>3, OrderFacts DEF Owned
      <4>4. Order(job[u], opt)[i] \in Locks
        BY <1>2, <1>3, <4>3, OrderFacts
      <4> QED BY <1>1, <4>1, <4>2, <4>4 DEF BankTypeOK
    <3> QED BY <3>1, <3>2 DEF Owned
  <2> QED BY <2>1, <2>2
<1>8. Locked'
  <2>1. phase[t] \notin Updating
    BY <1>1 DEF Updating
  <2>2. \A u \in Threads : u # t => taken'[u] = taken[u]
    BY <1>1 DEF BankTypeOK
  <2> QED BY <1>1, <2>1, <2>2 DEF Locked
<1>9. PageEmpty' /\ PageTrue'
  <2>1. CASE t = Dashboard
    <3>0. Len(Order(Show, opt)) > taken[t] /\ taken[t] \in 0..4
      BY <1>1, <1>2, <2>1 DEF Busy
    <3>1. opt.dashlocks \/ Len(Order(Show, opt)) = 0
      BY <1>3, DashboardOrder
    <3>2. opt.dashlocks
      BY <3>0, <3>1
    <3>3. Len(Order(Show, opt)) = 4
      BY <1>3, <3>2, DashboardOrder
    <3>4. taken[Dashboard] # 4
      BY <2>1, <3>0, <3>3
    <3>5. page = <<>>
      BY <3>2, <3>4 DEF PageEmpty
    <3> QED BY <1>1, <3>5 DEF PageEmpty, PageTrue
  <2>2. CASE t # Dashboard
    <3>1. taken'[Dashboard] = taken[Dashboard]
      BY <1>1, <2>2 DEF BankTypeOK, Threads
    <3> QED BY <1>1, <3>1 DEF PageEmpty, PageTrue
  <2> QED BY <2>1, <2>2
<1>10. NothingLost'
  BY <1>1 DEF NothingLost
<1> QED BY <1>5, <1>6, <1>7, <1>8, <1>9, <1>10

LEMMA ReleaseKeeps ==
    ASSUME BankInv, NEW t \in Threads, Release(t)
    PROVE  BankInv'
<1> USE DEF BankInv
<1> DEFINE l == Order(job[t], opt)[taken[t]]
<1>1. /\ owner' = [owner EXCEPT ![l] = Nobody]
      /\ taken' = [taken EXCEPT ![t] = @ - 1]
      /\ phase[t] = "release" /\ taken[t] > 0
      /\ UNCHANGED <<opt, accounts, bankbalance, posted, phase, job, seen, left, page>>
  BY DEF Release, books
<1>b. asleep' \subseteq Threads
  BY DEF Release, Waiting, BankTypeOK
<1>2. \A u \in Threads : job[u] \in Update \cup Balance \cup {Show} /\ taken[u] \in 0..4
  BY DEF BankTypeOK
<1>3. opt \in Options
  BY DEF BankTypeOK
<1>4. \A u \in Threads : \A i \in 1 .. taken[u] : i \in 1 .. Len(Order(job[u], opt))
  BY <1>2, <1>3, OrderFacts DEF Owned
<1>5. owner[l] = t /\ l \in Locks
  <2>1. taken[t] \in 1 .. taken[t]
    BY <1>1, <1>2
  <2>2. owner[l] = t
    BY <2>1 DEF Owned
  <2>3. l \in Locks
    BY <1>2, <1>3, <1>4, <2>1, OrderFacts
  <2> QED BY <2>2, <2>3
<1>6. BankTypeOK'
  <2>1. taken' \in [Threads -> 0..4]
    BY <1>1, <1>2 DEF BankTypeOK
  <2>2. owner' \in [Locks -> Threads \cup {Nobody}]
    BY <1>1 DEF BankTypeOK
  <2> QED BY <1>1, <1>b, <2>1, <2>2 DEF BankTypeOK
<1>7. Busy'
  BY <1>1, <1>2 DEF Busy, BankTypeOK
<1>8. Owned'
  <2> SUFFICES ASSUME NEW u \in Threads
               PROVE  /\ taken'[u] <= Len(Order(job[u], opt))
                      /\ \A i \in 1 .. taken'[u] : owner'[Order(job[u], opt)[i]] = u
    BY <1>1 DEF Owned
  <2>1. taken'[u] <= taken[u] /\ taken'[u] \in 0..4 /\ (u = t => taken'[u] = taken[u] - 1)
    BY <1>1, <1>2 DEF BankTypeOK
  <2>2. taken'[u] <= Len(Order(job[u], opt))
    BY <1>2, <1>3, <2>1, OrderFacts DEF Owned
  <2>3. ASSUME NEW i \in 1 .. taken'[u] PROVE owner'[Order(job[u], opt)[i]] = u
    <3>1. i \in 1 .. taken[u]
      BY <1>2, <2>1
    <3>2. owner[Order(job[u], opt)[i]] = u /\ Order(job[u], opt)[i] \in Locks
      BY <1>2, <1>3, <1>4, <3>1, OrderFacts DEF Owned
    <3>3. Order(job[u], opt)[i] # l
      <4>1. CASE u = t
        <5>1. i # taken[t] /\ taken[t] \in 1 .. taken[t]
          BY <1>1, <1>2, <2>1, <4>1
        <5> QED BY <1>2, <1>3, <1>4, <3>1, <4>1, <5>1, OrderFacts
      <4>2. CASE u # t
        BY <1>5, <3>2, <4>2
      <4> QED BY <4>1, <4>2
    <3> QED BY <1>1, <3>2, <3>3 DEF BankTypeOK
  <2> QED BY <2>2, <2>3
<1>9. Locked'
  <2>1. phase[t] \notin Updating
    BY <1>1 DEF Updating
  <2>2. \A u \in Threads : u # t => taken'[u] = taken[u]
    BY <1>1 DEF BankTypeOK
  <2> QED BY <1>1, <2>1, <2>2 DEF Locked
<1>10. PageEmpty' /\ PageTrue'
  <2>1. CASE t = Dashboard
    <3>1. page = <<>>
      BY <1>1, <2>1 DEF PageEmpty
    <3> QED BY <1>1, <3>1 DEF PageEmpty, PageTrue
  <2>2. CASE t # Dashboard
    <3>1. taken'[Dashboard] = taken[Dashboard]
      BY <1>1, <2>2 DEF BankTypeOK, Threads
    <3> QED BY <1>1, <3>1 DEF PageEmpty, PageTrue
  <2> QED BY <2>1, <2>2
<1>11. NothingLost'
  BY <1>1 DEF NothingLost
<1> QED BY <1>6, <1>7, <1>8, <1>9, <1>10, <1>11

LEMMA EndKeeps ==
    ASSUME BankInv, NEW t \in Threads, EndIteration(t)
    PROVE  BankInv'
<1> USE DEF BankInv
<1>1. /\ phase[t] = "release" /\ taken[t] = 0
      /\ phase' = [phase EXCEPT ![t] = "idle"]
      /\ left' = [left EXCEPT ![t] = @ - 1]
      /\ job' = [job EXCEPT ![t] = Show]
      /\ seen' = [seen EXCEPT ![t] = 0]
      /\ UNCHANGED <<opt, owner, asleep, accounts, bankbalance, posted, taken, page>>
  BY DEF EndIteration, SetPhase, books
<1>2. left[t] > 0
  BY <1>1 DEF Busy
<1>3. BankTypeOK'
  <2>1. left' \in [Threads -> Nat]
    BY <1>1, <1>2 DEF BankTypeOK
  <2> QED BY <1>1, <2>1 DEF BankTypeOK
<1>4. Busy'
  BY <1>1 DEF Busy, BankTypeOK, Threads
<1>5. Owned'
  <2>1. \A u \in Threads : u # t => job'[u] = job[u]
    BY <1>1 DEF BankTypeOK
  <2>2. job'[t] = Show /\ opt \in Options
    BY <1>1 DEF BankTypeOK
  <2>3. Len(Order(Show, opt)) \in 0..4
    BY <2>2, OrderFacts
  <2>4. ASSUME NEW u \in Threads
        PROVE  /\ taken[u] <= Len(Order(job'[u], opt))
               /\ \A i \in 1 .. taken[u] : owner[Order(job'[u], opt)[i]] = u
    <3>1. CASE u = t
      BY <1>1, <2>2, <2>3, <3>1
    <3>2. CASE u # t
      BY <2>1, <3>2 DEF Owned
    <3> QED BY <3>1, <3>2
  <2> QED BY <1>1, <2>4 DEF Owned
<1>6. Locked'
  BY <1>1 DEF Locked, Updating, BankTypeOK
<1>7. PageEmpty' /\ PageTrue'
  BY <1>1 DEF PageEmpty, PageTrue, BankTypeOK
<1>8. NothingLost'
  BY <1>1 DEF NothingLost
<1> QED BY <1>3, <1>4, <1>5, <1>6, <1>7, <1>8

LEMMA MakeActionKeeps ==
    ASSUME BankInv, NEW t \in Workers, MakeAction(t)
    PROVE  BankInv'
<1> USE DEF BankInv
<1>1. PICK j \in Update \cup Balance : job' = [job EXCEPT ![t] = j]
  BY DEF MakeAction
<1>2. /\ phase[t] = "idle" /\ left[t] > 0
      /\ phase' = [phase EXCEPT ![t] = "acquire"]
      /\ UNCHANGED <<opt, owner, asleep, accounts, bankbalance, posted, taken, seen, left, page>>
  BY DEF MakeAction, SetPhase, books
<1>3. t \in Threads /\ t # Dashboard
  BY ThreadsAssumption DEF Threads
<1>4. BankTypeOK'
  BY <1>1, <1>2, <1>3 DEF BankTypeOK
<1>5. Busy'
  BY <1>1, <1>2, <1>3 DEF Busy, BankTypeOK
<1>6. Owned'
  <2>1. taken[t] = 0
    BY <1>2, <1>3 DEF Busy
  <2>2. \A u \in Threads : u # t => job'[u] = job[u]
    BY <1>1 DEF BankTypeOK
  <2>3. Len(Order(j, opt)) \in 0..4 /\ job'[t] = j
    BY <1>1, <1>3, OrderFacts DEF BankTypeOK
  <2>4. ASSUME NEW u \in Threads
        PROVE  /\ taken[u] <= Len(Order(job'[u], opt))
               /\ \A i \in 1 .. taken[u] : owner[Order(job'[u], opt)[i]] = u
    <3>1. CASE u = t
      BY <2>1, <2>3, <3>1
    <3>2. CASE u # t
      BY <2>2, <3>2 DEF Owned
    <3> QED BY <3>1, <3>2
  <2> QED BY <1>2, <2>4 DEF Owned
<1>7. Locked'
  BY <1>1, <1>2, <1>3 DEF Locked, Updating, BankTypeOK
<1>8. PageEmpty' /\ PageTrue'
  BY <1>2, <1>3 DEF PageEmpty, PageTrue, BankTypeOK
<1>9. NothingLost'
  BY <1>2 DEF NothingLost
<1> QED BY <1>4, <1>5, <1>6, <1>7, <1>8, <1>9

(* The steps of an update leave jobs and locks alone.                      *)
LEMMA OwnedKept ==
    ASSUME Owned, UNCHANGED <<opt, owner, job, taken>>
    PROVE  Owned'
BY DEF Owned

LEMMA LoadAccountKeeps ==
    ASSUME BankInv, NEW t \in Workers, LoadAccount(t)
    PROVE  BankInv'
<1> USE DEF BankInv
<1>1. /\ phase[t] = "acquire" /\ taken[t] = Len(Order(job[t], opt))
      /\ job[t].type = "update"
      /\ seen' = [seen EXCEPT ![t] = accounts[job[t].account]]
      /\ phase' = [phase EXCEPT ![t] = "account"]
      /\ UNCHANGED <<opt, owner, asleep, accounts, bankbalance, posted, job, taken, left, page>>
  BY DEF LoadAccount, Inside, SetPhase, books
<1>2. t \in Threads /\ t # Dashboard
  BY ThreadsAssumption DEF Threads
<1>3. job[t] \in Update /\ opt \in Options
  BY <1>1, <1>2 DEF Busy, BankTypeOK, Update, Balance
<1>4. accounts[job[t].account] \in Int
  BY <1>3 DEF BankTypeOK, Update
<1>5. BankTypeOK'
  BY <1>1, <1>2, <1>4 DEF BankTypeOK, Updating
<1>6. Busy'
  BY <1>1, <1>2 DEF Busy, BankTypeOK
<1>7. Owned'
  BY <1>1, OwnedKept
<1>8. Locked'
  <2>1. taken[t] = 2
    BY <1>1, <1>3, UpdateOrder
  <2> QED BY <1>1, <1>2, <2>1 DEF Locked, BankTypeOK
<1>9. PageEmpty' /\ PageTrue'
  BY <1>1, <1>2 DEF PageEmpty, PageTrue, BankTypeOK
<1>10. NothingLost'
  BY <1>1 DEF NothingLost
<1> QED BY <1>5, <1>6, <1>7, <1>8, <1>9, <1>10

(* The store is where postings would be lost: the balance it is computed   *)
(* from is still the account's, because no other thread updates it.        *)
LEMMA StoreAccountKeeps ==
    ASSUME BankInv, NEW t \in Workers, StoreAccount(t)
    PROVE  BankInv'
<1> USE DEF BankInv
<1> DEFINE a == job[t].account
<1>1. /\ phase[t] = "account"
      /\ accounts' = [accounts EXCEPT ![a] = seen[t] + job[t].amount]
      /\ posted' = [posted EXCEPT ![a] = @ + job[t].amount]
      /\ phase' = [phase EXCEPT ![t] = "bank"]
      /\ UNCHANGED <<opt, owner, asleep, bankbalance, job, taken, seen, left, page>>
  BY DEF StoreAccount, SetPhase
<1>2. t \in Threads /\ t # Dashboard
  BY ThreadsAssumption DEF Threads
<1>3. job[t] \in Update /\ a \in Accounts /\ job[t].amount \in Int
  <2>1. job[t] \in Update
    BY <1>1, <1>2 DEF Busy, Locked, Updating, Update, Balance
  <2> QED BY <2>1, InputsAssumption DEF Update
<1>4. seen[t] = accounts[a] /\ seen[t] \in Int
  BY <1>1, <1>2 DEF Locked, BankTypeOK
<1>5. BankTypeOK'
  <2>1. accounts' \in [Accounts -> Int] /\ posted' \in [Accounts -> Int]
    BY <1>1, <1>3, <1>4 DEF BankTypeOK
  <2> QED BY <1>1, <1>2, <2>1 DEF BankTypeOK, Updating
<1>6. Busy'
  BY <1>1, <1>2 DEF Busy, BankTypeOK
<1>7. Owned'
  BY <1>1, OwnedKept
<1>8. Locked'
  <2>1. ASSUME NEW u \in Threads, u # t, phase[u] = "account"
        PROVE  job[u].account # a
    BY <1>1, <1>2, <2>1, UpdatesApart DEF Updating
  <2>2. ASSUME NEW u \in Threads, u # t, phase[u] = "account"
        PROVE  seen[u] = accounts'[job[u].account]
    <3>1. job[u] \in Update
      BY <2>2 DEF Busy, Locked, Updating, Update, Balance, BankTypeOK, Show
    <3> QED BY <1>1, <2>1, <2>2, <3>1 DEF Locked, BankTypeOK, Update
  <2> QED BY <1>1, <1>2, <2>2 DEF Locked, BankTypeOK, Updating
<1>9. taken[Dashboard] # 4
  BY <1>1, <1>2, NoUpdateWhileShown DEF Updating
<1>10. PageEmpty' /\ PageTrue'
  BY <1>1, <1>2, <1>9 DEF PageEmpty, PageTrue, BankTypeOK
<1>11. NothingLost'
  BY <1>1, <1>3, <1>4 DEF NothingLost, BankTypeOK
<1> QED BY <1>5, <1>6, <1>7, <1>8, <1>10, <1>11

LEMMA BankKeeps ==
    ASSUME BankInv, NEW t \in Workers, LoadBank(t) \/ StoreBank(t) \/ ReadBalance(t)
    PROVE  BankInv'
<1> USE DEF BankInv
<1>1. t \in Threads /\ t # Dashboard
  BY ThreadsAssumption DEF Threads
<1>2. /\ phase[t] # "idle"
      /\ \/ phase[t] = "bank" /\ phase' = [phase EXCEPT ![t] = "total"]
         \/ phase' = [phase EXCEPT ![t] = "release"]
      /\ UNCHANGED <<opt, owner, asleep, accounts, posted, job, taken, left, page>>
  BY DEF LoadBank, StoreBank, ReadBalance, Inside, SetPhase, books
<1>3. seen' \in [Threads -> Int] /\ bankbalance' \in Int
  <2>1. CASE LoadBank(t)
    BY <1>1, <2>1 DEF LoadBank, BankTypeOK, books
  <2>2. CASE StoreBank(t)
    <3>1. phase[t] = "total" /\ bankbalance' = seen[t] + job[t].amount /\ seen' = seen
      BY <2>2 DEF StoreBank
    <3>2. job[t] \in Update
      BY <1>1, <3>1 DEF Busy, Locked, Updating, Update, Balance
    <3>3. job[t].amount \in Int /\ seen[t] \in Int
      BY <1>1, <3>2, InputsAssumption DEF Update, BankTypeOK
    <3> QED BY <3>1, <3>3 DEF BankTypeOK
  <2>3. CASE ReadBalance(t)
    BY <2>3 DEF ReadBalance, BankTypeOK, books
  <2> QED BY <2>1, <2>2, <2>3
<1>4. \A u \in Threads : u # t => seen'[u] = seen[u]
  BY DEF LoadBank, StoreBank, ReadBalance, BankTypeOK
<1>5. BankTypeOK'
  BY <1>1, <1>2, <1>3 DEF BankTypeOK, Updating
<1>6. Busy'
  BY <1>1, <1>2 DEF Busy, BankTypeOK
<1>7. Owned'
  BY <1>2, OwnedKept
<1>8. Locked'
  BY <1>1, <1>2, <1>4 DEF Locked, BankTypeOK, Updating
<1>9. PageEmpty' /\ PageTrue'
  <2>1. phase'[Dashboard] = phase[Dashboard]
    BY <1>1, <1>2 DEF BankTypeOK, Threads
  <2> QED BY <1>2, <2>1 DEF PageEmpty, PageTrue
<1>10. NothingLost'
  BY <1>2 DEF NothingLost
<1> QED BY <1>5, <1>6, <1>7, <1>8, <1>9, <1>10

LEMMA StartDashboardKeeps ==
    ASSUME BankInv, StartDashboard
    PROVE  BankInv'
<1> USE DEF BankInv
<1>1. /\ phase[Dashboard] = "idle" /\ left[Dashboard] > 0
      /\ phase' = [phase EXCEPT ![Dashboard] = "acquire"]
      /\ UNCHANGED <<opt, owner, asleep, accounts, bankbalance, posted, job, taken, seen, left, page>>
  BY DEF StartDashboard, SetPhase, books
<1>2. BankTypeOK'
  BY <1>1 DEF BankTypeOK
<1>3. Busy'
  BY <1>1 DEF Busy, BankTypeOK
<1>4. Owned'
  BY <1>1, OwnedKept
<1>5. Locked'
  BY <1>1 DEF Locked, BankTypeOK, Updating
<1>6. PageEmpty' /\ PageTrue'
  BY <1>1 DEF PageEmpty, PageTrue
<1>7. NothingLost'
  BY <1>1 DEF NothingLost
<1> QED BY <1>2, <1>3, <1>4, <1>5, <1>6, <1>7

LEMMA ReadAccountKeeps ==
    ASSUME BankInv, ReadAccount
    PROVE  BankInv'
<1> USE DEF BankInv
<1>1. /\ phase[Dashboard] = "acquire" /\ taken[Dashboard] = Len(Order(job[Dashboard], opt))
      /\ Len(page) <= LastAccount
      /\ page' = Append(page, accounts[Len(page)])
      /\ UNCHANGED <<opt, owner, asleep, accounts, bankbalance, posted, phase, job, taken, seen, left>>
  BY DEF ReadAccount, Inside, books
<1>2. page \in Seq(Int) /\ Len(page) \in Accounts /\ accounts[Len(page)] \in Int
  <2>1. page \in Seq(Int) /\ Len(page) \in Nat
    BY DEF BankTypeOK
  <2>2. Len(page) \in Accounts
    BY <1>1, <2>1, InputsAssumption DEF Accounts
  <2> QED BY <2>1, <2>2 DEF BankTypeOK
<1>3. BankTypeOK'
  <2>1. page' \in Seq(Int)
    BY <1>1, <1>2
  <2> QED BY <1>1, <2>1 DEF BankTypeOK
<1>4. Busy'
  BY <1>1 DEF Busy
<1>5. Owned'
  BY <1>1, OwnedKept
<1>6. Locked'
  BY <1>1 DEF Locked
<1>7. PageEmpty'
  <2>1. opt.dashlocks => taken[Dashboard] = 4
    BY <1>1, DashboardOrder DEF Busy, BankTypeOK
  <2> QED BY <1>1, <2>1 DEF PageEmpty
<1>8. PageTrue'
  <2> SUFFICES ASSUME taken[Dashboard] = 4, NEW i \in 1 .. Len(page')
               PROVE  page'[i] = accounts[i - 1]
    BY <1>1 DEF PageTrue
  <2>1. CASE i = Len(page) + 1
    BY <1>1, <1>2, <2>1
  <2>2. CASE i # Len(page) + 1
    <3>1. i \in 1 .. Len(page) /\ page'[i] = page[i]
      BY <1>1, <1>2, <2>2
    <3> QED BY <3>1 DEF PageTrue
  <2> QED BY <2>1, <2>2
<1>9. NothingLost'
  BY <1>1 DEF NothingLost
<1> QED BY <1>3, <1>4, <1>5, <1>6, <1>7, <1>8, <1>9

LEMMA ShowPageKeeps ==
    ASSUME BankInv, ShowPage
    PROVE  BankInv'
<1> USE DEF BankInv
<1>1. /\ phase[Dashboard] = "acquire"
      /\ phase' = [phase EXCEPT ![Dashboard] = "release"]
      /\ page' = <<>>
      /\ UNCHANGED <<opt, owner, asleep, accounts, bankbalance, posted, job, taken, seen, left>>
  BY DEF ShowPage, Inside, SetPhase, books
<1>2. BankTypeOK'
  <2>1. page' \in Seq(Int)
    BY <1>1
  <2> QED BY <1>1, <2>1 DEF BankTypeOK
<1>3. Busy'
  BY <1>1 DEF Busy, BankTypeOK
<1>4. Owned'
  BY <1>1, OwnedKept
<1>5. Locked'
  BY <1>1 DEF Locked, BankTypeOK, Updating
<1>6. PageEmpty' /\ PageTrue'
  BY <1>1 DEF PageEmpty, PageTrue
<1>7. NothingLost'
  BY <1>1 DEF NothingLost
<1> QED BY <1>2, <1>3, <1>4, <1>5, <1>6, <1>7

(***************************************************************************)
(* The theorems                                                            *)
(***************************************************************************)

(* The invariant holds in every reachable state of the program.            *)
THEOREM Invariance == BankSpec => []BankInv
<1>1. ASSUME BankInv, [BankNext]_bankvars PROVE BankInv'
  <2>1. CASE UNCHANGED bankvars
    BY <1>1, <2>1 DEF BankInv, BankTypeOK, Busy, Owned, Locked, PageEmpty, NothingLost,
                      PageTrue, bankvars, books
  <2>2. ASSUME NEW t \in Workers, Worker(t) PROVE BankInv'
    <3>1. t \in Threads
      BY DEF Threads
    <3> QED BY <1>1, <2>2, <3>1, MakeActionKeeps, LoadAccountKeeps, StoreAccountKeeps,
               BankKeeps, AcquireKeeps, ReleaseKeeps, EndKeeps DEF Worker
  <2>3. CASE DashboardThread
    <3>1. Dashboard \in Threads
      BY DEF Threads
    <3> QED BY <1>1, <2>3, <3>1, StartDashboardKeeps, ReadAccountKeeps, ShowPageKeeps,
               AcquireKeeps, ReleaseKeeps, EndKeeps DEF DashboardThread
  <2> QED BY <1>1, <2>1, <2>2, <2>3 DEF BankNext
<1> QED BY <1>1, Start, PTL DEF BankSpec

(* Types, and with them that no thread takes more than four locks or does  *)
(* more than its iterations.                                               *)
THEOREM BankTypeCorrect == BankSpec => []BankTypeOK
<1>1. BankInv => BankTypeOK
  BY DEF BankInv
<1> QED BY <1>1, Invariance, PTL

(* No deposit or withdrawal is lost from an account, for any number of     *)
(* workers and accounts and with or without -multilock: DoAction's load    *)
(* and store of a balance are never interleaved with another thread's.     *)
THEOREM NothingLostHolds == BankSpec => []NothingLost
<1>1. BankInv => NothingLost
  BY DEF BankInv
<1> QED BY <1>1, Invariance, PTL

(* What the dashboard has read under its four locks is what the accounts   *)
(* are, for any number of workers and accounts.                            *)
THEOREM PageTrueHolds == BankSpec => []PageTrue
<1>1. BankInv => PageTrue
  BY DEF BankInv
<1> QED BY <1>1, Invariance, PTL

(***************************************************************************)
(* Sums                                                                    *)
(***************************************************************************)

(* Induction over the naturals, in a form without operator parameters.     *)
LEMMA Inductive ==
    ASSUME NEW S, 0 \in S, \A n \in Nat : n \in S => n + 1 \in S
    PROVE  Nat \subseteq S
<1> DEFINE T == Nat \ S
           R == OpToRel(<, Nat)
<1>1. IsWellFoundedOn(R, Nat)
  BY NatLessThanWellFounded
<1>2. \A x, y \in Nat : x < y => <<x, y>> \in R
  BY DEF OpToRel
<1>3. SUFFICES ASSUME T # {} PROVE FALSE
  OBVIOUS
<1> HIDE DEF R
<1>4. PICK x \in T : \A y \in T : ~ (<<y, x>> \in R)
  <2>1. T \subseteq Nat
    OBVIOUS
  <2> HIDE DEF T
  <2> QED
    BY <1>1, <1>3, <2>1, WFMin
<1>5. x \in Nat /\ x # 0
  OBVIOUS
<1>6. x - 1 \in Nat /\ x - 1 < x /\ (x - 1) + 1 = x
  BY <1>5
<1>7. x - 1 \in S
  BY <1>2, <1>4, <1>5, <1>6, Zenon
<1> QED
  BY <1>6, <1>7

Pick(s) == CHOOSE x \in s : TRUE

(* g sums up f over the subsets of a set, element by element.              *)
Sums(f, L, g) == g = [s \in L |-> IF s = {} THEN 0 ELSE f[Pick(s)] + g[s \ {Pick(s)}]]

LEMMA SumFunctionDef ==
    ASSUME NEW f
    PROVE  SumFunction(f) = (CHOOSE g : Sums(f, SUBSET (DOMAIN f), g))[DOMAIN f]
  BY DEF SumFunction, SumFunctionOnSet, FoldFunctionOnSet, MapThenFoldSet, Sums, Pick

(* The sets with at most n elements.                                       *)
UpTo(S, n) == {s \in SUBSET S : Cardinality(s) <= n}

LEMMA LessOne ==
    ASSUME NEW S, IsFiniteSet(S), NEW s \in SUBSET S, s # {}
    PROVE  /\ Pick(s) \in s /\ s \ {Pick(s)} \in SUBSET S
           /\ Cardinality(s) \in Nat /\ Cardinality(s) # 0
           /\ Cardinality(s \ {Pick(s)}) = Cardinality(s) - 1
<1>1. Pick(s) \in s
  BY DEF Pick
<1>2. IsFiniteSet(s)
  BY FS_Subset
<1>3. Cardinality(s) \in Nat /\ Cardinality(s) # 0
  BY <1>2, FS_CardinalityType, FS_EmptySet
<1>4. Cardinality(s \ {Pick(s)}) = Cardinality(s) - 1
  BY <1>1, <1>2, FS_RemoveElement
<1> QED
  BY <1>1, <1>3, <1>4

LEMMA SumsExist ==
    ASSUME NEW S, IsFiniteSet(S), NEW f
    PROVE  \E g : Sums(f, SUBSET S, g)
<1> DEFINE T == {n \in Nat : \E g : Sums(f, UpTo(S, n), g)}
<1>1. 0 \in T
  <2>1. UpTo(S, 0) = {{}}
    <3>1. ASSUME NEW s \in SUBSET S, s # {} PROVE ~ (Cardinality(s) <= 0)
      <4>1. Cardinality(s) \in Nat /\ Cardinality(s) # 0
        BY <3>1, LessOne
      <4> QED
        BY <4>1
    <3>2. Cardinality({}) = 0
      BY FS_EmptySet
    <3> QED
      BY <3>1, <3>2 DEF UpTo
  <2>2. Sums(f, {{}}, [s \in {{}} |-> 0])
    BY DEF Sums
  <2> QED
    BY <2>1, <2>2
<1>2. ASSUME NEW n \in Nat, n \in T PROVE n + 1 \in T
  <2>1. PICK g : Sums(f, UpTo(S, n), g)
    BY <1>2
  <2> DEFINE step(s) == f[Pick(s)] + g[s \ {Pick(s)}]
             h == [s \in UpTo(S, n + 1) |-> IF s \in UpTo(S, n) THEN g[s] ELSE step(s)]
  <2>2. \A s \in UpTo(S, n) : g[s] = IF s = {} THEN 0 ELSE step(s)
    BY <2>1 DEF Sums
  <2>3. {} \in UpTo(S, n)
    BY FS_EmptySet DEF UpTo
  <2>4. \A s \in UpTo(S, n + 1) : s # {} => s \ {Pick(s)} \in UpTo(S, n)
    BY LessOne DEF UpTo
  <2>5. UpTo(S, n) \subseteq UpTo(S, n + 1)
    <3>1. \A s \in SUBSET S : Cardinality(s) \in Nat
      BY FS_Subset, FS_CardinalityType
    <3> QED
      BY <3>1 DEF UpTo
  <2>6. \A s \in UpTo(S, n) : h[s] = g[s]
    BY <2>5
  <2>7. \A s \in UpTo(S, n + 1) : h[s] = IF s = {} THEN 0 ELSE step(s)
    BY <2>2, <2>3
  <2>8. \A s \in UpTo(S, n + 1) :
           h[s] = IF s = {} THEN 0 ELSE f[Pick(s)] + h[s \ {Pick(s)}]
    <3> TAKE s \in UpTo(S, n + 1)
    <3>1. CASE s = {}
      BY <2>7, <3>1
    <3>2. CASE s # {}
      <4>1. h[s \ {Pick(s)}] = g[s \ {Pick(s)}]
        BY <2>4, <2>6, <3>2
      <4>2. h[s] = step(s)
        BY <2>7, <3>2
      <4> HIDE DEF h
      <4> QED
        BY <3>2, <4>1, <4>2
    <3> QED
      BY <3>1, <3>2
  <2>9. Sums(f, UpTo(S, n + 1), h)
    <3>1. h = [s \in UpTo(S, n + 1) |-> h[s]]
      OBVIOUS
    <3> HIDE DEF h
    <3> QED
      BY <2>8, <3>1 DEF Sums
  <2> HIDE DEF h
  <2> QED
    BY <2>9
<1>3. Cardinality(S) \in Nat /\ Cardinality(S) \in T
  <2>1. \A n \in Nat : n \in T => n + 1 \in T
    BY <1>2
  <2>2. Cardinality(S) \in Nat
    BY FS_CardinalityType
  <2> HIDE DEF T
  <2> QED
    BY <1>1, <2>1, <2>2, Inductive
<1>4. UpTo(S, Cardinality(S)) = SUBSET S
  BY FS_Subset DEF UpTo
<1> QED
  BY <1>3, <1>4

(* The sum over the empty set is 0, and each element adds its value.       *)
AddsUp(f, S, g) ==
    /\ SumFunction(f) = g[S] /\ g[{}] = 0
    /\ \A s \in SUBSET S : s # {} => g[s] = f[Pick(s)] + g[s \ {Pick(s)}]

LEMMA SumsDef ==
    ASSUME NEW S, IsFiniteSet(S), NEW f, S = DOMAIN f
    PROVE  \E g : AddsUp(f, S, g)
<1> DEFINE g == CHOOSE h : Sums(f, SUBSET S, h)
<1>1. Sums(f, SUBSET S, g)
  BY SumsExist
<1>2. SumFunction(f) = g[S]
  BY SumFunctionDef
<1> HIDE DEF g
<1>3. {} \in SUBSET S
  OBVIOUS
<1>4. \A s \in SUBSET S : g[s] = IF s = {} THEN 0 ELSE f[Pick(s)] + g[s \ {Pick(s)}]
  BY <1>1 DEF Sums
<1>5. AddsUp(f, S, g)
  BY <1>2, <1>3, <1>4 DEF AddsUp
<1> QED
  BY <1>5

(* Changing one value changes the sum by as much.                          *)
LEMMA SumChanged ==
    ASSUME NEW S, IsFiniteSet(S), NEW f \in [S -> Int], NEW a \in S, NEW v \in Int
    PROVE  /\ SumFunction(f) \in Int
           /\ SumFunction([f EXCEPT ![a] = v]) = SumFunction(f) + (v - f[a])
<1> DEFINE e == [f EXCEPT ![a] = v]
<1>1. PICK g : AddsUp(f, S, g)
  <2>1. S = DOMAIN f
    OBVIOUS
  <2> QED
    BY <2>1, SumsDef
<1>2. e \in [S -> Int] /\ e[a] = v /\ \A x \in S : x # a => e[x] = f[x]
  OBVIOUS
<1> HIDE DEF e
<1>3. PICK h : AddsUp(e, S, h)
  <2>1. S = DOMAIN e
    BY <1>2
  <2> QED
    BY <2>1, SumsDef
<1> DEFINE Good(s) == g[s] \in Int /\ h[s] = g[s] + (IF a \in s THEN v - f[a] ELSE 0)
           T == {n \in Nat : \A s \in SUBSET S : Cardinality(s) = n => Good(s)}
<1>4. 0 \in T
  <2>1. \A s \in SUBSET S : Cardinality(s) = 0 => s = {}
    BY LessOne
  <2>2. Good({})
    BY <1>1, <1>3 DEF AddsUp
  <2> HIDE DEF Good
  <2> QED
    BY <2>1, <2>2
<1>5. ASSUME NEW n \in Nat, n \in T PROVE n + 1 \in T
  <2> SUFFICES ASSUME NEW s \in SUBSET S, Cardinality(s) = n + 1 PROVE Good(s)
    OBVIOUS
  <2> DEFINE x == Pick(s)
             r == s \ {x}
  <2>1. s # {}
    <3>1. Cardinality({}) = 0 /\ n + 1 # 0
      BY FS_EmptySet
    <3> QED
      BY <3>1
  <2>2. x \in s /\ r \in SUBSET S /\ Cardinality(r) = n
    BY <2>1, LessOne
  <2>3. Good(r)
    BY <1>5, <2>2
  <2>4. g[s] = f[x] + g[r] /\ h[s] = e[x] + h[r]
    BY <1>1, <1>3, <2>1 DEF AddsUp
  <2>5. f[x] \in Int /\ e[x] \in Int /\ f[a] \in Int
    BY <1>2, <2>2
  <2>6. CASE x = a
    <3>1. a \in s /\ a \notin r /\ e[x] = v /\ f[x] = f[a]
      BY <1>2, <2>2, <2>6
    <3> HIDE DEF r, x
    <3> QED
      BY <2>3, <2>4, <2>5, <3>1
  <2>7. CASE x # a
    <3>1. (a \in s <=> a \in r) /\ e[x] = f[x]
      BY <1>2, <2>2, <2>7
    <3> HIDE DEF r, x
    <3> QED
      BY <2>3, <2>4, <2>5, <3>1
  <2> QED
    BY <2>6, <2>7
<1>6. Cardinality(S) \in T
  <2>1. \A n \in Nat : n \in T => n + 1 \in T
    BY <1>5
  <2>2. Cardinality(S) \in Nat
    BY FS_CardinalityType
  <2> HIDE DEF T
  <2> QED
    BY <1>4, <2>1, <2>2, Inductive
<1>7. Good(S)
  <2>1. S \in SUBSET S
    OBVIOUS
  <2> HIDE DEF Good
  <2> QED
    BY <1>6, <2>1
<1> QED
  BY <1>1, <1>3, <1>7 DEF e, AddsUp

(* Nothing adds up to nothing.                                             *)
LEMMA SumZero ==
    ASSUME NEW S, IsFiniteSet(S)
    PROVE  SumFunction([a \in S |-> 0]) = 0
<1> DEFINE f == [a \in S |-> 0]
<1>1. PICK g : AddsUp(f, S, g)
  <2>1. S = DOMAIN f
    OBVIOUS
  <2> HIDE DEF f
  <2> QED
    BY <2>1, SumsDef
<1> DEFINE T == {n \in Nat : \A s \in SUBSET S : Cardinality(s) = n => g[s] = 0}
<1>2. 0 \in T
  <2>1. \A s \in SUBSET S : Cardinality(s) = 0 => s = {}
    BY LessOne
  <2> QED
    BY <1>1, <2>1 DEF AddsUp
<1>3. ASSUME NEW n \in Nat, n \in T PROVE n + 1 \in T
  <2> SUFFICES ASSUME NEW s \in SUBSET S, Cardinality(s) = n + 1 PROVE g[s] = 0
    OBVIOUS
  <2>1. s # {}
    <3>1. Cardinality({}) = 0 /\ n + 1 # 0
      BY FS_EmptySet
    <3> QED
      BY <3>1
  <2>2. Pick(s) \in s /\ s \ {Pick(s)} \in SUBSET S /\ Cardinality(s \ {Pick(s)}) = n
    BY <2>1, LessOne
  <2>3. g[s \ {Pick(s)}] = 0 /\ f[Pick(s)] = 0
    BY <1>3, <2>2
  <2>4. g[s] = f[Pick(s)] + g[s \ {Pick(s)}]
    BY <1>1, <2>1 DEF AddsUp
  <2> HIDE DEF f
  <2> QED
    BY <2>3, <2>4
<1>4. Cardinality(S) \in T
  <2>1. \A n \in Nat : n \in T => n + 1 \in T
    BY <1>3
  <2>2. Cardinality(S) \in Nat
    BY FS_CardinalityType
  <2> HIDE DEF T
  <2> QED
    BY <1>2, <2>1, <2>2, Inductive
<1>5. S \in SUBSET S
  OBVIOUS
<1> QED
  BY <1>1, <1>4, <1>5 DEF AddsUp

(***************************************************************************)
(* The books                                                               *)
(***************************************************************************)

(* Between posting to an account and posting to the bank.                  *)
Posting == {"bank", "total"}

(* With one pair of locks, the bank's total is behind the accounts by what *)
(* the one thread between its two postings has still to post.              *)
Balanced ==
    opt.lockmod = 0 =>
       /\ (\A t \in Threads : phase[t] \notin Posting) => bankbalance = SumFunction(accounts)
       /\ \A t \in Threads :
             /\ phase[t] \in Posting => SumFunction(accounts) = bankbalance + job[t].amount
             /\ phase[t] = "total" => seen[t] = bankbalance

LEMMA OneUpdate ==
    ASSUME BankTypeOK, Busy, Owned, Locked, opt.lockmod = 0,
           NEW t \in Threads, NEW u \in Threads, phase[t] \in Updating, phase[u] \in Updating
    PROVE  t = u
<1>1. job[t] \in Update /\ job[u] \in Update /\ opt \in Options
  BY DEF BankTypeOK, Busy, Locked, Update, Balance, Show
<1>2. locknum(job[t], opt) = locknum(job[u], opt)
  BY DEF locknum
<1>3. 1 \in 1 .. taken[t] /\ 1 \in 1 .. taken[u]
  BY DEF Locked
<1>4. owner[reader(locknum(job[t], opt))] = t /\ owner[reader(locknum(job[u], opt))] = u
  BY <1>1, <1>3, UpdateOrder DEF Owned
<1> QED BY <1>2, <1>4

LEMMA BalancedKept ==
    ASSUME Balanced, UNCHANGED <<opt, accounts, bankbalance>>,
           \A u \in Threads :
              /\ phase'[u] \in Posting <=> phase[u] \in Posting
              /\ phase[u] \in Posting =>
                    phase'[u] = phase[u] /\ job'[u] = job[u] /\ seen'[u] = seen[u]
    PROVE  Balanced'
<1>1. \A u \in Threads : phase'[u] = "total" => phase[u] \in Posting /\ phase[u] = "total"
  BY DEF Posting
<1> QED
  BY <1>1 DEF Balanced

LEMMA AccountsFinite == IsFiniteSet(Accounts)
  BY InputsAssumption, FS_Interval DEF Accounts

LEMMA StoreAccountBalances ==
    ASSUME BankInv, Balanced, NEW t \in Workers, StoreAccount(t)
    PROVE  Balanced'
<1> USE DEF BankInv
<1> DEFINE a == job[t].account
<1>1. /\ phase[t] = "account"
      /\ accounts' = [accounts EXCEPT ![a] = seen[t] + job[t].amount]
      /\ phase' = [phase EXCEPT ![t] = "bank"]
      /\ UNCHANGED <<opt, bankbalance, job, seen>>
  BY DEF StoreAccount, SetPhase
<1>2. t \in Threads
  BY DEF Threads
<1>3. job[t] \in Update /\ a \in Accounts /\ job[t].amount \in Int
  <2>1. job[t] \in Update
    BY <1>1, <1>2 DEF Busy, Locked, Updating, Update, Balance, BankTypeOK, Show
  <2> QED BY <2>1, InputsAssumption DEF Update
<1>4. seen[t] = accounts[a] /\ seen[t] \in Int /\ accounts \in [Accounts -> Int]
  BY <1>1, <1>2 DEF Locked, BankTypeOK
<1> SUFFICES ASSUME opt.lockmod = 0 PROVE Balanced'
  BY <1>1 DEF Balanced
<1>5. \A u \in Threads : u # t => phase[u] \notin Updating /\ phase'[u] = phase[u]
  <2>1. \A u \in Threads : u # t => phase[u] \notin Updating
    BY <1>1, <1>2, OneUpdate DEF Updating
  <2> QED BY <1>1, <2>1 DEF BankTypeOK
<1>6. bankbalance = SumFunction(accounts)
  BY <1>1, <1>5 DEF Balanced, Updating, Posting
<1>7. /\ SumFunction(accounts) \in Int
      /\ SumFunction(accounts') = SumFunction(accounts)
                                 + ((seen[t] + job[t].amount) - accounts[a])
  <2>1. seen[t] + job[t].amount \in Int
    BY <1>3, <1>4
  <2> QED BY <1>1, <1>3, <1>4, <2>1, AccountsFinite, SumChanged
<1>8. SumFunction(accounts') = bankbalance + job[t].amount
  BY <1>3, <1>4, <1>6, <1>7
<1>9. phase'[t] = "bank"
  BY <1>1, <1>2 DEF BankTypeOK
<1>10. \A u \in Threads : u # t => phase'[u] \notin Posting
  BY <1>5 DEF Updating, Posting
<1>11. \A u \in Threads : phase'[u] \in Posting => u = t
  BY <1>10
<1>12. phase'[t] \in Posting /\ \A u \in Threads : phase'[u] # "total"
  BY <1>9, <1>10 DEF Posting
<1> QED
  BY <1>1, <1>2, <1>8, <1>11, <1>12 DEF Balanced

LEMMA BankBalances ==
    ASSUME BankInv, Balanced, NEW t \in Workers, LoadBank(t) \/ StoreBank(t)
    PROVE  Balanced'
<1> USE DEF BankInv
<1>1. t \in Threads /\ phase[t] \in Posting /\ UNCHANGED <<opt, accounts, job>>
  BY DEF Threads, LoadBank, StoreBank, books, Posting
<1> SUFFICES ASSUME opt.lockmod = 0 PROVE Balanced'
  BY <1>1 DEF Balanced
<1>2. \A u \in Threads : u # t => phase[u] \notin Updating /\ phase'[u] = phase[u]
  <2>1. \A u \in Threads : u # t => phase[u] \notin Updating
    BY <1>1, OneUpdate DEF Updating, Posting
  <2> QED BY <2>1 DEF BankTypeOK, LoadBank, StoreBank, SetPhase
<1>3. \A u \in Threads : phase'[u] \in Posting => u = t
  BY <1>2 DEF Updating, Posting
<1>4. SumFunction(accounts) = bankbalance + job[t].amount
  BY <1>1 DEF Balanced
<1>5. CASE LoadBank(t)
  <2>1. phase'[t] = "total" /\ seen'[t] = bankbalance /\ bankbalance' = bankbalance
    BY <1>1, <1>5 DEF LoadBank, SetPhase, BankTypeOK, books
  <2>2. phase'[t] \in Posting /\ \A u \in Threads : phase'[u] = "total" => u = t
    BY <1>3, <2>1 DEF Posting
  <2> QED
    BY <1>1, <1>3, <1>4, <2>1, <2>2 DEF Balanced
<1>6. CASE StoreBank(t)
  <2>1. phase[t] = "total" /\ phase'[t] = "release" /\ bankbalance' = seen[t] + job[t].amount
    BY <1>1, <1>6 DEF StoreBank, SetPhase, BankTypeOK
  <2>2. bankbalance' = SumFunction(accounts')
    BY <1>1, <1>4, <2>1 DEF Balanced
  <2>3. \A u \in Threads : phase'[u] \notin Posting /\ phase'[u] # "total"
    BY <1>3, <2>1 DEF Posting
  <2> QED
    BY <2>2, <2>3 DEF Balanced
<1> QED
  BY <1>5, <1>6

LEMMA NextBalances ==
    ASSUME BankInv, Balanced, [BankNext]_bankvars
    PROVE  Balanced'
<1>1. CASE UNCHANGED bankvars
  BY <1>1, BalancedKept DEF bankvars, books
<1>2. ASSUME NEW t \in Threads, Acquire(t) \/ Release(t) \/ EndIteration(t) PROVE Balanced'
  BY <1>2, BalancedKept
     DEF Acquire, Release, EndIteration, SetPhase, books, Posting, BankInv, BankTypeOK
<1>3. ASSUME NEW t \in Workers, Worker(t) PROVE Balanced'
  <2>1. t \in Threads
    BY DEF Threads
  <2>2. CASE MakeAction(t) \/ LoadAccount(t) \/ ReadBalance(t)
    BY <2>1, <2>2, BalancedKept
       DEF MakeAction, LoadAccount, ReadBalance, Inside, SetPhase, books, Posting, BankInv, BankTypeOK
  <2> QED
    BY <1>2, <1>3, <2>1, <2>2, StoreAccountBalances, BankBalances DEF Worker
<1>4. CASE DashboardThread
  <2>1. Dashboard \in Threads
    BY DEF Threads
  <2>2. CASE StartDashboard \/ ReadAccount \/ ShowPage
    BY <2>1, <2>2, BalancedKept
       DEF StartDashboard, ReadAccount, ShowPage, Inside, SetPhase, books, Posting, BankInv, BankTypeOK
  <2> QED
    BY <1>2, <1>4, <2>1, <2>2 DEF DashboardThread
<1> QED
  BY <1>1, <1>3, <1>4 DEF BankNext

(* With one pair of locks, the books balance whenever the dashboard has    *)
(* its locks, for any number of workers, accounts and amounts: the bank's  *)
(* total is the sum of the accounts.                                       *)
THEOREM BooksBalanceHolds == BankSpec => []BooksBalance
<1>1. BankInit => Balanced
  <2> SUFFICES ASSUME BankInit PROVE Balanced
    OBVIOUS
  <2>1. accounts = [a \in Accounts |-> 0] /\ bankbalance = 0
        /\ \A t \in Threads : phase[t] = "idle"
    BY DEF BankInit
  <2>2. SumFunction(accounts) = 0
    BY <2>1, AccountsFinite, SumZero
  <2> QED
    BY <2>1, <2>2 DEF Balanced, Posting
<1>2. BankInv /\ Balanced /\ [BankNext]_bankvars => Balanced'
  BY NextBalances
<1>3. BankInv /\ Balanced => BooksBalance
  <2> SUFFICES ASSUME BankInv, Balanced, opt.lockmod = 0, taken[Dashboard] = 4
               PROVE  bankbalance = SumFunction(accounts)
    BY DEF BooksBalance
  <2>1. \A t \in Threads : phase[t] \notin Posting
    BY NoUpdateWhileShown DEF BankInv, Updating, Posting
  <2> QED
    BY <2>1 DEF Balanced
<1> QED
  BY <1>1, <1>2, <1>3, Invariance, PTL DEF BankSpec

(***************************************************************************)
(* Words and fields                                                        *)
(***************************************************************************)

N == Len(Size)

Words == 0 .. WORD - 1
Fields(w) == [b \in Buckets |-> GetField(w, b)]
Digits == {f \in [Buckets -> Nat] : \A b \in Buckets : f[b] < Size[b]}

(* The place of bucket b, also of the first that a word does not have.     *)
Place(b) == IF b = N + 1 THEN WORD ELSE kBucketIncr[b]

LEMMA Quotient ==
    ASSUME NEW n \in Nat, 0 < n, NEW q \in Int, NEW r \in Int, 0 <= r, r < n
    PROVE  (q * n + r) % n = r /\ (q * n + r) \div n = q
  BY SMTT(30)

LEMMA Division ==
    ASSUME NEW n \in Nat, 0 < n, NEW a \in Int
    PROVE  /\ a \div n \in Int /\ a % n \in Int /\ 0 <= a % n /\ a % n < n
           /\ a = (a \div n) * n + (a % n)
  BY SMTT(30)

LEMMA ProductPositive ==
    ASSUME NEW m \in Nat \ {0}, NEW n \in Nat \ {0}
    PROVE  m * n \in Nat \ {0}
  BY SMTT(30)

LEMMA SizeFacts ==
    /\ N \in Nat \ {0} /\ IsFiniteSet(Buckets)
    /\ \A b \in Buckets : Size[b] \in Nat /\ 2 <= Size[b] /\ Size[b] % 2 = 0
<1>1. Size \in Seq(Nat \ {0}) /\ Size # <<>> /\ \A b \in DOMAIN Size : Size[b] % 2 = 0
  BY SizeAssumption
<1>2. Len(Size) \in Nat \ {0}
  BY <1>1, EmptySeq
<1>3. \A b \in Buckets : Size[b] \in Nat \ {0} /\ Size[b] % 2 = 0
  BY <1>1 DEF Buckets
<1>4. \A n \in Nat \ {0} : n % 2 = 0 => 2 <= n
  OBVIOUS
<1>5. IsFiniteSet(Buckets)
  BY <1>2, FS_Interval DEF Buckets
<1> QED
  BY <1>2, <1>3, <1>4, <1>5 DEF N

LEMMA PlaceFacts ==
    /\ Place(1) = 1
    /\ \A b \in Buckets : /\ Place(b) = kBucketIncr[b] /\ Place(b + 1) = Place(b) * Size[b]
                          /\ Place(b) \in Nat \ {0} /\ Place(b + 1) \in Nat \ {0}
    /\ WORD = Place(N + 1) /\ WORD \in Nat \ {0}
<1>1. /\ kBucketIncr \in [Buckets -> Nat] /\ kBucketIncr[1] = 1
      /\ \A b \in Buckets \ {1} : kBucketIncr[b] = kBucketIncr[b - 1] * Size[b - 1]
  BY IncrAssumption
<1>2. N \in Nat \ {0} /\ Buckets = 1 .. N
  BY SizeFacts DEF Buckets, N
<1>3. \A b \in Buckets : Place(b) = kBucketIncr[b]
  BY <1>2 DEF Place
<1>4. \A b \in Buckets : Place(b + 1) = Place(b) * Size[b]
  <2> TAKE b \in Buckets
  <2>1. CASE b = N
    BY <1>2, <1>3, <2>1 DEF Place, WORD, N
  <2>2. CASE b # N
    <3>1. b + 1 \in Buckets \ {1} /\ (b + 1) - 1 = b
      BY <1>2, <2>2
    <3> QED
      BY <1>1, <1>3, <3>1
  <2> QED
    BY <2>1, <2>2
<1> DEFINE S == {n \in Nat : n + 1 <= N + 1 => Place(n + 1) \in Nat \ {0}}
<1>5. Place(1) = 1 /\ 0 \in S
  BY <1>1, <1>2, <1>3
<1>6. ASSUME NEW n \in Nat, n \in S PROVE n + 1 \in S
  <2> SUFFICES ASSUME (n + 1) + 1 <= N + 1 PROVE Place((n + 1) + 1) \in Nat \ {0}
    OBVIOUS
  <2>1. n + 1 \in Buckets /\ n + 1 <= N + 1
    BY <1>2
  <2>2. Place(n + 1) \in Nat \ {0} /\ Size[n + 1] \in Nat \ {0}
    BY <1>6, <2>1, SizeFacts
  <2>3. Place(n + 1) * Size[n + 1] \in Nat \ {0}
    BY <2>2, ProductPositive
  <2> QED
    BY <1>4, <2>1, <2>3
<1>7. Nat \subseteq S
  <2> HIDE DEF S
  <2> QED
    BY <1>5, <1>6, Inductive
<1>8. \A b \in 1 .. N + 1 : Place(b) \in Nat \ {0}
  <2> TAKE b \in 1 .. N + 1
  <2>1. b - 1 \in Nat /\ (b - 1) + 1 = b
    BY <1>2
  <2>2. b - 1 \in S
    BY <1>7, <2>1
  <2> QED
    BY <1>2, <2>1, <2>2
<1>9. \A b \in Buckets : b \in 1 .. N + 1 /\ b + 1 \in 1 .. N + 1
  BY <1>2
<1>10. N + 1 \in 1 .. N + 1 /\ WORD = Place(N + 1)
  BY <1>2 DEF Place
<1> HIDE DEF S
<1> QED
  BY <1>3, <1>4, <1>5, <1>8, <1>9, <1>10

(* A word that has these fields up to bucket n.                            *)
Parts(f, n) == [b \in Buckets |-> IF b <= n THEN kBucketIncr[b] * f[b] ELSE 0]
Part(f, n) == SumFunction(Parts(f, n))

LEMMA PartFacts ==
    ASSUME NEW f \in [Buckets -> Nat]
    PROVE  /\ Part(f, 0) = 0 /\ Part(f, N) = Word(f)
           /\ \A b \in Buckets : /\ Part(f, b) = Part(f, b - 1) + Place(b) * f[b]
                                 /\ Part(f, b - 1) \in Int
<1>1. Buckets = 1 .. N /\ N \in Nat /\ IsFiniteSet(Buckets)
  BY SizeFacts DEF Buckets, N
<1>2. \A b \in Buckets : kBucketIncr[b] \in Nat /\ Place(b) = kBucketIncr[b]
  BY PlaceFacts
<1>3. \A b \in Buckets : kBucketIncr[b] * f[b] \in Int
  BY <1>2
<1>4. Parts(f, 0) = [b \in Buckets |-> 0]
  BY <1>1 DEF Parts
<1>5. Part(f, 0) = 0
  BY <1>1, <1>4, SumZero DEF Part
<1>6. Parts(f, N) = [b \in Buckets |-> kBucketIncr[b] * f[b]]
  BY <1>1 DEF Parts
<1>7. Part(f, N) = Word(f)
  BY <1>6 DEF Part, Word
<1>8. ASSUME NEW b \in Buckets
      PROVE  /\ Part(f, b) = Part(f, b - 1) + Place(b) * f[b]
             /\ Part(f, b - 1) \in Int
  <2> DEFINE v == kBucketIncr[b] * f[b]
             g == Parts(f, b - 1)
  <2>1. g \in [Buckets -> Int] /\ v \in Int
    BY <1>3 DEF Parts
  <2>2. g[b] = 0
    BY <1>1 DEF Parts
  <2>3. Parts(f, b) = [g EXCEPT ![b] = v]
    <3>1. \A i \in Buckets : /\ i # b => (i <= b <=> i <= b - 1)
                             /\ b <= b
      BY <1>1
    <3> QED
      BY <3>1 DEF Parts
  <2> HIDE DEF g, v
  <2>4. /\ SumFunction(g) \in Int
        /\ SumFunction([g EXCEPT ![b] = v]) = SumFunction(g) + (v - g[b])
    BY <1>1, <2>1, SumChanged
  <2>5. v = Place(b) * f[b]
    BY <1>2 DEF v
  <2>6. Part(f, b) = SumFunction([g EXCEPT ![b] = v]) /\ Part(f, b - 1) = SumFunction(g)
    BY <2>3 DEF Part, g
  <2> QED
    BY <2>1, <2>2, <2>4, <2>5, <2>6
<1> QED
  BY <1>5, <1>7, <1>8

(* Induction on buckets.                                                   *)
LEMMA BucketInduction ==
    ASSUME NEW S, 0 \in S, \A b \in Buckets : b - 1 \in S => b \in S
    PROVE  N \in S /\ Buckets \subseteq S
<1>1. Buckets = 1 .. N /\ N \in Nat
  BY SizeFacts DEF Buckets, N
<1> DEFINE T == {n \in Nat : n <= N => n \in S}
<1>2. 0 \in T
  OBVIOUS
<1>3. ASSUME NEW n \in Nat, n \in T PROVE n + 1 \in T
  <2> SUFFICES ASSUME n + 1 <= N PROVE n + 1 \in S
    OBVIOUS
  <2>1. n + 1 \in Buckets /\ (n + 1) - 1 = n /\ n \in S
    BY <1>1, <1>3
  <2> QED
    BY <2>1
<1>4. Nat \subseteq T
  <2> HIDE DEF T
  <2> QED
    BY <1>2, <1>3, Inductive
<1> QED
  BY <1>1, <1>4

(* A part is smaller than the next place.                                  *)
LEMMA LessThanPlace ==
    ASSUME NEW p \in Nat \ {0}, NEW s \in Nat, NEW r \in Int, 0 <= r, r < p,
           NEW d \in Nat, d < s
    PROVE  0 <= r + p * d /\ r + p * d < p * s
<1>1. p * (d + 1) <= p * s
  <2>1. PICK k \in Nat : s = (d + 1) + k
    <3>1. s - (d + 1) \in Nat /\ s = (d + 1) + (s - (d + 1))
      OBVIOUS
    <3> QED
      BY <3>1
  <2>2. p * s = p * (d + 1) + p * k /\ p * k \in Nat /\ p * (d + 1) \in Nat
    BY <2>1
  <2> QED
    BY <2>2
<1>2. p * (d + 1) = p * d + p /\ p * d \in Nat
  OBVIOUS
<1>3. p * s \in Nat
  OBVIOUS
<1> QED
  BY <1>1, <1>2, <1>3

LEMMA PartBelow ==
    ASSUME NEW f \in Digits
    PROVE  /\ \A n \in Buckets \cup {0} : Part(f, n) \in Nat /\ Part(f, n) < Place(n + 1)
           /\ Word(f) \in Words
<1> DEFINE S == {n \in Buckets \cup {0} : Part(f, n) \in Nat /\ Part(f, n) < Place(n + 1)}
<1>1. f \in [Buckets -> Nat] /\ \A b \in Buckets : f[b] \in Nat /\ f[b] < Size[b]
  BY DEF Digits
<1>2. 0 \in S
  BY <1>1, PartFacts, PlaceFacts
<1>3. ASSUME NEW b \in Buckets, b - 1 \in S PROVE b \in S
  <2> DEFINE p == Place(b)
             r == Part(f, b - 1)
  <2>1. b \in Int
    BY DEF Buckets
  <2>2. /\ r \in Nat /\ r < p /\ p \in Nat \ {0} /\ Place(b + 1) = p * Size[b]
        /\ Part(f, b) = r + p * f[b]
    <3>1. (b - 1) + 1 = b
      BY <2>1
    <3> QED
      BY <1>1, <1>3, <3>1, PartFacts, PlaceFacts
  <2> HIDE DEF p, r
  <2>3. 0 <= r + p * f[b] /\ r + p * f[b] < p * Size[b] /\ r + p * f[b] \in Int
    BY <1>1, <2>2, SizeFacts, LessThanPlace
  <2> QED
    BY <2>2, <2>3
<1>4. N \in S /\ Buckets \subseteq S
  <2> HIDE DEF S
  <2> QED
    BY <1>2, <1>3, BucketInduction
<1>5. Word(f) \in Words
  BY <1>1, <1>4, PartFacts, PlaceFacts DEF Words
<1> QED
  BY <1>2, <1>4, <1>5

(* The places are multiples of one another.                                *)
LEMMA PlacesDivide ==
    ASSUME NEW b \in Buckets
    PROVE  \A n \in Buckets : b < n => \E k \in Nat : Place(n) = (Place(b) * Size[b]) * k
<1> DEFINE q == Place(b) * Size[b]
           S == {n \in Buckets \cup {0} : b < n => \E k \in Nat : Place(n) = q * k}
<1>1. b \in Nat \ {0} /\ q \in Nat /\ Place(b + 1) = q
  BY SizeFacts, PlaceFacts DEF Buckets
<1>2. 0 \in S
  BY <1>1
<1>3. ASSUME NEW n \in Buckets, n - 1 \in S PROVE n \in S
  <2> SUFFICES ASSUME b < n PROVE \E k \in Nat : Place(n) = q * k
    OBVIOUS
  <2>1. n \in Nat /\ n <= N /\ N \in Nat /\ Buckets = 1 .. N
    BY SizeFacts DEF Buckets, N
  <2>2. CASE n = b + 1
    <3>1. Place(n) = q * 1
      BY <1>1, <2>2
    <3> QED
      BY <3>1
  <2>3. CASE n # b + 1
    <3>1. n - 1 \in Buckets /\ b < n - 1 /\ (n - 1) + 1 = n
      BY <1>1, <2>1, <2>3
    <3>2. PICK k \in Nat : Place(n - 1) = q * k
      BY <1>3, <3>1
    <3>3. Place(n) = Place(n - 1) * Size[n - 1] /\ Size[n - 1] \in Nat
      BY <3>1, PlaceFacts, SizeFacts
    <3>4. Place(n) = q * (k * Size[n - 1]) /\ k * Size[n - 1] \in Nat
      <4>1. (q * k) * Size[n - 1] = q * (k * Size[n - 1])
        BY <1>1, <3>3, SMTT(30)
      <4>2. k * Size[n - 1] \in Nat
        BY <3>3
      <4> QED
        BY <3>2, <3>3, <4>1, <4>2
    <3> QED
      BY <3>4
  <2> QED
    BY <2>2, <2>3
<1>4. Buckets \subseteq S
  <2> HIDE DEF S
  <2> QED
    BY <1>2, <1>3, BucketInduction
<1> QED
  BY <1>4

LEMMA SplitWord ==
    ASSUME NEW p \in Nat \ {0}, NEW s \in Nat \ {0}, NEW k \in Nat, NEW d \in Nat, d < s,
           NEW r \in Nat, r < p
    PROVE  /\ ((r + p * d) + (p * s) * k) \div p = k * s + d
           /\ (k * s + d) % s = d
<1>1. (p * s) * k = (k * s) * p /\ k * s \in Nat
  BY SMTT(30)
<1> DEFINE x == k * s
<1>2. x \in Nat /\ (r + p * d) + x * p = (x + d) * p + r
  BY <1>1
<1> HIDE DEF x
<1>3. ((x + d) * p + r) \div p = x + d
  BY <1>2, Quotient
<1>4. (r + p * d) + (p * s) * k = (x + d) * p + r
  BY <1>1, <1>2 DEF x
<1>5. (k * s + d) % s = d
  BY Quotient
<1> QED
  BY <1>3, <1>4, <1>5 DEF x

(* The fields of a word that is made of digits are the digits.             *)
LEMMA FieldOfWord ==
    ASSUME NEW f \in Digits, NEW b \in Buckets
    PROVE  GetField(Word(f), b) = f[b]
<1> DEFINE p == Place(b)
           q == p * Size[b]
           low == Part(f, b)
           S == {n \in Buckets \cup {0} : b <= n => \E k \in Nat : Part(f, n) = low + q * k}
<1>1. f \in [Buckets -> Nat] /\ \A i \in Buckets : f[i] \in Nat /\ f[i] < Size[i]
  BY DEF Digits
<1>2. /\ b \in Nat \ {0} /\ N \in Nat /\ Buckets = 1 .. N
      /\ p \in Nat \ {0} /\ Size[b] \in Nat \ {0} /\ p = kBucketIncr[b]
  BY SizeFacts, PlaceFacts DEF Buckets, N
<1>3. q \in Nat /\ low \in Nat
  BY <1>2, PartBelow
<1>4. 0 \in S
  BY <1>2
<1>5. ASSUME NEW n \in Buckets, n - 1 \in S PROVE n \in S
  <2> SUFFICES ASSUME b <= n PROVE \E k \in Nat : Part(f, n) = low + q * k
    OBVIOUS
  <2>1. CASE n = b
    <3>1. Part(f, n) = low + q * 0
      BY <1>3, <2>1
    <3> QED
      BY <3>1
  <2>2. CASE n # b
    <3>1. b <= n - 1 /\ b < n /\ n \in Nat
      BY <1>2, <2>2
    <3>2. PICK k \in Nat : Part(f, n - 1) = low + q * k
      BY <1>5, <3>1
    <3>3. PICK m \in Nat : Place(n) = q * m
      BY <3>1, PlacesDivide
    <3>4. Part(f, n) = Part(f, n - 1) + Place(n) * f[n]
      BY <1>1, PartFacts
    <3>5. (q * m) * f[n] = q * (m * f[n]) /\ m * f[n] \in Nat
      BY <1>1, <1>3, SMTT(30)
    <3>6. Part(f, n) = low + q * (k + m * f[n]) /\ k + m * f[n] \in Nat
      <4> DEFINE x == m * f[n]
      <4>1. x \in Nat /\ Part(f, n) = (low + q * k) + q * x
        BY <3>2, <3>3, <3>4, <3>5
      <4> HIDE DEF x, q, low
      <4>2. (low + q * k) + q * x = low + q * (k + x)
        BY <1>3, <4>1
      <4> QED
        BY <4>1, <4>2 DEF x
    <3> QED
      BY <3>6
  <2> QED
    BY <2>1, <2>2
<1>6. N \in S
  <2> HIDE DEF S
  <2> QED
    BY <1>4, <1>5, BucketInduction
<1>7. PICK k \in Nat : Word(f) = low + q * k
  <2>1. b <= N
    BY <1>2
  <2>2. \E k \in Nat : Part(f, N) = low + q * k
    BY <1>6, <2>1
  <2> HIDE DEF low, q
  <2> QED
    BY <1>1, <2>2, PartFacts
<1>8. PICK r \in Nat : r < p /\ low = r + p * f[b]
  <2>1. (b - 1) \in Buckets \cup {0} /\ (b - 1) + 1 = b
    BY <1>2
  <2>2. Part(f, b - 1) \in Nat /\ Part(f, b - 1) < p
    BY <2>1, PartBelow
  <2> QED
    BY <1>1, <2>2, PartFacts
<1>9. Word(f) = (r + p * f[b]) + (p * Size[b]) * k
  BY <1>7, <1>8
<1>10. f[b] \in Nat /\ f[b] < Size[b]
  BY <1>1
<1> HIDE DEF p
<1>11. /\ ((r + p * f[b]) + (p * Size[b]) * k) \div p = k * Size[b] + f[b]
       /\ (k * Size[b] + f[b]) % Size[b] = f[b]
  <2> DEFINE d == f[b]
             s == Size[b]
  <2>1. d \in Nat /\ s \in Nat \ {0} /\ d < s /\ p \in Nat \ {0} /\ r < p
    BY <1>2, <1>8, <1>10
  <2> HIDE DEF d, s
  <2>2. ((r + p * d) + (p * s) * k) \div p = k * s + d /\ (k * s + d) % s = d
    BY <2>1, SplitWord
  <2> QED
    BY <2>2 DEF d, s
<1> QED
  BY <1>2, <1>9, <1>11 DEF GetField

LEMMA ModuloSplit ==
    ASSUME NEW p \in Nat \ {0}, NEW s \in Nat \ {0}, NEW w \in Nat
    PROVE  /\ w % (p * s) = (w % p) + p * ((w \div p) % s)
           /\ (w \div p) % s \in Nat /\ (w \div p) % s < s
<1> DEFINE q == w \div p
           r == w % p
           a == q \div s
           d == q % s
<1>1. q \in Int /\ r \in Int /\ 0 <= r /\ r < p /\ w = q * p + r
  BY Division
<1>2. a \in Int /\ d \in Int /\ 0 <= d /\ d < s /\ q = a * s + d
  <2> HIDE DEF q
  <2> QED
    BY <1>1, Division
<1> HIDE DEF q, r, a, d
<1>3. p * s \in Nat \ {0}
  BY ProductPositive
<1>4. w = a * (p * s) + (r + p * d)
  <2>1. w = (a * s + d) * p + r
    BY <1>1, <1>2
  <2>2. (a * s) * p = a * (p * s) /\ a * s \in Int
    BY <1>2, SMTT(30)
  <2> DEFINE x == a * s
             y == a * (p * s)
  <2>3. x \in Int /\ w = (x + d) * p + r /\ x * p = y
    BY <2>1, <2>2
  <2> HIDE DEF x, y
  <2>4. w = y + (r + p * d)
    BY <1>1, <1>2, <2>3
  <2> QED
    BY <2>4 DEF y
<1>5. 0 <= r + p * d /\ r + p * d < p * s /\ r + p * d \in Int
  BY <1>1, <1>2, LessThanPlace
<1>6. w % (p * s) = r + p * d
  <2> DEFINE m == p * s
             x == r + p * d
  <2>1. m \in Nat /\ 0 < m /\ x \in Int /\ 0 <= x /\ x < m /\ w = a * m + x
    BY <1>3, <1>4, <1>5
  <2> HIDE DEF m, x
  <2>2. w % m = x
    BY <1>2, <2>1, Quotient
  <2> QED
    BY <2>2 DEF m, x
<1> QED
  BY <1>2, <1>6 DEF q, r, d

(* A word is made of its fields.                                           *)
LEMMA WordOfFields ==
    ASSUME NEW w \in Words
    PROVE  Fields(w) \in Digits /\ Word(Fields(w)) = w
<1> DEFINE f == Fields(w)
           S == {n \in Buckets \cup {0} : Part(f, n) = w % Place(n + 1)}
<1>1. w \in Nat /\ w < WORD /\ Buckets = 1 .. N /\ N \in Nat
  BY SizeFacts, PlaceFacts DEF Words, Buckets, N
<1>2. ASSUME NEW b \in Buckets
      PROVE  /\ f[b] \in Nat /\ f[b] < Size[b]
             /\ w % Place(b + 1) = (w % Place(b)) + Place(b) * f[b]
  <2>1. /\ Place(b) \in Nat \ {0} /\ Size[b] \in Nat \ {0}
        /\ Place(b + 1) = Place(b) * Size[b] /\ Place(b) = kBucketIncr[b]
    BY SizeFacts, PlaceFacts
  <2>2. f[b] = (w \div Place(b)) % Size[b]
    BY <2>1 DEF Fields, GetField
  <2> DEFINE p == Place(b)
             s == Size[b]
  <2>3. p \in Nat \ {0} /\ s \in Nat \ {0}
    BY <2>1
  <2> HIDE DEF f, p, s
  <2>4. /\ w % (p * s) = (w % p) + p * ((w \div p) % s)
        /\ (w \div p) % s \in Nat /\ (w \div p) % s < s
    BY <1>1, <2>3, ModuloSplit
  <2> QED
    BY <2>1, <2>2, <2>4 DEF p, s
<1>3. f \in [Buckets -> Nat] /\ f \in Digits
  <2>1. f = [b \in Buckets |-> f[b]]
    BY DEF Fields
  <2> HIDE DEF f
  <2> QED
    BY <1>2, <2>1 DEF Digits
<1> HIDE DEF f
<1>4. 0 \in S
  <2>1. w % 1 = 0
    BY <1>1
  <2> QED
    BY <1>3, <2>1, PartFacts, PlaceFacts
<1>5. ASSUME NEW b \in Buckets, b - 1 \in S PROVE b \in S
  <2>1. (b - 1) + 1 = b
    BY <1>1
  <2>2. Part(f, b) = Part(f, b - 1) + Place(b) * f[b] /\ Part(f, b - 1) = w % Place(b)
    BY <1>3, <1>5, <2>1, PartFacts
  <2> QED
    BY <1>2, <2>2
<1>6. N \in S
  <2> HIDE DEF S
  <2> QED
    BY <1>4, <1>5, BucketInduction
<1>7. Word(f) = w % WORD
  BY <1>3, <1>6, PartFacts, PlaceFacts
<1>8. w % WORD = w
  <2>1. WORD \in Nat /\ 0 < WORD /\ w = 0 * WORD + w
    BY <1>1, PlaceFacts
  <2> QED
    BY <1>1, <2>1, Quotient
<1> QED
  BY <1>3, <1>7, <1>8 DEF f

(* A word whose fields are even is shifted field by field.                 *)
LEMMA WordHalf ==
    ASSUME NEW f \in [Buckets -> Nat], NEW g \in [Buckets -> Nat],
           \A b \in Buckets : f[b] = 2 * g[b], Word(g) \in Int
    PROVE  Word(f) \div 2 = Word(g)
<1> DEFINE S == {n \in Buckets \cup {0} : Part(f, n) = 2 * Part(g, n)}
<1>1. 0 \in S
  BY PartFacts
<1>2. ASSUME NEW b \in Buckets, b - 1 \in S PROVE b \in S
  <2> DEFINE p == Place(b)
             d == g[b]
  <2>1. /\ Part(f, b) = Part(f, b - 1) + p * (2 * d)
        /\ Part(g, b) = Part(g, b - 1) + p * d /\ Part(g, b - 1) \in Int
        /\ Part(f, b - 1) = 2 * Part(g, b - 1)
    BY <1>2, PartFacts
  <2>2. p \in Nat /\ d \in Nat
    BY PlaceFacts
  <2> HIDE DEF p, d
  <2>3. p * (2 * d) = 2 * (p * d) /\ p * d \in Int
    BY <2>2, SMTT(30)
  <2> QED
    BY <2>1, <2>3
<1>3. N \in S
  <2> HIDE DEF S
  <2> QED
    BY <1>1, <1>2, BucketInduction
<1>4. Word(f) = 2 * Word(g)
  BY <1>3, PartFacts
<1>5. (2 * Word(g)) \div 2 = Word(g)
  <2> DEFINE x == Word(g)
  <2>1. x \in Int
    OBVIOUS
  <2> HIDE DEF x
  <2>2. (2 * x) \div 2 = x
    BY <2>1
  <2> QED
    BY <2>2 DEF x
<1> QED
  BY <1>4, <1>5

(* One more in a field that is not full.                                   *)
LEMMA WordMore ==
    ASSUME NEW f \in [Buckets -> Nat], NEW b \in Buckets
    PROVE  Word([f EXCEPT ![b] = @ + 1]) = Word(f) + kBucketIncr[b] /\ Word(f) \in Int
<1> DEFINE g == [i \in Buckets |-> kBucketIncr[i] * f[i]]
           e == [f EXCEPT ![b] = @ + 1]
           h == [i \in Buckets |-> kBucketIncr[i] * e[i]]
           v == kBucketIncr[b] * (f[b] + 1)
<1>1. \A i \in Buckets : kBucketIncr[i] \in Nat
  BY PlaceFacts
<1>2. g \in [Buckets -> Int] /\ v \in Int /\ IsFiniteSet(Buckets)
  BY <1>1, SizeFacts
<1>3. h = [g EXCEPT ![b] = v]
  <2>1. \A i \in Buckets : e[i] = IF i = b THEN f[b] + 1 ELSE f[i]
    OBVIOUS
  <2> HIDE DEF e
  <2> QED
    BY <2>1
<1>4. v = g[b] + kBucketIncr[b]
  BY <1>1
<1>5. Word(f) = SumFunction(g) /\ Word(e) = SumFunction(h)
  BY DEF Word
<1> HIDE DEF g, h, v, e
<1>6. SumFunction(g) \in Int /\ SumFunction([g EXCEPT ![b] = v]) = SumFunction(g) + (v - g[b])
  BY <1>2, SumChanged
<1>7. g[b] \in Int /\ kBucketIncr[b] \in Int
  BY <1>1, <1>2
<1>8. Word(e) = Word(f) + kBucketIncr[b]
  BY <1>2, <1>3, <1>4, <1>5, <1>6, <1>7
<1> QED
  BY <1>5, <1>6, <1>8 DEF e

LEMMA FieldType ==
    ASSUME NEW w \in Words, NEW b \in Buckets
    PROVE  GetField(w, b) \in Nat /\ GetField(w, b) < Size[b]
  BY WordOfFields DEF Fields, Digits

(***************************************************************************)
(* What the operations do to the fields                                    *)
(***************************************************************************)

LEMMA WordMultiple ==
    ASSUME NEW b \in Buckets
    PROVE  \E k \in Nat : WORD = (Place(b) * Size[b]) * k
<1>1. N \in Buckets /\ b \in 1 .. N /\ N \in Nat
  BY SizeFacts DEF Buckets, N
<1>2. WORD = Place(N) * Size[N] /\ Size[N] \in Nat /\ Place(N) \in Nat
  BY <1>1, PlaceFacts, SizeFacts
<1>3. CASE b = N
  <2>1. WORD = (Place(b) * Size[b]) * 1
    BY <1>2, <1>3
  <2> QED
    BY <2>1
<1>4. CASE b # N
  <2>1. b < N
    BY <1>1, <1>4
  <2>2. PICK k \in Nat : Place(N) = (Place(b) * Size[b]) * k
    BY <1>1, <2>1, PlacesDivide
  <2> DEFINE q == Place(b) * Size[b]
             s == Size[N]
  <2>3. q \in Nat /\ s \in Nat /\ WORD = (q * k) * s
    BY <1>2, <2>2, PlaceFacts, SizeFacts
  <2> HIDE DEF q, s
  <2>4. (q * k) * s = q * (k * s) /\ k * s \in Nat
    BY <2>3, SMTT(30)
  <2>5. \E m \in Nat : WORD = q * m
    BY <2>3, <2>4
  <2> QED
    BY <2>5 DEF q
<1> QED
  BY <1>3, <1>4

LEMMA CarryLeavesZero ==
    ASSUME NEW p \in Nat \ {0}, NEW s \in Nat \ {0}, NEW w \in Nat, NEW k \in Int,
           (w \div p) % s = s - 1
    PROVE  (((w + p) - (p * s) * k) \div p) % s = 0
<1> DEFINE q == w \div p
           r == w % p
           a == q \div s
           m == a + 1 - k
<1>1. q \in Int /\ r \in Int /\ 0 <= r /\ r < p /\ w = q * p + r
  BY Division
<1>2. a \in Int /\ q = a * s + (s - 1)
  <2>1. q % s = s - 1
    OBVIOUS
  <2> HIDE DEF q
  <2> QED
    BY <1>1, <2>1, Division
<1> HIDE DEF q, r, a
<1>3. m \in Int
  BY <1>2
<1>4. (w + p) - (p * s) * k = (m * s) * p + r
  <2>1. w + p = (a * s + (s - 1)) * p + r + p
    BY <1>1, <1>2
  <2>2. (a * s + (s - 1)) * p + p = ((a + 1) * s) * p
    BY <1>2, SMTT(30)
  <2>3. ((a + 1) * s) * p - (p * s) * k = (m * s) * p
    BY <1>2, SMTT(30)
  <2> DEFINE x == (a * s + (s - 1)) * p
             y == ((a + 1) * s) * p
             z == (p * s) * k
             u == (m * s) * p
  <2>4. x \in Int /\ y \in Int /\ z \in Int /\ u \in Int
    BY <1>2, <1>3
  <2>5. w + p = x + r + p /\ x + p = y /\ y - z = u
    BY <2>1, <2>2, <2>3
  <2> HIDE DEF x, y, z, u, m
  <2>6. (w + p) - z = u + r
    BY <1>1, <2>4, <2>5
  <2> QED
    BY <2>6 DEF z, u
<1> HIDE DEF m
<1>5. ((m * s) * p + r) \div p = m * s
  <2> DEFINE x == m * s
  <2>1. x \in Int
    BY <1>3
  <2> HIDE DEF x
  <2>2. (x * p + r) \div p = x
    BY <1>1, <2>1, Quotient
  <2> QED
    BY <2>2 DEF x
<1>6. (m * s) % s = 0
  <2>1. m * s = m * s + 0
    BY <1>3
  <2> QED
    BY <1>3, <2>1, Quotient
<1> QED
  BY <1>4, <1>5, <1>6

LEMMA IncrementFacts ==
    ASSUME NEW w \in Words, NEW b \in Buckets
    PROVE  /\ Increment(w, b) \in Words /\ Decrement(Increment(w, b), b) = w
           /\ GetField(w, b) + 1 < Size[b] =>
                 \A i \in Buckets : GetField(Increment(w, b), i) =
                                       IF i = b THEN GetField(w, b) + 1 ELSE GetField(w, i)
           /\ GetField(w, b) + 1 = Size[b] => GetField(Increment(w, b), b) = 0
<1> DEFINE p == Place(b)
           s == Size[b]
           v == Increment(w, b)
<1>1. /\ p \in Nat \ {0} /\ s \in Nat \ {0} /\ p = kBucketIncr[b]
      /\ WORD \in Nat \ {0} /\ w \in Nat /\ w < WORD
  BY PlaceFacts, SizeFacts DEF Words
<1>2. PICK k \in Nat : WORD = (p * s) * k
  BY WordMultiple
<1>3. p <= WORD
  <2>1. p * s \in Nat /\ p <= p * s
    <3>1. p * s = p + p * (s - 1) /\ p * (s - 1) \in Nat
      BY <1>1, SMTT(30)
    <3> QED
      BY <1>1, <3>1
  <2>2. k # 0
    BY <1>1, <1>2
  <2> DEFINE q == p * s
  <2>3. q \in Nat /\ q <= q * k
    <3>1. q \in Nat
      BY <2>1
    <3> HIDE DEF q
    <3>2. q * k = q + q * (k - 1) /\ q * (k - 1) \in Nat
      BY <2>2, <3>1, SMTT(30)
    <3> QED
      BY <3>1, <3>2
  <2> HIDE DEF q
  <2> QED
    BY <1>1, <1>2, <2>1, <2>3 DEF q
<1>4. v = (w + p) % WORD /\ Decrement(v, b) = (v + WORD - p) % WORD
  BY <1>1 DEF Increment, Decrement
<1>5. \/ w + p < WORD /\ v = w + p
      \/ WORD <= w + p /\ v = (w + p) - WORD
  <2> DEFINE W == WORD
  <2>1. W \in Nat /\ 0 < W /\ p \in Nat /\ p <= W /\ w \in Nat /\ w < W
    BY <1>1, <1>3
  <2> HIDE DEF W, p
  <2>2. CASE w + p < W
    <3>1. (0 * W + (w + p)) % W = w + p
      BY <2>1, <2>2, Quotient
    <3> QED
      BY <1>4, <2>1, <2>2, <3>1 DEF W
  <2>3. CASE W <= w + p
    <3>1. (1 * W + ((w + p) - W)) % W = (w + p) - W
      BY <2>1, <2>3, Quotient
    <3>2. 1 * W + ((w + p) - W) = w + p
      BY <2>1
    <3> QED
      BY <1>4, <2>1, <2>3, <3>1, <3>2 DEF W
  <2> QED
    BY <2>1, <2>2, <2>3
<1>6. v \in Words /\ v \in Nat
  BY <1>1, <1>3, <1>5 DEF Words
<1>7. Decrement(v, b) = w
  <2> DEFINE W == WORD
  <2>1. W \in Nat /\ 0 < W /\ p \in Nat /\ p <= W /\ w \in Nat /\ w < W /\ v \in Nat
    BY <1>1, <1>3, <1>6
  <2>2. v + W - p = w + W \/ v + W - p = w
    BY <1>5, <2>1
  <2> HIDE DEF W, p, v
  <2>3. (1 * W + w) % W = w /\ (0 * W + w) % W = w
    BY <2>1, Quotient
  <2>4. 1 * W + w = w + W /\ 0 * W + w = w
    BY <2>1
  <2> QED
    BY <1>4, <2>2, <2>3, <2>4 DEF W
<1>8. ASSUME GetField(w, b) + 1 < s
      PROVE  \A i \in Buckets : GetField(v, i) =
                                   IF i = b THEN GetField(w, b) + 1 ELSE GetField(w, i)
  <2> DEFINE f == Fields(w)
             e == [f EXCEPT ![b] = @ + 1]
  <2>1. f \in Digits /\ Word(f) = w /\ \A i \in Buckets : f[i] = GetField(w, i)
    BY WordOfFields DEF Fields
  <2>2. f \in [Buckets -> Nat]
    BY <2>1 DEF Digits
  <2>3. \A i \in Buckets : e[i] = IF i = b THEN GetField(w, b) + 1 ELSE GetField(w, i)
    BY <2>1, <2>2
  <2>4. e \in Digits
    BY <1>8, <2>1, <2>2 DEF Digits
  <2>5. Word(e) = w + p
    <3> HIDE DEF f
    <3> QED
      BY <1>1, <2>1, <2>2, WordMore
  <2> HIDE DEF e
  <2>6. Word(e) \in Words
    BY <2>4, PartBelow
  <2>7. v = Word(e)
    BY <1>1, <1>5, <2>5, <2>6 DEF Words
  <2> HIDE DEF v
  <2> QED
    BY <2>3, <2>4, <2>7, FieldOfWord
<1>9. ASSUME GetField(w, b) + 1 = s PROVE GetField(v, b) = 0
  <2>1. (w \div p) % s = s - 1
    <3>1. GetField(w, b) = (w \div p) % s /\ GetField(w, b) \in Nat
      BY <1>1, FieldType DEF GetField
    <3> QED
      BY <1>1, <1>9, <3>1
  <2>2. PICK j \in Int : v = (w + p) - (p * s) * j
    <3>1. CASE v = w + p
      <4>1. v = (w + p) - (p * s) * 0
        BY <1>1, <3>1
      <4> QED
        BY <4>1
    <3>2. CASE v = (w + p) - WORD
      BY <1>2, <3>2
    <3> QED
      BY <1>5, <3>1, <3>2
  <2>3. (v \div p) % s = 0
    <3>1. p \in Nat \ {0} /\ s \in Nat \ {0} /\ w \in Nat
      BY <1>1
    <3> HIDE DEF v, p, s
    <3>2. (((w + p) - (p * s) * j) \div p) % s = 0
      BY <2>1, <3>1, CarryLeavesZero
    <3> QED
      BY <2>2, <3>2
  <2> QED
    BY <1>1, <2>3 DEF GetField
<1> QED
  BY <1>6, <1>7, <1>8, <1>9

LEMMA ZeroFieldFacts ==
    ASSUME NEW w \in Words, NEW b \in Buckets
    PROVE  /\ ZeroField(w, b) \in Words
           /\ \A i \in Buckets : GetField(ZeroField(w, b), i) =
                                    IF i = b THEN 0 ELSE GetField(w, i)
<1> DEFINE f == [i \in Buckets |-> IF i = b THEN 0 ELSE GetField(w, i)]
<1>1. f \in Digits
  BY FieldType, SizeFacts DEF Digits
<1>2. ZeroField(w, b) = Word(f) /\ \A i \in Buckets : f[i] = IF i = b THEN 0 ELSE GetField(w, i)
  BY DEF ZeroField
<1> HIDE DEF f
<1> QED
  BY <1>1, <1>2, PartBelow, FieldOfWord

LEMMA HalfOf ==
    ASSUME NEW n \in Nat
    PROVE  /\ n \div 2 \in Nat /\ n % 2 \in {0, 1} /\ n = 2 * (n \div 2) + (n % 2)
           /\ n - (n % 2) = 2 * (n \div 2) /\ n - (n % 2) \in Nat /\ n \div 2 <= n
<1> DEFINE q == n \div 2
           r == n % 2
<1>1. q \in Int /\ r \in Int /\ 0 <= r /\ r < 2 /\ n = q * 2 + r
  BY Division
<1> HIDE DEF q, r
<1>2. q \in Nat /\ r \in {0, 1} /\ n = 2 * q + r
  BY <1>1
<1> QED
  BY <1>2 DEF q, r

LEMMA ShiftFacts ==
    ASSUME NEW w \in Words
    PROVE  /\ ZeroLows(w) \div 2 \in Words
           /\ \A i \in Buckets : GetField(ZeroLows(w) \div 2, i) = GetField(w, i) \div 2
<1> DEFINE f == [i \in Buckets |-> GetField(w, i) - (GetField(w, i) % 2)]
           g == [i \in Buckets |-> GetField(w, i) \div 2]
<1>1. ASSUME NEW i \in Buckets
      PROVE  /\ f[i] \in Nat /\ g[i] \in Nat /\ f[i] = 2 * g[i] /\ g[i] < Size[i]
  <2> DEFINE n == GetField(w, i)
  <2>1. n \in Nat /\ n < Size[i] /\ Size[i] \in Nat
    BY FieldType, SizeFacts
  <2>2. f[i] = n - (n % 2) /\ g[i] = n \div 2
    OBVIOUS
  <2> HIDE DEF n, f, g
  <2>3. n \div 2 <= n
    BY <2>1, HalfOf
  <2> QED
    BY <2>1, <2>2, <2>3, HalfOf
<1>2. f \in [Buckets -> Nat] /\ g \in [Buckets -> Nat] /\ g \in Digits
  <2>1. f = [i \in Buckets |-> f[i]] /\ g = [i \in Buckets |-> g[i]]
    OBVIOUS
  <2> HIDE DEF f, g
  <2> QED
    BY <1>1, <2>1 DEF Digits
<1>3. ZeroLows(w) = Word(f)
  BY DEF ZeroLows
<1>4. \A i \in Buckets : g[i] = GetField(w, i) \div 2
  OBVIOUS
<1> HIDE DEF f, g
<1>5. Word(g) \in Words /\ Word(g) \in Int
  BY <1>2, PartBelow DEF Words
<1>6. Word(f) \div 2 = Word(g)
  BY <1>1, <1>2, <1>5, WordHalf
<1> QED
  BY <1>2, <1>3, <1>4, <1>5, <1>6, FieldOfWord

LEMMA SetHighsFacts ==
    ASSUME NEW w \in Words, NEW S,
           \A i \in Buckets : GetField(w, i) < Size[i] \div 2
    PROVE  /\ SetHighs(w, S) \in Words
           /\ \A i \in Buckets : GetField(SetHighs(w, S), i) =
                 GetField(w, i) + IF i \in S THEN Size[i] \div 2 ELSE 0
<1> DEFINE f == [i \in Buckets |->
                    LET g == GetField(w, i)
                        high == Size[i] \div 2
                    IN  IF i \in S /\ g < high THEN g + high ELSE g]
<1>1. ASSUME NEW i \in Buckets
      PROVE  /\ f[i] \in Nat /\ f[i] < Size[i]
             /\ f[i] = GetField(w, i) + IF i \in S THEN Size[i] \div 2 ELSE 0
  <2> DEFINE g == GetField(w, i)
             h == Size[i] \div 2
  <2>1. g \in Nat /\ g < h /\ Size[i] \in Nat /\ Size[i] % 2 = 0
    BY FieldType, SizeFacts
  <2>2. Size[i] = 2 * h /\ h \in Nat
    BY <2>1
  <2>3. f[i] = IF i \in S /\ g < h THEN g + h ELSE g
    OBVIOUS
  <2> HIDE DEF f, g, h
  <2>4. f[i] = g + IF i \in S THEN h ELSE 0
    BY <2>1, <2>2, <2>3
  <2>5. f[i] \in Nat /\ f[i] < Size[i]
    BY <2>1, <2>2, <2>3
  <2> QED
    BY <2>4, <2>5 DEF g, h
<1>2. f \in Digits
  <2>1. f = [i \in Buckets |-> f[i]]
    OBVIOUS
  <2> HIDE DEF f
  <2> QED
    BY <1>1, <2>1 DEF Digits
<1>3. SetHighs(w, S) = Word(f)
  BY DEF SetHighs
<1> HIDE DEF f
<1> QED
  BY <1>1, <1>2, <1>3, PartBelow, FieldOfWord

(***************************************************************************)
(* The counts                                                              *)
(***************************************************************************)

Unpacked(lo, hi) == [b \in Buckets |-> GetField(lo, b) + GetField(hi, b) * Size[b]]

(* A count of a field and its high part is less than the square of the     *)
(* field's size, and halving it moves the low bit of the high part.        *)
LEMMA CountHalved ==
    ASSUME NEW s \in Nat, 2 <= s, s % 2 = 0, NEW l \in Nat, l < s, NEW h \in Nat, h < s
    PROVE  /\ l + h * s < s * s
           /\ (l + h * s) \div 2 =
                 (l \div 2 + IF h % 2 # 0 THEN s \div 2 ELSE 0) + (h \div 2) * s
           /\ (s * s) \div 2 = (s \div 2) * s
           /\ l \div 2 < s \div 2
<1> DEFINE t == s \div 2
           m == l \div 2
           a == l % 2
           j == h \div 2
           c == h % 2
<1>1. t \in Nat /\ s = 2 * t
  OBVIOUS
<1>2. m \in Nat /\ a \in {0, 1} /\ l = 2 * m + a
  BY HalfOf
<1>3. j \in Nat /\ c \in {0, 1} /\ h = 2 * j + c
  BY HalfOf
<1>4. l + h * s < s * s
  <2>1. l + s * h < s * s /\ s * h = h * s
    BY LessThanPlace
  <2> QED
    BY <2>1
<1> HIDE DEF t, m, a, j, c
<1>5. m < t
  BY <1>1, <1>2
<1>6. (l + h * s) \div 2 = (m + IF c # 0 THEN t ELSE 0) + j * s
  <2>1. h * s = 2 * (h * t) /\ h * t \in Nat
    BY <1>1, SMTT(30)
  <2>2. h * t = j * s + c * t
    BY <1>1, <1>3, SMTT(30)
  <2> DEFINE x == h * t
             y == j * s
             z == h * s
  <2>3. x \in Nat /\ y \in Nat /\ z = 2 * x /\ x = y + IF c # 0 THEN t ELSE 0
    BY <1>1, <1>3, <2>1, <2>2
  <2> HIDE DEF x, y, z
  <2>4. (l + z) \div 2 = m + x
    <3>1. l + z = (m + x) * 2 + a /\ m + x \in Int /\ a \in Int /\ 0 <= a /\ a < 2
      BY <1>2, <2>3
    <3> QED
      BY <3>1, Quotient
  <2>5. m + x = (m + IF c # 0 THEN t ELSE 0) + y
    BY <1>1, <1>2, <1>3, <2>3
  <2> QED
    BY <2>4, <2>5 DEF x, y, z
<1>7. (s * s) \div 2 = t * s
  <2>1. s * s = 2 * (t * s) /\ t * s \in Nat
    BY <1>1, SMTT(30)
  <2> DEFINE x == t * s
  <2>2. x \in Nat /\ s * s = 2 * x
    BY <2>1
  <2> HIDE DEF x
  <2>3. (2 * x) \div 2 = x
    BY <2>2
  <2> QED
    BY <2>2, <2>3 DEF x
<1> QED
  BY <1>4, <1>5, <1>6, <1>7 DEF t, m, j, c

After(lo, hi, b) ==
    IF GetField(lo, b) = 0 THEN Overflow(lo, hi, b)
    ELSE [counts |-> lo, counts_hi |-> hi]

(* The new count of bucket b, by its fields.                               *)
LEMMA OneMore ==
    ASSUME NEW s \in Nat, 2 <= s, NEW l \in Nat, l < s, NEW h \in Nat, h < s
    PROVE  /\ l + 1 < s => (l + h * s) + 1 = (l + 1) + h * s
           /\ l + 1 < s \/ h + 1 < s => (l + h * s) + 1 < s * s
           /\ l + 1 = s => (l + h * s) + 1 = 0 + (h + 1) * s
           /\ l + 1 = s /\ h + 1 = s => (l + h * s) + 1 = s * s
<1> DEFINE z == h * s
<1>1. z \in Nat /\ (h + 1) * s = z + s /\ s * h = z
  BY SMTT(30)
<1>2. \A d \in Nat : d < s => 0 <= h + s * d /\ h + s * d < s * s
  BY LessThanPlace
<1>3. \A r \in Nat : r < s => r + z < s * s
  <2>1. \A r \in Nat : r < s => 0 <= r + s * h /\ r + s * h < s * s
    BY LessThanPlace
  <2> HIDE DEF z
  <2> QED
    BY <1>1, <2>1
<1>4. ASSUME h + 1 < s PROVE (h + 1) * s < s * s
  <2>1. 0 <= 0 + s * (h + 1) /\ 0 + s * (h + 1) < s * s
    BY <1>4, LessThanPlace
  <2>2. s * (h + 1) = (h + 1) * s /\ s * (h + 1) \in Nat
    BY SMTT(30)
  <2> QED
    BY <2>1, <2>2
<1>5. h + 1 = s => (h + 1) * s = s * s
  OBVIOUS
<1> DEFINE q == s * s
           y == (h + 1) * s
<1>6. q \in Nat /\ y \in Nat /\ y = z + s
  BY <1>1
<1>7. (\A r \in Nat : r < s => r + z < q) /\ (h + 1 < s => y < q) /\ (h + 1 = s => y = q)
  BY <1>3, <1>4, <1>5
<1> HIDE DEF z, q, y
<1>8. /\ l + 1 < s => (l + z) + 1 = (l + 1) + z
      /\ l + 1 < s \/ h + 1 < s => (l + z) + 1 < q
      /\ l + 1 = s => (l + z) + 1 = 0 + y
      /\ l + 1 = s /\ h + 1 = s => (l + z) + 1 = q
  <2>1. l + 1 < s => (l + 1) + z < q
    BY <1>7
  <2>2. (l + z) + 1 = (l + 1) + z
    BY <1>1, <1>6
  <2>3. ASSUME l + 1 = s PROVE (l + z) + 1 = y /\ y = 0 + y
    BY <1>1, <1>6, <2>3
  <2>4. l + 1 < s \/ l + 1 = s
    OBVIOUS
  <2> QED
    BY <1>7, <2>1, <2>2, <2>3, <2>4
<1> QED
  BY <1>8 DEF z, q, y

(* Adding one to a bucket, and testing it, counts once.                    *)
LEMMA Counts ==
    ASSUME NEW w \in Words, NEW hi \in Words, NEW b \in Buckets,
           NEW a, a = After(Increment(w, b), hi, b)
    PROVE  /\ a.counts \in Words /\ a.counts_hi \in Words
           /\ Unpacked(a.counts, a.counts_hi) = CountedOnce(Unpacked(w, hi), b)
<1> DEFINE c == Unpacked(w, hi)
           more == [c EXCEPT ![b] = @ + 1]
           lo1 == Increment(w, b)
           hi1 == Increment(hi, b)
           s == Size[b]
           l == GetField(w, b)
           h == GetField(hi, b)
<1>1. \A i \in Buckets :
         /\ Size[i] \in Nat /\ 2 <= Size[i] /\ Size[i] % 2 = 0
         /\ GetField(w, i) \in Nat /\ GetField(w, i) < Size[i]
         /\ GetField(hi, i) \in Nat /\ GetField(hi, i) < Size[i]
  BY FieldType, SizeFacts
<1>2. \A i \in Buckets : c[i] = GetField(w, i) + GetField(hi, i) * Size[i]
  BY DEF Unpacked
<1>3. \A i \in Buckets : more[i] = IF i = b THEN (l + h * s) + 1 ELSE c[i]
  BY <1>2 DEF Unpacked
<1>4. more = [i \in Buckets |-> more[i]]
  BY DEF Unpacked
<1>5. CountedOnce(c, b) = IF more[b] < s * s THEN more ELSE [i \in Buckets |-> more[i] \div 2]
  BY DEF CountedOnce
<1>6. /\ lo1 \in Words /\ Decrement(lo1, b) = w
      /\ l + 1 < s => \A i \in Buckets : GetField(lo1, i) = IF i = b THEN l + 1 ELSE GetField(w, i)
      /\ l + 1 = s => GetField(lo1, b) = 0
  BY IncrementFacts
<1>7. /\ hi1 \in Words /\ Decrement(hi1, b) = hi
      /\ h + 1 < s => \A i \in Buckets : GetField(hi1, i) = IF i = b THEN h + 1 ELSE GetField(hi, i)
      /\ h + 1 = s => GetField(hi1, b) = 0
  BY IncrementFacts
<1>8. /\ l \in Nat /\ l < s /\ h \in Nat /\ h < s /\ s \in Nat /\ 2 <= s
      /\ l + 1 < s \/ l + 1 = s
      /\ h + 1 < s \/ h + 1 = s
  BY <1>1
<1>9. /\ l + 1 < s => (l + h * s) + 1 = (l + 1) + h * s
      /\ l + 1 < s \/ h + 1 < s => (l + h * s) + 1 < s * s
      /\ l + 1 = s => (l + h * s) + 1 = 0 + (h + 1) * s
      /\ l + 1 = s /\ h + 1 = s => (l + h * s) + 1 = s * s
  <2> HIDE DEF s, l, h
  <2> QED
    BY <1>8, OneMore
<1> DEFINE lo0 == ZeroField(w, b)
           hi0 == ZeroField(hi, b)
<1>10. /\ lo0 \in Words /\ hi0 \in Words
       /\ \A i \in Buckets : /\ GetField(lo0, i) = IF i = b THEN 0 ELSE GetField(w, i)
                             /\ GetField(hi0, i) = IF i = b THEN 0 ELSE GetField(hi, i)
  BY ZeroFieldFacts
<1>11. Overflow(lo1, hi, b) =
          IF GetField(hi1, b) # 0 THEN [counts |-> lo0, counts_hi |-> hi1]
          ELSE Halve(lo0, hi1, b)
  BY <1>6 DEF Overflow
<1> DEFINE S == {i \in Buckets : GetField(hi0, i) % 2 # 0}
           x == SetHighs(ZeroLows(lo0) \div 2, S)
           y == SetHighs(ZeroLows(hi0) \div 2, {b})
<1>12. Halve(lo0, hi1, b) = [counts |-> x, counts_hi |-> y]
  BY <1>7 DEF Halve
<1>13. a = IF GetField(lo1, b) = 0 THEN Overflow(lo1, hi, b)
           ELSE [counts |-> lo1, counts_hi |-> hi]
  BY DEF After
<1> HIDE DEF c, more, lo1, hi1, s, l, h, lo0, hi0, S, x, y
<1>14. CASE l + 1 < s
  <2>1. a = [counts |-> lo1, counts_hi |-> hi]
    BY <1>6, <1>8, <1>13, <1>14
  <2>2. CountedOnce(c, b) = more
    BY <1>3, <1>5, <1>9, <1>14
  <2>3. \A i \in Buckets : GetField(lo1, i) + GetField(hi, i) * Size[i] = more[i]
    BY <1>2, <1>3, <1>6, <1>9, <1>14 DEF s, l, h
  <2>4. Unpacked(lo1, hi) = more
    BY <1>4, <2>3 DEF Unpacked
  <2> QED
    BY <1>6, <2>1, <2>2, <2>4 DEF c
<1>15. CASE l + 1 = s /\ h + 1 < s
  <2>1. a = [counts |-> lo0, counts_hi |-> hi1]
    BY <1>6, <1>7, <1>8, <1>11, <1>13, <1>15
  <2>2. CountedOnce(c, b) = more
    BY <1>3, <1>5, <1>9, <1>15
  <2>3. \A i \in Buckets : GetField(lo0, i) + GetField(hi1, i) * Size[i] = more[i]
    BY <1>2, <1>3, <1>7, <1>9, <1>10, <1>15 DEF s, h
  <2>4. Unpacked(lo0, hi1) = more
    BY <1>4, <2>3 DEF Unpacked
  <2> QED
    BY <1>7, <1>10, <2>1, <2>2, <2>4 DEF c
<1>16. CASE l + 1 = s /\ h + 1 = s
  <2>1. a = [counts |-> x, counts_hi |-> y]
    BY <1>6, <1>7, <1>11, <1>12, <1>13, <1>16
  <2>2. CountedOnce(c, b) = [i \in Buckets |-> more[i] \div 2]
    <3>1. more[b] = s * s /\ s * s \in Nat
      BY <1>3, <1>8, <1>9, <1>16
    <3> DEFINE q == s * s
    <3>2. q \in Nat /\ ~(q < q)
      BY <3>1
    <3> QED
      BY <1>5, <3>1, <3>2
  <2>3. /\ ZeroLows(lo0) \div 2 \in Words
        /\ \A i \in Buckets : GetField(ZeroLows(lo0) \div 2, i) = GetField(lo0, i) \div 2
    BY <1>10, ShiftFacts
  <2>4. /\ ZeroLows(hi0) \div 2 \in Words
        /\ \A i \in Buckets : GetField(ZeroLows(hi0) \div 2, i) = GetField(hi0, i) \div 2
    BY <1>10, ShiftFacts
  <2>5. \A i \in Buckets : /\ GetField(lo0, i) \div 2 < Size[i] \div 2
                           /\ GetField(hi0, i) \div 2 < Size[i] \div 2
    <3> TAKE i \in Buckets
    <3>1. /\ GetField(lo0, i) \in Nat /\ GetField(lo0, i) < Size[i]
          /\ GetField(hi0, i) \in Nat /\ GetField(hi0, i) < Size[i]
      BY <1>10, FieldType
    <3> QED
      BY <1>1, <3>1, CountHalved
  <2>6. /\ x \in Words
        /\ \A i \in Buckets : GetField(x, i) =
              (GetField(lo0, i) \div 2) + IF i \in S THEN Size[i] \div 2 ELSE 0
    <3> DEFINE v == ZeroLows(lo0) \div 2
    <3>1. v \in Words /\ \A i \in Buckets : /\ GetField(v, i) = GetField(lo0, i) \div 2
                                            /\ GetField(v, i) < Size[i] \div 2
      BY <2>3, <2>5
    <3>2. x = SetHighs(v, S)
      BY DEF x
    <3> HIDE DEF v
    <3>3. /\ SetHighs(v, S) \in Words
          /\ \A i \in Buckets : GetField(SetHighs(v, S), i) =
                GetField(v, i) + IF i \in S THEN Size[i] \div 2 ELSE 0
      BY <3>1, SetHighsFacts
    <3> QED
      BY <3>1, <3>2, <3>3
  <2>7. /\ y \in Words
        /\ \A i \in Buckets : GetField(y, i) =
              (GetField(hi0, i) \div 2) + IF i \in {b} THEN Size[i] \div 2 ELSE 0
    <3> DEFINE v == ZeroLows(hi0) \div 2
    <3>1. v \in Words /\ \A i \in Buckets : /\ GetField(v, i) = GetField(hi0, i) \div 2
                                            /\ GetField(v, i) < Size[i] \div 2
      BY <2>4, <2>5
    <3>2. y = SetHighs(v, {b})
      BY DEF y
    <3> HIDE DEF v
    <3>3. /\ SetHighs(v, {b}) \in Words
          /\ \A i \in Buckets : GetField(SetHighs(v, {b}), i) =
                GetField(v, i) + IF i \in {b} THEN Size[i] \div 2 ELSE 0
      BY <3>1, SetHighsFacts
    <3> QED
      BY <3>1, <3>2, <3>3
  <2>8. ASSUME NEW i \in Buckets
        PROVE  GetField(x, i) + GetField(y, i) * Size[i] = more[i] \div 2
    <3>1. CASE i = b
      <4>1. 0 \div 2 = 0 /\ 0 % 2 = 0
        OBVIOUS
      <4>2. GetField(lo0, b) = 0 /\ GetField(hi0, b) = 0 /\ b \notin S
        BY <1>10, <4>1 DEF S
      <4>3. GetField(x, b) = 0 + 0
        BY <2>6, <4>1, <4>2
      <4>4. GetField(y, b) = 0 + (s \div 2)
        BY <2>7, <4>1, <4>2 DEF s
      <4>5. s \div 2 \in Nat
        BY <1>8, HalfOf
      <4>6. (s * s) \div 2 = (s \div 2) * s
        BY <1>1, <1>8, CountHalved DEF s
      <4>7. more[b] = s * s
        BY <1>3, <1>9, <1>16
      <4> DEFINE u == s \div 2
                 z == u * s
      <4>8. z \in Nat /\ u \in Nat /\ 0 + u = u /\ 0 + 0 = 0 /\ 0 + z = z
        BY <1>8, <4>5
      <4> QED
        BY <3>1, <4>3, <4>4, <4>6, <4>7, <4>8 DEF s
    <3>2. CASE i # b
      <4> DEFINE f == GetField(w, i)
                 g == GetField(hi, i)
                 n == Size[i]
      <4>1. GetField(lo0, i) = f /\ GetField(hi0, i) = g /\ (i \in S <=> g % 2 # 0)
        BY <1>10, <3>2 DEF S
      <4>2. GetField(x, i) = (f \div 2) + IF g % 2 # 0 THEN n \div 2 ELSE 0
        BY <2>6, <4>1
      <4>3. GetField(y, i) = (g \div 2) + 0
        BY <2>7, <3>2, <4>1
      <4>4. more[i] = f + g * n
        BY <1>2, <1>3, <3>2
      <4>5. n \in Nat /\ 2 <= n /\ n % 2 = 0 /\ f \in Nat /\ f < n /\ g \in Nat /\ g < n
        BY <1>1
      <4> HIDE DEF f, g, n
      <4>6. (f + g * n) \div 2 = ((f \div 2) + IF g % 2 # 0 THEN n \div 2 ELSE 0) + (g \div 2) * n
        BY <4>5, CountHalved
      <4>7. (g \div 2) + 0 = g \div 2
        BY <4>5, HalfOf
      <4> QED
        BY <4>2, <4>3, <4>4, <4>6, <4>7 DEF n
    <3> QED
      BY <3>1, <3>2
  <2>9. Unpacked(x, y) = [i \in Buckets |-> more[i] \div 2]
    BY <2>8 DEF Unpacked
  <2> QED
    BY <2>1, <2>2, <2>6, <2>7, <2>9 DEF c
<1> QED
  BY <1>8, <1>14, <1>15, <1>16

(***************************************************************************)
(* The histogram: the inductive invariant                                  *)
(***************************************************************************)

(* A thread that counts is still before its block, with the lock.  Between *)
(* its two steps the word is that of the true counts with one added, and   *)
(* may have carried into other buckets.                                    *)
HistogramType ==
    /\ counts \in Words /\ counts_hi \in Words
    /\ counting \in [Thread -> {"no", "add", "test"}]
    /\ bkt \in [Thread -> Buckets \cup {0}]

CountingHolds == \A t \in Thread : counting[t] # "no" => pc[t] = "held"

HalfCounted ==
    \A t \in Thread : counting[t] = "test" =>
        /\ bkt[t] \in Buckets
        /\ \E w \in Words : /\ counts = Increment(w, bkt[t])
                            /\ tally = CountedOnce(Unpacked(w, counts_hi), bkt[t])

HInv == HistogramType /\ CountingHolds /\ HistogramTrue /\ HalfCounted

LEMMA UnpackedNow == UnpackCounts = Unpacked(counts, counts_hi)
  BY DEF UnpackCounts, Unpacked

(* Only one thread counts at a time.                                       *)
LEMMA CountsAlone ==
    ASSUME IInv, HInv, NEW t \in Thread, NEW u \in Thread,
           counting[t] # "no", counting[u] # "no"
    PROVE  t = u
  BY DEF IInv, HInv, CountingHolds, MutualExclusion, Owning

(* A thread in its block stays there until it takes a step of its own.     *)
LEMMA StaysHeld ==
    ASSUME IInv, NEW t \in Thread, QuickTry(t) \/ Interrupted(t) \/ Step(t),
           NEW u \in Thread \ {t}, pc[u] = "held"
    PROVE  pc'[u] = "held"
<1>1. CASE FutexWake(t)
  <2>1. PICK W \in Woken(Sleepers) :
           pc' = [v \in Thread |-> IF v = t THEN "idle"
                                   ELSE IF v \in W THEN "retry" ELSE pc[v]]
    BY <1>1 DEF FutexWake
  <2>2. \A v \in W : pc[v] = "asleep"
    BY <2>1, WokenFacts DEF Sleepers
  <2> QED
    BY <2>1, <2>2
<1>2. CASE ~FutexWake(t)
  <2>1. \E l : Goto(t, l)
    BY <1>2 DEF Step, QuickTry, Interrupted, TestAndSet, AcquireSpin, AddWaiter, FutexWait,
       Retry, SubWaiter, SetHolder, ClearHolder, ClearLock, TestWaiters, TestWaitersEarly, Drain
  <2> QED
    BY <2>1 DEF Goto, IInv, TypeOK
<1> QED
  BY <1>1, <1>2

LEMMA InitHInv == LInit => HInv
<1> SUFFICES ASSUME LInit PROVE HInv
  OBVIOUS
<1> USE DEF LInit
<1>1. 0 \in Words
  BY PlaceFacts DEF Words
<1>2. ASSUME NEW b \in Buckets PROVE GetField(0, b) = 0
  <2> DEFINE p == kBucketIncr[b]
             s == Size[b]
  <2>1. p \in Nat \ {0} /\ s \in Nat \ {0}
    BY PlaceFacts, SizeFacts
  <2> HIDE DEF p, s
  <2>2. (0 * p + 0) \div p = 0 /\ (0 * s + 0) % s = 0
    BY <2>1, Quotient
  <2>3. 0 * p + 0 = 0 /\ 0 * s + 0 = 0
    BY <2>1
  <2> QED
    BY <2>2, <2>3 DEF GetField, p, s
<1>3. HistogramTrue
  <2>1. \A b \in Buckets : 0 + 0 * Size[b] = 0
    BY SizeFacts
  <2> QED
    BY <1>2, <2>1 DEF HistogramTrue, UnpackCounts
<1> QED
  BY <1>1, <1>3 DEF HInv, HistogramType, CountingHolds, HalfCounted

(* A step of the lock leaves the histogram alone.                          *)
LEMMA LockStepHInv ==
    ASSUME IInv, HInv, NEW t \in Thread, QuickTry(t) \/ Interrupted(t) \/ Step(t),
           counting[t] = "no",
           counting' = [counting EXCEPT ![t] = IF At(t, "won") THEN "add" ELSE "no"]
                \/ (counting' = counting /\ ~At(t, "won")),
           UNCHANGED <<counts, counts_hi, bkt, tally>>
    PROVE  HInv'
<1> USE DEF HInv, HistogramType
<1>1. /\ counting' \in [Thread -> {"no", "add", "test"}]
      /\ \A u \in Thread \ {t} : counting'[u] = counting[u]
      /\ counting'[t] = IF pc[t] = "won" THEN "add" ELSE "no"
  BY DEF At
<1>2. HistogramType'
  BY <1>1
<1>3. CountingHolds'
  <2>1. ASSUME pc[t] = "won" PROVE pc'[t] = "held"
    BY <2>1 DEF Step, QuickTry, Interrupted, AcquireSpin, AddWaiter, FutexWait, FutexWake,
       Retry, SubWaiter, SetHolder, ClearHolder, ClearLock, TestWaiters, TestWaitersEarly,
       Drain, At, Goto, IInv, TypeOK
  <2> QED
    BY <1>1, <2>1, StaysHeld DEF CountingHolds
<1>4. \A u \in Thread : counting'[u] = "test" <=> counting[u] = "test"
  BY <1>1
<1>5. HistogramTrue'
  BY <1>4 DEF HistogramTrue, UnpackCounts
<1>6. HalfCounted'
  BY <1>4 DEF HalfCounted
<1> QED
  BY <1>2, <1>3, <1>5, <1>6

LEMMA AddCountHInv ==
    ASSUME IInv, HInv, NEW t \in Thread, AddCount(t)
    PROVE  HInv'
<1> USE DEF HInv, HistogramType
<1>1. PICK b \in Buckets : /\ counts' = Increment(counts, b)
                           /\ bkt' = [bkt EXCEPT ![t] = b]
                           /\ tally' = CountedOnce(tally, b)
  BY DEF AddCount
<1>2. /\ counting[t] = "add" /\ counting' = [counting EXCEPT ![t] = "test"]
      /\ counts_hi' = counts_hi /\ pc' = pc
  BY DEF AddCount, tracedvars, vars
<1>3. HistogramType'
  BY <1>1, <1>2, IncrementFacts
<1>4. CountingHolds'
  BY <1>2 DEF CountingHolds
<1>5. \A u \in Thread : counting'[u] = "test" <=> u = t
  BY <1>2, CountsAlone
<1>6. HistogramTrue'
  BY <1>5 DEF HistogramTrue
<1>7. tally = Unpacked(counts, counts_hi)
  BY <1>2, CountsAlone, UnpackedNow DEF HistogramTrue
<1>8. HalfCounted'
  <2>1. bkt'[t] = b
    BY <1>1
  <2> QED
    BY <1>1, <1>2, <1>5, <1>7, <2>1 DEF HalfCounted
<1> QED
  BY <1>3, <1>4, <1>6, <1>8

LEMMA TestCountHInv ==
    ASSUME IInv, HInv, NEW t \in Thread, TestCount(t)
    PROVE  HInv'
<1> USE DEF HInv, HistogramType
<1> DEFINE b == bkt[t]
           a == After(counts, counts_hi, b)
<1>1. /\ counting[t] = "test" /\ counting' = [counting EXCEPT ![t] = "no"]
      /\ bkt' = [bkt EXCEPT ![t] = 0] /\ tally' = tally /\ pc' = pc
  BY DEF TestCount, tracedvars, vars
<1>2. counts' = a.counts /\ counts_hi' = a.counts_hi
  BY DEF TestCount, After
<1>3. b \in Buckets /\ \E w \in Words : /\ counts = Increment(w, b)
                                        /\ tally = CountedOnce(Unpacked(w, counts_hi), b)
  BY <1>1 DEF HalfCounted
<1>4. PICK w \in Words : /\ counts = Increment(w, b)
                         /\ tally = CountedOnce(Unpacked(w, counts_hi), b)
  BY <1>3
<1>5. a.counts \in Words /\ a.counts_hi \in Words /\ Unpacked(a.counts, a.counts_hi) = tally
  BY <1>3, <1>4, Counts
<1> HIDE DEF a, b
<1>6. HistogramType'
  BY <1>1, <1>2, <1>5
<1>7. CountingHolds'
  BY <1>1 DEF CountingHolds
<1>8. HistogramTrue'
  <2>1. Unpacked(counts', counts_hi') = tally'
    BY <1>1, <1>2, <1>5
  <2>2. UnpackCounts' = Unpacked(counts', counts_hi')
    BY DEF UnpackCounts, Unpacked
  <2> QED
    BY <2>1, <2>2 DEF HistogramTrue
<1>9. \A u \in Thread : counting'[u] # "test"
  BY <1>1, CountsAlone
<1>10. HalfCounted'
  BY <1>9 DEF HalfCounted
<1> QED
  BY <1>6, <1>7, <1>8, <1>10

(* The packed words are the counts kept one by one, for any number of      *)
(* buckets of any even sizes and any number of threads: a carry or a       *)
(* halving disturbs no other bucket, and no count is lost although         *)
(* IncrCounts is several steps, because its caller has the lock.           *)
THEOREM HistogramTrueHolds == FancySpec => []HistogramTrue
<1>1. LInit => IInv /\ HInv
  BY InitIInv, InitHInv DEF LInit, TracedInit
<1>2. IInv /\ HInv /\ [LNext]_<<tracedvars, histogram>> => (IInv /\ HInv)'
  <2> SUFFICES ASSUME IInv, HInv, [LNext]_<<tracedvars, histogram>> PROVE (IInv /\ HInv)'
    OBVIOUS
  <2>1. ASSUME NEW t \in Thread, LockStep(t) PROVE (IInv /\ HInv)'
    <3>1. Step(t) /\ [Next]_vars
      BY <2>1 DEF LockStep, TracedStep, Next
    <3> QED
      BY <2>1, <3>1, NextIInv, LockStepHInv DEF LockStep
  <2>2. ASSUME NEW t \in Thread, IncrCounts(t) PROVE (IInv /\ HInv)'
    <3>1. UNCHANGED vars
      BY <2>2 DEF IncrCounts, AddCount, TestCount, tracedvars
    <3> QED
      BY <2>2, <3>1, NextIInv, AddCountHInv, TestCountHInv DEF IncrCounts
  <2>3. ASSUME NEW t \in Thread, Unforced(t), UNCHANGED histogram PROVE (IInv /\ HInv)'
    <3>1. (QuickTry(t) \/ Interrupted(t)) /\ [Next]_vars
      BY <2>3 DEF Unforced, Next
    <3>2. pc[t] # "held" /\ ~At(t, "won")
      BY <3>1 DEF QuickTry, Interrupted, At
    <3>3. counting[t] = "no"
      BY <3>2 DEF HInv, CountingHolds
    <3>4. UNCHANGED <<counts, counts_hi, bkt, tally>> /\ counting' = counting
      BY <2>3 DEF histogram
    <3> QED
      BY <3>1, <3>2, <3>3, <3>4, NextIInv, LockStepHInv
  <2>4. CASE UNCHANGED <<tracedvars, histogram>>
    <3>1. UNCHANGED vars /\ UNCHANGED histogram
      BY <2>4 DEF tracedvars
    <3>2. HInv'
      BY <3>1 DEF vars, histogram, HInv, HistogramType, CountingHolds, HistogramTrue,
         HalfCounted, UnpackCounts
    <3> QED
      BY <3>1, <3>2, NextIInv
  <2> QED
    BY <2>1, <2>2, <2>3, <2>4 DEF LNext, ThreadStep
<1>3. HInv => HistogramTrue
  BY DEF HInv
<1> QED
  BY <1>1, <1>2, <1>3, PTL DEF FancySpec
=============================================================================
