----------------------------- MODULE QueueTest -----------------------------
(***************************************************************************)
(* The queueing program bookcode/queuetest.cc: main makes transactions and *)
(* queues them for PrimaryTask, which passes each to the worker of its     *)
(* first queue or drops it, the workers hand it on from queue to queue,    *)
(* and back at queue 0 PrimaryTask logs and deletes it.                    *)
(*                                                                         *)
(* One task serves each queue.  A queue is changed under its spinlock, but *)
(* its task looks at count, and sleeps on it, without.  Times, RPC records *)
(* and trace entries are left out.                                         *)
(***************************************************************************)
EXTENDS Integers, Sequences, FiniteSets

CONSTANTS
    NWORKERS,            \* worker tasks, on queues 1..NWORKERS
    Patterns,            \* sequences of worker queues a transaction visits
    N,                   \* transactions main makes
    kMaxTransInFlight,
    FIXED                \* compiled with -DFIXED: Enqueue unlocks, then wakes

ASSUME PatternsAssumption ==
    /\ NWORKERS \in Nat
    /\ Patterns \subseteq Seq(1..NWORKERS)
    /\ \A p \in Patterns : p # <<>>
ASSUME LimitsAssumption ==
    N \in Nat /\ kMaxTransInFlight \in Nat /\ FIXED \in BOOLEAN

VARIABLES
    list,            \* list[q]: the items linked from queue[q].head
    count,           \* queue[q].count
    qlock,           \* queue[q].lock
    onework,         \* onework[i]: what is left to do for item i
    created,         \* items 1..created exist or have existed
    pending_count,
    dropped_count,
    log,             \* items written to the log file, in order
    logopen,         \* the log file is open
    pc, item, target,  \* of each thread: where it is, its item, Enqueue's queue
    seen             \* seen[t]: the list as thread t read it under the lock

Queues == 0..NWORKERS
Main == NWORKERS + 1
Threads == 0..Main
Items == 1..N
None == 0

queues == <<list, count, qlock>>
counters == <<pending_count, dropped_count>>
vars == <<list, count, qlock, onework, created, pending_count, dropped_count,
          log, logopen, pc, item, target, seen>>

Init ==
    /\ list = [q \in Queues |-> <<>>]
    /\ count = [q \in Queues |-> 0]
    /\ qlock = [q \in Queues |-> FALSE]
    /\ onework = [i \in Items |-> <<>>]
    /\ created = 0
    /\ pending_count = 0 /\ dropped_count = 0
    /\ log = <<>> /\ logopen = TRUE
    /\ pc = [t \in Threads |-> IF t = Main THEN "generate" ELSE "poll"]
    /\ item = [t \in Threads |-> None]
    /\ target = [t \in Threads |-> 0]
    /\ seen = [t \in Threads |-> <<>>]

(* Returning from main ends all threads.                                   *)
Running == pc[Main] # "exited"
At(t, l) == Running /\ pc[t] = l
Goto(t, l) == pc' = [pc EXCEPT ![t] = l]

(***************************************************************************)
(* PlainSpinLock, Enqueue and Dequeue                                      *)
(***************************************************************************)

SpinLock_None(q) == UNCHANGED qlock

SpinLock(q) == ~qlock[q] /\ qlock' = [qlock EXCEPT ![q] = TRUE]

SpinUnlock(q) == qlock' = [qlock EXCEPT ![q] = FALSE]

(* Call Enqueue(i, q): a thread holds the item until it is linked.         *)
CallEnqueue(t, i, q) ==
    /\ item' = [item EXCEPT ![t] = i]
    /\ target' = [target EXCEPT ![t] = q]
    /\ Goto(t, "enqueue")

EnqueueLock(t) ==
    /\ At(t, "enqueue")
    /\ SpinLock(target[t])
    /\ seen' = [seen EXCEPT ![t] = list[target[t]]]
    /\ Goto(t, "link")
    /\ UNCHANGED <<list, count, onework, created, counters, log, logopen, item, target>>

(* The item goes behind the tail; ++count comes last.                      *)
EnqueueLink(t) ==
    /\ At(t, "link")
    /\ list' = [list EXCEPT ![target[t]] = Append(seen[t], item[t])]
    /\ count' = [count EXCEPT ![target[t]] = @ + 1]
    /\ item' = [item EXCEPT ![t] = None]
    /\ Goto(t, IF FIXED THEN "unlock" ELSE "wake")
    /\ UNCHANGED <<qlock, onework, created, counters, log, logopen, target, seen>>

(* Where a thread goes on after Enqueue.                                   *)
AfterEnqueue(t) == IF t = Main THEN "generate" ELSE "poll"

EnqueueUnlock(t) ==
    /\ At(t, "unlock")
    /\ SpinUnlock(target[t])
    /\ Goto(t, IF FIXED THEN "wake" ELSE AfterEnqueue(t))
    /\ UNCHANGED <<list, count, onework, created, counters, log, logopen, item,
                   target, seen>>

Awaken_Nobody(t, l) == Goto(t, l)

(* FUTEX_WAKE with a count of 0, which Linux treats as 1.  Only the task   *)
(* of the queue ever sleeps on its count.                                  *)
Awaken(t, l) ==
    pc' = [u \in Threads |-> IF u = t THEN l
                             ELSE IF u = target[t] /\ pc[u] = "asleep" THEN "poll"
                             ELSE pc[u]]

EnqueueWake(t) ==
    /\ At(t, "wake")
    /\ Awaken(t, IF FIXED THEN AfterEnqueue(t) ELSE "unlock")
    /\ UNCHANGED <<queues, onework, created, counters, log, logopen, item, target, seen>>

(* while (myqueue->count == 0) futex(...): the task looks at count,        *)
Poll(q) ==
    /\ At(q, "poll")
    /\ Goto(q, IF count[q] = 0 THEN "futex" ELSE "dequeue")
    /\ UNCHANGED <<queues, onework, created, counters, log, logopen, item, target, seen>>

FutexWait_Always(q) ==
    /\ At(q, "futex")
    /\ Goto(q, "asleep")
    /\ UNCHANGED <<queues, onework, created, counters, log, logopen, item, target, seen>>

(* and the kernel looks again before it puts the task to sleep.            *)
FutexWait(q) ==
    /\ At(q, "futex")
    /\ Goto(q, IF count[q] = 0 THEN "asleep" ELSE "poll")
    /\ UNCHANGED <<queues, onework, created, counters, log, logopen, item, target, seen>>

DequeueLock(q) ==
    /\ At(q, "dequeue")
    /\ SpinLock(q)
    /\ seen' = [seen EXCEPT ![q] = list[q]]
    /\ Goto(q, "unlink")
    /\ UNCHANGED <<list, count, onework, created, counters, log, logopen, item, target>>

DequeueUnlink(q) ==
    /\ At(q, "unlink")
    /\ item' = [item EXCEPT ![q] = Head(seen[q])]
    /\ list' = [list EXCEPT ![q] = Tail(seen[q])]
    /\ count' = [count EXCEPT ![q] = @ - 1]
    /\ SpinUnlock(q)
    /\ Goto(q, "item")
    /\ UNCHANGED <<onework, created, counters, log, logopen, target, seen>>

(***************************************************************************)
(* PrimaryTask                                                             *)
(***************************************************************************)

TooBusy_OffByOne(n) == n > kMaxTransInFlight + 1

TooBusy(n) == n > kMaxTransInFlight

(* A new item: one more is pending, and it goes to its first queue.        *)
Accept ==
    /\ At(0, "item")
    /\ onework[item[0]] # <<>>
    /\ ~TooBusy(pending_count + 1)
    /\ pending_count' = pending_count + 1
    /\ CallEnqueue(0, item[0], Head(onework[item[0]]))
    /\ UNCHANGED <<queues, onework, created, dropped_count, log, logopen, seen>>

(* ... or is one too many, and finished at once.                           *)
Drop ==
    /\ At(0, "item")
    /\ onework[item[0]] # <<>>
    /\ TooBusy(pending_count + 1)
    /\ pending_count' = pending_count + 1
    /\ dropped_count' = dropped_count + 1
    /\ Goto(0, "finish")
    /\ UNCHANGED <<queues, onework, created, log, logopen, item, target, seen>>

(* An item that is done comes back with nothing left to do.                *)
Complete ==
    /\ At(0, "item")
    /\ onework[item[0]] = <<>>
    /\ Goto(0, "finish")
    /\ UNCHANGED <<queues, onework, created, counters, log, logopen, item, target, seen>>

(* fwrite to the log; nothing reaches a closed file.                       *)
WriteLog ==
    /\ At(0, "finish")
    /\ log' = IF logopen THEN Append(log, item[0]) ELSE log
    /\ Goto(0, "forget")
    /\ UNCHANGED <<queues, onework, created, counters, logopen, item, target, seen>>

(* --pending_count and DeleteWork.                                         *)
Forget ==
    /\ At(0, "forget")
    /\ pending_count' = pending_count - 1
    /\ item' = [item EXCEPT ![0] = None]
    /\ Goto(0, "poll")
    /\ UNCHANGED <<queues, onework, created, dropped_count, log, logopen, target, seen>>

(***************************************************************************)
(* WorkerTask                                                              *)
(***************************************************************************)

NextQueue(w) == IF w = <<>> THEN 0 ELSE Head(w)

(* The work is done and popped; the item goes to its next queue, or to 0.  *)
Work(q) ==
    /\ q # 0
    /\ At(q, "item")
    /\ onework' = [onework EXCEPT ![item[q]] = Tail(@)]
    /\ CallEnqueue(q, item[q], NextQueue(Tail(onework[item[q]])))
    /\ UNCHANGED <<queues, created, counters, log, logopen, seen>>

(***************************************************************************)
(* main and GenerateLoop                                                   *)
(***************************************************************************)

CreateWork(p) ==
    /\ At(Main, "generate")
    /\ created < N
    /\ created' = created + 1
    /\ onework' = [onework EXCEPT ![created + 1] = p]
    /\ CallEnqueue(Main, created + 1, 0)
    /\ UNCHANGED <<queues, counters, log, logopen, seen>>

(* while (pending_count != 0) {}                                           *)
Finish ==
    /\ At(Main, "generate")
    /\ created = N
    /\ pending_count = 0
    /\ Goto(Main, "finished")
    /\ UNCHANGED <<queues, onework, created, counters, log, logopen, item, target, seen>>

CloseLog ==
    /\ At(Main, "finished")
    /\ logopen' = FALSE
    /\ Goto(Main, "report")
    /\ UNCHANGED <<queues, onework, created, counters, log, item, target, seen>>

Exit ==
    /\ At(Main, "report")
    /\ Goto(Main, "exited")
    /\ UNCHANGED <<queues, onework, created, counters, log, logopen, item, target, seen>>

-----------------------------------------------------------------------------

Enqueue(t) == EnqueueLock(t) \/ EnqueueLink(t) \/ EnqueueUnlock(t) \/ EnqueueWake(t)

Dequeue(q) == Poll(q) \/ FutexWait(q) \/ DequeueLock(q) \/ DequeueUnlink(q)

PrimaryTask == Dequeue(0) \/ Accept \/ Drop \/ Complete \/ WriteLog \/ Forget \/ Enqueue(0)

WorkerTask(q) == Dequeue(q) \/ Work(q) \/ Enqueue(q)

GenerateLoop == (\E p \in Patterns : CreateWork(p)) \/ Enqueue(Main) \/ Finish
                \/ CloseLog \/ Exit

Next == PrimaryTask \/ GenerateLoop \/ \E q \in Queues \ {0} : WorkerTask(q)

Spec == Init /\ [][Next]_vars

(* Every thread that can run is scheduled; spinning for a lock that only   *)
(* finitely many items contend for ends.                                   *)
FairSpec ==
    /\ Spec
    /\ WF_vars(PrimaryTask)
    /\ WF_vars(GenerateLoop)
    /\ \A q \in Queues \ {0} : WF_vars(WorkerTask(q))

-----------------------------------------------------------------------------

(* Type correctness; no counter is ever negative.                          *)
TypeOK ==
    /\ list \in [Queues -> Seq(Items)]
    /\ count \in [Queues -> Nat]
    /\ qlock \in [Queues -> BOOLEAN]
    /\ onework \in [Items -> Seq(1..NWORKERS)]
    /\ created \in 0..N
    /\ pending_count \in Nat /\ dropped_count \in Nat
    /\ log \in Seq(Items) /\ logopen \in BOOLEAN
    /\ item \in [Threads -> Items \cup {None}]
    /\ target \in [Threads -> Queues]
    /\ seen \in [Threads -> Seq(Items)]

(* The places an item can be at: position n of queue q, or in a thread's   *)
(* hands.                                                                  *)
Places(i) ==
    {p \in [kind : {"queue"}, at : Queues, n : 1..N] :
        p.n <= Len(list[p.at]) /\ list[p.at][p.n] = i}
    \cup [kind : {"hand"}, at : {t \in Threads : item[t] = i}, n : {0}]

Done(i) == \E n \in 1..Len(log) : log[n] = i

(* No item is lost or duplicated: while the log is open, every item made   *)
(* is at exactly one place until it is forgotten, and is then in the log,  *)
(* exactly once.                                                           *)
NothingLost ==
    logopen => \A i \in 1..created :
        /\ Cardinality(Places(i)) <= 1
        /\ Places(i) = {} => Done(i)
        /\ \A m, n \in 1..Len(log) : log[m] = i /\ log[n] = i => m = n

(* Items a worker has or will have, and done ones that have yet to be      *)
(* logged: those PrimaryTask has accepted and not finished.                *)
InFlight ==
    {i \in 1..created :
        \/ \E q \in Queues \ {0} : i = item[q] \/ \E n \in 1..Len(list[q]) : list[q][n] = i
        \/ i = item[0] /\ pc[0] \in {"enqueue", "link"}
        \/ Places(i) # {} /\ onework[i] = <<>>}

(* "rejects new transactions if the number in flight is above a specified  *)
(* limit": pending_count, which only PrimaryTask changes, is the number of *)
(* transactions in flight whenever it decides, and that number never       *)
(* exceeds the limit.                                                      *)
InFlightLimited ==
    /\ Cardinality(InFlight) <= kMaxTransInFlight
    /\ pc[0] \in {"poll", "item"} => pending_count = Cardinality(InFlight)

(* No lost wakeup: a task asleep on a queue that is not empty is about to  *)
(* be woken by a thread that has linked an item and not returned yet.      *)
NoLostWakeup ==
    \A q \in Queues : pc[q] = "asleep" /\ count[q] > 0 =>
        \E t \in Threads : target[t] = q /\ pc[t] \in {"unlock", "wake"}

(* Every transaction comes to an end unless the program does.              *)
ItemsEnd ==
    \A i \in Items : (i <= created) ~> (Done(i) \/ ~logopen)
=============================================================================
