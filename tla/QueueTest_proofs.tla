-------------------------- MODULE QueueTest_proofs --------------------------
(***************************************************************************)
(* Proofs about QueueTest for any number of workers, transactions and      *)
(* patterns, with and without FIXED: no wakeup is lost, no transaction is  *)
(* lost or handled twice, and the number in flight keeps to its limit.     *)
(***************************************************************************)
EXTENDS QueueTest, FiniteSetTheorems, SequenceTheorems, TLAPS

(***************************************************************************)
(* The inductive invariant                                                 *)
(***************************************************************************)

EnqueueLabels == {"enqueue", "link", "unlock", "wake"}
TaskLabels == EnqueueLabels \cup {"poll", "futex", "asleep", "dequeue", "unlink", "item"}
MainLabels == EnqueueLabels \cup {"generate", "finished", "report", "exited"}

(* The types of the variables and the labels of each kind of thread.       *)
Types ==
    /\ list \in [Queues -> Seq(Items)]
    /\ count \in [Queues -> Nat]
    /\ qlock \in [Queues -> BOOLEAN]
    /\ onework \in [Items -> Seq(1..NWORKERS)]
    /\ created \in 0..N
    /\ pending_count \in Int /\ dropped_count \in Nat
    /\ log \in Seq(Items) /\ logopen \in BOOLEAN
    /\ item \in [Threads -> Items \cup {None}]
    /\ target \in [Threads -> Queues]
    /\ seen \in [Threads -> Seq(Items)]
    /\ pc \in [Threads -> TaskLabels \cup MainLabels \cup {"finish", "forget"}]
    /\ pc[Main] \in MainLabels
    /\ \A q \in Queues : pc[q] \in TaskLabels \/ (q = 0 /\ pc[0] \in {"finish", "forget"})

(* Thread t is between SpinLock(q) and SpinUnlock(q).                      *)
Holds(t, q) ==
    \/ pc[t] \in {"link", "unlock"} /\ target[t] = q
    \/ pc[t] = "wake" /\ ~FIXED /\ target[t] = q
    \/ pc[t] = "unlink" /\ t = q

(* The spinlocks exclude, so that a list is still as it was read.          *)
Locked ==
    /\ \A t \in Threads, q \in Queues : Holds(t, q) => qlock[q]
    /\ \A t, u \in Threads, q \in Queues : Holds(t, q) /\ Holds(u, q) => t = u
    /\ \A t \in Threads : pc[t] = "link" => seen[t] = list[target[t]]
    /\ \A q \in Queues : pc[q] = "unlink" => seen[q] = list[q]

(* count is the length of the list, and a task that saw an item on its     *)
(* queue still finds one: nobody else takes from it.                       *)
CountTrue ==
    \A q \in Queues : /\ count[q] = Len(list[q])
                      /\ pc[q] \in {"dequeue", "unlink"} => count[q] > 0

(* The wakeup itself is still to come, not only the return from Enqueue.   *)
WakeDue ==
    \A q \in Queues : pc[q] = "asleep" /\ count[q] > 0 =>
        \E t \in Threads : /\ target[t] = q
                           /\ pc[t] = "wake" \/ (pc[t] = "unlock" /\ FIXED)

(* A thread has an item in its hands at these labels and no others.        *)
Handed ==
    \A t \in Threads :
        item[t] # None <=> pc[t] \in {"item", "enqueue", "link", "finish", "forget"}

(* Items with the workers have work left until a worker pops the last of   *)
(* it; those go back to queue 0, and only those and new ones do.           *)
WorkLeft ==
    /\ \A q \in Queues \ {0} : \A n \in 1..Len(list[q]) : onework[list[q][n]] # <<>>
    /\ \A q \in Queues \ {0} :
          /\ pc[q] = "item" => onework[item[q]] # <<>>
          /\ pc[q] \in {"enqueue", "link"} => (target[q] = 0 <=> onework[item[q]] = <<>>)
    /\ pc[0] \in {"enqueue", "link"} => target[0] # 0 /\ onework[item[0]] # <<>>
    /\ pc[Main] \in {"enqueue", "link"} => target[Main] = 0 /\ onework[item[Main]] # <<>>

(* An item is at most at one place.                                        *)
Unique ==
    /\ \A p, q \in Queues : \A m \in 1..Len(list[p]), n \in 1..Len(list[q]) :
          list[p][m] = list[q][n] => p = q /\ m = n
    /\ \A t \in Threads, q \in Queues : \A n \in 1..Len(list[q]) : item[t] # list[q][n]
    /\ \A t, u \in Threads : item[t] = item[u] /\ item[t] # None => t = u

(* Only items that were made are anywhere.                                 *)
Made ==
    /\ \A q \in Queues : \A n \in 1..Len(list[q]) : list[q][n] <= created
    /\ \A t \in Threads : item[t] <= created
    /\ \A n \in 1..Len(log) : log[n] <= created

OnQueue(i, q) == \E n \in 1..Len(list[q]) : list[q][n] = i

Present(i) == (\E q \in Queues : OnQueue(i, q)) \/ (\E t \in Threads : item[t] = i)

(* While the log is open an item is somewhere or in the log, and both only *)
(* between its being logged and its being forgotten.                       *)
Logged ==
    logopen =>
        /\ \A i \in 1..created : Present(i) \/ Done(i)
        /\ \A i \in 1..created : Present(i) /\ Done(i) => i = item[0] /\ pc[0] = "forget"
        /\ pc[0] = "forget" => Done(item[0])
        /\ \A m, n \in 1..Len(log) : log[m] = log[n] => m = n

(* InFlight, said without Places.                                          *)
Accepted ==
    {i \in 1..created :
        \/ \E q \in Queues \ {0} : i = item[q] \/ OnQueue(i, q)
        \/ i = item[0] /\ pc[0] \in {"enqueue", "link"}
        \/ Present(i) /\ onework[i] = <<>>}

(* PrimaryTask is about to finish an item it did not accept.               *)
Dropping == pc[0] \in {"finish", "forget"} /\ onework[item[0]] # <<>>

(* pending_count counts the items in flight and the one being dropped.     *)
Pending ==
    /\ pending_count = Cardinality(Accepted) + (IF Dropping THEN 1 ELSE 0)
    /\ Cardinality(Accepted) <= kMaxTransInFlight

IInv == /\ Types /\ Locked /\ CountTrue /\ WakeDue /\ Handed /\ WorkLeft
        /\ Unique /\ Made /\ Logged /\ Pending

(***************************************************************************)
(* Facts about threads, lists and places                                   *)
(***************************************************************************)

LEMMA ThreadFacts ==
    /\ 0 \in Queues /\ 0 \in Threads /\ Main \in Threads /\ Main \notin Queues /\ Main # 0
    /\ \A q \in Queues : q \in Threads /\ q # Main
    /\ \A t \in Threads : t = Main \/ t \in Queues
    /\ None \notin Items
    /\ \A i \in Items : i \in Nat /\ i # None
  BY PatternsAssumption, LimitsAssumption DEF Queues, Threads, Main, Items, None

LEMMA AppendFacts ==
    ASSUME NEW S, NEW s \in Seq(S), NEW x \in S
    PROVE  /\ Append(s, x) \in Seq(S)
           /\ Len(Append(s, x)) = Len(s) + 1 /\ Len(s) \in Nat
           /\ \A n \in 1..Len(s) : Append(s, x)[n] = s[n]
           /\ Append(s, x)[Len(s) + 1] = x
  OBVIOUS

LEMMA TailFacts ==
    ASSUME NEW S, NEW s \in Seq(S), s # <<>>
    PROVE  /\ Tail(s) \in Seq(S) /\ Len(s) \in Nat /\ Len(s) > 0
           /\ Len(Tail(s)) = Len(s) - 1
           /\ \A n \in 1..(Len(s) - 1) : Tail(s)[n] = s[n + 1]
           /\ Head(s) = s[1] /\ Head(s) \in S
  OBVIOUS

LEMMA ElementFacts ==
    ASSUME NEW S, NEW s \in Seq(S)
    PROVE  Len(s) \in Nat /\ (\A n \in 1..Len(s) : s[n] \in S) /\ (Len(s) = 0 <=> s = <<>>)
  OBVIOUS

(* The items in flight are finitely many.                                  *)
LEMMA AcceptedFinite ==
    ASSUME created \in 0..N
    PROVE  IsFiniteSet(Accepted) /\ Cardinality(Accepted) \in Nat
<1>1. Accepted \in SUBSET (1..created)
  BY DEF Accepted
<1>2. IsFiniteSet(1..created)
  BY FS_Interval, LimitsAssumption
<1>3. IsFiniteSet(Accepted)
  BY <1>1, <1>2, FS_Subset
<1> QED
  BY <1>3, FS_CardinalityType

LEMMA InitIInv == Init => IInv
<1> SUFFICES ASSUME Init PROVE IInv
  OBVIOUS
<1> USE ThreadFacts DEF Init
<1>1. Types
  BY LimitsAssumption DEF Types, TaskLabels, MainLabels, EnqueueLabels
<1>2. Locked
  BY DEF Locked, Holds
<1>3. CountTrue /\ WakeDue /\ Handed /\ WorkLeft /\ Unique /\ Made
  BY DEF CountTrue, WakeDue, Handed, WorkLeft, Unique, Made, Items, None
<1>4. Logged
  BY DEF Logged
<1>5. Pending
  <2>1. Accepted = {}
    BY DEF Accepted
  <2> QED
    BY <2>1, FS_EmptySet, LimitsAssumption DEF Pending, Dropping
<1> QED
  BY <1>1, <1>2, <1>3, <1>4, <1>5 DEF IInv

(***************************************************************************)
(* Steps that leave every item where it is                                 *)
(***************************************************************************)

(* Two labels that say the same about the item in a thread's hands.        *)
SameHand(k, l) ==
    \/ k = l
    \/ k \in {"enqueue", "link"} /\ l \in {"enqueue", "link"}
    \/ k \notin {"item", "enqueue", "link", "finish", "forget"}
       /\ l \notin {"item", "enqueue", "link", "finish", "forget"}

LEMMA KeepItems ==
    ASSUME IInv,
           UNCHANGED <<list, item, onework, created, log, target, pending_count>>,
           logopen' => logopen,
           \A u \in Threads : SameHand(pc[u], pc'[u])
    PROVE  Handed' /\ WorkLeft' /\ Unique' /\ Made' /\ Logged' /\ Pending'
<1> USE ThreadFacts
<1>1. Handed' /\ WorkLeft' /\ Unique' /\ Made'
  BY DEF IInv, Handed, WorkLeft, Unique, Made, SameHand
<1>2. (\A i : Present(i)' <=> Present(i)) /\ (\A i, q : OnQueue(i, q)' <=> OnQueue(i, q))
      /\ (\A i : Done(i)' <=> Done(i))
  BY DEF Present, OnQueue, Done
<1>3. Logged'
  BY <1>2 DEF IInv, Logged, SameHand
<1>4. Accepted' = Accepted
  BY <1>2 DEF Accepted, SameHand
<1>5. Dropping' = Dropping
  BY DEF Dropping, SameHand
<1>6. Pending'
  BY <1>4, <1>5 DEF IInv, Pending
<1> QED
  BY <1>1, <1>3, <1>6

(* A step that takes no lock keeps what holders of locks rely on.          *)
LEMMA KeepLocked ==
    ASSUME IInv, UNCHANGED <<list, seen>>,
           \A u \in Threads, q \in Queues : Holds(u, q)' => Holds(u, q) /\ qlock'[q],
           \A u \in Threads : pc'[u] = "link" => pc[u] = "link" /\ target'[u] = target[u],
           \A q \in Queues : pc'[q] = "unlink" => pc[q] = "unlink"
    PROVE  Locked'
<1>1. \A t \in Threads, q \in Queues : Holds(t, q)' => qlock'[q]
  OBVIOUS
<1>2. \A t, u \in Threads, q \in Queues : Holds(t, q)' /\ Holds(u, q)' => t = u
  BY DEF IInv, Locked
<1>3. \A t \in Threads : pc'[t] = "link" => seen'[t] = list'[target'[t]]
  BY DEF IInv, Locked
<1>4. \A q \in Queues : pc'[q] = "unlink" => seen'[q] = list'[q]
  BY DEF IInv, Locked
<1> QED
  BY <1>1, <1>2, <1>3, <1>4 DEF Locked

(* A step that takes the lock of queue q, which nobody holds, and reads    *)
(* the list.                                                               *)
LEMMA TakeLock ==
    ASSUME IInv, UNCHANGED <<list, target>>,
           NEW t \in Threads, NEW q \in Queues, SpinLock(q),
           seen' = [seen EXCEPT ![t] = list[q]],
           \/ Goto(t, "link") /\ target[t] = q
           \/ Goto(t, "unlink") /\ t = q
    PROVE  Locked'
<1> USE ThreadFacts DEF SpinLock, Goto
<1>1. \A u \in Threads, p \in Queues : Holds(u, p)' => (u = t /\ p = q) \/ (u # t /\ Holds(u, p))
  BY DEF IInv, Types, Holds
<1>2. \A u \in Threads : ~Holds(u, q)
  BY DEF IInv, Types, Locked
<1>3. \A u \in Threads, p \in Queues : Holds(u, p)' => qlock'[p]
  BY <1>1 DEF IInv, Types, Locked
<1>4. \A u, v \in Threads, p \in Queues : Holds(u, p)' /\ Holds(v, p)' => u = v
  BY <1>1, <1>2 DEF IInv, Locked
<1>5. \A u \in Threads : pc'[u] = "link" => seen'[u] = list'[target'[u]]
  BY DEF IInv, Types, Locked
<1>6. \A p \in Queues : pc'[p] = "unlink" => seen'[p] = list'[p]
  BY DEF IInv, Types, Locked
<1> QED
  BY <1>3, <1>4, <1>5, <1>6 DEF Locked

LEMMA EnqueueLockIInv ==
    ASSUME IInv, NEW t \in Threads, EnqueueLock(t)
    PROVE  IInv'
<1> USE ThreadFacts DEF EnqueueLock, At, Goto, SpinLock, counters
<1>1. Types'
  BY DEF IInv, Types, TaskLabels, MainLabels, EnqueueLabels
<1>2. Locked'
  BY TakeLock DEF IInv, Types
<1>3. CountTrue'
  BY DEF IInv, Types, CountTrue
<1>4. WakeDue'
  BY DEF IInv, Types, WakeDue
<1>5. \A u \in Threads : SameHand(pc[u], pc'[u])
  BY DEF IInv, Types, SameHand
<1> QED
  BY <1>1, <1>2, <1>3, <1>4, <1>5, KeepItems DEF IInv

LEMMA EnqueueUnlockIInv ==
    ASSUME IInv, NEW t \in Threads, EnqueueUnlock(t)
    PROVE  IInv'
<1> USE ThreadFacts DEF EnqueueUnlock, At, Goto, SpinUnlock, AfterEnqueue, counters
<1>1. Types'
  BY DEF IInv, Types, TaskLabels, MainLabels, EnqueueLabels
<1>2. Locked'
  <2>1. Holds(t, target[t])
    BY DEF Holds
  <2>2. \A u \in Threads, q \in Queues : Holds(u, q)' => u # t /\ Holds(u, q)
    BY DEF IInv, Types, Holds
  <2>3. \A u \in Threads, q \in Queues : Holds(u, q)' => q # target[t] /\ qlock[q]
    BY <2>1, <2>2 DEF IInv, Locked
  <2>4. \A q \in Queues : q # target[t] => qlock'[q] = qlock[q]
    BY DEF IInv, Types
  <2>5. /\ \A u \in Threads : pc'[u] = "link" => pc[u] = "link" /\ target'[u] = target[u]
        /\ \A q \in Queues : pc'[q] = "unlink" => pc[q] = "unlink"
    BY DEF IInv, Types
  <2> QED
    BY <2>2, <2>3, <2>4, <2>5, KeepLocked
<1>3. CountTrue'
  BY DEF IInv, Types, CountTrue
<1>4. WakeDue'
  BY DEF IInv, Types, WakeDue
<1>5. \A u \in Threads : SameHand(pc[u], pc'[u])
  BY DEF IInv, Types, SameHand
<1> QED
  BY <1>1, <1>2, <1>3, <1>4, <1>5, KeepItems DEF IInv

LEMMA EnqueueWakeIInv ==
    ASSUME IInv, NEW t \in Threads, EnqueueWake(t)
    PROVE  IInv'
<1> USE ThreadFacts DEF EnqueueWake, queues, counters
<1> DEFINE l == IF FIXED THEN AfterEnqueue(t) ELSE "unlock"
<1>1. /\ pc[t] = "wake" /\ pc'[t] = l
      /\ \A u \in Threads \ {t} :
            pc'[u] = IF u = target[t] /\ pc[u] = "asleep" THEN "poll" ELSE pc[u]
  BY DEF At, Awaken
<1>2. Types'
  BY DEF IInv, Types, TaskLabels, MainLabels, EnqueueLabels, At, Awaken, AfterEnqueue
<1>3. Locked'
  <2>1. \A u \in Threads \ {t}, q \in Queues : Holds(u, q)' => Holds(u, q)
    BY <1>1 DEF Holds
  <2>2. \A q \in Queues : Holds(t, q)' => Holds(t, q)
    BY <1>1 DEF Holds, AfterEnqueue
  <2>3. /\ \A u \in Threads : pc'[u] = "link" => pc[u] = "link" /\ target'[u] = target[u]
        /\ \A q \in Queues : pc'[q] = "unlink" => pc[q] = "unlink"
    BY <1>1 DEF AfterEnqueue
  <2>4. \A u \in Threads, q \in Queues : Holds(u, q)' => Holds(u, q) /\ qlock'[q]
    BY <2>1, <2>2 DEF IInv, Locked
  <2> QED
    BY <2>3, <2>4, KeepLocked
<1>4. CountTrue'
  BY <1>1 DEF IInv, CountTrue, AfterEnqueue
<1>5. WakeDue'
  BY <1>1 DEF IInv, WakeDue, AfterEnqueue
<1>6. \A u \in Threads : SameHand(pc[u], pc'[u])
  BY <1>1 DEF SameHand, AfterEnqueue
<1> QED
  BY <1>2, <1>3, <1>4, <1>5, <1>6, KeepItems DEF IInv

(* A thread that has no item and no lock moves on.                         *)
LEMMA QuietMove ==
    ASSUME IInv, NEW t \in Threads, NEW l, Goto(t, l),
           UNCHANGED <<queues, onework, created, counters, log, item, target, seen>>,
           logopen' \in BOOLEAN, logopen' => logopen,
           \/ /\ t \in Queues /\ pc[t] \in {"poll", "futex"}
              /\ l \in {"poll", "futex", "asleep", "dequeue"}
              /\ l = "asleep" => count[t] = 0
              /\ l = "dequeue" => count[t] > 0
           \/ /\ t = Main /\ pc[t] \in {"generate", "finished", "report"}
              /\ l \in {"finished", "report", "exited"}
    PROVE  IInv'
<1> USE ThreadFacts DEF Goto, queues, counters
<1>1. Types'
  BY DEF IInv, Types, TaskLabels, MainLabels, EnqueueLabels
<1>2. /\ pc'[t] = l /\ \A u \in Threads \ {t} : pc'[u] = pc[u]
  BY DEF IInv, Types
<1>3. Locked'
  <2>1. \A u \in Threads, q \in Queues : Holds(u, q)' => Holds(u, q)
    BY <1>2 DEF Holds
  <2>2. /\ \A u \in Threads : pc'[u] = "link" => pc[u] = "link" /\ target'[u] = target[u]
        /\ \A q \in Queues : pc'[q] = "unlink" => pc[q] = "unlink"
    BY <1>2
  <2>3. \A u \in Threads, q \in Queues : Holds(u, q)' => Holds(u, q) /\ qlock'[q]
    BY <2>1 DEF IInv, Locked
  <2> QED
    BY <2>2, <2>3, KeepLocked
<1>4. CountTrue'
  BY <1>2 DEF IInv, CountTrue
<1>5. WakeDue'
  BY <1>2 DEF IInv, WakeDue
<1>6. \A u \in Threads : SameHand(pc[u], pc'[u])
  BY <1>2 DEF SameHand
<1> QED
  BY <1>1, <1>3, <1>4, <1>5, <1>6, KeepItems DEF IInv

LEMMA WaitIInv ==
    ASSUME IInv, NEW q \in Queues, Poll(q) \/ FutexWait(q)
    PROVE  IInv'
<1> USE ThreadFacts DEF At
<1>1. count[q] \in Nat /\ logopen \in BOOLEAN
  BY DEF IInv, Types
<1>2. CASE Poll(q)
  BY <1>1, <1>2, QuietMove DEF Poll
<1>3. CASE FutexWait(q)
  BY <1>1, <1>3, QuietMove DEF FutexWait
<1> QED
  BY <1>2, <1>3

LEMMA EndIInv ==
    ASSUME IInv, Finish \/ CloseLog \/ Exit
    PROVE  IInv'
<1> USE ThreadFacts DEF At
<1>1. logopen \in BOOLEAN
  BY DEF IInv, Types
<1>2. CASE Finish
  BY <1>1, <1>2, QuietMove DEF Finish
<1>3. CASE CloseLog
  BY <1>1, <1>3, QuietMove DEF CloseLog
<1>4. CASE Exit
  BY <1>1, <1>4, QuietMove DEF Exit
<1> QED
  BY <1>2, <1>3, <1>4

LEMMA DequeueLockIInv ==
    ASSUME IInv, NEW q \in Queues, DequeueLock(q)
    PROVE  IInv'
<1> USE ThreadFacts DEF DequeueLock, At, Goto, SpinLock, counters
<1>1. Types'
  BY DEF IInv, Types, TaskLabels, MainLabels, EnqueueLabels
<1>2. Locked'
  BY TakeLock DEF IInv, Types
<1>3. CountTrue'
  BY DEF IInv, Types, CountTrue
<1>4. WakeDue'
  BY DEF IInv, Types, WakeDue
<1>5. \A u \in Threads : SameHand(pc[u], pc'[u])
  BY DEF IInv, Types, SameHand
<1> QED
  BY <1>1, <1>2, <1>3, <1>4, <1>5, KeepItems DEF IInv

(***************************************************************************)
(* Steps that move an item                                                 *)
(***************************************************************************)

LEMMA EnqueueLinkIInv ==
    ASSUME IInv, NEW t \in Threads, EnqueueLink(t)
    PROVE  IInv'
<1> USE ThreadFacts
<1> DEFINE q == target[t]
           i == item[t]
           l == IF FIXED THEN "unlock" ELSE "wake"
<1>1. /\ q \in Queues /\ i \in Items /\ pc[t] = "link"
      /\ list[q] \in Seq(Items) /\ seen[t] = list[q]
      /\ count[q] \in Nat
  BY DEF IInv, Types, Locked, Handed, EnqueueLink, At
<1>2. /\ pc'[t] = l /\ \A u \in Threads \ {t} : pc'[u] = pc[u]
      /\ item'[t] = None /\ \A u \in Threads \ {t} : item'[u] = item[u]
      /\ list'[q] = Append(list[q], i) /\ \A p \in Queues \ {q} : list'[p] = list[p]
      /\ count'[q] = count[q] + 1 /\ \A p \in Queues \ {q} : count'[p] = count[p]
      /\ UNCHANGED <<qlock, onework, created, pending_count, log, logopen, target, seen>>
  BY <1>1 DEF IInv, Types, EnqueueLink, Goto, counters
<1>3. /\ Len(list'[q]) = Len(list[q]) + 1 /\ Len(list[q]) \in Nat
      /\ \A n \in 1..Len(list[q]) : list'[q][n] = list[q][n]
      /\ list'[q][Len(list[q]) + 1] = i
  BY <1>1, <1>2, AppendFacts
<1> HIDE DEF q, i, l
<1>16. \A p \in Queues : \A n \in 1..Len(list'[p]) :
           \/ p = q /\ n = Len(list[q]) + 1 /\ list'[p][n] = i
           \/ n \in 1..Len(list[p]) /\ list'[p][n] = list[p][n]
  <2> TAKE p \in Queues
  <2>1. CASE p # q
    BY <1>2, <2>1
  <2>2. CASE p = q
    <3> SUFFICES ASSUME NEW n \in 1..Len(list'[q])
                 PROVE  \/ n = Len(list[q]) + 1 /\ list'[q][n] = i
                        \/ n \in 1..Len(list[q]) /\ list'[q][n] = list[q][n]
      BY <2>2
    <3>1. n = Len(list[q]) + 1 \/ n \in 1..Len(list[q])
      <4>1. n \in 1..(Len(list[q]) + 1) /\ Len(list[q]) \in Nat
        BY <1>3
      <4> QED
        BY <4>1
    <3> QED
      BY <1>3, <3>1
  <2> QED
    BY <2>1, <2>2
<1>4. Types'
  <2>1. Append(seen[t], i) \in Seq(Items)
    BY <1>1, AppendFacts
  <2>2. /\ list' = [list EXCEPT ![q] = Append(seen[t], i)]
        /\ count' = [count EXCEPT ![q] = count[q] + 1]
        /\ item' = [item EXCEPT ![t] = None]
    BY DEF EnqueueLink, q, i
  <2>4. list' \in [Queues -> Seq(Items)]
    BY <1>1, <2>1, <2>2 DEF IInv, Types
  <2>5. count' \in [Queues -> Nat]
    <3>1. count[q] + 1 \in Nat
      BY <1>1
    <3>2. count \in [Queues -> Nat]
      BY DEF IInv, Types
    <3> QED
      BY <1>1, <2>2, <3>1, <3>2
  <2>6. item' \in [Threads -> Items \cup {None}]
    BY <2>2 DEF IInv, Types
  <2>3. /\ pc' \in [Threads -> TaskLabels \cup MainLabels \cup {"finish", "forget"}]
        /\ pc'[Main] \in MainLabels
        /\ \A p \in Queues : pc'[p] \in TaskLabels \/ (p = 0 /\ pc'[0] \in {"finish", "forget"})
    BY <1>1 DEF IInv, Types, EnqueueLink, Goto, TaskLabels, MainLabels, EnqueueLabels
  <2> QED
    BY <2>3, <2>4, <2>5, <2>6 DEF IInv, Types, EnqueueLink, counters
<1>5. Locked'
  <2>1. Holds(t, q)
    BY <1>1 DEF Holds, q
  <2>2. \A u \in Threads, p \in Queues : Holds(u, p)' => Holds(u, p)
    BY <1>1, <1>2 DEF Holds, q, l
  <2>3. /\ \A u \in Threads, p \in Queues : Holds(u, p)' => qlock'[p]
        /\ \A u, v \in Threads, p \in Queues : Holds(u, p)' /\ Holds(v, p)' => u = v
    BY <1>2, <2>2 DEF IInv, Locked
  <2>4. ASSUME NEW u \in Threads, pc'[u] = "link" PROVE seen'[u] = list'[target'[u]]
    <3>1. u # t /\ pc[u] = "link" /\ Holds(u, target[u])
      BY <1>2, <2>4 DEF l, Holds
    <3>2. target[u] # q /\ target[u] \in Queues
      BY <1>1, <2>1, <3>1 DEF IInv, Locked, Types
    <3> QED
      BY <1>2, <3>1, <3>2 DEF IInv, Locked
  <2>5. ASSUME NEW p \in Queues, pc'[p] = "unlink" PROVE seen'[p] = list'[p]
    <3>1. p # t /\ pc[p] = "unlink" /\ Holds(p, p)
      BY <1>2, <2>5 DEF l, Holds
    <3>2. p # q
      BY <2>1, <3>1 DEF IInv, Locked
    <3> QED
      BY <1>2, <3>1, <3>2 DEF IInv, Locked
  <2> QED
    BY <2>3, <2>4, <2>5 DEF Locked
<1>6. CountTrue'
  BY <1>1, <1>2, <1>3 DEF IInv, CountTrue, l
<1>7. WakeDue'
  <2>1. target'[t] = q /\ (pc'[t] = "wake" \/ (pc'[t] = "unlock" /\ FIXED))
    BY <1>2 DEF q, l
  <2>2. \A p \in Queues \ {q} : pc'[p] = "asleep" => pc[p] = "asleep" /\ count'[p] = count[p]
    BY <1>2 DEF l
  <2>3. \A u \in Threads : pc[u] = "wake" \/ pc[u] = "unlock" => pc'[u] = pc[u] /\ target'[u] = target[u]
    BY <1>1, <1>2
  <2> QED
    BY <2>1, <2>2, <2>3 DEF IInv, WakeDue
<1>8. Handed'
  BY <1>1, <1>2 DEF IInv, Handed, l
<1>9. Unique'
  <2>2. \A p \in Queues : \A n \in 1..Len(list[p]) : list[p][n] # i
    BY DEF IInv, Unique, i
  <2>3. \A u \in Threads \ {t} : item[u] # i
    BY <1>1 DEF IInv, Unique, i
  <2>4. \A p, r \in Queues : \A m \in 1..Len(list'[p]), n \in 1..Len(list'[r]) :
          list'[p][m] = list'[r][n] => p = r /\ m = n
    <3> TAKE p, r \in Queues
    <3> TAKE m \in 1..Len(list'[p]), n \in 1..Len(list'[r])
    <3>4. /\ \/ p = q /\ m = Len(list[q]) + 1 /\ list'[p][m] = i
             \/ m \in 1..Len(list[p]) /\ list'[p][m] = list[p][m]
          /\ \/ r = q /\ n = Len(list[q]) + 1 /\ list'[r][n] = i
             \/ n \in 1..Len(list[r]) /\ list'[r][n] = list[r][n]
      BY <1>16
    <3>5. /\ m \in 1..Len(list[p]) => list[p][m] # i
          /\ n \in 1..Len(list[r]) => list[r][n] # i
      BY <2>2
    <3>1. CASE p = q /\ m = Len(list[q]) + 1 /\ list'[p][m] = i
      BY <3>1, <3>4, <3>5
    <3>2. CASE m \in 1..Len(list[p]) /\ list'[p][m] = list[p][m]
      <4>1. CASE r = q /\ n = Len(list[q]) + 1 /\ list'[r][n] = i
        BY <3>2, <3>5, <4>1
      <4>2. CASE n \in 1..Len(list[r]) /\ list'[r][n] = list[r][n]
        <5>1. list[p][m] = list[r][n] => p = r /\ m = n
          <6>1. \A s, w \in Queues : \A k \in 1..Len(list[s]), h \in 1..Len(list[w]) :
                  list[s][k] = list[w][h] => s = w /\ k = h
            BY Zenon DEF IInv, Unique
          <6>2. m \in 1..Len(list[p]) /\ n \in 1..Len(list[r])
            BY <3>2, <4>2
          <6> QED
            BY <6>1, <6>2, Zenon
        <5> QED
          BY <3>2, <4>2, <5>1
      <4> QED
        BY <3>4, <4>1, <4>2
    <3> QED
      BY <3>1, <3>2, <3>4
  <2>5. \A u \in Threads, p \in Queues : \A n \in 1..Len(list'[p]) : item'[u] # list'[p][n]
    <3>1. \A p \in Queues : \A n \in 1..Len(list[p]) : list[p][n] # None
      BY ElementFacts DEF IInv, Types
    <3> QED
      BY <1>1, <1>2, <1>16, <2>3, <3>1 DEF IInv, Unique
  <2>6. \A u, v \in Threads : item'[u] = item'[v] /\ item'[u] # None => u = v
    BY <1>2 DEF IInv, Unique
  <2> QED
    BY <2>4, <2>5, <2>6 DEF Unique
<1>10. \A j, p : p \in Queues => (OnQueue(j, p)' <=> OnQueue(j, p) \/ (p = q /\ j = i))
  BY <1>2, <1>3 DEF OnQueue
<1>11. \A j : j # None => (Present(j)' <=> Present(j))
  <2> SUFFICES ASSUME NEW j, j # None PROVE Present(j)' <=> Present(j)
    OBVIOUS
  <2>1. (\E u \in Threads : item'[u] = j) <=> \E u \in Threads \ {t} : item[u] = j
    BY <1>2
  <2>2. (\E u \in Threads : item[u] = j) <=> j = i \/ \E u \in Threads \ {t} : item[u] = j
    BY DEF i
  <2>3. (\E p \in Queues : OnQueue(j, p)') <=> j = i \/ \E p \in Queues : OnQueue(j, p)
    BY <1>1, <1>10
  <2> QED
    BY <2>1, <2>2, <2>3 DEF Present
<1>12. WorkLeft'
  <2>1. \A p \in Queues \ {0} : \A n \in 1..Len(list'[p]) : onework[list'[p][n]] # <<>>
    <3>1. ASSUME q # 0 PROVE onework[i] # <<>>
      BY <1>1, <3>1 DEF IInv, WorkLeft, q, i
    <3> TAKE p \in Queues \ {0}
    <3> TAKE n \in 1..Len(list'[p])
    <3>2. CASE p = q /\ n = Len(list[q]) + 1 /\ list'[p][n] = i
      BY <3>1, <3>2
    <3>3. CASE n \in 1..Len(list[p]) /\ list'[p][n] = list[p][n]
      BY <3>3 DEF IInv, WorkLeft
    <3> QED
      BY <1>16, <3>2, <3>3
  <2> QED
    BY <1>2, <2>1 DEF IInv, WorkLeft, l
<1>13. Made'
  <2>1. i <= created /\ 0 <= created
    BY DEF IInv, Made, Types, i
  <2> QED
    BY <1>2, <1>3, <2>1 DEF IInv, Made, None
<1>14. Logged'
  <2>1. \A j : Done(j)' <=> Done(j)
    BY <1>2 DEF Done
  <2>2. \A j \in 1..created : j # None
    BY DEF None
  <2>3. pc'[0] = "forget" <=> pc[0] = "forget"
    BY <1>1, <1>2 DEF l
  <2>4. pc[0] = "forget" => item'[0] = item[0]
    BY <1>1, <1>2
  <2> QED
    BY <1>2, <1>11, <2>1, <2>2, <2>3, <2>4 DEF IInv, Logged
<1>15. Pending'
  <2>1. ASSUME NEW j \in 1..created PROVE j \in Accepted' <=> j \in Accepted
    <3> USE DEF Accepted
    <3>1. j # None
      BY DEF None
    <3>2. CASE j # i
      <4>1. \A p \in Queues : OnQueue(j, p)' <=> OnQueue(j, p)
        BY <1>10, <3>2
      <4>2. \A u \in Threads : item'[u] = j <=> item[u] = j
        BY <1>1, <1>2, <3>1, <3>2 DEF i
      <4>3. Present(j)' <=> Present(j)
        BY <1>11, <3>1
      <4>4. item[0] = j => pc'[0] = pc[0]
        BY <1>1, <1>2, <3>2 DEF i
      <4> QED
        BY <1>2, <4>1, <4>2, <4>3, <4>4
    <3>3. CASE j = i /\ t = Main
      <4>1. q = 0 /\ onework[i] # <<>>
        BY <1>1, <3>3 DEF IInv, WorkLeft, q, i
      <4>2. /\ \A p \in Queues : ~OnQueue(i, p)
            /\ \A u \in Threads \ {t} : item[u] # i
        BY <1>1 DEF IInv, Unique, i, OnQueue
      <4> QED
        BY <1>2, <1>10, <3>3, <4>1, <4>2
    <3>4. CASE j = i /\ t # Main
      <4>1. j \in Accepted
        BY <1>1, <3>4 DEF i
      <4>2. q = 0 => onework[i] = <<>>
        BY <1>1, <3>4 DEF IInv, WorkLeft, q, i
      <4>3. Present(i)
        BY DEF Present, i
      <4> QED
        BY <1>1, <1>2, <1>10, <1>11, <3>1, <3>4, <4>1, <4>2, <4>3
    <3> QED
      BY <3>2, <3>3, <3>4
  <2>2. Accepted' = Accepted
    BY <1>2, <2>1 DEF Accepted
  <2>3. Dropping' <=> Dropping
    BY <1>1, <1>2 DEF Dropping, l
  <2> QED
    BY <1>2, <2>2, <2>3 DEF IInv, Pending
<1> QED
  BY <1>4, <1>5, <1>6, <1>7, <1>8, <1>9, <1>12, <1>13, <1>14, <1>15 DEF IInv

LEMMA DequeueUnlinkIInv ==
    ASSUME IInv, NEW q \in Queues, DequeueUnlink(q)
    PROVE  IInv'
<1> USE ThreadFacts
<1> DEFINE i == Head(list[q])
<1>1. /\ pc[q] = "unlink" /\ item[q] = None
      /\ list[q] \in Seq(Items) /\ seen[q] = list[q] /\ list[q] # <<>>
      /\ count[q] \in Nat /\ count[q] = Len(list[q]) /\ count[q] > 0
  <2>1. pc[q] = "unlink" /\ list[q] \in Seq(Items) /\ count[q] \in Nat
    BY DEF IInv, Types, DequeueUnlink, At
  <2>2. item[q] = None /\ seen[q] = list[q] /\ count[q] = Len(list[q]) /\ count[q] > 0
    BY <2>1 DEF IInv, Locked, CountTrue, Handed
  <2> QED
    BY <2>1, <2>2, ElementFacts
<1>2. /\ Tail(list[q]) \in Seq(Items) /\ i \in Items /\ i = list[q][1]
      /\ Len(Tail(list[q])) = Len(list[q]) - 1 /\ Len(list[q]) \in Nat
      /\ \A n \in 1..(Len(list[q]) - 1) : Tail(list[q])[n] = list[q][n + 1]
  BY <1>1, TailFacts
<1>3. /\ list' = [list EXCEPT ![q] = Tail(list[q])]
      /\ count' = [count EXCEPT ![q] = count[q] - 1]
      /\ qlock' = [qlock EXCEPT ![q] = FALSE]
      /\ item' = [item EXCEPT ![q] = i]
      /\ pc' = [pc EXCEPT ![q] = "item"]
      /\ UNCHANGED <<onework, created, counters, log, logopen, target, seen>>
  BY <1>1 DEF DequeueUnlink, Goto, SpinUnlock
<1> HIDE DEF i
<1>4. /\ pc'[q] = "item" /\ \A u \in Threads \ {q} : pc'[u] = pc[u]
      /\ item'[q] = i /\ \A u \in Threads \ {q} : item'[u] = item[u]
      /\ list'[q] = Tail(list[q]) /\ \A p \in Queues \ {q} : list'[p] = list[p]
      /\ count'[q] = count[q] - 1 /\ \A p \in Queues \ {q} : count'[p] = count[p]
      /\ \A p \in Queues \ {q} : qlock'[p] = qlock[p]
  BY <1>3 DEF IInv, Types
<1>5. \A p \in Queues : \A n \in 1..Len(list'[p]) :
        \/ p # q /\ n \in 1..Len(list[p]) /\ list'[p][n] = list[p][n]
        \/ p = q /\ n + 1 \in 1..Len(list[q]) /\ n \in Nat /\ n + 1 # 1
           /\ list'[p][n] = list[q][n + 1]
  <2> TAKE p \in Queues
  <2> TAKE n \in 1..Len(list'[p])
  <2>1. CASE p # q
    BY <1>4, <2>1
  <2>2. CASE p = q
    <3>1. n \in 1..(Len(list[q]) - 1)
      BY <1>2, <1>4, <2>2
    <3>2. Tail(list[q])[n] = list[q][n + 1]
      BY <1>2, <3>1
    <3>3. n + 1 \in 1..Len(list[q]) /\ n \in Nat /\ n + 1 # 1
      BY <1>2, <3>1
    <3> QED
      BY <1>4, <2>2, <3>2, <3>3
  <2> QED
    BY <2>1, <2>2
<1>6. Types'
  <2>1. list' \in [Queues -> Seq(Items)] /\ item' \in [Threads -> Items \cup {None}]
    BY <1>2, <1>3 DEF IInv, Types
  <2>2. count' \in [Queues -> Nat]
    <3>1. count[q] - 1 \in Nat
      BY <1>1
    <3>2. count \in [Queues -> Nat]
      BY DEF IInv, Types
    <3> QED
      BY <1>3, <3>1, <3>2
  <2>3. qlock' \in [Queues -> BOOLEAN]
    BY <1>3 DEF IInv, Types
  <2>4. /\ pc' \in [Threads -> TaskLabels \cup MainLabels \cup {"finish", "forget"}]
        /\ pc'[Main] \in MainLabels
        /\ \A p \in Queues : pc'[p] \in TaskLabels \/ (p = 0 /\ pc'[0] \in {"finish", "forget"})
    BY <1>3 DEF IInv, Types, TaskLabels
  <2> QED
    BY <1>3, <2>1, <2>2, <2>3, <2>4 DEF IInv, Types, counters
<1>7. Locked'
  <2>1. Holds(q, q)
    BY <1>1 DEF Holds
  <2>2. \A u \in Threads, p \in Queues : Holds(u, p)' => u # q /\ Holds(u, p)
    BY <1>3, <1>4 DEF Holds
  <2>3. \A u \in Threads, p \in Queues : Holds(u, p)' => p # q
    BY <2>1, <2>2 DEF IInv, Locked
  <2>4. /\ \A u \in Threads, p \in Queues : Holds(u, p)' => qlock'[p]
        /\ \A u, v \in Threads, p \in Queues : Holds(u, p)' /\ Holds(v, p)' => u = v
    BY <1>4, <2>2, <2>3 DEF IInv, Locked
  <2>5. ASSUME NEW u \in Threads, pc'[u] = "link" PROVE seen'[u] = list'[target'[u]]
    <3>1. u # q /\ pc[u] = "link" /\ Holds(u, target[u])
      BY <1>4, <2>5 DEF Holds
    <3>2. target[u] # q /\ target[u] \in Queues
      BY <2>1, <3>1 DEF IInv, Locked, Types
    <3> QED
      BY <1>3, <1>4, <3>1, <3>2 DEF IInv, Locked
  <2>6. ASSUME NEW p \in Queues, pc'[p] = "unlink" PROVE seen'[p] = list'[p]
    <3>1. p # q /\ pc[p] = "unlink"
      BY <1>4, <2>6
    <3> QED
      BY <1>3, <1>4, <3>1 DEF IInv, Locked
  <2> QED
    BY <2>4, <2>5, <2>6 DEF Locked
<1>8. CountTrue'
  BY <1>1, <1>2, <1>4 DEF IInv, CountTrue
<1>9. WakeDue'
  <2>1. \A p \in Queues : pc'[p] = "asleep" => p # q /\ pc[p] = "asleep" /\ count'[p] = count[p]
    BY <1>4
  <2>2. \A u \in Threads : pc[u] = "wake" \/ pc[u] = "unlock" => pc'[u] = pc[u] /\ target'[u] = target[u]
    BY <1>1, <1>3, <1>4
  <2> QED
    BY <2>1, <2>2 DEF IInv, WakeDue
<1>10. Handed'
  BY <1>2, <1>4 DEF IInv, Handed
<1>11. /\ \A p \in Queues : \A n \in 1..Len(list'[p]) : list'[p][n] # i
       /\ \A u \in Threads : item[u] # i
  <2>1. 1 \in 1..Len(list[q])
    BY <1>1
  <2>2. \A p \in Queues : \A n \in 1..Len(list[p]) : list[p][n] = i => p = q /\ n = 1
    BY <1>2, <2>1 DEF IInv, Unique
  <2> QED
    BY <1>2, <1>5, <2>1, <2>2 DEF IInv, Unique
<1>12. Unique'
  <2>1. \A p, r \in Queues : \A m \in 1..Len(list'[p]), n \in 1..Len(list'[r]) :
          list'[p][m] = list'[r][n] => p = r /\ m = n
    <3> TAKE p, r \in Queues
    <3> TAKE m \in 1..Len(list'[p]), n \in 1..Len(list'[r])
    <3>1. CASE p = q
      <4>1. m + 1 \in 1..Len(list[q]) /\ m \in Nat /\ list'[p][m] = list[q][m + 1]
        BY <1>5, <3>1
      <4>2. CASE r = q
        <5>1. n + 1 \in 1..Len(list[q]) /\ n \in Nat /\ list'[r][n] = list[q][n + 1]
          BY <1>5, <4>2
        <5>2. \A k, h \in 1..Len(list[q]) : list[q][k] = list[q][h] => k = h
          BY DEF IInv, Unique
        <5>3. list[q][m + 1] = list[q][n + 1] => m + 1 = n + 1
          BY <4>1, <5>1, <5>2
        <5> QED
          BY <3>1, <4>1, <4>2, <5>1, <5>3
      <4>3. CASE r # q
        <5>1. n \in 1..Len(list[r]) /\ list'[r][n] = list[r][n]
          BY <1>5, <4>3
        <5>2. \A k \in 1..Len(list[q]), h \in 1..Len(list[r]) : list[q][k] # list[r][h]
          BY <4>3 DEF IInv, Unique
        <5> QED
          BY <4>1, <5>1, <5>2
      <4> QED
        BY <4>2, <4>3
    <3>2. CASE p # q
      BY <1>5, <3>2 DEF IInv, Unique
    <3> QED
      BY <3>1, <3>2
  <2>2. \A u \in Threads, p \in Queues : \A n \in 1..Len(list'[p]) : item'[u] # list'[p][n]
    BY <1>4, <1>5, <1>11 DEF IInv, Unique
  <2>3. \A u, v \in Threads : item'[u] = item'[v] /\ item'[u] # None => u = v
    BY <1>4, <1>11 DEF IInv, Unique
  <2> QED
    BY <2>1, <2>2, <2>3 DEF Unique
<1>13. \A j : \A p \in Queues : OnQueue(j, p) <=> (OnQueue(j, p)' \/ (p = q /\ j = i))
  <2> TAKE j
  <2> TAKE p \in Queues
  <2>1. CASE p # q
    BY <1>4, <2>1 DEF OnQueue
  <2>2. CASE p = q
    <3>1. ASSUME OnQueue(j, q), j # i PROVE OnQueue(j, q)'
      <4>1. PICK n \in 1..Len(list[q]) : list[q][n] = j
        BY <3>1 DEF OnQueue
      <4>2. n # 1
        BY <1>2, <3>1, <4>1
      <4>3. n - 1 \in 1..(Len(list[q]) - 1) /\ list'[q][n - 1] = list[q][(n - 1) + 1]
        BY <1>2, <1>4, <4>1, <4>2
      <4>4. list'[q][n - 1] = j /\ n - 1 \in 1..Len(list'[q])
        BY <1>2, <1>4, <4>1, <4>3
      <4> QED
        BY <4>4 DEF OnQueue
    <3>2. ASSUME OnQueue(j, q)' PROVE OnQueue(j, q)
      BY <1>5, <3>2 DEF OnQueue
    <3>3. OnQueue(i, q)
      BY <1>1, <1>2 DEF OnQueue
    <3> QED
      BY <2>2, <3>1, <3>2, <3>3
  <2> QED
    BY <2>1, <2>2
<1>14. \A j : j # None => (Present(j)' <=> Present(j))
  <2> SUFFICES ASSUME NEW j, j # None PROVE Present(j)' <=> Present(j)
    OBVIOUS
  <2>1. (\E u \in Threads : item'[u] = j) <=> j = i \/ \E u \in Threads : item[u] = j
    BY <1>1, <1>4
  <2>2. (\E p \in Queues : OnQueue(j, p)) <=> j = i \/ \E p \in Queues : OnQueue(j, p)'
    BY <1>13
  <2> QED
    BY <2>1, <2>2 DEF Present
<1>15. WorkLeft'
  <2>1. \A p \in Queues \ {0} : \A n \in 1..Len(list'[p]) : onework[list'[p][n]] # <<>>
    BY <1>5 DEF IInv, WorkLeft
  <2>2. q # 0 => onework[i] # <<>>
    BY <1>1, <1>2 DEF IInv, WorkLeft
  <2> QED
    BY <1>3, <1>4, <2>1, <2>2 DEF IInv, WorkLeft
<1>16. Made'
  <2>1. i <= created
    BY <1>1, <1>2 DEF IInv, Made
  <2>2. \A p \in Queues : \A n \in 1..Len(list'[p]) : list'[p][n] <= created
    BY <1>5 DEF IInv, Made
  <2> QED
    BY <1>3, <1>4, <2>1, <2>2 DEF IInv, Made
<1>17. Logged'
  <2>1. \A j : Done(j)' <=> Done(j)
    BY <1>3 DEF Done
  <2>2. \A j \in 1..created : j # None
    BY DEF None
  <2>3. /\ pc'[0] = "forget" <=> pc[0] = "forget"
        /\ pc[0] = "forget" => item'[0] = item[0]
    BY <1>1, <1>4
  <2> QED
    BY <1>3, <1>14, <2>1, <2>2, <2>3 DEF IInv, Logged
<1>18. Pending'
  <2>1. ASSUME NEW j \in 1..created PROVE j \in Accepted' <=> j \in Accepted
    <3> USE DEF Accepted
    <3>1. j # None
      BY DEF None
    <3>2. CASE j # i
      BY <1>1, <1>3, <1>4, <1>13, <1>14, <3>1, <3>2
    <3>3. CASE j = i /\ q # 0
      BY <1>3, <1>4, <1>13, <3>3
    <3>4. CASE j = i /\ q = 0
      <4>1. ASSUME NEW p \in Queues \ {0} PROVE ~OnQueue(j, p)
        <5>1. ~OnQueue(j, p)'
          BY <1>11, <3>4 DEF OnQueue
        <5> QED
          BY <1>13, <3>4, <5>1
      <4> QED
        BY <1>1, <1>3, <1>4, <1>11, <1>13, <1>14, <3>1, <3>4, <4>1
    <3> QED
      BY <3>2, <3>3, <3>4
  <2>2. Accepted' = Accepted
    BY <1>3, <2>1 DEF Accepted
  <2>3. Dropping' <=> Dropping
    BY <1>1, <1>3, <1>4 DEF Dropping
  <2> QED
    BY <1>3, <2>2, <2>3 DEF IInv, Pending, counters
<1> QED
  BY <1>6, <1>7, <1>8, <1>9, <1>10, <1>12, <1>15, <1>16, <1>17, <1>18 DEF IInv

(***************************************************************************)
(* Steps that decide about an item                                         *)
(***************************************************************************)

LEMMA KeepQueues ==
    ASSUME IInv, UNCHANGED <<list, count, qlock, seen>>,
           NEW t \in Threads, NEW l, Goto(t, l),
           pc[t] \in {"item", "finish", "forget", "generate"},
           l \in {"enqueue", "finish", "forget", "poll"},
           \A u \in Threads \ {t} : target'[u] = target[u]
    PROVE  Locked' /\ CountTrue' /\ WakeDue'
<1> USE ThreadFacts
<1>1. pc'[t] = l /\ \A u \in Threads \ {t} : pc'[u] = pc[u]
  BY DEF IInv, Types, Goto
<1>2. Locked'
  <2>1. \A u \in Threads, q \in Queues : Holds(u, q)' => Holds(u, q)
    BY <1>1 DEF Holds
  <2>2. /\ \A u \in Threads : pc'[u] = "link" => pc[u] = "link" /\ target'[u] = target[u]
        /\ \A q \in Queues : pc'[q] = "unlink" => pc[q] = "unlink"
    BY <1>1
  <2>3. \A u \in Threads, q \in Queues : Holds(u, q)' => Holds(u, q) /\ qlock'[q]
    BY <2>1 DEF IInv, Locked
  <2> QED
    BY <2>2, <2>3, KeepLocked
<1>3. CountTrue'
  BY <1>1 DEF IInv, CountTrue
<1>4. WakeDue'
  <2>1. \A q \in Queues : pc'[q] = "asleep" => pc[q] = "asleep"
    BY <1>1
  <2>2. \A u \in Threads : pc[u] = "wake" \/ pc[u] = "unlock" => pc'[u] = pc[u] /\ target'[u] = target[u]
    BY <1>1
  <2> QED
    BY <2>1, <2>2 DEF IInv, WakeDue
<1> QED
  BY <1>2, <1>3, <1>4

(* The counters and labels after a step of thread t to label l.            *)
LEMMA LabelTypes ==
    ASSUME IInv, NEW t \in Threads, NEW l, Goto(t, l),
           \/ l = "enqueue"
           \/ t = 0 /\ l \in {"finish", "forget", "poll"}
    PROVE  /\ pc' \in [Threads -> TaskLabels \cup MainLabels \cup {"finish", "forget"}]
           /\ pc'[Main] \in MainLabels
           /\ \A q \in Queues : pc'[q] \in TaskLabels \/ (q = 0 /\ pc'[0] \in {"finish", "forget"})
  BY ThreadFacts DEF IInv, Types, Goto, TaskLabels, MainLabels, EnqueueLabels

LEMMA AcceptIInv ==
    ASSUME IInv, Accept
    PROVE  IInv'
<1> USE ThreadFacts
<1> DEFINE i == item[0]
<1>1. pc[0] = "item" /\ i \in Items /\ onework[i] \in Seq(1..NWORKERS) /\ onework[i] # <<>>
  BY DEF IInv, Types, Handed, Accept, At
<1>2. Head(onework[i]) \in 1..NWORKERS
  BY <1>1, TailFacts
<1>3. /\ pc' = [pc EXCEPT ![0] = "enqueue"]
      /\ item' = item
      /\ target' = [target EXCEPT ![0] = Head(onework[i])]
      /\ pending_count' = pending_count + 1
      /\ UNCHANGED <<list, count, qlock, onework, created, dropped_count, log, logopen, seen>>
  <2>1. [item EXCEPT ![0] = item[0]] = item
    BY DEF IInv, Types
  <2> QED
    BY <2>1 DEF Accept, CallEnqueue, Goto, queues
<1>4. /\ pc'[0] = "enqueue" /\ \A u \in Threads \ {0} : pc'[u] = pc[u]
      /\ target'[0] = Head(onework[i]) /\ \A u \in Threads \ {0} : target'[u] = target[u]
  BY <1>3 DEF IInv, Types
<1>5. Types'
  <2>4. Head(onework[i]) \in Queues
    BY <1>2, PatternsAssumption DEF Queues
  <2>1. target' \in [Threads -> Queues]
    BY <1>3, <2>4 DEF IInv, Types
  <2>2. pending_count' \in Int
    BY <1>3 DEF IInv, Types
  <2>3. Goto(0, "enqueue")
    BY <1>3 DEF Goto
  <2> QED
    BY <1>3, <2>1, <2>2, <2>3, LabelTypes DEF IInv, Types
<1>6. Locked' /\ CountTrue' /\ WakeDue'
  BY <1>1, <1>3, <1>4, KeepQueues DEF Goto
<1>7. Handed' /\ Unique' /\ Made'
  BY <1>1, <1>3, <1>4 DEF IInv, Handed, Unique, Made
<1>8. WorkLeft'
  <2>1. target'[0] # 0
    BY <1>2, <1>4, PatternsAssumption
  <2> QED
    BY <1>1, <1>3, <1>4, <2>1 DEF IInv, WorkLeft
<1>9. (\A j : Present(j)' <=> Present(j)) /\ (\A j, q : OnQueue(j, q)' <=> OnQueue(j, q))
      /\ (\A j : Done(j)' <=> Done(j))
  BY <1>3 DEF Present, OnQueue, Done
<1>10. Logged'
  BY <1>1, <1>3, <1>4, <1>9 DEF IInv, Logged
<1>11. Pending'
  <2>1. i \in 1..created
    BY <1>1 DEF IInv, Made, Types, Items
  <2>2. i \notin Accepted
    BY <1>1 DEF IInv, Unique, Accepted, OnQueue
  <2>3. Accepted' = Accepted \cup {i}
    BY <1>1, <1>3, <1>4, <1>9, <2>1 DEF Accepted
  <2>4. Cardinality(Accepted') = Cardinality(Accepted) + 1
    BY <2>2, <2>3, AcceptedFinite, FS_AddElement DEF IInv, Types
  <2>7. Cardinality(Accepted) \in Nat
    BY AcceptedFinite DEF IInv, Types
  <2>5. pending_count = Cardinality(Accepted) /\ ~Dropping'
    BY <1>1, <1>4, <2>7 DEF IInv, Pending, Dropping
  <2>6. pending_count + 1 <= kMaxTransInFlight
    BY LimitsAssumption DEF Accept, TooBusy, IInv, Types
  <2> QED
    BY <1>3, <2>4, <2>5, <2>6, <2>7 DEF Pending
<1> QED
  BY <1>5, <1>6, <1>7, <1>8, <1>10, <1>11 DEF IInv

LEMMA DropIInv ==
    ASSUME IInv, Drop
    PROVE  IInv'
<1> USE ThreadFacts
<1>1. pc[0] = "item" /\ item[0] \in Items /\ onework[item[0]] # <<>>
  BY DEF IInv, Types, Handed, Drop, At
<1>2. /\ Goto(0, "finish") /\ pending_count' = pending_count + 1
      /\ dropped_count' = dropped_count + 1
      /\ UNCHANGED <<list, count, qlock, onework, created, log, logopen, item, target, seen>>
  BY DEF Drop, queues
<1>3. pc'[0] = "finish" /\ \A u \in Threads \ {0} : pc'[u] = pc[u]
  BY <1>2 DEF IInv, Types, Goto
<1>4. Types'
  <2>1. pending_count' \in Int /\ dropped_count' \in Nat
    BY <1>2 DEF IInv, Types
  <2> QED
    BY <1>2, <2>1, LabelTypes DEF IInv, Types
<1>5. Locked' /\ CountTrue' /\ WakeDue'
  BY <1>1, <1>2, KeepQueues
<1>6. Handed' /\ Unique' /\ Made' /\ WorkLeft'
  BY <1>1, <1>2, <1>3 DEF IInv, Handed, Unique, Made, WorkLeft
<1>7. (\A j : Present(j)' <=> Present(j)) /\ (\A j, q : OnQueue(j, q)' <=> OnQueue(j, q))
      /\ (\A j : Done(j)' <=> Done(j))
  BY <1>2 DEF Present, OnQueue, Done
<1>8. Logged'
  BY <1>1, <1>2, <1>3, <1>7 DEF IInv, Logged
<1>9. Pending'
  <2>1. Accepted' = Accepted
    BY <1>1, <1>2, <1>3, <1>7 DEF Accepted
  <2>2. ~Dropping /\ Dropping'
    BY <1>1, <1>2, <1>3 DEF Dropping
  <2> QED
    BY <1>2, <2>1, <2>2, AcceptedFinite DEF IInv, Pending, Types
<1> QED
  BY <1>4, <1>5, <1>6, <1>8, <1>9 DEF IInv

LEMMA CompleteIInv ==
    ASSUME IInv, Complete
    PROVE  IInv'
<1> USE ThreadFacts
<1>1. pc[0] = "item" /\ item[0] \in Items /\ onework[item[0]] = <<>>
  BY DEF IInv, Types, Handed, Complete, At
<1>2. /\ Goto(0, "finish")
      /\ UNCHANGED <<list, count, qlock, onework, created, counters, log, logopen, item, target, seen>>
  BY DEF Complete, queues
<1>3. pc'[0] = "finish" /\ \A u \in Threads \ {0} : pc'[u] = pc[u]
  BY <1>2 DEF IInv, Types, Goto
<1>4. Types'
  BY <1>2, LabelTypes DEF IInv, Types, counters
<1>5. Locked' /\ CountTrue' /\ WakeDue'
  BY <1>1, <1>2, KeepQueues
<1>6. Handed' /\ Unique' /\ Made' /\ WorkLeft'
  BY <1>1, <1>2, <1>3 DEF IInv, Handed, Unique, Made, WorkLeft
<1>7. (\A j : Present(j)' <=> Present(j)) /\ (\A j, q : OnQueue(j, q)' <=> OnQueue(j, q))
      /\ (\A j : Done(j)' <=> Done(j))
  BY <1>2 DEF Present, OnQueue, Done
<1>8. Logged'
  BY <1>1, <1>2, <1>3, <1>7 DEF IInv, Logged
<1>9. Pending'
  <2>1. Accepted' = Accepted
    BY <1>1, <1>2, <1>3, <1>7 DEF Accepted
  <2>2. ~Dropping /\ ~Dropping'
    BY <1>1, <1>2, <1>3 DEF Dropping
  <2> QED
    BY <1>2, <2>1, <2>2, AcceptedFinite DEF IInv, Pending, Types, counters
<1> QED
  BY <1>4, <1>5, <1>6, <1>8, <1>9 DEF IInv

LEMMA WriteLogIInv ==
    ASSUME IInv, WriteLog
    PROVE  IInv'
<1> USE ThreadFacts
<1> DEFINE i == item[0]
<1>1. pc[0] = "finish" /\ i \in Items /\ log \in Seq(Items) /\ i \in 1..created
  BY DEF IInv, Types, Handed, Made, Items, WriteLog, At
<1>2. /\ Goto(0, "forget") /\ log' = (IF logopen THEN Append(log, i) ELSE log)
      /\ UNCHANGED <<list, count, qlock, onework, created, counters, logopen, item, target, seen>>
  BY DEF WriteLog, queues
<1>3. pc'[0] = "forget" /\ \A u \in Threads \ {0} : pc'[u] = pc[u]
  BY <1>2 DEF IInv, Types, Goto
<1>4. /\ Append(log, i) \in Seq(Items) /\ Len(Append(log, i)) = Len(log) + 1 /\ Len(log) \in Nat
      /\ \A n \in 1..Len(log) : Append(log, i)[n] = log[n]
      /\ Append(log, i)[Len(log) + 1] = i
  BY <1>1, AppendFacts
<1>5. Types'
  <2>1. log' \in Seq(Items)
    BY <1>1, <1>2, <1>4
  <2> QED
    BY <1>2, <2>1, LabelTypes DEF IInv, Types, counters
<1>6. Locked' /\ CountTrue' /\ WakeDue'
  BY <1>1, <1>2, KeepQueues
<1>7. Handed' /\ Unique' /\ WorkLeft'
  BY <1>1, <1>2, <1>3 DEF IInv, Handed, Unique, WorkLeft
<1>8. \A n \in 1..Len(log') : \/ n \in 1..Len(log) /\ log'[n] = log[n]
                              \/ logopen /\ n = Len(log) + 1 /\ log'[n] = i
  BY <1>2, <1>4
<1>9. Made'
  <2>1. \A n \in 1..Len(log') : log'[n] <= created
    BY <1>1, <1>8 DEF IInv, Made
  <2> QED
    BY <1>2, <2>1 DEF IInv, Made
<1>10. (\A j : Present(j)' <=> Present(j)) /\ (\A j, q : OnQueue(j, q)' <=> OnQueue(j, q))
  BY <1>2 DEF Present, OnQueue
<1>11. Logged'
  <2> SUFFICES ASSUME logopen PROVE Logged'
    BY <1>2 DEF Logged
  <2>1. \A j : Done(j)' <=> Done(j) \/ j = i
    <3> TAKE j
    <3>1. Done(j)' => Done(j) \/ j = i
      BY <1>8 DEF Done
    <3>2. Done(j) => Done(j)'
      BY <1>2, <1>4 DEF Done
    <3>3. j = i => Done(j)'
      BY <1>2, <1>4 DEF Done
    <3> QED
      BY <3>1, <3>2, <3>3
  <2>2. Present(i) /\ ~Done(i)
    BY <1>1 DEF IInv, Logged, Present
  <2>3. \A m, n \in 1..Len(log') : log'[m] = log'[n] => m = n
    <3>1. \A n \in 1..Len(log) : log[n] # i
      BY <2>2 DEF Done
    <3> QED
      BY <1>8, <3>1 DEF IInv, Logged
  <2> QED
    BY <1>1, <1>2, <1>3, <1>10, <2>1, <2>2, <2>3 DEF IInv, Logged
<1>12. Pending'
  <2>1. Accepted' = Accepted
    BY <1>1, <1>2, <1>3, <1>10 DEF Accepted
  <2>2. Dropping' <=> Dropping
    BY <1>1, <1>2, <1>3 DEF Dropping
  <2> QED
    BY <1>2, <2>1, <2>2 DEF IInv, Pending, counters
<1> QED
  BY <1>5, <1>6, <1>7, <1>9, <1>11, <1>12 DEF IInv

LEMMA ForgetIInv ==
    ASSUME IInv, Forget
    PROVE  IInv'
<1> USE ThreadFacts
<1> DEFINE i == item[0]
<1>1. pc[0] = "forget" /\ i \in Items /\ i \in 1..created
  BY DEF IInv, Types, Handed, Made, Items, Forget, At
<1>2. /\ Goto(0, "poll") /\ pending_count' = pending_count - 1
      /\ item' = [item EXCEPT ![0] = None]
      /\ UNCHANGED <<list, count, qlock, onework, created, dropped_count, log, logopen, target, seen>>
  BY DEF Forget, queues
<1>3. /\ pc'[0] = "poll" /\ \A u \in Threads \ {0} : pc'[u] = pc[u]
      /\ item'[0] = None /\ \A u \in Threads \ {0} : item'[u] = item[u]
  BY <1>2 DEF IInv, Types, Goto
<1>4. Types'
  <2>1. item' \in [Threads -> Items \cup {None}]
    BY <1>2 DEF IInv, Types
  <2>2. pending_count' \in Int
    BY <1>2 DEF IInv, Types
  <2> QED
    BY <1>2, <2>1, <2>2, LabelTypes DEF IInv, Types
<1>5. Locked' /\ CountTrue' /\ WakeDue'
  BY <1>1, <1>2, KeepQueues
<1>6. Handed' /\ WorkLeft'
  BY <1>1, <1>2, <1>3 DEF IInv, Handed, WorkLeft
<1>7. Unique'
  <2>1. \A q \in Queues : \A n \in 1..Len(list[q]) : list[q][n] # None
    BY ElementFacts DEF IInv, Types
  <2> QED
    BY <1>2, <1>3, <2>1 DEF IInv, Unique
<1>8. Made'
  <2>1. 0 <= created
    BY DEF IInv, Types
  <2> QED
    BY <1>2, <1>3, <2>1 DEF IInv, Made, None
<1>9. \A j, q : OnQueue(j, q)' <=> OnQueue(j, q)
  BY <1>2 DEF OnQueue
<1>10. /\ \A q \in Queues : ~OnQueue(i, q)
       /\ \A u \in Threads \ {0} : item[u] # i
  BY <1>1 DEF IInv, Unique, OnQueue
<1>11. \A j : j # None => (Present(j)' <=> Present(j) /\ j # i)
  BY <1>3, <1>9, <1>10 DEF Present
<1>12. Logged'
  <2>1. \A j : Done(j)' <=> Done(j)
    BY <1>2 DEF Done
  <2>2. \A j \in 1..created : j # None
    BY DEF None
  <2> QED
    BY <1>1, <1>2, <1>3, <1>11, <2>1, <2>2 DEF IInv, Logged
<1>13. Pending'
  <2>1. ~Dropping'
    BY <1>3 DEF Dropping
  <2>2. Accepted' = Accepted \ {i}
    <3>1. ASSUME NEW j \in 1..created PROVE j \in Accepted' <=> j \in Accepted /\ j # i
      <4>1. j # None
        BY DEF None
      <4> QED
        BY <1>1, <1>2, <1>3, <1>9, <1>10, <1>11, <4>1 DEF Accepted
    <3> QED
      BY <1>2, <3>1 DEF Accepted
  <2>3. i \in Accepted <=> ~Dropping
    BY <1>1, <1>10 DEF Accepted, Dropping, Present
  <2>4. Cardinality(Accepted') = IF Dropping THEN Cardinality(Accepted) ELSE Cardinality(Accepted) - 1
    BY <2>2, <2>3, AcceptedFinite, FS_RemoveElement DEF IInv, Types
  <2> QED
    <3>1. Cardinality(Accepted) \in Nat
      BY AcceptedFinite DEF IInv, Types
    <3> QED
      BY <1>2, <2>1, <2>4, <3>1, LimitsAssumption DEF IInv, Pending
<1> QED
  BY <1>4, <1>5, <1>6, <1>7, <1>8, <1>12, <1>13 DEF IInv

(* Items are in 1..created wherever they are.                              *)
LEMMA MadeFacts ==
    ASSUME IInv
    PROVE  /\ created \in Nat /\ created <= N
           /\ \A j \in 1..created : j \in Items /\ j # None
           /\ \A q \in Queues : \A n \in 1..Len(list[q]) : list[q][n] \in 1..created
           /\ \A u \in Threads : item[u] = None \/ item[u] \in 1..created
           /\ \A n \in 1..Len(log) : log[n] \in 1..created
<1>1. created \in Nat /\ created <= N
  BY LimitsAssumption DEF IInv, Types
<1>2. \A j \in 1..created : j \in Items /\ j # None
  BY <1>1, LimitsAssumption DEF Items, None
<1>3. \A j \in Items : j <= created => j \in 1..created
  BY <1>1, LimitsAssumption DEF Items
<1>4. /\ \A q \in Queues : \A n \in 1..Len(list[q]) : list[q][n] \in Items
      /\ \A u \in Threads : item[u] = None \/ item[u] \in Items
      /\ \A n \in 1..Len(log) : log[n] \in Items
  BY ElementFacts DEF IInv, Types
<1> QED
  BY <1>1, <1>2, <1>3, <1>4 DEF IInv, Made

LEMMA WorkIInv ==
    ASSUME IInv, NEW q \in Queues, Work(q)
    PROVE  IInv'
<1> USE ThreadFacts
<1> DEFINE i == item[q]
           w == Tail(onework[i])
<1>1. /\ q # 0 /\ pc[q] = "item" /\ i \in Items /\ i \in 1..created
      /\ onework[i] \in Seq(1..NWORKERS) /\ onework[i] # <<>>
  BY DEF IInv, Types, Handed, WorkLeft, Made, Items, Work, At
<1>2. w \in Seq(1..NWORKERS) /\ NextQueue(w) \in Queues /\ (NextQueue(w) = 0 <=> w = <<>>)
  <2>1. w \in Seq(1..NWORKERS)
    BY <1>1, TailFacts
  <2>2. w # <<>> => Head(w) \in 1..NWORKERS
    BY <2>1, TailFacts
  <2>3. \A n \in 1..NWORKERS : n \in Queues /\ n # 0
    BY PatternsAssumption DEF Queues
  <2> QED
    BY <2>1, <2>2, <2>3 DEF NextQueue
<1>3. /\ pc' = [pc EXCEPT ![q] = "enqueue"]
      /\ item' = item
      /\ target' = [target EXCEPT ![q] = NextQueue(w)]
      /\ onework' = [onework EXCEPT ![i] = w]
      /\ UNCHANGED <<list, count, qlock, created, counters, log, logopen, seen>>
  <2>1. [item EXCEPT ![q] = item[q]] = item
    BY DEF IInv, Types
  <2> QED
    BY <2>1 DEF Work, CallEnqueue, Goto, queues
<1> HIDE DEF i, w
<1>4. /\ pc'[q] = "enqueue" /\ \A u \in Threads \ {q} : pc'[u] = pc[u]
      /\ target'[q] = NextQueue(w) /\ \A u \in Threads \ {q} : target'[u] = target[u]
      /\ onework'[i] = w /\ \A j \in Items \ {i} : onework'[j] = onework[j]
  BY <1>1, <1>3 DEF IInv, Types
<1>5. Types'
  <2>1. target' \in [Threads -> Queues] /\ onework' \in [Items -> Seq(1..NWORKERS)]
    BY <1>1, <1>2, <1>3 DEF IInv, Types
  <2>2. Goto(q, "enqueue")
    BY <1>3 DEF Goto
  <2> QED
    BY <1>3, <2>1, <2>2, LabelTypes DEF IInv, Types, counters
<1>6. Locked' /\ CountTrue' /\ WakeDue'
  BY <1>1, <1>3, <1>4, KeepQueues DEF Goto
<1>7. Handed' /\ Unique' /\ Made'
  BY <1>1, <1>3, <1>4 DEF IInv, Handed, Unique, Made
<1>8. /\ \A p \in Queues : ~OnQueue(i, p)
      /\ \A u \in Threads \ {q} : item[u] # i
  BY <1>1 DEF IInv, Unique, OnQueue, i
<1>9. WorkLeft'
  <2>1. ASSUME NEW p \in Queues, NEW n \in 1..Len(list[p])
        PROVE  onework'[list[p][n]] = onework[list[p][n]]
    <3>1. list[p][n] \in Items
      BY ElementFacts DEF IInv, Types
    <3>2. list[p][n] # i
      BY <1>8 DEF OnQueue
    <3> QED
      BY <1>4, <3>1, <3>2
  <2>2. ASSUME NEW u \in Threads, u # q, item[u] # None
        PROVE  onework'[item[u]] = onework[item[u]]
    <3>1. item[u] \in Items
      BY <2>2 DEF IInv, Types
    <3> QED
      BY <1>4, <1>8, <2>2, <3>1
  <2>3. \A u \in Threads : pc[u] \in {"item", "enqueue", "link"} => item[u] # None
    BY DEF IInv, Handed
  <2>4. \A p \in Queues \ {0} : \A n \in 1..Len(list'[p]) : onework'[list'[p][n]] # <<>>
    BY <1>3, <2>1 DEF IInv, WorkLeft
  <2>5. ASSUME NEW p \in Queues \ {0}
        PROVE  /\ pc'[p] = "item" => onework'[item'[p]] # <<>>
               /\ pc'[p] \in {"enqueue", "link"} => (target'[p] = 0 <=> onework'[item'[p]] = <<>>)
    <3>1. CASE p = q
      BY <1>2, <1>3, <1>4, <3>1 DEF i
    <3>2. CASE p # q
      BY <1>3, <1>4, <2>2, <2>3, <3>2 DEF IInv, WorkLeft
    <3> QED
      BY <3>1, <3>2
  <2>6. /\ pc'[0] \in {"enqueue", "link"} => target'[0] # 0 /\ onework'[item'[0]] # <<>>
        /\ pc'[Main] \in {"enqueue", "link"} => target'[Main] = 0 /\ onework'[item'[Main]] # <<>>
    BY <1>1, <1>3, <1>4, <2>2, <2>3 DEF IInv, WorkLeft
  <2> QED
    BY <2>4, <2>5, <2>6 DEF WorkLeft
<1>10. (\A j : Present(j)' <=> Present(j)) /\ (\A j, p : OnQueue(j, p)' <=> OnQueue(j, p))
       /\ (\A j : Done(j)' <=> Done(j))
  BY <1>3 DEF Present, OnQueue, Done
<1>11. Logged'
  BY <1>1, <1>3, <1>4, <1>10 DEF IInv, Logged
<1>12. Pending'
  <2>1. ASSUME NEW j \in 1..created PROVE j \in Accepted' <=> j \in Accepted
    <3>1. CASE j = i
      BY <1>1, <1>3, <3>1 DEF Accepted, i
    <3>2. CASE j # i
      <4>1. j \in Items
        BY MadeFacts
      <4> QED
        BY <1>1, <1>3, <1>4, <1>10, <3>2, <4>1 DEF Accepted
    <3> QED
      BY <3>1, <3>2
  <2>2. Accepted' = Accepted
    BY <1>3, <2>1 DEF Accepted
  <2>3. Dropping' <=> Dropping
    <3>1. pc[0] \in {"finish", "forget"} => item[0] \in Items
      BY DEF IInv, Types, Handed
    <3> QED
      BY <1>1, <1>3, <1>4, <1>8, <3>1 DEF Dropping
  <2> QED
    BY <1>3, <2>2, <2>3 DEF IInv, Pending, counters
<1> QED
  BY <1>5, <1>6, <1>7, <1>9, <1>11, <1>12 DEF IInv

LEMMA CreateWorkIInv ==
    ASSUME IInv, NEW w \in Patterns, CreateWork(w)
    PROVE  IInv'
<1> USE ThreadFacts
<1> DEFINE i == created + 1
<1>1. /\ pc[Main] = "generate" /\ item[Main] = None
      /\ created \in Nat /\ i \in Items /\ i \in Nat
      /\ w \in Seq(1..NWORKERS) /\ w # <<>>
  <2>1. pc[Main] = "generate" /\ item[Main] = None /\ created < N
    BY DEF IInv, Handed, CreateWork, At
  <2>2. created \in Nat /\ i \in Items /\ i \in Nat
    BY <2>1, MadeFacts, LimitsAssumption DEF Items
  <2> QED
    BY <2>1, <2>2, PatternsAssumption
<1>2. /\ Goto(Main, "enqueue")
      /\ item' = [item EXCEPT ![Main] = i]
      /\ target' = [target EXCEPT ![Main] = 0]
      /\ onework' = [onework EXCEPT ![i] = w]
      /\ created' = i
      /\ UNCHANGED <<list, count, qlock, counters, log, logopen, seen>>
  BY DEF CreateWork, CallEnqueue, queues
<1>3. \A j \in 1..created : j # i /\ j # None /\ j \in Items
  <2>1. \A j \in 1..created : j # i
    BY <1>1
  <2> QED
    BY <2>1, MadeFacts
<1>4. \A j : j \in 1..i <=> j \in 1..created \/ j = i
  BY <1>1
<1> HIDE DEF i
<1>5. /\ pc'[Main] = "enqueue" /\ \A u \in Threads \ {Main} : pc'[u] = pc[u]
      /\ item'[Main] = i /\ \A u \in Threads \ {Main} : item'[u] = item[u]
      /\ target'[Main] = 0 /\ \A u \in Threads \ {Main} : target'[u] = target[u]
      /\ onework'[i] = w /\ \A j \in Items \ {i} : onework'[j] = onework[j]
  BY <1>1, <1>2 DEF IInv, Types, Goto
<1>6. /\ \A q \in Queues : \A n \in 1..Len(list[q]) : list[q][n] \in 1..created
      /\ \A u \in Threads : item[u] = None \/ item[u] \in 1..created
      /\ \A n \in 1..Len(log) : log[n] \in 1..created
  BY MadeFacts
<1>7. Types'
  <2>1. /\ item' \in [Threads -> Items \cup {None}] /\ target' \in [Threads -> Queues]
        /\ onework' \in [Items -> Seq(1..NWORKERS)]
    BY <1>1, <1>2 DEF IInv, Types
  <2>2. created' \in 0..N
    BY <1>1, <1>2, LimitsAssumption DEF Items
  <2> QED
    BY <1>2, <2>1, <2>2, LabelTypes DEF IInv, Types, counters
<1>8. Locked' /\ CountTrue' /\ WakeDue'
  BY <1>1, <1>2, <1>5, KeepQueues
<1>9. Handed'
  BY <1>1, <1>5 DEF IInv, Handed
<1>10. Unique'
  BY <1>2, <1>3, <1>5, <1>6 DEF IInv, Unique
<1>11. Made'
  <2>1. \A j \in 1..created : j <= i
    BY <1>1 DEF i
  <2>2. i <= i /\ None <= i
    BY <1>1 DEF None
  <2> QED
    BY <1>2, <1>5, <1>6, <2>1, <2>2 DEF Made
<1>12. WorkLeft'
  <2>1. \A q \in Queues : \A n \in 1..Len(list[q]) : onework'[list[q][n]] = onework[list[q][n]]
    BY <1>3, <1>5, <1>6
  <2>2. \A u \in Threads \ {Main} : item[u] # None => onework'[item[u]] = onework[item[u]]
    BY <1>3, <1>5, <1>6
  <2>3. \A u \in Threads : pc[u] \in {"item", "enqueue", "link"} => item[u] # None
    BY DEF IInv, Handed
  <2>4. \A q \in Queues \ {0} : \A n \in 1..Len(list'[q]) : onework'[list'[q][n]] # <<>>
    BY <1>2, <2>1 DEF IInv, WorkLeft
  <2>5. \A q \in Queues \ {0} :
          /\ pc'[q] = "item" => onework'[item'[q]] # <<>>
          /\ pc'[q] \in {"enqueue", "link"} => (target'[q] = 0 <=> onework'[item'[q]] = <<>>)
    BY <1>5, <2>2, <2>3 DEF IInv, WorkLeft
  <2>6. /\ pc'[0] \in {"enqueue", "link"} => target'[0] # 0 /\ onework'[item'[0]] # <<>>
        /\ target'[Main] = 0 /\ onework'[item'[Main]] # <<>>
    BY <1>1, <1>5, <2>2, <2>3 DEF IInv, WorkLeft
  <2> QED
    BY <2>4, <2>5, <2>6 DEF WorkLeft
<1>13. \A j, q : OnQueue(j, q)' <=> OnQueue(j, q)
  BY <1>2 DEF OnQueue
<1>14. \A j : j # None => (Present(j)' <=> Present(j) \/ j = i)
  <2> SUFFICES ASSUME NEW j, j # None PROVE Present(j)' <=> Present(j) \/ j = i
    OBVIOUS
  <2>1. (\E u \in Threads : item'[u] = j) <=> j = i \/ \E u \in Threads : item[u] = j
    BY <1>1, <1>5
  <2> QED
    BY <1>13, <2>1, <1>2 DEF Present, OnQueue
<1>15. Logged'
  <2>1. \A j : Done(j)' <=> Done(j)
    BY <1>2 DEF Done
  <2>2. ~Done(i) /\ i # None
    BY <1>1, <1>3, <1>6 DEF Done
  <2>3. /\ pc'[0] = "forget" <=> pc[0] = "forget"
        /\ item'[0] = item[0]
    BY <1>5
  <2> QED
    BY <1>2, <1>3, <1>4, <1>14, <2>1, <2>2, <2>3 DEF IInv, Logged
<1>16. Pending'
  <2>1. ASSUME NEW j \in 1..created PROVE j \in Accepted' <=> j \in Accepted
    BY <1>2, <1>3, <1>4, <1>5, <1>13, <1>14 DEF Accepted
  <2>2. i \notin Accepted'
    <3> SUFFICES ASSUME NEW j, j = i PROVE j \notin Accepted'
      OBVIOUS
    <3>1. j # None /\ j \notin 1..created
      BY <1>1, <1>3
    <3>2. \A q \in Queues : ~OnQueue(j, q) /\ item[q] # j
      BY <1>6, <3>1 DEF OnQueue
    <3>3. onework'[j] # <<>>
      BY <1>1, <1>5
    <3>4. \A q \in Queues : item'[q] # j /\ ~OnQueue(j, q)'
      BY <1>5, <1>13, <3>2
    <3> QED
      BY <3>3, <3>4 DEF Accepted
  <2>3. Accepted' = Accepted
    <3>1. \A j \in Accepted' : j \in 1..created \/ j = i
      BY <1>2, <1>4 DEF Accepted
    <3>2. \A j \in Accepted : j \in 1..created
      BY DEF Accepted
    <3> QED
      BY <2>1, <2>2, <3>1, <3>2
  <2>4. Dropping' <=> Dropping
    <3>1. pc[0] \in {"finish", "forget"} => item[0] \in 1..created
      BY <1>6 DEF IInv, Handed
    <3> QED
      BY <1>3, <1>5, <3>1 DEF Dropping
  <2> QED
    BY <1>2, <2>3, <2>4 DEF IInv, Pending, counters
<1> QED
  BY <1>7, <1>8, <1>9, <1>10, <1>11, <1>12, <1>15, <1>16 DEF IInv

LEMMA NextIInv == IInv /\ [Next]_vars => IInv'
<1> SUFFICES ASSUME IInv, [Next]_vars PROVE IInv'
  OBVIOUS
<1>1. ASSUME NEW t \in Threads, Enqueue(t) PROVE IInv'
  BY <1>1, EnqueueLockIInv, EnqueueLinkIInv, EnqueueUnlockIInv, EnqueueWakeIInv DEF Enqueue
<1>2. ASSUME NEW q \in Queues, Dequeue(q) PROVE IInv'
  BY <1>2, WaitIInv, DequeueLockIInv, DequeueUnlinkIInv DEF Dequeue
<1>3. CASE PrimaryTask
  BY <1>1, <1>2, <1>3, ThreadFacts, AcceptIInv, DropIInv, CompleteIInv, WriteLogIInv,
     ForgetIInv DEF PrimaryTask
<1>4. ASSUME NEW q \in Queues \ {0}, WorkerTask(q) PROVE IInv'
  BY <1>1, <1>2, <1>4, ThreadFacts, WorkIInv DEF WorkerTask
<1>5. CASE GenerateLoop
  BY <1>1, <1>5, ThreadFacts, CreateWorkIInv, EndIInv DEF GenerateLoop
<1>6. CASE UNCHANGED vars
  <2> USE <1>6 DEF vars
  <2>1. Types' /\ Locked' /\ CountTrue' /\ WakeDue'
    BY DEF IInv, Types, Locked, Holds, CountTrue, WakeDue
  <2>2. \A u \in Threads : SameHand(pc[u], pc'[u])
    BY DEF SameHand
  <2> QED
    BY <2>1, <2>2, KeepItems DEF IInv
<1> QED
  BY <1>3, <1>4, <1>5, <1>6 DEF Next

LEMMA Inductive == Spec => []IInv
  BY InitIInv, NextIInv, PTL DEF Spec

(***************************************************************************)
(* What follows from the invariant                                         *)
(***************************************************************************)

(* A list of different items is no longer than there are items.            *)
LEMMA ListLength ==
    ASSUME IInv, NEW q \in Queues
    PROVE  Len(list[q]) <= N
<1>1. list[q] \in Seq(Items) /\ Len(list[q]) \in Nat
  BY ElementFacts DEF IInv, Types
<1>2. list[q] \in [1..Len(list[q]) -> Items]
  BY <1>1
<1>3. \A m, n \in 1..Len(list[q]) : list[q][m] = list[q][n] => m = n
  BY DEF IInv, Unique
<1>4. IsFiniteSet(Items) /\ Cardinality(Items) = N
  BY FS_Interval, LimitsAssumption DEF Items
<1>5. list[q] \in Injection(1..Len(list[q]), Items)
  BY <1>2, <1>3 DEF Injection, IsInjective
<1>6. Cardinality(1..Len(list[q])) <= N
  BY <1>4, <1>5, FS_Injection
<1>7. Cardinality(1..Len(list[q])) = Len(list[q])
  BY <1>1, FS_Interval
<1> QED
  BY <1>6, <1>7

(* Places has a member for each of the ways an item can be present.        *)
LEMMA PlacesPresent ==
    ASSUME IInv, NEW i
    PROVE  Places(i) # {} <=> Present(i)
<1>1. ASSUME NEW q \in Queues, NEW n \in 1..Len(list[q]), list[q][n] = i
      PROVE  [kind |-> "queue", at |-> q, n |-> n] \in Places(i)
  <2>1. n \in 1..N
    BY ListLength, LimitsAssumption, ElementFacts DEF IInv, Types
  <2> QED
    BY <1>1, <2>1, ElementFacts DEF Places, IInv, Types
<1>2. ASSUME NEW t \in Threads, item[t] = i
      PROVE  [kind |-> "hand", at |-> t, n |-> 0] \in Places(i)
  BY <1>2 DEF Places
<1>3. ASSUME NEW p \in Places(i) PROVE Present(i)
  <2>1. CASE p.kind = "hand"
    BY <1>3, <2>1 DEF Places, Present
  <2>2. CASE p.kind # "hand"
    <3>1. p.at \in Queues /\ p.n \in 1..N /\ p.n <= Len(list[p.at]) /\ list[p.at][p.n] = i
      BY <1>3, <2>2 DEF Places
    <3>2. p.n \in 1..Len(list[p.at])
      BY <3>1, LimitsAssumption, ElementFacts DEF IInv, Types
    <3> QED
      BY <3>1, <3>2 DEF Present, OnQueue
  <2> QED
    BY <2>1, <2>2
<1> QED
  BY <1>1, <1>2, <1>3 DEF Present, OnQueue

LEMMA OnePlace ==
    ASSUME IInv, NEW i \in Items
    PROVE  Cardinality(Places(i)) <= 1
<1>1. ASSUME NEW p \in Places(i) PROVE
        \/ /\ p = [kind |-> "hand", at |-> p.at, n |-> 0]
           /\ p.at \in Threads /\ item[p.at] = i
        \/ /\ p = [kind |-> "queue", at |-> p.at, n |-> p.n]
           /\ p.at \in Queues /\ p.n \in 1..Len(list[p.at]) /\ list[p.at][p.n] = i
  <2>1. CASE p.kind = "hand"
    BY <1>1, <2>1 DEF Places
  <2>2. CASE p.kind # "hand"
    <3>1. /\ p.at \in Queues /\ p.n \in 1..N /\ p.n <= Len(list[p.at]) /\ list[p.at][p.n] = i
          /\ p = [kind |-> "queue", at |-> p.at, n |-> p.n]
      BY <1>1, <2>2 DEF Places
    <3>2. p.n \in 1..Len(list[p.at])
      BY <3>1, LimitsAssumption, ElementFacts DEF IInv, Types
    <3> QED
      BY <3>1, <3>2
  <2> QED
    BY <2>1, <2>2
<1>2. ASSUME NEW p1 \in Places(i), NEW p2 \in Places(i) PROVE p1 = p2
  <2>1. CASE p1.kind = "hand" /\ p2.kind = "hand"
    <3>1. p1.at \in Threads /\ p2.at \in Threads /\ item[p1.at] = i /\ item[p2.at] = i
      BY <1>1, <2>1
    <3>2. p1.at = p2.at
      BY <3>1, ThreadFacts DEF IInv, Unique
    <3> QED
      BY <1>1, <2>1, <3>2
  <2>2. CASE p1.kind # "hand" /\ p2.kind # "hand"
    <3>1. /\ p1.at \in Queues /\ p1.n \in 1..Len(list[p1.at]) /\ list[p1.at][p1.n] = i
          /\ p2.at \in Queues /\ p2.n \in 1..Len(list[p2.at]) /\ list[p2.at][p2.n] = i
      BY <1>1, <2>2
    <3>2. p1.at = p2.at /\ p1.n = p2.n
      BY <3>1 DEF IInv, Unique
    <3>3. /\ p1 = [kind |-> "queue", at |-> p1.at, n |-> p1.n]
          /\ p2 = [kind |-> "queue", at |-> p2.at, n |-> p2.n]
      BY <1>1, <2>2
    <3> QED
      BY <3>2, <3>3
  <2>3. CASE p1.kind # "hand" /\ p2.kind = "hand"
    BY <1>1, <2>3 DEF IInv, Unique
  <2>4. CASE p1.kind = "hand" /\ p2.kind # "hand"
    BY <1>1, <2>4 DEF IInv, Unique
  <2> QED
    BY <2>1, <2>2, <2>3, <2>4
<1>3. CASE Places(i) = {}
  BY <1>3, FS_EmptySet
<1>4. CASE Places(i) # {}
  <2>1. PICK p : Places(i) = {p}
    BY <1>2, <1>4
  <2> QED
    BY <2>1, FS_Singleton
<1> QED
  BY <1>3, <1>4

(* Type correctness of the queueing program, with count and pending_count  *)
(* never below zero, for any number of workers and transactions.           *)
THEOREM TypeCorrect == Spec => []TypeOK
<1>1. IInv => TypeOK
  <2> SUFFICES ASSUME IInv PROVE TypeOK
    OBVIOUS
  <2>1. Cardinality(Accepted) \in Nat
    BY AcceptedFinite DEF IInv, Types
  <2>2. pending_count \in Nat
    BY <2>1 DEF IInv, Pending
  <2> QED
    BY <2>2 DEF IInv, Types, TypeOK
<1> QED
  BY <1>1, Inductive, PTL

(* No lost wakeup in Enqueue and the tasks' wait loops, whether Enqueue    *)
(* wakes before or after it unlocks.                                       *)
THEOREM WakeupsKept == Spec => []NoLostWakeup
<1>1. IInv => NoLostWakeup
  BY DEF IInv, WakeDue, NoLostWakeup
<1> QED
  BY <1>1, Inductive, PTL

(* No transaction is lost, duplicated or logged twice by the hand-over     *)
(* between main, PrimaryTask and the workers.                              *)
THEOREM TransactionsKept == Spec => []NothingLost
<1>1. IInv => NothingLost
  <2> SUFFICES ASSUME IInv, logopen, NEW i \in 1..created
               PROVE  /\ Cardinality(Places(i)) <= 1
                      /\ Places(i) = {} => Done(i)
                      /\ \A m, n \in 1..Len(log) : log[m] = i /\ log[n] = i => m = n
    BY DEF NothingLost
  <2>1. Cardinality(Places(i)) <= 1
    BY MadeFacts, OnePlace
  <2>2. Places(i) = {} => Done(i)
    BY PlacesPresent DEF IInv, Logged
  <2>3. \A m, n \in 1..Len(log) : log[m] = i /\ log[n] = i => m = n
    BY DEF IInv, Logged
  <2> QED
    BY <2>1, <2>2, <2>3
<1> QED
  BY <1>1, Inductive, PTL

(* PrimaryTask's decision to drop keeps the transactions in flight within  *)
(* kMaxTransInFlight, and pending_count is their number when it decides.   *)
THEOREM FlightLimited == Spec => []InFlightLimited
<1>1. IInv => InFlightLimited
  <2> SUFFICES ASSUME IInv PROVE InFlightLimited
    OBVIOUS
  <2>1. InFlight = Accepted
    BY PlacesPresent DEF InFlight, Accepted, OnQueue
  <2>2. pc[0] \in {"poll", "item"} => ~Dropping
    BY DEF Dropping
  <2>3. Cardinality(Accepted) \in Nat
    BY AcceptedFinite DEF IInv, Types
  <2> QED
    BY <2>1, <2>2, <2>3 DEF IInv, Pending, InFlightLimited
<1> QED
  BY <1>1, Inductive, PTL
=============================================================================
