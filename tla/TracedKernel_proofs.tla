-------------------------- MODULE TracedKernel_proofs -------------------------
(***************************************************************************)
(* More proofs about the converter that reads what the traced kernel does: *)
(* the calls on its stacks are those in progress, and the spans it closes  *)
(* say what each CPU was doing.                                            *)
(***************************************************************************)
EXTENDS EventToSpan_proofs

(***************************************************************************)
(* Which calls are on the stacks: the invariant                            *)
(*                                                                         *)
(* A stack nests by level, and so does what a thread has seen begin; so    *)
(* the invariant compares sets of calls, and the order follows from the    *)
(* levels.  Calls of the scheduler are left out: they may be above an      *)
(* interrupt and below one.  So is a bottom half that was interrupted.     *)
(***************************************************************************)

(* The calls of a sequence above a place, other than the scheduler.        *)
Above(s, h) == {s[i] : i \in h + 1 .. Len(s)} \ {Sched}

(* The calls of task t that the converter takes to have returned.          *)
Lost(t) == IF t \in cut THEN BottomHalves ELSE {}

StackCalls(st) == Above(st.eventnum, 1)
Seen(t) == Above(thread[t], hidden[t]) \ Lost(t)
AllCalls(t) == Above(thread[t], 0) \ Lost(t)

(* What StacksTrue says of a stack, in sets: both sides nest by level.     *)
Holds(st, t) ==
    IF t \in strayed THEN Seen(t) \subseteq StackCalls(st) ELSE StackCalls(st) = Seen(t)

(* A call of the lost ones, with an interrupt above it.                    *)
Overlaid(s, i, lost) == s[i] \in lost /\ i = Len(s) - 1 /\ s[Len(s)] \in Irqs \ BottomHalves

(* Above a place the calls nest by level; those that are below a call of   *)
(* the scheduler are below the level of interrupts.                        *)
NestsAbove(s, h, lost) ==
    /\ h \in 0 .. Len(s)
    /\ \A i, j \in h + 1 .. Len(s) : i < j /\ s[i] # Sched =>
          \/ NestLevel(s[i]) < (IF s[j] = Sched THEN 3 ELSE NestLevel(s[j]))
          \/ Overlaid(s, i, lost)

(* A thread in a bottom half, or in an interrupt that came into one.       *)
InCut(s) ==
    /\ s # <<>>
    /\ s[Len(s)] \in BottomHalves \/ (1 < Len(s) /\ Overlaid(s, Len(s) - 1, BottomHalves))

(* Idle tasks have no calls but the scheduler and one interrupt, or two if *)
(* the first is a bottom half.                                             *)
IdleThread(s) ==
    \/ s \in {<<>>, <<Sched>>}
    \/ \E x \in Irqs : s \in {<<x>>, <<Sched, x>>}
    \/ \E b \in BottomHalves : \E x \in Irqs \ BottomHalves : s \in {<<b, x>>, <<Sched, b, x>>}

ThreadsNest ==
    /\ hidden \in [Task -> Nat] /\ strayed \subseteq Proc /\ cut \subseteq Task
    /\ \A t \in Task : NestsAbove(thread[t], hidden[t], Lost(t))
    /\ \A t \in cut : InCut(thread[t])
    /\ \A c \in CPU : /\ IdleThread(thread[c])
                      /\ on[c] # Idle => thread[c] = <<Sched>>
                      /\ on[c] = Idle /\ ~Announced(c) => hidden[c] = 0
    /\ perpidstate[Idle].eventnum = <<Idle, Sched>>

(* The calls that a call or return leaves in progress below it.            *)
Kept(e) ==
    IF e.kind = "call" /\ e.num = Sched THEN Call \ {Sched, Resched}
    ELSE {x \in Call : NestLevel(x) < NestLevel(e.num)}

(* What agrees while a call or a return is converted: the fix-ups add or   *)
(* take away no call that it keeps.                                        *)
Follow(st, t, e) ==
    IF t \in strayed THEN Seen(t) \ {e.num} \subseteq StackCalls(st) \cap Kept(e)
    ELSE StackCalls(st) \cap Kept(e) = Seen(t) \ {e.num}

(* The header of an idle CPU hides the calls that the converter knows.     *)
HeaderIdle(c) ==
    /\ heard[c] = "header" /\ on[c] = Idle /\ Seen(c) = {}
    /\ StackCalls(cpu_stack[c]) = AllCalls(c)

CallsAt(c) == LET t == TaskOn(c) IN
    /\ ~Converts(c, {"call", "ret", "ctx"}) => Holds(cpu_stack[c], t) \/ HeaderIdle(c)
    /\ Converts(c, {"call", "ret"}) =>
          /\ Follow(cpu_stack[c], t, event)
          /\ IF event.num = Sched THEN event.dur = 0
             ELSE event.num \in Seen(t) <=> event.kind = "call" /\ event.dur = 0
    /\ Converts(c, {"ctx"}) =>
          /\ Owner(c) = on[c] => HeaderIdle(c)
          /\ Owner(c) # on[c] /\ Owner(c) # Idle =>
                /\ Holds(cpu_stack[c], Owner(c))
                /\ on[c] = Idle => Seen(c) = {}
    /\ Converts(c, {"mark", "mwait", "mwait_exit"}) => thread[t] = <<>>

Known(c) == on[c] = Idle \/ Announced(c)

(* The stacks of the processes that run nowhere.                           *)
Absent(p) == \A c \in CPU : Owner(c) # p /\ (on[c] = p => Announced(c))

AsideTrue == \A p \in Proc : Absent(p) =>
    IF perpidstate[p] = NoState THEN Seen(p) = {} ELSE Holds(perpidstate[p], p)

CInv == ThreadsNest /\ (\A c \in CPU : Known(c) => CallsAt(c)) /\ AsideTrue

(***************************************************************************)
(* The calls above a place of a sequence                                   *)
(***************************************************************************)

LEMMA AboveAppend ==
    ASSUME NEW S, NEW s \in Seq(S), NEW x \in S, NEW h \in 0 .. Len(s)
    PROVE  Above(Append(s, x), h) = Above(s, h) \cup ({x} \ {Sched})
<1> DEFINE u == Append(s, x)
<1>1. /\ Len(s) \in Nat /\ Len(u) = Len(s) + 1 /\ u[Len(s) + 1] = x
      /\ \A i \in 1 .. Len(s) : u[i] = s[i]
  OBVIOUS
<1>2. \A i \in h + 1 .. Len(s) : i \in 1 .. Len(s) /\ i \in h + 1 .. Len(s) + 1
  BY <1>1
<1>3. \A i \in h + 1 .. Len(s) + 1 : i = Len(s) + 1 \/ i \in h + 1 .. Len(s)
  BY <1>1
<1>4. Len(s) + 1 \in h + 1 .. Len(s) + 1
  BY <1>1
<1> HIDE DEF u
<1>5. {u[i] : i \in h + 1 .. Len(s) + 1} = {s[i] : i \in h + 1 .. Len(s)} \cup {x}
  BY <1>1, <1>2, <1>3, <1>4
<1>6. Above(u, h) = Above(s, h) \cup ({x} \ {Sched})
  BY <1>1, <1>5 DEF Above
<1> QED
  BY <1>6 DEF u

(* Nothing is above the end.                                               *)
LEMMA AboveEnd ==
    ASSUME NEW S, NEW s \in Seq(S)
    PROVE  Above(s, Len(s)) = {}
<1>1. Len(s) \in Nat
  OBVIOUS
<1>2. Len(s) + 1 .. Len(s) = {}
  BY <1>1
<1> QED
  BY <1>2 DEF Above

LEMMA AboveType ==
    ASSUME NEW S, NEW s \in Seq(S), NEW h \in Nat
    PROVE  /\ Above(s, h) \subseteq S \ {Sched}
           /\ \A x \in Above(s, h) : \E i \in h + 1 .. Len(s) : i \in 1 .. Len(s) /\ s[i] = x /\ x # Sched
<1>1. \A i \in h + 1 .. Len(s) : i \in 1 .. Len(s)
  OBVIOUS
<1>2. \A i \in 1 .. Len(s) : s[i] \in S
  OBVIOUS
<1> QED
  BY <1>1, <1>2 DEF Above

(* A sequence cut short has some of the calls.                             *)
LEMMA AboveCut ==
    ASSUME NEW S, NEW s \in Seq(S), NEW n \in 0 .. Len(s), NEW h \in 0 .. Len(s), NEW L
    PROVE  LET u == SubSeq(s, 1, n)
               k == IF n < h THEN n ELSE h
           IN  /\ k \in 0 .. Len(u) /\ u \in Seq(S) /\ Len(u) = n
               /\ \A i \in 1 .. n : u[i] = s[i]
               /\ Above(u, k) \subseteq Above(s, h)
               /\ n < Len(s) \/ L = {} => (NestsAbove(s, h, L) => NestsAbove(u, k, {}))
               /\ h = Len(s) => Above(u, k) = {}
<1> DEFINE u == SubSeq(s, 1, n)
           k == IF n < h THEN n ELSE h
<1>1. u \in Seq(S) /\ Len(u) = n /\ \A i \in 1 .. n : u[i] = s[i]
  BY SubSeqProperties
<1>2. Len(s) \in Nat /\ n \in Nat /\ h \in Nat /\ n <= Len(s) /\ h <= Len(s)
  OBVIOUS
<1>3. k \in 0 .. n /\ k \in Nat /\ (n < h => k = n) /\ (~(n < h) => k = h)
  BY <1>2
<1>4. \A i \in k + 1 .. n : i \in 1 .. n /\ i \in h + 1 .. Len(s)
  <2> TAKE i \in k + 1 .. n
  <2>1. k # n
    BY <1>2, <1>3
  <2> QED
    BY <1>2, <1>3, <2>1
<1> HIDE DEF u, k
<1>5. Above(u, k) \subseteq Above(s, h)
  BY <1>1, <1>4 DEF Above
<1>6. ASSUME n < Len(s) \/ L = {}, NestsAbove(s, h, L) PROVE NestsAbove(u, k, {})
  <2>1. \A i, j \in h + 1 .. Len(s) : i < j /\ s[i] # Sched =>
          \/ NestLevel(s[i]) < (IF s[j] = Sched THEN 3 ELSE NestLevel(s[j]))
          \/ L # {} /\ i = Len(s) - 1
    BY <1>6 DEF NestsAbove, Overlaid
  <2>2. \A i \in k + 1 .. n : u[i] = s[i] /\ i \in h + 1 .. Len(s)
    BY <1>1, <1>4
  <2>4. \A i, j \in k + 1 .. n : i < j => ~(L # {} /\ i = Len(s) - 1)
    BY <1>2, <1>3, <1>6
  <2>3. \A i, j \in k + 1 .. n : i < j /\ u[i] # Sched =>
          NestLevel(u[i]) < (IF u[j] = Sched THEN 3 ELSE NestLevel(u[j]))
    BY <2>1, <2>2, <2>4
  <2> QED
    BY <1>1, <1>3, <2>3 DEF NestsAbove
<1>7. h = Len(s) => Above(u, k) = {}
  BY <1>1, <1>2, <1>3, AboveEnd
<1> QED
  BY <1>1, <1>3, <1>5, <1>6, <1>7 DEF u, k

(* The calls of a sequence that nests are of lower level than its last,    *)
(* but for a lost one.                                                     *)
LEMMA AboveFront ==
    ASSUME NEW s \in Seq(Call), s # <<>>, NEW h \in 0 .. Len(s) - 1, NEW L, NestsAbove(s, h, L)
    PROVE  LET x == s[Len(s)] IN
           /\ Front(s) \in Seq(Call) /\ h \in 0 .. Len(Front(s)) /\ x \in Call
           /\ Above(s, h) = Above(Front(s), h) \cup ({x} \ {Sched})
           /\ \A y \in Above(Front(s), h) :
                 /\ y \in Call
                 /\ NestLevel(y) < (IF x = Sched THEN 3 ELSE NestLevel(x)) \/ y \in L
<1> DEFINE x == s[Len(s)]
           u == Front(s)
<1>1. /\ u \in Seq(Call) /\ Len(s) \in Nat \ {0} /\ Len(u) = Len(s) - 1
      /\ \A i \in 1 .. Len(s) - 1 : u[i] = s[i]
  BY FrontFacts
<1>2. x \in Call
  BY <1>1, ElementOfSeq
<1>3. h \in Nat /\ h < Len(s) /\ h \in 0 .. Len(u)
  BY <1>1
<1>4. s = Append(u, x)
  <2> DEFINE r == Append(u, x)
  <2>1. r \in Seq(Call) /\ Len(r) = Len(s)
    BY <1>1, <1>2
  <2>2. ASSUME NEW i \in 1 .. Len(r) PROVE r[i] = s[i]
    <3>1. CASE i = Len(s)
      BY <1>1, <3>1
    <3>2. CASE i # Len(s)
      <4>1. i \in 1 .. Len(s) - 1
        BY <1>1, <2>1, <3>2
      <4>2. r[i] = u[i]
        BY <1>1, <4>1
      <4> QED
        BY <1>1, <4>1, <4>2
    <3> QED
      BY <3>1, <3>2
  <2> HIDE DEF r
  <2>3. r = s
    BY <2>1, <2>2, SeqEqual
  <2> QED
    BY <2>3 DEF r
<1> HIDE DEF u, x
<1>5. Above(s, h) = Above(u, h) \cup ({x} \ {Sched})
  <2>1. Above(Append(u, x), h) = Above(u, h) \cup ({x} \ {Sched})
    BY <1>1, <1>2, <1>3, AboveAppend
  <2> QED
    BY <1>4, <2>1, Zenon
<1>6. ASSUME NEW y \in Above(u, h)
      PROVE  /\ y \in Call
             /\ NestLevel(y) < (IF x = Sched THEN 3 ELSE NestLevel(x)) \/ y \in L
  <2>1. PICK i \in h + 1 .. Len(u) : i \in 1 .. Len(u) /\ u[i] = y /\ y # Sched
    BY <1>1, <1>3, AboveType
  <2>2. i \in h + 1 .. Len(s) /\ Len(s) \in h + 1 .. Len(s) /\ i < Len(s) /\ s[i] = y
        /\ i \in 1 .. Len(s)
    BY <1>1, <1>3, <2>1
  <2>3. y \in Call
    BY <2>2
  <2> QED
    BY <2>1, <2>2, <2>3 DEF NestsAbove, Overlaid, x
<1> QED
  BY <1>1, <1>2, <1>3, <1>5, <1>6 DEF u, x

(* A call that all calls above the place are below may go on top.          *)
LEMMA NestsAppend ==
    ASSUME NEW s \in Seq(Call), NEW x \in Call, NEW h \in 0 .. Len(s), NEW L, NestsAbove(s, h, {}),
           \A y \in Above(s, h) :
              \/ NestLevel(y) < (IF x = Sched THEN 3 ELSE NestLevel(x))
              \/ y \in L /\ y = s[Len(s)] /\ x \in Irqs \ BottomHalves
    PROVE  NestsAbove(Append(s, x), h, L)
<1> DEFINE u == Append(s, x)
<1>1. /\ Len(s) \in Nat /\ Len(u) = Len(s) + 1 /\ u[Len(s) + 1] = x
      /\ \A i \in 1 .. Len(s) : u[i] = s[i]
  OBVIOUS
<1> HIDE DEF u
<1>2. h \in Nat /\ h <= Len(s)
  BY <1>1
<1>3. ASSUME NEW i \in h + 1 .. Len(u), NEW j \in h + 1 .. Len(u), i < j, u[i] # Sched
      PROVE  NestLevel(u[i]) < (IF u[j] = Sched THEN 3 ELSE NestLevel(u[j])) \/ Overlaid(u, i, L)
  <2>1. i \in h + 1 .. Len(s) /\ i \in 1 .. Len(s) /\ u[i] = s[i]
    BY <1>1, <1>2, <1>3
  <2>2. CASE j = Len(s) + 1
    <3>1. u[i] \in Above(s, h)
      BY <1>3, <2>1 DEF Above
    <3>2. CASE NestLevel(u[i]) < (IF u[j] = Sched THEN 3 ELSE NestLevel(u[j]))
      BY <3>2
    <3>3. CASE u[i] \in L /\ u[i] = s[Len(s)] /\ x \in Irqs \ BottomHalves
      <4>1. CASE i = Len(s)
        BY <1>1, <3>3, <4>1 DEF Overlaid
      <4>2. CASE i # Len(s)
        <5>1. i \in h + 1 .. Len(s) /\ Len(s) \in h + 1 .. Len(s) /\ i < Len(s) /\ s[i] = s[Len(s)]
          BY <1>1, <1>2, <2>1, <3>3, <4>2
        <5>2. s[i] # Sched /\ s[i] \in Call
          BY <1>3, <2>1
        <5>3. NestLevel(s[i]) < NestLevel(s[i])
          BY <5>1, <5>2 DEF NestsAbove, Overlaid
        <5>4. NestLevel(s[i]) \in 0 .. 4
          BY <5>2, LevelFacts
        <5> QED
          BY <5>3, <5>4
      <4> QED
        BY <4>1, <4>2
    <3> QED
      BY <1>1, <2>2, <3>1, <3>2, <3>3
  <2>3. CASE j # Len(s) + 1
    <3>1. j \in h + 1 .. Len(s) /\ u[j] = s[j]
      BY <1>1, <1>2, <2>3
    <3> QED
      BY <1>3, <2>1, <3>1 DEF NestsAbove, Overlaid
  <2> QED
    BY <2>2, <2>3
<1>4. h \in 0 .. Len(u)
  BY <1>1, <1>2
<1>5. NestsAbove(u, h, L)
  BY <1>3, <1>4 DEF NestsAbove
<1> QED
  BY <1>5 DEF u

(***************************************************************************)
(* The calls of a stack                                                    *)
(***************************************************************************)

LEMMA SchedLevel ==
    /\ \A x \in Call : NestLevel(x) = 4 <=> x = Sched
    /\ \A x \in Call : x # Sched => NestLevel(x) \in 1 .. 3
    /\ \A x \in Call : NestLevel(x) < 2 => x \in Syscalls
    /\ \A x \in Syscalls : x \in Call /\ NestLevel(x) = 1
    /\ \A x \in Traps : x \in Call /\ NestLevel(x) = 2
    /\ \A x \in Irqs : x \in Call /\ NestLevel(x) = 3
    /\ \A x \in Pid : x # Sched
<1>1. \A x \in Call : x \notin Pid /\ (x = Sched \/ x \in Irqs \/ x \in Traps \/ x \in Syscalls)
  BY LevelFacts DEF Call
<1>2. \A x \in Call : NestLevel(x) = IF x = Sched THEN 4 ELSE IF x \in Irqs THEN 3
                                     ELSE IF x \in Traps THEN 2 ELSE 1
  BY <1>1 DEF NestLevel
<1>3. \A x \in Syscalls \cup Traps \cup Irqs : x \in Call /\ x # Sched
  BY CallAssumption DEF Call
<1>4. \A x \in Syscalls : x \notin Traps /\ x \notin Irqs
  BY CallAssumption
<1>5. \A x \in Traps : x \notin Irqs
  BY CallAssumption
<1> QED
  BY <1>1, <1>2, <1>3, <1>4, <1>5, LevelFacts

(* A stack that nests nests above its process, but for a call of the       *)
(* scheduler, which may be above an interrupt.                             *)
LEMMA StackCallTypes ==
    ASSUME NEW s, Nested(s)
    PROVE  /\ Above(s, 1) \subseteq Call \ {Sched}
           /\ \A x \in Above(s, 1) : NestLevel(x) <= NestLevel(s[Len(s)])
<1>1. /\ s \in Seq(Pid \cup Call) /\ Len(s) \in 1 .. 5 /\ s[1] \in Pid
      /\ \A i, j \in 1 .. Len(s) : i < j => NestLevel(s[i]) < NestLevel(s[j])
  BY TopFacts DEF Nested
<1>2. ASSUME NEW x \in Above(s, 1)
      PROVE  x \in Call /\ x # Sched /\ NestLevel(x) <= NestLevel(s[Len(s)])
  <2>1. PICK i \in 2 .. Len(s) : i \in 1 .. Len(s) /\ s[i] = x /\ x # Sched
    BY <1>1, <1>2 DEF Above
  <2>2. x \in Pid \cup Call /\ 1 < i /\ 1 \in 1 .. Len(s) /\ Len(s) \in 1 .. Len(s)
    BY <1>1, <2>1
  <2>3. NestLevel(s[1]) < NestLevel(x) /\ NestLevel(s[1]) = 0
    BY <1>1, <2>1, <2>2, LevelFacts
  <2>4. x \in Call /\ NestLevel(x) \in 1 .. 4
    BY <2>2, <2>3, LevelFacts
  <2>5. CASE i = Len(s)
    BY <2>1, <2>4, <2>5
  <2>6. CASE i # Len(s)
    <3>1. i < Len(s)
      BY <1>1, <2>1, <2>6
    <3>2. NestLevel(x) < NestLevel(s[Len(s)])
      BY <1>1, <2>1, <2>2, <3>1
    <3>3. NestLevel(s[Len(s)]) \in 0 .. 4
      BY TopFacts
    <3> QED
      BY <2>1, <2>4, <3>2, <3>3
  <2> QED
    BY <2>1, <2>4, <2>5, <2>6
<1> QED
  BY <1>2

(* A pop takes the call on top away; those below it are of lower level.    *)
LEMMA StackFront ==
    ASSUME NEW s, Nested(s), 1 < Len(s)
    PROVE  /\ s[Len(s)] \in Call
           /\ Above(s, 1) = Above(Front(s), 1) \cup ({s[Len(s)]} \ {Sched})
           /\ \A x \in Above(Front(s), 1) : x \in Call /\ NestLevel(x) < NestLevel(s[Len(s)])
<1> DEFINE r == Front(s)
<1>1. /\ s \in Seq(Pid \cup Call) /\ Len(s) \in 2 .. 5 /\ s[Len(s)] \in Call
      /\ \A i, j \in 1 .. Len(s) : i < j => NestLevel(s[i]) < NestLevel(s[j])
  BY TopFacts DEF Nested
<1>2. r \in Seq(Pid \cup Call) /\ Len(r) = Len(s) - 1 /\ \A i \in 1 .. Len(s) - 1 : r[i] = s[i]
  BY <1>1, FrontFacts
<1>3. Nested(r)
  BY PopNested DEF Front
<1> HIDE DEF r
<1>4. \A i \in 2 .. Len(s) : i \in 1 .. Len(s) /\ (i = Len(s) \/ i \in 2 .. Len(r))
  BY <1>1, <1>2
<1>5. \A i \in 2 .. Len(r) : i \in 2 .. Len(s) /\ r[i] = s[i] /\ i < Len(s)
  BY <1>1, <1>2
<1>6. Len(s) \in 2 .. Len(s) /\ Len(s) \in 1 .. Len(s)
  BY <1>1
<1>7. Above(s, 1) = Above(r, 1) \cup ({s[Len(s)]} \ {Sched})
  BY <1>4, <1>5, <1>6 DEF Above
<1>8. \A x \in Above(r, 1) : x \in Call
  BY <1>3, StackCallTypes
<1>9. \A x \in Above(r, 1) : NestLevel(x) < NestLevel(s[Len(s)])
  BY <1>1, <1>4, <1>5, <1>6 DEF Above
<1> QED
  BY <1>1, <1>7, <1>8, <1>9 DEF r

LEMMA StackAppend ==
    ASSUME NEW s, Nested(s), NEW x \in Call
    PROVE  Above(Append(s, x), 1) = Above(s, 1) \cup ({x} \ {Sched})
<1>1. s \in Seq(Pid \cup Call) /\ Len(s) \in 1 .. 5
  BY TopFacts DEF Nested
<1>2. 1 \in 0 .. Len(s) /\ x \in Pid \cup Call
  BY <1>1
<1> QED
  BY <1>1, <1>2, AboveAppend

(* A process alone, or one inside the scheduler, is in no call.            *)
LEMMA BareStack ==
    ASSUME NEW p
    PROVE  Above(<<p>>, 1) = {} /\ Above(<<p, Sched>>, 1) = {}
<1>1. Len(<<p>>) = 1 /\ Len(<<p, Sched>>) = 2 /\ <<p, Sched>>[2] = Sched
  OBVIOUS
<1>2. 2 .. 1 = {} /\ 2 .. 2 = {2}
  OBVIOUS
<1> QED
  BY <1>1, <1>2 DEF Above

(***************************************************************************)
(* From sets of calls to stacks                                            *)
(***************************************************************************)

(* By level, apart from the scheduler.                                     *)
Rising(s, S) == \A i, j \in S : i < j => NestLevel(s[i]) < NestLevel(s[j])

LEMMA RisingWithin ==
    ASSUME NEW s \in Seq(Pid \cup Call), NEW u \in Seq(Pid \cup Call),
           NEW S \in SUBSET (1 .. Len(s)), NEW U \in SUBSET (1 .. Len(u)), Rising(s, S), Rising(u, U),
           \A i \in S : \E j \in U : u[j] = s[i]
    PROVE  Within(s, S, u, U)
<1> DEFINE f == [i \in S |-> CHOOSE j \in U : u[j] = s[i]]
<1>1. \A i \in S : f[i] \in U /\ u[f[i]] = s[i]
  OBVIOUS
<1>2. f \in [S -> U]
  BY <1>1
<1>3. Len(s) \in Nat /\ Len(u) \in Nat /\ \A i \in U : i \in 1 .. Len(u)
  OBVIOUS
<1> HIDE DEF f
<1>4. ASSUME NEW i \in S, NEW j \in S, i < j PROVE f[i] < f[j]
  <2>1. NestLevel(u[f[i]]) < NestLevel(u[f[j]])
    BY <1>1, <1>4 DEF Rising
  <2>2. /\ NestLevel(u[f[i]]) \in 0 .. 4 /\ NestLevel(u[f[j]]) \in 0 .. 4
        /\ f[i] \in Nat /\ f[j] \in Nat
    <3>1. f[i] \in 1 .. Len(u) /\ f[j] \in 1 .. Len(u)
      BY <1>1, <1>3
    <3>2. u[f[i]] \in Pid \cup Call /\ u[f[j]] \in Pid \cup Call
      BY <3>1, ElementOfSeq
    <3> QED
      BY <1>3, <3>1, <3>2, LevelFacts
  <2>3. f[i] # f[j]
    BY <2>1, <2>2
  <2>4. ~(f[j] < f[i])
    <3>1. f[j] < f[i] => NestLevel(u[f[j]]) < NestLevel(u[f[i]])
      BY <1>1 DEF Rising
    <3> QED
      BY <2>1, <2>2, <3>1
  <2> QED
    BY <2>2, <2>3, <2>4
<1> QED
  BY <1>1, <1>2, <1>4 DEF Within

LEMMA HoldsFollows ==
    ASSUME NEW st, GoodState(st), NEW p \in Pid, st.eventnum[1] = p, NEW t \in Task,
           thread[t] \in Seq(Call), NestsAbove(thread[t], hidden[t], Lost(t)), Holds(st, t)
    PROVE  Follows(st, p, t)
<1> DEFINE s == st.eventnum
           v == SubSeq(thread[t], hidden[t] + 1, Len(thread[t]))
           u == <<p>> \o v
           known == {i \in Places(u) : ~ (t \in cut /\ u[i] \in BottomHalves)}
           h == hidden[t]
           n == Len(thread[t])
<1>1. s \in Seq(Pid \cup Call) /\ Len(s) \in 1 .. 5 /\ s[1] = p /\ Nested(s)
  BY TopFacts DEF GoodState, Nested
<1>2. h \in 0 .. n /\ n \in Nat
  BY DEF NestsAbove
<1>3. /\ v \in Seq(Call) /\ Len(v) = n - h
      /\ \A i \in 1 .. n - h : v[i] = thread[t][h + i]
  <2>1. h + 1 \in 1 .. n + 1 /\ n \in h .. n
    BY <1>2
  <2> QED
    BY <1>2, <2>1, SubSeqProperties
<1> HIDE DEF v
<1>4. /\ u \in Seq(Pid \cup Call) /\ Len(u) = n - h + 1 /\ u[1] = p
      /\ \A i \in 2 .. n - h + 1 : u[i] = thread[t][h + i - 1]
  <2>1. <<p>> \in Seq(Pid \cup Call) /\ v \in Seq(Pid \cup Call) /\ Len(<<p>>) = 1 /\ <<p>>[1] = p
    BY <1>3
  <2>2. u \in Seq(Pid \cup Call) /\ Len(u) = 1 + (n - h) /\ u[1] = p
        /\ \A i \in 2 .. 1 + (n - h) : u[i] = v[i - 1]
    BY <1>2, <1>3, <2>1
  <2>3. \A i \in 2 .. n - h + 1 : i - 1 \in 1 .. n - h /\ h + (i - 1) = h + i - 1
    BY <1>2
  <2> QED
    BY <1>2, <1>3, <2>2, <2>3
<1> HIDE DEF u
<1>5. p # Sched /\ NestLevel(p) = 0
  BY SchedLevel, LevelFacts
<1>6. /\ Places(s) \subseteq 1 .. Len(s) /\ Places(u) \subseteq 1 .. Len(u)
      /\ \A i \in 1 .. Len(s) : i \in Places(s) <=> s[i] # Sched
      /\ \A i \in 1 .. Len(u) : i \in Places(u) <=> u[i] # Sched
  BY <1>1, <1>4 DEF Places
<1>a. \A x \in BottomHalves : x \in Call /\ x # p
  BY BottomAssumption, SchedLevel, LevelFacts
<1>b. \A i : i \in known <=> i \in Places(u) /\ u[i] \notin Lost(t)
  BY DEF Lost
<1> HIDE DEF known
<1>7. 1 \in Places(s) /\ 1 \in known
  BY <1>1, <1>2, <1>4, <1>5, <1>6, <1>a, <1>b DEF Lost
<1>8. \A x : x \in StackCalls(st) <=> \E i \in Places(s) : i # 1 /\ s[i] = x
  <2>1. \A i : i \in 2 .. Len(s) <=> i \in 1 .. Len(s) /\ i # 1
    BY <1>1
  <2> QED
    BY <1>6, <2>1 DEF StackCalls, Above
<1>9. \A x : x \in Seen(t) <=> \E i \in known : i # 1 /\ u[i] = x
  <2>1. \A i \in h + 1 .. n : /\ i - h + 1 \in 1 .. Len(u) /\ i - h + 1 # 1
                              /\ u[i - h + 1] = thread[t][i]
    <3> TAKE i \in h + 1 .. n
    <3>1. i - h + 1 \in 2 .. n - h + 1 /\ h + (i - h + 1) - 1 = i
      BY <1>2
    <3> QED
      BY <1>2, <1>4, <3>1
  <2>2. \A i \in 1 .. Len(u) : i # 1 => h + i - 1 \in h + 1 .. n /\ u[i] = thread[t][h + i - 1]
    <3> SUFFICES ASSUME NEW i \in 1 .. Len(u), i # 1
                 PROVE  h + i - 1 \in h + 1 .. n /\ u[i] = thread[t][h + i - 1]
      OBVIOUS
    <3>1. i \in 2 .. n - h + 1
      BY <1>2, <1>4
    <3> QED
      BY <1>2, <1>4, <3>1
  <2> QED
    BY <1>6, <1>b, <2>1, <2>2 DEF Seen, Above
<1>10. Rising(s, Places(s))
  BY <1>1, <1>6 DEF Rising, Nested
<1>11. Rising(u, known)
  <2> SUFFICES ASSUME NEW i \in known, NEW j \in known, i < j
               PROVE  NestLevel(u[i]) < NestLevel(u[j])
    BY DEF Rising
  <2>1. /\ i \in 1 .. n - h + 1 /\ j \in 2 .. n - h + 1 /\ u[i] # Sched /\ u[j] # Sched
        /\ u[j] = thread[t][h + j - 1] /\ h + j - 1 \in h + 1 .. n /\ h + j - 1 \in 1 .. n
    BY <1>2, <1>4, <1>6, <1>b
  <2>2. CASE i = 1
    <3>1. u[j] \in Call
      BY <2>1
    <3>2. NestLevel(u[j]) \in 1 .. 4
      BY <3>1, LevelFacts
    <3> QED
      BY <1>4, <1>5, <2>2, <3>2
  <2>3. CASE i # 1
    <3>1. i \in 2 .. n - h + 1
      BY <2>1, <2>3
    <3>2. h + i - 1 \in h + 1 .. n /\ h + i - 1 < h + j - 1
      BY <1>2, <2>1, <3>1
    <3>4. u[i] = thread[t][h + i - 1]
      BY <1>4, <3>1
    <3>3. \A a, b \in h + 1 .. n :
             a < b /\ thread[t][a] # Sched /\ thread[t][b] # Sched /\ thread[t][a] \notin Lost(t)
             => NestLevel(thread[t][a]) < NestLevel(thread[t][b])
      BY DEF NestsAbove, Overlaid
    <3> QED
      BY <1>b, <2>1, <3>2, <3>3, <3>4
  <2> QED
    BY <2>2, <2>3
<1>12. Seen(t) \subseteq StackCalls(st)
  BY DEF Holds
<1>13. ASSUME NEW i \in known PROVE \E j \in Places(s) : s[j] = u[i]
  BY <1>1, <1>4, <1>7, <1>8, <1>9, <1>12
<1>14. Within(u, known, s, Places(s))
  BY <1>1, <1>4, <1>6, <1>b, <1>10, <1>11, <1>13, RisingWithin
<1>15. ASSUME t \notin strayed PROVE Within(s, Places(s), u, known)
  <2>1. StackCalls(st) = Seen(t)
    BY <1>15 DEF Holds
  <2>2. ASSUME NEW i \in Places(s) PROVE \E j \in known : u[j] = s[i]
    BY <1>1, <1>4, <1>7, <1>8, <1>9, <2>1
  <2> QED
    BY <1>1, <1>4, <1>6, <1>b, <1>10, <1>11, <2>2, RisingWithin
<1> QED
  BY <1>14, <1>15 DEF Follows, known, u, v

(***************************************************************************)
(* Which calls are on the stacks: steps of the converter                   *)
(***************************************************************************)

(* What a step of the converter leaves alone.                              *)
LEMMA KernelStill ==
    ASSUME UNCHANGED kvars
    PROVE  /\ UNCHANGED <<mix, now, on, thread, hidden, heard, fresh, strayed, cut, ran>>
           /\ \A t : Seen(t)' = Seen(t) /\ AllCalls(t)' = AllCalls(t)
           /\ \A c : /\ TaskOn(c)' = TaskOn(c) /\ (Known(c)' <=> Known(c))
                     /\ (Announced(c)' <=> Announced(c))
           /\ \A st, t : Holds(st, t)' <=> Holds(st, t)
           /\ \A st, t, e : Follow(st, t, e)' <=> Follow(st, t, e)
  BY DEF kvars, Seen, AllCalls, Lost, TaskOn, Known, Announced, Holds, Follow

(* Only the set of its calls matters of a stack.                           *)
LEMMA HoldsCalls ==
    ASSUME NEW st, NEW r, NEW t, StackCalls(st) = StackCalls(r)
    PROVE  Holds(st, t) <=> Holds(r, t)
  BY DEF Holds

LEMMA FollowCalls ==
    ASSUME NEW st, NEW r, NEW t, NEW e,
           StackCalls(st) \cap Kept(e) = StackCalls(r) \cap Kept(e)
    PROVE  Follow(st, t, e) <=> Follow(r, t, e)
  BY DEF Follow

LEMMA KeptFacts ==
    ASSUME NEW e, e.kind \in {"call", "ret"}, e.num \in Call
    PROVE  /\ Kept(e) \subseteq Call
           /\ \A x \in Call : ~(NestLevel(x) < NestLevel(e.num)) /\ x # Sched => x \notin Kept(e)
           /\ Sched \notin Kept(e) /\ e.num \notin Kept(e)
           /\ e.kind = "call" /\ e.num = Sched => Resched \notin Kept(e)
           /\ \A x \in Call : NestLevel(x) < NestLevel(e.num) /\ x # Resched => x \in Kept(e)
           /\ \A x \in Call : NestLevel(x) < NestLevel(e.num)
                              /\ ~(e.kind = "call" /\ e.num = Sched) => x \in Kept(e)
           /\ OnlyInUserMode(e) => Kept(e) = {}
<1>1. \A x \in Call : NestLevel(x) \in 1 .. 4 /\ (NestLevel(x) = 4 <=> x = Sched)
  BY LevelFacts, SchedLevel
<1>2. NestLevel(Sched) = 4 /\ Sched \in Call
  BY LevelFacts
<1>3. CASE e.kind = "call" /\ e.num = Sched
  <2>1. Kept(e) = Call \ {Sched, Resched}
    BY <1>3 DEF Kept
  <2>2. ~OnlyInUserMode(e)
    BY <1>3, CallAssumption DEF OnlyInUserMode
  <2>3. \A x \in Call : ~(NestLevel(x) < NestLevel(e.num)) => x = Sched
    BY <1>1, <1>2, <1>3
  <2>4. \A x \in Call : NestLevel(x) < NestLevel(e.num) => x # Sched
    BY <1>1, <1>2, <1>3
  <2> QED
    BY <1>3, <2>1, <2>2, <2>3, <2>4
<1>4. CASE ~(e.kind = "call" /\ e.num = Sched)
  <2>1. Kept(e) = {x \in Call : NestLevel(x) < NestLevel(e.num)}
    BY <1>4 DEF Kept
  <2>2. OnlyInUserMode(e) => NestLevel(e.num) = 1
    BY SchedLevel DEF OnlyInUserMode, IsACall
  <2>3. OnlyInUserMode(e) => Kept(e) = {}
    BY <1>1, <2>1, <2>2
  <2>4. Sched \notin Kept(e) /\ e.num \notin Kept(e)
    BY <1>1, <1>2, <2>1
  <2> QED
    BY <1>4, <2>1, <2>3, <2>4
<1> QED
  BY <1>3, <1>4

(* A step of the converter other than a switch gives one CPU a stack with  *)
(* the same process; all that has to be shown is that it is right.         *)
LEMMA StackKeepsCInv ==
    ASSUME CInv, UNCHANGED kvars, ~Reading, NEW c \in CPU, c = event.cpu,
           NEW st, Edits(c, st), st.eventnum[1] = Owner(c),
           event' = event \/ Reading' \/ event' = RunnableAfter(event),
           Known(c) => CallsAt(c)'
    PROVE  CInv'
<1>1. UNCHANGED perpidstate /\ \A d \in CPU : Owner(d)' = Owner(d)
  BY DEF Edits, Owner
<1>2. \A d \in CPU \ {c} : cpu_stack'[d] = cpu_stack[d]
  BY DEF Edits
<1>3. \A d, K : d # c => ~Converts(d, K) /\ ~Converts(d, K)'
  <2>1. ~Reading' => event'.cpu = event.cpu
    BY DEF RunnableAfter, Reading
  <2> QED
    BY <2>1 DEF Converts, Reading
<1>4. /\ UNCHANGED <<on, thread, hidden, heard, strayed, cut>>
      /\ \A t : Seen(t)' = Seen(t) /\ AllCalls(t)' = AllCalls(t)
      /\ \A d : TaskOn(d)' = TaskOn(d) /\ (Known(d)' <=> Known(d)) /\ (Announced(d)' <=> Announced(d))
      /\ \A r, t : Holds(r, t)' <=> Holds(r, t)
  BY KernelStill
<1>5. ThreadsNest'
  BY <1>1, <1>4 DEF CInv, ThreadsNest, Lost
<1>6. AsideTrue'
  BY <1>1, <1>4 DEF CInv, AsideTrue, Absent
<1>7. ASSUME NEW d \in CPU \ {c}, Known(d) PROVE CallsAt(d)'
  <2>1. Holds(cpu_stack[d], TaskOn(d)) \/ HeaderIdle(d)
    BY <1>3, <1>7 DEF CInv, CallsAt
  <2>2. Holds(cpu_stack[d], TaskOn(d))' <=> Holds(cpu_stack[d], TaskOn(d))
    BY <1>2, <1>4 DEF Holds
  <2>3. HeaderIdle(d)' <=> HeaderIdle(d)
    BY <1>2, <1>4 DEF HeaderIdle
  <2>4. (Holds(cpu_stack[d], TaskOn(d)) \/ HeaderIdle(d))'
    BY <2>1, <2>2, <2>3
  <2>5. /\ ~Converts(d, {"call", "ret"})' /\ ~Converts(d, {"ctx"})'
        /\ ~Converts(d, {"mark", "mwait", "mwait_exit"})'
    BY <1>3
  <2> QED
    BY <2>4, <2>5 DEF CallsAt
<1>8. ASSUME NEW d \in CPU, Known(d)' PROVE CallsAt(d)'
  BY <1>4, <1>7, <1>8
<1> QED
  BY <1>5, <1>6, <1>8 DEF CInv

(* A fix-up leaves the calls alone that the event keeps.                   *)
LEMMA FixupKeepsCInv ==
    ASSUME CInv, UNCHANGED kvars, ~Reading, NEW c \in CPU, c = event.cpu,
           event.kind \in {"call", "ret"}, UNCHANGED event,
           NEW st, Edits(c, st), st.eventnum[1] = Owner(c),
           StackCalls(st) \cap Kept(event) = StackCalls(cpu_stack[c]) \cap Kept(event)
    PROVE  CInv'
<1> DEFINE t == TaskOn(c)
<1>1. cpu_stack'[c] = st
  BY DEF Edits
<1>2. \A K : (Converts(c, K)' <=> event.kind \in K) /\ (Converts(c, K) <=> event.kind \in K)
  BY DEF Converts, Reading
<1>3. /\ Seen(t)' = Seen(t) /\ TaskOn(c)' = t /\ strayed' = strayed
  BY KernelStill
<1>4. ASSUME Known(c) PROVE CallsAt(c)'
  <2>1. /\ Follow(cpu_stack[c], t, event)
        /\ IF event.num = Sched THEN event.dur = 0
           ELSE event.num \in Seen(t) <=> event.kind = "call" /\ event.dur = 0
    BY <1>2, <1>4 DEF CInv, CallsAt
  <2>2. Follow(st, t, event)
    BY <2>1, FollowCalls
  <2>3. Follow(cpu_stack[c], TaskOn(c), event)'
    BY <1>1, <1>3, <2>2 DEF Follow
  <2>4. (IF event.num = Sched THEN event.dur = 0
         ELSE event.num \in Seen(TaskOn(c)) <=> event.kind = "call" /\ event.dur = 0)'
    BY <1>3, <2>1
  <2>5. Converts(c, {"call", "ret"})' /\ ~Converts(c, {"ctx"})'
        /\ ~Converts(c, {"mark", "mwait", "mwait_exit"})' /\ Converts(c, {"call", "ret", "ctx"})'
    BY <1>2
  <2> QED
    BY <2>3, <2>4, <2>5 DEF CallsAt
<1> QED
  BY <1>4, StackKeepsCInv

(* What a pop of a call does that the event does not keep.                 *)
LEMMA PopKeeps ==
    ASSUME NEW s, Nested(s), 1 < Len(s), NEW K, s[Len(s)] \notin K
    PROVE  Above(Front(s), 1) \cap K = Above(s, 1) \cap K
  BY StackFront

LEMMA FrontCalls ==
    ASSUME NEW s, Nested(s), 1 < Len(s), NEW e, e.kind \in {"call", "ret"}, e.num \in Call,
           ~(NestLevel(s[Len(s)]) < NestLevel(e.num))
    PROVE  Above(Front(s), 1) \cap Kept(e) = Above(s, 1) \cap Kept(e)
<1>1. s[Len(s)] \in Call
  BY StackFront
<1>2. s[Len(s)] \notin Kept(e)
  BY <1>1, KeptFacts
<1> QED
  BY <1>2, PopKeeps

LEMMA PopFixupKeepsCInv ==
    ASSUME RInv, IInv, CInv, UNCHANGED kvars,
           FixupReturnPop \/ FixupSched \/ FixupCall \/ FixupResched
    PROVE  CInv'
<1> DEFINE c == event.cpu
           s == Stack.eventnum
<1>1. ~Reading /\ UNCHANGED event
      /\ (FixupReturnPop => event.kind = "ret")
      /\ (~FixupReturnPop => event.kind = "call")
  BY DEF FixupReturnPop, FixupSched, FixupCall, FixupResched, NeedsSched, NeedsPop, NeedsResched,
         IsACall, IsAReturn, IsSchedCallEvent
<1>2. event.num \in Call /\ c \in CPU /\ Nested(s) /\ Len(s) \in 1 .. 5
      /\ TOS(Stack) = s[Len(s)] /\ (TOS(Stack) \in Call => 1 < Len(s))
  BY <1>1, Converting, TopFacts DEF GoodState, TOS
<1>3. NestLevel(event.num) \in 1 .. 4 /\ NestLevel(TOS(Stack)) \in 0 .. 4
      /\ (NestLevel(TOS(Stack)) # 0 => 1 < Len(s))
  BY <1>2, LevelFacts, TopFacts
<1>4. ASSUME FixupReturnPop PROVE ~(NestLevel(TOS(Stack)) < NestLevel(event.num))
  <2>1. CASE CallFound(event)
    <3>1. PICK i \in 2 .. Len(s) : s[i] = event.num
      BY <2>1 DEF CallFound
    <3>2. i \in 1 .. Len(s) /\ Len(s) \in 1 .. Len(s)
      BY <1>2, <3>1
    <3>3. i < Len(s) => NestLevel(s[i]) < NestLevel(s[Len(s)])
      BY <1>2, <3>2 DEF Nested
    <3> QED
      BY <1>2, <1>3, <3>1, <3>2, <3>3
  <2>2. CASE NestLevel(event.num) <= NestLevel(TOS(Stack))
    BY <1>3, <2>2
  <2> QED
    BY <1>4, <2>1, <2>2 DEF FixupReturnPop
<1>5. ASSUME FixupSched PROVE ~(NestLevel(TOS(Stack)) < NestLevel(event.num))
  <2>1. TOS(Stack) = Sched
    BY <1>5 DEF FixupSched, NeedsSched
  <2> QED
    BY <1>3, <2>1, LevelFacts
<1>6. ASSUME FixupCall PROVE ~(NestLevel(TOS(Stack)) < NestLevel(event.num))
  BY <1>3, <1>6 DEF FixupCall, NeedsPop
<1>7. ASSUME FixupResched
      PROVE  event.num = Sched /\ TOS(Stack) = Resched /\ 1 < Len(s)
  <2>1. event.num = Sched /\ TOS(Stack) = Resched
    BY <1>7 DEF FixupResched, NeedsResched, IsSchedCallEvent
  <2> QED
    BY <1>2, <2>1, LevelFacts
<1>8. Above(Front(s), 1) \cap Kept(event) = Above(s, 1) \cap Kept(event)
  <2>1. CASE FixupResched
    <3>1. Resched \notin Kept(event)
      BY <1>1, <1>2, <1>7, <2>1, KeptFacts DEF FixupResched, NeedsResched, IsSchedCallEvent, IsACall
    <3> QED
      BY <1>2, <1>7, <2>1, <3>1, PopKeeps
  <2>2. CASE FixupReturnPop \/ FixupSched \/ FixupCall
    <3>1. ~(NestLevel(TOS(Stack)) < NestLevel(event.num))
      BY <1>4, <1>5, <1>6, <2>2
    <3>2. 1 < Len(s)
      BY <1>3, <3>1
    <3> QED
      BY <1>1, <1>2, <3>1, <3>2, FrontCalls
  <2> QED
    BY <2>1, <2>2
<1>9. \E st : Edits(c, st) /\ st.eventnum[1] = Owner(c) /\ st.eventnum = Front(s)
  <2>1. ASSUME NEW ts, Inserts(ts)
        PROVE  \E st : Edits(c, st) /\ st.eventnum[1] = Owner(c) /\ st.eventnum = Front(s)
    BY <2>1, InsertedReturnEdits DEF Pops, Front, Stack
  <2>2. CASE FixupReturnPop \/ FixupSched \/ FixupCall
    BY <2>1, <2>2, FixupFacts
  <2>3. CASE FixupResched
    BY <2>3, ReschedEdits
  <2> QED
    BY <2>2, <2>3
<1>10. PICK st : Edits(c, st) /\ st.eventnum[1] = Owner(c) /\ st.eventnum = Front(s)
  BY <1>9
<1>11. StackCalls(st) \cap Kept(event) = StackCalls(cpu_stack[c]) \cap Kept(event)
  BY <1>8, <1>10 DEF StackCalls, Stack
<1> QED
  BY <1>1, <1>2, <1>10, <1>11, FixupKeepsCInv

LEMMA ReturnCallKeepsCInv ==
    ASSUME RInv, IInv, CInv, UNCHANGED kvars, FixupReturnCall
    PROVE  CInv'
<1> DEFINE c == event.cpu
           s == cpu_stack[c].eventnum
<1>1. ~Reading /\ UNCHANGED event /\ c \in CPU /\ event.kind = "ret"
      /\ ~IsOptimizedCall(MissingCall)
      /\ MissingCall.num = event.num /\ MissingCall.kind = "call"
  BY InsertedCallEdits, Converting DEF IsAReturn, Lines, MissingCall
<1>2. PICK st : Pushes(c, st, MissingCall)
  BY InsertedCallEdits
<1>3. PICK r \in Bases(c, MissingCall) : st.eventnum = Append(r, event.num)
  BY <1>1, <1>2 DEF Pushes
<1>4. event.num \in Call /\ Nested(s) /\ s[1] \in Pid /\ s[1] = Owner(c)
  BY <1>1, Converting, TopFacts DEF GoodState, Stack, Owner
<1>5. Nested(r) /\ Above(r, 1) \cap Kept(event) = Above(s, 1) \cap Kept(event)
  <2>1. CASE r = s
    BY <1>4, <2>1
  <2>2. CASE OnlyInUserMode(MissingCall) /\ r = <<Owner(c)>>
    <3>1. event.num \in Syscalls
      BY <1>1, <2>2 DEF OnlyInUserMode, IsACall
    <3>2. NestLevel(event.num) = 1
      BY <3>1, SchedLevel
    <3>3. \A x \in Call : ~(NestLevel(x) < NestLevel(event.num))
      BY <3>2, LevelFacts
    <3>4. Kept(event) = {}
      BY <1>1, <3>3 DEF Kept
    <3> QED
      BY <1>4, <2>2, <3>4, BottomNested
  <2> QED
    BY <1>3, <2>1, <2>2 DEF Bases
<1>6. Above(st.eventnum, 1) = Above(r, 1) \cup ({event.num} \ {Sched})
  BY <1>3, <1>4, <1>5, StackAppend
<1>7. event.num \notin Kept(event)
  BY <1>1, <1>4, KeptFacts
<1>8. StackCalls(st) \cap Kept(event) = StackCalls(cpu_stack[c]) \cap Kept(event)
  BY <1>5, <1>6, <1>7 DEF StackCalls
<1> QED
  BY <1>1, <1>2, <1>8, FixupKeepsCInv DEF Pushes

(* The exit from an idle state changes no stack.                           *)
LEMMA CexitKeepsCInv ==
    ASSUME RInv, IInv, CInv, UNCHANGED kvars, FixupCexit
    PROVE  CInv'
<1>1. ~Reading /\ UNCHANGED event /\ event.cpu \in CPU
  BY CexitEdits
<1>2. PICK c \in CPU : c = event.cpu
  BY <1>1
<1>3. PICK st : Edits(c, st) /\ st.eventnum[1] = Owner(c) /\ st.eventnum = cpu_stack[c].eventnum
  BY <1>2, CexitEdits DEF Settles
<1>4. cpu_stack'[c] = st /\ Owner(c)' = Owner(c)
  BY <1>3 DEF Edits, Owner
<1>5. \A K : Converts(c, K)' <=> Converts(c, K)
  BY <1>1, <1>2 DEF Converts, Reading
<1>6. StackCalls(st) = StackCalls(cpu_stack[c])
  BY <1>3 DEF StackCalls
<1>7. ASSUME Known(c) PROVE CallsAt(c)'
  <2>1. CallsAt(c)
    BY <1>7 DEF CInv
  <2>2. /\ UNCHANGED <<on, thread, heard, event>>
        /\ Seen(TaskOn(c))' = Seen(TaskOn(c)) /\ AllCalls(c)' = AllCalls(c) /\ Seen(c)' = Seen(c)
        /\ Seen(Owner(c))' = Seen(Owner(c))
        /\ TaskOn(c)' = TaskOn(c) /\ strayed' = strayed
    BY <1>1, KernelStill, <1>4 DEF kvars, Seen
  <2>3. \A t : Holds(st, t) <=> Holds(cpu_stack[c], t)
    BY <1>6, HoldsCalls
  <2>4. \A t, e : Follow(st, t, e) <=> Follow(cpu_stack[c], t, e)
    BY <1>6 DEF Follow
  <2>5. Holds(cpu_stack[c], TaskOn(c))' <=> Holds(cpu_stack[c], TaskOn(c))
    BY <1>4, <2>2, <2>3 DEF Holds
  <2>6. Holds(cpu_stack[c], Owner(c))' <=> Holds(cpu_stack[c], Owner(c))
    BY <1>4, <2>2, <2>3 DEF Holds
  <2>7. HeaderIdle(c)' <=> HeaderIdle(c)
    BY <1>4, <1>6, <2>2 DEF HeaderIdle
  <2>8. Follow(cpu_stack[c], TaskOn(c), event)' <=> Follow(cpu_stack[c], TaskOn(c), event)
    BY <1>4, <2>2, <2>4 DEF Follow
  <2> QED
    BY <1>4, <1>5, <2>1, <2>2, <2>5, <2>6, <2>7, <2>8 DEF CallsAt
<1> QED
  BY <1>1, <1>2, <1>3, <1>7, StackKeepsCInv

(* An event that has been converted leaves a stack that holds.             *)
LEMMA HoldsKeepsCInv ==
    ASSUME CInv, UNCHANGED kvars, ~Reading, NEW c \in CPU, c = event.cpu,
           event.kind # "ctx", Goes,
           NEW st, Edits(c, st), st.eventnum[1] = Owner(c),
           Known(c) => Holds(st, TaskOn(c)) \/ (HeaderIdle(c) /\ StackCalls(st) = AllCalls(c))
    PROVE  CInv'
<1> DEFINE t == TaskOn(c)
<1>1. event' = NoEvent \/ event' = RunnableAfter(event)
  BY DEF Goes
<1>2. \A K : Converts(c, K)' => "wakeup" \in K
  BY <1>1 DEF Converts, Reading, RunnableAfter
<1>3. ~Converts(c, {"call", "ret"})' /\ ~Converts(c, {"ctx"})'
      /\ ~Converts(c, {"mark", "mwait", "mwait_exit"})'
  BY <1>2
<1>4. /\ Seen(t)' = Seen(t) /\ AllCalls(c)' = AllCalls(c) /\ Seen(c)' = Seen(c) /\ TaskOn(c)' = t
      /\ strayed' = strayed /\ UNCHANGED <<on, heard>>
  BY KernelStill
<1>5. cpu_stack'[c] = st
  BY DEF Edits
<1>6. ASSUME Known(c) PROVE CallsAt(c)'
  <2>1. CASE Holds(st, t)
    <3>1. Holds(cpu_stack[c], TaskOn(c))'
      BY <1>4, <1>5, <2>1 DEF Holds
    <3> QED
      BY <1>3, <3>1 DEF CallsAt
  <2>2. CASE HeaderIdle(c) /\ StackCalls(st) = AllCalls(c)
    <3>1. HeaderIdle(c)'
      BY <1>4, <1>5, <2>2 DEF HeaderIdle
    <3> QED
      BY <1>3, <3>1 DEF CallsAt
  <2> QED
    BY <1>6, <2>1, <2>2
<1>7. event' = event \/ Reading' \/ event' = RunnableAfter(event)
  BY <1>1 DEF Reading
<1> QED
  BY <1>6, <1>7, StackKeepsCInv

(* The call itself: all that is below it is kept.                          *)
LEMMA CallKeepsCInv ==
    ASSUME RInv, IInv, CInv, UNCHANGED kvars, NEW c \in CPU, c = event.cpu,
           ~Reading, Settled, Goes, event.kind = "call", NEW st, Pushes(c, st, event)
    PROVE  CInv'
<1> DEFINE s == cpu_stack[c].eventnum
           t == TaskOn(c)
<1>1. event.num \in Call /\ Nested(s) /\ s[1] \in Pid /\ s[1] = Owner(c) /\ event.dur \in Nat
      /\ NestLevel(TOS(Stack)) \in 0 .. 4 /\ TOS(Stack) = s[Len(s)] /\ IsACall(event)
  BY Converting, TopFacts DEF GoodState, Stack, Owner, TOS, IsACall, Lines
<1>2. NestLevel(event.num) \in 1 .. 4
  BY <1>1, LevelFacts
<1>3. NestLevel(s[Len(s)]) < NestLevel(event.num)
  BY <1>1, <1>2 DEF Settled, NeedsPop
<1>4. \A x \in Above(s, 1) : x \in Call /\ x # Sched /\ NestLevel(x) < NestLevel(event.num)
  <2> TAKE x \in Above(s, 1)
  <2>1. x \in Call /\ x # Sched /\ NestLevel(x) <= NestLevel(s[Len(s)])
    BY <1>1, StackCallTypes
  <2>2. NestLevel(x) \in 1 .. 4
    BY <2>1, LevelFacts
  <2> QED
    BY <1>1, <1>2, <1>3, <2>1, <2>2
<1>5. event.num = Sched => Resched \notin Above(s, 1)
  <2> SUFFICES ASSUME event.num = Sched, Resched \in Above(s, 1) PROVE FALSE
    OBVIOUS
  <2>1. s[Len(s)] # Resched
    BY <1>1 DEF Settled, NeedsResched, IsSchedCallEvent
  <2>2. Len(s) \in 1 .. 5
    BY <1>1, TopFacts
  <2>3. PICK i \in 2 .. Len(s) : s[i] = Resched
    BY <2>2 DEF Above
  <2>4. i \in 1 .. Len(s) /\ Len(s) \in 1 .. Len(s) /\ i < Len(s)
    BY <2>1, <2>2, <2>3
  <2>5. 3 < NestLevel(s[Len(s)])
    BY <1>1, <2>3, <2>4, LevelFacts DEF Nested
  <2> QED
    BY <1>1, <1>2, <1>3, <2>5, LevelFacts
<1>6. Above(s, 1) \subseteq Kept(event)
  <2> SUFFICES ASSUME NEW x \in Above(s, 1) PROVE x \in Kept(event)
    OBVIOUS
  <2>1. CASE event.num = Sched
    BY <1>1, <1>4, <1>5, <2>1, KeptFacts
  <2>2. CASE event.num # Sched
    BY <1>1, <1>4, <2>2, KeptFacts
  <2> QED
    BY <2>1, <2>2
<1>7. PICK r \in Bases(c, event) :
         st.eventnum = IF IsOptimizedCall(event) THEN r ELSE Append(r, event.num)
  BY DEF Pushes
<1>8. Nested(r) /\ Above(r, 1) = Above(s, 1)
  <2>1. CASE r = s
    BY <1>1, <2>1
  <2>2. CASE OnlyInUserMode(event) /\ r = <<Owner(c)>>
    <3>1. Above(s, 1) = {}
      BY <1>1, <1>6, <2>2, KeptFacts
    <3> QED
      BY <1>1, <2>2, <3>1, BottomNested, BareStack
  <2> QED
    BY <1>7, <2>1, <2>2 DEF Bases
<1>9. StackCalls(st) = IF 0 < event.dur THEN Above(s, 1)
                                        ELSE Above(s, 1) \cup ({event.num} \ {Sched})
  <2>1. IsOptimizedCall(event) <=> 0 < event.dur
    BY <1>1 DEF IsOptimizedCall
  <2>2. Above(Append(r, event.num), 1) = Above(r, 1) \cup ({event.num} \ {Sched})
    BY <1>1, <1>8, StackAppend
  <2> QED
    BY <1>7, <1>8, <2>1, <2>2 DEF StackCalls
<1>10. ASSUME Known(c) PROVE Holds(st, t)
  <2>1. Converts(c, {"call", "ret"})
    BY DEF Converts
  <2>2. /\ Follow(cpu_stack[c], t, event)
        /\ IF event.num = Sched THEN event.dur = 0
           ELSE event.num \in Seen(t) <=> event.kind = "call" /\ event.dur = 0
    BY <1>10, <2>1 DEF CInv, CallsAt
  <2>3. StackCalls(cpu_stack[c]) \cap Kept(event) = Above(s, 1)
    BY <1>6 DEF StackCalls
  <2>4. Sched \notin Seen(t)
    BY DEF Seen, Above
  <2>5. IF t \in strayed THEN Seen(t) \ {event.num} \subseteq Above(s, 1)
        ELSE Above(s, 1) = Seen(t) \ {event.num}
    BY <2>2, <2>3 DEF Follow
  <2>6. 0 < event.dur <=> event.dur # 0
    BY <1>1
  <2> QED
    BY <1>9, <2>2, <2>4, <2>5, <2>6 DEF Holds
<1> QED
  BY <1>10, HoldsKeepsCInv DEF Pushes

(* The return itself: all that is below the call on top is kept.           *)
LEMMA ReturnKeepsCInv ==
    ASSUME RInv, IInv, CInv, UNCHANGED kvars, NEW c \in CPU, c = event.cpu,
           ~Reading, Settled, Goes, event.kind = "ret", NEW st, Pops(c, st)
    PROVE  CInv'
<1> DEFINE s == cpu_stack[c].eventnum
           t == TaskOn(c)
<1>1. event.num \in Call /\ Nested(s) /\ TOS(Stack) = s[Len(s)] /\ IsAReturn(event)
  BY Converting DEF GoodState, Stack, TOS, IsAReturn
<1>2. NestLevel(s[Len(s)]) = NestLevel(event.num) /\ s[Len(s)] \in Call
  BY <1>1, LevelFacts DEF Settled, Matches
<1>3. Len(s) \in 1 .. 5 /\ 1 < Len(s)
  BY <1>1, <1>2, TopFacts
<1>4. Above(Front(s), 1) \cap Kept(event) = Above(s, 1) \cap Kept(event)
  <2>1. NestLevel(s[Len(s)]) \in 1 .. 4
    BY <1>2, LevelFacts
  <2> QED
    BY <1>1, <1>2, <1>3, <2>1, FrontCalls
<1>5. Above(Front(s), 1) \subseteq Kept(event)
  BY <1>1, <1>2, <1>3, StackFront, KeptFacts
<1>6. StackCalls(st) = StackCalls(cpu_stack[c]) \cap Kept(event)
  BY <1>4, <1>5 DEF Pops, StackCalls, Front
<1>7. ASSUME Known(c) PROVE Holds(st, t)
  <2>1. Converts(c, {"call", "ret"})
    BY DEF Converts
  <2>2. Follow(cpu_stack[c], t, event) /\ event.num \notin Seen(t)
    <3>1. Sched \notin Seen(t)
      BY DEF Seen, Above
    <3> QED
      BY <1>7, <2>1, <3>1 DEF CInv, CallsAt
  <2> QED
    BY <1>6, <2>2 DEF Follow, Holds
<1> QED
  BY <1>7, HoldsKeepsCInv DEF Pops

(* Events between calls leave the stack alone, unless they tell that the   *)
(* process is back in user mode; then it is in no call.                    *)
LEMMA SettleKeepsCInv ==
    ASSUME RInv, IInv, CInv, UNCHANGED kvars, NEW c \in CPU, c = event.cpu,
           ~Reading, event' = NoEvent, event.kind \in Points,
           NEW st, Settles(c, st, event)
    PROVE  CInv'
<1> DEFINE t == TaskOn(c)
<1>1. Goes /\ event.kind \notin {"call", "ret", "ctx"}
  BY DEF Goes, Points
<1>2. ASSUME Known(c)
      PROVE  Holds(st, t) \/ (HeaderIdle(c) /\ StackCalls(st) = AllCalls(c))
  <2>1. Holds(cpu_stack[c], t) \/ HeaderIdle(c)
    BY <1>1, <1>2 DEF CInv, CallsAt, Converts
  <2>2. CASE st.eventnum = cpu_stack[c].eventnum
    <3>1. StackCalls(st) = StackCalls(cpu_stack[c])
      BY <2>2 DEF StackCalls
    <3> QED
      BY <2>1, <3>1, HoldsCalls DEF HeaderIdle
  <2>3. CASE OnlyInUserMode(event) /\ st.eventnum = <<Owner(c)>>
    <3>1. event.kind \in {"mark", "mwait", "mwait_exit"}
      BY <1>1, <2>3 DEF OnlyInUserMode, IsACall
    <3>2. thread[t] = <<>>
      BY <1>2, <3>1 DEF CInv, CallsAt, Converts
    <3>3. t \in Task /\ hidden[t] \in Nat
      BY TaskFacts DEF RInv, CInv, ThreadsNest
    <3>4. hidden[t] + 1 .. 0 = {}
      BY <3>3
    <3>5. Seen(t) = {}
      BY <3>2, <3>4 DEF Seen, Above
    <3>6. StackCalls(st) = {}
      BY <2>3, BareStack DEF StackCalls
    <3> QED
      BY <3>5, <3>6 DEF Holds
  <2> QED
    BY <2>2, <2>3 DEF Settles, Bases
<1> QED
  BY <1>1, <1>2, HoldsKeepsCInv DEF Settles

(* A switch takes up the stack that was put away with the process.         *)
LEMMA ContextKeepsCInv ==
    ASSUME RInv, IInv, CInv, ~Reading, UNCHANGED kvars, event.kind = "ctx",
           event' = NoEvent, ProcessContextSwitch(event), NEW c, c = event.cpu
    PROVE  CInv'
<1> DEFINE q == event.pid
           p == Owner(c)
<1>1. c \in CPU /\ q \in Pid /\ StackType /\ StacksNest /\ KType
  BY Converting DEF IInv, RInv
<1>2. \A d, K : ~Converts(d, K)'
  BY DEF Converts, Reading
<1>3. Converts(c, {"ctx"}) /\ \A d, K : d # c => ~Converts(d, K)
  BY DEF Converts
<1>4. Announced(c) /\ q = on[c] /\ (\A d \in CPU : Owner(d) = q => q = Idle)
      /\ (\A d, f \in CPU : Owner(d) = Owner(f) /\ Owner(d) # Idle => d = f)
  BY <1>1, <1>3 DEF RInv, OwnersTrue
<1>5. /\ UNCHANGED <<on, thread, hidden, heard, strayed, cut>>
      /\ \A t : Seen(t)' = Seen(t) /\ AllCalls(t)' = AllCalls(t)
      /\ \A d : TaskOn(d)' = TaskOn(d) /\ (Known(d)' <=> Known(d)) /\ (Announced(d)' <=> Announced(d))
      /\ \A r, t : Holds(r, t)' <=> Holds(r, t)
  BY KernelStill
<1>6. p \in Pid
  BY <1>1, StackFacts, TopFacts DEF GoodState, Owner
<1>7. \A d \in CPU \ {c} : cpu_stack'[d] = cpu_stack[d] /\ Owner(d)' = Owner(d)
  BY <1>1, SwitchEdits DEF Owner
<1>8. p = q => UNCHANGED perpidstate /\ cpu_stack'[c].eventnum = cpu_stack[c].eventnum
  BY <1>1, SwitchEdits
<1>9. p # q =>
         /\ cpu_stack'[c] = IF perpidstate[q] = NoState THEN BrandNewPid(q) ELSE perpidstate[q]
         /\ p # Idle => perpidstate'[p].eventnum = cpu_stack[c].eventnum
         /\ \A r \in Pid : (r # p \/ r = Idle) =>
               \/ perpidstate'[r] = perpidstate[r]
               \/ r = q /\ perpidstate'[r] = BrandNewPid(r)
  BY <1>1, SwitchEdits
<1>10. \A r : /\ BrandNewPid(r).eventnum = <<r, Sched>> /\ BrandNewPid(r).eventnum[1] = r
              /\ StackCalls(BrandNewPid(r)) = {}
  BY BareStack DEF BrandNewPid, StackCalls
<1>11. Owner(c)' = q
  <2>1. CASE p = q
    BY <1>8, <2>1 DEF Owner
  <2>2. CASE p # q
    BY <1>1, <1>9, <1>10, <2>2 DEF RInv, RpcsTrue, Owner
  <2> QED
    BY <2>1, <2>2
<1>12. ThreadsNest'
  <2>1. perpidstate'[Idle].eventnum = <<Idle, Sched>>
    <3>1. perpidstate[Idle].eventnum = <<Idle, Sched>> /\ Idle \in Pid
      BY CallAssumption DEF CInv, ThreadsNest
    <3> QED
      BY <1>8, <1>9, <1>10, <3>1
  <2> QED
    BY <1>5, <2>1 DEF CInv, ThreadsNest, Lost
<1>13. CallsAt(c)
  BY <1>1, <1>4 DEF CInv, Known
<1>14. Absent(q) \/ q = Idle
  <2> SUFFICES ASSUME q # Idle, NEW d \in CPU PROVE Owner(d) # q /\ (on[d] = q => Announced(d))
    BY DEF Absent
  <2>1. on[d] = q => d = c
    BY <1>1, <1>4 DEF RInv, OneCPU
  <2> QED
    BY <1>4, <2>1
<1>15. CallsAt(c)'
  <2>1. CASE p = q
    <3>1. HeaderIdle(c)
      BY <1>3, <1>4, <1>13, <2>1 DEF CallsAt
    <3>2. StackCalls(cpu_stack[c])' = StackCalls(cpu_stack[c])
      BY <1>8, <2>1 DEF StackCalls
    <3>3. HeaderIdle(c)'
      BY <1>5, <3>1, <3>2 DEF HeaderIdle
    <3> QED
      BY <1>2, <3>3 DEF CallsAt
  <2>2. CASE p # q /\ q = Idle
    <3>1. TaskOn(c) = c /\ Seen(c) = {}
      <4>1. Seen(c) = {}
        BY <1>3, <1>4, <1>13, <2>2 DEF CallsAt
      <4> QED
        BY <1>4, <2>2, <4>1 DEF TaskOn
    <3>2. StackCalls(cpu_stack[c])' = {}
      <4>1. perpidstate[Idle].eventnum = <<Idle, Sched>>
        BY DEF CInv, ThreadsNest
      <4>2. cpu_stack'[c].eventnum = <<Idle, Sched>>
        BY <1>9, <1>10, <2>2, <4>1
      <4> QED
        BY <4>2, BareStack DEF StackCalls
    <3>3. (Holds(cpu_stack[c], TaskOn(c)))'
      BY <1>5, <3>1, <3>2 DEF Holds
    <3> QED
      BY <1>2, <3>3 DEF CallsAt
  <2>3. CASE p # q /\ q # Idle
    <3>1. TaskOn(c) = q /\ q \in Proc
      BY <1>1, <1>4, <2>3 DEF TaskOn, Proc
    <3>2. IF perpidstate[q] = NoState THEN Seen(q) = {} ELSE Holds(perpidstate[q], q)
      BY <1>14, <2>3, <3>1 DEF CInv, AsideTrue
    <3>3. Holds(cpu_stack'[c], q)
      <4>1. CASE perpidstate[q] = NoState
        BY <1>9, <1>10, <2>3, <3>2, <4>1 DEF Holds
      <4>2. CASE perpidstate[q] # NoState
        BY <1>9, <2>3, <3>2, <4>2
      <4> QED
        BY <4>1, <4>2
    <3>4. (Holds(cpu_stack[c], TaskOn(c)))'
      BY <1>5, <3>1, <3>3 DEF Holds
    <3> QED
      BY <1>2, <3>4 DEF CallsAt
  <2> QED
    BY <2>1, <2>2, <2>3
<1>16. ASSUME NEW d \in CPU \ {c}, Known(d) PROVE CallsAt(d)'
  <2>1. Holds(cpu_stack[d], TaskOn(d)) \/ HeaderIdle(d)
    BY <1>3, <1>16 DEF CInv, CallsAt
  <2>2. Holds(cpu_stack[d], TaskOn(d))' <=> Holds(cpu_stack[d], TaskOn(d))
    BY <1>5, <1>7 DEF Holds
  <2>3. HeaderIdle(d)' <=> HeaderIdle(d)
    BY <1>5, <1>7 DEF HeaderIdle
  <2>4. (Holds(cpu_stack[d], TaskOn(d)) \/ HeaderIdle(d))'
    BY <2>1, <2>2, <2>3
  <2> QED
    BY <1>2, <2>4 DEF CallsAt
<1>17. ASSUME NEW d \in CPU, Known(d)' PROVE CallsAt(d)'
  BY <1>5, <1>15, <1>16, <1>17
<1>18. ASSUME NEW r \in Proc, Absent(r)'
       PROVE  IF perpidstate'[r] = NoState THEN Seen(r) = {} ELSE Holds(perpidstate'[r], r)
  <2>1. r # q /\ r \in Pid /\ r # Idle
    BY <1>1, <1>11, <1>18 DEF Proc, Absent
  <2>2. CASE p = r
    <3>1. Holds(cpu_stack[c], r)
      BY <1>3, <1>4, <1>13, <2>1, <2>2 DEF CallsAt
    <3>2. perpidstate'[r].eventnum = cpu_stack[c].eventnum
      BY <1>9, <2>1, <2>2
    <3>3. perpidstate'[r] # NoState
      <4>1. cpu_stack[c].eventnum # <<>>
        BY <1>1, StackFacts DEF GoodState, Nested
      <4> QED
        BY <3>2, <4>1 DEF NoState
    <3>4. StackCalls(perpidstate'[r]) = StackCalls(cpu_stack[c])
      BY <3>2 DEF StackCalls
    <3> QED
      BY <3>1, <3>3, <3>4, HoldsCalls
  <2>3. CASE p # r
    <3>1. Absent(r)
      BY <1>5, <1>7, <1>18, <2>3 DEF Absent
    <3>2. perpidstate'[r] = perpidstate[r]
      BY <1>8, <1>9, <2>1, <2>3
    <3> QED
      BY <3>1, <3>2 DEF CInv, AsideTrue
  <2> QED
    BY <2>2, <2>3
<1>19. AsideTrue'
  BY <1>5, <1>18 DEF AsideTrue
<1> QED
  BY <1>12, <1>17, <1>19 DEF CInv

LEMMA ConvertKeepsCInv ==
    ASSUME RInv, IInv, CInv, Convert, UNCHANGED kvars
    PROVE  CInv'
<1>1. CASE FixupReturnPop \/ FixupSched \/ FixupCall \/ FixupResched
  BY <1>1, PopFixupKeepsCInv
<1>2. CASE FixupReturnCall
  BY <1>2, ReturnCallKeepsCInv
<1>3. CASE FixupCexit
  BY <1>3, CexitKeepsCInv
<1>4. CASE ProcessEvent
  <2>1. ~Reading /\ Settled /\ event.cpu \in CPU /\ Goes
    BY <1>4, EventEdits
  <2>2. PICK c \in CPU : c = event.cpu
    BY <2>1
  <2>3. CASE event.kind = "call" /\ \E st : Pushes(c, st, event)
    BY <2>1, <2>2, <2>3, CallKeepsCInv
  <2>4. CASE event.kind = "ret" /\ \E st : Pops(c, st)
    BY <2>1, <2>2, <2>4, ReturnKeepsCInv
  <2>5. CASE event.kind = "ctx" /\ ProcessContextSwitch(event) /\ event' = NoEvent
    BY <2>1, <2>2, <2>5, ContextKeepsCInv
  <2>6. CASE event.kind \in Points /\ event' = NoEvent /\ \E st : Settles(c, st, event)
    BY <2>1, <2>2, <2>6, SettleKeepsCInv
  <2> QED
    BY <1>4, <2>2, <2>3, <2>4, <2>5, <2>6, EventEdits DEF Points
<1> QED
  BY <1>1, <1>2, <1>3, <1>4 DEF Convert

(***************************************************************************)
(* Which calls are on the stacks: steps of the kernel                      *)
(***************************************************************************)

TaskStays(t) ==
    /\ thread'[t] = thread[t] /\ hidden'[t] = hidden[t]
    /\ (t \in strayed' <=> t \in strayed) /\ (t \in cut' <=> t \in cut)

LEMMA OthersKeepCalls ==
    ASSUME RInv, CInv, NEW c \in CPU, Hands(c), ThreadsNest', Known(c)' => CallsAt(c)',
           \A t \in Task \ {TaskOn(c)} : TaskStays(t),
           \A d \in CPU \ {c} : on'[d] = on[d] /\ heard'[d] = heard[d],
           \A p \in Proc : Absent(p)' =>
              \/ Absent(p) /\ p # TaskOn(c)
              \/ perpidstate[p] = NoState /\ Seen(p)' = {}
    PROVE  CInv'
<1>1. /\ \A d, K : ~Converts(d, K)
      /\ \A d, K : Converts(d, K)' <=> d = c /\ event'.kind \in K
      /\ UNCHANGED <<cpu_stack, perpidstate>> /\ \A d : Owner(d)' = Owner(d)
  BY HandsConverts
<1>2. \A t : TaskStays(t) => Seen(t)' = Seen(t) /\ AllCalls(t)' = AllCalls(t)
  BY DEF TaskStays, Seen, AllCalls, Lost
<1>3. KType /\ OneCPU
  BY DEF RInv
<1>4. ASSUME NEW d \in CPU \ {c}, Known(d)' PROVE CallsAt(d)'
  <2>1. on'[d] = on[d] /\ heard'[d] = heard[d]
    OBVIOUS
  <2>2. Known(d) /\ TaskOn(d)' = TaskOn(d)
    BY <1>4, <2>1 DEF Known, Announced, TaskOn
  <2>3. TaskStays(TaskOn(d))
    BY <1>3, TaskFacts, OtherTasks
  <2>4. Holds(cpu_stack[d], TaskOn(d)) \/ HeaderIdle(d)
    BY <1>1, <2>2 DEF CInv, CallsAt
  <2>5. Holds(cpu_stack[d], TaskOn(d)) => Holds(cpu_stack[d], TaskOn(d))'
    BY <1>1, <1>2, <2>2, <2>3 DEF Holds, TaskStays
  <2>6. HeaderIdle(d) => HeaderIdle(d)'
    BY <1>1, <1>2, <2>1, <2>3 DEF HeaderIdle, TaskOn
  <2>7. (Holds(cpu_stack[d], TaskOn(d)) \/ HeaderIdle(d))'
    BY <2>4, <2>5, <2>6
  <2>8. \A K : ~Converts(d, K)'
    BY <1>1
  <2> QED
    BY <2>7, <2>8 DEF CallsAt
<1>5. ASSUME NEW p \in Proc, Absent(p)'
      PROVE  (IF perpidstate[p] = NoState THEN Seen(p) = {} ELSE Holds(perpidstate[p], p))'
  <2>1. CASE perpidstate[p] = NoState /\ Seen(p)' = {}
    BY <1>1, <2>1
  <2>2. CASE Absent(p) /\ p # TaskOn(c)
    <3>1. IF perpidstate[p] = NoState THEN Seen(p) = {} ELSE Holds(perpidstate[p], p)
      BY <2>2 DEF CInv, AsideTrue
    <3>2. TaskStays(p)
      BY <2>2 DEF Task
    <3> QED
      BY <1>1, <1>2, <3>1, <3>2 DEF Holds, TaskStays
  <2> QED
    BY <1>5, <2>1, <2>2
<1>6. AsideTrue'
  BY <1>5 DEF AsideTrue
<1>7. ASSUME NEW d \in CPU, Known(d)' PROVE CallsAt(d)'
  BY <1>4, <1>7
<1> QED
  BY <1>6, <1>7 DEF CInv

(* While a CPU runs a process whose header has come, that process is not   *)
(* one that was put aside.                                                 *)
LEMMA PresentTask ==
    ASSUME RInv, NEW c \in CPU, Reading, NEW p \in Proc, Absent(p)
    PROVE  p # TaskOn(c)
<1>1. \A K : ~Converts(c, K)
  BY DEF Converts
<1>2. Announced(c) => Owner(c) = on[c]
  BY <1>1 DEF RInv, OwnersTrue
<1>3. on[c] = p => FALSE
  BY <1>2 DEF Absent
<1> QED
  BY <1>3, TaskFacts DEF RInv, TaskOn

(* A step in which a task calls or returns and no other process comes.     *)
LEMMA TaskKeepsCInv ==
    ASSUME RInv, CInv, NEW c \in CPU, Hands(c), UNCHANGED on,
           \A d \in CPU : Announced(d)' <=> Announced(d),
           \A d \in CPU \ {c} : heard'[d] = heard[d],
           NEW s, NEW h \in Nat,
           NestsAbove(s, h, IF TaskOn(c) \in cut' THEN BottomHalves ELSE {}),
           cut' \subseteq Task, TaskOn(c) \in cut' => InCut(s),
           \A t \in Task \ {TaskOn(c)} : t \in cut' <=> t \in cut,
           thread' = [thread EXCEPT ![TaskOn(c)] = s],
           hidden' = [hidden EXCEPT ![TaskOn(c)] = h],
           on[c] = Idle => IdleThread(s) /\ (~Announced(c) => h = 0),
           strayed' \subseteq Proc,
           \A t \in Task \ {TaskOn(c)} : t \in strayed' <=> t \in strayed,
           Known(c) => CallsAt(c)'
    PROVE  CInv'
<1> DEFINE t == TaskOn(c)
<1>1. KType /\ OneCPU /\ ThreadsNest /\ Reading
  BY DEF RInv, CInv, Hands
<1>2. t \in Task /\ on[c] \in Pid /\ (on[c] = Idle => t = c) /\ (on[c] # Idle => t = on[c] /\ t \notin CPU)
  BY <1>1, TaskFacts, TaskAssumption DEF KType
<1>3. /\ thread'[t] = s /\ hidden'[t] = h /\ hidden' \in [Task -> Nat]
      /\ \A u \in Task \ {t} : thread'[u] = thread[u] /\ hidden'[u] = hidden[u]
  BY <1>1, <1>2 DEF KType, ThreadsNest
<1>4. UNCHANGED <<cpu_stack, perpidstate>> /\ \A d : Owner(d)' = Owner(d)
  BY HandsConverts
<1>5. \A u \in Task : NestsAbove(thread'[u], hidden'[u], Lost(u)')
  <2> TAKE u \in Task
  <2>1. CASE u = t
    BY <1>3, <2>1 DEF Lost
  <2>2. CASE u # t
    BY <1>1, <1>3, <2>2 DEF ThreadsNest, Lost
  <2> QED
    BY <2>1, <2>2
<1>a. ASSUME NEW u \in cut' PROVE InCut(thread'[u])
  <2>1. CASE u = t
    BY <1>3, <2>1
  <2>2. CASE u # t
    BY <1>1, <1>3, <1>a, <2>2 DEF ThreadsNest
  <2> QED
    BY <2>1, <2>2
<1>6. ASSUME NEW d \in CPU
      PROVE  /\ IdleThread(thread'[d])
             /\ on'[d] # Idle => thread'[d] = <<Sched>>
             /\ on'[d] = Idle /\ ~Announced(d)' => hidden'[d] = 0
  <2>1. CASE d # t
    <3>1. d \in Task
      BY DEF Task
    <3> QED
      BY <1>1, <1>3, <2>1, <3>1 DEF ThreadsNest
  <2>2. CASE d = t
    <3>1. d = c /\ on[c] = Idle
      BY <1>2, <2>2
    <3> QED
      BY <1>3, <2>2, <3>1
  <2> QED
    BY <2>1, <2>2
<1>7. ThreadsNest'
  BY <1>1, <1>3, <1>4, <1>5, <1>6, <1>a DEF ThreadsNest
<1>8. \A u \in Task \ {t} : TaskStays(u)
  BY <1>3 DEF TaskStays
<1>9. \A p \in Proc : Absent(p)' => Absent(p) /\ p # t
  <2> TAKE p \in Proc
  <2>1. Absent(p)' => Absent(p)
    BY <1>4 DEF Absent
  <2> QED
    BY <1>1, <2>1, PresentTask
<1>10. Known(c)' => Known(c)
  BY DEF Known
<1> QED
  BY <1>7, <1>8, <1>9, <1>10, OthersKeepCalls

(* A thread of an idle task is in the scheduler, if that, or in an         *)
(* interrupt.                                                              *)
LEMMA IdleCalls ==
    ASSUME NEW s, IdleThread(s)
    PROVE  s \in {<<>>, <<Sched>>} \/ (s # <<>> /\ s[Len(s)] \in Irqs)
<1>1. ASSUME NEW z \in Irqs, s = <<z>> PROVE s # <<>> /\ s[Len(s)] \in Irqs
  BY <1>1
<1>2. ASSUME NEW z \in Irqs, s = <<Sched, z>> PROVE s # <<>> /\ s[Len(s)] \in Irqs
  BY <1>2
<1>3. ASSUME NEW b, NEW z \in Irqs, s = <<b, z>> PROVE s # <<>> /\ s[Len(s)] \in Irqs
  BY <1>3
<1>4. ASSUME NEW b, NEW z \in Irqs, s = <<Sched, b, z>> PROVE s # <<>> /\ s[Len(s)] \in Irqs
  BY <1>4
<1>5. \A z \in Irqs \ BottomHalves : z \in Irqs
  OBVIOUS
<1> QED
  BY <1>1, <1>2, <1>3, <1>4, <1>5, Zenon DEF IdleThread

(* A thread in a bottom half with no interrupt above it nests by level.    *)
LEMMA NestsPlain ==
    ASSUME NEW s, NEW h, NEW L, NestsAbove(s, h, L), L = {} \/ s[Len(s)] \notin Irqs \ BottomHalves
    PROVE  NestsAbove(s, h, {})
  BY DEF NestsAbove, Overlaid

(* Where a call may be made: below it are calls of lower level only.       *)
LEMMA TopOfThread ==
    ASSUME KType, ThreadsNest, NEW c \in CPU
    PROVE  LET t == TaskOn(c)
               s == thread[t]
               h == hidden[t]
           IN  /\ t \in Task /\ s \in Seq(Call) /\ NestsAbove(s, h, Lost(t))
               /\ Len(s) \in Nat /\ h \in 0 .. Len(s)
               /\ h = Len(s) => Seen(t) = {}
               /\ s = <<>> => Seen(t) = {} /\ Level(c) = 0
               /\ s # <<>> => /\ TopCall(c) = s[Len(s)] /\ TopCall(c) \in Call
                              /\ Level(c) \in 1 .. 4
               /\ \A y \in Seen(t) : y \in Call /\ y # Sched
               /\ \A y \in Seen(t) : IF TopCall(c) = Sched THEN NestLevel(y) < 3
                                     ELSE y = TopCall(c) \/ NestLevel(y) < Level(c)
<1> DEFINE t == TaskOn(c)
           s == thread[t]
           h == hidden[t]
<1>1. t \in Task /\ s \in Seq(Call) /\ on[c] \in Pid
  BY TaskFacts
<1>2. NestsAbove(s, h, Lost(t)) /\ Len(s) \in Nat /\ h \in 0 .. Len(s)
  BY <1>1 DEF ThreadsNest, NestsAbove
<1>3. h = Len(s) => Seen(t) = {}
  BY <1>1, AboveEnd DEF Seen
<1>4. s = <<>> => Seen(t) = {} /\ Level(c) = 0
  <2>1. s = <<>> => Len(s) = 0
    OBVIOUS
  <2>2. s = <<>> => h = Len(s)
    BY <1>2, <2>1
  <2>3. s = <<>> => TopCall(c) = on[c]
    BY DEF TopCall
  <2> QED
    BY <1>1, <1>3, <2>2, <2>3, LevelFacts DEF Level
<1>5. s # <<>> => TopCall(c) = s[Len(s)] /\ TopCall(c) \in Call /\ Level(c) \in 1 .. 4
  <2>1. s # <<>> => Len(s) \in Nat \ {0}
    BY <1>1, EmptySeq
  <2>2. s # <<>> => s[Len(s)] \in Call
    BY <1>1, <2>1, ElementOfSeq
  <2>3. s # <<>> => TopCall(c) = s[Len(s)]
    BY DEF TopCall
  <2> QED
    BY <2>2, <2>3, LevelFacts DEF Level
<1>6. \A y \in Seen(t) : y \in Call /\ y # Sched
  BY <1>1, <1>2, AboveType DEF Seen
<1>7. ASSUME NEW y \in Seen(t)
      PROVE  IF TopCall(c) = Sched THEN NestLevel(y) < 3
             ELSE y = TopCall(c) \/ NestLevel(y) < Level(c)
  <2>1. s # <<>> /\ h \in 0 .. Len(s) - 1
    BY <1>2, <1>3, <1>4, <1>7
  <2>2. /\ Above(s, h) = Above(Front(s), h) \cup ({TopCall(c)} \ {Sched})
        /\ \A z \in Above(Front(s), h) :
              \/ NestLevel(z) < (IF TopCall(c) = Sched THEN 3 ELSE NestLevel(TopCall(c)))
              \/ z \in Lost(t)
    BY <1>1, <1>2, <1>5, <2>1, AboveFront
  <2>3. Seen(t) = Above(s, h) \ Lost(t)
    BY DEF Seen
  <2> QED
    BY <1>7, <2>2, <2>3 DEF Level
<1> HIDE DEF s, t, h
<1>8. \A y \in Seen(t) : IF TopCall(c) = Sched THEN NestLevel(y) < 3
                         ELSE y = TopCall(c) \/ NestLevel(y) < Level(c)
  BY <1>7
<1> QED
  BY <1>1, <1>2, <1>3, <1>4, <1>5, <1>6, <1>8 DEF s, t, h

(* A task in a bottom half that was interrupted is there or in what        *)
(* interrupts it.                                                          *)
LEMMA CutTop ==
    ASSUME KType, ThreadsNest, NEW c \in CPU, TaskOn(c) \in cut
    PROVE  /\ thread[TaskOn(c)] # <<>> /\ TopCall(c) \in Irqs /\ TopCall(c) # Sched /\ Level(c) = 3
           /\ ~InBottom(c) => AboveBottom(c)
<1> DEFINE s == thread[TaskOn(c)]
<1>1. InCut(s) /\ s \in Seq(Call)
  BY TaskFacts DEF ThreadsNest
<1>2. s # <<>> /\ TopCall(c) = s[Len(s)]
  BY <1>1 DEF InCut, TopCall
<1>3. BottomHalves \subseteq Irqs
  BY BottomAssumption
<1>4. TopCall(c) \in Irqs
  BY <1>1, <1>2, <1>3 DEF InCut, Overlaid
<1>5. ASSUME ~InBottom(c) PROVE AboveBottom(c)
  BY <1>1, <1>2, <1>5 DEF InCut, Overlaid, InBottom, AboveBottom
<1>6. Level(c) = 3 /\ TopCall(c) # Sched
  BY <1>4, SchedLevel, CallAssumption DEF Level
<1> QED
  BY <1>2, <1>4, <1>5, <1>6

(* What the converter takes to have returned when CPU c makes a call.      *)
Popped(c) == IF InBottom(c) THEN BottomHalves ELSE {}

LEMMA BottomEntry ==
    ASSUME KType, NEW c \in CPU, NEW x \in Call, MayEnter(c, x), InBottom(c)
    PROVE  x \in Irqs \ BottomHalves /\ x # Sched /\ TopCall(c) \notin {Sched, Resched}
<1>1. TopCall(c) \in Irqs /\ TopCall(c) # Resched /\ TopCall(c) # Sched /\ Level(c) = 3
  BY BottomAssumption, SchedLevel, CallAssumption DEF InBottom, Level
<1>2. x \in Irqs \ BottomHalves
  BY <1>1 DEF MayEnter
<1> QED
  BY <1>1, <1>2, CallAssumption

LEMMA EntryBelow ==
    ASSUME KType, ThreadsNest, NEW c \in CPU, NEW x \in Call, MayEnter(c, x)
    PROVE  LET t == TaskOn(c) IN
           /\ t \in cut => InBottom(c)
           /\ NestsAbove(thread[t], hidden[t], {})
           /\ Seen(t) \ Popped(c) = Above(thread[t], hidden[t]) \ Popped(c)
           /\ x \in Syscalls => Seen(t) = {}
           /\ x # Sched => \A y \in Seen(t) : \/ NestLevel(y) < NestLevel(x)
                                              \/ y \in Popped(c) /\ NestLevel(x) = 3
           /\ x = Sched => \A y \in Seen(t) \ {Resched} : NestLevel(y) < 3
           /\ x = Sched /\ TopCall(c) # Resched => \A y \in Seen(t) : NestLevel(y) < 3
           /\ on[c] = Idle => \/ thread[t] = <<>> /\ x \in Irqs \cup {Sched}
                              \/ TopCall(c) = Sched /\ x \in Irqs
                              \/ InBottom(c)
<1> DEFINE t == TaskOn(c)
<1>1. /\ thread[t] = <<>> => Seen(t) = {} /\ Level(c) = 0
      /\ thread[t] # <<>> => TopCall(c) \in Call /\ Level(c) \in 1 .. 4
                             /\ TopCall(c) = thread[t][Len(thread[t])]
      /\ \A y \in Seen(t) : y \in Call /\ y # Sched
      /\ \A y \in Seen(t) : IF TopCall(c) = Sched THEN NestLevel(y) < 3
                            ELSE y = TopCall(c) \/ NestLevel(y) < Level(c)
      /\ NestsAbove(thread[t], hidden[t], Lost(t))
  BY TopOfThread
<1>2. Level(c) = 0 => thread[t] = <<>>
  BY <1>1
<1>3. \A y \in Call : NestLevel(y) \in 1 .. 4
  BY LevelFacts
<1>4. TopCall(c) = Sched => Level(c) = 4
  BY LevelFacts DEF Level
<1>5. TopCall(c) = Resched => Level(c) = 3
  BY LevelFacts DEF Level
<1>6. NestLevel(TopCall(c)) = Level(c) /\ Level(c) \in 0 .. 4
  BY <1>1 DEF Level
<1>a. t \in cut => InBottom(c)
  <2> SUFFICES ASSUME t \in cut, ~InBottom(c) PROVE FALSE
    OBVIOUS
  <2>1. TopCall(c) # Sched /\ Level(c) = 3 /\ AboveBottom(c)
    BY CutTop
  <2> QED
    BY <2>1 DEF MayEnter
<1>b. NestsAbove(thread[t], hidden[t], {})
  <2>1. CASE t \in cut
    <3>1. thread[t] # <<>> /\ InBottom(c)
      BY <1>a, <2>1, CutTop
    <3> QED
      BY <1>1, <3>1, NestsPlain DEF InBottom
  <2>2. CASE t \notin cut
    BY <1>1, <2>2 DEF Lost
  <2> QED
    BY <2>1, <2>2
<1>c. Seen(t) \ Popped(c) = Above(thread[t], hidden[t]) \ Popped(c)
  BY <1>a DEF Seen, Lost, Popped
<1>7. CASE x \in Syscalls
  <2>1. Level(c) = 0 /\ on[c] # Idle /\ x # Sched
    <3>1. x \notin Traps /\ x \notin Irqs /\ x # Sched
      BY <1>7, CallAssumption
    <3> QED
      BY <3>1 DEF MayEnter
  <2> QED
    BY <1>1, <1>2, <1>a, <1>b, <1>c, <2>1
<1>8. CASE x \in Traps
  <2>1. Level(c) < 2 /\ on[c] # Idle /\ x # Sched /\ x \notin Syscalls /\ NestLevel(x) = 2
    <3>1. x \notin Syscalls /\ x \notin Irqs /\ x # Sched
      BY <1>8, CallAssumption
    <3> QED
      BY <1>8, <3>1, SchedLevel DEF MayEnter
  <2>2. \A y \in Seen(t) : NestLevel(y) < 2
    BY <1>1, <1>3, <1>4, <1>6, <2>1
  <2> QED
    BY <1>a, <1>b, <1>c, <2>1, <2>2
<1>9. CASE x \in Irqs
  <2>1. (Level(c) < 3 \/ TopCall(c) = Sched \/ InBottom(c)) /\ x # Sched /\ x \notin Syscalls
        /\ NestLevel(x) = 3
    <3>1. x \notin Syscalls /\ x \notin Traps /\ x # Sched
      BY <1>9, CallAssumption
    <3> QED
      BY <1>9, <3>1, SchedLevel DEF MayEnter
  <2>2. \A y \in Seen(t) : NestLevel(y) < 3 \/ y \in Popped(c)
    <3>1. CASE InBottom(c)
      <4>1. Level(c) = 3 /\ TopCall(c) # Sched /\ Popped(c) = BottomHalves
        BY <3>1, BottomEntry, BottomAssumption, SchedLevel DEF InBottom, Level, Popped
      <4> QED
        BY <1>1, <3>1, <4>1 DEF InBottom
    <3>2. CASE ~InBottom(c)
      BY <1>1, <1>3, <1>4, <1>6, <2>1, <3>2
    <3> QED
      BY <3>1, <3>2
  <2>3. ASSUME on[c] = Idle, TopCall(c) # Sched, ~InBottom(c) PROVE thread[t] = <<>>
    <3>1. IdleThread(thread[t])
      BY <2>3, TaskFacts DEF ThreadsNest
    <3>2. ASSUME thread[t] # <<>>, thread[t][Len(thread[t])] \in Irqs PROVE FALSE
      <4>1. TopCall(c) \in Irqs
        BY <3>2 DEF TopCall
      <4> QED
        BY <2>1, <2>3, <4>1, SchedLevel DEF Level
    <3>3. thread[t] # <<Sched>>
      <4>1. <<Sched>> # <<>> /\ <<Sched>>[Len(<<Sched>>)] = Sched
        OBVIOUS
      <4> QED
        BY <2>3, <4>1 DEF TopCall
    <3> QED
      BY <3>1, <3>2, <3>3, IdleCalls, Zenon
  <2> QED
    BY <1>9, <1>a, <1>b, <1>c, <2>1, <2>2, <2>3
<1>10. CASE x = Sched
  <2>1. x \notin Syscalls \cup Traps \cup Irqs
    BY <1>10, CallAssumption
  <2>2. /\ Level(c) < 3 \/ TopCall(c) = Resched
        /\ on[c] = Idle => Level(c) = 0
    BY <1>10, <2>1 DEF MayEnter
  <2>3. TopCall(c) # Sched
    BY <1>4, <2>2, LevelFacts
  <2>4. \A y \in Seen(t) \ {Resched} : NestLevel(y) < 3
    BY <1>1, <1>3, <1>5, <1>6, <2>2, <2>3
  <2>5. TopCall(c) # Resched => \A y \in Seen(t) : NestLevel(y) < 3
    BY <1>1, <1>3, <1>6, <2>2, <2>3
  <2>6. on[c] = Idle => thread[t] = <<>> /\ x \in Irqs \cup {Sched}
    BY <1>2, <1>10, <2>2
  <2>7. x \notin Syscalls
    BY <1>10, <2>1
  <2> QED
    BY <1>10, <1>a, <1>b, <1>c, <2>4, <2>5, <2>6, <2>7
<1> QED
  BY <1>7, <1>8, <1>9, <1>10 DEF Call

(* The calls of an idle task are interrupts.                               *)
LEMMA IdleAbove ==
    ASSUME NEW s, IdleThread(s)
    PROVE  \A y \in Above(s, 0) : y \in Irqs /\ s # <<>> /\ s[Len(s)] \in Irqs
<1>1. CASE s = <<>>
  <2>1. Len(<<>>) = 0 /\ 0 + 1 .. 0 = {}
    OBVIOUS
  <2> QED
    BY <1>1, <2>1 DEF Above
<1>2. ASSUME NEW z, s = <<z>> PROVE \A y \in Above(s, 0) : y = z /\ z # Sched
  <2>1. s # <<>> /\ Len(s) = 1 /\ s[1] = z /\ 0 + 1 .. 1 = {1}
    BY <1>2
  <2> QED
    BY <2>1 DEF Above
<1>3. ASSUME NEW z, NEW b, s = <<b, z>> PROVE \A y \in Above(s, 0) : y \in {b, z} \ {Sched}
  <2>1. s # <<>> /\ Len(s) = 2 /\ s[1] = b /\ s[2] = z /\ 0 + 1 .. 2 = {1, 2}
    BY <1>3
  <2> QED
    BY <2>1 DEF Above
<1>4. ASSUME NEW z, NEW b, NEW a, s = <<a, b, z>> PROVE \A y \in Above(s, 0) : y \in {a, b, z} \ {Sched}
  <2>1. s # <<>> /\ Len(s) = 3 /\ s[1] = a /\ s[2] = b /\ s[3] = z /\ 0 + 1 .. 3 = {1, 2, 3}
    BY <1>4
  <2> QED
    BY <2>1 DEF Above
<1>5. BottomHalves \subseteq Irqs /\ \A z \in Irqs \ BottomHalves : z \in Irqs
  BY BottomAssumption
<1>6. s = <<Sched>> => Above(s, 0) = {}
  BY <1>2
<1>7. \A y \in Above(s, 0) : y \in Irqs
  <2>1. ASSUME NEW z \in Irqs, s \in {<<z>>, <<Sched, z>>} PROVE \A y \in Above(s, 0) : y \in Irqs
    BY <1>2, <1>3, <2>1
  <2>2. ASSUME NEW b \in BottomHalves, NEW z \in Irqs \ BottomHalves, s \in {<<b, z>>, <<Sched, b, z>>}
        PROVE  \A y \in Above(s, 0) : y \in Irqs
    BY <1>3, <1>4, <1>5, <2>2
  <2>3. s \in {<<>>, <<Sched>>} => Above(s, 0) = {}
    BY <1>1, <1>6
  <2> QED
    BY <2>1, <2>2, <2>3, Zenon DEF IdleThread
<1>8. ASSUME NEW y \in Above(s, 0) PROVE s # <<>> /\ s[Len(s)] \in Irqs
  <2>1. s \notin {<<>>, <<Sched>>}
    BY <1>1, <1>6, <1>8
  <2> QED
    BY <2>1, IdleCalls
<1> QED
  BY <1>7, <1>8

(* Before a call the stack agrees with the thread; the call keeps all that *)
(* is below it but for a reschedule_ipi.                                   *)
LEMMA EntryFollows ==
    ASSUME KType, CInv, Reading, NEW c \in CPU, NEW x \in Call, MayEnter(c, x), Known(c),
           NEW e, e.kind = "call", e.num = x
    PROVE  LET t == TaskOn(c)
               V == IF x = Sched THEN Seen(t) \ {Resched} ELSE Seen(t) \ Popped(c)
           IN  /\ x \notin V
               /\ V \subseteq StackCalls(cpu_stack[c]) \cap Kept(e)
               /\ t \notin strayed \/ x \in Syscalls => V = StackCalls(cpu_stack[c]) \cap Kept(e)
<1> DEFINE t == TaskOn(c)
           V == IF x = Sched THEN Seen(t) \ {Resched} ELSE Seen(t) \ Popped(c)
           W == StackCalls(cpu_stack[c])
<1>1. /\ x \in Syscalls => Seen(t) = {}
      /\ x # Sched => \A y \in Seen(t) : \/ NestLevel(y) < NestLevel(x)
                                         \/ y \in Popped(c) /\ NestLevel(x) = 3
      /\ on[c] = Idle => \/ thread[t] = <<>>
                         \/ TopCall(c) = Sched
                         \/ InBottom(c)
  <2>1. ThreadsNest
    BY DEF CInv
  <2>2. /\ x \in Syscalls => Seen(t) = {}
        /\ x # Sched => \A y \in Seen(t) : \/ NestLevel(y) < NestLevel(x)
                                           \/ y \in Popped(c) /\ NestLevel(x) = 3
        /\ on[c] = Idle => \/ thread[t] = <<>> /\ x \in Irqs \cup {Sched}
                           \/ TopCall(c) = Sched /\ x \in Irqs
                           \/ InBottom(c)
    BY <2>1, EntryBelow
  <2> HIDE DEF t
  <2> QED
    BY <2>2
<1>a. InBottom(c) => x \in Irqs /\ x # Sched /\ NestLevel(x) = 3 /\ Popped(c) = BottomHalves
  BY BottomEntry, SchedLevel DEF Popped
<1>b. \A y \in Popped(c) : y \in Call /\ NestLevel(y) = 3 /\ NestLevel(x) = 3 /\ x # Sched
  BY <1>a, BottomAssumption, SchedLevel DEF Popped
<1>2. /\ \A y \in Seen(t) : y \in Call /\ y # Sched
      /\ thread[t] \in Seq(Call)
  BY TopOfThread DEF CInv
<1>3. V \subseteq Kept(e)
  <2>1. CASE x = Sched
    <3>1. Kept(e) = Call \ {Sched, Resched}
      BY <2>1 DEF Kept
    <3> QED
      BY <1>2, <2>1, <3>1
  <2>2. CASE x # Sched
    <3>1. Kept(e) = {y \in Call : NestLevel(y) < NestLevel(x)}
      BY <2>2 DEF Kept
    <3> QED
      BY <1>1, <1>2, <2>2, <3>1
  <2> QED
    BY <2>1, <2>2
<1>4. Seen(t) \cap Kept(e) = V
  <2>1. CASE x = Sched
    <3>1. Kept(e) = Call \ {Sched, Resched}
      BY <2>1 DEF Kept
    <3> QED
      BY <1>3, <2>1, <3>1
  <2>2. CASE x # Sched
    <3>1. Kept(e) = {y \in Call : NestLevel(y) < NestLevel(x)}
      BY <2>2 DEF Kept
    <3>2. \A y \in Popped(c) : y \notin Kept(e)
      BY <1>b, <3>1
    <3> QED
      BY <1>3, <2>2, <3>2
  <2> QED
    BY <2>1, <2>2
<1>5. Holds(cpu_stack[c], t) \/ HeaderIdle(c)
  <2>1. \A K : ~Converts(c, K)
    BY DEF Converts
  <2> QED
    BY <2>1 DEF CInv, CallsAt
<1>6. V \subseteq W /\ (t \notin strayed => W \cap Kept(e) = V)
  <2>1. CASE Holds(cpu_stack[c], t)
    BY <1>4, <2>1 DEF Holds
  <2>2. CASE HeaderIdle(c)
    <3>1. t = c /\ on[c] = Idle /\ Seen(c) = {} /\ W = AllCalls(c)
      BY <2>2, TaskFacts, <1>2 DEF HeaderIdle, CInv
    <3>2. V = {}
      BY <3>1
    <3>3. ASSUME NEW y \in W, y \in Kept(e) PROVE FALSE
      <4>1. y \in Above(thread[c], 0)
        BY <3>1, <3>3 DEF AllCalls
      <4>2. y \in Irqs /\ thread[c] # <<>> /\ thread[c][Len(thread[c])] \in Irqs
        <5>1. IdleThread(thread[c])
          BY DEF CInv, ThreadsNest
        <5> QED
          BY <4>1, <5>1, IdleAbove
      <4>3. TopCall(c) \in Irqs /\ TopCall(c) # Sched
        BY <3>1, <4>2, CallAssumption DEF TopCall
      <4>4. InBottom(c)
        BY <1>1, <3>1, <4>2, <4>3
      <4>5. x # Sched /\ NestLevel(x) = 3 /\ NestLevel(y) = 3 /\ y # Sched
        BY <1>a, <4>2, <4>4, SchedLevel
      <4> QED
        BY <3>3, <4>5 DEF Kept
    <3> QED
      BY <3>2, <3>3
  <2> QED
    BY <1>5, <2>1, <2>2
<1>7. x \in Syscalls => Kept(e) = {}
  <2>1. x \in Syscalls => OnlyInUserMode(e)
    BY DEF OnlyInUserMode, IsACall
  <2> QED
    BY <2>1, KeptFacts
<1>8. x \notin V
  BY <1>3, KeptFacts
<1> HIDE DEF V, W
<1> QED
  BY <1>3, <1>4, <1>6, <1>7, <1>8 DEF V, W

LEMMA AppendTuples ==
    ASSUME NEW x \in Call, NEW b \in Call
    PROVE  /\ Append(<<>>, x) = <<x>> /\ Append(<<b>>, x) = <<b, x>>
           /\ Append(<<Sched, b>>, x) = <<Sched, b, x>>
<1>1. Sched \in Call
  BY LevelFacts
<1>2. /\ <<>> \in Seq(Call) /\ Len(<<>>) = 0
      /\ <<x>> \in Seq(Call) /\ Len(<<x>>) = 1 /\ <<x>>[1] = x
  OBVIOUS
<1>3. /\ <<b>> \in Seq(Call) /\ Len(<<b>>) = 1 /\ <<b>>[1] = b
      /\ <<b, x>> \in Seq(Call) /\ Len(<<b, x>>) = 2 /\ <<b, x>>[1] = b /\ <<b, x>>[2] = x
  OBVIOUS
<1>4. /\ <<Sched, b>> \in Seq(Call) /\ Len(<<Sched, b>>) = 2
      /\ <<Sched, b>>[1] = Sched /\ <<Sched, b>>[2] = b
      /\ <<Sched, b, x>> \in Seq(Call) /\ Len(<<Sched, b, x>>) = 3
      /\ <<Sched, b, x>>[1] = Sched /\ <<Sched, b, x>>[2] = b /\ <<Sched, b, x>>[3] = x
  BY <1>1
<1>5. ASSUME NEW s \in Seq(Call)
      PROVE  /\ Append(s, x) \in Seq(Call) /\ Len(Append(s, x)) = Len(s) + 1
             /\ Append(s, x)[Len(s) + 1] = x /\ \A i \in 1 .. Len(s) : Append(s, x)[i] = s[i]
  OBVIOUS
<1>6. /\ \A i \in 1 .. 1 : i = 1
      /\ \A i \in 1 .. 2 : i = 1 \/ i = 2
      /\ \A i \in 1 .. 3 : i = 1 \/ i = 2 \/ i = 3
  OBVIOUS
<1>7. Append(<<>>, x) = <<x>>
  <2>1. Append(<<>>, x) \in Seq(Call) /\ Len(Append(<<>>, x)) = 1 /\ Append(<<>>, x)[1] = x
    BY <1>2, <1>5
  <2> QED
    BY <1>2, <1>6, <2>1, SeqEqual
<1>8. Append(<<b>>, x) = <<b, x>>
  <2>1. /\ Append(<<b>>, x) \in Seq(Call) /\ Len(Append(<<b>>, x)) = 2
        /\ Append(<<b>>, x)[1] = b /\ Append(<<b>>, x)[2] = x
    BY <1>3, <1>5
  <2> QED
    BY <1>3, <1>6, <2>1, SeqEqual
<1>9. Append(<<Sched, b>>, x) = <<Sched, b, x>>
  <2>1. /\ Append(<<Sched, b>>, x) \in Seq(Call) /\ Len(Append(<<Sched, b>>, x)) = 3
        /\ Append(<<Sched, b>>, x)[1] = Sched /\ Append(<<Sched, b>>, x)[2] = b
        /\ Append(<<Sched, b>>, x)[3] = x
    BY <1>4, <1>5
  <2> QED
    BY <1>4, <1>6, <2>1, SeqEqual
<1> QED
  BY <1>7, <1>8, <1>9

(* What a call or a return that is handed over leaves to show.             *)
LEMMA CallHanded ==
    ASSUME NEW c \in CPU, Hands(c), event'.kind \in {"call", "ret"},
           Follow(cpu_stack[c], TaskOn(c), event)',
           IF event'.num = Sched THEN event'.dur = 0
           ELSE event'.num \in Seen(TaskOn(c))' <=> event'.kind = "call" /\ event'.dur = 0
    PROVE  CallsAt(c)'
<1>1. \A K : Converts(c, K)' <=> event'.kind \in K
  BY HandsConverts
<1>2. /\ Converts(c, {"call", "ret"})' /\ ~Converts(c, {"ctx"})'
      /\ ~Converts(c, {"mark", "mwait", "mwait_exit"})'
      /\ Converts(c, {"call", "ret", "ctx"})'
  BY <1>1
<1> QED
  BY <1>2 DEF CallsAt

(* An idle task in a bottom half.                                          *)
LEMMA BottomThread ==
    ASSUME NEW s, IdleThread(s), s # <<>>, s[Len(s)] \in BottomHalves
    PROVE  \E b \in BottomHalves : s \in {<<b>>, <<Sched, b>>}
<1>1. ASSUME NEW z, s = <<z>> PROVE z \in BottomHalves
  BY <1>1
<1>2. ASSUME NEW z, NEW b, s = <<b, z>> PROVE z \in BottomHalves
  BY <1>2
<1>3. ASSUME NEW z, NEW b, NEW a, s = <<a, b, z>> PROVE z \in BottomHalves
  BY <1>3
<1>4. s # <<Sched>>
  BY <1>1, BottomAssumption, CallAssumption
<1>5. \A z \in Irqs \ BottomHalves : z \notin BottomHalves
  OBVIOUS
<1>6. ASSUME NEW z, s \in {<<z>>, <<Sched, z>>} PROVE \E b \in BottomHalves : s \in {<<b>>, <<Sched, b>>}
  BY <1>1, <1>2, <1>6
<1>7. ASSUME NEW b \in BottomHalves, NEW z \in Irqs \ BottomHalves, s \in {<<b, z>>, <<Sched, b, z>>}
      PROVE  FALSE
  BY <1>2, <1>3, <1>5, <1>7
<1>8. s \notin {<<>>, <<Sched>>}
  BY <1>4
<1>9. \/ \E z \in Irqs : s \in {<<z>>, <<Sched, z>>}
      \/ \E b \in BottomHalves : \E z \in Irqs \ BottomHalves : s \in {<<b, z>>, <<Sched, b, z>>}
  BY <1>8 DEF IdleThread
<1>10. CASE \E z \in Irqs : s \in {<<z>>, <<Sched, z>>}
  <2>1. PICK z \in Irqs : s \in {<<z>>, <<Sched, z>>}
    BY <1>10
  <2> QED
    BY <1>6, <2>1
<1> QED
  BY <1>7, <1>9, <1>10, Zenon

LEMMA EnterKeepsCInv ==
    ASSUME RInv, CInv, NEW c \in CPU, NEW x \in Call, Enter(c, x)
    PROVE  CInv'
<1> DEFINE t == TaskOn(c)
           r == thread[t]
           s == IF x = Sched /\ TopCall(c) = Resched THEN Front(r) ELSE r
           h == IF Len(s) < hidden[t] THEN Len(s) ELSE hidden[t]
           V == IF x = Sched THEN Seen(t) \ {Resched} ELSE Seen(t) \ Popped(c)
<1>1. KType /\ ThreadsNest /\ MayEnter(c, x) /\ Reading
  <2>1. MayEnter(c, x)
    BY DEF Enter
  <2>2. Hands(c)
    BY EnterFacts DEF RInv
  <2> QED
    BY <2>1, <2>2 DEF RInv, CInv, Hands
<1>2. /\ Hands(c) /\ event'.kind = "call" /\ event'.num = x /\ event'.dur = 0
      /\ UNCHANGED on /\ heard[c] # "first"
      /\ heard' = [heard EXCEPT ![c] = IF heard[c] = "nothing" THEN "first" ELSE "call"]
  BY <1>1, EnterFacts
<1>3. /\ thread' = [thread EXCEPT ![t] = Append(s, x)]
      /\ hidden' = [hidden EXCEPT ![t] = h]
      /\ strayed' = IF x \in Syscalls THEN strayed \ {t} ELSE strayed
      /\ cut' = IF InBottom(c) THEN cut \cup {t} ELSE cut
  BY DEF Enter, Interrupts
<1>4. /\ t \in Task /\ r \in Seq(Call)
      /\ Len(r) \in Nat /\ hidden[t] \in 0 .. Len(r)
      /\ r = <<>> => Level(c) = 0
      /\ r # <<>> => TopCall(c) = r[Len(r)]
      /\ hidden[t] = Len(r) => Seen(t) = {}
  BY <1>1, TopOfThread
<1>5. /\ t \in cut => InBottom(c)
      /\ NestsAbove(r, hidden[t], {}) /\ Seen(t) \ Popped(c) = Above(r, hidden[t]) \ Popped(c)
      /\ x # Sched => \A y \in Seen(t) : \/ NestLevel(y) < NestLevel(x)
                                         \/ y \in Popped(c) /\ NestLevel(x) = 3
      /\ x = Sched => \A y \in Seen(t) \ {Resched} : NestLevel(y) < 3
      /\ x = Sched /\ TopCall(c) # Resched => \A y \in Seen(t) : NestLevel(y) < 3
      /\ on[c] = Idle => \/ r = <<>> /\ x \in Irqs \cup {Sched}
                         \/ TopCall(c) = Sched /\ x \in Irqs
                         \/ InBottom(c)
  BY <1>1, EntryBelow
<1>a. InBottom(c) => x \in Irqs \ BottomHalves /\ x # Sched /\ TopCall(c) \notin {Sched, Resched}
  BY <1>1, BottomEntry
<1>b. (t \in cut' <=> InBottom(c)) /\ Popped(c) = IF t \in cut' THEN BottomHalves ELSE {}
  BY <1>3, <1>5 DEF Popped
<1>6. NestLevel(Resched) = 3 /\ (Level(c) = 0 => TopCall(c) # Resched) /\ Resched # Sched
  BY LevelFacts DEF Level
<1>7. /\ s \in Seq(Call) /\ Len(s) \in Nat /\ h \in 0 .. Len(s) /\ NestsAbove(s, h, {})
      /\ Above(s, h) \ Popped(c) = V
  <2>1. CASE x = Sched /\ TopCall(c) = Resched
    <3>a. Popped(c) = {} /\ Seen(t) = Above(r, hidden[t])
      BY <1>5, <1>a, <2>1 DEF Popped
    <3>1. r # <<>> /\ s = Front(r)
      BY <1>4, <1>6, <2>1
    <3>2. Front(r) \in Seq(Call) /\ Len(Front(r)) = Len(r) - 1 /\ Len(r) \in Nat \ {0}
      BY <1>4, <3>1, FrontFacts
    <3>3. Len(r) - 1 \in 0 .. Len(r) /\ s = SubSeq(r, 1, Len(r) - 1)
      BY <3>1, <3>2 DEF Front
    <3>4. h \in 0 .. Len(s) /\ NestsAbove(s, h, {}) /\ (hidden[t] = Len(r) => Above(s, h) = {})
      <4>1. h = IF Len(r) - 1 < hidden[t] THEN Len(r) - 1 ELSE hidden[t]
        BY <3>1, <3>2
      <4>2. \A u \in Seq(Call) : \A n \in 0 .. Len(u) : \A i \in 0 .. Len(u) : NestsAbove(u, i, {}) =>
               LET k == IF n < i THEN n ELSE i IN
               /\ k \in 0 .. n /\ NestsAbove(SubSeq(u, 1, n), k, {})
               /\ i = Len(u) => Above(SubSeq(u, 1, n), k) = {}
        <5> SUFFICES ASSUME NEW u \in Seq(Call), NEW n \in 0 .. Len(u), NEW i \in 0 .. Len(u),
                            NestsAbove(u, i, {})
                     PROVE  LET k == IF n < i THEN n ELSE i IN
                            /\ k \in 0 .. n /\ NestsAbove(SubSeq(u, 1, n), k, {})
                            /\ i = Len(u) => Above(SubSeq(u, 1, n), k) = {}
          OBVIOUS
        <5>1. LET k == IF n < i THEN n ELSE i IN
              /\ NestsAbove(SubSeq(u, 1, n), k, {})
              /\ i = Len(u) => Above(SubSeq(u, 1, n), k) = {}
          BY AboveCut
        <5> QED
          BY <5>1
      <4>3. /\ h \in 0 .. Len(r) - 1 /\ NestsAbove(SubSeq(r, 1, Len(r) - 1), h, {})
            /\ hidden[t] = Len(r) => Above(SubSeq(r, 1, Len(r) - 1), h) = {}
        <5> HIDE DEF h, s, r
        <5>1. r \in Seq(Call) /\ Len(r) - 1 \in 0 .. Len(r) /\ hidden[t] \in 0 .. Len(r)
              /\ NestsAbove(r, hidden[t], {})
          BY <1>4, <1>5, <3>3
        <5>2. LET k == IF Len(r) - 1 < hidden[t] THEN Len(r) - 1 ELSE hidden[t] IN
              /\ k \in 0 .. Len(r) - 1 /\ NestsAbove(SubSeq(r, 1, Len(r) - 1), k, {})
              /\ hidden[t] = Len(r) => Above(SubSeq(r, 1, Len(r) - 1), k) = {}
          BY <4>2, <5>1, Zenon
        <5> QED
          BY <4>1, <5>2
      <4> HIDE DEF h, s, r
      <4> QED
        BY <3>1, <3>2, <3>3, <4>3
    <3>5. CASE hidden[t] = Len(r)
      <4>1. Seen(t) = {}
        BY <1>4, <3>5
      <4> QED
        BY <2>1, <3>a, <3>1, <3>2, <3>4, <3>5, <4>1
    <3>6. CASE hidden[t] # Len(r)
      <4>1. hidden[t] \in 0 .. Len(r) - 1 /\ h = hidden[t]
        BY <1>4, <3>1, <3>2, <3>6
      <4>2. /\ Above(r, hidden[t]) = Above(Front(r), hidden[t]) \cup ({Resched} \ {Sched})
            /\ \A y \in Above(Front(r), hidden[t]) : NestLevel(y) < 3
        BY <1>4, <1>5, <1>6, <2>1, <3>1, <4>1, AboveFront
      <4>3. Resched \notin Above(Front(r), hidden[t])
        BY <1>6, <4>2
      <4>4. Above(s, h) = Above(Front(r), hidden[t])
        BY <3>1, <4>1
      <4>5. Seen(t) \ {Resched} = Above(Front(r), hidden[t])
        BY <1>6, <3>a, <4>2, <4>3
      <4> QED
        BY <2>1, <3>a, <3>1, <3>2, <3>4, <4>4, <4>5
    <3> QED
      BY <3>5, <3>6
  <2>2. CASE ~(x = Sched /\ TopCall(c) = Resched)
    <3>1. s = r /\ h = hidden[t]
      BY <1>4, <2>2
    <3>2. Above(r, hidden[t]) \ Popped(c) = V
      <4>1. CASE x = Sched
        <5>1. Popped(c) = {} /\ Resched \notin Seen(t)
          BY <1>5, <1>6, <1>a, <2>2, <4>1 DEF Popped
        <5> QED
          BY <1>5, <4>1, <5>1
      <4>2. CASE x # Sched
        BY <1>5, <4>2
      <4> QED
        BY <4>1, <4>2
    <3> QED
      BY <1>4, <1>5, <3>1, <3>2
  <2> QED
    BY <2>1, <2>2
<1>8. \A y \in Above(s, h) :
         \/ NestLevel(y) < (IF x = Sched THEN 3 ELSE NestLevel(x))
         \/ y \in Popped(c) /\ y = s[Len(s)] /\ x \in Irqs \ BottomHalves
  <2>1. \A y \in V : NestLevel(y) < (IF x = Sched THEN 3 ELSE NestLevel(x))
    BY <1>5
  <2>2. ASSUME NEW y \in Above(s, h), y \in Popped(c)
        PROVE  y = s[Len(s)] /\ x \in Irqs \ BottomHalves
    <3>1. InBottom(c) /\ y \in BottomHalves
      BY <2>2 DEF Popped
    <3>2. s = r /\ h = hidden[t] /\ r # <<>>
      <4>1. x # Sched /\ Level(c) # 0
        BY <1>a, <3>1, BottomAssumption, SchedLevel DEF InBottom, Level
      <4> QED
        BY <1>4, <4>1
    <3>3. hidden[t] # Len(r)
      <4>1. hidden[t] = Len(r) => Above(r, hidden[t]) = {}
        BY <1>4, AboveEnd
      <4> QED
        BY <2>2, <3>2, <4>1
    <3>4. hidden[t] \in 0 .. Len(r) - 1 /\ NestLevel(y) = 3 /\ NestLevel(TopCall(c)) = 3
          /\ TopCall(c) = r[Len(r)] /\ y # Sched /\ TopCall(c) # Sched
      BY <1>4, <1>a, <3>1, <3>2, <3>3, BottomAssumption, SchedLevel, CallAssumption DEF InBottom
    <3>5. /\ Above(r, hidden[t]) = Above(Front(r), hidden[t]) \cup ({r[Len(r)]} \ {Sched})
          /\ \A z \in Above(Front(r), hidden[t]) :
                NestLevel(z) < (IF r[Len(r)] = Sched THEN 3 ELSE NestLevel(r[Len(r)]))
      BY <1>4, <1>5, <3>2, <3>4, AboveFront
    <3>6. y \notin Above(Front(r), hidden[t])
      BY <3>4, <3>5
    <3>7. y = r[Len(r)]
      BY <2>2, <3>2, <3>5, <3>6
    <3> QED
      BY <1>a, <3>1, <3>2, <3>7
  <2> QED
    BY <1>7, <2>1, <2>2
<1>9. on[c] = Idle => IdleThread(Append(s, x)) /\ (~Announced(c) => h = 0)
  <2> SUFFICES ASSUME on[c] = Idle PROVE IdleThread(Append(s, x)) /\ (~Announced(c) => h = 0)
    OBVIOUS
  <2>1. t = c /\ IdleThread(r) /\ (~Announced(c) => hidden[c] = 0)
    BY <1>1, TaskFacts DEF ThreadsNest
  <2>2. CASE r = <<>>
    <3>1. s = r /\ h = hidden[t]
      BY <1>4, <1>6, <2>2
    <3>2. Append(<<>>, x) = <<x>> /\ x \in Irqs \cup {Sched}
      <4>1. TopCall(c) # Sched /\ ~InBottom(c)
        <5>1. Level(c) = 0
          BY <1>4, <2>2
        <5> QED
          BY <5>1, SchedLevel, LevelFacts, BottomAssumption DEF Level, InBottom
      <4> QED
        BY <1>5, <4>1, AppendTuples
    <3> QED
      BY <2>1, <2>2, <3>1, <3>2 DEF IdleThread
  <2>3. CASE r # <<>> /\ TopCall(c) = Sched
    <3>1. s = r /\ h = hidden[t]
      BY <1>4, <1>6, <2>3
    <3>2. r = <<Sched>>
      <4>1. Sched \notin Irqs
        BY CallAssumption
      <4> QED
        BY <1>4, <2>1, <2>3, <4>1, IdleCalls
    <3>3. Append(<<Sched>>, x) = <<Sched, x>> /\ x \in Irqs
      <4>1. ~InBottom(c)
        BY <1>a, <2>3
      <4> QED
        BY <1>5, <2>3, <4>1, AppendTuples, LevelFacts
    <3> QED
      BY <2>1, <3>1, <3>2, <3>3 DEF IdleThread
  <2>4. CASE r # <<>> /\ TopCall(c) # Sched
    <3>1. InBottom(c)
      BY <1>5, <2>4
    <3>2. s = r /\ h = hidden[t] /\ x \in Irqs \ BottomHalves
      BY <1>4, <1>a, <3>1
    <3>3. r[Len(r)] \in BottomHalves
      BY <1>4, <2>4, <3>1 DEF InBottom
    <3>4. \E b \in BottomHalves : r \in {<<b>>, <<Sched, b>>}
      <4> HIDE DEF r, s, h
      <4> QED
        BY <2>1, <2>4, <3>3, BottomThread
    <3>5. PICK b \in BottomHalves : r \in {<<b>>, <<Sched, b>>}
      BY <3>4
    <3>6. b \in Call
      BY BottomAssumption, SchedLevel
    <3>7. Append(r, x) \in {<<b, x>>, <<Sched, b, x>>}
      BY <3>5, <3>6, AppendTuples
    <3> HIDE DEF r, s, h
    <3> QED
      BY <2>1, <3>2, <3>7 DEF IdleThread
  <2> QED
    BY <2>2, <2>3, <2>4
<1> HIDE DEF s, h, V
<1>10. NestsAbove(Append(s, x), h, Popped(c)) /\ Above(Append(s, x), h) \ Popped(c) = V \cup ({x} \ {Sched})
  <2>1. NestsAbove(Append(s, x), h, Popped(c))
    BY <1>7, <1>8, NestsAppend
  <2>2. Above(Append(s, x), h) = Above(s, h) \cup ({x} \ {Sched})
    BY <1>7, AboveAppend
  <2>3. x \notin Popped(c)
    BY <1>a DEF Popped
  <2> QED
    BY <1>7, <2>1, <2>2, <2>3
<1>c. ASSUME t \in cut' PROVE InCut(Append(s, x))
  <2>1. InBottom(c) /\ x \in Irqs \ BottomHalves /\ x # Sched
    BY <1>a, <1>b, <1>c
  <2>2. s = r /\ r # <<>> /\ r[Len(r)] \in BottomHalves
    <3>1. Level(c) # 0
      BY <2>1, BottomAssumption, SchedLevel DEF InBottom, Level
    <3> QED
      BY <1>4, <2>1, <3>1 DEF s, InBottom
  <2>3. Len(r) \in Nat \ {0}
    BY <1>4, <2>2, EmptySeq
  <2>4. /\ Len(Append(r, x)) = Len(r) + 1 /\ Append(r, x)[Len(r) + 1] = x
        /\ Append(r, x)[Len(r)] = r[Len(r)]
    BY <1>4, <2>3
  <2>5. 1 < Len(Append(r, x)) /\ Len(Append(r, x)) - 1 = Len(r) /\ Append(r, x) # <<>>
    BY <2>3, <2>4
  <2>6. Overlaid(Append(r, x), Len(Append(r, x)) - 1, BottomHalves)
    BY <2>1, <2>2, <2>4, <2>5 DEF Overlaid
  <2> QED
    BY <2>2, <2>5, <2>6 DEF InCut
<1>11. \A d \in CPU : (Announced(d)' <=> Announced(d)) /\ (d # c => heard'[d] = heard[d])
  BY <1>1, <1>2 DEF Announced, KType
<1>12. TaskOn(c)' = t /\ Seen(t)' = V \cup ({x} \ {Sched})
  <2>1. thread'[t] = Append(s, x) /\ hidden'[t] = h
    BY <1>1, <1>3, <1>4 DEF KType, ThreadsNest
  <2>2. Seen(t)' = Above(thread'[t], hidden'[t]) \ Popped(c)
    <3>1. t' = t
      BY <1>2 DEF TaskOn
    <3> HIDE DEF t
    <3> QED
      BY <1>b, <3>1 DEF Seen, Lost
  <2> QED
    BY <1>2, <1>10, <2>1, <2>2 DEF TaskOn
<1>13. ASSUME Known(c) PROVE CallsAt(c)'
  <2>1. /\ x \notin V
        /\ V \subseteq StackCalls(cpu_stack[c]) \cap Kept(event')
        /\ t \notin strayed \/ x \in Syscalls => V = StackCalls(cpu_stack[c]) \cap Kept(event')
    BY <1>1, <1>2, <1>13, EntryFollows DEF V
  <2>2. t \in strayed' <=> t \in strayed /\ x \notin Syscalls
    BY <1>3
  <2>3. UNCHANGED cpu_stack /\ (V \cup ({x} \ {Sched})) \ {x} = V
    BY <1>2, <2>1, HandsConverts
  <2>4. Seen(t)' \ {event'.num} = V
    BY <1>2, <1>12, <2>3
  <2>5. IF t \in strayed' THEN V \subseteq StackCalls(cpu_stack[c]) \cap Kept(event')
        ELSE StackCalls(cpu_stack[c]) \cap Kept(event') = V
    BY <2>1, <2>2
  <2>6. Follow(cpu_stack[c], TaskOn(c), event)'
    BY <1>12, <2>3, <2>4, <2>5 DEF Follow
  <2>7. x # Sched => x \in Seen(TaskOn(c))'
    BY <1>12
  <2> QED
    BY <1>2, <2>6, <2>7, CallHanded
<1>14. strayed' \subseteq Proc /\ \A u \in Task \ {t} : u \in strayed' <=> u \in strayed
  BY <1>1, <1>3 DEF ThreadsNest
<1>15. h \in Nat
  BY <1>7
<1>16. cut' \subseteq Task /\ \A u \in Task \ {t} : u \in cut' <=> u \in cut
  BY <1>1, <1>3, <1>4 DEF ThreadsNest
<1> QED
  BY <1>2, <1>3, <1>9, <1>10, <1>11, <1>13, <1>14, <1>15, <1>16, <1>b, <1>c, TaskKeepsCInv

LEMMA WholeKeepsCInv ==
    ASSUME RInv, CInv, NEW c \in CPU, NEW x \in Call, Whole(c, x)
    PROVE  CInv'
<1> DEFINE t == TaskOn(c)
           s == thread[t]
           h == hidden[t]
<1>1. /\ Hands(c) /\ event'.kind = "call" /\ event'.num = x /\ event'.dur = 1
      /\ UNCHANGED on /\ heard[c] # "first"
      /\ heard' = [heard EXCEPT ![c] = IF heard[c] = "nothing" THEN "first" ELSE "call"]
  BY WholeFacts DEF RInv
<1>2. KType /\ ThreadsNest /\ MayEnter(c, x) /\ Reading /\ x # Sched
  BY <1>1 DEF RInv, CInv, Hands, Whole
<1>3. /\ UNCHANGED <<thread, hidden>>
      /\ strayed' = IF x \in Syscalls THEN strayed \ {t} ELSE strayed
      /\ cut' = IF InBottom(c) THEN cut \cup {t} ELSE cut
  BY DEF Whole, Interrupts
<1>a. /\ NestsAbove(s, h, {}) /\ (t \in cut => InBottom(c))
      /\ Seen(t) \ Popped(c) = Above(s, h) \ Popped(c)
  BY <1>2, EntryBelow
<1>b. (t \in cut' <=> InBottom(c)) /\ Popped(c) = IF t \in cut' THEN BottomHalves ELSE {}
  BY <1>3, <1>a DEF Popped
<1>4. t \in Task /\ s \in Seq(Call) /\ h \in Nat
  <2>1. t \in Task /\ s \in Seq(Call) /\ Len(s) \in Nat /\ h \in 0 .. Len(s)
    BY <1>2, TopOfThread
  <2> QED
    BY <2>1
<1>c. NestsAbove(s, h, IF t \in cut' THEN BottomHalves ELSE {})
  BY <1>a DEF NestsAbove, Overlaid
<1>d. ASSUME t \in cut' PROVE InCut(s)
  <2>1. InBottom(c)
    BY <1>b, <1>d
  <2>2. s # <<>>
    <3>1. s = <<>> => TopCall(c) \in Pid
      BY <1>2, TaskFacts DEF TopCall
    <3> QED
      BY <2>1, <3>1, BottomAssumption, SchedLevel, LevelFacts DEF InBottom
  <2> QED
    BY <2>1, <2>2 DEF InCut, InBottom, TopCall
<1>e. cut' \subseteq Task /\ \A u \in Task \ {t} : u \in cut' <=> u \in cut
  BY <1>2, <1>3, <1>4 DEF ThreadsNest
<1>5. thread' = [thread EXCEPT ![t] = s] /\ hidden' = [hidden EXCEPT ![t] = h]
  BY <1>2, <1>3, <1>4 DEF KType, ThreadsNest
<1>6. on[c] = Idle => IdleThread(s) /\ (~Announced(c) => h = 0)
  BY <1>2, TaskFacts DEF ThreadsNest
<1>7. \A d \in CPU : (Announced(d)' <=> Announced(d)) /\ (d # c => heard'[d] = heard[d])
  BY <1>1, <1>2 DEF Announced, KType
<1>8. ASSUME Known(c) PROVE CallsAt(c)'
  <2> DEFINE V == Seen(t) \ Popped(c)
  <2>1. /\ x \notin V
        /\ V \subseteq StackCalls(cpu_stack[c]) \cap Kept(event')
        /\ t \notin strayed \/ x \in Syscalls => V = StackCalls(cpu_stack[c]) \cap Kept(event')
    BY <1>1, <1>2, <1>8, EntryFollows
  <2>2. t \in strayed' <=> t \in strayed /\ x \notin Syscalls
    BY <1>3
  <2>3. TaskOn(c)' = t /\ Seen(t)' = V /\ UNCHANGED cpu_stack
    <3>1. UNCHANGED cpu_stack /\ t' = t
      BY <1>1, HandsConverts DEF TaskOn
    <3> HIDE DEF t
    <3>2. Seen(t)' = Above(thread[t], hidden[t]) \ Popped(c)
      BY <1>3, <1>b, <3>1 DEF Seen, Lost
    <3> QED
      BY <1>a, <3>1, <3>2 DEF t
  <2> HIDE DEF V
  <2>4. Seen(t)' \ {event'.num} = V
    BY <1>1, <2>1, <2>3
  <2>5. IF t \in strayed' THEN V \subseteq StackCalls(cpu_stack[c]) \cap Kept(event')
        ELSE StackCalls(cpu_stack[c]) \cap Kept(event') = V
    BY <2>1, <2>2
  <2>6. Follow(cpu_stack[c], TaskOn(c), event)'
    BY <2>3, <2>4, <2>5 DEF Follow
  <2>7. x \notin Seen(TaskOn(c))'
    BY <2>1, <2>3
  <2> QED
    BY <1>1, <1>2, <2>6, <2>7, CallHanded
<1>9. strayed' \subseteq Proc /\ \A u \in Task \ {t} : u \in strayed' <=> u \in strayed
  BY <1>2, <1>3 DEF ThreadsNest
<1> HIDE DEF s, h
<1> QED
  BY <1>1, <1>4, <1>5, <1>6, <1>7, <1>8, <1>9, <1>c, <1>d, <1>e, TaskKeepsCInv

(* A thread without its last call, and perhaps without more of them.       *)
LEMMA LeaveBelow ==
    ASSUME NEW r \in Seq(Call), r # <<>>, NEW h, NEW L, NestsAbove(r, h, L),
           NEW n \in 0 .. Len(Front(r))
    PROVE  LET u == SubSeq(Front(r), 1, n)
               k == IF n < h THEN n ELSE h
               x == r[Len(r)]
           IN  /\ NestsAbove(u, k, {}) /\ k \in Nat
               /\ Above(u, k) \subseteq Above(r, h)
               /\ \A y \in Above(u, k) : y \in Call /\ (NestLevel(y) < NestLevel(x) \/ y \in L)
               /\ n = Len(Front(r)) =>
                     \A y \in Above(r, h) : NestLevel(y) < NestLevel(x) => y \in Above(u, k)
<1> DEFINE s == Front(r)
           x == r[Len(r)]
           j == IF Len(s) < h THEN Len(s) ELSE h
           u == SubSeq(s, 1, n)
           k == IF n < h THEN n ELSE h
<1>1. s \in Seq(Call) /\ Len(r) \in Nat \ {0} /\ Len(s) = Len(r) - 1 /\ Len(s) \in 0 .. Len(r)
      /\ s = SubSeq(r, 1, Len(s))
  BY FrontFacts DEF Front
<1>2. h \in 0 .. Len(r)
  BY DEF NestsAbove
<1>3. /\ j \in 0 .. Len(s) /\ Above(s, j) \subseteq Above(r, h) /\ NestsAbove(s, j, {})
      /\ h = Len(r) => Above(s, j) = {}
  <2>1. LET v == SubSeq(r, 1, Len(s)) IN
        /\ Above(v, j) \subseteq Above(r, h) /\ NestsAbove(v, j, {})
        /\ h = Len(r) => Above(v, j) = {}
    <3>1. Len(s) < Len(r) /\ Len(s) \in 0 .. Len(r)
      BY <1>1
    <3> DEFINE m == Len(s)
               i == IF m < h THEN m ELSE h
               v == SubSeq(r, 1, m)
    <3> HIDE DEF m
    <3>2. m < Len(r) /\ m \in 0 .. Len(r)
      BY <3>1 DEF m
    <3>3. /\ Above(v, i) \subseteq Above(r, h)
          /\ m < Len(r) \/ L = {} => (NestsAbove(r, h, L) => NestsAbove(v, i, {}))
          /\ h = Len(r) => Above(v, i) = {}
      BY <1>2, <3>2, AboveCut
    <3> QED
      BY <3>2, <3>3 DEF m
  <2>2. j \in 0 .. Len(s)
    BY <1>1, <1>2
  <2> HIDE DEF s, j
  <2> QED
    BY <1>1, <2>1, <2>2
<1>4. k = IF n < j THEN n ELSE j
  BY <1>1, <1>2
<1>5. NestsAbove(u, k, {}) /\ k \in Nat /\ Above(u, k) \subseteq Above(s, j)
  <2> HIDE DEF s, j, k
  <2>1. LET i == IF n < j THEN n ELSE j IN
        NestsAbove(u, i, {}) /\ i \in 0 .. Len(u) /\ Above(u, i) \subseteq Above(s, j)
    BY <1>1, <1>3, AboveCut DEF s
  <2> QED
    BY <1>3, <1>4, <2>1 DEF s, NestsAbove
<1>6. x \in Call
  BY <1>1, ElementOfSeq
<1>7. /\ \A y \in Above(s, j) : y \in Call /\ (NestLevel(y) < NestLevel(x) \/ y \in L)
      /\ \A y \in Above(r, h) : y = x \/ y \in Above(s, j)
  <2>1. CASE h = Len(r)
    <3>1. Above(r, h) = {} /\ Above(s, j) = {}
      BY <1>3, <2>1, AboveEnd
    <3> QED
      BY <3>1
  <2>2. CASE h # Len(r)
    <3>1. h \in 0 .. Len(r) - 1 /\ j = h
      BY <1>1, <1>2, <2>2
    <3>2. /\ Above(r, h) = Above(Front(r), h) \cup ({x} \ {Sched})
          /\ \A y \in Above(Front(r), h) :
                /\ y \in Call
                /\ NestLevel(y) < (IF x = Sched THEN 3 ELSE NestLevel(x)) \/ y \in L
      BY <3>1, AboveFront
    <3>3. \A y \in Above(s, j) :
             /\ y \in Call
             /\ NestLevel(y) < (IF x = Sched THEN 3 ELSE NestLevel(x)) \/ y \in L
      BY <3>1, <3>2
    <3>4. \A y \in Call : NestLevel(y) \in 1 .. 4
      BY LevelFacts
    <3>5. NestLevel(Sched) = 4
      BY LevelFacts
    <3> HIDE DEF x, s, j
    <3>6. \A y \in Above(s, j) : y \in Call /\ (NestLevel(y) < NestLevel(x) \/ y \in L)
      BY <3>3, <3>4, <3>5
    <3> QED
      BY <3>1, <3>2, <3>6 DEF s
  <2> QED
    BY <2>1, <2>2
<1>8. n = Len(s) => u = s /\ k = j
  <2>1. SubSeq(s, 1, Len(s)) = s
    BY <1>1
  <2> QED
    BY <1>1, <1>2, <2>1
<1>9. NestLevel(x) \in 1 .. 4
  BY <1>6, LevelFacts
<1> HIDE DEF s, x, j, u, k
<1>10. n = Len(s) => \A y \in Above(r, h) : NestLevel(y) < NestLevel(x) => y \in Above(u, k)
  BY <1>7, <1>8, <1>9
<1>11. \A y \in Above(u, k) : y \in Call /\ (NestLevel(y) < NestLevel(x) \/ y \in L)
  BY <1>5, <1>7
<1>12. Above(u, k) \subseteq Above(r, h)
  BY <1>3, <1>5
<1> QED
  BY <1>5, <1>10, <1>11, <1>12 DEF s, x, u, k

LEMMA FrontTuples ==
    ASSUME NEW x \in Call, NEW b \in Call, NEW a \in Call
    PROVE  Front(<<x>>) = <<>> /\ Front(<<b, x>>) = <<b>> /\ Front(<<a, b, x>>) = <<a, b>>
<1>1. /\ <<>> \in Seq(Call) /\ Len(<<>>) = 0
      /\ <<x>> \in Seq(Call) /\ Len(<<x>>) = 1 /\ <<x>> # <<>>
  OBVIOUS
<1>2. /\ <<b>> \in Seq(Call) /\ Len(<<b>>) = 1 /\ <<b>>[1] = b
      /\ <<b, x>> \in Seq(Call) /\ Len(<<b, x>>) = 2 /\ <<b, x>>[1] = b /\ <<b, x>> # <<>>
  OBVIOUS
<1>3. /\ <<a, b>> \in Seq(Call) /\ Len(<<a, b>>) = 2 /\ <<a, b>>[1] = a /\ <<a, b>>[2] = b
      /\ <<a, b, x>> \in Seq(Call) /\ Len(<<a, b, x>>) = 3
      /\ <<a, b, x>>[1] = a /\ <<a, b, x>>[2] = b /\ <<a, b, x>> # <<>>
  OBVIOUS
<1>4. ASSUME NEW s \in Seq(Call), s # <<>>
      PROVE  /\ Front(s) \in Seq(Call) /\ Len(Front(s)) = Len(s) - 1
             /\ \A i \in 1 .. Len(s) - 1 : Front(s)[i] = s[i]
  BY <1>4, FrontFacts
<1>5. /\ \A i \in 1 .. 0 : FALSE
      /\ \A i \in 1 .. 1 : i = 1
      /\ \A i \in 1 .. 2 : i = 1 \/ i = 2
  OBVIOUS
<1>6. ASSUME NEW f \in Seq(Call), NEW g \in Seq(Call), Len(f) = Len(g), Len(g) \in 0 .. 2,
             1 <= Len(g) => f[1] = g[1], 2 <= Len(g) => f[2] = g[2]
      PROVE  f = g
  <2>1. \A i \in 1 .. Len(f) : f[i] = g[i]
    BY <1>5, <1>6
  <2> QED
    BY <1>6, <2>1, SeqEqual
<1>7. Front(<<x>>) = <<>>
  <2> DEFINE r == <<x>>
  <2>1. r \in Seq(Call) /\ Len(r) = 1 /\ r # <<>>
    BY <1>1
  <2> HIDE DEF r
  <2>2. Front(r) \in Seq(Call) /\ Len(Front(r)) = 0
    BY <1>4, <2>1
  <2>3. Front(r) = <<>>
    BY <2>2, EmptySeq
  <2> QED
    BY <2>3 DEF r
<1>8. Front(<<b, x>>) = <<b>>
  <2> DEFINE r == <<b, x>>
             g == <<b>>
  <2>1. r \in Seq(Call) /\ Len(r) = 2 /\ r[1] = b /\ r # <<>>
    BY <1>2
  <2>2. g \in Seq(Call) /\ Len(g) = 1 /\ g[1] = b
    BY <1>2
  <2> HIDE DEF r, g
  <2>a. 1 \in 1 .. Len(r) - 1
    BY <2>1
  <2>3. Front(r) \in Seq(Call) /\ Len(Front(r)) = 1 /\ Front(r)[1] = b
    <3>1. /\ Front(r) \in Seq(Call) /\ Len(Front(r)) = Len(r) - 1
          /\ \A i \in 1 .. Len(r) - 1 : Front(r)[i] = r[i]
      BY <1>4, <2>1, Zenon
    <3> QED
      BY <2>1, <2>a, <3>1
  <2>4. Front(r) = g
    BY <1>6, <2>2, <2>3
  <2> QED
    BY <2>4 DEF r, g
<1>9. Front(<<a, b, x>>) = <<a, b>>
  <2> DEFINE r == <<a, b, x>>
             g == <<a, b>>
  <2>1. r \in Seq(Call) /\ Len(r) = 3 /\ r[1] = a /\ r[2] = b /\ r # <<>>
    BY <1>3
  <2>2. g \in Seq(Call) /\ Len(g) = 2 /\ g[1] = a /\ g[2] = b
    BY <1>3
  <2> HIDE DEF r, g
  <2>a. 1 \in 1 .. Len(r) - 1 /\ 2 \in 1 .. Len(r) - 1
    BY <2>1
  <2>3. Front(r) \in Seq(Call) /\ Len(Front(r)) = 2 /\ Front(r)[1] = a /\ Front(r)[2] = b
    <3>1. /\ Front(r) \in Seq(Call) /\ Len(Front(r)) = Len(r) - 1
          /\ \A i \in 1 .. Len(r) - 1 : Front(r)[i] = r[i]
      BY <1>4, <2>1, Zenon
    <3> QED
      BY <2>1, <2>a, <3>1
  <2>4. Front(r) = g
    BY <1>6, <2>2, <2>3
  <2> QED
    BY <2>4 DEF r, g
<1> QED
  BY <1>7, <1>8, <1>9

LEMMA IdleFront ==
    ASSUME NEW s, IdleThread(s), s # <<>>
    PROVE  IdleThread(Front(s)) /\ (s[Len(s)] = Sched => Front(s) = <<>>)
<1>1. Sched \in Call /\ (\A z \in Irqs : z \in Call /\ z # Sched) /\ BottomHalves \subseteq Irqs
      /\ \A z \in Irqs \ BottomHalves : z \in Irqs
  BY LevelFacts, SchedLevel, CallAssumption, BottomAssumption
<1>2. CASE s = <<Sched>>
  <2>1. Front(s) = <<>>
    BY <1>1, <1>2, FrontTuples
  <2> QED
    BY <2>1 DEF IdleThread
<1>3. ASSUME NEW z \in Irqs, s \in {<<z>>, <<Sched, z>>}
      PROVE  IdleThread(Front(s)) /\ s[Len(s)] # Sched
  <2>1. Front(s) \in {<<>>, <<Sched>>}
    <3>1. Front(<<z>>) = <<>> /\ Front(<<Sched, z>>) = <<Sched>>
      BY <1>1, FrontTuples
    <3> QED
      BY <1>3, <3>1
  <2>2. s[Len(s)] = z
    BY <1>3
  <2> QED
    BY <1>1, <2>1, <2>2 DEF IdleThread
<1>4. ASSUME NEW b \in BottomHalves, NEW z \in Irqs \ BottomHalves, s \in {<<b, z>>, <<Sched, b, z>>}
      PROVE  IdleThread(Front(s)) /\ s[Len(s)] # Sched
  <2>1. Front(s) \in {<<b>>, <<Sched, b>>} /\ b \in Irqs
    <3>1. b \in Call /\ z \in Call /\ b \in Irqs
      BY <1>1
    <3>2. Front(<<b, z>>) = <<b>> /\ Front(<<Sched, b, z>>) = <<Sched, b>>
      BY <1>1, <3>1, FrontTuples
    <3> QED
      BY <1>4, <3>1, <3>2
  <2>2. s[Len(s)] = z
    BY <1>4
  <2> QED
    BY <1>1, <2>1, <2>2 DEF IdleThread
<1>5. CASE \E z \in Irqs : s \in {<<z>>, <<Sched, z>>}
  <2>1. PICK z \in Irqs : s \in {<<z>>, <<Sched, z>>}
    BY <1>5
  <2> QED
    BY <1>3, <2>1
<1>6. CASE \E b \in BottomHalves : \E z \in Irqs \ BottomHalves : s \in {<<b, z>>, <<Sched, b, z>>}
  <2>1. PICK b \in BottomHalves : \E z \in Irqs \ BottomHalves : s \in {<<b, z>>, <<Sched, b, z>>}
    BY <1>6
  <2>2. PICK z \in Irqs \ BottomHalves : s \in {<<b, z>>, <<Sched, b, z>>}
    BY <2>1
  <2> QED
    BY <1>4, <2>2
<1>7. s \in {<<>>, <<Sched>>} => s = <<Sched>>
  OBVIOUS
<1> QED
  BY <1>2, <1>5, <1>6, <1>7 DEF IdleThread

LEMMA LeaveKeepsCInv ==
    ASSUME RInv, CInv, NEW c \in CPU, Leave(c)
    PROVE  CInv'
<1> DEFINE t == TaskOn(c)
           r == thread[t]
           s == Front(r)
           W == StackCalls(cpu_stack[c])
<1>1. /\ KType /\ ThreadsNest
      /\ Hands(c) /\ event'.kind = "ret" /\ event'.dur = 0 /\ Reading
      /\ UNCHANGED on /\ heard[c] # "first"
      /\ heard' = [heard EXCEPT ![c] = IF heard[c] = "nothing" THEN "first" ELSE "call"]
  BY LeaveFacts DEF RInv, CInv, Hands
<1>2. r # <<>>
  BY DEF Leave
<1>3. /\ t \in Task /\ r \in Seq(Call) /\ NestsAbove(r, hidden[t], Lost(t)) /\ Len(r) \in Nat
      /\ TopCall(c) = r[Len(r)] /\ TopCall(c) \in Call /\ Level(c) \in 1 .. 4
      /\ \A y \in Seen(t) : y \in Call /\ y # Sched
  BY <1>1, <1>2, TopOfThread
<1>4. event'.num \in Call /\ NestLevel(event'.num) = Level(c)
  <2>1. PICK x \in IF TopCall(c) = Resched THEN {Resched, BHhi} ELSE {TopCall(c)} :
             \E q \in Results(x) : Entry(c, "ret", x, q, on[c], 0)
    BY DEF Leave
  <2>2. PICK q \in Results(x) : Entry(c, "ret", x, q, on[c], 0)
    BY <2>1
  <2>3. x \in Call /\ NestLevel(x) = NestLevel(TopCall(c))
    BY <1>3, <2>1, LevelFacts
  <2>4. Emit(c, "ret", x, q, on[c], 0)
    BY <2>2 DEF Entry
  <2>5. event'.num = x
    BY <2>4, EmitFacts
  <2> QED
    BY <2>3, <2>5 DEF Level
<1>5. s \in Seq(Call) /\ Len(s) = Len(r) - 1
  <2>1. \A z \in Seq(Call) : z # <<>> => Front(z) \in Seq(Call) /\ Len(Front(z)) = Len(z) - 1
    BY FrontFacts, Zenon
  <2> QED
    BY <1>2, <1>3, <2>1, Zenon
<1>6. PICK n \in 0 .. Len(s) :
         /\ n # Len(s) => TopCall(c) = Sched
         /\ thread' = [thread EXCEPT ![t] = SubSeq(s, 1, n)]
         /\ hidden' = [hidden EXCEPT ![t] = IF n < @ THEN n ELSE @]
         /\ strayed' = IF n < Len(s) THEN strayed \cup {t} ELSE strayed
  <2>1. Len(s) \in 0 .. Len(s)
    BY <1>5
  <2>2. \E n \in IF (TopCall(c) = Sched /\ c \in switched) /\ mix.drop THEN 0 .. Len(s) ELSE {Len(s)} :
           /\ thread' = [thread EXCEPT ![t] = SubSeq(s, 1, n)]
           /\ hidden' = [hidden EXCEPT ![t] = IF n < @ THEN n ELSE @]
           /\ strayed' = IF n < Len(s) THEN strayed \cup {t} ELSE strayed
    BY Zenon DEF Leave
  <2> HIDE DEF s, t
  <2>3. CASE (TopCall(c) = Sched /\ c \in switched) /\ mix.drop
    BY <2>2, <2>3
  <2>4. CASE ~((TopCall(c) = Sched /\ c \in switched) /\ mix.drop)
    BY <2>1, <2>2, <2>4
  <2> QED
    BY <2>3, <2>4
<1> DEFINE u == SubSeq(s, 1, n)
           k == IF n < hidden[t] THEN n ELSE hidden[t]
           M == IF t \in cut' THEN BottomHalves ELSE {}
           F == Above(u, k) \ M
<1>a. cut' = IF InBottom(c) THEN cut \ {t} ELSE cut
  BY DEF Leave
<1>b. /\ M = IF InBottom(c) THEN {} ELSE Lost(t)
      /\ t \in cut' => t \in cut /\ ~InBottom(c)
  BY <1>a DEF Lost
<1>c. NestsAbove(r, hidden[t], M)
  <2>1. CASE InBottom(c)
    BY <1>3, <1>b, <2>1, NestsPlain DEF InBottom
  <2>2. CASE ~InBottom(c)
    BY <1>3, <1>b, <2>2
  <2> QED
    BY <2>1, <2>2
<1>d. /\ NestsAbove(u, k, {}) /\ k \in Nat /\ Above(u, k) \subseteq Above(r, hidden[t])
      /\ \A y \in Above(u, k) : y \in Call /\ (NestLevel(y) < Level(c) \/ y \in M)
      /\ n = Len(s) => \A y \in Above(r, hidden[t]) : NestLevel(y) < Level(c) => y \in Above(u, k)
  <2>1. Level(c) = NestLevel(r[Len(r)])
    BY <1>3 DEF Level
  <2> HIDE DEF M
  <2> QED
    BY <1>2, <1>3, <1>6, <1>c, <2>1, LeaveBelow
<1>7. /\ NestsAbove(u, k, M) /\ k \in Nat /\ F \subseteq Seen(t)
      /\ \A y \in F : y \in Call /\ NestLevel(y) < Level(c)
      /\ n = Len(s) => \A y \in Seen(t) : NestLevel(y) < Level(c) => y \in F
  <2> HIDE DEF u, k, s
  <2>1. NestsAbove(u, k, M)
    BY <1>d DEF NestsAbove, Overlaid
  <2>2. \A y \in F : y \in Call /\ NestLevel(y) < Level(c)
    BY <1>d
  <2>3. F \subseteq Seen(t)
    <3> SUFFICES ASSUME NEW y \in F PROVE y \in Seen(t)
      OBVIOUS
    <3>1. y \in Above(r, hidden[t]) /\ NestLevel(y) < Level(c) /\ y \in Call
      BY <1>d, <2>2
    <3>2. y \notin Lost(t)
      <4>1. CASE InBottom(c)
        <5>1. Level(c) = 3 /\ \A z \in BottomHalves : NestLevel(z) = 3
          BY <4>1, BottomAssumption, SchedLevel DEF InBottom, Level
        <5> QED
          BY <3>1, <5>1 DEF Lost
      <4>2. CASE ~InBottom(c)
        BY <1>b, <4>2
      <4> QED
        BY <4>1, <4>2
    <3> QED
      BY <3>1, <3>2 DEF Seen
  <2>4. n = Len(s) => \A y \in Seen(t) : NestLevel(y) < Level(c) => y \in F
    BY <1>b, <1>d DEF Seen
  <2> QED
    BY <1>d, <2>1, <2>2, <2>3, <2>4
<1>e. n = Len(s) => u = s
  <2>1. SubSeq(s, 1, Len(s)) = s
    BY <1>5
  <2> QED
    BY <2>1
<1>f. ASSUME t \in cut' PROVE InCut(u)
  <2>1. t \in cut /\ ~InBottom(c) /\ TopCall(c) # Sched /\ InCut(r)
    BY <1>1, <1>b, <1>f, CutTop DEF ThreadsNest
  <2>2. r[Len(r)] \notin BottomHalves
    BY <1>3, <2>1 DEF InBottom
  <2>3. 1 < Len(r) /\ r[Len(r) - 1] \in BottomHalves
    BY <2>1, <2>2 DEF InCut, Overlaid
  <2>4. u = s
    BY <1>6, <1>e, <2>1
  <2>5. s[Len(s)] = r[Len(r) - 1] /\ s # <<>>
    <3>1. Len(s) \in 1 .. Len(r) - 1 /\ Len(s) = Len(r) - 1
      BY <1>3, <1>5, <2>3
    <3>2. \A i \in 1 .. Len(r) - 1 : s[i] = r[i]
      BY <1>2, <1>3, FrontFacts
    <3>3. s # <<>>
      BY <3>1
    <3> QED
      BY <3>1, <3>2, <3>3
  <2> QED
    BY <2>3, <2>4, <2>5 DEF InCut
<1>g. cut' \subseteq Task /\ \A v \in Task \ {t} : v \in cut' <=> v \in cut
  BY <1>1, <1>a DEF ThreadsNest
<1>8. thread' = [thread EXCEPT ![t] = u] /\ hidden' = [hidden EXCEPT ![t] = k]
  BY <1>6
<1>9. on[c] = Idle => /\ IdleThread(u) /\ (~Announced(c) => k = 0) /\ n = Len(s)
                      /\ AllCalls(c) \cap Kept(event') = {}
  <2> SUFFICES ASSUME on[c] = Idle
               PROVE  /\ IdleThread(u) /\ (~Announced(c) => k = 0) /\ n = Len(s)
                      /\ AllCalls(c) \cap Kept(event') = {}
    OBVIOUS
  <2>1. t = c /\ IdleThread(r) /\ (~Announced(c) => hidden[c] = 0)
    BY <1>1, TaskFacts DEF ThreadsNest
  <2>2. IdleThread(s) /\ (TopCall(c) = Sched => s = <<>>)
    BY <1>2, <1>3, <2>1, IdleFront
  <2>3. n = Len(s)
    <3>1. TopCall(c) = Sched => Len(s) = 0
      BY <2>2
    <3> HIDE DEF s
    <3>2. Len(s) = 0 => n = Len(s)
      BY <1>6
    <3> QED
      BY <1>6, <3>1, <3>2
  <2>5. IdleThread(u)
    BY <1>e, <2>2, <2>3
  <2>6. AllCalls(c) \cap Kept(event') = {}
    <3> SUFFICES ASSUME NEW y \in AllCalls(c), y \in Kept(event') PROVE FALSE
      OBVIOUS
    <3>1. y \in Above(r, 0)
      BY <2>1 DEF AllCalls
    <3>2. y \in Irqs /\ TopCall(c) \in Irqs
      BY <1>3, <2>1, <3>1, IdleAbove
    <3>3. NestLevel(y) = 3 /\ Level(c) = 3
      BY <3>2, SchedLevel DEF Level
    <3> QED
      BY <1>1, <1>4, <3>3 DEF Kept
  <2>8. ~Announced(c) => k = 0
    BY <1>6, <2>1
  <2> QED
    BY <2>3, <2>5, <2>6, <2>8
<1> HIDE DEF u, k, s
<1>10. \A d \in CPU : (Announced(d)' <=> Announced(d)) /\ (d # c => heard'[d] = heard[d])
  BY <1>1 DEF Announced, KType
<1>11. TaskOn(c)' = t /\ Seen(t)' = F
  <2>1. thread'[t] = u /\ hidden'[t] = k
    BY <1>1, <1>3, <1>8 DEF KType, ThreadsNest
  <2>2. t' = t
    BY <1>1 DEF TaskOn
  <2> HIDE DEF t
  <2>3. Seen(t)' = Above(thread'[t], hidden'[t]) \ M
    BY <2>2 DEF Seen, Lost
  <2> QED
    BY <2>1, <2>2, <2>3 DEF t
<1>12. /\ Kept(event') = {y \in Call : NestLevel(y) < Level(c)} /\ event'.num \notin F
       /\ event'.num \notin Kept(event')
  BY <1>1, <1>4, <1>7, <1>3 DEF Kept
<1>13. ASSUME Known(c) PROVE CallsAt(c)'
  <2>1. \A K : ~Converts(c, K)
    BY <1>1 DEF Converts
  <2>2. Holds(cpu_stack[c], t) \/ HeaderIdle(c)
    BY <1>13, <2>1 DEF CInv, CallsAt
  <2>3. F \subseteq Kept(event')
    BY <1>7, <1>12
  <2>4. F \subseteq W
    <3>1. CASE Holds(cpu_stack[c], t)
      BY <1>7, <3>1 DEF Holds
    <3>2. CASE HeaderIdle(c)
      BY <1>7, <3>2, TaskFacts, <1>1 DEF HeaderIdle
    <3> QED
      BY <2>2, <3>1, <3>2
  <2>5. ASSUME t \notin strayed' PROVE W \cap Kept(event') \subseteq F
    <3>1. n = Len(s) /\ t \notin strayed
      <4>1. Len(s) \in Nat
        BY <1>3, <1>5
      <4> QED
        BY <1>6, <2>5, <4>1
    <3>2. CASE Holds(cpu_stack[c], t)
      <4>1. W = Seen(t)
        BY <3>1, <3>2 DEF Holds
      <4> QED
        BY <1>7, <1>12, <3>1, <4>1
    <3>3. CASE HeaderIdle(c)
      BY <1>9, <3>3 DEF HeaderIdle
    <3> QED
      BY <2>2, <3>2, <3>3
  <2>6. UNCHANGED cpu_stack /\ Seen(t)' \ {event'.num} = F
    BY <1>1, <1>11, <1>12, HandsConverts
  <2>7. IF t \in strayed' THEN F \subseteq W \cap Kept(event') ELSE W \cap Kept(event') = F
    BY <2>3, <2>4, <2>5
  <2> HIDE DEF F
  <2>8. Follow(cpu_stack[c], TaskOn(c), event)'
    BY <1>11, <2>6, <2>7 DEF Follow
  <2>9. event'.num \notin Seen(TaskOn(c))'
    BY <1>11, <1>12
  <2> QED
    BY <1>1, <2>8, <2>9, CallHanded
<1>14. strayed' \subseteq Proc /\ \A v \in Task \ {t} : v \in strayed' <=> v \in strayed
  <2>1. Len(s) \in Nat /\ n \in 0 .. Len(s)
    BY <1>3, <1>5, <1>6
  <2>2. n < Len(s) => t \in Proc
    BY <1>1, <1>9, <2>1, TaskFacts
  <2> QED
    BY <1>1, <1>6, <2>2 DEF ThreadsNest
<1> QED
  BY <1>1, <1>7, <1>8, <1>9, <1>10, <1>13, <1>14, <1>f, <1>g, TaskKeepsCInv

LEMMA AnnounceKeepsCInv ==
    ASSUME RInv, CInv, NEW c \in CPU, Announce(c)
    PROVE  CInv'
<1> DEFINE t == TaskOn(c)
<1>1. KType /\ OneCPU /\ ThreadsNest
  BY DEF RInv, CInv
<1>2. /\ Hands(c) /\ event'.kind = "ctx" /\ event'.pid = on[c]
      /\ UNCHANGED <<on, thread>> /\ heard[c] = "first" /\ heard' = [heard EXCEPT ![c] = "header"]
  BY <1>1, AnnounceFacts
<1>3. hidden' = [hidden EXCEPT ![t] = Len(thread[t])] /\ UNCHANGED <<strayed, cut>>
  BY DEF Announce
<1>4. t \in Task /\ thread[t] \in Seq(Call) /\ Len(thread[t]) \in Nat
  BY <1>1, TaskFacts
<1>5. /\ hidden'[t] = Len(thread[t]) /\ hidden' \in [Task -> Nat]
      /\ \A u \in Task \ {t} : hidden'[u] = hidden[u]
  BY <1>1, <1>3, <1>4 DEF ThreadsNest
<1>6. Announced(c)' /\ ~Announced(c) /\ \A d \in CPU \ {c} : Announced(d)' <=> Announced(d)
  BY <1>1, <1>2 DEF Announced, KType
<1>7. /\ \A d, K : ~Converts(d, K)
      /\ \A d, K : Converts(d, K)' <=> d = c /\ event'.kind \in K
      /\ UNCHANGED <<cpu_stack, perpidstate>> /\ \A d : Owner(d)' = Owner(d)
  BY <1>2, HandsConverts
<1>8. ThreadsNest'
  <2>1. ASSUME NEW u \in Task PROVE NestsAbove(thread'[u], hidden'[u], Lost(u)')
    <3>1. CASE u = t
      <4>1. Len(thread[t]) + 1 .. Len(thread[t]) = {} /\ Len(thread[t]) \in 0 .. Len(thread[t])
        BY <1>4
      <4> QED
        BY <1>2, <1>5, <3>1, <4>1 DEF NestsAbove
    <3>2. CASE u # t
      BY <1>1, <1>2, <1>3, <1>5, <3>2 DEF ThreadsNest, Lost
    <3> QED
      BY <3>1, <3>2
  <2>2. ASSUME NEW d \in CPU, on'[d] = Idle, ~Announced(d)' PROVE hidden'[d] = 0
    <3>1. d # c /\ ~Announced(d) /\ on[d] = Idle
      BY <1>2, <1>6, <2>2
    <3>2. d # t /\ d \in Task
      BY <1>1, <3>1, TaskFacts, TaskAssumption DEF Task
    <3> QED
      BY <1>1, <1>5, <3>1, <3>2 DEF ThreadsNest
  <2> QED
    BY <1>1, <1>2, <1>3, <1>5, <1>7, <2>1, <2>2 DEF ThreadsNest
<1>9. Owner(c) = Idle /\ (on[c] # Idle => perpidstate[on[c]] = NoState)
  BY <1>6 DEF RInv, OwnersTrue
<1>10. Seen(t)' = {} /\ TaskOn(c)' = t
  <2>1. Above(thread[t], Len(thread[t])) = {}
    BY <1>4, AboveEnd
  <2>2. TaskOn(c)' = t
    BY <1>2 DEF TaskOn
  <2> QED
    BY <1>2, <1>5, <2>1, <2>2 DEF Seen
<1>11. ASSUME on[c] = Idle PROVE HeaderIdle(c)'
  <2>1. t = c /\ c \notin strayed /\ Known(c)
    BY <1>1, <1>11, TaskFacts DEF ThreadsNest, Known
  <2>2. Holds(cpu_stack[c], c)
    BY <1>2, <1>7, <2>1 DEF CInv, CallsAt, HeaderIdle
  <2>3. hidden[c] = 0
    BY <1>1, <1>6, <1>11 DEF ThreadsNest
  <2>4. StackCalls(cpu_stack[c]) = AllCalls(c)
    BY <2>1, <2>2, <2>3 DEF Holds, Seen, AllCalls
  <2>5. heard'[c] = "header"
    BY <1>1, <1>2 DEF KType
  <2>6. AllCalls(c)' = AllCalls(c) /\ Seen(c)' = {}
    BY <1>2, <1>3, <1>10, <2>1 DEF AllCalls, Seen, Lost
  <2> QED
    BY <1>2, <1>7, <1>11, <2>4, <2>5, <2>6 DEF HeaderIdle
<1>12. CallsAt(c)'
  <2>1. /\ Converts(c, {"call", "ret", "ctx"})' /\ ~Converts(c, {"call", "ret"})'
        /\ ~Converts(c, {"mark", "mwait", "mwait_exit"})'
    BY <1>2, <1>7
  <2>2. Owner(c)' = on'[c] => HeaderIdle(c)'
    BY <1>2, <1>7, <1>9, <1>11
  <2>3. Owner(c)' = Idle
    BY <1>7, <1>9
  <2> QED
    BY <2>1, <2>2, <2>3 DEF CallsAt
<1>13. \A u \in Task \ {TaskOn(c)} : TaskStays(u)
  BY <1>2, <1>3, <1>5 DEF TaskStays
<1>14. \A d \in CPU \ {c} : on'[d] = on[d] /\ heard'[d] = heard[d]
  BY <1>1, <1>2 DEF KType
<1>15. \A p \in Proc : Absent(p)' => \/ Absent(p) /\ p # TaskOn(c)
                                     \/ perpidstate[p] = NoState /\ Seen(p)' = {}
  <2> SUFFICES ASSUME NEW p \in Proc, Absent(p)'
               PROVE  \/ Absent(p) /\ p # TaskOn(c)
                      \/ perpidstate[p] = NoState /\ Seen(p)' = {}
    OBVIOUS
  <2>1. CASE p = on[c]
    <3>1. on[c] # Idle /\ t = p
      BY <1>1, <2>1, TaskFacts DEF Proc
    <3>2. Seen(p)' = Seen(TaskOn(c))'
      BY <1>10, <3>1 DEF Seen
    <3> QED
      BY <1>9, <1>10, <2>1, <3>1, <3>2
  <2>2. CASE p # on[c]
    <3>1. p # TaskOn(c)
      BY <1>1, <2>2, TaskFacts
    <3>2. \A d \in CPU : Owner(d) # p /\ (on[d] = p => Announced(d))
      BY <1>2, <1>6, <1>7, <2>2 DEF Absent
    <3> QED
      BY <3>1, <3>2 DEF Absent
  <2> QED
    BY <2>1, <2>2
<1> QED
  BY <1>2, <1>8, <1>12, <1>13, <1>14, <1>15, OthersKeepCalls

(* The thread of an idle task that is in the scheduler.                    *)
LEMMA IdleSched ==
    ASSUME KType, ThreadsNest, NEW c \in CPU, TopCall(c) = Sched
    PROVE  thread[c] = <<Sched>> /\ Seen(c) = {}
<1>1. thread[c] = <<Sched>>
  <2>1. CASE on[c] # Idle
    BY <2>1 DEF ThreadsNest
  <2>2. CASE on[c] = Idle
    <3>1. TaskOn(c) = c
      BY <2>2, TaskFacts
    <3>2. thread[c] # <<>> /\ thread[c][Len(thread[c])] = Sched
      BY <3>1, AtTop DEF Asleep
    <3>3. Sched \notin Irqs
      BY CallAssumption
    <3> QED
      BY <3>2, <3>3, IdleCalls DEF ThreadsNest
  <2> QED
    BY <2>1, <2>2
<1>2. Len(<<Sched>>) = 1 /\ <<Sched>>[1] = Sched
  OBVIOUS
<1>3. \A i \in hidden[c] + 1 .. 1 : i = 1
  <2>1. hidden[c] \in Nat
    BY DEF ThreadsNest, Task
  <2> QED
    BY <2>1
<1>4. Seen(c) = {}
  BY <1>1, <1>2, <1>3 DEF Seen, Above
<1> QED
  BY <1>1, <1>4

LEMMA SwitchKeepsCInv ==
    ASSUME RInv, CInv, NEW c \in CPU, NEW q \in Pid, Switch(c, q)
    PROVE  CInv'
<1>1. KType /\ OneCPU /\ ThreadsNest
  BY DEF RInv, CInv
<1>2. /\ Hands(c) /\ event'.kind = "ctx" /\ event'.pid = q
      /\ UNCHANGED <<thread, heard>> /\ Announced(c)
      /\ on' = [on EXCEPT ![c] = q] /\ q # on[c] /\ TopCall(c) = Sched
  BY <1>1, SwitchFacts
<1>3. UNCHANGED <<hidden, strayed, cut>>
  BY DEF Switch
<1>4. thread[c] = <<Sched>> /\ Seen(c) = {}
  BY <1>1, <1>2, IdleSched
<1>5. on'[c] = q /\ \A d \in CPU \ {c} : on'[d] = on[d]
  BY <1>1, <1>2 DEF KType
<1>6. \A d : Announced(d)' <=> Announced(d)
  BY <1>2 DEF Announced
<1>7. /\ \A d, K : ~Converts(d, K)
      /\ \A d, K : Converts(d, K)' <=> d = c /\ event'.kind \in K
      /\ UNCHANGED <<cpu_stack, perpidstate>> /\ \A d : Owner(d)' = Owner(d)
  BY <1>2, HandsConverts
<1>8. ThreadsNest'
  <2>1. \A d \in CPU : /\ IdleThread(thread[d])
                       /\ on'[d] # Idle => thread[d] = <<Sched>>
                       /\ on'[d] = Idle /\ ~Announced(d) => hidden[d] = 0
    BY <1>1, <1>2, <1>4, <1>5 DEF ThreadsNest
  <2> QED
    BY <1>1, <1>2, <1>3, <1>6, <1>7, <2>1 DEF ThreadsNest, Lost
<1>9. \A t : Seen(t)' = Seen(t) /\ TaskStays(t)
  BY <1>2, <1>3 DEF Seen, Lost, TaskStays
<1>10. Owner(c) = on[c]
  BY <1>2, <1>7 DEF RInv, OwnersTrue
<1>11. CallsAt(c)'
  <2>1. /\ Converts(c, {"call", "ret", "ctx"})' /\ ~Converts(c, {"call", "ret"})'
        /\ ~Converts(c, {"mark", "mwait", "mwait_exit"})'
    BY <1>2, <1>7
  <2>2. Owner(c)' # on'[c]
    BY <1>2, <1>5, <1>7, <1>10
  <2>3. ASSUME Owner(c) # Idle PROVE Holds(cpu_stack[c], Owner(c))
    <3>1. Known(c) /\ TaskOn(c) = on[c] /\ ~HeaderIdle(c)
      BY <1>1, <1>2, <1>10, <2>3, TaskFacts DEF Known, HeaderIdle
    <3> QED
      BY <1>7, <1>10, <3>1 DEF CInv, CallsAt
  <2>4. Owner(c)' # Idle => Holds(cpu_stack[c], Owner(c))' /\ Seen(c)' = {}
    <3>1. Holds(cpu_stack[c], Owner(c)) => Holds(cpu_stack[c], Owner(c))'
      BY <1>3, <1>7, <1>9 DEF Holds
    <3> QED
      BY <1>4, <1>7, <1>9, <2>3, <3>1
  <2> QED
    BY <2>1, <2>2, <2>4 DEF CallsAt
<1>12. \A d \in CPU \ {c} : on'[d] = on[d] /\ heard'[d] = heard[d]
  BY <1>2, <1>5
<1>13. \A p \in Proc : Absent(p)' => Absent(p) /\ p # TaskOn(c)
  <2> SUFFICES ASSUME NEW p \in Proc, Absent(p)' PROVE Absent(p) /\ p # TaskOn(c)
    OBVIOUS
  <2>1. p # on[c]
    BY <1>7, <1>10 DEF Absent
  <2>2. p # TaskOn(c)
    BY <1>1, <2>1, TaskFacts
  <2>3. \A d \in CPU : Owner(d) # p /\ (on[d] = p => Announced(d))
    BY <1>5, <1>6, <1>7, <2>1 DEF Absent
  <2> QED
    BY <2>2, <2>3 DEF Absent
<1> QED
  BY <1>2, <1>8, <1>9, <1>11, <1>12, <1>13, OthersKeepCalls

LEMMA PointKeepsCInv ==
    ASSUME RInv, CInv, NEW c \in CPU, NEW kind \in Points,
           NEW arg \in Pid \cup CPU \cup Rpcs \cup {1, 4}, Point(c, kind, arg)
    PROVE  CInv'
<1>1. KType /\ OneCPU /\ ThreadsNest
  BY DEF RInv, CInv
<1>2. /\ Hands(c) /\ event'.kind = kind /\ kind \in Points
      /\ UNCHANGED <<on, thread>> /\ heard[c] # "first"
      /\ heard' = [heard EXCEPT ![c] = IF heard[c] = "nothing" THEN "first" ELSE heard[c]]
  BY <1>1, PointFacts
<1>3. UNCHANGED <<hidden, strayed, cut>>
  BY DEF Point
<1>4. \A d \in CPU : Announced(d)' <=> Announced(d)
  BY <1>1, <1>2 DEF Announced, KType
<1>5. \A d \in CPU \ {c} : heard'[d] = heard[d] /\ on'[d] = on[d]
  BY <1>1, <1>2 DEF KType
<1>6. /\ \A d, K : ~Converts(d, K)
      /\ \A d, K : Converts(d, K)' <=> d = c /\ event'.kind \in K
      /\ UNCHANGED <<cpu_stack, perpidstate>> /\ \A d : Owner(d)' = Owner(d)
  BY <1>2, HandsConverts
<1>7. ThreadsNest'
  BY <1>1, <1>2, <1>3, <1>4, <1>6 DEF ThreadsNest, Lost
<1>8. \A t : Seen(t)' = Seen(t) /\ AllCalls(t)' = AllCalls(t) /\ TaskStays(t)
  BY <1>2, <1>3 DEF Seen, AllCalls, Lost, TaskStays
<1>9. kind \in {"mark", "mwait", "mwait_exit"} => thread[TaskOn(c)] = <<>>
  <2>1. kind \in {"mark", "mwait", "mwait_exit"} => Level(c) = 0
    BY DEF Point, MayPoint
  <2>2. thread[TaskOn(c)] # <<>> => Level(c) \in 1 .. 4
    BY <1>1, TopOfThread
  <2> QED
    BY <2>1, <2>2
<1>10. ASSUME Known(c)' PROVE CallsAt(c)'
  <2>1. Known(c) /\ TaskOn(c)' = TaskOn(c)
    BY <1>2, <1>4, <1>10 DEF Known, TaskOn
  <2>2. Holds(cpu_stack[c], TaskOn(c)) \/ HeaderIdle(c)
    BY <1>6, <2>1 DEF CInv, CallsAt
  <2>3. Holds(cpu_stack[c], TaskOn(c)) => Holds(cpu_stack[c], TaskOn(c))'
    BY <1>3, <1>6, <1>8, <2>1 DEF Holds
  <2>4. HeaderIdle(c) => HeaderIdle(c)'
    BY <1>1, <1>2, <1>6, <1>8 DEF HeaderIdle, KType
  <2>5. (Holds(cpu_stack[c], TaskOn(c)) \/ HeaderIdle(c))'
    BY <2>2, <2>3, <2>4
  <2>6. ~Converts(c, {"call", "ret"})' /\ ~Converts(c, {"ctx"})'
    BY <1>2, <1>6 DEF Points
  <2>7. Converts(c, {"mark", "mwait", "mwait_exit"})' => thread'[TaskOn(c)'] = <<>>
    BY <1>2, <1>6, <1>9, <2>1
  <2> QED
    BY <2>5, <2>6, <2>7 DEF CallsAt
<1>11. \A p \in Proc : Absent(p)' => Absent(p) /\ p # TaskOn(c)
  <2> TAKE p \in Proc
  <2>1. Absent(p)' => Absent(p)
    BY <1>2, <1>4, <1>6 DEF Absent
  <2>2. Reading
    BY <1>2 DEF Hands
  <2> QED
    BY <2>1, <2>2, PresentTask
<1> QED
  BY <1>2, <1>5, <1>7, <1>8, <1>10, <1>11, OthersKeepCalls

(***************************************************************************)
(* Which calls are on the stacks: the theorem                              *)
(***************************************************************************)

LEMMA KernelKeepsCInv ==
    ASSUME RInv, CInv, NEW c \in CPU, KernelStep(c)
    PROVE  CInv'
<1>1. CASE Announce(c)
  BY <1>1, AnnounceKeepsCInv
<1>2. ASSUME NEW x \in Call, Enter(c, x) PROVE CInv'
  BY <1>2, EnterKeepsCInv
<1>3. ASSUME NEW x \in Call, Whole(c, x) PROVE CInv'
  BY <1>3, WholeKeepsCInv
<1>4. CASE Leave(c)
  BY <1>4, LeaveKeepsCInv
<1>5. ASSUME NEW q \in Pid, Switch(c, q) PROVE CInv'
  BY <1>5, SwitchKeepsCInv
<1>6. ASSUME NEW kind \in Points, NEW arg \in Pid \cup CPU \cup Rpcs \cup {1, 4},
             Point(c, kind, arg)
      PROVE  CInv'
  BY <1>6, PointKeepsCInv
<1> QED
  BY <1>1, <1>2, <1>3, <1>4, <1>5, <1>6 DEF KernelStep

LEMMA KInitCInv ==
    ASSUME KInit
    PROVE  CInv
<1>1. /\ hidden = [t \in Task |-> Len(thread[t])] /\ strayed = {} /\ cut = {}
      /\ \A c \in CPU : thread[c] = IF on[c] = Idle THEN <<>> ELSE <<Sched>>
      /\ heard = [c \in CPU |-> "nothing"]
  BY DEF KInit
<1>2. /\ event = NoEvent /\ cpu_stack = [c \in CPU |-> IdleStack]
      /\ perpidstate = [p \in Pid |-> IF p = Idle THEN BrandNewPid(Idle) ELSE NoState]
  BY DEF KInit, Init
<1>3. KType /\ Idle \in Pid
  BY KInitRInv, CallAssumption DEF RInv
<1>4. \A t \in Task : thread[t] \in Seq(Call) /\ Len(thread[t]) \in Nat /\ hidden[t] = Len(thread[t])
  BY <1>1, <1>3 DEF KType
<1>5. \A t \in Task : Seen(t) = {}
  BY <1>4, AboveEnd DEF Seen
<1>6. ThreadsNest
  <2>1. ASSUME NEW t \in Task PROVE NestsAbove(thread[t], hidden[t], Lost(t))
    <3>1. Len(thread[t]) + 1 .. Len(thread[t]) = {} /\ Len(thread[t]) \in 0 .. Len(thread[t])
      BY <1>4
    <3> QED
      BY <1>4, <3>1 DEF NestsAbove
  <2>2. \A c \in CPU : /\ IdleThread(thread[c])
                       /\ on[c] # Idle => thread[c] = <<Sched>>
    BY <1>1 DEF IdleThread
  <2>3. ASSUME NEW c \in CPU, on[c] = Idle PROVE hidden[c] = 0
    <3>1. thread[c] = <<>> /\ c \in Task /\ Len(<<>>) = 0
      BY <1>1, <2>3 DEF Task
    <3> QED
      BY <1>4, <3>1
  <2>4. hidden \in [Task -> Nat] /\ strayed \subseteq Proc /\ cut = {}
    BY <1>1, <1>4
  <2>5. perpidstate[Idle].eventnum = <<Idle, Sched>>
    BY <1>2, <1>3 DEF BrandNewPid
  <2> QED
    BY <2>1, <2>2, <2>3, <2>4, <2>5 DEF ThreadsNest
<1>7. \A c, K : ~Converts(c, K)
  BY <1>2 DEF Converts, Reading
<1>8. ASSUME NEW c \in CPU, Known(c) PROVE CallsAt(c)
  <2>1. on[c] = Idle /\ TaskOn(c) = c /\ c \in Task
    BY <1>1, <1>8 DEF Known, Announced, TaskOn, Task
  <2>2. StackCalls(cpu_stack[c]) = {}
    BY <1>2, BareStack DEF StackCalls, IdleStack
  <2>3. Holds(cpu_stack[c], TaskOn(c))
    BY <1>1, <1>5, <2>1, <2>2 DEF Holds
  <2> QED
    BY <1>7, <2>3 DEF CallsAt
<1>9. AsideTrue
  BY <1>2, <1>5 DEF AsideTrue, Proc, Task
<1> QED
  BY <1>6, <1>8, <1>9 DEF CInv

LEMMA NextKeepsCInv ==
    ASSUME RInv, IInv, CInv, [Next]_allvars
    PROVE  CInv'
<1>1. CASE UNCHANGED allvars
  <2>1. UNCHANGED kvars /\ UNCHANGED <<event, cpu_stack, perpidstate>>
    BY <1>1 DEF allvars, vars, convvars, cpuvars, switchvars
  <2>2. /\ UNCHANGED <<on, thread, hidden, heard, strayed, cut>>
        /\ \A t : Seen(t)' = Seen(t) /\ AllCalls(t)' = AllCalls(t)
        /\ \A d : TaskOn(d)' = TaskOn(d) /\ (Known(d)' <=> Known(d)) /\ (Announced(d)' <=> Announced(d))
        /\ \A st, t : Holds(st, t)' <=> Holds(st, t)
        /\ \A st, t, e : Follow(st, t, e)' <=> Follow(st, t, e)
    BY <2>1, KernelStill
  <2>3. \A d : Owner(d)' = Owner(d) /\ \A K : Converts(d, K)' <=> Converts(d, K)
    BY <2>1 DEF Owner, Converts, Reading
  <2>4. ThreadsNest'
    BY <2>1, <2>2 DEF CInv, ThreadsNest, Lost
  <2>5. AsideTrue'
    BY <2>1, <2>2, <2>3 DEF CInv, AsideTrue, Absent
  <2>6. ASSUME NEW d \in CPU, Known(d)' PROVE CallsAt(d)'
    <3>1. CallsAt(d)
      BY <2>2, <2>6 DEF CInv
    <3>2. HeaderIdle(d)' <=> HeaderIdle(d)
      BY <2>1, <2>2 DEF HeaderIdle
    <3>3. /\ Holds(cpu_stack[d], TaskOn(d))' <=> Holds(cpu_stack[d], TaskOn(d))
          /\ Holds(cpu_stack[d], Owner(d))' <=> Holds(cpu_stack[d], Owner(d))
      BY <2>1, <2>2, <2>3 DEF Holds
    <3>4. Follow(cpu_stack[d], TaskOn(d), event)' <=> Follow(cpu_stack[d], TaskOn(d), event)
      BY <2>1, <2>2 DEF Follow
    <3>5. Seen(TaskOn(d))' = Seen(TaskOn(d)) /\ Seen(d)' = Seen(d)
      BY <2>2
    <3> QED
      BY <2>1, <2>2, <2>3, <3>1, <3>2, <3>3, <3>4, <3>5 DEF CallsAt
  <2> QED
    BY <2>4, <2>5, <2>6 DEF CInv
<1>2. CASE Kernel
  <2>1. PICK c \in CPU : KernelStep(c)
    BY <1>2, KernelSteps DEF RInv
  <2> QED
    BY <2>1, KernelKeepsCInv
<1>3. CASE Convert /\ UNCHANGED kvars
  BY <1>3, ConvertKeepsCInv
<1> QED
  BY <1>1, <1>2, <1>3 DEF Next

(* Whatever the processes do, however they were interrupted when the trace *)
(* began and whichever returns are missing, once every event has been read *)
(* the stack that the converter keeps of a CPU that has made a call, and   *)
(* of every process that was switched out, has the calls that are in       *)
(* progress there, in their order; of a process that left calls untraced   *)
(* it has at least these, and where an interrupt came into a bottom half   *)
(* the bottom half alone is missing.                                       *)
THEOREM StacksTrueHolds == Spec => []StacksTrue
<1>1. KInit => IInv /\ RInv /\ CInv
  BY InitHolds, KInitRInv, KInitCInv DEF KInit
<1>2. IInv /\ RInv /\ CInv /\ [Next]_allvars => IInv' /\ RInv' /\ CInv'
  <2> SUFFICES ASSUME IInv, RInv, CInv, [Next]_allvars PROVE IInv' /\ RInv' /\ CInv'
    OBVIOUS
  <2>1. [ConvNext]_vars
    BY NextConverts DEF RInv
  <2> QED
    BY <2>1, NextHolds, NextKeepsRInv, NextKeepsCInv
<1>3. IInv /\ RInv /\ CInv => StacksTrue
  <2> SUFFICES ASSUME IInv, RInv, CInv, Reading
               PROVE  /\ \A c \in mix.cpus : heard[c] = "call"
                            => Follows(cpu_stack[c], on[c], TaskOn(c))
                      /\ \A p \in mix.procs :
                            (perpidstate[p] # NoState /\ \A c \in CPU : on[c] # p)
                               => Follows(perpidstate[p], p, p)
    BY DEF StacksTrue
  <2>1. KType /\ ThreadsNest /\ \A d, K : ~Converts(d, K)
    BY DEF RInv, CInv, Converts
  <2>2. ASSUME NEW c \in mix.cpus, heard[c] = "call"
        PROVE  Follows(cpu_stack[c], on[c], TaskOn(c))
    <3>1. c \in CPU /\ Announced(c) /\ Known(c) /\ ~HeaderIdle(c)
      BY <2>1, <2>2, MixFacts DEF Announced, Known, HeaderIdle
    <3>2. Holds(cpu_stack[c], TaskOn(c)) /\ Owner(c) = on[c]
      BY <2>1, <3>1 DEF CInv, CallsAt, RInv, OwnersTrue
    <3>3. /\ TaskOn(c) \in Task /\ thread[TaskOn(c)] \in Seq(Call) /\ on[c] \in Pid
          /\ NestsAbove(thread[TaskOn(c)], hidden[TaskOn(c)], Lost(TaskOn(c)))
      BY <2>1, <3>1, TaskFacts DEF ThreadsNest
    <3>4. GoodState(cpu_stack[c])
      BY <3>1 DEF IInv, StackType, StacksNest, GoodState
    <3> QED
      BY <3>2, <3>3, <3>4, HoldsFollows DEF Owner
  <2>3. ASSUME NEW p \in mix.procs, perpidstate[p] # NoState, \A c \in CPU : on[c] # p
        PROVE  Follows(perpidstate[p], p, p)
    <3>1. p \in Proc /\ p \in Pid /\ p \in Task
      BY <2>1, MixFacts DEF Proc, Task
    <3>2. Absent(p)
      <4>1. \A c \in CPU : Owner(c) = on[c] \/ Owner(c) = Idle
        BY <2>1 DEF RInv, OwnersTrue
      <4> QED
        BY <2>3, <3>1, <4>1 DEF Absent, Proc
    <3>3. Holds(perpidstate[p], p) /\ perpidstate[p].eventnum[1] = p
      BY <2>3, <3>1, <3>2 DEF CInv, AsideTrue, RInv, RpcsTrue
    <3>4. thread[p] \in Seq(Call) /\ NestsAbove(thread[p], hidden[p], Lost(p))
      BY <2>1, <3>1 DEF KType, ThreadsNest
    <3>5. GoodState(perpidstate[p])
      BY <2>3, <3>1 DEF IInv, StackType, StacksNest, GoodState
    <3> QED
      BY <3>1, <3>3, <3>4, <3>5, HoldsFollows
  <2> QED
    BY <2>2, <2>3
<1> QED
  BY <1>1, <1>2, <1>3, PTL DEF Spec

(***************************************************************************)
(* What the spans say: the invariant                                       *)
(*                                                                         *)
(* The label of an open span is what is on top of the stack of its CPU.    *)
(* Where the two differ, either the next call inserts the return from the  *)
(* scheduler that was missed, at a time that is past, or the property does *)
(* not ask.  While an event is converted it is known what its fix-ups do.  *)
(***************************************************************************)

Entries == [start : Int, stop : Int, eventnum : Pid \cup Call \cup Points \cup {"cexit"}]

SpanType ==
    /\ span_start_time \in Nat
    /\ cur_span \in [CPU -> OpenSpan]
    /\ ctx_switch_ts \in [CPU -> Nat]
    /\ mwait_pending \in [CPU -> Int]
    /\ shown \in Seq(Entries)

TimesFit ==
    /\ SpanType /\ ran.at = now /\ span_start_time <= now
    /\ \A c \in CPU : cur_span[c].start <= now + 1 /\ ctx_switch_ts[c] <= now
    /\ ~Reading => 0 < now /\ cur_span[event.cpu].start <= event.ts

Label(c) == cur_span[c].eventnum

(* An interrupt inside the scheduler has ended it for the converter.       *)
Interrupted(c) == mix.intr /\ TopCall(c) = Sched

Arrives(c) == Converts(c, {"ctx"}) /\ Owner(c) # on[c]

LabelAt(c) ==
    /\ ~Converts(c, {"ret"}) /\ ~(Converts(c, {"call"}) /\ event.dur = 0) /\ ~Arrives(c)
          => Label(c) = TOS(cpu_stack[c]) \/ TOS(cpu_stack[c]) = Sched \/ Interrupted(c)
    /\ ~Converts(c, {"call", "ret", "ctx"}) /\ heard[c] = "call"
          => Label(c) = TOS(cpu_stack[c]) \/ on[c] \in fresh \/ Interrupted(c)
    /\ Arrives(c) =>
          /\ \/ TopCall(c) = Sched \/ on[c] \in fresh
             \/ heard[c] = "header" /\ perpidstate[on[c]] = NoState
          /\ heard[c] = "call" /\ ~mix.intr => Label(c) = Sched

(* A new process has made no call: its span began with the switch to it.   *)
FreshAt(c) == on[c] \in fresh =>
    /\ ~Converts(c, {"call", "ret"})
    /\ ~Converts(c, {"ctx"}) /\ TOS(cpu_stack[c]) = Sched /\ ~mix.early
          => 0 < ctx_switch_ts[c] /\ cur_span[c].start <= ctx_switch_ts[c]

(* A reschedule_ipi is innermost, and one that the trace has not seen      *)
(* begin is on a CPU that made no call since its header; who has made no   *)
(* call has left none.                                                     *)
LastResched(s) == \A i \in 1 .. Len(s) : s[i] = Resched => i = Len(s)

BeginsTrue ==
    /\ \A t \in Task : LastResched(thread[t])
    /\ \A c \in CPU : LET t == TaskOn(c) IN
          TopCall(c) = Resched /\ hidden[t] = Len(thread[t]) => heard[c] # "call"
    /\ fresh \cap strayed = {}

(* The open span may be closed at any time.                                *)
Safe == LET span == cur_span[event.cpu] IN span.eventnum = ran.what \/ now <= span.start

(* What the fix-ups are left to do: returns at the time of the event, or   *)
(* the return of a new process from its first scheduler, or a call that    *)
(* began before the trace has it.                                          *)
Expected == LET c == event.cpu IN
    \/ /\ Safe
       /\ event.kind = "call" => TOS(Stack) # Sched
       /\ event.kind = "ret" => Matches(event)
       /\ OnlyInUserMode(event) => ran.what = Owner(c)
    \/ /\ NeedsSched /\ ran.what = Owner(c)
       /\ cur_span[c].start <= ctx_switch_ts[c] /\ ctx_switch_ts[c] < now
    \/ /\ event.kind = "ret" /\ ~Matches(event) /\ ~CallFound(event)
       /\ NestLevel(TOS(Stack)) < NestLevel(event.num) /\ event.num = ran.what
       /\ valid_span[c] => cur_span[c].start = span_start_time /\ span_start_time < now

Truthful(r) ==
    r.stop = now /\ r.start < now /\ r.eventnum \in Pid \cup Call => r.eventnum = ran.what

AllTrue(s) == \A i \in 1 .. Len(s) : Truthful(s[i])

SpanTrue == ran.sure => AllTrue(shown) /\ (~Reading => Expected)

LInv == TimesFit /\ (\A c \in CPU : LabelAt(c) /\ FreshAt(c)) /\ BeginsTrue /\ SpanTrue

(***************************************************************************)
(* What the spans say: what a step of the converter closes                 *)
(***************************************************************************)

(* The label of the open span changes with what is on top of the stack.    *)
LEMMA LabelMoves ==
    ASSUME SpanType, StackType, StacksNest, NEW c \in CPU, NEW e
    PROVE  /\ Labelled(c, e) \in OpenSpan /\ Labelled(c, e).start = cur_span[c].start
           /\ OnlyInKernelMode(e) => Labelled(c, e) = cur_span[c]
           /\ \/ /\ Labelled(c, e) = cur_span[c]
                 /\ Resolve(cpu_stack[c], e).eventnum = cpu_stack[c].eventnum
              \/ /\ OnlyInUserMode(e) /\ Labelled(c, e).eventnum = Owner(c)
                 /\ Resolve(cpu_stack[c], e).eventnum = <<Owner(c)>>
<1> DEFINE st == cpu_stack[c]
<1>1. cur_span[c] \in OpenSpan
  BY DEF SpanType
<1>2. st \in PidStates /\ Owner(c) \in Pid
  BY StackFacts, TopFacts DEF GoodState, Owner
<1>3. CASE Ambiguous(st) /\ ~OnlyInKernelMode(e) /\ OnlyInUserMode(e)
  <2>1. Labelled(c, e) = [cur_span[c] EXCEPT !.eventnum = Owner(c)]
    BY <1>3 DEF Labelled, Owner
  <2>2. Resolve(st, e) = [eventnum |-> <<Owner(c)>>, ambiguous |-> 0, rpcid |-> st.rpcid]
    BY <1>3 DEF Resolve, Owner
  <2>3. Resolve(st, e).eventnum = <<Owner(c)>>
    BY <2>2
  <2> QED
    BY <1>1, <1>2, <1>3, <2>1, <2>3 DEF OpenSpan
<1>4. CASE ~(Ambiguous(st) /\ ~OnlyInKernelMode(e) /\ OnlyInUserMode(e))
  <2>1. Labelled(c, e) = cur_span[c]
    BY <1>4 DEF Labelled
  <2>2. Resolve(st, e) = st \/ Resolve(st, e) = [st EXCEPT !.ambiguous = 0]
    BY <1>4 DEF Resolve
  <2>3. [st EXCEPT !.ambiguous = 0].eventnum = st.eventnum
    BY <1>2 DEF PidStates
  <2>4. Resolve(st, e).eventnum = st.eventnum
    BY <2>2, <2>3
  <2> QED
    BY <1>1, <2>1, <2>4
<1> QED
  BY <1>3, <1>4

(* A span is closed truthfully if its label is right, if it starts with    *)
(* the event, or if it ends before it.                                     *)
ClosesWell(c, e) ==
    valid_span[c] => \/ Labelled(c, e).eventnum = ran.what \/ now <= cur_span[c].start
                     \/ cur_span[c].start <= e.ts /\ e.ts < now

LEMMA ClosesTrue ==
    ASSUME SpanType, StackType, StacksNest, now \in Nat, NEW c \in CPU, NEW e, e.ts \in Int
    PROVE  /\ Closes(c, e) \in Seq(Entries)
           /\ AllTrue(shown) /\ ClosesWell(c, e) => AllTrue(Closes(c, e))
<1> DEFINE span == Labelled(c, e)
           r == Closed(span, e.ts)
<1>1. span \in OpenSpan /\ span.start = cur_span[c].start /\ span.start \in Nat
  BY LabelMoves DEF OpenSpan
<1>2. shown \in Seq(Entries)
  BY DEF SpanType
<1>3. CASE ~valid_span[c]
  <2>1. Closes(c, e) = shown \o <<>>
    BY <1>3 DEF Closes, FinishSpan
  <2>2. Closes(c, e) = shown
    BY <1>2, <2>1
  <2> QED
    BY <1>2, <2>2
<1>4. CASE valid_span[c]
  <2>1. Closes(c, e) = shown \o <<r>>
    BY <1>4 DEF Closes, FinishSpan
  <2>2. /\ StopOf(span, e.ts) \in Int
        /\ StopOf(span, e.ts) = IF e.ts < span.start THEN span.start + 1 ELSE e.ts
    BY <1>1 DEF StopOf
  <2>3. /\ r = [start |-> span.start, stop |-> StopOf(span, e.ts), eventnum |-> span.eventnum]
        /\ span.eventnum \in Pid \cup Call
    BY <1>1 DEF Closed, OpenSpan
  <2>4. /\ r.start = span.start /\ r.stop = StopOf(span, e.ts) /\ r.eventnum = span.eventnum
        /\ r \in Entries
    BY <1>1, <2>2, <2>3 DEF Entries
  <2> HIDE DEF r
  <2>5. ClosesWell(c, e) => Truthful(r)
    BY <1>1, <1>4, <2>2, <2>4 DEF ClosesWell, Truthful
  <2>6. /\ shown \o <<r>> \in Seq(Entries) /\ Len(shown \o <<r>>) = Len(shown) + 1
        /\ \A i \in 1 .. Len(shown) : (shown \o <<r>>)[i] = shown[i]
        /\ (shown \o <<r>>)[Len(shown) + 1] = r
    BY <1>2, <2>4
  <2>7. \A i \in 1 .. Len(shown) + 1 : i = Len(shown) + 1 \/ i \in 1 .. Len(shown)
    BY <1>2
  <2> QED
    BY <2>1, <2>5, <2>6, <2>7 DEF AllTrue
<1> QED
  BY <1>3, <1>4

LEMMA TrueMore ==
    ASSUME NEW s \in Seq(Entries), NEW r \in Entries
    PROVE  /\ s \o <<r>> \in Seq(Entries)
           /\ AllTrue(s) /\ Truthful(r) => AllTrue(s \o <<r>>)
<1>1. /\ s \o <<r>> \in Seq(Entries) /\ Len(s \o <<r>>) = Len(s) + 1
      /\ \A i \in 1 .. Len(s) : (s \o <<r>>)[i] = s[i]
      /\ (s \o <<r>>)[Len(s) + 1] = r
  OBVIOUS
<1>2. \A i \in 1 .. Len(s) + 1 : i = Len(s) + 1 \/ i \in 1 .. Len(s)
  OBVIOUS
<1> QED
  BY <1>1, <1>2 DEF AllTrue

(***************************************************************************)
(* What the spans say: steps of the converter                              *)
(***************************************************************************)

(* One CPU gets another open span, and the time x of its last switch.      *)
Shifts(c, span, x) ==
    /\ cur_span' = [cur_span EXCEPT ![c] = span] /\ span \in OpenSpan
    /\ ctx_switch_ts' = [ctx_switch_ts EXCEPT ![c] = x] /\ x \in Nat
    /\ \A d \in CPU \ {c} : cpu_stack'[d] = cpu_stack[d]
    /\ UNCHANGED span_start_time
    /\ mwait_pending' \in [CPU -> Int] /\ shown' \in Seq(Entries)

LEMMA SpansStill ==
    ASSUME UNCHANGED kvars
    PROVE  /\ UNCHANGED <<mix, now, on, heard, fresh, ran>>
           /\ \A d : TaskOn(d)' = TaskOn(d) /\ TopCall(d)' = TopCall(d)
           /\ \A d : Interrupted(d)' <=> Interrupted(d)
           /\ BeginsTrue => BeginsTrue'
<1>1. UNCHANGED <<mix, now, on, thread, hidden, heard, fresh, strayed, ran>>
  BY DEF kvars
<1> QED
  BY <1>1 DEF TopCall, TaskOn, Interrupted, BeginsTrue

LEMMA OthersKeepLabels ==
    ASSUME UNCHANGED kvars, ~Reading, NEW c, c = event.cpu, event \in Lines,
           event' = event \/ Goes, NEW d \in CPU \ {c}, cpu_stack'[d] = cpu_stack[d],
           cur_span'[d] = cur_span[d], ctx_switch_ts'[d] = ctx_switch_ts[d],
           LabelAt(d), FreshAt(d)
    PROVE  LabelAt(d)' /\ FreshAt(d)'
<1>1. \A K : ~Converts(d, K) /\ ~Converts(d, K)'
  <2>1. ~Reading' => event'.cpu = c
    BY DEF Goes, RunnableAfter, Reading
  <2> QED
    BY <2>1 DEF Converts
<1>2. ~Arrives(d) /\ ~Arrives(d)'
  BY <1>1 DEF Arrives
<1>3. Label(d)' = Label(d)
  BY DEF Label
<1> QED
  BY <1>1, <1>2, <1>3, SpansStill DEF LabelAt, FreshAt

(* A step of the converter, from what it does to its CPU.                  *)
LEMMA ShiftKeepsLInv ==
    ASSUME RInv, IInv, LInv, UNCHANGED kvars, ~Reading, NEW c, c = event.cpu,
           event' = event \/ Goes, NEW span, NEW x, Shifts(c, span, x),
           span.start <= now + 1, x <= now,
           event' # NoEvent => span.start <= event'.ts,
           LabelAt(c)', FreshAt(c)', SpanTrue'
    PROVE  LInv'
<1>1. c \in CPU /\ event \in Lines
  BY Converting
<1>2. SpanType /\ TimesFit /\ BeginsTrue /\ \A d \in CPU : LabelAt(d) /\ FreshAt(d)
  BY DEF LInv, TimesFit
<1>3. /\ cur_span'[c] = span /\ \A d \in CPU \ {c} : cur_span'[d] = cur_span[d]
      /\ ctx_switch_ts'[c] = x /\ \A d \in CPU \ {c} : ctx_switch_ts'[d] = ctx_switch_ts[d]
  BY <1>1, <1>2 DEF Shifts, SpanType
<1>4. SpanType'
  BY <1>1, <1>2 DEF Shifts, SpanType
<1>5. UNCHANGED <<now, ran, span_start_time>>
  BY SpansStill DEF Shifts
<1>6. \A d \in CPU : cur_span'[d].start <= now + 1 /\ ctx_switch_ts'[d] <= now
  <2> TAKE d \in CPU
  <2>1. CASE d = c
    BY <1>3, <2>1
  <2>2. CASE d # c
    BY <1>2, <1>3, <2>2 DEF TimesFit
  <2> QED
    BY <2>1, <2>2
<1>7. ~Reading' => event'.cpu = c /\ event' # NoEvent
  BY DEF Goes, RunnableAfter, Reading
<1>8. TimesFit'
  BY <1>2, <1>3, <1>4, <1>5, <1>6, <1>7 DEF TimesFit
<1>9. ASSUME NEW d \in CPU PROVE LabelAt(d)' /\ FreshAt(d)'
  <2>1. CASE d = c
    BY <2>1
  <2>2. CASE d # c
    BY <1>1, <1>2, <1>3, <2>2, OthersKeepLabels DEF Shifts
  <2> QED
    BY <2>1, <2>2
<1> QED
  BY <1>2, <1>8, <1>9, SpansStill DEF LInv

(* What is known of the event and the span that is open for it.            *)
LEMMA ConvertingSpans ==
    ASSUME RInv, IInv, LInv, ~Reading, NEW c, c = event.cpu
    PROVE  /\ c \in CPU /\ event \in Lines /\ StackType /\ StacksNest /\ SpanType
           /\ KType /\ now \in Nat /\ 0 < now
           /\ event.ts \in {now, now + 1} /\ event.dur \in {0, 1}
           /\ event.kind # "wakeup" => event.ts = now
           /\ cur_span[c] \in OpenSpan /\ cur_span[c].start \in Nat
           /\ cur_span[c].start <= event.ts
           /\ span_start_time \in Nat /\ span_start_time <= now
           /\ ctx_switch_ts[c] \in Nat /\ ctx_switch_ts[c] <= now
           /\ event.pid \in Pid /\ Stack = cpu_stack[c]
           /\ LabelAt(c) /\ FreshAt(c)
<1>1. c \in CPU /\ event \in Lines /\ StackType /\ StacksNest /\ event.pid \in Pid
  BY Converting DEF IInv
<1>2. KType /\ EventTrue /\ now \in Nat
  BY DEF RInv, KType
<1>3. SpanType /\ TimesFit /\ LabelAt(c) /\ FreshAt(c)
  BY <1>1 DEF LInv, TimesFit
<1>4. cur_span[c] \in OpenSpan /\ cur_span[c].start \in Nat /\ span_start_time \in Nat
      /\ ctx_switch_ts[c] \in Nat
  BY <1>1, <1>3 DEF SpanType, OpenSpan
<1>5. /\ event.ts \in {now, now + 1} /\ event.dur \in {0, 1}
      /\ event.kind # "wakeup" => event.ts = now
  BY <1>2 DEF EventTrue
<1>6. /\ 0 < now /\ cur_span[c].start <= event.ts /\ span_start_time <= now
      /\ ctx_switch_ts[c] <= now
  BY <1>1, <1>3 DEF TimesFit
<1> QED
  BY <1>1, <1>2, <1>3, <1>4, <1>5, <1>6 DEF Stack

LEMMA SpanTrueAfter ==
    ASSUME UNCHANGED kvars, ran.sure => AllTrue(shown') /\ (~Reading' => Expected')
    PROVE  SpanTrue'
  BY SpansStill DEF SpanTrue, AllTrue, Truthful

(* The event is still to be converted, or has become a wakeup.             *)
LEMMA SafeAfter ==
    ASSUME UNCHANGED kvars, NEW c, c = event.cpu,
           cur_span'[c].eventnum = ran.what \/ now <= cur_span'[c].start
    PROVE  /\ /\ event' = event /\ (event.kind = "call" => TOS(cpu_stack'[c]) # Sched)
              /\ (event.kind = "ret" => Matches(event)')
              /\ (OnlyInUserMode(event) => ran.what = Owner(c)')
              => Expected'
           /\ Goes /\ ~Reading' => Expected'
<1>1. UNCHANGED <<now, ran>>
  BY SpansStill
<1>2. event'.cpu = c => Safe'
  BY <1>1 DEF Safe
<1>3. ASSUME event' = event, event.kind = "call" => TOS(cpu_stack'[c]) # Sched,
             event.kind = "ret" => Matches(event)',
             OnlyInUserMode(event) => ran.what = Owner(c)'
      PROVE  Expected'
  <2>1. Safe'
    BY <1>2, <1>3
  <2>2. Stack' = cpu_stack'[c] /\ Owner(event.cpu)' = Owner(c)'
    BY <1>3 DEF Stack, Owner
  <2>3. OnlyInUserMode(event)' => OnlyInUserMode(event)
    BY <1>3 DEF OnlyInUserMode, IsACall
  <2> QED
    BY <1>1, <1>3, <2>1, <2>2, <2>3 DEF Expected
<1>4. ASSUME Goes, ~Reading' PROVE Expected'
  <2>1. event'.cpu = c /\ event'.kind = "wakeup"
    BY <1>4 DEF Goes, Reading, RunnableAfter
  <2>2. ~OnlyInUserMode(event)'
    BY <2>1 DEF OnlyInUserMode, IsACall
  <2> QED
    BY <1>2, <2>1, <2>2 DEF Expected
<1> QED
  BY <1>3, <1>4

(* A return closes the open span and starts that of what is below.         *)
LEMMA ReturnShifts ==
    ASSUME SpanType, StackType, StacksNest, now \in Nat, NEW c \in CPU,
           NEW e, e.cpu = c, e.ts \in Nat, e.pid \in Pid, IsAReturn(e), ProcessReturn(e),
           UNCHANGED span_start_time,
           NEW st, Pops(c, st), cur_span' = [cur_span EXCEPT ![c] = StartSpan(e, TOS(st))]
    PROVE  /\ Shifts(c, StartSpan(e, TOS(st)), IF e.num = Sched THEN 0 ELSE ctx_switch_ts[c])
           /\ shown' = Closes(c, e)
<1> DEFINE span == StartSpan(e, TOS(st))
           x == IF e.num = Sched THEN 0 ELSE ctx_switch_ts[c]
<1>1. span \in OpenSpan
  BY DEF StartSpan, OpenSpan, Pops
<1>2. shown' = Closes(c, e) \o <<>> /\ UNCHANGED mwait_pending /\ SetSchedTs(e)
  BY DEF ProcessReturn, EndSpan, Closes
<1>3. shown' = Closes(c, e) /\ shown' \in Seq(Entries)
  <2>1. Closes(c, e) \in Seq(Entries)
    BY ClosesTrue
  <2> QED
    BY <1>2, <2>1
<1>4. ctx_switch_ts' = [ctx_switch_ts EXCEPT ![c] = x] /\ x \in Nat
  <2>1. ~IsSchedCallEvent(e) /\ (IsSchedReturnEvent(e) <=> e.num = Sched)
    BY DEF IsSchedReturnEvent, IsSchedCallEvent, IsACall, IsAReturn
  <2>2. CASE e.num = Sched
    BY <1>2, <2>1, <2>2 DEF SetSchedTs
  <2>3. CASE e.num # Sched
    BY <1>2, <2>1, <2>3 DEF SetSchedTs, SpanType
  <2> QED
    BY <2>2, <2>3
<1>5. cpu_stack'[c] = st /\ \A d \in CPU \ {c} : cpu_stack'[d] = cpu_stack[d]
  BY DEF Pops, Edits
<1>6. cur_span' = [cur_span EXCEPT ![c] = span] /\ mwait_pending' \in [CPU -> Int]
  BY <1>2 DEF SpanType
<1> HIDE DEF span, x
<1>7. Shifts(c, span, x)
  BY <1>1, <1>3, <1>4, <1>5, <1>6 DEF Shifts
<1> QED
  BY <1>3, <1>7 DEF span, x

LEMMA ReturnKeepsLInv ==
    ASSUME RInv, IInv, LInv, UNCHANGED kvars, ~Reading, NEW c, c = event.cpu,
           event.kind \in {"call", "ret"}, event' = event \/ Goes,
           NEW e, e.cpu = c, e.ts \in Nat, e.ts <= now, e.pid \in Pid, IsAReturn(e),
           ProcessReturn(e), UNCHANGED span_start_time,
           NEW st, Pops(c, st), cur_span' = [cur_span EXCEPT ![c] = StartSpan(e, TOS(st))],
           SpanTrue'
    PROVE  LInv'
<1> DEFINE span == StartSpan(e, TOS(st))
           x == IF e.num = Sched THEN 0 ELSE ctx_switch_ts[c]
<1>1. /\ c \in CPU /\ StackType /\ StacksNest /\ SpanType /\ KType /\ now \in Nat
      /\ event.ts = now /\ event.dur \in {0, 1}
      /\ ctx_switch_ts[c] \in Nat /\ ctx_switch_ts[c] <= now /\ FreshAt(c)
  BY ConvertingSpans
<1>2. /\ Shifts(c, span, x) /\ span.start = e.ts /\ span.eventnum = TOS(st)
      /\ cur_span'[c] = span /\ cpu_stack'[c] = st
  <2>1. Shifts(c, span, x)
    BY <1>1, ReturnShifts
  <2>2. span.start = e.ts /\ span.eventnum = TOS(st)
    BY DEF StartSpan
  <2>3. cur_span'[c] = span /\ cpu_stack'[c] = st
    BY <1>1 DEF SpanType, Pops, Edits
  <2> QED
    BY <2>1, <2>2, <2>3
<1>3. x <= now
  BY <1>1
<1>4. event' # NoEvent => e.ts <= event'.ts
  <2>1. event' # NoEvent => event'.ts = event.ts \/ event'.ts = event.ts + event.dur
    BY DEF Goes, RunnableAfter
  <2> QED
    BY <1>1, <2>1
<1>5. ~Reading' => event'.kind \in {"call", "ret", "wakeup"}
  BY DEF Goes, RunnableAfter, Reading
<1>6. ~Arrives(c)'
  BY <1>5 DEF Arrives, Converts
<1>7. LabelAt(c)'
  BY <1>2, <1>6 DEF LabelAt, Label
<1>8. on[c] \notin fresh
  BY <1>1 DEF FreshAt, Converts
<1>9. FreshAt(c)'
  BY <1>8, SpansStill DEF FreshAt
<1> HIDE DEF span, x
<1> QED
  BY <1>1, <1>2, <1>3, <1>4, <1>7, <1>9, ShiftKeepsLInv

(* A fix-up that inserts a return.                                         *)
LEMMA InsertKeepsLInv ==
    ASSUME RInv, IInv, LInv, UNCHANGED kvars, NEW ts \in Nat, ts <= now, Inserts(ts),
           UNCHANGED span_start_time, NEW c, c = event.cpu, event.kind \in {"call", "ret"},
           ran.sure =>
              /\ event.kind = "call" /\ (OnlyInUserMode(event) => ran.what = Owner(c))
              /\ \/ Label(c) = ran.what \/ now <= cur_span[c].start
                 \/ cur_span[c].start <= ts /\ ts < now
              /\ ts = now \/ (Len(Stack.eventnum) = 2 /\ ran.what = Owner(c))
    PROVE  LInv'
<1> DEFINE e == ReturnAt(ts)
<1>1. ~Reading /\ UNCHANGED event /\ ProcessReturn(e)
  BY DEF Inserts
<1>2. /\ c \in CPU /\ event \in Lines /\ StackType /\ StacksNest /\ SpanType /\ now \in Nat
      /\ event.pid \in Pid /\ Stack = cpu_stack[c]
  BY <1>1, ConvertingSpans
<1>3. IsAReturn(e) /\ e.cpu = c /\ e.ts = ts /\ e.pid \in Pid /\ OnlyInKernelMode(e)
  BY <1>2 DEF ReturnAt, Lines, IsAReturn, OnlyInKernelMode
<1>4. PICK st : Pops(c, st) /\ cur_span' = [cur_span EXCEPT ![c] = StartSpan(e, TOS(st))]
  BY InsertedReturnEdits
<1> HIDE DEF e
<1>5. shown' = Closes(c, e)
  BY <1>1, <1>2, <1>3, <1>4, ReturnShifts
<1>6. /\ cur_span'[c].start = ts /\ cur_span'[c].eventnum = TOS(st) /\ cpu_stack'[c] = st
      /\ TOS(st) # Sched /\ Owner(c)' = Owner(c)
      /\ Len(cpu_stack[c].eventnum) = 2 => TOS(st) = Owner(c)
  <2>1. cur_span'[c] = StartSpan(e, TOS(st)) /\ cpu_stack'[c] = st
    BY <1>2, <1>4 DEF SpanType, Pops, Edits
  <2>2. st.eventnum[1] = Owner(c) /\ TOS(st) = st.eventnum[Len(cpu_stack[c].eventnum) - 1]
        /\ TOS(st) # Sched
    BY <1>4 DEF Pops
  <2>3. Len(cpu_stack[c].eventnum) = 2 => TOS(st) = st.eventnum[1]
    BY <2>2
  <2> QED
    BY <1>3, <2>1, <2>2, <2>3 DEF StartSpan, Owner
<1>7. ran.sure => AllTrue(shown')
  <2>1. Labelled(c, e) = cur_span[c]
    BY <1>2, <1>3, LabelMoves
  <2>2. ran.sure => AllTrue(shown) /\ ClosesWell(c, e)
    BY <1>3, <2>1 DEF LInv, SpanTrue, ClosesWell, Label
  <2>3. e.ts \in Int
    BY <1>3
  <2> QED
    BY <1>2, <1>5, <2>2, <2>3, ClosesTrue
<1>8. ran.sure => Expected'
  <2> SUFFICES ASSUME ran.sure PROVE Expected'
    OBVIOUS
  <2>1. cur_span'[c].eventnum = ran.what \/ now <= cur_span'[c].start
    BY <1>2, <1>6
  <2>2. TOS(cpu_stack'[c]) # Sched
    BY <1>6
  <2> QED
    BY <1>1, <1>6, <2>1, <2>2, SafeAfter
<1>9. SpanTrue'
  BY <1>7, <1>8, SpanTrueAfter
<1> QED
  BY <1>1, <1>2, <1>3, <1>4, <1>9, ReturnKeepsLInv

LEMMA ReturnPopKeepsLInv ==
    ASSUME RInv, IInv, LInv, UNCHANGED kvars, FixupReturnPop
    PROVE  LInv'
<1> DEFINE c == event.cpu
<1>1. ~Reading /\ UNCHANGED <<event, span_start_time>> /\ event.kind = "ret" /\ ~Matches(event)
  BY DEF FixupReturnPop, IsAReturn
<1>2. /\ now \in Nat /\ event.ts = now /\ span_start_time \in Nat /\ span_start_time <= now
  BY <1>1, ConvertingSpans
<1>3. PICK ts \in {event.ts, span_start_time} : Inserts(ts)
  BY FixupFacts
<1>4. ts \in Nat /\ ts <= now
  BY <1>2
<1>5. ~(~CallFound(event) /\ NestLevel(TOS(Stack)) < NestLevel(event.num))
  <2>1. NestLevel(TOS(Stack)) \in 0 .. 4 /\ NestLevel(event.num) \in 1 .. 4
    BY <1>1, Converting, LevelFacts
  <2> QED
    BY <2>1 DEF FixupReturnPop
<1>6. ~Expected
  BY <1>1, <1>5 DEF Expected, NeedsSched, IsACall
<1>7. ~ran.sure
  BY <1>1, <1>6 DEF LInv, SpanTrue
<1> QED
  BY <1>1, <1>3, <1>4, <1>7, InsertKeepsLInv

LEMMA SchedFixupKeepsLInv ==
    ASSUME RInv, IInv, LInv, UNCHANGED kvars, FixupSched
    PROVE  LInv'
<1> DEFINE c == event.cpu
           ts == ctx_switch_ts[c]
<1>1. /\ ~Reading /\ UNCHANGED <<event, span_start_time>> /\ event.kind = "call"
      /\ TOS(Stack) = Sched /\ Top(Stack) = 1 /\ Inserts(ts)
  BY FixupFacts DEF FixupSched, NeedsSched, IsACall
<1>2. c \in CPU /\ ts \in Nat /\ ts <= now /\ now \in Nat
  BY <1>1, ConvertingSpans
<1>3. Len(Stack.eventnum) = 2
  BY <1>1, Converting DEF Top
<1>4. ran.sure => ran.what = Owner(c) /\ cur_span[c].start <= ts /\ ts < now
  BY <1>1 DEF LInv, SpanTrue, Expected
<1> QED
  BY <1>1, <1>2, <1>3, <1>4, InsertKeepsLInv

LEMMA CallFixupKeepsLInv ==
    ASSUME RInv, IInv, LInv, UNCHANGED kvars, FixupCall
    PROVE  LInv'
<1> DEFINE c == event.cpu
<1>1. ~Reading /\ UNCHANGED <<event, span_start_time>> /\ event.kind = "call"
      /\ ~NeedsSched /\ Inserts(event.ts)
  BY FixupFacts DEF FixupCall, NeedsPop, IsACall
<1>2. c \in CPU /\ event.ts = now /\ now \in Nat
  BY <1>1, ConvertingSpans
<1>3. ran.sure => (OnlyInUserMode(event) => ran.what = Owner(c))
                  /\ (Label(c) = ran.what \/ now <= cur_span[c].start)
  BY <1>1 DEF LInv, SpanTrue, Expected, Safe, Label
<1> QED
  BY <1>1, <1>2, <1>3, InsertKeepsLInv

(* A step before the call or return itself.                                *)
LEMMA WaitingKeepsLInv ==
    ASSUME RInv, IInv, LInv, UNCHANGED kvars, ~Reading, NEW c, c = event.cpu,
           event.kind \in {"call", "ret"}, UNCHANGED event, NEW span, NEW x,
           Shifts(c, span, x), span.start <= now, x <= now,
           event.kind = "call" /\ event.dur # 0 => span.eventnum = TOS(cpu_stack'[c]),
           SpanTrue'
    PROVE  LInv'
<1>1. /\ c \in CPU /\ SpanType /\ now \in Nat /\ event.ts = now /\ event.dur \in {0, 1}
      /\ FreshAt(c)
  BY ConvertingSpans
<1>2. cur_span'[c] = span
  BY <1>1 DEF Shifts, SpanType
<1>3. Converts(c, {"call", "ret"}) /\ Converts(c, {"call", "ret"})' /\ ~Arrives(c)'
      /\ Converts(c, {"call", "ret", "ctx"})'
  BY DEF Arrives, Converts, Reading
<1>4. on[c] \notin fresh
  BY <1>1, <1>3 DEF FreshAt
<1>5. FreshAt(c)'
  BY <1>4, SpansStill DEF FreshAt
<1>6. Converts(c, {"ret"})' \/ (event.kind = "call" /\ Converts(c, {"call"})')
  BY DEF Converts, Reading
<1>7. LabelAt(c)'
  BY <1>2, <1>3, <1>6 DEF LabelAt, Label
<1>8. event' # NoEvent => span.start <= event'.ts
  BY <1>1
<1>9. span.start <= now + 1
  BY <1>1 DEF Shifts, OpenSpan
<1> QED
  BY <1>1, <1>5, <1>7, <1>8, <1>9, ShiftKeepsLInv

LEMMA ReschedKeepsLInv ==
    ASSUME RInv, IInv, SInv, LInv, UNCHANGED kvars, FixupResched
    PROVE  LInv'
<1> DEFINE c == event.cpu
           span == cur_span[c]
<1>1. /\ ~Reading /\ event.kind = "call" /\ event.num = Sched /\ TOS(Stack) = Resched
      /\ UNCHANGED <<event, span_start_time, cur_span, valid_span, ctx_switch_ts,
                     mwait_pending, shown>>
  BY DEF FixupResched, NeedsResched, IsSchedCallEvent, IsACall, outvars
<1>2. /\ c \in CPU /\ SpanType /\ now \in Nat /\ event.ts = now
      /\ span \in OpenSpan /\ span.start <= event.ts
      /\ ctx_switch_ts[c] \in Nat /\ ctx_switch_ts[c] <= now
  BY <1>1, ConvertingSpans
<1>3. PICK st : Edits(c, st) /\ TOS(st) # Sched /\ st.eventnum[1] = Owner(c)
  BY ReschedEdits
<1>4. event.dur = 0
  BY <1>1, <1>2 DEF SInv, SchedTrue, SchedAfter
<1>5. Shifts(c, span, ctx_switch_ts[c])
  <2>1. /\ cur_span' = [cur_span EXCEPT ![c] = cur_span[c]]
        /\ ctx_switch_ts' = [ctx_switch_ts EXCEPT ![c] = ctx_switch_ts[c]]
        /\ mwait_pending' \in [CPU -> Int] /\ shown' \in Seq(Entries)
    BY <1>1, <1>2 DEF SpanType
  <2> QED
    BY <1>1, <1>2, <1>3, <2>1 DEF Shifts, Edits
<1>6. SpanTrue'
  <2> SUFFICES ASSUME ran.sure PROVE AllTrue(shown') /\ Expected'
    BY SpanTrueAfter
  <2>1. AllTrue(shown) /\ Expected
    BY <1>1 DEF LInv, SpanTrue
  <2>2. TOS(Stack) # Sched
    BY <1>1, LevelFacts, CallAssumption
  <2>3. Safe /\ (OnlyInUserMode(event) => ran.what = Owner(c))
    BY <1>1, <2>1, <2>2 DEF Expected, NeedsSched
  <2>4. TOS(cpu_stack'[c]) # Sched /\ Owner(c)' = Owner(c)
    BY <1>1, <1>3 DEF Edits, Owner
  <2>5. cur_span'[c].eventnum = ran.what \/ now <= cur_span'[c].start
    BY <1>1, <2>3 DEF Safe
  <2>6. Expected'
    BY <1>1, <2>3, <2>4, <2>5, SafeAfter
  <2> QED
    BY <1>1, <2>1, <2>6
<1> HIDE DEF span
<1> QED
  BY <1>1, <1>2, <1>4, <1>5, <1>6, WaitingKeepsLInv

(* A call closes the open span and starts its own.                         *)
LEMMA CallShifts ==
    ASSUME SpanType, StackType, StacksNest, now \in Nat, NEW c \in CPU,
           NEW e, e.cpu = c, e.ts \in Nat, e.pid \in Pid, e.num \in Call, IsACall(e),
           ~IsOptimizedCall(e), ProcessCall(e), UNCHANGED span_start_time,
           NEW st, Pushes(c, st, e)
    PROVE  /\ Shifts(c, StartSpan(e, e.num), IF e.num = Sched THEN 0 ELSE ctx_switch_ts[c])
           /\ shown' = Closes(c, e) /\ TOS(cpu_stack'[c]) = e.num
<1> DEFINE span == StartSpan(e, e.num)
           x == IF e.num = Sched THEN 0 ELSE ctx_switch_ts[c]
<1>1. span \in OpenSpan
  BY DEF StartSpan, OpenSpan
<1>2. /\ shown' = Closes(c, e) \o <<>> /\ UNCHANGED mwait_pending /\ SetSchedTs(e)
      /\ cur_span' = [cur_span EXCEPT ![c] = span]
  BY DEF ProcessCall, EndSpan, Closes
<1>3. shown' = Closes(c, e) /\ shown' \in Seq(Entries)
  <2>1. Closes(c, e) \in Seq(Entries)
    BY ClosesTrue
  <2> QED
    BY <1>2, <2>1
<1>4. ctx_switch_ts' = [ctx_switch_ts EXCEPT ![c] = x] /\ x \in Nat
  <2>1. ~IsSchedReturnEvent(e) /\ (IsSchedCallEvent(e) <=> e.num = Sched)
    BY DEF IsSchedReturnEvent, IsSchedCallEvent, IsACall, IsAReturn
  <2>2. CASE e.num = Sched
    BY <1>2, <2>1, <2>2 DEF SetSchedTs
  <2>3. CASE e.num # Sched
    BY <1>2, <2>1, <2>3 DEF SetSchedTs, SpanType
  <2> QED
    BY <2>2, <2>3
<1>5. TOS(cpu_stack'[c]) = e.num /\ \A d \in CPU \ {c} : cpu_stack'[d] = cpu_stack[d]
  BY DEF Pushes, Edits
<1>6. mwait_pending' \in [CPU -> Int]
  BY <1>2 DEF SpanType
<1> HIDE DEF span, x
<1>7. Shifts(c, span, x)
  BY <1>1, <1>2, <1>3, <1>4, <1>5, <1>6 DEF Shifts
<1> QED
  BY <1>3, <1>5, <1>7 DEF span, x

LEMMA ReturnCallKeepsLInv ==
    ASSUME RInv, IInv, LInv, UNCHANGED kvars, FixupReturnCall
    PROVE  LInv'
<1> DEFINE c == event.cpu
           e == MissingCall
           span == StartSpan(e, e.num)
           x == IF e.num = Sched THEN 0 ELSE ctx_switch_ts[c]
<1>1. /\ ~Reading /\ UNCHANGED <<event, span_start_time>> /\ event.kind = "ret"
      /\ ~Matches(event)
  BY DEF FixupReturnCall, IsAReturn
<1>2. /\ c \in CPU /\ event \in Lines /\ StackType /\ StacksNest /\ SpanType
      /\ now \in Nat /\ event.ts = now
      /\ span_start_time \in Nat /\ span_start_time <= now
      /\ ctx_switch_ts[c] \in Nat /\ ctx_switch_ts[c] <= now /\ event.pid \in Pid
      /\ Stack = cpu_stack[c] /\ cur_span[c].start \in Nat
  BY <1>1, ConvertingSpans
<1>3. /\ e.cpu = c /\ e.num = event.num /\ e.ts = span_start_time /\ ~IsOptimizedCall(e)
      /\ ProcessCall(e) /\ \E st : Pushes(c, st, e)
  BY InsertedCallEdits
<1>4. e.pid \in Pid /\ IsACall(e) /\ e.num \in Call
  BY <1>1, <1>2, <1>3, Converting DEF MissingCall, Lines, IsACall
<1> HIDE DEF e
<1>5. /\ Shifts(c, span, x) /\ shown' = Closes(c, e) /\ TOS(cpu_stack'[c]) = e.num
  BY <1>1, <1>2, <1>3, <1>4, CallShifts
<1>6. span.start = span_start_time /\ span.eventnum = event.num /\ x <= now
  BY <1>2, <1>3 DEF StartSpan
<1>7. cur_span'[c] = span
  BY <1>2, <1>5 DEF Shifts, SpanType
<1> HIDE DEF span, x
<1>8. ASSUME ran.sure PROVE AllTrue(shown') /\ Expected'
  <2>1. AllTrue(shown) /\ Expected
    BY <1>1, <1>8 DEF LInv, SpanTrue
  <2>2. /\ event.num = ran.what
        /\ valid_span[c] => cur_span[c].start = span_start_time /\ span_start_time < now
    BY <1>1, <2>1 DEF Expected, NeedsSched, IsACall
  <2>3. ClosesWell(c, e)
    BY <1>2, <1>3, <2>2 DEF ClosesWell
  <2>4. AllTrue(shown')
    BY <1>2, <1>3, <1>5, <2>1, <2>3, ClosesTrue
  <2>5. Matches(event)'
    BY <1>1, <1>3, <1>5 DEF Matches, Stack
  <2>6. cur_span'[c].eventnum = ran.what
    BY <1>6, <1>7, <2>2
  <2>7. event.kind # "call" /\ ~OnlyInUserMode(event)
    BY <1>1 DEF OnlyInUserMode, IsACall
  <2>8. Expected'
    BY <1>1, <2>5, <2>6, <2>7, SafeAfter
  <2> QED
    BY <2>4, <2>8
<1>9. SpanTrue'
  BY <1>8, SpanTrueAfter
<1> QED
  BY <1>1, <1>2, <1>5, <1>6, <1>9, WaitingKeepsLInv

(***************************************************************************)
(* What the spans say: spans that go on                                    *)
(***************************************************************************)

(* The stack is as before but for an ambiguity that the event resolves.    *)
Resolved(c, e) == cpu_stack'[c].eventnum = Resolve(cpu_stack[c], e).eventnum

LEMMA ResolvedStacks ==
    ASSUME StackType, StacksNest, NEW c \in CPU, NEW e, e.cpu = c,
           \/ ProcessSplit(e) \/ ProcessPoint(e) \/ ProcessCexit(e)
           \/ /\ ProcessCall(e) /\ IsOptimizedCall(e) /\ e.num \in Call
              /\ NestLevel(TOS(cpu_stack[c])) < NestLevel(e.num)
    PROVE  Resolved(c, e)
<1> DEFINE st == Resolve(cpu_stack[c], e)
           s == AdjustStackForPush(st.eventnum, e.num)
<1>1. GoodState(cpu_stack[c]) /\ GoodState(st) /\ st \in PidStates
      /\ st.eventnum \in {cpu_stack[c].eventnum, <<cpu_stack[c].eventnum[1]>>}
  BY StackFacts, ResolveFacts DEF GoodState
<1>2. \A r : [st EXCEPT !.rpcid = r].eventnum = st.eventnum
  BY <1>1 DEF PidStates
<1>3. CASE ProcessSplit(e)
  BY <1>2, <1>3 DEF ProcessSplit, Resolved, StackType
<1>4. CASE ProcessPoint(e)
  BY <1>4 DEF ProcessPoint, Resolved, StackType
<1>5. CASE ProcessCexit(e)
  BY <1>5 DEF ProcessCexit, Resolved, StackType
<1>6. CASE /\ ProcessCall(e) /\ IsOptimizedCall(e) /\ e.num \in Call
           /\ NestLevel(TOS(cpu_stack[c])) < NestLevel(e.num)
  <2>1. NestLevel(st.eventnum[Len(st.eventnum)]) < NestLevel(e.num)
    <3>1. CASE st.eventnum = cpu_stack[c].eventnum
      BY <1>6, <3>1 DEF TOS
    <3>2. CASE st.eventnum = <<cpu_stack[c].eventnum[1]>>
      <4>1. st.eventnum[Len(st.eventnum)] \in Pid
        BY <1>1, <3>2, TopFacts DEF GoodState
      <4> QED
        BY <1>6, <4>1, LevelFacts
    <3> QED
      BY <1>1, <3>1, <3>2
  <2>2. /\ NestLevel(e.num) \in 1 .. 4
        /\ NestLevel(st.eventnum[Len(st.eventnum)]) \in 0 .. 4
    BY <1>1, <1>6, LevelFacts, TopFacts DEF GoodState
  <2>3. s = st.eventnum
    <3>1. ~(NestLevel(e.num) <= NestLevel(st.eventnum[Len(st.eventnum)]))
      BY <2>1, <2>2
    <3> QED
      BY <3>1, PushFits
  <2>4. cpu_stack' = [cpu_stack EXCEPT ![c] = [st EXCEPT !.eventnum = s]]
    BY <1>6 DEF ProcessCall
  <2> HIDE DEF s
  <2>5. [st EXCEPT !.eventnum = s].eventnum = st.eventnum
    BY <1>1, <2>3 DEF PidStates
  <2> QED
    BY <2>4, <2>5 DEF Resolved, StackType
<1> QED
  BY <1>3, <1>4, <1>5, <1>6

(* The label follows what is on top of the stack.                          *)
LEMMA Relabels ==
    ASSUME SpanType, StackType, StacksNest, NEW c \in CPU, NEW e, Resolved(c, e),
           cur_span'[c].eventnum = Labelled(c, e).eventnum
    PROVE  /\ Label(c) = TOS(cpu_stack[c]) => Label(c)' = TOS(cpu_stack'[c])
           /\ TOS(cpu_stack[c]) = Sched
                => Label(c)' = TOS(cpu_stack'[c]) \/ TOS(cpu_stack'[c]) = Sched
<1>1. Label(c)' = Labelled(c, e).eventnum
  BY DEF Label
<1>2. CASE /\ Labelled(c, e) = cur_span[c]
           /\ Resolve(cpu_stack[c], e).eventnum = cpu_stack[c].eventnum
  BY <1>1, <1>2 DEF Label, TOS, Resolved
<1>3. CASE /\ Labelled(c, e).eventnum = Owner(c)
           /\ Resolve(cpu_stack[c], e).eventnum = <<Owner(c)>>
  <2>1. TOS(cpu_stack'[c]) = Owner(c)
    BY <1>3 DEF TOS, Resolved
  <2> QED
    BY <1>1, <1>3, <2>1
<1> QED
  BY <1>2, <1>3, LabelMoves

LEMMA LabelStays ==
    ASSUME UNCHANGED kvars, SpanType, StackType, StacksNest, NEW c \in CPU, c = event.cpu,
           ~Reading, Goes, Resolved(c, event), LabelAt(c),
           cur_span'[c].eventnum = Labelled(c, event).eventnum,
           event.kind \notin {"ret", "ctx"},
           event.kind = "call" => event.dur # 0 /\ TOS(cpu_stack[c]) # Sched
    PROVE  LabelAt(c)'
<1>1. \A K : ~Converts(c, K)' \/ (~Reading' /\ event'.kind = "wakeup")
  BY DEF Goes, RunnableAfter, Converts, Reading
<1>2. ~Arrives(c)'
  BY <1>1 DEF Arrives, Converts
<1>3. ~Arrives(c) /\ ~Converts(c, {"ret"}) /\ ~(Converts(c, {"call"}) /\ event.dur = 0)
  BY DEF Arrives, Converts
<1>4. Label(c) = TOS(cpu_stack[c]) \/ TOS(cpu_stack[c]) = Sched \/ Interrupted(c)
  BY <1>3 DEF LabelAt
<1>5. heard[c] = "call" => Label(c) = TOS(cpu_stack[c]) \/ on[c] \in fresh \/ Interrupted(c)
  <2>1. CASE event.kind = "call"
    BY <1>4, <2>1
  <2>2. CASE event.kind # "call"
    <3>1. ~Converts(c, {"call", "ret", "ctx"})
      BY <2>2 DEF Converts
    <3> QED
      BY <3>1 DEF LabelAt
  <2> QED
    BY <2>1, <2>2
<1>6. /\ Label(c)' = TOS(cpu_stack'[c]) \/ TOS(cpu_stack'[c]) = Sched \/ Interrupted(c)
      /\ heard[c] = "call" => Label(c)' = TOS(cpu_stack'[c]) \/ on[c] \in fresh \/ Interrupted(c)
  BY <1>4, <1>5, Relabels
<1> QED
  BY <1>2, <1>6, SpansStill DEF LabelAt

(* The span that was open goes on after one that is made up for the event. *)
LEMMA ContinueShifts ==
    ASSUME SpanType, StackType, StacksNest, now \in Nat, NEW c \in CPU,
           NEW e, e.cpu = c, e.ts \in Nat, e.dur \in Nat, UNCHANGED span_start_time,
           NEW k \in Pid \cup Call \cup Points \cup {"cexit"}, e.ts = now \/ k = "cexit",
           shown' = Closes(c, e) \o <<[start |-> e.ts, stop |-> e.ts + e.dur, eventnum |-> k]>>,
           ContinueSpan(e), \A d \in CPU \ {c} : cpu_stack'[d] = cpu_stack[d],
           mwait_pending' \in [CPU -> Int],
           NEW x \in Nat, ctx_switch_ts' = [ctx_switch_ts EXCEPT ![c] = x]
    PROVE  /\ \E span : /\ Shifts(c, span, x) /\ cur_span'[c] = span
                        /\ span.start = e.ts + e.dur
                        /\ span.eventnum = Labelled(c, e).eventnum
           /\ AllTrue(shown) /\ ClosesWell(c, e) => AllTrue(shown')
<1> DEFINE span == [Labelled(c, e) EXCEPT !.start = e.ts + e.dur]
           r == [start |-> e.ts, stop |-> e.ts + e.dur, eventnum |-> k]
<1>1. Labelled(c, e) \in OpenSpan /\ e.ts + e.dur \in Nat
  BY LabelMoves
<1>2. span \in OpenSpan /\ span.start = e.ts + e.dur /\ span.eventnum = Labelled(c, e).eventnum
  BY <1>1 DEF OpenSpan
<1>3. cur_span' = [cur_span EXCEPT ![c] = span]
  BY DEF ContinueSpan
<1>4. r \in Entries /\ shown' = Closes(c, e) \o <<r>> /\ r.start = e.ts /\ r.eventnum = k
  BY <1>1 DEF Entries
<1>5. Truthful(r)
  <2>1. r.start < now => r.eventnum = "cexit"
    BY <1>4
  <2> QED
    BY <2>1, NameAssumption DEF Truthful
<1> HIDE DEF span, r
<1>6. /\ Closes(c, e) \in Seq(Entries)
      /\ AllTrue(shown) /\ ClosesWell(c, e) => AllTrue(Closes(c, e))
  <2>1. e.ts \in Int
    OBVIOUS
  <2> QED
    BY <2>1, ClosesTrue
<1>7. /\ shown' \in Seq(Entries)
      /\ AllTrue(shown) /\ ClosesWell(c, e) => AllTrue(shown')
  BY <1>4, <1>5, <1>6, TrueMore
<1>8. Shifts(c, span, x) /\ cur_span'[c] = span
  <2>1. Shifts(c, span, x)
    BY <1>2, <1>3, <1>7 DEF Shifts
  <2> QED
    BY <1>3, <2>1 DEF SpanType
<1> QED
  BY <1>2, <1>7, <1>8

(* When the fix-ups are done, the event may close the open span.           *)
LEMMA SettledCloses ==
    ASSUME RInv, IInv, LInv, Settled, ran.sure, NEW c, c = event.cpu
    PROVE  /\ AllTrue(shown) /\ (Label(c) = ran.what \/ now <= cur_span[c].start)
           /\ (event.kind = "call" => TOS(Stack) # Sched)
           /\ (event.kind = "ret" => Matches(event))
           /\ (OnlyInUserMode(event) => ran.what = Owner(c))
           /\ ClosesWell(c, event)
           /\ \A e : ~OnlyInUserMode(e) => ClosesWell(c, e)
<1>1. ~Reading /\ ~NeedsSched /\ (event.kind = "ret" => Matches(event))
  BY DEF Settled, IsAReturn
<1>2. c \in CPU /\ SpanType /\ StackType /\ StacksNest
  BY <1>1, ConvertingSpans
<1>3. AllTrue(shown) /\ Expected
  BY <1>1 DEF LInv, SpanTrue
<1>4. /\ Safe /\ (event.kind = "call" => TOS(Stack) # Sched)
      /\ (OnlyInUserMode(event) => ran.what = Owner(c))
  BY <1>1, <1>3 DEF Expected
<1>5. Label(c) = ran.what \/ now <= cur_span[c].start
  BY <1>4 DEF Safe, Label
<1>6. ASSUME NEW e, ~OnlyInUserMode(e) \/ ran.what = Owner(c)
      PROVE  ClosesWell(c, e)
  <2>1. Labelled(c, e) = cur_span[c]
        \/ (OnlyInUserMode(e) /\ Labelled(c, e).eventnum = Owner(c))
    BY <1>2, LabelMoves
  <2> QED
    BY <1>5, <1>6, <2>1 DEF ClosesWell, Label
<1>7. ClosesWell(c, event)
  BY <1>4, <1>6
<1> QED
  BY <1>1, <1>3, <1>4, <1>5, <1>6, <1>7

(* The end of an idle state starts a span at the event.                    *)
LEMMA CexitKeepsLInv ==
    ASSUME RInv, IInv, LInv, UNCHANGED kvars, FixupCexit, NEW c, c = event.cpu
    PROVE  LInv'
<1> DEFINE latency == IF event.ts < cur_span[c].start THEN mwait_pending[c]
                      ELSE Lesser(mwait_pending[c], event.ts - cur_span[c].start)
<1>1. ~Reading /\ Settled /\ UNCHANGED <<event, span_start_time>>
  BY CexitEdits
<1>2. /\ c \in CPU /\ event \in Lines /\ StackType /\ StacksNest /\ SpanType
      /\ now \in Nat /\ event.ts \in {now, now + 1}
      /\ cur_span[c] \in OpenSpan /\ cur_span[c].start \in Nat /\ cur_span[c].start <= event.ts
      /\ ctx_switch_ts[c] \in Nat /\ ctx_switch_ts[c] <= now
      /\ LabelAt(c) /\ FreshAt(c)
  BY <1>1, ConvertingSpans
<1>3. mwait_pending[c] \in Nat /\ mwait_pending' = [mwait_pending EXCEPT ![c] = -1]
  BY <1>2 DEF FixupCexit, SpanType
<1>4. mwait_pending' \in [CPU -> Int]
  BY <1>2, <1>3 DEF SpanType
<1>5. PICK st : Edits(c, st) /\ TOS(st) = TOS(cpu_stack[c])
                /\ st.eventnum = cpu_stack[c].eventnum
  BY CexitEdits DEF Settles
<1>6. /\ UNCHANGED perpidstate /\ \A d \in CPU \ {c} : cpu_stack'[d] = cpu_stack[d]
      /\ TOS(cpu_stack'[c]) = TOS(cpu_stack[c])
      /\ cpu_stack'[c].eventnum = cpu_stack[c].eventnum
      /\ \A K : Converts(c, K)' <=> Converts(c, K)
  BY <1>1, <1>5 DEF Edits, Converts, Reading
<1>7. /\ Arrives(c)' <=> Arrives(c)
      /\ Owner(event.cpu)' = Owner(event.cpu)
  BY <1>1, <1>6, SpansStill DEF Arrives, Owner
<1>8. \E span : /\ Shifts(c, span, ctx_switch_ts[c]) /\ cur_span'[c] = span
                /\ span = cur_span[c] \/ (span.start = event.ts /\ Top(Stack) = 0)
                /\ span.eventnum = Label(c)
                /\ ran.sure => AllTrue(shown')
  <2>1. CASE UNCHANGED <<cpuvars, ctx_switch_ts, outvars>>
    <3>1. UNCHANGED <<cpu_stack, cur_span, shown, ctx_switch_ts>>
      BY <2>1 DEF cpuvars, outvars
    <3>2. /\ cur_span' = [cur_span EXCEPT ![c] = cur_span[c]]
          /\ ctx_switch_ts' = [ctx_switch_ts EXCEPT ![c] = ctx_switch_ts[c]]
          /\ shown' \in Seq(Entries)
      BY <1>2, <3>1 DEF SpanType
    <3>3. Shifts(c, cur_span[c], ctx_switch_ts[c])
      BY <1>1, <1>2, <1>4, <1>6, <3>2 DEF Shifts
    <3>4. ran.sure => AllTrue(shown')
      BY <1>1, <3>1, SettledCloses
    <3> QED
      BY <3>1, <3>3, <3>4 DEF Label
  <2>2. CASE Top(Stack) = 0 /\ ProcessCexit(Cexit(event.ts - latency, latency))
    <3> DEFINE e == Cexit(event.ts - latency, latency)
    <3>1. latency \in Nat /\ event.ts - latency \in Nat
      BY <1>2, <1>3 DEF Lesser
    <3> HIDE DEF latency
    <3>2. /\ e.cpu = c /\ e.ts = event.ts - latency /\ e.dur = latency
          /\ e.ts + e.dur = event.ts /\ e.kind = "cexit"
      BY <1>2, <3>1 DEF Cexit, Lines
    <3>3. ProcessCexit(e) /\ ~OnlyInUserMode(e)
      BY <2>2, <3>2 DEF OnlyInUserMode, IsACall
    <3> HIDE DEF e
    <3>4. /\ shown' = Closes(c, e) \o <<[start |-> e.ts, stop |-> e.ts + e.dur,
                                         eventnum |-> "cexit"]>>
          /\ ContinueSpan(e) /\ UNCHANGED ctx_switch_ts
      BY <3>2, <3>3 DEF ProcessCexit, EndSpan, Closes
    <3>5. ctx_switch_ts' = [ctx_switch_ts EXCEPT ![c] = ctx_switch_ts[c]]
      BY <1>2, <3>4 DEF SpanType
    <3>6. e.ts \in Nat /\ e.dur \in Nat
      BY <3>1, <3>2
    <3>7. Labelled(c, e) = cur_span[c]
      BY <1>2, <3>3, LabelMoves
    <3>8. "cexit" \in Pid \cup Call \cup Points \cup {"cexit"}
      OBVIOUS
    <3>9. /\ \E span : /\ Shifts(c, span, ctx_switch_ts[c]) /\ cur_span'[c] = span
                       /\ span.start = e.ts + e.dur
                       /\ span.eventnum = Labelled(c, e).eventnum
          /\ AllTrue(shown) /\ ClosesWell(c, e) => AllTrue(shown')
      BY <1>1, <1>2, <1>4, <1>6, <3>2, <3>4, <3>5, <3>6, <3>8, ContinueShifts
    <3>10. ran.sure => AllTrue(shown')
      BY <1>1, <3>3, <3>9, SettledCloses
    <3> QED
      BY <2>2, <3>2, <3>7, <3>9, <3>10 DEF Label
  <2> QED
    BY <2>1, <2>2 DEF FixupCexit, Cexit
<1>9. PICK span : /\ Shifts(c, span, ctx_switch_ts[c]) /\ cur_span'[c] = span
                  /\ span = cur_span[c] \/ (span.start = event.ts /\ Top(Stack) = 0)
                  /\ span.eventnum = Label(c)
                  /\ ran.sure => AllTrue(shown')
  BY <1>8
<1>10. span.start <= now + 1 /\ (event' # NoEvent => span.start <= event'.ts)
  BY <1>1, <1>2, <1>9
<1>11. LabelAt(c)'
  <2>1. cur_span'[c].eventnum = Label(c)
    BY <1>9
  <2> QED
    BY <1>1, <1>2, <1>6, <1>7, <2>1, SpansStill DEF LabelAt, Label
<1>12. FreshAt(c)'
  <2>1. ASSUME Top(Stack) = 0 PROVE TOS(cpu_stack[c]) # Sched
    <3>1. Len(Stack.eventnum) = 1
      BY <1>1, <2>1, Converting DEF Top
    <3>2. TOS(Stack) \notin Call
      BY <1>1, <3>1, Converting
    <3> QED
      BY <3>2, LevelFacts DEF Stack
  <2>2. ctx_switch_ts'[c] = ctx_switch_ts[c]
    BY <1>2, <1>9 DEF Shifts, SpanType
  <2> QED
    BY <1>2, <1>6, <1>9, <2>1, <2>2, SpansStill DEF FreshAt
<1>13. SpanTrue'
  <2> SUFFICES ASSUME ran.sure PROVE AllTrue(shown') /\ Expected'
    BY SpanTrueAfter
  <2>1. /\ Label(c) = ran.what \/ now <= cur_span[c].start
        /\ (event.kind = "call" => TOS(Stack) # Sched)
        /\ (event.kind = "ret" => Matches(event))
        /\ (OnlyInUserMode(event) => ran.what = Owner(c))
    BY <1>1, SettledCloses
  <2>2. cur_span'[c].eventnum = ran.what \/ now <= cur_span'[c].start
    BY <1>2, <1>9, <2>1
  <2>3. event.kind = "ret" => Matches(event)'
    BY <1>1, <1>6, <2>1 DEF Matches, Stack
  <2>4. Expected'
    BY <1>1, <1>6, <1>7, <2>1, <2>2, <2>3, SafeAfter DEF Stack
  <2> QED
    BY <1>9, <2>4
<1> QED
  BY <1>1, <1>2, <1>9, <1>10, <1>11, <1>12, <1>13, ShiftKeepsLInv

(***************************************************************************)
(* What the spans say: the event itself                                    *)
(***************************************************************************)

LEMMA EventCallKeepsLInv ==
    ASSUME RInv, IInv, LInv, UNCHANGED kvars, UNCHANGED span_start_time,
           Settled, Goes, NEW c, c = event.cpu, event.kind = "call", ProcessCall(event),
           NEW st, Pushes(c, st, event)
    PROVE  LInv'
<1> DEFINE x == IF event.num = Sched THEN 0 ELSE ctx_switch_ts[c]
<1>1. ~Reading
  BY DEF Settled
<1>2. /\ c \in CPU /\ event \in Lines /\ StackType /\ StacksNest /\ SpanType
      /\ now \in Nat /\ event.ts = now /\ event.dur \in {0, 1}
      /\ ctx_switch_ts[c] \in Nat /\ ctx_switch_ts[c] <= now
      /\ event.pid \in Pid /\ LabelAt(c) /\ FreshAt(c) /\ Stack = cpu_stack[c]
  BY <1>1, ConvertingSpans
<1>3. event.num \in Call /\ IsACall(event) /\ event.ts \in Nat /\ event.dur \in Nat
  BY <1>1, <1>2, Converting DEF IsACall
<1>4. NestLevel(TOS(cpu_stack[c])) < NestLevel(event.num) /\ TOS(cpu_stack[c]) # Sched
  <2>1. ~(NestLevel(event.num) <= NestLevel(TOS(Stack)))
    BY <1>3 DEF Settled, NeedsPop
  <2>2. NestLevel(TOS(Stack)) \in 0 .. 4 /\ NestLevel(event.num) \in 1 .. 4
    BY <1>1, <1>3, Converting, LevelFacts
  <2>3. NestLevel(TOS(Stack)) < NestLevel(event.num)
    BY <2>1, <2>2
  <2>4. NestLevel(Sched) = 4
    BY LevelFacts
  <2> QED
    BY <1>2, <2>2, <2>3, <2>4
<1>5. x \in Nat /\ x <= now
  BY <1>2
<1>6. ran.sure => AllTrue(shown) /\ ClosesWell(c, event)
  BY SettledCloses
<1>7. mwait_pending' \in [CPU -> Int] /\ SetSchedTs(event)
  BY <1>2 DEF ProcessCall, SpanType
<1>8. on[c] \notin fresh
  <2>1. Converts(c, {"call", "ret"})
    BY <1>1 DEF Converts
  <2> QED
    BY <1>2, <2>1 DEF FreshAt
<1>9. FreshAt(c)'
  BY <1>8, SpansStill DEF FreshAt
<1>10. ~Arrives(c)'
  BY DEF Goes, RunnableAfter, Arrives, Converts, Reading
<1>11. \E span : /\ Shifts(c, span, x) /\ cur_span'[c] = span
                 /\ span.start = event.ts + event.dur
                 /\ LabelAt(c)' /\ (ran.sure => AllTrue(shown'))
  <2>1. CASE IsOptimizedCall(event)
    <3>1. /\ shown' = Closes(c, event) \o <<[start |-> event.ts, stop |-> event.ts + event.dur,
                                             eventnum |-> event.num]>>
          /\ ContinueSpan(event)
      BY <2>1 DEF ProcessCall, EndSpan, Closes
    <3>2. ctx_switch_ts' = [ctx_switch_ts EXCEPT ![c] = x]
      <4>1. ~IsSchedReturnEvent(event) /\ (IsSchedCallEvent(event) <=> event.num = Sched)
        BY <1>3 DEF IsSchedReturnEvent, IsSchedCallEvent, IsACall, IsAReturn
      <4>2. CASE event.num = Sched
        BY <1>7, <4>1, <4>2 DEF SetSchedTs
      <4>3. CASE event.num # Sched
        BY <1>2, <1>7, <4>1, <4>3 DEF SetSchedTs, SpanType
      <4> QED
        BY <4>2, <4>3
    <3>3. \A d \in CPU \ {c} : cpu_stack'[d] = cpu_stack[d]
      BY DEF Pushes, Edits
    <3>4. Resolved(c, event)
      BY <1>2, <1>3, <1>4, <2>1, ResolvedStacks
    <3>5. event.dur # 0
      BY <1>2, <2>1 DEF IsOptimizedCall
    <3> HIDE DEF x
    <3>6. /\ \E span : /\ Shifts(c, span, x) /\ cur_span'[c] = span
                       /\ span.start = event.ts + event.dur
                       /\ span.eventnum = Labelled(c, event).eventnum
          /\ AllTrue(shown) /\ ClosesWell(c, event) => AllTrue(shown')
      BY <1>2, <1>3, <1>5, <1>7, <3>1, <3>2, <3>3, ContinueShifts
    <3>7. PICK span : /\ Shifts(c, span, x) /\ cur_span'[c] = span
                      /\ span.start = event.ts + event.dur
                      /\ span.eventnum = Labelled(c, event).eventnum
      BY <3>6
    <3>8. LabelAt(c)'
      BY <1>1, <1>2, <1>4, <3>4, <3>5, <3>7, LabelStays
    <3> QED
      BY <1>6, <3>6, <3>7, <3>8
  <2>2. CASE ~IsOptimizedCall(event)
    <3> DEFINE span == StartSpan(event, event.num)
    <3>1. Shifts(c, span, x) /\ shown' = Closes(c, event) /\ TOS(cpu_stack'[c]) = event.num
      BY <1>2, <1>3, <2>2, CallShifts
    <3>2. event.dur = 0
      BY <1>2, <1>3, <2>2 DEF IsOptimizedCall
    <3>3. span.start = event.ts + event.dur /\ span.eventnum = event.num
      BY <1>2, <3>2 DEF StartSpan
    <3>4. cur_span'[c] = span
      BY <1>2, <3>1 DEF Shifts, SpanType
    <3> HIDE DEF span, x
    <3>5. Label(c)' = TOS(cpu_stack'[c])
      <4>1. Label(c)' = cur_span'[c].eventnum
        BY DEF Label
      <4> QED
        BY <3>1, <3>3, <3>4, <4>1
    <3>6. LabelAt(c)'
      BY <1>10, <3>5 DEF LabelAt
    <3>7. AllTrue(shown) /\ ClosesWell(c, event) => AllTrue(shown')
      <4>1. event.ts \in Int
        BY <1>3
      <4> QED
        BY <1>2, <3>1, <4>1, ClosesTrue
    <3> QED
      BY <1>6, <3>1, <3>3, <3>4, <3>6, <3>7
  <2> QED
    BY <2>1, <2>2
<1> HIDE DEF x
<1>12. PICK span : /\ Shifts(c, span, x) /\ cur_span'[c] = span
                   /\ span.start = event.ts + event.dur
                   /\ LabelAt(c)' /\ (ran.sure => AllTrue(shown'))
  BY <1>11
<1>13. span.start <= now + 1 /\ now <= span.start
  BY <1>2, <1>12
<1>14. event' # NoEvent => span.start <= event'.ts
  <2>1. event' # NoEvent => event'.ts = event.ts + event.dur
    BY DEF Goes, RunnableAfter
  <2> QED
    BY <1>2, <1>12, <2>1
<1>15. SpanTrue'
  <2>1. ~Reading' => Expected'
    <3>1. now <= cur_span'[c].start
      BY <1>12, <1>13
    <3> QED
      BY <3>1, SafeAfter
  <2> QED
    BY <1>12, <2>1, SpanTrueAfter
<1> QED
  BY <1>1, <1>2, <1>5, <1>9, <1>12, <1>13, <1>14, <1>15, ShiftKeepsLInv

LEMMA EventReturnKeepsLInv ==
    ASSUME RInv, IInv, LInv, UNCHANGED kvars, UNCHANGED span_start_time,
           Settled, Goes, NEW c, c = event.cpu, event.kind = "ret", ProcessReturn(event),
           NEW st, Pops(c, st), cur_span' = [cur_span EXCEPT ![c] = StartSpan(event, TOS(st))]
    PROVE  LInv'
<1>1. ~Reading /\ IsAReturn(event)
  BY DEF Settled, IsAReturn
<1>2. /\ c \in CPU /\ StackType /\ StacksNest /\ SpanType /\ now \in Nat /\ event.ts = now
      /\ event.pid \in Pid
  BY <1>1, ConvertingSpans
<1>3. shown' = Closes(c, event)
  BY <1>1, <1>2, ReturnShifts
<1>4. ran.sure => AllTrue(shown')
  <2>1. ran.sure => AllTrue(shown) /\ ClosesWell(c, event)
    BY SettledCloses
  <2>2. event.ts \in Int
    BY <1>2
  <2> QED
    BY <1>2, <1>3, <2>1, <2>2, ClosesTrue
<1>5. now <= cur_span'[c].start
  <2>1. cur_span'[c] = StartSpan(event, TOS(st))
    BY <1>2 DEF SpanType
  <2> QED
    BY <1>2, <2>1 DEF StartSpan
<1>6. SpanTrue'
  BY <1>4, <1>5, SafeAfter, SpanTrueAfter
<1>7. event.ts \in Nat /\ event.ts <= now /\ event.cpu = c
  BY <1>2
<1> QED
  BY <1>1, <1>2, <1>6, <1>7, ReturnKeepsLInv

LEMMA EventSplitKeepsLInv ==
    ASSUME RInv, IInv, SInv, LInv, UNCHANGED kvars, UNCHANGED span_start_time,
           Settled, event' = NoEvent, NEW c, c = event.cpu,
           event.kind \in {"rpc", "mark", "mwait", "mwait_exit"}, ProcessSplit(event),
           NEW st, Settles(c, st, event)
    PROVE  LInv'
<1>1. ~Reading /\ Goes
  BY DEF Settled, Goes
<1>2. /\ c \in CPU /\ event \in Lines /\ StackType /\ StacksNest /\ SpanType
      /\ now \in Nat /\ event.ts = now /\ event.dur \in {0, 1}
      /\ ctx_switch_ts[c] \in Nat /\ ctx_switch_ts[c] <= now
      /\ LabelAt(c) /\ FreshAt(c) /\ Stack = cpu_stack[c]
  BY <1>1, ConvertingSpans
<1>3. /\ shown' = Closes(c, event) \o <<[start |-> event.ts, stop |-> event.ts + event.dur,
                                         eventnum |-> event.kind]>>
      /\ ContinueSpan(event) /\ UNCHANGED <<ctx_switch_ts, valid_span>>
      /\ mwait_pending' = [mwait_pending EXCEPT ![c] = MwaitPending(event)]
  BY DEF ProcessSplit, Closes
<1>4. ctx_switch_ts' = [ctx_switch_ts EXCEPT ![c] = ctx_switch_ts[c]]
  BY <1>2, <1>3 DEF SpanType
<1>5. MwaitPending(event) \in Int
  BY <1>1, <1>2 DEF MwaitPending, SpanType, RInv, EventTrue
<1>6. mwait_pending' \in [CPU -> Int]
  BY <1>2, <1>3, <1>5 DEF SpanType
<1> DEFINE k == event.kind
<1>7. /\ event.ts \in Nat /\ event.dur \in Nat /\ event.cpu = c /\ event.ts = now
      /\ k \in Pid \cup Call \cup Points \cup {"cexit"}
      /\ shown' = Closes(c, event) \o <<[start |-> event.ts, stop |-> event.ts + event.dur,
                                         eventnum |-> k]>>
  BY <1>2, <1>3 DEF Points
<1> HIDE DEF k
<1>8. \A d \in CPU \ {c} : cpu_stack'[d] = cpu_stack[d]
  BY DEF Settles, Edits
<1>9. /\ \E span : /\ Shifts(c, span, ctx_switch_ts[c]) /\ cur_span'[c] = span
                   /\ span.start = event.ts + event.dur
                   /\ span.eventnum = Labelled(c, event).eventnum
      /\ AllTrue(shown) /\ ClosesWell(c, event) => AllTrue(shown')
  BY <1>2, <1>3, <1>4, <1>6, <1>7, <1>8, ContinueShifts
<1>10. PICK span : /\ Shifts(c, span, ctx_switch_ts[c]) /\ cur_span'[c] = span
                   /\ span.start = event.ts + event.dur
                   /\ span.eventnum = Labelled(c, event).eventnum
  BY <1>9
<1>11. Resolved(c, event)
  BY <1>2, ResolvedStacks
<1>12. LabelAt(c)'
  BY <1>1, <1>2, <1>10, <1>11, LabelStays
<1>13. FreshAt(c)'
  <2>1. ~mix.early => TOS(cpu_stack[c]) # Sched
    BY <1>1, <1>2 DEF SInv, SchedTrue, SchedAfter
  <2>2. ~mix.early => TOS(cpu_stack'[c]) # Sched
    BY <2>1, LevelFacts DEF Settles, Edits
  <2>3. \A K : ~Converts(c, K)'
    BY DEF Converts, Reading
  <2> QED
    BY <2>2, <2>3, SpansStill DEF FreshAt
<1>14. SpanTrue'
  <2>1. ran.sure => AllTrue(shown')
    BY <1>9, SettledCloses
  <2> QED
    BY <2>1, SpanTrueAfter DEF Reading
<1>15. span.start <= now + 1
  BY <1>2, <1>10
<1> QED
  BY <1>1, <1>2, <1>10, <1>12, <1>13, <1>14, <1>15, ShiftKeepsLInv

LEMMA EventPointKeepsLInv ==
    ASSUME RInv, IInv, LInv, UNCHANGED kvars, UNCHANGED span_start_time,
           Settled, event' = NoEvent, NEW c, c = event.cpu,
           event.kind \in {"sample", "wakeup", "ipi", "monitor_store", "other"},
           ProcessPoint(event), NEW st, Settles(c, st, event)
    PROVE  LInv'
<1> DEFINE span == Labelled(c, event)
<1>1. ~Reading /\ Goes
  BY DEF Settled, Goes
<1>2. /\ c \in CPU /\ StackType /\ StacksNest /\ SpanType /\ KType /\ now \in Nat
      /\ ctx_switch_ts[c] \in Nat /\ ctx_switch_ts[c] <= now
      /\ LabelAt(c) /\ FreshAt(c)
  BY <1>1, ConvertingSpans
<1>3. span \in OpenSpan /\ span.start = cur_span[c].start /\ span.start <= now + 1
  <2>1. cur_span[c].start <= now + 1
    BY <1>2 DEF LInv, TimesFit
  <2> QED
    BY <1>2, <2>1, LabelMoves
<1>4. TOS(cpu_stack'[c]) = TOS(cpu_stack[c])
      /\ \A d \in CPU \ {c} : cpu_stack'[d] = cpu_stack[d]
  BY DEF Settles, Edits, OnlyInUserMode, IsACall
<1>5. /\ cur_span' = [cur_span EXCEPT ![c] = span]
      /\ UNCHANGED <<ctx_switch_ts, mwait_pending, shown>>
  BY DEF ProcessPoint
<1> HIDE DEF span
<1>6. Shifts(c, span, ctx_switch_ts[c])
  BY <1>2, <1>3, <1>4, <1>5 DEF Shifts, SpanType
<1>7. cur_span'[c] = span /\ ctx_switch_ts'[c] = ctx_switch_ts[c]
  BY <1>2, <1>5 DEF SpanType
<1>8. Resolved(c, event)
  BY <1>2, ResolvedStacks
<1>9. cur_span'[c].eventnum = Labelled(c, event).eventnum
  BY <1>7 DEF span
<1>10. LabelAt(c)'
  BY <1>1, <1>2, <1>8, <1>9, LabelStays
<1>11. FreshAt(c)'
  <2>1. (\A K : ~Converts(c, K)') /\ ~Converts(c, {"ctx"})
    BY DEF Converts, Reading
  <2> QED
    BY <1>2, <1>3, <1>4, <1>7, <2>1, SpansStill DEF FreshAt
<1>12. SpanTrue'
  <2>1. ran.sure => AllTrue(shown')
    BY <1>5, SettledCloses
  <2> QED
    BY <2>1, SpanTrueAfter DEF Reading
<1> QED
  BY <1>1, <1>2, <1>3, <1>6, <1>10, <1>11, <1>12, ShiftKeepsLInv

(* What a switch to another process has on top of its stack.               *)
LEMMA SwitchTop ==
    ASSUME RInv, IInv, SInv, CInv, fresh \cap strayed = {}, ~Reading, event.kind = "ctx",
           ProcessContextSwitch(event), NEW c, c = event.cpu, Owner(c) # on[c]
    PROVE  /\ ~mix.intr => TOS(cpu_stack'[c]) = Sched
           /\ on[c] \in fresh \/ perpidstate[on[c]] = NoState
                => TOS(cpu_stack'[c]) = Sched \/ Len(cpu_stack'[c].eventnum) = 1
           /\ Len(cpu_stack'[c].eventnum) = 1 => TOS(cpu_stack'[c]) = on[c]
<1> DEFINE q == on[c]
           new == cpu_stack'[c]
<1>1. /\ event \in Lines /\ c \in CPU /\ event.pid \in Pid /\ StackType /\ StacksNest
      /\ KType /\ OwnersTrue /\ RpcsTrue /\ OneCPU
  BY Converting DEF IInv, RInv
<1>2. Converts(c, {"ctx"}) /\ event.pid = q /\ Announced(c)
      /\ \A d \in CPU : Owner(d) = q => q = Idle
  <2>1. Converts(c, {"ctx"})
    BY DEF Converts
  <2> QED
    BY <1>1, <2>1 DEF OwnersTrue
<1>3. new = IF perpidstate[q] = NoState THEN BrandNewPid(q) ELSE perpidstate[q]
  BY <1>1, <1>2, SwitchEdits
<1>4. /\ TOS(BrandNewPid(q)) = Sched /\ BrandNewPid(q).eventnum[1] = q
  BY DEF TOS, BrandNewPid
<1>5. Nested(new.eventnum)
  <2>1. (StackType /\ StacksNest)'
    BY <1>1, SwitchStep
  <2> QED
    BY <1>1, <2>1 DEF StacksNest
<1> HIDE DEF new
<1>6. new.eventnum[1] = q
  BY <1>1, <1>2, <1>3, <1>4 DEF RpcsTrue
<1>7. ~mix.intr => TOS(new) = Sched
  BY <1>1, <1>2, <1>3, <1>4 DEF SInv, SchedTrue
<1>8. Len(new.eventnum) = 1 => TOS(new) = q
  BY <1>6 DEF TOS
<1>9. ASSUME q \in fresh, perpidstate[q] # NoState
      PROVE  TOS(new) = Sched \/ Len(new.eventnum) = 1
  <2>1. q \in Proc /\ q # Idle
    BY <1>1, <1>9 DEF KType, Proc
  <2>2. Absent(q)
    <3> SUFFICES ASSUME NEW d \in CPU PROVE Owner(d) # q /\ (on[d] = q => Announced(d))
      BY DEF Absent
    <3>1. on[d] = q => d = c
      BY <1>1, <2>1 DEF OneCPU
    <3> QED
      BY <1>2, <2>1, <3>1
  <2>3. Holds(perpidstate[q], q) /\ q \notin strayed
    BY <1>9, <2>1, <2>2 DEF CInv, AsideTrue
  <2>4. thread[q] = <<>>
    BY <1>9 DEF SInv, ThreadsTrue
  <2>5. Seen(q) = {}
    <3>1. hidden[q] \in Nat
      BY <2>1 DEF CInv, ThreadsNest, Task
    <3>2. Len(thread[q]) = 0
      BY <2>4
    <3> QED
      BY <3>1, <3>2 DEF Seen, Above
  <2>6. Above(new.eventnum, 1) = {}
    BY <1>3, <1>9, <2>3, <2>5 DEF Holds, StackCalls
  <2>7. Len(new.eventnum) = 1 \/ 1 < Len(new.eventnum)
    <3> DEFINE depth == Len(new.eventnum)
    <3>1. depth \in 1 .. 5
      BY <1>5, TopFacts
    <3> HIDE DEF depth
    <3>2. depth = 1 \/ 1 < depth
      BY <3>1
    <3> QED
      BY <3>2 DEF depth
  <2>8. CASE 1 < Len(new.eventnum)
    <3>1. new.eventnum[Len(new.eventnum)] = Sched
      BY <1>5, <2>6, <2>8, StackFront
    <3> QED
      BY <3>1 DEF TOS
  <2> QED
    BY <2>7, <2>8
<1>10. perpidstate[q] = NoState => TOS(new) = Sched
  BY <1>3, <1>4
<1> QED
  BY <1>7, <1>8, <1>9, <1>10 DEF new

(* A switch starts a span only at the header of an idle CPU, and leaves    *)
(* the open span to the scheduler otherwise.                               *)
LEMMA EventSwitchKeepsLInv ==
    ASSUME RInv, IInv, SInv, CInv, LInv, UNCHANGED kvars, UNCHANGED span_start_time,
           Settled, event' = NoEvent, NEW c, c = event.cpu, event.kind = "ctx",
           ProcessContextSwitch(event)
    PROVE  LInv'
<1> DEFINE q == event.pid
           new == SwapStacks(MarkAmbiguous(cpu_stack[c]), q)
           label == Label(c)'
           top == TOS(cpu_stack'[c])
<1>1. ~Reading /\ Goes
  BY DEF Settled, Goes
<1>2. /\ c \in CPU /\ StackType /\ StacksNest /\ SpanType
      /\ KType /\ now \in Nat /\ 0 < now /\ event.ts = now
      /\ cur_span[c] \in OpenSpan /\ cur_span[c].start \in Nat /\ cur_span[c].start <= now
      /\ q \in Pid /\ LabelAt(c)
  BY <1>1, ConvertingSpans
<1>3. /\ ctx_switch_ts' = [ctx_switch_ts EXCEPT ![c] = now]
      /\ UNCHANGED <<mwait_pending, shown>> /\ cpu_stack' = [cpu_stack EXCEPT ![c] = new]
      /\ IF Top(new) = 0
         THEN cur_span' = [cur_span EXCEPT ![c] = StartSpan(event, q)]
         ELSE UNCHANGED cur_span
  BY <1>2 DEF ProcessContextSwitch, outvars
<1>4. /\ cpu_stack'[c] = new
      /\ \A d \in CPU \ {c} : cpu_stack'[d] = cpu_stack[d]
  BY <1>2, <1>3 DEF StackType
<1>5. Nested(new.eventnum) /\ Len(new.eventnum) \in 1 .. 5
      /\ (Top(new) = 0 <=> Len(new.eventnum) = 1)
  <2>1. (StackType /\ StacksNest)'
    BY <1>2, SwitchStep
  <2>2. Nested(new.eventnum)
    BY <1>2, <1>4, <2>1 DEF StacksNest
  <2> HIDE DEF new
  <2>3. Len(new.eventnum) \in 1 .. 5
    BY <2>2, TopFacts
  <2> QED
    BY <2>2, <2>3 DEF Top
<1> HIDE DEF new
<1>6. \E span : /\ Shifts(c, span, now) /\ span.start <= now /\ cur_span'[c] = span
                /\ IF Len(new.eventnum) = 1 THEN span.eventnum = q ELSE span = cur_span[c]
  <2>1. CASE Top(new) = 0
    <3> DEFINE span == StartSpan(event, q)
    <3>1. span \in OpenSpan /\ span.start = now /\ span.eventnum = q
      BY <1>2 DEF StartSpan, OpenSpan
    <3>2. cur_span' = [cur_span EXCEPT ![c] = span]
      BY <1>3, <2>1
    <3> HIDE DEF span
    <3>3. Shifts(c, span, now) /\ cur_span'[c] = span
      BY <1>2, <1>3, <1>4, <3>1, <3>2 DEF Shifts, SpanType
    <3> QED
      BY <1>2, <1>5, <2>1, <3>1, <3>3
  <2>2. CASE Top(new) # 0
    <3>1. cur_span' = [cur_span EXCEPT ![c] = cur_span[c]] /\ cur_span' = cur_span
      BY <1>2, <1>3, <2>2 DEF SpanType
    <3>2. Shifts(c, cur_span[c], now)
      BY <1>2, <1>3, <1>4, <3>1 DEF Shifts, SpanType
    <3> QED
      BY <1>2, <1>5, <2>2, <3>1, <3>2
  <2> QED
    BY <2>1, <2>2
<1>7. PICK span : /\ Shifts(c, span, now) /\ span.start <= now /\ cur_span'[c] = span
                  /\ IF Len(new.eventnum) = 1 THEN span.eventnum = q ELSE span = cur_span[c]
  BY <1>6
<1>8. /\ label = (IF Len(new.eventnum) = 1 THEN q ELSE Label(c)) /\ top = TOS(new)
  BY <1>4, <1>7 DEF Label
<1>9. Converts(c, {"ctx"}) /\ ~Converts(c, {"call"}) /\ ~Converts(c, {"ret"})
      /\ ~Converts(c, {"call", "ret"})
      /\ (\A K : ~Converts(c, K)') /\ ~Arrives(c)'
  BY <1>1 DEF Converts, Reading, Arrives
<1>10. q = on[c] /\ Announced(c) /\ Owner(c) \in Pid
  <2>1. Owner(c) \in Pid
    BY <1>2, StackFacts, TopFacts DEF GoodState, Owner
  <2> QED
    BY <1>2, <1>9, <2>1 DEF RInv, OwnersTrue
<1>11. /\ label = top \/ top = Sched \/ Interrupted(c)
       /\ heard[c] = "call" => label = top \/ on[c] \in fresh \/ Interrupted(c)
  <2>1. CASE Owner(c) = on[c]
    <3>1. ~Arrives(c)
      BY <2>1 DEF Arrives
    <3>2. Label(c) = TOS(cpu_stack[c]) \/ TOS(cpu_stack[c]) = Sched \/ Interrupted(c)
      BY <1>2, <1>9, <3>1 DEF LabelAt
    <3>3. heard[c] # "call"
      BY <1>2, <1>9, <1>10, <2>1 DEF CInv, Known, CallsAt, HeaderIdle
    <3>4. new.eventnum = cpu_stack[c].eventnum
      BY <1>2, <1>4, <1>10, <2>1, SwitchEdits
    <3>5. top = TOS(cpu_stack[c])
      BY <1>8, <3>4 DEF TOS
    <3>6. Len(new.eventnum) = 1 => top = q
      BY <1>8, <1>10, <2>1, <3>4 DEF TOS, Owner
    <3> QED
      BY <1>8, <3>2, <3>3, <3>5, <3>6
  <2>2. CASE Owner(c) # on[c]
    <3>1. Arrives(c)
      BY <1>9, <2>2 DEF Arrives
    <3>2. /\ TopCall(c) = Sched \/ on[c] \in fresh
               \/ (heard[c] = "header" /\ perpidstate[on[c]] = NoState)
          /\ heard[c] = "call" /\ ~mix.intr => Label(c) = Sched
      BY <1>2, <3>1 DEF LabelAt
    <3>3. /\ ~mix.intr => top = Sched
          /\ on[c] \in fresh \/ perpidstate[on[c]] = NoState
               => top = Sched \/ Len(new.eventnum) = 1
          /\ Len(new.eventnum) = 1 => top = q
      <4>1. fresh \cap strayed = {}
        BY DEF LInv, BeginsTrue
      <4> QED
        BY <1>1, <1>4, <1>10, <2>2, <4>1, SwitchTop
    <3>4. TopCall(c) = Sched /\ mix.intr => Interrupted(c)
      BY DEF Interrupted
    <3>5. CASE Len(new.eventnum) = 1
      BY <1>8, <3>3, <3>5
    <3>6. CASE Len(new.eventnum) # 1
      <4>1. label = Label(c)
        BY <1>8, <3>6
      <4> HIDE DEF label, top
      <4>2. CASE mix.intr
        BY <3>2, <3>3, <3>4, <3>6, <4>2
      <4>3. CASE ~mix.intr
        BY <3>2, <3>3, <4>1, <4>3
      <4> QED
        BY <4>2, <4>3
    <3> QED
      BY <3>5, <3>6
  <2> QED
    BY <2>1, <2>2
<1>12. LabelAt(c)'
  BY <1>9, <1>11, SpansStill DEF LabelAt
<1>13. FreshAt(c)'
  <2>1. ctx_switch_ts'[c] = now
    BY <1>2, <1>3 DEF SpanType
  <2> QED
    BY <1>2, <1>7, <1>9, <2>1 DEF FreshAt
<1>14. SpanTrue'
  <2>1. ran.sure => AllTrue(shown')
    BY <1>3, SettledCloses
  <2> QED
    BY <2>1, SpanTrueAfter DEF Reading
<1>15. span.start <= now + 1
  BY <1>2, <1>7 DEF Shifts, OpenSpan
<1>16. now <= now
  BY <1>2
<1> HIDE DEF q, label, top
<1> QED
  BY <1>1, <1>7, <1>15, <1>16, <1>12, <1>13, <1>14, <1>15, ShiftKeepsLInv

LEMMA ConvertKeepsLInv ==
    ASSUME RInv, IInv, SInv, CInv, LInv, Convert, UNCHANGED kvars
    PROVE  LInv'
<1>1. CASE ProcessEvent
  <2>1. ~Reading /\ Settled /\ Goes /\ UNCHANGED span_start_time
    BY <1>1, EventEdits
  <2>2. CASE event.kind = "call" /\ ProcessCall(event) /\ \E st : Pushes(event.cpu, st, event)
    BY <2>1, <2>2, EventCallKeepsLInv
  <2>3. CASE /\ event.kind = "ret" /\ ProcessReturn(event)
             /\ \E st : /\ Pops(event.cpu, st)
                        /\ cur_span' = [cur_span EXCEPT ![event.cpu] =
                                           StartSpan(event, TOS(st))]
    BY <2>1, <2>3, EventReturnKeepsLInv
  <2>4. CASE event.kind = "ctx" /\ ProcessContextSwitch(event) /\ event' = NoEvent
    BY <2>1, <2>4, EventSwitchKeepsLInv
  <2>5. CASE /\ event.kind \in {"rpc", "mark", "mwait", "mwait_exit"} /\ event' = NoEvent
             /\ ProcessSplit(event) /\ \E st : Settles(event.cpu, st, event)
    BY <2>1, <2>5, EventSplitKeepsLInv
  <2>6. CASE /\ event.kind \in {"sample", "wakeup", "ipi", "monitor_store", "other"}
             /\ event' = NoEvent
             /\ ProcessPoint(event) /\ \E st : Settles(event.cpu, st, event)
    BY <2>1, <2>6, EventPointKeepsLInv
  <2> QED
    BY <1>1, <2>2, <2>3, <2>4, <2>5, <2>6, EventEdits
<1> QED
  BY <1>1, ReturnPopKeepsLInv, ReturnCallKeepsLInv, ReschedKeepsLInv, SchedFixupKeepsLInv,
     CallFixupKeepsLInv, CexitKeepsLInv DEF Convert

(***************************************************************************)
(* What the spans say: steps of the kernel                                 *)
(***************************************************************************)

(* What every entry notes of the CPU that makes it.                        *)
Asks(c) ==
    ran'.what = TopCall(c) /\ ran'.at = now' /\ (ran'.sure <=> Sure(c, event'.kind))

LEMMA EmitAsks ==
    ASSUME NEW c, NEW kind, NEW num, NEW arg, NEW p, NEW dur, kind # "none",
           Emit(c, kind, num, arg, p, dur)
    PROVE  Asks(c)
<1>1. event'.kind = kind
  BY EmitFacts
<1>2. ran' = [what |-> TopCall(c), sure |-> Sure(c, kind), cpu |-> c, at |-> now',
              open |-> valid_span[c] /\ heard[c] \in {"header", "call"}]
  BY DEF Emit
<1> QED
  BY <1>1, <1>2 DEF Asks

LEMMA KernelAsks ==
    ASSUME NEW c, KernelStep(c)
    PROVE  Asks(c)
<1>1. ASSUME NEW kind, NEW num, NEW arg, NEW p, NEW dur, kind # "none",
             Entry(c, kind, num, arg, p, dur)
      PROVE  Asks(c)
  <2>1. Emit(c, kind, num, arg, p, dur)
    BY <1>1 DEF Entry
  <2> QED
    BY <1>1, <2>1, EmitAsks
<1>2. CASE Announce(c)
  BY <1>2, EmitAsks DEF Announce
<1>3. CASE \E x \in Call : Enter(c, x)
  BY <1>1, <1>3 DEF Enter
<1>4. CASE \E x \in Call : Whole(c, x)
  BY <1>1, <1>4 DEF Whole
<1>5. CASE Leave(c)
  <2>1. PICK x \in IF TopCall(c) = Resched THEN {Resched, BHhi} ELSE {TopCall(c)} :
           \E q \in Results(x) : Entry(c, "ret", x, q, on[c], 0)
    BY <1>5 DEF Leave
  <2> QED
    BY <1>1, <2>1
<1>6. CASE \E q \in Pid : Switch(c, q)
  BY <1>1, <1>6 DEF Switch
<1>7. CASE \E kind \in Points : \E arg \in Pid \cup CPU \cup Rpcs \cup {1, 4} : Point(c, kind, arg)
  <2>1. PICK kind \in Points : \E arg : Point(c, kind, arg)
    BY <1>7
  <2>2. kind # "none"
    BY <2>1 DEF Points
  <2> QED
    BY <1>1, <2>1, <2>2 DEF Point
<1> QED
  BY <1>2, <1>3, <1>4, <1>5, <1>6, <1>7 DEF KernelStep

(* A step of the kernel leaves the spans alone; what it says of its own    *)
(* CPU is to be shown for each.                                            *)
LEMMA ReadKeepsLInv ==
    ASSUME RInv, LInv, NEW c \in CPU, Hands(c), Asks(c), OnlyOn(c), fresh' \subseteq fresh,
           BeginsTrue', LabelAt(c)', FreshAt(c)', ran'.sure => Expected'
    PROVE  LInv'
<1>1. /\ KType /\ OneCPU /\ now \in Nat /\ TimesFit /\ SpanType
      /\ \A d \in CPU : LabelAt(d) /\ FreshAt(d)
  BY DEF RInv, LInv, TimesFit, KType
<1>2. /\ UNCHANGED <<cur_span, ctx_switch_ts, mwait_pending, cpu_stack, perpidstate>>
      /\ shown' = <<>> /\ now' = now + 2 /\ mix' = mix /\ event'.cpu = c /\ event'.ts = now + 2
      /\ span_start_time' = IF valid_span[c] THEN cur_span[c].start ELSE now + 2
  BY DEF Hands, convvars, cpuvars, switchvars
<1>3. cur_span[c].start \in Nat /\ cur_span[c].start <= now + 1
  BY <1>1 DEF SpanType, OpenSpan, TimesFit
<1>4. /\ SpanType' /\ span_start_time' <= now'
  <2>1. <<>> \in Seq(Entries)
    OBVIOUS
  <2>2. span_start_time' \in Nat /\ span_start_time' <= now'
    BY <1>1, <1>2, <1>3
  <2> QED
    BY <1>1, <1>2, <2>1, <2>2 DEF SpanType
<1>5. \A d \in CPU : cur_span[d].start <= now' + 1 /\ ctx_switch_ts[d] <= now'
  <2> TAKE d \in CPU
  <2>1. cur_span[d].start \in Nat /\ ctx_switch_ts[d] \in Nat
    BY <1>1 DEF SpanType, OpenSpan
  <2>2. cur_span[d].start <= now + 1 /\ ctx_switch_ts[d] <= now
    BY <1>1 DEF TimesFit
  <2> QED
    BY <1>1, <1>2, <2>1, <2>2
<1>6. TimesFit'
  BY <1>1, <1>2, <1>3, <1>4, <1>5 DEF TimesFit, Asks
<1>7. ASSUME NEW d \in CPU \ {c} PROVE LabelAt(d)' /\ FreshAt(d)'
  <2>1. \A K : ~Converts(d, K) /\ ~Converts(d, K)'
    BY HandsConverts
  <2>2. on'[d] = on[d] /\ thread'[TaskOn(d)] = thread[TaskOn(d)] /\ heard'[d] = heard[d]
    BY DEF OnlyOn
  <2>3. TaskOn(d)' = TaskOn(d)
    BY <2>2 DEF TaskOn
  <2>4. TopCall(d)' = TopCall(d)
    BY <2>2, <2>3 DEF TopCall
  <2>5. on[d] \in fresh <=> on'[d] \in fresh'
    <3>1. on[d] \in fresh => on[d] # TaskOn(c)
      <4>1. TaskOn(d) # TaskOn(c)
        BY <1>1, OtherTasks
      <4>2. on[d] \in fresh => on[d] # Idle
        BY <1>1 DEF KType, Proc
      <4> QED
        BY <4>1, <4>2 DEF TaskOn
    <3> QED
      BY <2>2, <3>1 DEF OnlyOn
  <2>6. ~Arrives(d) /\ ~Arrives(d)' /\ Label(d)' = Label(d) /\ (Interrupted(d)' <=> Interrupted(d))
    BY <1>2, <2>1, <2>4 DEF Arrives, Label, Interrupted
  <2>7. LabelAt(d)'
    BY <1>1, <1>2, <2>1, <2>2, <2>5, <2>6 DEF LabelAt
  <2>8. FreshAt(d)'
    BY <1>1, <1>2, <2>1, <2>5 DEF FreshAt
  <2> QED
    BY <2>7, <2>8
<1>8. \A d \in CPU : LabelAt(d)' /\ FreshAt(d)'
  BY <1>7
<1>9. SpanTrue'
  <2>1. AllTrue(shown)'
    BY <1>2 DEF AllTrue
  <2> QED
    BY <2>1 DEF SpanTrue
<1> QED
  BY <1>6, <1>8, <1>9 DEF LInv

(* What is on top of the stack of a CPU that has made a call.              *)
LEMMA StackTop ==
    ASSUME RInv, IInv, SInv, CInv, Reading, NEW c \in CPU, heard[c] = "call",
           TaskOn(c) \notin strayed, mix.intr => TopCall(c) # Sched
    PROVE  LET t == TaskOn(c)
               st == cpu_stack[c]
           IN  /\ Owner(c) = on[c]
               /\ TopCall(c) = Sched => TOS(st) = Sched
               /\ hidden[t] = 0 \/ hidden[t] < Len(thread[t])
                     => \/ TOS(st) = TopCall(c)
                        \/ InBottom(c) /\ t \in cut
                        \/ on[c] \in fresh /\ TOS(st) = Sched /\ Len(st.eventnum) = 2
               /\ hidden[t] = Len(thread[t]) /\ thread[t] # <<>> /\ TopCall(c) # Sched
                     => Len(st.eventnum) = 1
<1> DEFINE t == TaskOn(c)
           st == cpu_stack[c]
           s == thread[t]
           u == st.eventnum
           W == StackCalls(st)
<1>1. /\ KType /\ ThreadsNest /\ ThreadsTrue /\ \A K : ~Converts(c, K)
      /\ Announced(c) /\ Nested(u)
  BY StackFacts DEF RInv, CInv, SInv, IInv, Converts, Announced, GoodState
<1>2. Owner(c) = on[c] /\ u[1] = on[c]
  BY <1>1 DEF RInv, OwnersTrue, Owner
<1>3. W = Seen(t)
  <2>1. Known(c) /\ ~HeaderIdle(c)
    BY <1>1 DEF Known, HeaderIdle
  <2>2. Holds(st, t)
    BY <1>1, <2>1 DEF CInv, CallsAt
  <2> QED
    BY <2>2 DEF Holds
<1>4. /\ TopCall(c) = Sched => TOS(st) = Sched
      /\ TOS(st) = Sched => TopCall(c) = Sched \/ on[c] \in fresh
  <2>1. SchedAt(c)
    BY <1>1 DEF SInv, SchedTrue
  <2> QED
    BY <1>1, <2>1 DEF SchedAt
<1>5. on[c] \in fresh => s = <<>>
  <2>1. on[c] \in fresh => t = on[c]
    BY <1>1 DEF KType, Proc, TaskOn
  <2> QED
    BY <1>1, <2>1 DEF ThreadsTrue
<1>6. /\ s \in Seq(Call) /\ Len(s) \in Nat /\ hidden[t] \in 0 .. Len(s)
      /\ s = <<>> => Seen(t) = {} /\ TopCall(c) = on[c]
      /\ s # <<>> => TopCall(c) = s[Len(s)] /\ TopCall(c) \in Call
      /\ hidden[t] = Len(s) => Seen(t) = {}
      /\ \A y \in Seen(t) : IF TopCall(c) = Sched THEN NestLevel(y) < 3
                            ELSE y = TopCall(c) \/ NestLevel(y) < NestLevel(TopCall(c))
  BY <1>1, TopOfThread, AtTop DEF Level
<1>7. ASSUME s # <<>>, hidden[t] < Len(s), TopCall(c) # Sched, ~(InBottom(c) /\ t \in cut)
      PROVE  TopCall(c) \in Seen(t)
  <2>1. Len(s) \in hidden[t] + 1 .. Len(s)
    BY <1>6, <1>7
  <2>2. TopCall(c) \notin Lost(t)
    BY <1>7 DEF Lost, InBottom
  <2> QED
    BY <1>6, <1>7, <2>1, <2>2 DEF Seen, Above
<1>8. /\ u \in Seq(Pid \cup Call) /\ Len(u) \in 1 .. 5 /\ TOS(st) = u[Len(u)]
      /\ 1 < Len(u) => TOS(st) \in Call
      /\ \A i, j \in 1 .. Len(u) : i < j => NestLevel(u[i]) < NestLevel(u[j])
      /\ W \subseteq Call /\ \A x \in W : NestLevel(x) <= NestLevel(TOS(st))
  BY <1>1, TopFacts, StackCallTypes DEF Nested, TOS, StackCalls
<1>9. ASSUME 1 < Len(u), TOS(st) # Sched PROVE TOS(st) \in W
  <2>1. Len(u) \in 1 + 1 .. Len(u)
    BY <1>8, <1>9
  <2> QED
    BY <1>8, <1>9, <2>1 DEF StackCalls, Above
<1>10. ASSUME 2 < Len(u) PROVE W # {}
  <2>1. 2 \in 1 + 1 .. Len(u) /\ 2 \in 1 .. Len(u) /\ Len(u) \in 1 .. Len(u) /\ 2 < Len(u)
    BY <1>8, <1>10
  <2>2. NestLevel(u[2]) < NestLevel(u[Len(u)]) /\ u[Len(u)] \in Call
    BY <1>8, <1>10, <2>1
  <2>3. u[2] # Sched
    BY <2>2, LevelFacts
  <2> QED
    BY <2>1, <2>3 DEF StackCalls, Above
<1> HIDE DEF W
<1>11. ASSUME hidden[t] = 0 \/ hidden[t] < Len(s), ~(InBottom(c) /\ t \in cut)
       PROVE  \/ TOS(st) = TopCall(c)
              \/ on[c] \in fresh /\ TOS(st) = Sched /\ Len(u) = 2
  <2>1. CASE TopCall(c) = Sched
    BY <1>4, <2>1
  <2>2. CASE TopCall(c) # Sched /\ TOS(st) = Sched
    <3>1. on[c] \in fresh /\ W = {}
      BY <1>3, <1>4, <1>5, <1>6, <2>2
    <3>2. Len(u) # 1
      <4>1. Sched \notin Pid /\ on[c] \in Pid
        BY <1>1, LevelFacts DEF KType
      <4> QED
        BY <1>2, <1>8, <2>2, <4>1
    <3>3. Len(u) = 2
      <4>1. Len(u) \in 1 .. 5
        BY <1>8
      <4>2. ~(2 < Len(u))
        BY <1>10, <3>1
      <4>3. \A n \in 1 .. 5 : ~(2 < n) /\ n # 1 => n = 2
        OBVIOUS
      <4> QED
        BY <3>2, <4>1, <4>2, <4>3, Zenon
    <3> QED
      BY <2>2, <3>1, <3>3
  <2>3. CASE TopCall(c) # Sched /\ TOS(st) # Sched /\ Len(u) = 1
    <3>1. W = {}
      <4>1. 1 + 1 .. 1 = {}
        OBVIOUS
      <4> QED
        BY <2>3, <4>1 DEF W, StackCalls, Above
    <3>2. s # <<>> => hidden[t] < Len(s)
      BY <1>6, <1>11, EmptySeq
    <3>3. s = <<>>
      BY <1>3, <1>7, <1>11, <2>3, <3>1, <3>2
    <3> QED
      BY <1>2, <1>6, <1>8, <2>3, <3>3
  <2>4. CASE TopCall(c) # Sched /\ TOS(st) # Sched /\ Len(u) # 1
    <3>1. TOS(st) \in Seen(t)
      <4>1. Len(u) \in 1 .. 5
        BY <1>8
      <4>2. \A n \in 1 .. 5 : n # 1 => 1 < n
        OBVIOUS
      <4>3. 1 < Len(u)
        BY <2>4, <4>1, <4>2, Zenon
      <4>4. TOS(st) \in W
        BY <1>9, <2>4, <4>3
      <4> QED
        BY <1>3, <2>4, <4>4
    <3>2. s # <<>> /\ hidden[t] < Len(s)
      BY <1>6, <3>1
    <3>3. NestLevel(TopCall(c)) <= NestLevel(TOS(st)) /\ TOS(st) \in Call
      BY <1>3, <1>7, <1>8, <1>11, <2>4, <3>1, <3>2
    <3>4. NestLevel(TopCall(c)) \in 1 .. 4 /\ NestLevel(TOS(st)) \in 1 .. 4
      BY <1>6, <3>2, <3>3, LevelFacts
    <3>5. TOS(st) = TopCall(c) \/ NestLevel(TOS(st)) < NestLevel(TopCall(c))
      BY <1>6, <2>4, <3>1
    <3> QED
      BY <3>3, <3>4, <3>5
  <2> QED
    BY <2>1, <2>2, <2>3, <2>4
<1>12. ASSUME hidden[t] = Len(s), s # <<>>, TopCall(c) # Sched PROVE Len(u) = 1
  <2>1. W = {} /\ TOS(st) # Sched
    BY <1>3, <1>4, <1>5, <1>6, <1>12
  <2> QED
    BY <1>8, <1>9, <2>1
<1> QED
  BY <1>2, <1>4, <1>11, <1>12

(* What is on top of the stack in a bottom half that was interrupted: what *)
(* is below the bottom half.                                               *)
LEMMA StackBelow ==
    ASSUME RInv, IInv, SInv, CInv, Reading, NEW c \in CPU, heard[c] = "call",
           TaskOn(c) \notin strayed, TaskOn(c) \in cut, InBottom(c)
    PROVE  LET st == cpu_stack[c] IN
           /\ TopCall(c) \in Call \ {Resched} /\ TOS(st) # Resched
           /\ NestLevel(TOS(st)) < NestLevel(TopCall(c))
           /\ \A i \in 2 .. Len(st.eventnum) : st.eventnum[i] # TopCall(c)
<1> DEFINE t == TaskOn(c)
           st == cpu_stack[c]
           u == st.eventnum
<1>1. /\ KType /\ ThreadsNest /\ ThreadsTrue /\ \A K : ~Converts(c, K)
      /\ Announced(c) /\ Nested(u)
  BY StackFacts DEF RInv, CInv, SInv, IInv, Converts, Announced, GoodState
<1>2. u[1] = on[c] /\ on[c] \in Pid
  BY <1>1 DEF RInv, OwnersTrue, Owner, KType
<1>3. StackCalls(st) = Seen(t)
  <2>1. Known(c) /\ ~HeaderIdle(c)
    BY <1>1 DEF Known, HeaderIdle
  <2>2. Holds(st, t)
    BY <1>1, <2>1 DEF CInv, CallsAt
  <2> QED
    BY <2>2 DEF Holds
<1>4. /\ thread[t] # <<>> /\ TopCall(c) \in Irqs /\ TopCall(c) # Sched /\ Level(c) = 3
      /\ TopCall(c) # Resched /\ Resched \in Irqs
  BY <1>1, CutTop, BottomAssumption, CallAssumption DEF InBottom
<1>5. on[c] \notin fresh
  <2>1. on[c] \in fresh => t = on[c]
    BY <1>1 DEF KType, Proc, TaskOn
  <2> QED
    BY <1>1, <1>4, <2>1 DEF ThreadsTrue
<1>6. TOS(st) # Sched
  <2>1. SchedAt(c)
    BY <1>1 DEF SInv, SchedTrue
  <2> QED
    BY <1>1, <1>4, <1>5, <2>1 DEF SchedAt
<1>7. TopCall(c) \notin Seen(t)
  BY DEF Seen, Lost, InBottom
<1>8. \A y \in Seen(t) : y = TopCall(c) \/ NestLevel(y) < 3
  BY <1>1, <1>4, TopOfThread
<1>9. u \in Seq(Pid \cup Call) /\ Len(u) \in 1 .. 5 /\ TOS(st) = u[Len(u)]
  BY <1>1, TopFacts DEF Nested, TOS
<1>10. ASSUME NEW i \in 2 .. Len(u), u[i] # Sched PROVE u[i] \in Seen(t)
  BY <1>3, <1>9, <1>10 DEF StackCalls, Above
<1>11. NestLevel(TOS(st)) < 3
  <2>1. CASE Len(u) = 1
    BY <1>2, <1>9, <2>1, LevelFacts
  <2>2. CASE Len(u) # 1
    <3>1. Len(u) \in 2 .. Len(u)
      <4>1. Len(u) \in 1 .. 5
        BY <1>9
      <4>2. \A n \in 1 .. 5 : n # 1 => n \in 2 .. n
        OBVIOUS
      <4> QED
        BY <2>2, <4>1, <4>2, Zenon
    <3>2. TOS(st) \in Seen(t)
      BY <1>6, <1>9, <1>10, <3>1
    <3> QED
      BY <1>7, <1>8, <3>2
  <2> QED
    BY <2>1, <2>2
<1>12. TOS(st) # Resched
  <2>1. NestLevel(Resched) = 3
    BY LevelFacts
  <2> QED
    BY <1>11, <2>1
<1> QED
  BY <1>4, <1>7, <1>10, <1>11, <1>12 DEF Level, Call

(* A reschedule_ipi that is innermost.                                     *)
LEMMA NoResched ==
    ASSUME KType, NEW c \in CPU, LastResched(thread[TaskOn(c)])
    PROVE  LET s == thread[TaskOn(c)] IN
           /\ TopCall(c) # Resched => \A i \in 1 .. Len(s) : s[i] # Resched
           /\ s # <<>> => \A i \in 1 .. Len(s) - 1 : s[i] # Resched
<1> DEFINE s == thread[TaskOn(c)]
<1>1. s \in Seq(Call) /\ Len(s) \in Nat
  BY TaskFacts
<1>2. s # <<>> => TopCall(c) = s[Len(s)]
  BY AtTop
<1>3. \A i \in 1 .. Len(s) : s[i] = Resched => i = Len(s) /\ s # <<>>
  BY DEF LastResched
<1>4. \A i \in 1 .. Len(s) - 1 : i \in 1 .. Len(s) /\ i # Len(s)
  BY <1>1
<1> QED
  BY <1>2, <1>3, <1>4

LEMMA BeginsKeep ==
    ASSUME KType, OneCPU, BeginsTrue, NEW c \in CPU, OnlyOn(c),
           \A t \in Task \ {TaskOn(c)} : thread'[t] = thread[t] /\ hidden'[t] = hidden[t],
           LastResched(thread'[TaskOn(c)]),
           (TopCall(c) = Resched /\ hidden[TaskOn(c)] = Len(thread[TaskOn(c)])
               => heard[c] # "call")',
           (fresh \cap strayed = {})'
    PROVE  BeginsTrue'
<1>1. \A t \in Task : LastResched(thread'[t])
  BY DEF BeginsTrue
<1>2. ASSUME NEW d \in CPU
      PROVE  (TopCall(d) = Resched /\ hidden[TaskOn(d)] = Len(thread[TaskOn(d)])
                 => heard[d] # "call")'
  <2>1. CASE d = c
    BY <2>1
  <2>2. CASE d # c
    <3>1. TaskOn(d) \in Task \ {TaskOn(c)}
      BY <2>2, TaskFacts, OtherTasks
    <3>2. on'[d] = on[d] /\ heard'[d] = heard[d]
      BY <2>2 DEF OnlyOn
    <3>3. TaskOn(d)' = TaskOn(d)
      BY <3>2 DEF TaskOn
    <3>4. thread'[TaskOn(d)] = thread[TaskOn(d)] /\ hidden'[TaskOn(d)] = hidden[TaskOn(d)]
      BY <3>1
    <3>5. TopCall(d)' = TopCall(d)
      BY <3>2, <3>3, <3>4 DEF TopCall
    <3> QED
      BY <3>2, <3>3, <3>4, <3>5 DEF BeginsTrue
  <2> QED
    BY <2>1, <2>2
<1> QED
  BY <1>1, <1>2 DEF BeginsTrue

(* Before an entry: the label of the open span is what is on top.          *)
LEMMA BeforeEntry ==
    ASSUME RInv, IInv, SInv, CInv, LInv, NEW c \in CPU, Hands(c), Asks(c)
    PROVE  /\ Reading /\ KType /\ OneCPU /\ BeginsTrue /\ ThreadsTrue /\ ThreadsNest
           /\ now \in Nat /\ now' = now + 2 /\ mix' = mix
           /\ event'.cpu = c /\ Stack' = cpu_stack[c] /\ Owner(c)' = Owner(c)
           /\ UNCHANGED <<cpu_stack, perpidstate, cur_span, ctx_switch_ts, valid_span>>
           /\ Label(c) = TOS(cpu_stack[c]) \/ TOS(cpu_stack[c]) = Sched \/ Interrupted(c)
           /\ heard[c] = "call"
                 => Label(c) = TOS(cpu_stack[c]) \/ on[c] \in fresh \/ Interrupted(c)
           /\ on[c] \in fresh /\ TOS(cpu_stack[c]) = Sched /\ ~mix.early
                 => 0 < ctx_switch_ts[c] /\ cur_span[c].start <= ctx_switch_ts[c]
           /\ cur_span[c].start \in Nat /\ cur_span[c].start <= now + 1
           /\ ctx_switch_ts[c] \in Nat /\ ctx_switch_ts[c] <= now
           /\ on[c] \in fresh => TaskOn(c) = on[c] /\ thread[on[c]] = <<>>
<1>1. /\ Reading /\ now' = now + 2 /\ mix' = mix /\ event'.cpu = c
      /\ UNCHANGED <<cpu_stack, perpidstate, cur_span, ctx_switch_ts, valid_span>>
  BY DEF Hands, convvars, cpuvars, switchvars
<1>2. KType /\ OneCPU /\ BeginsTrue /\ ThreadsTrue /\ ThreadsNest /\ now \in Nat
  BY DEF RInv, LInv, SInv, CInv, KType
<1>3. \A K : ~Converts(c, K)
  BY <1>1 DEF Converts
<1>4. LabelAt(c) /\ FreshAt(c) /\ TimesFit /\ SpanType
  BY DEF LInv, TimesFit
<1>5. ~Arrives(c)
  BY <1>3 DEF Arrives
<1>6. Stack' = cpu_stack[c] /\ Owner(c)' = Owner(c)
  BY <1>1 DEF Stack, Owner
<1>7. /\ cur_span[c].start \in Nat /\ cur_span[c].start <= now + 1
      /\ ctx_switch_ts[c] \in Nat /\ ctx_switch_ts[c] <= now
  BY <1>4 DEF TimesFit, SpanType, OpenSpan
<1>8. /\ Label(c) = TOS(cpu_stack[c]) \/ TOS(cpu_stack[c]) = Sched \/ Interrupted(c)
      /\ heard[c] = "call"
            => Label(c) = TOS(cpu_stack[c]) \/ on[c] \in fresh \/ Interrupted(c)
  BY <1>3, <1>4, <1>5 DEF LabelAt
<1>9. on[c] \in fresh /\ TOS(cpu_stack[c]) = Sched /\ ~mix.early
         => 0 < ctx_switch_ts[c] /\ cur_span[c].start <= ctx_switch_ts[c]
  BY <1>3, <1>4 DEF FreshAt
<1>10. on[c] \in fresh => TaskOn(c) = on[c] /\ thread[on[c]] = <<>>
  BY <1>2 DEF KType, Proc, TaskOn, ThreadsTrue
<1> QED
  BY <1>1, <1>2, <1>6, <1>7, <1>8, <1>9, <1>10

(* A call of a process that made none before ends its first scheduler.     *)
LEMMA CallExpected ==
    ASSUME RInv, IInv, SInv, CInv, LInv, NEW c \in CPU, NEW x \in Call, MayEnter(c, x),
           Hands(c), Asks(c), event'.kind = "call", event'.num = x, ran'.sure
    PROVE  Expected'
<1> DEFINE t == TaskOn(c)
           st == cpu_stack[c]
<1>1. /\ heard[c] = "call" /\ t \notin strayed
      /\ hidden[t] = 0 \/ hidden[t] < Len(thread[t])
      /\ t \in fresh => ~mix.early
      /\ mix.intr => TopCall(c) # Sched
      /\ ~(InBottom(c) /\ t \in cut)
      /\ ran'.what = TopCall(c)
  BY DEF Asks, Sure
<1>2. /\ Reading /\ KType /\ ThreadsNest /\ now \in Nat /\ now' = now + 2
      /\ event'.cpu = c /\ Stack' = st /\ Owner(c)' = Owner(c)
      /\ UNCHANGED <<cpu_stack, cur_span, ctx_switch_ts>>
      /\ Label(c) = TOS(st) \/ TOS(st) = Sched \/ Interrupted(c)
      /\ on[c] \in fresh /\ TOS(st) = Sched /\ ~mix.early
            => 0 < ctx_switch_ts[c] /\ cur_span[c].start <= ctx_switch_ts[c]
      /\ ctx_switch_ts[c] \in Nat /\ ctx_switch_ts[c] <= now
      /\ on[c] \in fresh => t = on[c] /\ thread[on[c]] = <<>>
  BY BeforeEntry
<1>3. /\ Owner(c) = on[c]
      /\ \/ TOS(st) = TopCall(c)
         \/ on[c] \in fresh /\ TOS(st) = Sched /\ Len(st.eventnum) = 2
  BY <1>1, <1>2, StackTop
<1>4. TopCall(c) # Sched
  BY <1>1, <1>2, EnterOutside
<1>5. thread[t] = <<>> => TopCall(c) = on[c]
  BY <1>2, AtTop
<1>6. CASE TOS(st) = TopCall(c)
  <2>1. Label(c) = TopCall(c)
    BY <1>2, <1>4, <1>6 DEF Interrupted
  <2>2. Safe'
    BY <1>1, <1>2, <2>1 DEF Safe, Label
  <2>3. x \in Syscalls => ran'.what = Owner(c)
    <3>1. x \in Syscalls => Level(c) = 0
      <4>1. x \in Syscalls => x \notin Traps /\ x \notin Irqs /\ x # Sched
        BY CallAssumption
      <4> QED
        BY <4>1, Zenon DEF MayEnter
    <3>2. thread[t] # <<>> => Level(c) \in 1 .. 4
      BY <1>2, TopOfThread
    <3> QED
      BY <1>1, <1>3, <1>5, <3>1, <3>2
  <2>4. OnlyInUserMode(event)' => x \in Syscalls
    BY DEF OnlyInUserMode, IsACall
  <2> QED
    BY <1>2, <1>4, <1>6, <2>2, <2>3, <2>4 DEF Expected
<1>7. CASE on[c] \in fresh /\ TOS(st) = Sched /\ Len(st.eventnum) = 2
  <2>1. ran'.what = Owner(c)
    BY <1>1, <1>2, <1>3, <1>5, <1>7
  <2>2. 0 < ctx_switch_ts[c] /\ cur_span[c].start <= ctx_switch_ts[c]
    BY <1>1, <1>2, <1>7
  <2>3. NeedsSched'
    BY <1>2, <1>7, <2>2 DEF NeedsSched, IsACall, Top
  <2>4. ctx_switch_ts[c] < now'
    BY <1>2
  <2> QED
    BY <1>2, <2>1, <2>2, <2>3, <2>4 DEF Expected
<1> QED
  BY <1>3, <1>6, <1>7

LEMMA EnterKeepsLInv ==
    ASSUME RInv, IInv, SInv, CInv, LInv, NEW c \in CPU, NEW x \in Call, Enter(c, x)
    PROVE  LInv'
<1> DEFINE t == TaskOn(c)
           r == thread[t]
           s == IF x = Sched /\ TopCall(c) = Resched THEN Front(r) ELSE r
           h == IF Len(s) < hidden[t] THEN Len(s) ELSE hidden[t]
<1>1. Asks(c) /\ MayEnter(c, x) /\ KType
  BY KernelAsks DEF KernelStep, Enter, RInv
<1>2. /\ Hands(c) /\ event'.kind = "call" /\ event'.num = x /\ event'.dur = 0
      /\ UNCHANGED on
      /\ heard' = [heard EXCEPT ![c] = IF heard[c] = "nothing" THEN "first" ELSE "call"]
  BY <1>1, EnterFacts
<1>3. /\ thread' = [thread EXCEPT ![t] = Append(s, x)] /\ fresh' = fresh \ {t}
      /\ hidden' = [hidden EXCEPT ![t] = h]
      /\ strayed' = IF x \in Syscalls THEN strayed \ {t} ELSE strayed
  BY DEF Enter
<1>4. /\ KType /\ OneCPU /\ BeginsTrue /\ ThreadsNest
      /\ on[c] \in fresh => TaskOn(c) = on[c]
  BY <1>1, <1>2, BeforeEntry
<1>5. OnlyOn(c)
  BY <1>2, <1>3, <1>4, CallOnlyOn DEF KType
<1>6. t \in Task /\ r \in Seq(Call) /\ Len(r) \in Nat /\ hidden[t] \in Nat /\ LastResched(r)
  BY <1>4, TaskFacts DEF BeginsTrue, ThreadsNest
<1>7. /\ s \in Seq(Call) /\ Len(s) \in Nat /\ \A i \in 1 .. Len(s) : s[i] # Resched
  <2>1. CASE TopCall(c) = Resched
    <3>1. r # <<>>
      BY <1>4, <2>1, AtTop, TaskFacts, LevelFacts
    <3>2. Level(c) = 3 /\ Resched # Sched
      BY <2>1, LevelFacts DEF Level
    <3>3. x = Sched
      <4>1. ~InBottom(c)
        BY <2>1, BottomAssumption DEF InBottom
      <4>2. ~(Level(c) = 0) /\ ~(Level(c) < 2) /\ ~(Level(c) < 3)
        BY <3>2
      <4> QED
        BY <1>1, <2>1, <3>2, <4>1, <4>2 DEF MayEnter
    <3>4. /\ Front(r) \in Seq(Call) /\ Len(Front(r)) = Len(r) - 1
          /\ \A i \in 1 .. Len(r) - 1 : Front(r)[i] = r[i]
      BY <1>6, <3>1, FrontFacts
    <3>5. \A i \in 1 .. Len(r) - 1 : r[i] # Resched
      BY <1>4, <1>6, <3>1, NoResched
    <3>6. s = Front(r)
      BY <2>1, <3>3
    <3> HIDE DEF s, r
    <3> QED
      BY <3>4, <3>5, <3>6
  <2>2. CASE TopCall(c) # Resched
    BY <1>4, <1>6, <2>2, NoResched
  <2> QED
    BY <2>1, <2>2
<1> HIDE DEF s
<1>8. /\ Append(s, x) \in Seq(Call) /\ Len(Append(s, x)) = Len(s) + 1
      /\ \A i \in 1 .. Len(s) : Append(s, x)[i] = s[i]
  BY <1>7
<1>9. LastResched(Append(s, x)) /\ h < Len(Append(s, x)) /\ h \in Nat
  BY <1>6, <1>7, <1>8 DEF LastResched
<1> HIDE DEF h
<1>10. /\ thread'[t] = Append(s, x) /\ hidden'[t] = h
       /\ \A u \in Task \ {t} : thread'[u] = thread[u] /\ hidden'[u] = hidden[u]
  BY <1>3, <1>4, <1>6 DEF KType, ThreadsNest
<1>11. BeginsTrue'
  <2>1. TaskOn(c)' = t
    BY <1>2 DEF TaskOn
  <2>2. ~(hidden[TaskOn(c)] = Len(thread[TaskOn(c)]))'
    BY <1>7, <1>8, <1>9, <1>10, <2>1
  <2>3. (fresh \cap strayed = {})'
    BY <1>3, <1>4 DEF BeginsTrue
  <2> QED
    BY <1>4, <1>5, <1>9, <1>10, <2>2, <2>3, BeginsKeep
<1>12. \A K : Converts(c, K)' <=> "call" \in K
  BY <1>2, HandsConverts
<1>13. ~Arrives(c)'
  BY <1>12 DEF Arrives
<1>14. LabelAt(c)'
  BY <1>2, <1>12, <1>13 DEF LabelAt
<1>15. FreshAt(c)'
  BY <1>2, <1>3, <1>4 DEF FreshAt
<1> QED
  BY <1>1, <1>2, <1>3, <1>5, <1>11, <1>14, <1>15, CallExpected, ReadKeepsLInv

LEMMA WholeKeepsLInv ==
    ASSUME RInv, IInv, SInv, CInv, LInv, NEW c \in CPU, NEW x \in Call, Whole(c, x)
    PROVE  LInv'
<1> DEFINE t == TaskOn(c)
<1>1. Asks(c) /\ MayEnter(c, x) /\ x # Sched /\ KType
  BY KernelAsks DEF KernelStep, Whole, RInv
<1>2. /\ Hands(c) /\ event'.kind = "call" /\ event'.num = x /\ event'.dur = 1
      /\ UNCHANGED on
      /\ heard' = [heard EXCEPT ![c] = IF heard[c] = "nothing" THEN "first" ELSE "call"]
  BY <1>1, WholeFacts
<1>3. /\ UNCHANGED <<thread, hidden>> /\ fresh' = fresh \ {t}
      /\ strayed' = IF x \in Syscalls THEN strayed \ {t} ELSE strayed
  BY DEF Whole
<1>4. /\ KType /\ OneCPU /\ BeginsTrue /\ mix' = mix
      /\ UNCHANGED <<cpu_stack, cur_span>>
      /\ on[c] \in fresh => TaskOn(c) = on[c]
      /\ Label(c) = TOS(cpu_stack[c]) \/ TOS(cpu_stack[c]) = Sched \/ Interrupted(c)
  BY <1>1, <1>2, BeforeEntry
<1>5. OnlyOn(c)
  BY <1>2, <1>3, <1>4, CallOnlyOn DEF KType
<1>6. TaskOn(c)' = t /\ TopCall(c)' = TopCall(c) /\ t \in Task
  BY <1>2, <1>3, <1>4, TaskFacts DEF TaskOn, TopCall
<1>7. TopCall(c) # Resched
  <2>1. TopCall(c) = Resched => Level(c) = 3 /\ Resched # Sched
    BY LevelFacts DEF Level
  <2>2. TopCall(c) = Resched => ~InBottom(c)
    BY BottomAssumption DEF InBottom
  <2>3. Level(c) = 3 => ~(Level(c) = 0) /\ ~(Level(c) < 2) /\ ~(Level(c) < 3)
    OBVIOUS
  <2> QED
    BY <1>1, <2>1, <2>2, <2>3 DEF MayEnter
<1>8. BeginsTrue'
  <2>1. LastResched(thread'[t])
    BY <1>3, <1>4, <1>6 DEF BeginsTrue
  <2>2. (fresh \cap strayed = {})'
    BY <1>3, <1>4 DEF BeginsTrue
  <2> QED
    BY <1>3, <1>4, <1>5, <1>6, <1>7, <2>1, <2>2, BeginsKeep
<1>9. \A K : Converts(c, K)' <=> "call" \in K
  BY <1>2, HandsConverts
<1>10. ~Arrives(c)'
  BY <1>9 DEF Arrives
<1>11. LabelAt(c)'
  BY <1>4, <1>6, <1>9, <1>10 DEF LabelAt, Label, Interrupted
<1>12. FreshAt(c)'
  BY <1>2, <1>3, <1>4 DEF FreshAt
<1> QED
  BY <1>1, <1>2, <1>3, <1>5, <1>8, <1>11, <1>12, CallExpected, ReadKeepsLInv

(* Before the header nothing is asked.                                     *)
LEMMA AnnounceKeepsLInv ==
    ASSUME RInv, IInv, SInv, CInv, LInv, NEW c \in CPU, Announce(c)
    PROVE  LInv'
<1> DEFINE t == TaskOn(c)
<1>1. Asks(c) /\ KType
  BY KernelAsks DEF KernelStep, RInv
<1>2. /\ Hands(c) /\ event'.kind = "ctx" /\ event'.pid = on[c]
      /\ UNCHANGED <<on, thread, fresh>> /\ heard[c] = "first"
      /\ heard' = [heard EXCEPT ![c] = "header"]
  BY <1>1, AnnounceFacts
<1>3. UNCHANGED strayed /\ hidden' = [hidden EXCEPT ![t] = Len(thread[t])]
  BY DEF Announce
<1>4. /\ KType /\ OneCPU /\ BeginsTrue /\ ThreadsNest /\ mix' = mix /\ Owner(c)' = Owner(c)
      /\ UNCHANGED <<cpu_stack, cur_span, perpidstate>>
      /\ Label(c) = TOS(cpu_stack[c]) \/ TOS(cpu_stack[c]) = Sched \/ Interrupted(c)
  BY <1>1, <1>2, BeforeEntry
<1>5. OnlyOn(c)
  BY <1>2, <1>4, CallOnlyOn DEF KType
<1>6. TaskOn(c)' = t /\ TopCall(c)' = TopCall(c) /\ t \in Task /\ heard'[c] = "header"
  BY <1>2, <1>4, TaskFacts DEF TaskOn, TopCall, KType
<1>7. \A u \in Task \ {t} : hidden'[u] = hidden[u]
  BY <1>3, <1>4 DEF ThreadsNest
<1>8. BeginsTrue'
  <2>1. LastResched(thread'[t])
    BY <1>2, <1>4, <1>6 DEF BeginsTrue
  <2>2. (fresh \cap strayed = {})'
    BY <1>2, <1>3, <1>4 DEF BeginsTrue
  <2>3. \A u \in Task \ {t} : thread'[u] = thread[u] /\ hidden'[u] = hidden[u]
    BY <1>2, <1>7
  <2> QED
    BY <1>4, <1>5, <1>6, <2>1, <2>2, <2>3, BeginsKeep
<1>9. \A K : Converts(c, K)' <=> "ctx" \in K
  BY <1>2, HandsConverts
<1>10. Arrives(c)' => perpidstate'[on'[c]] = NoState
  <2>1. \A K : ~Converts(c, K)
    BY <1>2, HandsConverts
  <2>2. ~Announced(c)
    BY <1>2 DEF Announced
  <2>3. Owner(c) = Idle /\ (on[c] # Idle => perpidstate[on[c]] = NoState)
    BY <2>2 DEF RInv, OwnersTrue
  <2>4. Arrives(c)' => on[c] # Owner(c)
    BY <1>2, <1>4 DEF Arrives
  <2> QED
    BY <1>2, <1>4, <2>3, <2>4
<1>11. LabelAt(c)'
  BY <1>4, <1>6, <1>9, <1>10 DEF LabelAt, Label, Interrupted
<1>12. FreshAt(c)'
  BY <1>9 DEF FreshAt
<1>13. ~ran'.sure
  BY <1>1, <1>2 DEF Asks, Sure
<1> QED
  BY <1>1, <1>2, <1>5, <1>8, <1>11, <1>12, <1>13, ReadKeepsLInv

(* The label is true whenever the property asks for a point in time.       *)
LEMMA SureLabel ==
    ASSUME RInv, IInv, SInv, CInv, LInv, NEW c \in CPU, Hands(c), Asks(c),
           event'.kind # "call", ran'.sure,
           hidden[TaskOn(c)] = 0 \/ hidden[TaskOn(c)] < Len(thread[TaskOn(c)])
              \/ TopCall(c) = Sched,
           ~(InBottom(c) /\ TaskOn(c) \in cut)
    PROVE  /\ TOS(cpu_stack[c]) = TopCall(c) /\ Owner(c) = on[c]
           /\ Label(c) = TopCall(c) /\ Safe'
<1>1. /\ heard[c] = "call" /\ TaskOn(c) \notin strayed /\ TaskOn(c) \notin fresh
      /\ mix.intr => TopCall(c) # Sched
      /\ ran'.what = TopCall(c)
  BY DEF Asks, Sure
<1>2. /\ Reading /\ event'.cpu = c /\ UNCHANGED cur_span
      /\ Label(c) = TOS(cpu_stack[c]) \/ on[c] \in fresh \/ Interrupted(c)
      /\ on[c] \in fresh => TaskOn(c) = on[c]
  BY <1>1, BeforeEntry
<1>3. /\ Owner(c) = on[c]
      /\ TOS(cpu_stack[c]) = TopCall(c) \/ on[c] \in fresh
  BY <1>1, <1>2, StackTop
<1>4. TOS(cpu_stack[c]) = TopCall(c) /\ Label(c) = TopCall(c)
  BY <1>1, <1>2, <1>3 DEF Interrupted
<1>5. Safe'
  BY <1>1, <1>2, <1>4 DEF Safe, Label
<1> QED
  BY <1>3, <1>4, <1>5

LEMMA PointKeepsLInv ==
    ASSUME RInv, IInv, SInv, CInv, LInv, NEW c \in CPU, NEW kind \in Points,
           NEW arg \in Pid \cup CPU \cup Rpcs \cup {1, 4}, Point(c, kind, arg)
    PROVE  LInv'
<1> DEFINE t == TaskOn(c)
<1>1. Asks(c) /\ KType
  BY KernelAsks DEF KernelStep, RInv
<1>2. /\ Hands(c) /\ event'.kind = kind /\ UNCHANGED <<on, thread, fresh>>
      /\ heard' = [heard EXCEPT ![c] = IF heard[c] = "nothing" THEN "first" ELSE heard[c]]
  BY <1>1, PointFacts
<1>3. UNCHANGED <<strayed, hidden>> /\ MayPoint(c, kind, arg)
  BY DEF Point
<1>4. /\ KType /\ OneCPU /\ BeginsTrue /\ ThreadsNest /\ mix' = mix /\ Owner(c)' = Owner(c)
      /\ UNCHANGED <<cpu_stack, cur_span, ctx_switch_ts>> /\ Stack' = cpu_stack[c]
      /\ event'.cpu = c
      /\ Label(c) = TOS(cpu_stack[c]) \/ TOS(cpu_stack[c]) = Sched \/ Interrupted(c)
      /\ heard[c] = "call"
            => Label(c) = TOS(cpu_stack[c]) \/ on[c] \in fresh \/ Interrupted(c)
      /\ on[c] \in fresh /\ TOS(cpu_stack[c]) = Sched /\ ~mix.early
            => 0 < ctx_switch_ts[c] /\ cur_span[c].start <= ctx_switch_ts[c]
  BY <1>1, <1>2, BeforeEntry
<1>5. OnlyOn(c)
  BY <1>2, <1>4, CallOnlyOn DEF KType
<1>6. TaskOn(c)' = t /\ TopCall(c)' = TopCall(c) /\ t \in Task
      /\ (heard'[c] = "call" <=> heard[c] = "call")
  BY <1>2, <1>4, TaskFacts DEF TaskOn, TopCall, KType
<1>7. BeginsTrue'
  <2>1. LastResched(thread'[t]) /\ (fresh \cap strayed = {})'
    BY <1>2, <1>3, <1>4, <1>6 DEF BeginsTrue
  <2>2. (TopCall(c) = Resched /\ hidden[TaskOn(c)] = Len(thread[TaskOn(c)])
            => heard[c] # "call")'
    BY <1>2, <1>3, <1>4, <1>6 DEF BeginsTrue
  <2> QED
    BY <1>2, <1>3, <1>4, <1>5, <2>1, <2>2, BeginsKeep
<1>8. kind \notin {"call", "ret", "ctx"}
  BY DEF Points
<1>9. \A K : Converts(c, K)' <=> kind \in K
  BY <1>2, HandsConverts
<1>10. ~Arrives(c)'
  BY <1>8, <1>9 DEF Arrives
<1>11. LabelAt(c)'
  BY <1>2, <1>4, <1>6, <1>8, <1>9, <1>10 DEF LabelAt, Label, Interrupted
<1>12. FreshAt(c)'
  BY <1>2, <1>4, <1>8, <1>9 DEF FreshAt
<1>13. ASSUME ran'.sure PROVE Expected'
  <2>1. hidden[t] = 0 \/ hidden[t] < Len(thread[t])
    BY <1>1, <1>2, <1>8, <1>13 DEF Asks, Sure
  <2>2. /\ TOS(cpu_stack[c]) = TopCall(c) /\ Owner(c) = on[c] /\ Safe'
    <3>1. ~(InBottom(c) /\ t \in cut)
      BY <1>1, <1>2, <1>8, <1>13 DEF Asks, Sure
    <3> QED
      BY <1>1, <1>2, <1>8, <1>13, <2>1, <3>1, SureLabel
  <2>3. ASSUME OnlyInUserMode(event)' PROVE ran'.what = Owner(c)
    <3>1. kind \in {"mark", "mwait", "mwait_exit"}
      BY <1>2, <1>8, <2>3 DEF OnlyInUserMode, IsACall
    <3>2. Level(c) = 0
      BY <1>3, <3>1 DEF MayPoint
    <3>3. thread[t] # <<>> => Level(c) \in 1 .. 4
      BY <1>4, TopOfThread
    <3>4. TopCall(c) = on[c]
      BY <1>4, <3>2, <3>3, AtTop
    <3> QED
      BY <1>1, <2>2, <3>4 DEF Asks
  <2> QED
    BY <1>2, <1>4, <1>8, <2>2, <2>3 DEF Expected
<1> QED
  BY <1>1, <1>2, <1>5, <1>7, <1>11, <1>12, <1>13, ReadKeepsLInv

(* A return: the call is on the stack, or is one that the trace has not    *)
(* seen begin.                                                             *)
LEMMA LeaveExpected ==
    ASSUME RInv, IInv, SInv, CInv, LInv, NEW c \in CPU, Leave(c), Hands(c), Asks(c),
           event'.kind = "ret", ran'.sure
    PROVE  Expected'
<1> DEFINE t == TaskOn(c)
           st == cpu_stack[c]
           x == event'.num
<1>1. /\ heard[c] = "call" /\ t \notin strayed /\ t \notin fresh
      /\ mix.intr => TopCall(c) # Sched
      /\ ran'.what = TopCall(c)
  BY DEF Asks, Sure
<1>2. /\ Reading /\ KType /\ ThreadsNest /\ BeginsTrue /\ now \in Nat /\ now' = now + 2
      /\ event'.cpu = c /\ Stack' = st /\ UNCHANGED <<cur_span, valid_span>>
      /\ cur_span[c].start \in Nat /\ cur_span[c].start <= now + 1
  BY BeforeEntry
<1>3. /\ thread[t] # <<>> /\ hidden[t] \in 0 .. Len(thread[t])
      /\ TopCall(c) \in Call /\ Len(thread[t]) \in Nat
  BY <1>2, TopOfThread DEF Leave
<1>4. x \in IF TopCall(c) = Resched THEN {Resched, BHhi} ELSE {TopCall(c)}
  <2>1. PICK y \in IF TopCall(c) = Resched THEN {Resched, BHhi} ELSE {TopCall(c)} :
           \E q \in Results(y) : Entry(c, "ret", y, q, on[c], 0)
    BY DEF Leave
  <2>2. PICK q : Emit(c, "ret", y, q, on[c], 0)
    BY <2>1 DEF Entry
  <2>3. event'.num = y
    BY <2>2, EmitFacts
  <2> QED
    BY <2>1, <2>3
<1>5. ~OnlyInUserMode(event)'
  BY DEF OnlyInUserMode, IsACall
<1> HIDE DEF x
<1>6. CASE (hidden[t] < Len(thread[t]) \/ TopCall(c) = Sched) /\ ~(InBottom(c) /\ t \in cut)
  <2>1. TOS(st) = TopCall(c) /\ Safe'
    BY <1>6, SureLabel
  <2>2. Matches(event)'
    BY <1>2, <1>4, <2>1 DEF Matches, x
  <2> QED
    BY <1>5, <2>1, <2>2 DEF Expected
<1>7. CASE ~(hidden[t] < Len(thread[t])) /\ TopCall(c) # Sched
  <2>1. hidden[t] = Len(thread[t])
    BY <1>3, <1>7
  <2>2. Len(st.eventnum) = 1 /\ Owner(c) = on[c]
    BY <1>1, <1>2, <1>3, <1>7, <2>1, StackTop
  <2>3. TOS(st) = on[c] /\ on[c] \in Pid
    BY <1>2, <2>2 DEF TOS, Owner, KType
  <2>4. x = TopCall(c) /\ x \in Call
    BY <1>1, <1>2, <1>3, <1>4, <2>1 DEF BeginsTrue
  <2>5. ~Matches(event)'
    BY <1>2, <2>3, <2>4, LevelFacts DEF Matches, x
  <2>6. ~CallFound(event)'
    BY <1>2, <2>2 DEF CallFound
  <2>7. NestLevel(TOS(st)) < NestLevel(x)
    BY <2>3, <2>4, LevelFacts
  <2>8. valid_span'[c] => cur_span'[c].start = span_start_time' /\ span_start_time' < now'
    BY <1>2 DEF Hands
  <2> QED
    BY <1>1, <1>2, <2>4, <2>5, <2>6, <2>7, <2>8 DEF Expected, x
<1>8. CASE InBottom(c) /\ t \in cut
  <2>1. /\ TopCall(c) # Resched /\ TOS(st) # Resched
        /\ NestLevel(TOS(st)) < NestLevel(TopCall(c))
        /\ \A i \in 2 .. Len(st.eventnum) : st.eventnum[i] # TopCall(c)
    BY <1>1, <1>2, <1>8, StackBelow
  <2>2. x = TopCall(c) /\ TOS(st) # TopCall(c)
    <3>1. NestLevel(TOS(st)) \in Nat \/ ~(NestLevel(TOS(st)) < NestLevel(TOS(st)))
      BY DEF NestLevel
    <3>2. NestLevel(TopCall(c)) \in Nat
      BY <1>3, LevelFacts
    <3> QED
      BY <1>4, <2>1, <3>1, <3>2
  <2>3. ~Matches(event)' /\ ~CallFound(event)'
    BY <1>2, <2>1, <2>2 DEF Matches, CallFound, x
  <2>4. valid_span'[c] => cur_span'[c].start = span_start_time' /\ span_start_time' < now'
    BY <1>2 DEF Hands
  <2> QED
    BY <1>1, <1>2, <2>1, <2>2, <2>3, <2>4 DEF Expected, x
<1> QED
  BY <1>6, <1>7, <1>8

LEMMA LeaveKeepsLInv ==
    ASSUME RInv, IInv, SInv, CInv, LInv, NEW c \in CPU, Leave(c)
    PROVE  LInv'
<1> DEFINE t == TaskOn(c)
           s == Front(thread[t])
<1>1. Asks(c) /\ KType
  BY KernelAsks DEF KernelStep, RInv
<1>2. /\ Hands(c) /\ event'.kind = "ret" /\ event'.dur = 0 /\ UNCHANGED on
      /\ heard' = [heard EXCEPT ![c] = IF heard[c] = "nothing" THEN "first" ELSE "call"]
  BY <1>1, LeaveFacts
<1>4. /\ KType /\ OneCPU /\ BeginsTrue /\ ThreadsNest /\ ThreadsTrue
      /\ on[c] \in fresh => TaskOn(c) = on[c]
  BY <1>1, <1>2, BeforeEntry
<1>5. t \in Task /\ thread[t] \in Seq(Call) /\ thread[t] # <<>> /\ LastResched(thread[t])
  BY <1>4, TaskFacts DEF Leave, BeginsTrue
<1>6. s \in Seq(Call) /\ Len(s) = Len(thread[t]) - 1 /\ Len(thread[t]) \in Nat \ {0}
  BY <1>5, FrontFacts
<1>7. PICK n \in 0 .. Len(s) :
        /\ thread' = [thread EXCEPT ![t] = SubSeq(s, 1, n)]
        /\ hidden' = [hidden EXCEPT ![t] = IF n < hidden[t] THEN n ELSE hidden[t]]
        /\ strayed' = IF n < Len(s) THEN strayed \cup {t} ELSE strayed
  <2>1. Len(s) \in 0 .. Len(s)
    BY <1>6
  <2>2. \E n \in (0 .. Len(s)) \cup {Len(s)} :
        /\ thread' = [thread EXCEPT ![t] = SubSeq(s, 1, n)]
        /\ hidden' = [hidden EXCEPT ![t] = IF n < hidden[t] THEN n ELSE hidden[t]]
        /\ strayed' = IF n < Len(s) THEN strayed \cup {t} ELSE strayed
    BY Zenon DEF Leave
  <2> QED
    BY <2>1, <2>2, Zenon
<1> DEFINE u == SubSeq(s, 1, n)
<1>8. u \in Seq(Call) /\ Len(u) = n /\ \A i \in 1 .. n : u[i] = thread[t][i]
  BY <1>5, <1>6, <1>7, FrontFacts
<1>9. fresh' = fresh /\ t \notin fresh
  BY <1>4, <1>5 DEF Leave, ThreadsTrue
<1> HIDE DEF u
<1>10. \A i \in 1 .. Len(u) : u[i] # Resched
  <2>1. \A i \in 1 .. Len(thread[t]) - 1 : thread[t][i] # Resched
    BY <1>4, <1>5, NoResched
  <2> QED
    BY <1>6, <1>7, <1>8, <2>1
<1>11. /\ thread'[t] = u
       /\ \A v \in Task \ {t} : thread'[v] = thread[v] /\ hidden'[v] = hidden[v]
  BY <1>4, <1>5, <1>7 DEF KType, ThreadsNest, u
<1>12. OnlyOn(c)
  BY <1>2, <1>4, <1>9, <1>11, CallOnlyOn DEF KType
<1>13. BeginsTrue'
  <2>1. TopCall(c)' # Resched
    <3>1. TaskOn(c)' = t /\ on[c] \in Pid
      BY <1>2, <1>4 DEF TaskOn, KType
    <3>2. u # <<>> => Len(u) \in 1 .. Len(u)
      BY <1>8, EmptySeq
    <3>3. TopCall(c)' = IF u = <<>> THEN on[c] ELSE u[Len(u)]
      BY <1>2, <1>11, <3>1 DEF TopCall
    <3> QED
      BY <1>10, <3>1, <3>2, <3>3, LevelFacts
  <2>2. LastResched(u)
    BY <1>10 DEF LastResched
  <2>3. (fresh \cap strayed = {})'
    BY <1>4, <1>7, <1>9 DEF BeginsTrue
  <2> QED
    BY <1>4, <1>11, <1>12, <2>1, <2>2, <2>3, BeginsKeep
<1>14. \A K : Converts(c, K)' <=> "ret" \in K
  BY <1>2, HandsConverts
<1>15. ~Arrives(c)'
  BY <1>14 DEF Arrives
<1>16. LabelAt(c)'
  BY <1>14, <1>15 DEF LabelAt
<1>17. FreshAt(c)'
  BY <1>2, <1>4, <1>9 DEF FreshAt
<1> QED
  BY <1>1, <1>2, <1>9, <1>12, <1>13, <1>16, <1>17, LeaveExpected, ReadKeepsLInv

LEMMA SwitchKeepsLInv ==
    ASSUME RInv, IInv, SInv, CInv, LInv, NEW c \in CPU, NEW q \in Pid, Switch(c, q)
    PROVE  LInv'
<1>1. Asks(c) /\ KType
  BY KernelAsks DEF KernelStep, RInv
<1>2. /\ Hands(c) /\ event'.kind = "ctx" /\ event'.pid = q
      /\ UNCHANGED <<thread, fresh, heard>> /\ Announced(c)
      /\ on' = [on EXCEPT ![c] = q] /\ q # on[c]
      /\ \A d \in CPU : q # Idle => on[d] # q
      /\ TopCall(c) = Sched
  BY <1>1, SwitchFacts
<1>3. UNCHANGED <<hidden, strayed>>
  BY DEF Switch
<1>4. /\ Reading /\ KType /\ OneCPU /\ BeginsTrue /\ ThreadsNest /\ ThreadsTrue /\ mix' = mix
      /\ event'.cpu = c /\ Owner(c)' = Owner(c)
      /\ UNCHANGED <<cpu_stack, cur_span>>
      /\ heard[c] = "call"
            => Label(c) = TOS(cpu_stack[c]) \/ on[c] \in fresh \/ Interrupted(c)
      /\ on[c] \in fresh => TaskOn(c) = on[c] /\ thread[on[c]] = <<>>
  BY <1>1, <1>2, BeforeEntry
<1>5. on'[c] = q /\ \A d \in CPU \ {c} : on'[d] = on[d]
  BY <1>2, <1>4 DEF KType
<1>6. OnlyOn(c)
  <2>1. \A d \in CPU \ {c} : TaskOn(d) \in Task
    BY <1>4, TaskFacts
  <2> QED
    BY <1>2, <1>5 DEF OnlyOn
<1>7. on[c] \notin fresh
  <2>1. thread[TaskOn(c)] # <<>>
    BY <1>2, <1>4, AtTop DEF Asleep
  <2> QED
    BY <1>4, <2>1
<1>8. (q \in fresh /\ TopCall(c)' = q) \/ TopCall(c)' = Sched
  <2>1. CASE q = Idle
    <3>1. TaskOn(c)' = c
      BY <1>5, <2>1 DEF TaskOn
    <3>2. Asleep(thread[c])
      BY <1>2, <1>4, <2>1 DEF ThreadsTrue
    <3> QED
      BY <1>2, <3>1, <3>2 DEF TopCall, Asleep
  <2>2. CASE q # Idle
    <3>1. TaskOn(c)' = q /\ q \in Proc
      BY <1>5, <2>2 DEF TaskOn, Proc
    <3>2. (q \in fresh /\ thread[q] = <<>>) \/ Asleep(thread[q])
      BY <1>2, <1>4, <2>2, <3>1 DEF ThreadsTrue
    <3> QED
      BY <1>2, <1>5, <3>1, <3>2 DEF TopCall, Asleep
  <2> QED
    BY <2>1, <2>2
<1>9. BeginsTrue'
  <2>1. TopCall(c)' # Resched
    BY <1>8, LevelFacts
  <2>2. (fresh \cap strayed = {})' /\ LastResched(thread'[TaskOn(c)])
    BY <1>2, <1>3, <1>4, TaskFacts DEF BeginsTrue
  <2> QED
    BY <1>2, <1>3, <1>4, <1>6, <2>1, <2>2, BeginsKeep
<1>10. \A K : Converts(c, K)' <=> "ctx" \in K
  BY <1>2, HandsConverts
<1>11. heard[c] = "call" /\ ~mix.intr => Label(c) = Sched
  <2>1. SchedAt(c)
    BY <1>4 DEF SInv, SchedTrue, Converts
  <2>2. ~mix.intr => TOS(cpu_stack[c]) = Sched
    BY <1>2, <2>1 DEF SchedAt
  <2> QED
    BY <1>4, <1>7, <2>2 DEF Interrupted
<1>12. Arrives(c)'
  <2>1. Owner(c) = on[c]
    BY <1>2, <1>4 DEF RInv, OwnersTrue, Converts
  <2>2. Owner(c)' # on'[c]
    BY <1>2, <1>4, <1>5, <2>1
  <2> QED
    BY <1>10, <2>2 DEF Arrives
<1>13. LabelAt(c)'
  BY <1>2, <1>4, <1>5, <1>8, <1>10, <1>11, <1>12 DEF LabelAt, Label
<1>14. FreshAt(c)'
  BY <1>10 DEF FreshAt
<1>15. ASSUME ran'.sure PROVE Expected'
  <2>1. Safe'
    <3>1. ~InBottom(c)
      BY <1>2, BottomAssumption, CallAssumption DEF InBottom
    <3> QED
      BY <1>1, <1>2, <1>15, <3>1, SureLabel
  <2>2. ~OnlyInUserMode(event)'
    BY <1>2 DEF OnlyInUserMode, IsACall
  <2> QED
    BY <1>2, <2>1, <2>2 DEF Expected
<1> QED
  BY <1>1, <1>2, <1>6, <1>9, <1>13, <1>14, <1>15, ReadKeepsLInv

LEMMA KernelKeepsLInv ==
    ASSUME RInv, IInv, SInv, CInv, LInv, NEW c \in CPU, KernelStep(c)
    PROVE  LInv'
<1>1. CASE Announce(c)
  BY <1>1, AnnounceKeepsLInv
<1>2. ASSUME NEW x \in Call, Enter(c, x) PROVE LInv'
  BY <1>2, EnterKeepsLInv
<1>3. ASSUME NEW x \in Call, Whole(c, x) PROVE LInv'
  BY <1>3, WholeKeepsLInv
<1>4. CASE Leave(c)
  BY <1>4, LeaveKeepsLInv
<1>5. ASSUME NEW q \in Pid, Switch(c, q) PROVE LInv'
  BY <1>5, SwitchKeepsLInv
<1>6. ASSUME NEW kind \in Points, NEW arg \in Pid \cup CPU \cup Rpcs \cup {1, 4},
             Point(c, kind, arg)
      PROVE  LInv'
  BY <1>6, PointKeepsLInv
<1> QED
  BY <1>1, <1>2, <1>3, <1>4, <1>5, <1>6 DEF KernelStep

LEMMA KInitLInv ==
    ASSUME KInit
    PROVE  LInv
<1>1. /\ event = NoEvent /\ span_start_time = 0 /\ shown = <<>>
      /\ cpu_stack = [c \in CPU |-> IdleStack]
      /\ cur_span = [c \in CPU |-> [start |-> 0, eventnum |-> Idle, pid |-> Idle]]
      /\ ctx_switch_ts = [c \in CPU |-> 0] /\ mwait_pending = [c \in CPU |-> -1]
  BY DEF KInit, Init
<1>2. /\ now = 0 /\ ran.at = 0 /\ ran.sure = FALSE /\ strayed = {}
      /\ heard = [c \in CPU |-> "nothing"]
      /\ fresh \subseteq mix.fresh \ {on[c] : c \in CPU} /\ mix \in Mixes
      /\ thread \in [Task -> mix.begin \cup {<<>>, <<Sched>>}]
  BY DEF KInit
<1>3. Reading /\ \A c, K : ~Converts(c, K)
  BY <1>1 DEF Reading, Converts
<1>4. SpanType
  <2>1. <<>> \in Seq(Entries)
    OBVIOUS
  <2>2. [start |-> 0, eventnum |-> Idle, pid |-> Idle] \in OpenSpan
    BY CallAssumption DEF OpenSpan
  <2> QED
    BY <1>1, <2>1, <2>2 DEF SpanType
<1>5. TimesFit
  BY <1>1, <1>2, <1>3, <1>4 DEF TimesFit
<1>6. ASSUME NEW c \in CPU PROVE LabelAt(c) /\ FreshAt(c)
  <2>1. TOS(IdleStack) = Idle
    BY DEF TOS, IdleStack
  <2>2. Label(c) = TOS(cpu_stack[c])
    BY <1>1, <2>1 DEF Label
  <2>3. LabelAt(c)
    BY <1>3, <2>2 DEF LabelAt, Arrives
  <2>4. on[c] \notin fresh
    BY <1>2
  <2> QED
    BY <2>3, <2>4 DEF FreshAt
<1>7. ASSUME NEW t \in Task PROVE LastResched(thread[t])
  <2>1. thread[t] \in mix.begin \/ thread[t] = <<>> \/ thread[t] = <<Sched>>
    BY <1>2
  <2>2. CASE thread[t] \in mix.begin
    BY <1>2, <2>2, MixAssumption DEF LastResched
  <2>3. CASE thread[t] = <<>>
    BY <2>3 DEF LastResched
  <2>4. CASE thread[t] = <<Sched>>
    <3>1. Len(<<Sched>>) = 1 /\ <<Sched>>[1] = Sched
      OBVIOUS
    <3> QED
      BY <2>4, <3>1 DEF LastResched
  <2> QED
    BY <2>1, <2>2, <2>3, <2>4
<1>8. BeginsTrue
  BY <1>2, <1>7 DEF BeginsTrue
<1> QED
  BY <1>2, <1>5, <1>6, <1>8 DEF LInv, SpanTrue

LEMMA NextKeepsLInv ==
    ASSUME RInv, IInv, SInv, CInv, LInv, [Next]_allvars
    PROVE  LInv'
<1>1. CASE UNCHANGED allvars
  <2>1. /\ UNCHANGED kvars
        /\ UNCHANGED <<event, span_start_time, cpu_stack, perpidstate, cur_span, valid_span,
                       ctx_switch_ts, mwait_pending, shown>>
    BY <1>1 DEF allvars, vars, convvars, cpuvars, switchvars, outvars
  <2>2. /\ UNCHANGED <<mix, now, on, heard, fresh, ran>> /\ BeginsTrue'
        /\ \A d : TopCall(d)' = TopCall(d) /\ (Interrupted(d)' <=> Interrupted(d))
    BY <2>1, SpansStill DEF LInv
  <2>3. \A d : /\ \A K : Converts(d, K)' <=> Converts(d, K)
               /\ Owner(d)' = Owner(d) /\ Label(d)' = Label(d)
    BY <2>1 DEF Converts, Reading, Owner, Label
  <2>4. \A d : Arrives(d)' <=> Arrives(d)
    BY <2>2, <2>3 DEF Arrives
  <2>5. TimesFit'
    BY <2>1, <2>2 DEF LInv, TimesFit, SpanType, Reading
  <2>6. ASSUME NEW d \in CPU PROVE LabelAt(d)' /\ FreshAt(d)'
    <3>1. LabelAt(d) /\ FreshAt(d)
      BY DEF LInv
    <3>2. LabelAt(d)'
      BY <2>1, <2>2, <2>3, <2>4, <3>1 DEF LabelAt
    <3>3. FreshAt(d)'
      BY <2>1, <2>2, <2>3, <3>1 DEF FreshAt
    <3> QED
      BY <3>2, <3>3
  <2>7. SpanTrue'
    <3>1. Expected => Expected'
      <4>1. Safe' <=> Safe
        BY <2>1, <2>2 DEF Safe
      <4>2. /\ (Matches(event)' <=> Matches(event)) /\ (CallFound(event)' <=> CallFound(event))
            /\ (NeedsSched' <=> NeedsSched) /\ Stack' = Stack
            /\ (OnlyInUserMode(event)' <=> OnlyInUserMode(event))
        BY <2>1 DEF Matches, CallFound, NeedsSched, Stack, OnlyInUserMode
      <4> QED
        BY <2>1, <2>2, <2>3, <4>1, <4>2 DEF Expected
    <3> QED
      BY <2>1, <2>2, <3>1 DEF LInv, SpanTrue, AllTrue, Truthful, Reading
  <2> QED
    BY <2>2, <2>5, <2>6, <2>7 DEF LInv
<1>2. CASE Kernel
  <2>1. PICK c \in CPU : KernelStep(c)
    BY <1>2, KernelSteps DEF RInv
  <2> QED
    BY <2>1, KernelKeepsLInv
<1>3. CASE Convert /\ UNCHANGED kvars
  BY <1>3, ConvertKeepsLInv
<1> QED
  BY <1>1, <1>2, <1>3 DEF Next

(* Whenever the trace says enough of what a CPU was doing, every span that *)
(* is closed at the time of an event has the name of what the CPU really   *)
(* did until then: the call on top of its calls in progress, or the        *)
(* process itself.  What PreProcessEvent inserts first ends before the     *)
(* event or has that name too, whatever returns and calls are missing.  In *)
(* a bottom half that an interrupt came into before, the trace says enough *)
(* at its return only.                                                     *)
THEOREM SpansTrueHolds == Spec => []SpansTrue
<1> DEFINE Inv == IInv /\ RInv /\ CalmInv /\ CInv /\ LInv
<1>1. KInit => Inv
  BY InitHolds, KInitRInv, KInitSInv, KInitTInv, KInitCInv, KInitLInv DEF KInit, CalmInv
<1>2. Inv /\ [Next]_allvars => Inv'
  <2> SUFFICES ASSUME Inv, [Next]_allvars PROVE Inv'
    OBVIOUS
  <2>1. [ConvNext]_vars
    BY NextConverts DEF RInv
  <2>2. IInv' /\ RInv' /\ CInv' /\ LInv'
    BY <2>1, NextHolds, NextKeepsRInv, NextKeepsCInv, NextKeepsLInv DEF CalmInv
  <2>3. CalmInv'
    BY NextKeepsCalm
  <2> QED
    BY <2>2, <2>3
<1>3. Inv => SpansTrue
  <2> SUFFICES ASSUME Inv, Reading, ran.sure, NEW i \in DOMAIN shown,
                      shown[i].stop = ran.at, shown[i].start < ran.at,
                      shown[i].eventnum \in Pid \cup Call
               PROVE  shown[i].eventnum = ran.what
    BY DEF SpansTrue
  <2>1. ran.at = now /\ shown \in Seq(Entries) /\ AllTrue(shown)
    BY DEF LInv, TimesFit, SpanType, SpanTrue
  <2>2. i \in 1 .. Len(shown)
    BY <2>1
  <2> QED
    BY <2>1, <2>2 DEF AllTrue, Truthful
<1> QED
  BY <1>1, <1>2, <1>3, PTL DEF Spec
=============================================================================
