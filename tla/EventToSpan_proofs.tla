-------------------------- MODULE EventToSpan_proofs --------------------------
(***************************************************************************)
(* Proofs about the converter.  First its stacks for any input: events of  *)
(* any kind in any order on any number of CPUs.  Then the converter that   *)
(* reads what the traced kernel does: it knows the RPC of each CPU, its    *)
(* spans tile the time, and it draws no wait of a process that runs.       *)
(***************************************************************************)
EXTENDS TracedKernel, SequenceTheorems, TLAPS

(***************************************************************************)
(* The inductive invariant                                                 *)
(***************************************************************************)

Args == Pid \cup CPU \cup Rpcs \cup Nat

PidStates == [eventnum : Seq(Pid \cup Call), ambiguous : Int, rpcid : Args]

Lines == [kind : {"call", "ret", "ctx"} \cup Points, num : Pid \cup Call, arg : Args,
          cpu : CPU, pid : Pid, ts : Nat, dur : Nat]

(* The event is a line of the input or the wakeup that FixupRunnable adds. *)
EventType ==
    event # NoEvent =>
        event \in Lines /\ (event.kind \in {"call", "ret"} => event.num \in Call)

StackType ==
    /\ cpu_stack \in [CPU -> PidStates]
    /\ perpidstate \in [Pid -> PidStates]

IInv == EventType /\ StackType /\ StacksNest

(***************************************************************************)
(* Facts about stacks that nest                                            *)
(***************************************************************************)

LEMMA LevelFacts ==
    /\ \A x \in Pid : NestLevel(x) = 0
    /\ \A x \in Call : NestLevel(x) \in 1 .. 4
    /\ Pid \cap Call = {} /\ Sched \in Call /\ Resched \in Call /\ BHhi \in Call
    /\ NestLevel(Resched) = 3 /\ NestLevel(BHhi) = 3 /\ NestLevel(Sched) = 4
<1>1. Pid \cap Call = {} /\ Sched \in Call /\ Resched \in Call /\ BHhi \in Call
  BY CallAssumption DEF Call
<1>2. Resched \in Irqs /\ BHhi \in Irqs /\ Resched # Sched /\ BHhi # Sched
  BY CallAssumption
<1>3. \A x \in Pid : NestLevel(x) = 0
  BY DEF NestLevel
<1>4. \A x \in Call : NestLevel(x) \in 1 .. 4
  BY <1>1 DEF NestLevel
<1>5. NestLevel(Resched) = 3 /\ NestLevel(BHhi) = 3 /\ NestLevel(Sched) = 4
  BY <1>1, <1>2 DEF NestLevel
<1> QED
  BY <1>1, <1>3, <1>4, <1>5

(* What is on top of a stack is the process or a call.                     *)
LEMMA TopFacts ==
    ASSUME NEW s, Nested(s)
    PROVE  /\ Len(s) \in 1 .. 5 /\ s[Len(s)] \in Pid \cup Call /\ s[1] \in Pid
           /\ NestLevel(s[Len(s)]) \in 0 .. 4
           /\ s[Len(s)] \in Call <=> 1 < Len(s)
           /\ 0 < NestLevel(s[Len(s)]) <=> 1 < Len(s)
<1>1. Len(s) \in 1 .. 5 /\ s[Len(s)] \in Pid \cup Call /\ s[1] \in Pid
  <2>1. s \in Seq(Pid \cup Call) /\ s # <<>> /\ Len(s) <= 5 /\ s[1] \in Pid
    BY DEF Nested
  <2>2. Len(s) \in Nat \ {0} /\ Len(s) <= 5
    BY <2>1, EmptySeq
  <2>3. Len(s) \in 1 .. 5
    <3>1. \A n \in Nat \ {0} : n <= 5 => n \in 1 .. 5
      OBVIOUS
    <3> QED
      BY <2>2, <3>1
  <2>4. s[Len(s)] \in Pid \cup Call
    BY <2>1, <2>3, ElementOfSeq
  <2> QED
    BY <2>1, <2>3, <2>4
<1>2. NestLevel(s[Len(s)]) \in 0 .. 4
  BY <1>1, LevelFacts
<1>3. CASE Len(s) = 1
  BY <1>1, <1>2, <1>3, LevelFacts
<1>4. CASE 1 < Len(s)
  <2>1. NestLevel(s[1]) < NestLevel(s[Len(s)])
    BY <1>1, <1>4 DEF Nested
  <2>2. NestLevel(s[1]) = 0
    BY <1>1, LevelFacts
  <2>3. 0 < NestLevel(s[Len(s)])
    BY <2>1, <2>2
  <2>4. s[Len(s)] \in Call
    <3>1. s[Len(s)] \in Pid => NestLevel(s[Len(s)]) = 0
      BY LevelFacts
    <3> QED
      BY <1>1, <2>3, <3>1
  <2> QED
    BY <1>1, <1>2, <1>4, <2>3, <2>4
<1> QED
  BY <1>1, <1>2, <1>3, <1>4

LEMMA BottomNested ==
    ASSUME NEW p \in Pid
    PROVE  Nested(<<p>>)
<1> DEFINE s == <<p>>
<1>1. s \in Seq(Pid \cup Call) /\ s # <<>> /\ s[1] = p /\ Len(s) = 1
  OBVIOUS
<1>2. \A i, j \in 1 .. 1 : ~(i < j)
  OBVIOUS
<1> HIDE DEF s
<1>3. Nested(s)
  BY <1>1, <1>2 DEF Nested
<1> QED
  BY <1>3 DEF s

LEMMA NewPidNested ==
    ASSUME NEW p \in Pid
    PROVE  Nested(<<p, Sched>>)
<1> DEFINE s == <<p, Sched>>
<1>1. s \in Seq(Pid \cup Call) /\ Len(s) = 2 /\ s[1] = p /\ s[2] = Sched /\ s # <<>>
  <2>1. p \in Pid \cup Call /\ Sched \in Pid \cup Call
    BY LevelFacts
  <2> QED
    BY <2>1
<1>2. \A i, j \in 1 .. Len(s) : i < j => i = 1 /\ j = 2
  <2>1. \A i, j \in 1 .. 2 : i < j => i = 1 /\ j = 2
    OBVIOUS
  <2> HIDE DEF s
  <2> QED
    BY <1>1, <2>1
<1>3. NestLevel(p) < NestLevel(Sched)
  BY LevelFacts
<1> HIDE DEF s
<1>4. Nested(s)
  BY <1>1, <1>2, <1>3 DEF Nested
<1> QED
  BY <1>4 DEF s

LEMMA PopNested ==
    ASSUME NEW s, Nested(s), 1 < Len(s)
    PROVE  Nested(SubSeq(s, 1, Len(s) - 1))
<1> DEFINE r == SubSeq(s, 1, Len(s) - 1)
<1>1. s \in Seq(Pid \cup Call) /\ Len(s) \in 1 .. 5
  BY TopFacts DEF Nested
<1>2. r \in Seq(Pid \cup Call) /\ Len(r) = Len(s) - 1
      /\ \A i \in 1 .. Len(r) : r[i] = s[i]
  BY <1>1
<1> HIDE DEF r
<1>3. Nested(r)
  BY <1>1, <1>2 DEF Nested
<1> QED
  BY <1>3 DEF r

(* A call that nests inside what is on top fits: the levels of the calls   *)
(* below it are all different and smaller than 4.                          *)
LEMMA PushNested ==
    ASSUME NEW s, Nested(s), NEW x \in Call, NestLevel(s[Len(s)]) < NestLevel(x)
    PROVE  Nested(Append(s, x))
<1> DEFINE r == Append(s, x)
           n == Len(s)
<1>1. s \in Seq(Pid \cup Call) /\ n \in 1 .. 5 /\ NestLevel(x) \in 1 .. 4
  BY TopFacts, LevelFacts DEF Nested
<1>2. \A i \in 1 .. n : NestLevel(s[i]) \in 0 .. 4
  BY <1>1, LevelFacts
<1>3. \A i \in 1 .. n : NestLevel(s[i]) < NestLevel(x)
  BY <1>1, <1>2 DEF Nested
<1>4. n # 5
  <2> SUFFICES ASSUME n = 5 PROVE FALSE
    OBVIOUS
  <2>1. /\ NestLevel(s[1]) < NestLevel(s[2]) /\ NestLevel(s[2]) < NestLevel(s[3])
        /\ NestLevel(s[3]) < NestLevel(s[4]) /\ NestLevel(s[4]) < NestLevel(s[5])
    BY DEF Nested
  <2> QED
    BY <1>1, <1>2, <1>3, <2>1
<1>5. r \in Seq(Pid \cup Call) /\ Len(r) = n + 1 /\ r[n + 1] = x
      /\ \A i \in 1 .. n : r[i] = s[i]
  BY <1>1
<1> HIDE DEF r
<1>6. r[1] \in Pid /\ r # <<>> /\ Len(r) <= 5
  BY <1>1, <1>4, <1>5 DEF Nested
<1>7. \A i, j \in 1 .. Len(r) : i < j => NestLevel(r[i]) < NestLevel(r[j])
  <2> SUFFICES ASSUME NEW i \in 1 .. n + 1, NEW j \in 1 .. n + 1, i < j
               PROVE  NestLevel(r[i]) < NestLevel(r[j])
    BY <1>5
  <2>1. CASE j = n + 1
    BY <1>1, <1>3, <1>5, <2>1
  <2>2. CASE j # n + 1
    BY <1>1, <1>5, <2>2 DEF Nested
  <2> QED
    BY <2>1, <2>2
<1>8. Nested(r)
  BY <1>5, <1>6, <1>7 DEF Nested
<1> QED
  BY <1>8 DEF r

(***************************************************************************)
(* What ProcessEvent does to one stack                                     *)
(***************************************************************************)

GoodState(st) == st \in PidStates /\ Nested(st.eventnum)

LEMMA EditState ==
    ASSUME NEW st \in PidStates, NEW q \in Seq(Pid \cup Call)
    PROVE  /\ [st EXCEPT !.eventnum = q] \in PidStates
           /\ [st EXCEPT !.eventnum = q].eventnum = q
           /\ [eventnum |-> q, ambiguous |-> 0, rpcid |-> st.rpcid] \in PidStates
  BY DEF PidStates

(* Resolving an ambiguity keeps the stack or all but its process away, and *)
(* a return never does the latter.                                         *)
LEMMA ResolveFacts ==
    ASSUME NEW st, GoodState(st), NEW e
    PROVE  /\ GoodState(Resolve(st, e))
           /\ Resolve(st, e).eventnum \in {st.eventnum, <<st.eventnum[1]>>}
           /\ IsAReturn(e) => Resolve(st, e).eventnum = st.eventnum
<1> DEFINE s == st.eventnum
<1>1. st \in PidStates /\ Nested(s) /\ s[1] \in Pid
  BY TopFacts DEF GoodState
<1>2. <<s[1]>> \in Seq(Pid \cup Call) /\ Nested(<<s[1]>>)
  BY <1>1, BottomNested
<1>3. CASE Resolve(st, e) = st
  BY <1>3, <1>1 DEF GoodState
<1>4. CASE Resolve(st, e) = [st EXCEPT !.ambiguous = 0]
  BY <1>4, <1>1 DEF GoodState, PidStates
<1>5. CASE Resolve(st, e) = [eventnum |-> <<s[1]>>, ambiguous |-> 0, rpcid |-> st.rpcid]
           /\ ~IsAReturn(e)
  <2> DEFINE q == <<s[1]>>
             r == [eventnum |-> q, ambiguous |-> 0, rpcid |-> st.rpcid]
  <2>1. q \in Seq(Pid \cup Call) /\ Nested(q) /\ Resolve(st, e) = r
    BY <1>2, <1>5
  <2> HIDE DEF q
  <2>2. r \in PidStates
    BY <1>1, <2>1, EditState
  <2>3. r.eventnum = q
    OBVIOUS
  <2> HIDE DEF r
  <2> QED
    BY <1>5, <2>1, <2>2, <2>3 DEF GoodState, q
<1>6. IsAReturn(e) => OnlyInKernelMode(e)
  BY DEF IsAReturn, OnlyInKernelMode
<1> QED
  <2>1. CASE ~Ambiguous(st)
    BY <1>3, <2>1 DEF Resolve
  <2>2. CASE Ambiguous(st) /\ OnlyInKernelMode(e)
    BY <1>4, <2>2 DEF Resolve
  <2>3. CASE Ambiguous(st) /\ ~OnlyInKernelMode(e) /\ OnlyInUserMode(e)
    BY <1>5, <1>6, <2>3 DEF Resolve
  <2>4. CASE Ambiguous(st) /\ ~OnlyInKernelMode(e) /\ ~OnlyInUserMode(e)
    BY <1>3, <2>4 DEF Resolve
  <2> QED
    BY <2>1, <2>2, <2>3, <2>4

(* There is nothing to adjust for a call that nests inside what is on top  *)
(* or for a return at the level of what is on top.                         *)
LEMMA PushFits ==
    ASSUME NEW s, NEW x, ~(NestLevel(x) <= NestLevel(s[Len(s)]))
    PROVE  AdjustStackForPush(s, x) = s
  BY DEF AdjustStackForPush, PopWhile

LEMMA PopFits ==
    ASSUME NEW s, NEW x, Len(s) # 1, ~(NestLevel(x) < NestLevel(s[Len(s)]))
    PROVE  AdjustStackForPop(s, x) = s
  BY DEF AdjustStackForPop, PopWhile

LEMMA StackFacts ==
    ASSUME StackType, StacksNest, NEW c \in CPU
    PROVE  GoodState(cpu_stack[c])
  BY DEF StackType, StacksNest, GoodState

(* A step that gives one CPU another good stack keeps the invariant.       *)
LEMMA OneStack ==
    ASSUME StackType, StacksNest, NEW c \in CPU, NEW st, GoodState(st),
           cpu_stack' = [cpu_stack EXCEPT ![c] = st],
           UNCHANGED perpidstate
    PROVE  (StackType /\ StacksNest)'
<1>1. st \in PidStates /\ Nested(st.eventnum)
  BY DEF GoodState
<1>2. cpu_stack' \in [CPU -> PidStates]
  BY <1>1 DEF StackType
<1>3. \A d \in CPU : Nested(cpu_stack'[d].eventnum)
  <2> TAKE d \in CPU
  <2>1. cpu_stack'[d] = IF d = c THEN st ELSE cpu_stack[d]
    BY DEF StackType
  <2> QED
    BY <1>1, <2>1 DEF StacksNest
<1> QED
  BY <1>2, <1>3 DEF StackType, StacksNest

LEMMA ReturnStep ==
    ASSUME StackType, StacksNest, NEW e, IsAReturn(e), e.cpu \in CPU,
           1 < Len(cpu_stack[e.cpu].eventnum),
           ~(NestLevel(e.num) < NestLevel(TOS(cpu_stack[e.cpu]))),
           ProcessReturn(e)
    PROVE  (StackType /\ StacksNest)'
<1> DEFINE c == e.cpu
           st == Resolve(cpu_stack[c], e)
           s == AdjustStackForPop(st.eventnum, e.num)
           rest == SubSeq(s, 1, Len(s) - 1)
           new == [st EXCEPT !.eventnum = rest]
<1>1. GoodState(st) /\ st.eventnum = cpu_stack[c].eventnum
  BY StackFacts, ResolveFacts
<1>2. s = st.eventnum
  BY <1>1, PopFits DEF TOS
<1>3. Nested(s) /\ 1 < Len(s) /\ st \in PidStates
  BY <1>1, <1>2 DEF GoodState
<1>4. cpu_stack' = [cpu_stack EXCEPT ![c] = new] /\ UNCHANGED perpidstate
  BY DEF ProcessReturn, switchvars
<1> HIDE DEF s, st
<1>5. Nested(rest) /\ rest \in Seq(Pid \cup Call)
  BY <1>3, PopNested DEF Nested
<1> HIDE DEF rest
<1>6. new \in PidStates /\ new.eventnum = rest
  BY <1>3, <1>5, EditState
<1> HIDE DEF new
<1>7. GoodState(new)
  BY <1>5, <1>6 DEF GoodState
<1> QED
  BY <1>4, <1>7, OneStack

LEMMA CallStep ==
    ASSUME StackType, StacksNest, NEW e, e.cpu \in CPU, e.num \in Call,
           NestLevel(TOS(cpu_stack[e.cpu])) < NestLevel(e.num),
           ProcessCall(e)
    PROVE  (StackType /\ StacksNest)'
<1> DEFINE c == e.cpu
           st == Resolve(cpu_stack[c], e)
           s == AdjustStackForPush(st.eventnum, e.num)
           r == Append(s, e.num)
<1>1. GoodState(cpu_stack[c]) /\ GoodState(st)
      /\ st.eventnum \in {cpu_stack[c].eventnum, <<cpu_stack[c].eventnum[1]>>}
  BY StackFacts, ResolveFacts
<1>2. NestLevel(st.eventnum[Len(st.eventnum)]) < NestLevel(e.num)
  <2>1. CASE st.eventnum = cpu_stack[c].eventnum
    BY <2>1 DEF TOS
  <2>2. CASE st.eventnum = <<cpu_stack[c].eventnum[1]>>
    <3>1. st.eventnum[Len(st.eventnum)] \in Pid
      BY <1>1, <2>2, TopFacts DEF GoodState
    <3> QED
      BY <3>1, LevelFacts
  <2> QED
    BY <1>1, <2>1, <2>2
<1>3. ~(NestLevel(e.num) <= NestLevel(st.eventnum[Len(st.eventnum)]))
  BY <1>1, <1>2, TopFacts, LevelFacts DEF GoodState
<1>4. s = st.eventnum
  BY <1>3, PushFits
<1>5. Nested(s) /\ st \in PidStates /\ s \in Seq(Pid \cup Call)
  BY <1>1, <1>4 DEF GoodState, Nested
<1>6. Nested(r) /\ r \in Seq(Pid \cup Call)
  BY <1>2, <1>4, <1>5, PushNested DEF Nested
<1>7. /\ UNCHANGED perpidstate
      /\ \/ cpu_stack' = [cpu_stack EXCEPT ![c] = [st EXCEPT !.eventnum = s]]
         \/ cpu_stack' = [cpu_stack EXCEPT ![c] = [st EXCEPT !.eventnum = r]]
  BY DEF ProcessCall, switchvars
<1> HIDE DEF s, st, r
<1>8. GoodState([st EXCEPT !.eventnum = s]) /\ GoodState([st EXCEPT !.eventnum = r])
  BY <1>5, <1>6, EditState DEF GoodState
<1> QED
  BY <1>7, <1>8, OneStack

(* Events that only resolve an ambiguity, or note an RPC.                  *)
LEMMA ResolveStep ==
    ASSUME StackType, StacksNest, NEW e, e.cpu \in CPU,
           ProcessCexit(e) \/ ProcessPoint(e)
    PROVE  (StackType /\ StacksNest)'
<1>1. GoodState(Resolve(cpu_stack[e.cpu], e))
  BY StackFacts, ResolveFacts
<1>2. cpu_stack' = [cpu_stack EXCEPT ![e.cpu] = Resolve(cpu_stack[e.cpu], e)]
      /\ UNCHANGED perpidstate
  BY DEF ProcessCexit, ProcessPoint, switchvars
<1> QED
  BY <1>1, <1>2, OneStack

LEMMA SplitStep ==
    ASSUME StackType, StacksNest, NEW e, e.cpu \in CPU, e.arg \in Args,
           ProcessSplit(e)
    PROVE  (StackType /\ StacksNest)'
<1> DEFINE st == Resolve(cpu_stack[e.cpu], e)
           rpc == [st EXCEPT !.rpcid = e.arg]
<1>1. GoodState(st)
  BY StackFacts, ResolveFacts
<1>2. \/ cpu_stack' = [cpu_stack EXCEPT ![e.cpu] = st]
      \/ cpu_stack' = [cpu_stack EXCEPT ![e.cpu] = rpc]
  BY DEF ProcessSplit
<1>3. UNCHANGED perpidstate
  BY DEF ProcessSplit, switchvars
<1> HIDE DEF st
<1>4. rpc \in PidStates /\ rpc.eventnum = st.eventnum
  BY <1>1 DEF GoodState, PidStates
<1>5. GoodState(rpc)
  BY <1>1, <1>4 DEF GoodState
<1> QED
  BY <1>1, <1>2, <1>3, <1>5, OneStack

(* A context switch: the stack that comes in is that of a new process, the *)
(* one put away before, or the same.                                       *)
LEMMA SwitchStep ==
    ASSUME StackType, StacksNest, NEW e, e.cpu \in CPU, e.pid \in Pid,
           ProcessContextSwitch(e)
    PROVE  (StackType /\ StacksNest)'
<1> DEFINE c == e.cpu
           old == MarkAmbiguous(cpu_stack[c])
           p == old.eventnum[1]
           new == SwapStacks(old, e.pid)
           saved == [q \in Pid |->
              IF p = e.pid THEN perpidstate[q]
              ELSE IF q = p /\ p # Idle THEN old
              ELSE IF q = e.pid /\ perpidstate[q] = NoState THEN BrandNewPid(q)
              ELSE perpidstate[q]]
<1>1. GoodState(cpu_stack[c])
  BY StackFacts
<1>2. GoodState(old)
  <2>1. Top(cpu_stack[c]) \in Int
    BY <1>1, TopFacts DEF GoodState, Top
  <2>2. old \in PidStates /\ old.eventnum = cpu_stack[c].eventnum
    BY <1>1, <2>1 DEF GoodState, PidStates, MarkAmbiguous
  <2> QED
    BY <1>1, <2>2 DEF GoodState
<1>3. \A q \in Pid : GoodState(BrandNewPid(q))
  <2> TAKE q \in Pid
  <2> DEFINE s == <<q, Sched>>
  <2>1. Nested(s) /\ s \in Seq(Pid \cup Call)
    BY NewPidNested DEF Nested
  <2> HIDE DEF s
  <2>2. 0 \in Args /\ 0 \in Int
    BY DEF Args
  <2>3. [eventnum |-> s, ambiguous |-> 0, rpcid |-> 0] \in PidStates
    BY <2>1, <2>2 DEF PidStates
  <2> QED
    BY <2>1, <2>3 DEF GoodState, BrandNewPid, s
<1>4. \A q \in Pid : perpidstate[q] = NoState \/ GoodState(perpidstate[q])
  BY DEF StackType, StacksNest, GoodState
<1>5. GoodState(new)
  BY <1>2, <1>3, <1>4 DEF SwapStacks
<1>6. cpu_stack' = [cpu_stack EXCEPT ![c] = new] /\ perpidstate' = saved
  BY DEF ProcessContextSwitch
<1> HIDE DEF new, old
<1>7. cpu_stack' \in [CPU -> PidStates] /\ \A d \in CPU : GoodState(cpu_stack'[d])
  BY <1>5, <1>6, StackFacts DEF StackType, GoodState
<1>8. \A q \in Pid : saved[q] \in PidStates /\ (saved[q] = NoState \/ GoodState(saved[q]))
  BY <1>2, <1>3, <1>4 DEF StackType, GoodState
<1> QED
  BY <1>6, <1>7, <1>8 DEF StackType, StacksNest, GoodState

LEMMA InsertedReturn ==
    ASSUME NEW ts, event \in Lines
    PROVE  /\ IsAReturn(ReturnAt(ts)) /\ ReturnAt(ts).cpu = event.cpu
           /\ ReturnAt(ts).num = TOS(Stack)
  BY DEF ReturnAt, Lines, IsAReturn

LEMMA InsertedWakeup ==
    ASSUME event \in Lines
    PROVE  RunnableAfter(event) \in Lines /\ RunnableAfter(event).kind = "wakeup"
  BY DEF Lines, Points, RunnableAfter

(* What the steps rely on about the event and its stack.                   *)
LEMMA Converting ==
    ASSUME IInv, ~Reading
    PROVE  /\ event \in Lines /\ event.cpu \in CPU /\ event.pid \in Pid
           /\ event.arg \in Args
           /\ event.kind \in {"call", "ret"} => event.num \in Call
           /\ GoodState(Stack)
           /\ Len(Stack.eventnum) \in 1 .. 5 /\ NestLevel(TOS(Stack)) \in 0 .. 4
           /\ TOS(Stack) \in Call <=> 1 < Len(Stack.eventnum)
           /\ 0 < NestLevel(TOS(Stack)) <=> 1 < Len(Stack.eventnum)
<1>1. event \in Lines /\ event.cpu \in CPU /\ event.pid \in Pid /\ event.arg \in Args
  BY DEF IInv, EventType, Reading, Lines
<1>2. event.kind \in {"call", "ret"} => event.num \in Call
  BY DEF IInv, EventType, Reading
<1>3. GoodState(Stack)
  BY <1>1, StackFacts DEF IInv, Stack
<1> QED
  BY <1>1, <1>2, <1>3, TopFacts DEF GoodState, TOS

(* A return that PreProcessEvent inserts pops what is on top.              *)
LEMMA InsertedReturnStep ==
    ASSUME IInv, ~Reading, NEW ts, 1 < Len(Stack.eventnum), ProcessReturn(ReturnAt(ts))
    PROVE  (StackType /\ StacksNest)'
<1> DEFINE e == ReturnAt(ts)
<1>1. IsAReturn(e) /\ e.cpu = event.cpu /\ e.num = TOS(Stack) /\ event.cpu \in CPU
  BY Converting, InsertedReturn
<1>2. cpu_stack[e.cpu] = Stack
  BY <1>1 DEF Stack
<1>3. ~(NestLevel(e.num) < NestLevel(TOS(Stack)))
  BY <1>1, Converting
<1>4. StackType /\ StacksNest
  BY DEF IInv
<1> HIDE DEF e
<1>5. ProcessReturn(e)
  BY DEF e
<1> QED
  BY <1>1, <1>2, <1>3, <1>4, <1>5, ReturnStep

LEMMA SameEvent ==
    ASSUME EventType, UNCHANGED event
    PROVE  EventType'
  BY DEF EventType

LEMMA InitHolds ==
    ASSUME Init
    PROVE  IInv
<1>1. Nested(<<Idle>>) /\ <<Idle>> \in Seq(Pid \cup Call)
  BY CallAssumption, BottomNested
<1>2. Nested(<<Idle, Sched>>) /\ <<Idle, Sched>> \in Seq(Pid \cup Call)
  BY CallAssumption, NewPidNested DEF Nested
<1>3. 0 \in Args /\ 0 \in Int /\ <<>> \in Seq(Pid \cup Call)
  BY DEF Args
<1>4. IdleStack \in PidStates /\ IdleStack.eventnum = <<Idle>>
  BY <1>1, <1>3 DEF IdleStack, PidStates
<1>5. BrandNewPid(Idle) \in PidStates /\ BrandNewPid(Idle).eventnum = <<Idle, Sched>>
  BY <1>2, <1>3 DEF BrandNewPid, PidStates
<1>6. NoState \in PidStates
  BY <1>3 DEF NoState, PidStates
<1>7. cpu_stack = [c \in CPU |-> IdleStack] /\ event = NoEvent
      /\ perpidstate = [p \in Pid |-> IF p = Idle THEN BrandNewPid(Idle) ELSE NoState]
  BY DEF Init
<1>8. StackType
  BY <1>4, <1>5, <1>6, <1>7 DEF StackType
<1>9. StacksNest
  BY <1>1, <1>2, <1>4, <1>5, <1>7 DEF StacksNest
<1> QED
  BY <1>7, <1>8, <1>9 DEF IInv, EventType

LEMMA NextHolds ==
    ASSUME IInv, [ConvNext]_vars
    PROVE  IInv'
<1> USE DEF IInv
<1>1. CASE UNCHANGED vars
  BY <1>1 DEF vars, convvars, cpuvars, switchvars, EventType, StackType, StacksNest
<1>2. ASSUME NEW e \in Event, Read(e) PROVE IInv'
  <2>1. event' = e /\ UNCHANGED <<cpu_stack, perpidstate>>
    BY <1>2 DEF Read, convvars, cpuvars, switchvars
  <2>2. e \in Lines /\ (e.kind \in {"call", "ret"} => e.num \in Call)
    <3>1. CASE e \in [kind : {"call", "ret"}, num : Call, arg : Pid, cpu : CPU,
                      pid : Pid, ts : Nat, dur : Nat]
      BY <3>1 DEF Lines, Args
    <3>2. CASE e \in [kind : {"ctx"} \cup Points, num : Pid,
                      arg : Pid \cup CPU \cup Rpcs \cup Nat,
                      cpu : CPU, pid : Pid, ts : Nat, dur : Nat]
      BY <3>2 DEF Lines, Args, Points
    <3> QED
      BY <3>1, <3>2 DEF Event
  <2> QED
    BY <2>1, <2>2 DEF EventType, StackType, StacksNest
<1>3. CASE FixupReturnPop
  <2>1. ~Reading /\ UNCHANGED event
    BY <1>3 DEF FixupReturnPop
  <2>2. 1 < Len(Stack.eventnum)
    <3>1. CASE CallFound(event)
      BY <3>1, <2>1, Converting DEF CallFound
    <3>2. CASE NestLevel(event.num) <= NestLevel(TOS(Stack))
      <4>1. event.num \in Call
        BY <1>3, <2>1, Converting DEF FixupReturnPop, IsAReturn
      <4>2. NestLevel(event.num) \in 1 .. 4
        BY <4>1, LevelFacts
      <4> QED
        BY <2>1, <3>2, <4>2, Converting
    <3> QED
      BY <1>3, <3>1, <3>2 DEF FixupReturnPop
  <2>3. PICK ts : ProcessReturn(ReturnAt(ts))
    BY <1>3 DEF FixupReturnPop
  <2> QED
    BY <2>1, <2>2, <2>3, InsertedReturnStep, SameEvent
<1>4. CASE FixupReturnCall
  <2> DEFINE e == [event EXCEPT !.kind = "call", !.arg = Idle,
                                !.ts = span_start_time, !.dur = 0]
  <2>1. ~Reading /\ UNCHANGED event /\ IsAReturn(event) /\ ProcessCall(e)
        /\ NestLevel(TOS(Stack)) < NestLevel(event.num)
    BY <1>4 DEF FixupReturnCall
  <2>2. event \in Lines /\ event.cpu \in CPU /\ event.num \in Call
    BY <2>1, Converting DEF IsAReturn
  <2>3. e.cpu = event.cpu /\ e.num = event.num
    BY <2>2 DEF Lines
  <2> HIDE DEF e
  <2>4. NestLevel(TOS(cpu_stack[e.cpu])) < NestLevel(e.num)
    BY <2>1, <2>3 DEF Stack
  <2> QED
    BY <2>1, <2>2, <2>3, <2>4, CallStep, SameEvent
<1>5. CASE FixupResched
  <2> DEFINE c == event.cpu
             s == Stack.eventnum
             r == SubSeq(s, 1, Len(s) - 1)
             new == [Stack EXCEPT !.eventnum = r]
  <2>1. ~Reading /\ UNCHANGED <<event, perpidstate>> /\ TOS(Stack) = Resched
    BY <1>5 DEF FixupResched, NeedsResched, switchvars
  <2>2. c \in CPU /\ GoodState(Stack) /\ 1 < Len(s)
    BY <2>1, Converting, LevelFacts
  <2>3. cpu_stack' = [cpu_stack EXCEPT ![c] = new]
    BY <1>5, <2>2 DEF FixupResched, StackType, Stack
  <2>4. Nested(r) /\ r \in Seq(Pid \cup Call) /\ Stack \in PidStates
    BY <2>2, PopNested DEF GoodState, Nested
  <2> HIDE DEF r
  <2>5. new \in PidStates /\ new.eventnum = r
    BY <2>4, EditState
  <2> HIDE DEF new
  <2>6. GoodState(new)
    BY <2>4, <2>5 DEF GoodState
  <2> QED
    BY <2>1, <2>2, <2>3, <2>6, OneStack, SameEvent
<1>6. CASE FixupSched
  <2>1. ~Reading /\ UNCHANGED event /\ TOS(Stack) = Sched
        /\ ProcessReturn(ReturnAt(ctx_switch_ts[event.cpu]))
    BY <1>6 DEF FixupSched, NeedsSched
  <2>2. 1 < Len(Stack.eventnum)
    BY <2>1, Converting, LevelFacts
  <2> QED
    BY <2>1, <2>2, InsertedReturnStep, SameEvent
<1>7. CASE FixupCall
  <2>1. ~Reading /\ UNCHANGED event /\ event.kind = "call"
        /\ NestLevel(event.num) <= NestLevel(TOS(Stack))
        /\ ProcessReturn(ReturnAt(event.ts))
    BY <1>7 DEF FixupCall, NeedsPop, IsACall
  <2>2. NestLevel(event.num) \in 1 .. 4
    BY <2>1, Converting, LevelFacts
  <2>3. 1 < Len(Stack.eventnum)
    BY <2>1, <2>2, Converting
  <2> QED
    BY <2>1, <2>3, InsertedReturnStep, SameEvent
<1>8. CASE FixupCexit
  <2>1. ~Reading /\ UNCHANGED event
    BY <1>8 DEF FixupCexit, Settled
  <2>2. event \in Lines /\ event.cpu \in CPU
    BY <2>1, Converting
  <2>3. CASE UNCHANGED <<cpuvars, switchvars>>
    BY <2>1, <2>3, SameEvent DEF cpuvars, switchvars, StackType, StacksNest
  <2>4. CASE \E ts, dur : ProcessCexit([event EXCEPT !.kind = "cexit",
                                            !.ts = ts, !.dur = dur])
    <3>1. PICK ts, dur : ProcessCexit([event EXCEPT !.kind = "cexit",
                                            !.ts = ts, !.dur = dur])
      BY <2>4, Zenon
    <3> DEFINE e == [event EXCEPT !.kind = "cexit", !.ts = ts, !.dur = dur]
    <3>2. e.cpu = event.cpu
      BY <2>2 DEF Lines
    <3> HIDE DEF e
    <3>3. ProcessCexit(e)
      BY <3>1 DEF e
    <3> QED
      BY <2>1, <2>2, <3>2, <3>3, ResolveStep, SameEvent
  <2>5. \/ UNCHANGED <<cpuvars, switchvars>>
        \/ \E ts, dur : ProcessCexit([event EXCEPT !.kind = "cexit", !.ts = ts, !.dur = dur])
    <3>1. \/ UNCHANGED <<cpuvars, switchvars, pendingvars, ctx_switch_ts,
                         pidRunning, priorPidEvent, priorPidEnd, outvars>>
          \/ \E ts, dur : ProcessCexit([event EXCEPT !.kind = "cexit", !.ts = ts, !.dur = dur])
      BY <1>8, Zenon DEF FixupCexit
    <3> QED
      BY <3>1, Zenon
  <2> QED
    BY <2>3, <2>4, <2>5, Zenon
<1>9. CASE ProcessEvent
  <2>1. ~Reading /\ Settled
    BY <1>9 DEF ProcessEvent, Settled
  <2>2. event \in Lines /\ event.cpu \in CPU /\ event.pid \in Pid /\ event.arg \in Args
    BY <2>1, Converting
  <2>3. EventType'
    <3>1. event' \in {NoEvent, RunnableAfter(event)}
      BY <1>9 DEF ProcessEvent
    <3> QED
      BY <2>2, <3>1, InsertedWakeup DEF EventType
  <2>4. CASE event.kind = "call" /\ ProcessCall(event)
    <3>1. event.num \in Call
      BY <2>1, <2>4, Converting
    <3>2. NestLevel(TOS(Stack)) < NestLevel(event.num)
      BY <2>1, <2>4, <3>1, Converting, LevelFacts DEF Settled, NeedsPop, IsACall
    <3> QED
      BY <2>2, <2>3, <2>4, <3>1, <3>2, CallStep DEF Stack
  <2>5. CASE event.kind = "ret" /\ ProcessReturn(event)
    <3>1. Matches(event) /\ event.num \in Call
      BY <2>1, <2>5, Converting DEF Settled, IsAReturn
    <3>2. 1 < Len(Stack.eventnum) /\ ~(NestLevel(event.num) < NestLevel(TOS(Stack)))
      BY <2>1, <3>1, Converting, LevelFacts DEF Matches
    <3> QED
      BY <2>2, <2>3, <2>5, <3>2, ReturnStep DEF Stack, IsAReturn
  <2>6. CASE ProcessContextSwitch(event)
    BY <2>2, <2>3, <2>6, SwitchStep
  <2>7. CASE ProcessSplit(event)
    BY <2>2, <2>3, <2>7, SplitStep
  <2>8. CASE ProcessPoint(event)
    BY <2>2, <2>3, <2>8, ResolveStep
  <2> QED
    BY <1>9, <2>4, <2>5, <2>6, <2>7, <2>8 DEF ProcessEvent
<1> QED
  BY <1>1, <1>2, <1>3, <1>4, <1>5, <1>6, <1>7, <1>8, <1>9 DEF ConvNext, Convert

(***************************************************************************)
(* The theorems                                                            *)
(***************************************************************************)

(* Whatever the events are, calls without returns, returns without calls,  *)
(* switches and interrupts in any order, the calls on every stack of the   *)
(* converter nest, and no stack outgrows int eventnum[5].                  *)
THEOREM StacksNestHolds == ConvSpec => []StacksNest
<1>1. IInv => StacksNest
  BY DEF IInv
<1> QED
  BY <1>1, InitHolds, NextHolds, PTL DEF ConvSpec

(* Whatever the events are, what PreProcessEvent inserts leaves nothing    *)
(* for AdjustStackForPush and AdjustStackForPop to do: "preproc failed" is *)
(* never the case.                                                         *)
THEOREM PreprocSufficesHolds == ConvSpec => []PreprocSuffices
<1>1. IInv => PreprocSuffices
  <2> SUFFICES ASSUME IInv, Settled PROVE PreprocSuffices
    BY DEF PreprocSuffices
  <2> DEFINE st == Resolve(Stack, event)
             s == st.eventnum
  <2>1. ~Reading
    BY DEF Settled
  <2>2. GoodState(st) /\ s \in {Stack.eventnum, <<Stack.eventnum[1]>>}
        /\ (IsAReturn(event) => s = Stack.eventnum)
    BY <2>1, Converting, ResolveFacts
  <2>3. ASSUME IsACall(event) PROVE AdjustStackForPush(s, event.num) = s
    <3>1. event.num \in Call /\ ~(NestLevel(event.num) <= NestLevel(TOS(Stack)))
      BY <2>1, <2>3, Converting DEF Settled, NeedsPop, IsACall
    <3>2. CASE s = Stack.eventnum
      BY <3>1, <3>2, PushFits DEF TOS
    <3>3. CASE s = <<Stack.eventnum[1]>>
      <4>1. s[Len(s)] \in Pid
        BY <2>1, <3>3, Converting, TopFacts DEF GoodState
      <4>2. ~(NestLevel(event.num) <= NestLevel(s[Len(s)]))
        BY <3>1, <4>1, LevelFacts
      <4> QED
        BY <4>2, PushFits
    <3> QED
      BY <2>2, <3>2, <3>3
  <2>4. ASSUME IsAReturn(event)
        PROVE  1 < Len(s) /\ AdjustStackForPop(s, event.num) = s
    <3>1. Matches(event) /\ event.num \in Call /\ s = Stack.eventnum
      BY <2>1, <2>2, <2>4, Converting DEF Settled, IsAReturn
    <3>2. 1 < Len(s) /\ ~(NestLevel(event.num) < NestLevel(s[Len(s)]))
      BY <2>1, <3>1, Converting, LevelFacts DEF Matches, TOS
    <3>3. Len(s) # 1
      BY <2>1, <3>1, <3>2, Converting
    <3> QED
      BY <3>2, <3>3, PopFits
  <2> QED
    BY <2>3, <2>4 DEF PreprocSuffices
<1> QED
  BY <1>1, InitHolds, NextHolds, PTL DEF ConvSpec

(***************************************************************************)
(* The traced kernel and the converter: the invariant                      *)
(***************************************************************************)

Owner(c) == cpu_stack[c].eventnum[1]
Announced(c) == heard[c] \in {"header", "call"}
Converts(c, K) == ~Reading /\ event.cpu = c /\ event.kind \in K

KType ==
    /\ mix \in Mixes /\ now \in Nat
    /\ on \in [CPU -> Pid]
    /\ thread \in [Task -> Seq(Call)]
    /\ heard \in [CPU -> {"nothing", "first", "header", "call"}]
    /\ fresh \subseteq Proc
    /\ working \in [Proc -> Rpcs]

OneCPU == \A c, d \in CPU : on[c] = on[d] /\ on[c] # Idle => c = d

(* The event has the time of the kernel, or comes with its end.            *)
EventTrue == ~Reading =>
    /\ event.kind # "wakeup" => event.ts = now
    /\ event.ts \in {now, now + 1} /\ event.dur \in {0, 1}
    /\ event.kind \in {"mwait"} => event.arg \in Nat
    /\ ran.cpu = event.cpu

(* What a CPU runs, apart from a switch that is not converted yet.         *)
OwnersTrue ==
    /\ \A c \in CPU : ~Announced(c) =>
          /\ Owner(c) = Idle
          /\ on[c] # Idle => /\ perpidstate[on[c]] = NoState
                             /\ \A d \in CPU : Owner(d) # on[c]
    /\ \A c \in CPU : Announced(c) /\ ~Converts(c, {"ctx"}) => Owner(c) = on[c]
    /\ \A c \in CPU : Converts(c, {"ctx"}) =>
          /\ Announced(c) /\ event.pid = on[c]
          /\ \A d \in CPU : Owner(d) = on[c] => on[c] = Idle
    /\ \A c, d \in CPU : Owner(c) = Owner(d) /\ Owner(c) # Idle => c = d

(* Where the RPC of every process is.                                      *)
RpcsTrue ==
    /\ \A c \in CPU : Owner(c) # Idle /\ ~Converts(c, {"rpc"})
          => cpu_stack[c].rpcid = working[Owner(c)]
    /\ \A c \in CPU : Converts(c, {"rpc"}) => on[c] # Idle /\ event.arg = working[on[c]]
    /\ \A p \in Pid : perpidstate[p] = NoState \/ perpidstate[p].eventnum[1] = p
    /\ \A p \in Proc :
          (\A c \in CPU : Owner(c) # p /\ (on[c] = p => Announced(c)))
              => perpidstate[p].rpcid = working[p]

RInv == KType /\ OneCPU /\ EventTrue /\ OwnersTrue /\ RpcsTrue

(* No interrupt comes inside the scheduler, and no process makes a mark    *)
(* before the first call that the trace has of it.                         *)
Calm == ~mix.intr /\ ~mix.early

(* Threads: the scheduler is the innermost call, unless it is interrupted, *)
(* and what is not running sleeps inside it or is new.                     *)
Asleep(s) == s # <<>> /\ s[Len(s)] = Sched
Innermost(s) == \A i \in 1 .. Len(s) : s[i] = Sched => i = Len(s)

ThreadsTrue ==
    /\ ~mix.intr => \A t \in Task : Innermost(thread[t])
    /\ \A p \in fresh : thread[p] = <<>>
    /\ \A p \in Proc \ fresh : (\A c \in CPU : on[c] # p) => Asleep(thread[p])
    /\ \A c \in CPU : on[c] # Idle => Asleep(thread[c])

(* The converter and the kernel agree on who is inside the scheduler, but  *)
(* for a process that the trace has no call of yet; after an interrupt     *)
(* inside the scheduler the converter takes it to be left.                 *)
SchedAt(c) ==
    /\ ~mix.intr /\ TopCall(c) = Sched /\ (Announced(c) \/ on[c] = Idle)
          => TOS(cpu_stack[c]) = Sched
    /\ TOS(cpu_stack[c]) = Sched
          => \/ TopCall(c) = Sched
             \/ on[c] # Idle /\ heard[c] = "header"
             \/ on[c] \in fresh

(* What is known of the scheduler while an event is converted.             *)
SchedAfter(c) ==
    /\ event.kind = "call" =>
          /\ event.dur = 0 => TopCall(c) = event.num
          /\ event.dur # 0 => event.num # Sched /\ (~mix.intr => TopCall(c) # Sched)
    /\ event.kind = "ret" /\ ~mix.intr => TopCall(c) # Sched
    /\ event.kind = "ctx" =>
          /\ ~mix.intr /\ Owner(c) # Idle => TOS(cpu_stack[c]) = Sched
          /\ on[c] # Idle => TopCall(c) = Sched \/ heard[c] = "header" \/ on[c] \in fresh
          /\ Owner(c) # on[c] /\ on[c] = Idle => TopCall(c) = Sched
          /\ Owner(c) = on[c] =>
                /\ ~ran.open
                /\ TOS(cpu_stack[c]) = Sched => TopCall(c) = Sched
                /\ ~mix.intr /\ TopCall(c) = Sched => TOS(cpu_stack[c]) = Sched
    /\ event.kind \in {"rpc", "mark", "mwait", "mwait_exit"} =>
          TopCall(c) # Sched /\ (~mix.early => TOS(cpu_stack[c]) # Sched)

SchedTrue ==
    /\ ~mix.intr => \A p \in Pid : perpidstate[p] = NoState \/ TOS(perpidstate[p]) = Sched
    /\ \A c \in CPU : ~Converts(c, {"call", "ret", "ctx"}) => SchedAt(c)
    /\ \A c \in CPU : ~Reading /\ event.cpu = c => SchedAfter(c)

SInv == ThreadsTrue /\ SchedTrue

OpenSpan == [start : Nat, eventnum : Pid \cup Call, pid : Pid]
Shown == [start : Nat, stop : Nat, eventnum : Pid \cup Call \cup Points \cup {"cexit"}]

TimeType ==
    /\ span_start_time \in Nat
    /\ cur_span \in [CPU -> OpenSpan]
    /\ valid_span \in [CPU -> BOOLEAN]
    /\ ctx_switch_ts \in [CPU -> Nat]
    /\ mwait_pending \in [CPU -> Int]
    /\ shown \in Seq(Shown)

(* No span starts in the future; one inside the scheduler started before   *)
(* the scheduler switched.                                                 *)
StartsTrue == \A c \in CPU :
    /\ cur_span[c].start <= now + 1 /\ ctx_switch_ts[c] <= now
    /\ 0 < ctx_switch_ts[c] /\ TOS(cpu_stack[c]) = Sched
          => cur_span[c].start <= ctx_switch_ts[c]

(* What is inserted for an event falls into the span that is open.         *)
EventTimes == ~Reading =>
    /\ cur_span[event.cpu].start <= event.ts
    /\ span_start_time <= event.ts
    /\ ~valid_span[event.cpu] => shown = <<>>
    /\ event.kind = "ret" /\ valid_span[event.cpu] /\ ~CallFound(event)
          => cur_span[event.cpu].start <= span_start_time
    /\ event.kind = "ctx" /\ shown # <<>> => cur_span[event.cpu].start = event.ts
    /\ ran.open => valid_span[event.cpu]

TInv == TimeType /\ StartsTrue /\ EventTimes /\ Tiled

(***************************************************************************)
(* What a step of the kernel hands to the converter                        *)
(***************************************************************************)

LEMMA MixFacts ==
    ASSUME KType
    PROVE  /\ mix.cpus \subseteq CPU /\ mix.procs \subseteq Proc
           /\ mix.calls \subseteq Call /\ mix.kinds \subseteq Points
           /\ mix.intr \in BOOLEAN /\ mix.early \in BOOLEAN
  BY MixAssumption DEF KType

LEMMA TaskFacts ==
    ASSUME KType, NEW c \in CPU
    PROVE  /\ TaskOn(c) \in Task /\ thread[TaskOn(c)] \in Seq(Call)
           /\ on[c] \in Pid /\ (on[c] # Idle => on[c] \in Proc /\ TaskOn(c) = on[c])
           /\ on[c] = Idle => TaskOn(c) = c
           /\ c \notin Proc /\ c \in Task
  BY TaskAssumption DEF KType, TaskOn, Task, Proc

LEMMA EmitFacts ==
    ASSUME NEW c, NEW kind, NEW num, NEW arg, NEW p, NEW dur, kind # "none",
           Emit(c, kind, num, arg, p, dur)
    PROVE  /\ Reading /\ ~Reading' /\ now' = now + 2 /\ mix' = mix
           /\ event' = [kind |-> kind, num |-> num, arg |-> arg, cpu |-> c, pid |-> p,
                        ts |-> now + 2, dur |-> dur]
           /\ event'.kind = kind /\ event'.num = num /\ event'.arg = arg
           /\ event'.cpu = c /\ event'.pid = p /\ event'.ts = now + 2 /\ event'.dur = dur
           /\ ran'.cpu = c
           /\ ran'.open <=> valid_span[c] /\ Announced(c)
           /\ UNCHANGED convvars /\ shown' = <<>>
           /\ span_start_time' = IF valid_span[c] THEN cur_span[c].start ELSE now + 2
           /\ Read(event')
<1> DEFINE e == [kind |-> kind, num |-> num, arg |-> arg, cpu |-> c, pid |-> p,
                 ts |-> now', dur |-> dur]
<1>1. Read(e) /\ now' = now + 2 /\ mix' = mix
  BY DEF Emit
<1>2. event' = e
  BY <1>1 DEF Read
<1>3. e.kind = kind /\ e.num = num /\ e.arg = arg /\ e.cpu = c /\ e.pid = p
      /\ e.ts = now + 2 /\ e.dur = dur
  BY <1>1
<1>4. ~Reading'
  BY <1>2, <1>3 DEF Reading, NoEvent
<1>5. ran' = [what |-> TopCall(c), sure |-> Sure(c, kind), cpu |-> c, at |-> now',
              open |-> valid_span[c] /\ heard[c] \in {"header", "call"}]
  BY DEF Emit
<1>6. ran'.cpu = c /\ (ran'.open <=> valid_span[c] /\ Announced(c))
  BY <1>5 DEF Announced
<1>7. e = [kind |-> kind, num |-> num, arg |-> arg, cpu |-> c, pid |-> p,
           ts |-> now + 2, dur |-> dur]
  BY <1>1
<1> HIDE DEF e
<1>8. Reading /\ UNCHANGED convvars /\ shown' = <<>>
      /\ span_start_time' = IF valid_span[c] THEN cur_span[c].start ELSE now + 2
  BY <1>1, <1>3 DEF Read
<1> QED
  BY <1>1, <1>2, <1>3, <1>4, <1>6, <1>7, <1>8

(* An entry of a call or a return, and one of a point in time.             *)
CallEvent(c, e) ==
    /\ e \in Event /\ e.kind \in {"call", "ret"} /\ e.cpu = c /\ e.pid = on[c]

PointEvent(c, e) ==
    /\ e \in Event /\ e.kind \in Points /\ e.cpu = c /\ e.pid = on[c]

LEMMA CallEvents ==
    ASSUME KType, NEW c \in CPU, NEW kind \in {"call", "ret"}, NEW x \in Call, NEW q \in Pid,
           NEW dur \in {0, 1}, Entry(c, kind, x, q, on[c], dur)
    PROVE  /\ CallEvent(c, event') /\ event'.kind = kind /\ event'.num = x
           /\ event'.ts = now + 2 /\ event'.dur = dur
           /\ heard[c] # "first"
           /\ heard' = [heard EXCEPT ![c] = IF heard[c] = "nothing" THEN "first" ELSE "call"]
           /\ heard' \in [CPU -> {"nothing", "first", "header", "call"}]
<1>1. Emit(c, kind, x, q, on[c], dur) /\ kind # "none" /\ heard[c] # "first"
      /\ heard' = [heard EXCEPT ![c] = IF heard[c] = "nothing" THEN "first" ELSE "call"]
  BY DEF Entry
<1>2. event' = [kind |-> kind, num |-> x, arg |-> q, cpu |-> c, pid |-> on[c],
                ts |-> now + 2, dur |-> dur]
  BY <1>1, EmitFacts
<1>3. now + 2 \in Nat /\ on[c] \in Pid
  BY DEF KType
<1>4. event' \in Event
  BY <1>2, <1>3 DEF Event
<1>5. heard' \in [CPU -> {"nothing", "first", "header", "call"}]
  BY <1>1 DEF KType
<1> QED
  BY <1>1, <1>2, <1>4, <1>5 DEF CallEvent

LEMMA PointEvents ==
    ASSUME KType, NEW c \in CPU, NEW kind \in Points, NEW arg \in Args,
           Entry(c, kind, Idle, arg, on[c], 1)
    PROVE  /\ PointEvent(c, event') /\ event'.kind = kind /\ event'.arg = arg
           /\ event'.ts = now + 2 /\ event'.dur = 1
           /\ heard[c] # "first"
           /\ heard' = [heard EXCEPT ![c] = IF heard[c] = "nothing" THEN "first" ELSE heard[c]]
           /\ heard' \in [CPU -> {"nothing", "first", "header", "call"}]
<1>1. Emit(c, kind, Idle, arg, on[c], 1) /\ kind # "none" /\ heard[c] # "first"
      /\ heard' = [heard EXCEPT ![c] = IF heard[c] = "nothing" THEN "first" ELSE heard[c]]
  BY DEF Entry, Points
<1>2. event' = [kind |-> kind, num |-> Idle, arg |-> arg, cpu |-> c, pid |-> on[c],
                ts |-> now + 2, dur |-> 1]
  BY <1>1, EmitFacts
<1>3. now + 2 \in Nat /\ on[c] \in Pid /\ Idle \in Pid
  BY CallAssumption DEF KType
<1>4. event' \in Event
  BY <1>2, <1>3 DEF Event, Args
<1>5. heard' \in [CPU -> {"nothing", "first", "header", "call"}]
  BY <1>1 DEF KType
<1> QED
  BY <1>1, <1>2, <1>4, <1>5 DEF PointEvent

LEMMA FrontFacts ==
    ASSUME NEW S, NEW s \in Seq(S), s # <<>>
    PROVE  /\ Front(s) \in Seq(S) /\ Len(s) \in Nat \ {0} /\ Len(Front(s)) = Len(s) - 1
           /\ \A i \in 1 .. Len(s) - 1 : Front(s)[i] = s[i]
           /\ \A n \in 0 .. Len(s) - 1 :
                 /\ SubSeq(Front(s), 1, n) \in Seq(S) /\ Len(SubSeq(Front(s), 1, n)) = n
                 /\ \A i \in 1 .. n : SubSeq(Front(s), 1, n)[i] = s[i]
<1>1. Len(s) \in Nat \ {0}
  BY EmptySeq
<1>2. \A r \in Seq(S) : \A n \in 0 .. Len(r) :
         /\ SubSeq(r, 1, n) \in Seq(S) /\ Len(SubSeq(r, 1, n)) = n
         /\ \A i \in 1 .. n : SubSeq(r, 1, n)[i] = r[i]
  BY SubSeqProperties
<1>3. Len(s) - 1 \in 0 .. Len(s)
  BY <1>1
<1>4. /\ Front(s) \in Seq(S) /\ Len(Front(s)) = Len(s) - 1
      /\ \A i \in 1 .. Len(s) - 1 : Front(s)[i] = s[i]
  BY <1>2, <1>3 DEF Front
<1>5. ASSUME NEW n \in 0 .. Len(s) - 1
      PROVE  /\ SubSeq(Front(s), 1, n) \in Seq(S) /\ Len(SubSeq(Front(s), 1, n)) = n
             /\ \A i \in 1 .. n : SubSeq(Front(s), 1, n)[i] = s[i]
  <2>1. /\ SubSeq(Front(s), 1, n) \in Seq(S) /\ Len(SubSeq(Front(s), 1, n)) = n
        /\ \A i \in 1 .. n : SubSeq(Front(s), 1, n)[i] = Front(s)[i]
    BY <1>2, <1>4
  <2>2. \A i \in 1 .. n : i \in 1 .. Len(s) - 1
    BY <1>1
  <2> QED
    BY <1>4, <2>1, <2>2
<1> QED
  BY <1>1, <1>4, <1>5

(* What all steps of the kernel have in common.                            *)
Hands(c) ==
    /\ Reading /\ ~Reading' /\ now' = now + 2 /\ mix' = mix
    /\ ran'.cpu = c /\ (ran'.open <=> valid_span[c] /\ Announced(c))
    /\ UNCHANGED convvars /\ shown' = <<>>
    /\ span_start_time' = IF valid_span[c] THEN cur_span[c].start ELSE now + 2
    /\ event'.cpu = c /\ event'.ts = now + 2
    /\ event' \in Event /\ Read(event')

LEMMA EnterFacts ==
    ASSUME KType, NEW c \in CPU, NEW x \in Call, Enter(c, x)
    PROVE  /\ KType' /\ Hands(c) /\ CallEvent(c, event')
           /\ event'.kind = "call" /\ event'.num = x /\ event'.dur = 0
           /\ UNCHANGED <<on, working>> /\ heard[c] # "first"
           /\ heard' = [heard EXCEPT ![c] = IF heard[c] = "nothing" THEN "first" ELSE "call"]
<1> DEFINE t == TaskOn(c)
           s == IF x = Sched /\ TopCall(c) = Resched THEN Front(thread[t]) ELSE thread[t]
<1>1. Idle \in Pid
  BY CallAssumption
<1>2. Entry(c, "call", x, Idle, on[c], 0)
  BY DEF Enter
<1>3. CallEvent(c, event') /\ event'.kind = "call" /\ event'.num = x /\ event'.dur = 0
      /\ heard[c] # "first"
      /\ heard' = [heard EXCEPT ![c] = IF heard[c] = "nothing" THEN "first" ELSE "call"]
      /\ heard' \in [CPU -> {"nothing", "first", "header", "call"}]
  BY <1>1, <1>2, CallEvents
<1>4. Emit(c, "call", x, Idle, on[c], 0)
  BY <1>2 DEF Entry
<1>5. Hands(c)
  BY <1>3, <1>4, EmitFacts DEF Hands, CallEvent
<1>6. t \in Task /\ thread[t] \in Seq(Call)
  BY TaskFacts
<1>7. Front(thread[t]) \in Seq(Call) \/ thread[t] = <<>>
  BY <1>6 DEF Front
<1>8. s \in Seq(Call)
  <2>1. CASE thread[t] = <<>>
    <3>1. TopCall(c) = on[c]
      BY <2>1 DEF TopCall
    <3>2. TopCall(c) # Resched
      BY <3>1, LevelFacts, TaskFacts
    <3> QED
      BY <1>6, <3>2
  <2> QED
    BY <1>6, <1>7, <2>1
<1>9. thread' = [thread EXCEPT ![t] = Append(s, x)] /\ fresh' \subseteq fresh
      /\ UNCHANGED <<on, working>>
  BY DEF Enter
<1> HIDE DEF s
<1>10. Append(s, x) \in Seq(Call)
  BY <1>8
<1>11. thread' \in [Task -> Seq(Call)]
  BY <1>6, <1>9, <1>10 DEF KType
<1>12. KType'
  BY <1>3, <1>5, <1>9, <1>11 DEF KType, Hands
<1> QED
  BY <1>3, <1>5, <1>9, <1>12

LEMMA ResultFacts ==
    ASSUME KType, NEW x
    PROVE  Results(x) \subseteq Pid
  BY CallAssumption DEF Results, KType, Proc

LEMMA WholeFacts ==
    ASSUME KType, NEW c \in CPU, NEW x \in Call, Whole(c, x)
    PROVE  /\ KType' /\ Hands(c) /\ CallEvent(c, event')
           /\ event'.kind = "call" /\ event'.num = x /\ event'.dur = 1
           /\ UNCHANGED <<on, working>> /\ heard[c] # "first"
           /\ heard' = [heard EXCEPT ![c] = IF heard[c] = "nothing" THEN "first" ELSE "call"]
<1>1. PICK q \in Results(x) : Entry(c, "call", x, q, on[c], 1)
  BY DEF Whole
<1>2. q \in Pid
  BY ResultFacts
<1>3. CallEvent(c, event') /\ event'.kind = "call" /\ event'.num = x /\ event'.dur = 1
      /\ heard[c] # "first"
      /\ heard' = [heard EXCEPT ![c] = IF heard[c] = "nothing" THEN "first" ELSE "call"]
      /\ heard' \in [CPU -> {"nothing", "first", "header", "call"}]
  BY <1>1, <1>2, CallEvents
<1>4. Emit(c, "call", x, q, on[c], 1)
  BY <1>1 DEF Entry
<1>5. Hands(c)
  BY <1>3, <1>4, EmitFacts DEF Hands, CallEvent
<1>6. fresh' \subseteq fresh /\ UNCHANGED <<on, thread, working>>
  BY DEF Whole
<1> QED
  BY <1>3, <1>5, <1>6 DEF KType, Hands

LEMMA LeaveFacts ==
    ASSUME KType, NEW c \in CPU, Leave(c)
    PROVE  /\ KType' /\ Hands(c) /\ CallEvent(c, event')
           /\ event'.kind = "ret" /\ event'.dur = 0
           /\ UNCHANGED <<on, working>> /\ heard[c] # "first"
           /\ heard' = [heard EXCEPT ![c] = IF heard[c] = "nothing" THEN "first" ELSE "call"]
<1> DEFINE t == TaskOn(c)
           s == Front(thread[t])
<1>1. t \in Task /\ thread[t] \in Seq(Call) /\ thread[t] # <<>>
  BY TaskFacts DEF Leave
<1>2. Len(thread[t]) \in Nat \ {0}
  BY <1>1, EmptySeq
<1>3. TopCall(c) = thread[t][Len(thread[t])] /\ TopCall(c) \in Call
  BY <1>1, <1>2, ElementOfSeq DEF TopCall
<1>4. PICK x \in IF TopCall(c) = Resched THEN {Resched, BHhi} ELSE {TopCall(c)} :
           \E q \in Results(x) : Entry(c, "ret", x, q, on[c], 0)
  BY DEF Leave
<1>5. PICK q \in Results(x) : Entry(c, "ret", x, q, on[c], 0)
  BY <1>4
<1>6. x \in Call /\ q \in Pid
  BY <1>3, LevelFacts, ResultFacts
<1>7. CallEvent(c, event') /\ event'.kind = "ret" /\ event'.dur = 0
      /\ heard[c] # "first"
      /\ heard' = [heard EXCEPT ![c] = IF heard[c] = "nothing" THEN "first" ELSE "call"]
      /\ heard' \in [CPU -> {"nothing", "first", "header", "call"}]
  BY <1>5, <1>6, CallEvents
<1>8. Emit(c, "ret", x, q, on[c], 0)
  BY <1>5 DEF Entry
<1>9. Hands(c)
  BY <1>7, <1>8, EmitFacts DEF Hands, CallEvent
<1>10. s \in Seq(Call) /\ Len(s) = Len(thread[t]) - 1
  <2>1. \A r \in Seq(Call) : r # <<>> => Front(r) \in Seq(Call) /\ Len(Front(r)) = Len(r) - 1
    BY FrontFacts, Zenon
  <2> QED
    BY <1>1, <2>1, Zenon
<1>11. PICK n \in 0 .. Len(s) : thread' = [thread EXCEPT ![t] = SubSeq(s, 1, n)]
  <2>1. Len(s) \in 0 .. Len(s)
    BY <1>2, <1>10
  <2>2. \E n \in (0 .. Len(s)) \cup {Len(s)} : thread' = [thread EXCEPT ![t] = SubSeq(s, 1, n)]
    BY Zenon DEF Leave
  <2> QED
    BY <2>1, <2>2, Zenon
<1> HIDE DEF s
<1>12. SubSeq(s, 1, n) \in Seq(Call)
  BY <1>1, <1>10, <1>11, FrontFacts DEF s
<1>13. thread' \in [Task -> Seq(Call)]
  BY <1>1, <1>11, <1>12 DEF KType
<1>14. UNCHANGED <<on, fresh, working>>
  BY DEF Leave
<1> QED
  BY <1>7, <1>9, <1>13, <1>14 DEF KType, Hands

LEMMA HeaderEvents ==
    ASSUME KType, NEW c \in CPU, NEW p \in Pid, Emit(c, "ctx", Idle, Idle, p, 1)
    PROVE  Hands(c) /\ event'.kind = "ctx" /\ event'.pid = p /\ event'.dur = 1
<1>1. event' = [kind |-> "ctx", num |-> Idle, arg |-> Idle, cpu |-> c, pid |-> p,
                ts |-> now + 2, dur |-> 1]
  BY EmitFacts
<1>2. now + 2 \in Nat /\ Idle \in Pid
  BY CallAssumption DEF KType
<1>3. event' \in Event
  BY <1>1, <1>2 DEF Event
<1> QED
  BY <1>3, EmitFacts DEF Hands

LEMMA AnnounceFacts ==
    ASSUME KType, NEW c \in CPU, Announce(c)
    PROVE  /\ KType' /\ Hands(c) /\ event'.kind = "ctx" /\ event'.pid = on[c]
           /\ event'.dur = 1
           /\ UNCHANGED <<on, thread, fresh>> /\ heard[c] = "first"
           /\ heard' = [heard EXCEPT ![c] = "header"]
           /\ working' = IF on[c] = Idle THEN working ELSE [working EXCEPT ![on[c]] = 0]
<1>1. Emit(c, "ctx", Idle, Idle, on[c], 1) /\ UNCHANGED <<on, thread, fresh>>
      /\ heard[c] = "first" /\ heard' = [heard EXCEPT ![c] = "header"]
      /\ working' = IF on[c] = Idle THEN working ELSE [working EXCEPT ![on[c]] = 0]
  BY DEF Announce
<1>2. on[c] \in Pid
  BY DEF KType
<1>3. Hands(c) /\ event'.kind = "ctx" /\ event'.pid = on[c] /\ event'.dur = 1
  BY <1>1, <1>2, HeaderEvents
<1>4. heard' \in [CPU -> {"nothing", "first", "header", "call"}]
  BY <1>1 DEF KType
<1>5. working' \in [Proc -> Rpcs]
  BY <1>1, CallAssumption DEF KType
<1> QED
  BY <1>1, <1>3, <1>4, <1>5 DEF KType, Hands

LEMMA SwitchFacts ==
    ASSUME KType, NEW c \in CPU, NEW q \in Pid, Switch(c, q)
    PROVE  /\ KType' /\ Hands(c) /\ event'.kind = "ctx" /\ event'.pid = q
           /\ event'.dur = 1
           /\ UNCHANGED <<thread, fresh, heard, working>> /\ Announced(c)
           /\ on' = [on EXCEPT ![c] = q] /\ q # on[c]
           /\ \A d \in CPU : q # Idle => on[d] # q
           /\ TopCall(c) = Sched
<1>1. Entry(c, "ctx", Idle, Idle, q, 1) /\ UNCHANGED <<thread, fresh, working>>
      /\ heard[c] # "nothing"
      /\ on' = [on EXCEPT ![c] = q] /\ q # on[c] /\ TopCall(c) = Sched
      /\ \A d \in CPU : q # Idle => on[d] # q
  BY DEF Switch
<1>2. Emit(c, "ctx", Idle, Idle, q, 1) /\ heard[c] # "first"
      /\ heard' = [heard EXCEPT ![c] = IF heard[c] = "nothing" THEN "first" ELSE heard[c]]
  BY <1>1 DEF Entry
<1>3. heard' = heard /\ Announced(c)
  BY <1>1, <1>2 DEF KType, Announced
<1>4. Hands(c) /\ event'.kind = "ctx" /\ event'.pid = q /\ event'.dur = 1
  BY <1>2, HeaderEvents
<1>5. on' \in [CPU -> Pid]
  BY <1>1 DEF KType
<1> QED
  BY <1>1, <1>3, <1>4, <1>5 DEF KType, Hands

LEMMA PointFacts ==
    ASSUME KType, NEW c \in CPU, NEW kind \in Points,
           NEW arg \in Pid \cup CPU \cup Rpcs \cup {1, 4}, Point(c, kind, arg)
    PROVE  /\ KType' /\ Hands(c) /\ PointEvent(c, event')
           /\ event'.kind = kind /\ event'.arg = arg /\ event'.dur = 1
           /\ UNCHANGED <<on, thread, fresh>> /\ heard[c] # "first"
           /\ heard' = [heard EXCEPT ![c] = IF heard[c] = "nothing" THEN "first" ELSE heard[c]]
           /\ kind = "rpc" => on[c] # Idle /\ arg \in Rpcs
           /\ working' = IF kind = "rpc" THEN [working EXCEPT ![on[c]] = arg] ELSE working
<1>1. arg \in Args
  BY DEF Args
<1>2. Entry(c, kind, Idle, arg, on[c], 1) /\ UNCHANGED <<on, thread, fresh>>
      /\ working' = IF kind = "rpc" THEN [working EXCEPT ![on[c]] = arg] ELSE working
  BY DEF Point
<1>3. PointEvent(c, event') /\ event'.kind = kind /\ event'.arg = arg /\ event'.dur = 1
      /\ heard[c] # "first"
      /\ heard' = [heard EXCEPT ![c] = IF heard[c] = "nothing" THEN "first" ELSE heard[c]]
      /\ heard' \in [CPU -> {"nothing", "first", "header", "call"}]
  BY <1>1, <1>2, PointEvents
<1>4. Emit(c, kind, Idle, arg, on[c], 1) /\ kind # "none"
  BY <1>2 DEF Entry, Points
<1>5. Hands(c)
  BY <1>3, <1>4, EmitFacts DEF Hands, PointEvent
<1>6. kind = "rpc" => on[c] # Idle /\ arg \in Rpcs
  BY DEF Point, MayPoint
<1>7. working' \in [Proc -> Rpcs]
  BY <1>2, <1>6 DEF KType, Proc
<1> QED
  BY <1>2, <1>3, <1>5, <1>6, <1>7 DEF KType, Hands

(* Any step of the kernel is one of these.                                 *)
KernelStep(c) ==
    \/ Announce(c)
    \/ \E x \in Call : Enter(c, x) \/ Whole(c, x)
    \/ Leave(c)
    \/ \E q \in Pid : Switch(c, q)
    \/ \E kind \in Points : \E arg \in Pid \cup CPU \cup Rpcs \cup {1, 4} : Point(c, kind, arg)

LEMMA KernelSteps ==
    ASSUME KType, Kernel
    PROVE  \E c \in CPU : KernelStep(c)
<1>1. PICK c \in mix.cpus :
        \/ Announce(c)
        \/ \E x \in mix.calls : Enter(c, x) \/ Whole(c, x)
        \/ Leave(c)
        \/ \E q \in mix.procs \cup {Idle} : Switch(c, q)
        \/ \E kind \in mix.kinds : \E arg \in Pid \cup CPU \cup Rpcs \cup {1, 4} :
              Point(c, kind, arg)
  BY DEF Kernel
<1>2. /\ c \in CPU /\ mix.calls \subseteq Call /\ mix.kinds \subseteq Points
      /\ mix.procs \cup {Idle} \subseteq Pid
  BY MixFacts, CallAssumption DEF Proc
<1> QED
  BY <1>1, <1>2 DEF KernelStep

LEMMA KernelReads ==
    ASSUME KType, NEW c \in CPU, KernelStep(c)
    PROVE  KType' /\ Hands(c) /\ event'.dur \in {0, 1}
<1>1. CASE Announce(c)
  BY <1>1, AnnounceFacts
<1>2. ASSUME NEW x \in Call, Enter(c, x) PROVE KType' /\ Hands(c) /\ event'.dur \in {0, 1}
  BY <1>2, EnterFacts
<1>3. ASSUME NEW x \in Call, Whole(c, x) PROVE KType' /\ Hands(c) /\ event'.dur \in {0, 1}
  BY <1>3, WholeFacts
<1>4. CASE Leave(c)
  BY <1>4, LeaveFacts
<1>5. ASSUME NEW q \in Pid, Switch(c, q) PROVE KType' /\ Hands(c) /\ event'.dur \in {0, 1}
  BY <1>5, SwitchFacts
<1>6. ASSUME NEW kind \in Points, NEW arg \in Pid \cup CPU \cup Rpcs \cup {1, 4},
             Point(c, kind, arg)
      PROVE  KType' /\ Hands(c) /\ event'.dur \in {0, 1}
  BY <1>6, PointFacts
<1> QED
  BY <1>1, <1>2, <1>3, <1>4, <1>5, <1>6 DEF KernelStep

(***************************************************************************)
(* Who owns the stacks, and their RPCs: steps of the kernel                *)
(***************************************************************************)

LEMMA HandsTrue ==
    ASSUME KType, NEW c \in CPU, Hands(c), event'.dur \in {0, 1},
           event'.kind = "mwait" => event'.arg \in Nat
    PROVE  EventTrue'
  BY DEF Hands, EventTrue, KType

LEMMA HandsConverts ==
    ASSUME NEW c \in CPU, Hands(c)
    PROVE  /\ \A d, K : ~Converts(d, K)
           /\ \A d, K : Converts(d, K)' <=> d = c /\ event'.kind \in K
           /\ UNCHANGED <<cpu_stack, perpidstate>> /\ \A d : Owner(d)' = Owner(d)
  BY DEF Hands, Converts, convvars, cpuvars, switchvars, Owner

(* Calls and returns: nothing changes for the owners.                      *)
LEMMA CallKeepsRInv ==
    ASSUME RInv, NEW c \in CPU, KType', Hands(c), CallEvent(c, event'),
           event'.dur \in {0, 1}, UNCHANGED <<on, working>>, heard[c] # "first",
           heard' = [heard EXCEPT ![c] = IF heard[c] = "nothing" THEN "first" ELSE "call"]
    PROVE  RInv'
<1>1. EventTrue'
  BY HandsTrue DEF CallEvent, RInv
<1>2. \A d \in CPU : Announced(d)' <=> Announced(d)
  BY DEF Announced, RInv, KType
<1>3. \A d, K : ~Converts(d, K)
  BY HandsConverts
<1>4. \A d : ~Converts(d, {"ctx"})' /\ ~Converts(d, {"rpc"})'
  BY HandsConverts DEF CallEvent
<1>5. UNCHANGED <<cpu_stack, perpidstate>> /\ \A d : Owner(d)' = Owner(d)
  BY HandsConverts
<1>6. OneCPU'
  BY DEF RInv, OneCPU
<1>7. OwnersTrue'
  BY <1>2, <1>3, <1>4, <1>5 DEF RInv, OwnersTrue
<1>8. RpcsTrue'
  BY <1>2, <1>3, <1>4, <1>5 DEF RInv, RpcsTrue
<1> QED
  BY <1>1, <1>6, <1>7, <1>8 DEF RInv

LEMMA PointKeepsRInv ==
    ASSUME RInv, NEW c \in CPU, NEW kind \in Points,
           NEW arg \in Pid \cup CPU \cup Rpcs \cup {1, 4}, Point(c, kind, arg)
    PROVE  RInv'
<1>1. KType
  BY DEF RInv
<1>2. /\ KType' /\ Hands(c) /\ event'.kind = kind /\ event'.arg = arg /\ event'.dur = 1
      /\ UNCHANGED on /\ heard[c] # "first"
      /\ heard' = [heard EXCEPT ![c] = IF heard[c] = "nothing" THEN "first" ELSE heard[c]]
      /\ kind = "rpc" => on[c] # Idle /\ arg \in Rpcs
      /\ working' = IF kind = "rpc" THEN [working EXCEPT ![on[c]] = arg] ELSE working
  BY <1>1, PointFacts
<1>3. kind = "mwait" => arg \in Nat
  BY DEF Point, MayPoint
<1>4. EventTrue'
  BY <1>1, <1>2, <1>3, HandsTrue
<1>5. \A d \in CPU : Announced(d)' <=> Announced(d)
  BY <1>1, <1>2 DEF Announced, KType
<1>6. \A d, K : ~Converts(d, K)
  BY <1>2, HandsConverts
<1>7. \A d : ~Converts(d, {"ctx"})' /\ (Converts(d, {"rpc"})' <=> d = c /\ kind = "rpc")
  BY <1>2, HandsConverts DEF Points
<1>8. UNCHANGED <<cpu_stack, perpidstate>> /\ \A d : Owner(d)' = Owner(d)
  BY <1>2, HandsConverts
<1>9. OneCPU'
  BY <1>2 DEF RInv, OneCPU
<1>10. OwnersTrue'
  BY <1>2, <1>5, <1>6, <1>7, <1>8 DEF RInv, OwnersTrue
<1>11. RpcsTrue'
  <2>1. CASE kind # "rpc"
    BY <1>2, <1>5, <1>6, <1>7, <1>8, <2>1 DEF RInv, RpcsTrue
  <2>2. CASE kind = "rpc"
    <3>1. on[c] \in Proc /\ arg \in Rpcs /\ working'[on[c]] = arg
          /\ \A p \in Proc \ {on[c]} : working'[p] = working[p]
      BY <1>1, <1>2, <2>2 DEF KType, Proc
    <3>2. \A d \in CPU \ {c} : Owner(d) # on[c]
      <4> TAKE d \in CPU \ {c}
      <4>1. CASE Announced(d)
        BY <1>6, <3>1, <4>1 DEF RInv, OwnersTrue, OneCPU, Proc
      <4>2. CASE ~Announced(d)
        BY <3>1, <4>2 DEF RInv, OwnersTrue, Proc
      <4> QED
        BY <4>1, <4>2
    <3>3. Announced(c) => Owner(c) = on[c]
      BY <1>6 DEF RInv, OwnersTrue
    <3>4. \A d \in CPU : Owner(d) # Idle => Owner(d) \in Proc
      <4> TAKE d \in CPU
      <4>1. Owner(d) = Idle \/ Owner(d) = on[d]
        BY <1>6 DEF RInv, OwnersTrue
      <4> QED
        BY <1>1, <4>1 DEF KType, Proc
    <3>5. \A d \in CPU : Owner(d)' # Idle /\ ~Converts(d, {"rpc"})'
             => cpu_stack'[d].rpcid = working'[Owner(d)']
      BY <1>6, <1>7, <1>8, <2>2, <3>1, <3>2, <3>4 DEF RInv, RpcsTrue
    <3>6. \A d \in CPU : Converts(d, {"rpc"})' => on'[d] # Idle /\ event'.arg = working'[on'[d]]
      BY <1>2, <1>7, <2>2, <3>1
    <3>7. \A p \in Proc :
             (\A d \in CPU : Owner(d)' # p /\ (on'[d] = p => Announced(d)'))
                 => perpidstate'[p].rpcid = working'[p]
      <4> SUFFICES ASSUME NEW p \in Proc,
                          \A d \in CPU : Owner(d)' # p /\ (on'[d] = p => Announced(d)')
                   PROVE  perpidstate'[p].rpcid = working'[p]
        OBVIOUS
      <4>1. \A d \in CPU : Owner(d) # p /\ (on[d] = p => Announced(d))
        BY <1>2, <1>5, <1>8
      <4>2. p # on[c]
        BY <3>3, <4>1
      <4> QED
        BY <1>8, <3>1, <4>1, <4>2 DEF RInv, RpcsTrue
    <3>8. \A p \in Pid : perpidstate'[p] = NoState \/ perpidstate'[p].eventnum[1] = p
      BY <1>8 DEF RInv, RpcsTrue
    <3> QED
      BY <3>5, <3>6, <3>7, <3>8 DEF RpcsTrue
  <2> QED
    BY <2>1, <2>2
<1> QED
  BY <1>2, <1>4, <1>9, <1>10, <1>11 DEF RInv

LEMMA AnnounceKeepsRInv ==
    ASSUME RInv, NEW c \in CPU, Announce(c)
    PROVE  RInv'
<1>1. KType
  BY DEF RInv
<1>2. /\ KType' /\ Hands(c) /\ event'.kind = "ctx" /\ event'.pid = on[c] /\ event'.dur = 1
      /\ UNCHANGED on /\ heard[c] = "first" /\ heard' = [heard EXCEPT ![c] = "header"]
      /\ working' = IF on[c] = Idle THEN working ELSE [working EXCEPT ![on[c]] = 0]
  BY <1>1, AnnounceFacts
<1>3. EventTrue'
  BY <1>1, <1>2, HandsTrue
<1>4. Announced(c)' /\ ~Announced(c) /\ \A d \in CPU \ {c} : Announced(d)' <=> Announced(d)
  BY <1>1, <1>2 DEF Announced, KType
<1>5. \A d, K : ~Converts(d, K)
  BY <1>2, HandsConverts
<1>6. \A d : ~Converts(d, {"rpc"})' /\ (Converts(d, {"ctx"})' <=> d = c)
  BY <1>2, HandsConverts
<1>7. UNCHANGED <<cpu_stack, perpidstate>> /\ \A d : Owner(d)' = Owner(d)
  BY <1>2, HandsConverts
<1>8. OneCPU'
  BY <1>2 DEF RInv, OneCPU
<1>9. Owner(c) = Idle /\ (on[c] # Idle => perpidstate[on[c]] = NoState)
  BY <1>4 DEF RInv, OwnersTrue
<1>10. \A d \in CPU : Owner(d) = on[c] => on[c] = Idle
  <2> TAKE d \in CPU
  <2>1. CASE d = c
    BY <1>9, <2>1
  <2>2. CASE d # c
    <3>1. Owner(d) = on[d] \/ Owner(d) = Idle
      BY <1>5 DEF RInv, OwnersTrue
    <3> QED
      BY <2>2, <3>1 DEF RInv, OneCPU
  <2> QED
    BY <2>1, <2>2
<1>11. OwnersTrue'
  BY <1>2, <1>4, <1>5, <1>6, <1>7, <1>10 DEF RInv, OwnersTrue
<1>12. \A d \in CPU : Owner(d) # Idle => Owner(d) \in Proc \ {on[c]}
  <2> TAKE d \in CPU
  <2>1. Owner(d) = Idle \/ Owner(d) = on[d]
    BY <1>5 DEF RInv, OwnersTrue
  <2> QED
    BY <1>1, <1>10, <2>1 DEF KType, Proc
<1>13. /\ \A p \in Proc \ {on[c]} : working'[p] = working[p]
       /\ on[c] # Idle => working'[on[c]] = 0
  BY <1>1, <1>2 DEF KType, Proc
<1>14. RpcsTrue'
  <2>1. \A d \in CPU : Owner(d)' # Idle /\ ~Converts(d, {"rpc"})'
             => cpu_stack'[d].rpcid = working'[Owner(d)']
    BY <1>5, <1>7, <1>12, <1>13 DEF RInv, RpcsTrue
  <2>2. ASSUME NEW p \in Proc,
               \A d \in CPU : Owner(d)' # p /\ (on'[d] = p => Announced(d)')
        PROVE  perpidstate'[p].rpcid = working'[p]
    <3>1. CASE p = on[c]
      <4>1. perpidstate[p] = NoState /\ working'[p] = 0
        BY <1>9, <1>13, <3>1 DEF Proc
      <4> QED
        BY <1>7, <4>1 DEF NoState
    <3>2. CASE p # on[c]
      <4>1. \A d \in CPU : Owner(d) # p /\ (on[d] = p => Announced(d))
        BY <1>2, <1>4, <1>7, <2>2, <3>2
      <4> QED
        BY <1>7, <1>13, <3>2, <4>1 DEF RInv, RpcsTrue
    <3> QED
      BY <3>1, <3>2
  <2>3. \A p \in Pid : perpidstate'[p] = NoState \/ perpidstate'[p].eventnum[1] = p
    BY <1>7 DEF RInv, RpcsTrue
  <2> QED
    BY <1>6, <2>1, <2>2, <2>3 DEF RpcsTrue
<1> QED
  BY <1>2, <1>3, <1>8, <1>11, <1>14 DEF RInv

LEMMA SwitchKeepsRInv ==
    ASSUME RInv, NEW c \in CPU, NEW q \in Pid, Switch(c, q)
    PROVE  RInv'
<1>1. KType
  BY DEF RInv
<1>2. /\ KType' /\ Hands(c) /\ event'.kind = "ctx" /\ event'.pid = q /\ event'.dur = 1
      /\ UNCHANGED <<heard, working>> /\ Announced(c)
      /\ on' = [on EXCEPT ![c] = q] /\ q # on[c]
      /\ \A d \in CPU : q # Idle => on[d] # q
  BY <1>1, SwitchFacts
<1>3. EventTrue'
  BY <1>1, <1>2, HandsTrue
<1>4. \A d : Announced(d)' <=> Announced(d)
  BY <1>2 DEF Announced
<1>5. \A d, K : ~Converts(d, K)
  BY <1>2, HandsConverts
<1>6. \A d : ~Converts(d, {"rpc"})' /\ (Converts(d, {"ctx"})' <=> d = c)
  BY <1>2, HandsConverts
<1>7. UNCHANGED <<cpu_stack, perpidstate>> /\ \A d : Owner(d)' = Owner(d)
  BY <1>2, HandsConverts
<1>8. on'[c] = q /\ \A d \in CPU \ {c} : on'[d] = on[d]
  BY <1>1, <1>2 DEF KType
<1>9. OneCPU'
  <2> SUFFICES ASSUME NEW d \in CPU, NEW f \in CPU, on'[d] = on'[f], on'[d] # Idle
               PROVE  d = f
    BY DEF OneCPU
  <2>1. d # c /\ f # c => d = f
    BY <1>8 DEF RInv, OneCPU
  <2> QED
    BY <1>2, <1>8, <2>1
<1>10. \A d \in CPU : Owner(d) = q => q = Idle
  <2> TAKE d \in CPU
  <2>1. Owner(d) = on[d] \/ Owner(d) = Idle
    BY <1>5 DEF RInv, OwnersTrue
  <2> QED
    BY <1>2, <2>1
<1>11. OwnersTrue'
  BY <1>2, <1>4, <1>5, <1>6, <1>7, <1>8, <1>10 DEF RInv, OwnersTrue
<1>12. RpcsTrue'
  <2>1. \A d \in CPU : Owner(d)' # Idle /\ ~Converts(d, {"rpc"})'
             => cpu_stack'[d].rpcid = working'[Owner(d)']
    BY <1>2, <1>5, <1>7 DEF RInv, RpcsTrue
  <2>2. ASSUME NEW p \in Proc,
               \A d \in CPU : Owner(d)' # p /\ (on'[d] = p => Announced(d)')
        PROVE  perpidstate'[p].rpcid = working'[p]
    <3>1. \A d \in CPU : Owner(d) # p /\ (on[d] = p => Announced(d))
      BY <1>2, <1>4, <1>7, <1>8, <2>2
    <3> QED
      BY <1>2, <1>7, <3>1 DEF RInv, RpcsTrue
  <2>3. \A p \in Pid : perpidstate'[p] = NoState \/ perpidstate'[p].eventnum[1] = p
    BY <1>7 DEF RInv, RpcsTrue
  <2> QED
    BY <1>6, <2>1, <2>2, <2>3 DEF RpcsTrue
<1> QED
  BY <1>2, <1>3, <1>9, <1>11, <1>12 DEF RInv

LEMMA KernelKeepsRInv ==
    ASSUME RInv, NEW c \in CPU, KernelStep(c)
    PROVE  RInv'
<1>1. KType
  BY DEF RInv
<1>2. CASE Announce(c)
  BY <1>2, AnnounceKeepsRInv
<1>3. ASSUME NEW x \in Call, Enter(c, x) PROVE RInv'
  BY <1>1, <1>3, EnterFacts, CallKeepsRInv
<1>4. ASSUME NEW x \in Call, Whole(c, x) PROVE RInv'
  BY <1>1, <1>4, WholeFacts, CallKeepsRInv
<1>5. CASE Leave(c)
  BY <1>1, <1>5, LeaveFacts, CallKeepsRInv
<1>6. ASSUME NEW q \in Pid, Switch(c, q) PROVE RInv'
  BY <1>6, SwitchKeepsRInv
<1>7. ASSUME NEW kind \in Points, NEW arg \in Pid \cup CPU \cup Rpcs \cup {1, 4},
             Point(c, kind, arg)
      PROVE  RInv'
  BY <1>7, PointKeepsRInv
<1> QED
  BY <1>2, <1>3, <1>4, <1>5, <1>6, <1>7 DEF KernelStep

(***************************************************************************)
(* What the operators of ProcessEvent do to the stack of a CPU             *)
(***************************************************************************)

LEMMA ResolveKeeps ==
    ASSUME NEW st, GoodState(st), NEW e
    PROVE  /\ Resolve(st, e).eventnum[1] = st.eventnum[1]
           /\ Resolve(st, e).rpcid = st.rpcid
           /\ \/ Resolve(st, e).eventnum = st.eventnum
              \/ OnlyInUserMode(e) /\ Resolve(st, e).eventnum = <<st.eventnum[1]>>
<1> DEFINE q == [eventnum |-> <<st.eventnum[1]>>, ambiguous |-> 0, rpcid |-> st.rpcid]
<1>1. CASE Resolve(st, e) = st
  BY <1>1
<1>2. CASE Resolve(st, e) = [st EXCEPT !.ambiguous = 0]
  BY <1>2 DEF GoodState, PidStates
<1>3. CASE OnlyInUserMode(e) /\ Resolve(st, e) = q
  <2>1. q.eventnum = <<st.eventnum[1]>> /\ q.rpcid = st.rpcid
    OBVIOUS
  <2>2. q.eventnum[1] = st.eventnum[1]
    BY <2>1
  <2> HIDE DEF q
  <2> QED
    BY <1>3, <2>1, <2>2
<1> QED
  BY <1>1, <1>2, <1>3 DEF Resolve

(* One stack is another, with the same owner.                              *)
Edits(c, st) ==
    /\ UNCHANGED perpidstate
    /\ \A d \in CPU \ {c} : cpu_stack'[d] = cpu_stack[d]
    /\ cpu_stack'[c] = st

LEMMA EditFacts ==
    ASSUME StackType, NEW c \in CPU, NEW st, UNCHANGED perpidstate,
           cpu_stack' = [cpu_stack EXCEPT ![c] = st]
    PROVE  Edits(c, st)
  BY DEF StackType, Edits

(* The call on top goes.                                                   *)
Pops(c, st) ==
    /\ Edits(c, st) /\ st.rpcid = cpu_stack[c].rpcid /\ st.eventnum[1] = Owner(c)
    /\ st.eventnum = SubSeq(cpu_stack[c].eventnum, 1, Len(cpu_stack[c].eventnum) - 1)
    /\ TOS(st) = st.eventnum[Len(cpu_stack[c].eventnum) - 1]
    /\ TOS(st) # Sched /\ TOS(st) \in Pid \cup Call

LEMMA ReturnEdits ==
    ASSUME StackType, StacksNest, NEW e, IsAReturn(e), e.cpu \in CPU,
           1 < Len(cpu_stack[e.cpu].eventnum),
           ~(NestLevel(e.num) < NestLevel(TOS(cpu_stack[e.cpu]))),
           ProcessReturn(e)
    PROVE  \E st : Pops(e.cpu, st)
                   /\ cur_span' = [cur_span EXCEPT ![e.cpu] = StartSpan(e, TOS(st))]
<1> DEFINE c == e.cpu
           s == cpu_stack[c].eventnum
           st == Resolve(cpu_stack[c], e)
           a == AdjustStackForPop(st.eventnum, e.num)
           rest == SubSeq(a, 1, Len(a) - 1)
           r == SubSeq(s, 1, Len(s) - 1)
           new == [st EXCEPT !.eventnum = rest]
<1>1. GoodState(cpu_stack[c]) /\ GoodState(st) /\ st.eventnum = s
      /\ st.rpcid = cpu_stack[c].rpcid
  BY StackFacts, ResolveFacts, ResolveKeeps
<1>2. a = s
  <2>1. Len(s) # 1 /\ ~(NestLevel(e.num) < NestLevel(s[Len(s)]))
    BY DEF TOS
  <2>2. AdjustStackForPop(s, e.num) = s
    BY <2>1, PopFits
  <2> QED
    BY <1>1, <2>2
<1>3. Nested(s) /\ Len(s) \in 2 .. 5 /\ s \in Seq(Pid \cup Call) /\ st \in PidStates
  <2>1. Nested(s) /\ Len(s) \in 1 .. 5 /\ 1 < Len(s)
    BY <1>1, TopFacts DEF GoodState
  <2> QED
    BY <1>1, <2>1 DEF GoodState, Nested
<1>4. UNCHANGED perpidstate /\ cpu_stack' = [cpu_stack EXCEPT ![c] = new]
      /\ cur_span' = [cur_span EXCEPT ![c] = StartSpan(e, rest[Len(rest)])]
  BY DEF ProcessReturn, switchvars
<1>5. rest = r
  BY <1>2
<1>6. r \in Seq(Pid \cup Call) /\ Len(r) = Len(s) - 1 /\ \A i \in 1 .. Len(s) - 1 : r[i] = s[i]
  BY <1>3
<1>7. Edits(c, new)
  BY <1>4, EditFacts
<1> HIDE DEF rest, r, st
<1>8. new.eventnum = r /\ new.rpcid = cpu_stack[c].rpcid
  <2>1. r \in Seq(Pid \cup Call)
    BY <1>6
  <2>2. [st EXCEPT !.eventnum = r].eventnum = r /\ [st EXCEPT !.eventnum = r].rpcid = st.rpcid
    BY <1>3, <2>1 DEF PidStates
  <2> QED
    BY <1>1, <1>5, <2>2
<1>9. s[Len(s) - 1] # Sched /\ s[Len(s) - 1] \in Pid \cup Call
  <2>1. NestLevel(s[Len(s) - 1]) < NestLevel(s[Len(s)])
    <3>1. \A n \in 2 .. 5 : n - 1 \in 1 .. n /\ n \in 1 .. n /\ n - 1 < n
      OBVIOUS
    <3>2. Len(s) - 1 \in 1 .. Len(s) /\ Len(s) \in 1 .. Len(s) /\ Len(s) - 1 < Len(s)
      BY <1>3, <3>1, Zenon
    <3>3. \A i, j \in 1 .. Len(s) : i < j => NestLevel(s[i]) < NestLevel(s[j])
      BY <1>3, Zenon DEF Nested
    <3> QED
      BY <3>2, <3>3, Zenon
  <2>2. NestLevel(s[Len(s)]) \in 0 .. 4
    BY <1>3, TopFacts
  <2>3. s[Len(s) - 1] \in Pid \cup Call
    BY <1>3
  <2>4. NestLevel(s[Len(s) - 1]) \in 0 .. 4
    BY <2>3, LevelFacts
  <2> QED
    BY <2>1, <2>2, <2>3, <2>4, LevelFacts
<1> HIDE DEF new
<1>10. r[1] = s[1] /\ r[Len(r)] = s[Len(s) - 1] /\ r[Len(s) - 1] = s[Len(s) - 1]
  BY <1>3, <1>6
<1>11. /\ new.eventnum = r /\ new.rpcid = cpu_stack[c].rpcid
       /\ new.eventnum[1] = Owner(c)
       /\ TOS(new) = new.eventnum[Len(s) - 1]
       /\ TOS(new) # Sched /\ TOS(new) \in Pid \cup Call
       /\ cur_span' = [cur_span EXCEPT ![c] = StartSpan(e, TOS(new))]
  BY <1>4, <1>5, <1>8, <1>9, <1>10 DEF Owner, TOS
<1> QED
  BY <1>7, <1>11 DEF r, Pops

(* The stack that an event meets: the one there is, or the process alone.  *)
Bases(c, e) ==
    {cpu_stack[c].eventnum} \cup (IF OnlyInUserMode(e) THEN {<<Owner(c)>>} ELSE {})

(* A call goes on top, but for one that has returned.                      *)
Pushes(c, st, e) ==
    /\ Edits(c, st) /\ st.rpcid = cpu_stack[c].rpcid /\ st.eventnum[1] = Owner(c)
    /\ IF IsOptimizedCall(e) THEN TOS(st) # Sched ELSE TOS(st) = e.num
    /\ \E r \in Bases(c, e) :
          st.eventnum = IF IsOptimizedCall(e) THEN r ELSE Append(r, e.num)

LEMMA CallEdits ==
    ASSUME StackType, StacksNest, NEW e, e.cpu \in CPU, e.num \in Call,
           NestLevel(TOS(cpu_stack[e.cpu])) < NestLevel(e.num),
           ProcessCall(e)
    PROVE  \E st : Pushes(e.cpu, st, e)
<1> DEFINE c == e.cpu
           st == Resolve(cpu_stack[c], e)
           s == AdjustStackForPush(st.eventnum, e.num)
           new == IF IsOptimizedCall(e) THEN [st EXCEPT !.eventnum = s]
                                        ELSE [st EXCEPT !.eventnum = Append(s, e.num)]
<1>1. /\ GoodState(cpu_stack[c]) /\ GoodState(st) /\ st.rpcid = cpu_stack[c].rpcid
      /\ st.eventnum[1] = Owner(c)
      /\ st.eventnum \in {cpu_stack[c].eventnum, <<cpu_stack[c].eventnum[1]>>}
  BY StackFacts, ResolveFacts, ResolveKeeps DEF Owner
<1>2. NestLevel(st.eventnum[Len(st.eventnum)]) < NestLevel(e.num)
  <2>1. CASE st.eventnum = cpu_stack[c].eventnum
    BY <2>1 DEF TOS
  <2>2. CASE st.eventnum = <<cpu_stack[c].eventnum[1]>>
    <3>1. st.eventnum[Len(st.eventnum)] \in Pid
      BY <1>1, <2>2, TopFacts DEF GoodState
    <3> QED
      BY <3>1, LevelFacts
  <2> QED
    BY <1>1, <2>1, <2>2
<1>3. /\ NestLevel(e.num) \in 1 .. 4
      /\ NestLevel(st.eventnum[Len(st.eventnum)]) \in 0 .. 4
      /\ Len(st.eventnum) \in 1 .. 5 /\ st.eventnum \in Seq(Pid \cup Call)
      /\ st \in PidStates
  BY <1>1, LevelFacts, TopFacts DEF GoodState, Nested
<1>4. s = st.eventnum
  <2>1. ~(NestLevel(e.num) <= NestLevel(st.eventnum[Len(st.eventnum)]))
    BY <1>2, <1>3
  <2> QED
    BY <2>1, PushFits
<1>5. cpu_stack' = [cpu_stack EXCEPT ![c] = new] /\ UNCHANGED perpidstate
  BY DEF ProcessCall, switchvars
<1>6. Edits(c, new)
  BY <1>5, EditFacts
<1>9. s \in Bases(c, e)
  BY <1>4, <1>1, ResolveKeeps DEF Bases, Owner
<1> HIDE DEF s, st
<1>7. CASE IsOptimizedCall(e)
  <2>1. new = [st EXCEPT !.eventnum = s]
    BY <1>7
  <2>2. new.eventnum = s /\ new.rpcid = st.rpcid
    BY <1>3, <1>4, <2>1, EditState DEF PidStates
  <2> HIDE DEF new
  <2>3. new.eventnum[1] = Owner(c) /\ new.rpcid = cpu_stack[c].rpcid
    BY <1>1, <1>4, <2>2
  <2>4. TOS(new) # Sched
    BY <1>2, <1>3, <1>4, <2>2, LevelFacts DEF TOS
  <2>5. \E r \in Bases(c, e) :
           new.eventnum = IF IsOptimizedCall(e) THEN r ELSE Append(r, e.num)
    BY <1>7, <1>9, <2>2
  <2> QED
    BY <1>6, <1>7, <2>3, <2>4, <2>5 DEF Pushes
<1>8. CASE ~IsOptimizedCall(e)
  <2> DEFINE r == Append(s, e.num)
  <2>1. new = [st EXCEPT !.eventnum = r]
    BY <1>8
  <2>2. r \in Seq(Pid \cup Call) /\ Len(r) = Len(s) + 1 /\ r[Len(s) + 1] = e.num /\ r[1] = s[1]
    BY <1>3, <1>4
  <2> HIDE DEF r
  <2>3. new.eventnum = r /\ new.rpcid = st.rpcid
    BY <1>3, <2>1, <2>2, EditState DEF PidStates
  <2> HIDE DEF new
  <2>4. new.eventnum[1] = Owner(c) /\ new.rpcid = cpu_stack[c].rpcid /\ TOS(new) = e.num
    BY <1>1, <1>4, <2>2, <2>3 DEF TOS
  <2>5. \E b \in Bases(c, e) :
           new.eventnum = IF IsOptimizedCall(e) THEN b ELSE Append(b, e.num)
    BY <1>8, <1>9, <2>3 DEF r
  <2> QED
    BY <1>6, <1>8, <2>4, <2>5 DEF Pushes
<1> QED
  BY <1>7, <1>8

(* Other events keep what is on top, or leave the process alone on it.     *)
Settles(c, st, e) ==
    /\ Edits(c, st) /\ st.eventnum[1] = Owner(c)
    /\ \/ TOS(st) = TOS(cpu_stack[c])
       \/ OnlyInUserMode(e) /\ TOS(st) \in Pid
    /\ st.eventnum \in Bases(c, e)

LEMMA ResolveEdits ==
    ASSUME StackType, StacksNest, NEW e, e.cpu \in CPU, ProcessCexit(e) \/ ProcessPoint(e)
    PROVE  \E st : Settles(e.cpu, st, e) /\ st.rpcid = cpu_stack[e.cpu].rpcid
<1> DEFINE st == Resolve(cpu_stack[e.cpu], e)
<1>1. GoodState(cpu_stack[e.cpu])
  BY StackFacts
<1>2. cpu_stack' = [cpu_stack EXCEPT ![e.cpu] = st] /\ UNCHANGED perpidstate
  BY DEF ProcessCexit, ProcessPoint, switchvars
<1>3. Edits(e.cpu, st)
  BY <1>2, EditFacts
<1>4. /\ st.eventnum[1] = Owner(e.cpu) /\ st.rpcid = cpu_stack[e.cpu].rpcid
      /\ \/ st.eventnum = cpu_stack[e.cpu].eventnum
         \/ OnlyInUserMode(e) /\ st.eventnum = <<cpu_stack[e.cpu].eventnum[1]>>
      /\ cpu_stack[e.cpu].eventnum[1] \in Pid
  BY <1>1, ResolveKeeps, TopFacts DEF Owner, GoodState
<1> HIDE DEF st
<1>5. TOS(st) = TOS(cpu_stack[e.cpu]) \/ (OnlyInUserMode(e) /\ TOS(st) \in Pid)
  BY <1>4 DEF TOS
<1>6. st.eventnum \in Bases(e.cpu, e)
  BY <1>4 DEF Bases, Owner
<1> QED
  BY <1>3, <1>4, <1>5, <1>6 DEF Settles

LEMMA SplitEdits ==
    ASSUME StackType, StacksNest, NEW e, e.cpu \in CPU, e.arg \in Args, ProcessSplit(e)
    PROVE  \E st : Settles(e.cpu, st, e)
                   /\ st.rpcid = IF e.kind = "rpc" THEN e.arg ELSE cpu_stack[e.cpu].rpcid
<1> DEFINE st == Resolve(cpu_stack[e.cpu], e)
           new == IF e.kind = "rpc" THEN [st EXCEPT !.rpcid = e.arg] ELSE st
<1>1. GoodState(cpu_stack[e.cpu]) /\ GoodState(st)
  BY StackFacts, ResolveFacts
<1>2. cpu_stack' = [cpu_stack EXCEPT ![e.cpu] = new] /\ UNCHANGED perpidstate
  BY DEF ProcessSplit, switchvars
<1>3. Edits(e.cpu, new)
  BY <1>2, EditFacts
<1>4. /\ st.eventnum[1] = Owner(e.cpu) /\ st.rpcid = cpu_stack[e.cpu].rpcid
      /\ \/ st.eventnum = cpu_stack[e.cpu].eventnum
         \/ OnlyInUserMode(e) /\ st.eventnum = <<cpu_stack[e.cpu].eventnum[1]>>
      /\ cpu_stack[e.cpu].eventnum[1] \in Pid
  BY <1>1, ResolveKeeps, TopFacts DEF Owner, GoodState
<1> HIDE DEF st
<1>5. new.eventnum = st.eventnum
      /\ new.rpcid = IF e.kind = "rpc" THEN e.arg ELSE cpu_stack[e.cpu].rpcid
  BY <1>1, <1>4 DEF GoodState, PidStates
<1> HIDE DEF new
<1>6. TOS(new) = TOS(cpu_stack[e.cpu]) \/ (OnlyInUserMode(e) /\ TOS(new) \in Pid)
  BY <1>4, <1>5 DEF TOS
<1>7. new.eventnum \in Bases(e.cpu, e)
  BY <1>4, <1>5 DEF Bases, Owner
<1> QED
  BY <1>3, <1>4, <1>5, <1>6, <1>7 DEF Settles

LEMMA ReschedEdits ==
    ASSUME IInv, FixupResched
    PROVE  \E st : /\ Edits(event.cpu, st) /\ st.rpcid = cpu_stack[event.cpu].rpcid
                   /\ st.eventnum[1] = Owner(event.cpu) /\ TOS(st) # Sched
                   /\ st.eventnum = Front(Stack.eventnum)
<1> DEFINE c == event.cpu
           s == Stack.eventnum
           r == SubSeq(s, 1, Len(s) - 1)
           new == [Stack EXCEPT !.eventnum = r]
<1>1. ~Reading /\ TOS(Stack) = Resched /\ UNCHANGED perpidstate
  BY DEF FixupResched, NeedsResched, switchvars
<1>2. c \in CPU /\ GoodState(Stack) /\ 1 < Len(s) /\ Len(s) \in 1 .. 5
  BY <1>1, Converting, LevelFacts
<1>3. Stack = cpu_stack[c]
  BY DEF Stack
<1>4. cpu_stack' = [cpu_stack EXCEPT ![c] = new]
  BY <1>2 DEF FixupResched, StackType, Stack, IInv
<1>5. Edits(c, new)
  BY <1>1, <1>2, <1>4, EditFacts DEF IInv
<1>6. s \in Seq(Pid \cup Call) /\ Nested(s) /\ Stack \in PidStates
  BY <1>2 DEF GoodState, Nested
<1>7. r \in Seq(Pid \cup Call) /\ Len(r) = Len(s) - 1 /\ r[1] = s[1] /\ r[Len(r)] = s[Len(s) - 1]
  BY <1>2, <1>6
<1>8. s[Len(s) - 1] # Sched
  <2>1. \A n \in 1 .. 5 : 1 < n => n - 1 \in 1 .. n /\ n \in 1 .. n /\ n - 1 < n
    OBVIOUS
  <2>2. Len(s) - 1 \in 1 .. Len(s) /\ Len(s) \in 1 .. Len(s) /\ Len(s) - 1 < Len(s)
    BY <1>2, <2>1, Zenon
  <2>3. \A i, j \in 1 .. Len(s) : i < j => NestLevel(s[i]) < NestLevel(s[j])
    BY <1>6, Zenon DEF Nested
  <2>4. NestLevel(s[Len(s) - 1]) < NestLevel(s[Len(s)])
    BY <2>2, <2>3, Zenon
  <2>5. NestLevel(s[Len(s)]) = 3
    BY <1>1, LevelFacts DEF TOS
  <2> QED
    BY <2>4, <2>5, LevelFacts
<1> HIDE DEF r
<1>9. new.eventnum = r /\ new.rpcid = Stack.rpcid
  BY <1>6, <1>7, EditState DEF PidStates
<1> HIDE DEF new
<1>10. new.rpcid = cpu_stack[c].rpcid /\ new.eventnum[1] = Owner(c) /\ TOS(new) # Sched
  BY <1>3, <1>7, <1>8, <1>9 DEF Owner, TOS
<1>11. new.eventnum = Front(s)
  BY <1>9 DEF Front, r
<1> QED
  BY <1>5, <1>10, <1>11

(* A switch to the owner changes nothing but the ambiguity; any other puts *)
(* the stack away and takes up the one that was put away before.           *)
LEMMA SwitchEdits ==
    ASSUME StackType, StacksNest, NEW e, e.cpu \in CPU, e.pid \in Pid,
           ProcessContextSwitch(e)
    PROVE  /\ \A d \in CPU \ {e.cpu} : cpu_stack'[d] = cpu_stack[d]
           /\ Owner(e.cpu) = e.pid =>
                 /\ UNCHANGED perpidstate
                 /\ cpu_stack'[e.cpu].eventnum = cpu_stack[e.cpu].eventnum
                 /\ cpu_stack'[e.cpu].rpcid = cpu_stack[e.cpu].rpcid
           /\ Owner(e.cpu) # e.pid =>
                 /\ cpu_stack'[e.cpu] = IF perpidstate[e.pid] = NoState
                                        THEN BrandNewPid(e.pid) ELSE perpidstate[e.pid]
                 /\ Owner(e.cpu) # Idle =>
                       /\ perpidstate'[Owner(e.cpu)].eventnum = cpu_stack[e.cpu].eventnum
                       /\ perpidstate'[Owner(e.cpu)].rpcid = cpu_stack[e.cpu].rpcid
                 /\ \A q \in Pid : (q # Owner(e.cpu) \/ q = Idle) =>
                       \/ perpidstate'[q] = perpidstate[q]
                       \/ q = e.pid /\ perpidstate'[q] = BrandNewPid(q)
<1> DEFINE c == e.cpu
           old == MarkAmbiguous(cpu_stack[c])
           p == old.eventnum[1]
           new == SwapStacks(old, e.pid)
           saved == [q \in Pid |->
              IF p = e.pid THEN perpidstate[q]
              ELSE IF q = p /\ p # Idle THEN old
              ELSE IF q = e.pid /\ perpidstate[q] = NoState THEN BrandNewPid(q)
              ELSE perpidstate[q]]
<1>1. GoodState(cpu_stack[c])
  BY StackFacts
<1>2. old.eventnum = cpu_stack[c].eventnum /\ old.rpcid = cpu_stack[c].rpcid
  BY <1>1 DEF MarkAmbiguous, GoodState, PidStates
<1>3. p = Owner(c) /\ Owner(c) \in Pid
  BY <1>1, <1>2, TopFacts DEF Owner, GoodState
<1>4. cpu_stack' = [cpu_stack EXCEPT ![c] = new] /\ perpidstate' = saved
  BY DEF ProcessContextSwitch
<1>5. cpu_stack'[c] = new /\ \A d \in CPU \ {c} : cpu_stack'[d] = cpu_stack[d]
  BY <1>4 DEF StackType
<1>6. CASE Owner(c) = e.pid
  <2>1. new = old
    BY <1>3, <1>6 DEF SwapStacks
  <2>2. saved = [q \in Pid |-> perpidstate[q]]
    BY <1>3, <1>6
  <2>3. perpidstate = [q \in Pid |-> perpidstate[q]]
    BY DEF StackType
  <2> HIDE DEF saved
  <2> QED
    BY <1>2, <1>4, <1>5, <1>6, <2>1, <2>2, <2>3
<1>7. CASE Owner(c) # e.pid
  <2>1. new = IF perpidstate[e.pid] = NoState THEN BrandNewPid(e.pid) ELSE perpidstate[e.pid]
    BY <1>3, <1>7 DEF SwapStacks
  <2>2. Owner(c) # Idle => perpidstate'[Owner(c)] = old
    BY <1>3, <1>4, <1>7
  <2>3. \A q \in Pid : (q # Owner(c) \/ q = Idle) =>
           perpidstate'[q] = perpidstate[q] \/ (q = e.pid /\ perpidstate'[q] = BrandNewPid(q))
    BY <1>3, <1>4, <1>7
  <2> HIDE DEF new, old
  <2> QED
    BY <1>2, <1>5, <1>7, <2>1, <2>2, <2>3
<1> QED
  BY <1>6, <1>7

(***************************************************************************)
(* Who owns the stacks, and their RPCs: steps of the converter             *)
(***************************************************************************)

(* What an event becomes.                                                  *)
Goes == event' = NoEvent \/ (NewRunnable(event) /\ event' = RunnableAfter(event))

LEMMA EventGoes ==
    ASSUME IInv, EventTrue, KType, ~Reading, UNCHANGED kvars, event' = event \/ Goes
    PROVE  EventTrue'
<1>1. now \in Nat
  BY DEF KType
<1>2. UNCHANGED <<now, ran>>
  BY DEF kvars
<1>3. CASE event' = event
  BY <1>2, <1>3 DEF EventTrue, Reading
<1>4. CASE event' = NoEvent
  BY <1>4 DEF EventTrue, Reading
<1>5. CASE NewRunnable(event) /\ event' = RunnableAfter(event)
  <2>1. event.kind # "wakeup"
    BY <1>5 DEF NewRunnable, IsAReturn, IsOptimizedCall, IsACall
  <2>2. event.ts = now /\ event.dur \in {0, 1} /\ ran.cpu = event.cpu
    BY <2>1 DEF EventTrue
  <2>3. /\ event'.kind = "wakeup" /\ event'.ts = now + event.dur /\ event'.dur = 1
        /\ event'.cpu = event.cpu
    BY <1>5, <2>2 DEF RunnableAfter
  <2> QED
    BY <1>1, <1>2, <2>2, <2>3 DEF EventTrue
<1> QED
  BY <1>3, <1>4, <1>5 DEF Goes

LEMMA QuietKeepsRInv ==
    ASSUME RInv, IInv, ~Reading, UNCHANGED kvars,
           NEW st, Edits(event.cpu, st), st.rpcid = cpu_stack[event.cpu].rpcid,
           st.eventnum[1] = Owner(event.cpu),
           event' = event \/ (event.kind \notin {"ctx", "rpc"} /\ Goes)
    PROVE  RInv'
<1> DEFINE c == event.cpu
<1>1. EventTrue'
  BY EventGoes DEF RInv
<1>2. UNCHANGED <<mix, now, on, thread, heard, fresh, working>>
  BY DEF kvars
<1>3. c \in CPU
  BY Converting
<1>4. UNCHANGED perpidstate
      /\ \A d \in CPU : Owner(d)' = Owner(d) /\ cpu_stack'[d].rpcid = cpu_stack[d].rpcid
  BY <1>3 DEF Edits, Owner
<1>5. \A d : /\ Converts(d, {"ctx"})' <=> Converts(d, {"ctx"})
             /\ Converts(d, {"rpc"})' <=> Converts(d, {"rpc"})
  <2>1. CASE event' = event
    BY <2>1 DEF Converts, Reading
  <2>2. CASE event.kind \notin {"ctx", "rpc"} /\ event' = NoEvent
    BY <2>2 DEF Converts, Reading
  <2>3. CASE event.kind \notin {"ctx", "rpc"} /\ event' = RunnableAfter(event)
    <3>1. event'.kind = "wakeup"
      BY <2>3 DEF RunnableAfter
    <3> QED
      BY <2>3, <3>1 DEF Converts
  <2> QED
    BY <2>1, <2>2, <2>3 DEF Goes
<1>6. \A d : /\ Converts(d, {"ctx"}) => event.pid = event'.pid
             /\ Converts(d, {"rpc"}) => event.arg = event'.arg
  BY DEF Converts
<1>7. \A d : Announced(d)' <=> Announced(d)
  BY <1>2 DEF Announced
<1>8. KType' /\ OneCPU'
  BY <1>2 DEF RInv, KType, OneCPU
<1>9. OwnersTrue'
  BY <1>2, <1>4, <1>5, <1>6, <1>7 DEF RInv, OwnersTrue
<1>10. RpcsTrue'
  BY <1>2, <1>4, <1>5, <1>6, <1>7 DEF RInv, RpcsTrue
<1> QED
  BY <1>1, <1>8, <1>9, <1>10 DEF RInv

(* The RPC that a process says it works on comes to its stack.             *)
LEMMA RpcKeepsRInv ==
    ASSUME RInv, IInv, ~Reading, UNCHANGED kvars, event.kind = "rpc", event' = NoEvent,
           NEW st, Edits(event.cpu, st), st.rpcid = event.arg,
           st.eventnum[1] = Owner(event.cpu)
    PROVE  RInv'
<1> DEFINE c == event.cpu
<1>1. EventTrue'
  BY EventGoes DEF RInv, Goes
<1>2. UNCHANGED <<mix, now, on, thread, heard, fresh, working>>
  BY DEF kvars
<1>3. c \in CPU
  BY Converting
<1>4. /\ UNCHANGED perpidstate
      /\ \A d \in CPU : Owner(d)' = Owner(d)
      /\ \A d \in CPU \ {c} : cpu_stack'[d].rpcid = cpu_stack[d].rpcid
      /\ cpu_stack'[c].rpcid = event.arg
  BY <1>3 DEF Edits, Owner
<1>5. \A d, K : ~Converts(d, K)'
  BY DEF Converts, Reading
<1>6. \A d : Converts(d, {"rpc"}) <=> d = c
  BY DEF Converts
<1>7. \A d : ~Converts(d, {"ctx"})
  BY DEF Converts
<1>8. \A d : Announced(d)' <=> Announced(d)
  BY <1>2 DEF Announced
<1>9. KType' /\ OneCPU'
  BY <1>2 DEF RInv, KType, OneCPU
<1>10. OwnersTrue'
  BY <1>2, <1>4, <1>5, <1>7, <1>8 DEF RInv, OwnersTrue
<1>11. Owner(c) # Idle => cpu_stack'[c].rpcid = working[Owner(c)]
  <2>1. Owner(c) \in {Idle, on[c]}
    BY <1>3, <1>7 DEF RInv, OwnersTrue
  <2> QED
    BY <1>3, <1>4, <1>6, <2>1 DEF RInv, RpcsTrue
<1>12. RpcsTrue'
  BY <1>2, <1>4, <1>5, <1>6, <1>8, <1>11 DEF RInv, RpcsTrue
<1> QED
  BY <1>1, <1>9, <1>10, <1>12 DEF RInv

LEMMA ContextKeepsRInv ==
    ASSUME RInv, IInv, ~Reading, UNCHANGED kvars, event.kind = "ctx", event' = NoEvent,
           ProcessContextSwitch(event), NEW c, c = event.cpu
    PROVE  RInv'
<1> DEFINE q == event.pid
           p == Owner(c)
<1>1. EventTrue'
  BY EventGoes DEF RInv, Goes
<1>2. UNCHANGED <<mix, now, on, thread, heard, fresh, working>>
  BY DEF kvars
<1>3. c \in CPU /\ q \in Pid /\ StackType /\ StacksNest
  BY Converting DEF IInv
<1>4. \A d, K : ~Converts(d, K)'
  BY DEF Converts, Reading
<1>5. \A d : ~Converts(d, {"rpc"}) /\ (Converts(d, {"ctx"}) <=> d = c)
  BY DEF Converts
<1>6. \A d : Announced(d)' <=> Announced(d)
  BY <1>2 DEF Announced
<1>7. KType' /\ OneCPU'
  BY <1>2 DEF RInv, KType, OneCPU
<1>8. Announced(c) /\ q = on[c] /\ (\A d \in CPU : Owner(d) = q => q = Idle)
  BY <1>3, <1>5 DEF RInv, OwnersTrue
<1>9. p \in Pid
  BY <1>3, StackFacts, TopFacts DEF GoodState, Owner
<1>10. /\ \A d \in CPU \ {c} : cpu_stack'[d] = cpu_stack[d] /\ Owner(d)' = Owner(d)
       /\ p = q => /\ UNCHANGED perpidstate /\ Owner(c)' = p
                   /\ cpu_stack'[c].rpcid = cpu_stack[c].rpcid
       /\ p # q =>
             /\ cpu_stack'[c] = IF perpidstate[q] = NoState THEN BrandNewPid(q)
                                                            ELSE perpidstate[q]
             /\ p # Idle => /\ perpidstate'[p].eventnum[1] = p
                            /\ perpidstate'[p].rpcid = cpu_stack[c].rpcid
             /\ \A r \in Pid : (r # p \/ r = Idle) =>
                   \/ perpidstate'[r] = perpidstate[r]
                   \/ r = q /\ perpidstate'[r] = BrandNewPid(r)
  <2>1. \A d \in CPU \ {c} : cpu_stack'[d] = cpu_stack[d]
    BY <1>3, SwitchEdits
  <2>2. p = q => /\ UNCHANGED perpidstate /\ cpu_stack'[c].eventnum = cpu_stack[c].eventnum
                 /\ cpu_stack'[c].rpcid = cpu_stack[c].rpcid
    BY <1>3, SwitchEdits
  <2>3. p # q =>
             /\ cpu_stack'[c] = IF perpidstate[q] = NoState THEN BrandNewPid(q)
                                                            ELSE perpidstate[q]
             /\ p # Idle => /\ perpidstate'[p].eventnum = cpu_stack[c].eventnum
                            /\ perpidstate'[p].rpcid = cpu_stack[c].rpcid
             /\ \A r \in Pid : (r # p \/ r = Idle) =>
                   \/ perpidstate'[r] = perpidstate[r]
                   \/ r = q /\ perpidstate'[r] = BrandNewPid(r)
    BY <1>3, SwitchEdits
  <2> QED
    BY <2>1, <2>2, <2>3 DEF Owner
<1>11. \A r \in Pid : BrandNewPid(r).eventnum[1] = r /\ BrandNewPid(r).rpcid = 0
  BY DEF BrandNewPid
<1>12. Owner(c)' = q
  <2>1. CASE p = q
    BY <1>10, <2>1
  <2>2. CASE p # q
    BY <1>3, <1>10, <1>11, <2>2 DEF RInv, RpcsTrue, Owner
  <2> QED
    BY <2>1, <2>2
<1>13. \A r \in Pid : perpidstate'[r] = NoState \/ perpidstate'[r].eventnum[1] = r
  <2> TAKE r \in Pid
  <2>1. CASE p = q
    BY <1>10, <2>1 DEF RInv, RpcsTrue
  <2>2. CASE p # q
    BY <1>10, <1>11, <2>2 DEF RInv, RpcsTrue
  <2> QED
    BY <2>1, <2>2
<1>14. \A d \in CPU \ {c} : on[d] = q => q = Idle
  BY <1>3, <1>8 DEF RInv, OneCPU
<1>15. OwnersTrue'
  <2>1. ASSUME NEW d \in CPU, ~Announced(d)'
        PROVE  /\ Owner(d)' = Idle
               /\ on'[d] # Idle => /\ perpidstate'[on'[d]] = NoState
                                   /\ \A f \in CPU : Owner(f)' # on'[d]
    <3>1. /\ d # c /\ ~Announced(d) /\ Owner(d) = Idle
          /\ on[d] # Idle => /\ perpidstate[on[d]] = NoState
                             /\ \A f \in CPU : Owner(f) # on[d]
      BY <1>6, <1>8, <2>1 DEF RInv, OwnersTrue
    <3>2. ASSUME on[d] # Idle
          PROVE  perpidstate'[on[d]] = NoState /\ \A f \in CPU : Owner(f)' # on[d]
      <4>1. on[d] # q /\ on[d] \in Pid
        BY <1>14, <3>1, <3>2 DEF RInv, KType
      <4>2. on[d] # p
        BY <1>3, <3>1, <3>2
      <4>3. perpidstate'[on[d]] = perpidstate[on[d]]
        BY <1>10, <4>1, <4>2
      <4> QED
        BY <1>10, <1>12, <3>1, <3>2, <4>1, <4>3
    <3> QED
      BY <1>2, <1>10, <3>1, <3>2
  <2>2. \A d \in CPU : Announced(d)' => Owner(d)' = on'[d]
    BY <1>2, <1>5, <1>6, <1>8, <1>10, <1>12 DEF RInv, OwnersTrue
  <2>3. \A d, f \in CPU : Owner(d)' = Owner(f)' /\ Owner(d)' # Idle => d = f
    BY <1>8, <1>10, <1>12 DEF RInv, OwnersTrue
  <2> QED
    BY <1>4, <2>1, <2>2, <2>3 DEF OwnersTrue
<1>16. \A d \in CPU : Owner(d)' # Idle => cpu_stack'[d].rpcid = working[Owner(d)']
  <2> TAKE d \in CPU
  <2>1. CASE d # c
    BY <1>5, <1>10, <2>1 DEF RInv, RpcsTrue
  <2>2. CASE d = c /\ p = q
    BY <1>5, <1>10, <1>12, <2>2 DEF RInv, RpcsTrue
  <2>3. CASE d = c /\ p # q /\ q # Idle
    <3>1. q \in Proc /\ \A f \in CPU : Owner(f) # q /\ (on[f] = q => Announced(f))
      BY <1>3, <1>8, <1>14, <2>3 DEF Proc
    <3>2. perpidstate[q].rpcid = working[q]
      BY <3>1 DEF RInv, RpcsTrue
    <3>3. perpidstate[q] = NoState => working[q] = 0
      BY <3>2 DEF NoState
    <3> QED
      BY <1>3, <1>10, <1>11, <1>12, <2>3, <3>2, <3>3
  <2> QED
    BY <1>12, <2>1, <2>2, <2>3
<1>17. ASSUME NEW r \in Proc,
              \A d \in CPU : Owner(d)' # r /\ (on'[d] = r => Announced(d)')
       PROVE  perpidstate'[r].rpcid = working[r]
  <2>1. r # q /\ r \in Pid /\ r # Idle
    BY <1>3, <1>12, <1>17 DEF Proc
  <2>2. CASE p = r
    <3>1. cpu_stack[c].rpcid = working[p]
      BY <1>3, <1>5, <2>1, <2>2 DEF RInv, RpcsTrue
    <3> QED
      BY <1>10, <2>1, <2>2, <3>1
  <2>3. CASE p # r
    <3>1. \A d \in CPU : Owner(d) # r /\ (on[d] = r => Announced(d))
      BY <1>2, <1>6, <1>10, <1>17, <2>3
    <3>2. perpidstate[r].rpcid = working[r]
      BY <3>1 DEF RInv, RpcsTrue
    <3>3. perpidstate'[r] = perpidstate[r]
      BY <1>10, <2>1, <2>3
    <3> QED
      BY <3>2, <3>3
  <2> QED
    BY <2>2, <2>3
<1>18. RpcsTrue'
  BY <1>2, <1>4, <1>13, <1>16, <1>17 DEF RpcsTrue
<1> QED
  BY <1>1, <1>7, <1>15, <1>18 DEF RInv

(* What makes each of the fix-ups go well.                                 *)
Inserts(ts) ==
    /\ ~Reading /\ UNCHANGED event /\ event.cpu \in CPU /\ event \in Lines
    /\ 1 < Len(Stack.eventnum) /\ ProcessReturn(ReturnAt(ts))

LEMMA FixupFacts ==
    ASSUME IInv
    PROVE  /\ FixupReturnPop => \E ts \in {event.ts, span_start_time} : Inserts(ts)
           /\ FixupSched => Inserts(ctx_switch_ts[event.cpu])
           /\ FixupCall => Inserts(event.ts)
<1>1. ASSUME FixupReturnPop PROVE \E ts \in {event.ts, span_start_time} : Inserts(ts)
  <2>1. ~Reading /\ UNCHANGED event
    BY <1>1 DEF FixupReturnPop
  <2>2. 1 < Len(Stack.eventnum)
    <3>1. CASE CallFound(event)
      BY <3>1, <2>1, Converting DEF CallFound
    <3>2. CASE NestLevel(event.num) <= NestLevel(TOS(Stack))
      <4>1. event.num \in Call
        BY <1>1, <2>1, Converting DEF FixupReturnPop, IsAReturn
      <4>2. NestLevel(event.num) \in 1 .. 4
        BY <4>1, LevelFacts
      <4> QED
        BY <2>1, <3>2, <4>2, Converting
    <3> QED
      BY <1>1, <3>1, <3>2 DEF FixupReturnPop
  <2> QED
    BY <1>1, <2>1, <2>2, Converting DEF FixupReturnPop, Inserts
<1>2. ASSUME FixupSched PROVE Inserts(ctx_switch_ts[event.cpu])
  <2>1. ~Reading /\ UNCHANGED event /\ TOS(Stack) = Sched
        /\ ProcessReturn(ReturnAt(ctx_switch_ts[event.cpu]))
    BY <1>2 DEF FixupSched, NeedsSched
  <2> QED
    BY <2>1, Converting, LevelFacts DEF Inserts
<1>3. ASSUME FixupCall PROVE Inserts(event.ts)
  <2>1. ~Reading /\ UNCHANGED event /\ event.kind = "call"
        /\ NestLevel(event.num) <= NestLevel(TOS(Stack))
        /\ ProcessReturn(ReturnAt(event.ts))
    BY <1>3 DEF FixupCall, NeedsPop, IsACall
  <2>2. NestLevel(event.num) \in 1 .. 4
    BY <2>1, Converting, LevelFacts
  <2> QED
    BY <2>1, <2>2, Converting DEF Inserts
<1> QED
  BY <1>1, <1>2, <1>3

LEMMA InsertedReturnEdits ==
    ASSUME IInv, NEW ts, Inserts(ts)
    PROVE  \E st : Pops(event.cpu, st)
                   /\ cur_span' = [cur_span EXCEPT ![event.cpu] = StartSpan(ReturnAt(ts), TOS(st))]
<1> DEFINE e == ReturnAt(ts)
<1>1. IsAReturn(e) /\ e.cpu = event.cpu /\ e.num = TOS(Stack) /\ event.cpu \in CPU
  BY InsertedReturn DEF Inserts
<1>2. cpu_stack[e.cpu] = Stack /\ 1 < Len(Stack.eventnum)
  BY <1>1 DEF Stack, Inserts
<1>3. ~(NestLevel(e.num) < NestLevel(TOS(Stack)))
  BY <1>1, Converting DEF Inserts
<1>4. StackType /\ StacksNest
  BY DEF IInv
<1>5. ProcessReturn(e)
  BY DEF Inserts
<1> HIDE DEF e
<1>6. \E st : Pops(e.cpu, st) /\ cur_span' = [cur_span EXCEPT ![e.cpu] = StartSpan(e, TOS(st))]
  BY <1>1, <1>2, <1>3, <1>4, <1>5, ReturnEdits
<1> QED
  BY <1>1, <1>6 DEF e

MissingCall == [event EXCEPT !.kind = "call", !.arg = Idle, !.ts = span_start_time, !.dur = 0]

LEMMA InsertedCallEdits ==
    ASSUME IInv, FixupReturnCall
    PROVE  /\ ~Reading /\ UNCHANGED event /\ event.cpu \in CPU /\ IsAReturn(event)
           /\ MissingCall.cpu = event.cpu /\ MissingCall.num = event.num
           /\ MissingCall.ts = span_start_time /\ ~IsOptimizedCall(MissingCall)
           /\ ProcessCall(MissingCall)
           /\ \E st : Pushes(event.cpu, st, MissingCall)
<1>1. ~Reading /\ UNCHANGED event /\ IsAReturn(event) /\ ProcessCall(MissingCall)
      /\ NestLevel(TOS(Stack)) < NestLevel(event.num)
  BY DEF FixupReturnCall, MissingCall
<1>2. event \in Lines /\ event.cpu \in CPU /\ event.num \in Call
  BY <1>1, Converting DEF IsAReturn
<1>3. MissingCall.cpu = event.cpu /\ MissingCall.num = event.num
      /\ MissingCall.ts = span_start_time /\ MissingCall.dur = 0
  BY <1>2 DEF Lines, MissingCall
<1>4. NestLevel(TOS(cpu_stack[MissingCall.cpu])) < NestLevel(MissingCall.num)
  BY <1>1, <1>3 DEF Stack
<1>5. \E st : Pushes(MissingCall.cpu, st, MissingCall)
  BY <1>1, <1>2, <1>3, <1>4, CallEdits DEF IInv
<1> QED
  BY <1>1, <1>2, <1>3, <1>5 DEF IsOptimizedCall

(* The event itself.                                                       *)
LEMMA EventEdits ==
    ASSUME IInv, ProcessEvent
    PROVE  /\ ~Reading /\ Settled /\ event.cpu \in CPU /\ event \in Lines /\ Goes
           /\ mwait_pending[event.cpu] < 0 /\ UNCHANGED span_start_time
           /\ \/ /\ event.kind = "call" /\ ProcessCall(event)
                 /\ \E st : Pushes(event.cpu, st, event)
              \/ /\ event.kind = "ret" /\ ProcessReturn(event)
                 /\ \E st : /\ Pops(event.cpu, st)
                            /\ cur_span' = [cur_span EXCEPT ![event.cpu] =
                                               StartSpan(event, TOS(st))]
              \/ event.kind = "ctx" /\ ProcessContextSwitch(event) /\ event' = NoEvent
              \/ /\ event.kind \in {"rpc", "mark", "mwait", "mwait_exit"}
                 /\ ProcessSplit(event) /\ event' = NoEvent
                 /\ \E st : /\ Settles(event.cpu, st, event)
                            /\ st.rpcid = IF event.kind = "rpc" THEN event.arg
                                          ELSE cpu_stack[event.cpu].rpcid
              \/ /\ event.kind \in {"sample", "wakeup", "ipi", "monitor_store", "other"}
                 /\ ProcessPoint(event) /\ event' = NoEvent
                 /\ \E st : /\ Settles(event.cpu, st, event)
                            /\ st.rpcid = cpu_stack[event.cpu].rpcid
<1>1. ~Reading /\ Settled /\ mwait_pending[event.cpu] < 0 /\ Goes /\ UNCHANGED span_start_time
  BY DEF ProcessEvent, Settled, Goes
<1>2. event \in Lines /\ event.cpu \in CPU /\ event.pid \in Pid /\ event.arg \in Args
      /\ StackType /\ StacksNest
  BY <1>1, Converting DEF IInv
<1>3. event.kind \notin {"call", "ret"} => event' = NoEvent
  BY DEF ProcessEvent, NewRunnable, IsAReturn, IsOptimizedCall, IsACall
<1>4. CASE event.kind = "call" /\ ProcessCall(event)
  <2>1. event.num \in Call
    BY <1>1, <1>4, Converting
  <2>2. NestLevel(TOS(Stack)) < NestLevel(event.num)
    BY <1>1, <1>4, <2>1, Converting, LevelFacts DEF Settled, NeedsPop, IsACall
  <2>3. \E st : Pushes(event.cpu, st, event)
    BY <1>2, <1>4, <2>1, <2>2, CallEdits DEF Stack
  <2> QED
    BY <1>1, <1>2, <1>4, <2>3
<1>5. CASE event.kind = "ret" /\ ProcessReturn(event)
  <2>1. Matches(event) /\ event.num \in Call /\ IsAReturn(event)
    BY <1>1, <1>5, Converting DEF Settled, IsAReturn
  <2>2. 1 < Len(Stack.eventnum) /\ ~(NestLevel(event.num) < NestLevel(TOS(Stack)))
    BY <1>1, <2>1, Converting, LevelFacts DEF Matches
  <2>3. \E st : Pops(event.cpu, st)
                /\ cur_span' = [cur_span EXCEPT ![event.cpu] = StartSpan(event, TOS(st))]
    BY <1>2, <1>5, <2>1, <2>2, ReturnEdits DEF Stack
  <2> QED
    BY <1>1, <1>2, <1>5, <2>3
<1>6. CASE event.kind = "ctx" /\ ProcessContextSwitch(event)
  BY <1>1, <1>2, <1>3, <1>6
<1>7. CASE event.kind \in {"rpc", "mark", "mwait", "mwait_exit"} /\ ProcessSplit(event)
  BY <1>1, <1>2, <1>3, <1>7, SplitEdits
<1>8. CASE event.kind \in {"sample", "wakeup", "ipi", "monitor_store", "other"}
           /\ ProcessPoint(event)
  BY <1>1, <1>2, <1>3, <1>8, ResolveEdits
<1> QED
  BY <1>4, <1>5, <1>6, <1>7, <1>8 DEF ProcessEvent

Cexit(ts, dur) == [event EXCEPT !.kind = "cexit", !.ts = ts, !.dur = dur]

LEMMA CexitEdits ==
    ASSUME IInv, FixupCexit
    PROVE  /\ ~Reading /\ Settled /\ UNCHANGED <<event, span_start_time>>
           /\ event.cpu \in CPU /\ event \in Lines
           /\ \E st : /\ Settles(event.cpu, st, event) /\ st.rpcid = cpu_stack[event.cpu].rpcid
                      /\ TOS(st) = TOS(cpu_stack[event.cpu])
                      /\ st.eventnum = cpu_stack[event.cpu].eventnum
<1>1. ~Reading /\ UNCHANGED <<event, span_start_time>> /\ Settled
  BY DEF FixupCexit, Settled
<1>2. event \in Lines /\ event.cpu \in CPU /\ StackType /\ StacksNest
  BY <1>1, Converting DEF IInv
<1>3. CASE UNCHANGED <<cpuvars, switchvars>>
  <2>1. Settles(event.cpu, cpu_stack[event.cpu], event)
    BY <1>3 DEF cpuvars, switchvars, Settles, Edits, Owner, Bases
  <2> QED
    BY <1>1, <1>2, <2>1
<1>4. CASE \E ts, dur : ProcessCexit(Cexit(ts, dur))
  <2>1. PICK ts, dur : ProcessCexit(Cexit(ts, dur))
    BY <1>4
  <2>2. Cexit(ts, dur).cpu = event.cpu /\ Cexit(ts, dur).kind = "cexit"
    BY <1>2 DEF Lines, Cexit
  <2>3. PICK st : Settles(event.cpu, st, Cexit(ts, dur)) /\ st.rpcid = cpu_stack[event.cpu].rpcid
    BY <1>2, <2>1, <2>2, ResolveEdits
  <2>4. ~OnlyInUserMode(Cexit(ts, dur))
    BY <2>2 DEF OnlyInUserMode, IsACall
  <2>5. Settles(event.cpu, st, event) /\ TOS(st) = TOS(cpu_stack[event.cpu])
        /\ st.eventnum = cpu_stack[event.cpu].eventnum
    BY <2>2, <2>3, <2>4 DEF Settles, Bases
  <2> QED
    BY <1>1, <1>2, <2>3, <2>5
<1>5. \/ UNCHANGED <<cpuvars, switchvars>>
      \/ \E ts, dur : ProcessCexit(Cexit(ts, dur))
  <2>1. \/ UNCHANGED <<cpuvars, switchvars, pendingvars, ctx_switch_ts,
                       pidRunning, priorPidEvent, priorPidEnd, outvars>>
        \/ \E ts, dur : ProcessCexit([event EXCEPT !.kind = "cexit", !.ts = ts, !.dur = dur])
    BY Zenon DEF FixupCexit
  <2> QED
    BY <2>1, Zenon DEF Cexit
<1> QED
  BY <1>3, <1>4, <1>5

LEMMA ConvertKeepsRInv ==
    ASSUME RInv, IInv, Convert, UNCHANGED kvars
    PROVE  RInv'
<1>1. ASSUME NEW ts, Inserts(ts) PROVE RInv'
  <2>1. PICK st : Pops(event.cpu, st)
    BY <1>1, InsertedReturnEdits
  <2> QED
    BY <1>1, <2>1, QuietKeepsRInv DEF Inserts, Pops
<1>2. CASE FixupReturnPop \/ FixupSched \/ FixupCall
  BY <1>1, <1>2, FixupFacts
<1>3. CASE FixupReturnCall
  BY <1>3, InsertedCallEdits, QuietKeepsRInv DEF Pushes
<1>4. CASE FixupResched
  <2>1. ~Reading /\ event' = event
    BY <1>4 DEF FixupResched
  <2> QED
    BY <1>4, <2>1, ReschedEdits, QuietKeepsRInv
<1>5. CASE FixupCexit
  BY <1>5, CexitEdits, QuietKeepsRInv DEF Settles
<1>6. CASE ProcessEvent
  <2>1. ~Reading /\ Goes
    BY <1>6, EventEdits
  <2>2. CASE event.kind = "call" /\ \E st : Pushes(event.cpu, st, event)
    BY <2>1, <2>2, QuietKeepsRInv DEF Pushes
  <2>3. CASE event.kind = "ret" /\ \E st : Pops(event.cpu, st)
    BY <2>1, <2>3, QuietKeepsRInv DEF Pops
  <2>4. CASE event.kind = "ctx" /\ ProcessContextSwitch(event) /\ event' = NoEvent
    BY <2>1, <2>4, ContextKeepsRInv
  <2>5. CASE /\ event.kind \in {"rpc", "mark", "mwait", "mwait_exit"} /\ event' = NoEvent
             /\ \E st : /\ Settles(event.cpu, st, event)
                        /\ st.rpcid = IF event.kind = "rpc" THEN event.arg
                                      ELSE cpu_stack[event.cpu].rpcid
    <3>1. PICK st : /\ Edits(event.cpu, st) /\ st.eventnum[1] = Owner(event.cpu)
                    /\ st.rpcid = IF event.kind = "rpc" THEN event.arg
                                  ELSE cpu_stack[event.cpu].rpcid
      BY <2>5 DEF Settles
    <3>2. CASE event.kind = "rpc"
      BY <2>1, <2>5, <3>1, <3>2, RpcKeepsRInv
    <3>3. CASE event.kind # "rpc"
      BY <2>1, <2>5, <3>1, <3>3, QuietKeepsRInv
    <3> QED
      BY <3>2, <3>3
  <2>6. CASE /\ event.kind \in {"sample", "wakeup", "ipi", "monitor_store", "other"}
             /\ event' = NoEvent
             /\ \E st : /\ Settles(event.cpu, st, event)
                        /\ st.rpcid = cpu_stack[event.cpu].rpcid
    BY <2>1, <2>6, QuietKeepsRInv DEF Settles
  <2> QED
    BY <1>6, <2>2, <2>3, <2>4, <2>5, <2>6, EventEdits
<1> QED
  BY <1>2, <1>3, <1>4, <1>5, <1>6 DEF Convert

LEMMA KInitRInv ==
    ASSUME KInit
    PROVE  RInv
<1>1. /\ mix \in Mixes /\ now = 0 /\ on \in [CPU -> mix.procs \cup {Idle}]
      /\ \A c, d \in CPU : c # d /\ on[c] = on[d] => on[c] = Idle
      /\ fresh \in SUBSET (mix.fresh \ {on[c] : c \in CPU})
      /\ thread \in [Task -> mix.begin \cup {<<>>, <<Sched>>}]
      /\ heard = [c \in CPU |-> "nothing"] /\ working = [p \in Proc |-> 0]
  BY DEF KInit
<1>2. /\ event = NoEvent /\ cpu_stack = [c \in CPU |-> IdleStack]
      /\ perpidstate = [p \in Pid |-> IF p = Idle THEN BrandNewPid(Idle) ELSE NoState]
  BY DEF KInit, Init
<1>3. /\ mix.procs \subseteq Proc /\ mix.fresh \subseteq Proc /\ mix.begin \subseteq Seq(Call)
      /\ Idle \in Pid /\ 0 \in Rpcs /\ Sched \in Call
  BY <1>1, MixAssumption, CallAssumption, LevelFacts
<1>4. KType
  <2>1. on \in [CPU -> Pid]
    BY <1>1, <1>3 DEF Proc
  <2>2. <<>> \in Seq(Call) /\ <<Sched>> \in Seq(Call)
    BY <1>3
  <2>3. \A s \in mix.begin \cup {<<>>, <<Sched>>} : s \in Seq(Call)
    BY <1>3, <2>2
  <2>4. thread \in [Task -> Seq(Call)]
    BY <1>1, <2>3
  <2> QED
    BY <1>1, <1>3, <2>1, <2>4 DEF KType
<1>5. OneCPU
  BY <1>1 DEF OneCPU
<1>6. EventTrue
  BY <1>2 DEF EventTrue, Reading
<1>7. \A d, K : ~Converts(d, K)
  BY <1>2 DEF Converts, Reading
<1>8. \A c \in CPU : Owner(c) = Idle /\ ~Announced(c) /\ on[c] \in Pid
  BY <1>1, <1>2, <1>4 DEF Owner, Announced, IdleStack, KType
<1>9. /\ \A p \in Proc : perpidstate[p] = NoState
      /\ perpidstate[Idle].eventnum[1] = Idle
  BY <1>2, <1>3 DEF Proc, BrandNewPid
<1>10. OwnersTrue
  BY <1>7, <1>8, <1>9 DEF OwnersTrue, Proc
<1>11. RpcsTrue
  BY <1>1, <1>7, <1>8, <1>9 DEF RpcsTrue, Proc, NoState
<1> QED
  BY <1>4, <1>5, <1>6, <1>10, <1>11 DEF RInv

(* A step of the traced kernel is one that the converter takes anyway.     *)
LEMMA NextConverts ==
    ASSUME KType, [Next]_allvars
    PROVE  [ConvNext]_vars
<1>1. CASE UNCHANGED allvars
  BY <1>1 DEF allvars
<1>2. CASE Kernel
  <2>1. PICK c \in CPU : KernelStep(c)
    BY <1>2, KernelSteps
  <2>2. event' \in Event /\ Read(event')
    BY <2>1, KernelReads DEF Hands
  <2> QED
    BY <2>2 DEF ConvNext
<1>3. CASE Convert
  BY <1>3 DEF ConvNext
<1> QED
  BY <1>1, <1>2, <1>3 DEF Next

LEMMA NextKeepsRInv ==
    ASSUME RInv, IInv, [Next]_allvars
    PROVE  RInv'
<1>1. CASE UNCHANGED allvars
  <2>1. UNCHANGED <<event, cpu_stack, perpidstate, mix, now, on, thread, heard, fresh,
                    working, ran>>
    BY <1>1 DEF allvars, vars, kvars, convvars, cpuvars, switchvars
  <2>2. KType' /\ OneCPU' /\ EventTrue'
    BY <2>1 DEF RInv, KType, OneCPU, EventTrue, Reading
  <2>3. OwnersTrue'
    BY <2>1 DEF RInv, OwnersTrue, Owner, Announced, Converts, Reading
  <2>4. RpcsTrue'
    BY <2>1 DEF RInv, RpcsTrue, Owner, Announced, Converts, Reading
  <2> QED
    BY <2>2, <2>3, <2>4 DEF RInv
<1>2. CASE Kernel
  <2>1. PICK c \in CPU : KernelStep(c)
    BY <1>2, KernelSteps DEF RInv
  <2> QED
    BY <2>1, KernelKeepsRInv
<1>3. CASE Convert /\ UNCHANGED kvars
  BY <1>3, ConvertKeepsRInv
<1> QED
  BY <1>1, <1>2, <1>3 DEF Next

(* The traced kernel is one of the environments of the converter: all that *)
(* is proved for any input holds for what the kernel traces.               *)
THEOREM KernelIsAnInput == Spec => ConvSpec
<1>1. KInit => Init /\ IInv /\ RInv
  BY InitHolds, KInitRInv DEF KInit
<1>2. IInv /\ RInv /\ [Next]_allvars => [ConvNext]_vars /\ IInv' /\ RInv'
  <2> SUFFICES ASSUME IInv, RInv, [Next]_allvars PROVE [ConvNext]_vars /\ IInv' /\ RInv'
    OBVIOUS
  <2>1. [ConvNext]_vars
    BY NextConverts DEF RInv
  <2> QED
    BY <2>1, NextHolds, NextKeepsRInv
<1> QED
  BY <1>1, <1>2, PTL DEF Spec, ConvSpec

LEMMA KernelInv == Spec => [](IInv /\ RInv)
<1>1. KInit => IInv /\ RInv
  BY InitHolds, KInitRInv DEF KInit
<1>2. IInv /\ RInv /\ [Next]_allvars => IInv' /\ RInv'
  <2> SUFFICES ASSUME IInv, RInv, [Next]_allvars PROVE IInv' /\ RInv'
    OBVIOUS
  <2>1. [ConvNext]_vars
    BY NextConverts DEF RInv
  <2> QED
    BY <2>1, NextHolds, NextKeepsRInv
<1> QED
  BY <1>1, <1>2, PTL DEF Spec

(* Whatever the processes do and wherever they run, the converter knows    *)
(* the RPC of each CPU: perpidstate brings it back with the process, and   *)
(* the header starts it at none.                                           *)
THEOREM RpcTrueHolds == Spec => []RpcTrue
<1>1. IInv /\ RInv => RpcTrue
  <2> SUFFICES ASSUME RInv, Reading, NEW c \in mix.cpus,
                      heard[c] \in {"header", "call"}, on[c] # Idle
               PROVE  cpu_stack[c].rpcid = working[on[c]]
    BY DEF RpcTrue
  <2>1. c \in CPU /\ Announced(c) /\ \A K : ~Converts(c, K)
    BY MixFacts DEF RInv, Announced, Converts
  <2> QED
    BY <2>1 DEF RInv, OwnersTrue, RpcsTrue
<1> QED
  BY <1>1, KernelInv, PTL

(***************************************************************************)
(* Who is inside the scheduler: steps of the kernel                        *)
(***************************************************************************)

LEMMA OtherTasks ==
    ASSUME KType, OneCPU, NEW c \in CPU, NEW d \in CPU, c # d
    PROVE  TaskOn(c) # TaskOn(d)
  BY TaskFacts DEF OneCPU, Proc, TaskOn

LEMMA AtTop ==
    ASSUME KType, NEW c \in CPU
    PROVE  /\ TopCall(c) = Sched <=> Asleep(thread[TaskOn(c)])
           /\ TopCall(c) \in Pid \cup Call
           /\ thread[TaskOn(c)] = <<>> => TopCall(c) = on[c]
           /\ thread[TaskOn(c)] # <<>>
                => TopCall(c) = thread[TaskOn(c)][Len(thread[TaskOn(c)])]
<1> DEFINE s == thread[TaskOn(c)]
<1>1. s \in Seq(Call) /\ on[c] \in Pid
  BY TaskFacts
<1>2. CASE s = <<>>
  <2>1. TopCall(c) = on[c]
    BY <1>2 DEF TopCall
  <2> QED
    BY <1>1, <1>2, <2>1, LevelFacts DEF Asleep
<1>3. CASE s # <<>>
  <2>1. TopCall(c) = s[Len(s)]
    BY <1>3 DEF TopCall
  <2>2. Len(s) \in Nat \ {0}
    BY <1>1, <1>3, EmptySeq
  <2>3. s[Len(s)] \in Call
    BY <1>1, <2>2, ElementOfSeq
  <2> QED
    BY <1>3, <2>1, <2>3 DEF Asleep
<1> QED
  BY <1>2, <1>3

(* What a step of CPU c leaves alone on the others.                        *)
OnlyOn(c) ==
    /\ \A d \in CPU \ {c} : /\ on'[d] = on[d] /\ thread'[TaskOn(d)] = thread[TaskOn(d)]
                            /\ heard'[d] = heard[d]
    /\ fresh \ {TaskOn(c)} \subseteq fresh'

LEMMA OthersKeepSched ==
    ASSUME KType, OneCPU, SchedTrue, NEW c \in CPU, Hands(c), OnlyOn(c),
           event'.kind \in Points => SchedAt(c)', SchedAfter(c)'
    PROVE  SchedTrue'
<1>1. \A d, K : ~Converts(d, K)
  BY HandsConverts
<1>2. \A d, K : Converts(d, K)' <=> d = c /\ event'.kind \in K
  BY HandsConverts
<1>3. UNCHANGED <<cpu_stack, perpidstate>>
  BY HandsConverts
<1>4. mix' = mix
      /\ (~mix.intr => \A p \in Pid : perpidstate'[p] = NoState \/ TOS(perpidstate'[p]) = Sched)
  BY <1>3 DEF SchedTrue, Hands
<1>5. ASSUME NEW d \in CPU \ {c} PROVE SchedAt(d)'
  <2>1. SchedAt(d)
    BY <1>1 DEF SchedTrue
  <2>2. on'[d] = on[d] /\ thread'[TaskOn(d)] = thread[TaskOn(d)] /\ heard'[d] = heard[d]
    BY DEF OnlyOn
  <2>3. TaskOn(d)' = TaskOn(d)
    BY <2>2 DEF TaskOn
  <2>4. TopCall(d)' = TopCall(d)
    BY <2>2, <2>3 DEF TopCall
  <2>5. on[d] \in fresh => on'[d] \in fresh'
    <3>1. on[d] \in fresh => on[d] # TaskOn(c)
      <4>1. TaskOn(d) # TaskOn(c)
        BY OtherTasks
      <4>2. on[d] \in fresh => on[d] # Idle
        BY DEF KType, Proc
      <4> QED
        BY <4>1, <4>2 DEF TaskOn
    <3> QED
      BY <2>2, <3>1 DEF OnlyOn
  <2> QED
    BY <1>3, <1>4, <2>1, <2>2, <2>4, <2>5 DEF SchedAt, Announced
<1>6. ASSUME NEW d \in CPU, ~Converts(d, {"call", "ret", "ctx"})' PROVE SchedAt(d)'
  <2>1. CASE d # c
    BY <1>5, <2>1
  <2>2. CASE d = c
    <3>1. event'.kind \notin {"call", "ret", "ctx"}
      BY <1>2, <1>6, <2>2
    <3>2. event' \in Event
      BY DEF Hands
    <3>3. event'.kind \in Points
      BY <3>1, <3>2 DEF Event
    <3> QED
      BY <2>2, <3>3
  <2> QED
    BY <2>1, <2>2
<1>7. ASSUME NEW d \in CPU, event'.cpu = d PROVE SchedAfter(d)'
  <2>1. d = c
    BY <1>7 DEF Hands
  <2> QED
    BY <2>1
<1> QED
  BY <1>4, <1>6, <1>7 DEF SchedTrue

(* One task takes up or leaves calls, and is new no longer if it does.     *)
LEMMA ThreadKeeps ==
    ASSUME KType, OneCPU, ThreadsTrue, NEW c \in CPU, NEW s, ~mix.intr => Innermost(s),
           UNCHANGED <<mix, on>>, thread' = [thread EXCEPT ![TaskOn(c)] = s],
           fresh' = fresh \ {TaskOn(c)}
    PROVE  ThreadsTrue'
<1> DEFINE t == TaskOn(c)
<1>1. t \in Task /\ thread'[t] = s /\ \A u \in Task \ {t} : thread'[u] = thread[u]
  BY TaskFacts DEF KType
<1>2. ~mix.intr => \A u \in Task : Innermost(thread'[u])
  BY <1>1 DEF ThreadsTrue
<1>3. fresh \subseteq Proc /\ Proc \subseteq Task /\ CPU \subseteq Task
  BY DEF KType, Task
<1>4. \A p \in fresh' : thread'[p] = <<>>
  BY <1>1, <1>3 DEF ThreadsTrue
<1>5. ASSUME NEW p \in Proc \ fresh', \A d \in CPU : on'[d] # p
      PROVE  Asleep(thread'[p])
  <2>1. on[c] # p
    BY <1>5
  <2>2. p # t
    BY <2>1, TaskFacts DEF TaskOn
  <2>3. p \notin fresh
    BY <2>2
  <2> QED
    BY <1>1, <1>3, <1>5, <2>2, <2>3 DEF ThreadsTrue
<1>6. ASSUME NEW d \in CPU, on'[d] # Idle PROVE Asleep(thread'[d])
  <2>1. d # t
    <3>1. CASE d = c
      BY <1>6, <3>1, TaskFacts
    <3>2. CASE d # c
      BY <3>2, TaskFacts DEF TaskOn
    <3> QED
      BY <3>1, <3>2
  <2> QED
    BY <1>1, <1>3, <1>6, <2>1 DEF ThreadsTrue
<1> QED
  BY <1>2, <1>4, <1>5, <1>6 DEF ThreadsTrue

(* No call is made inside the scheduler.                                   *)
LEMMA EnterOutside ==
    ASSUME KType, ~mix.intr, NEW c \in CPU, NEW x \in Call, MayEnter(c, x)
    PROVE  TopCall(c) # Sched
<1> SUFFICES ASSUME TopCall(c) = Sched PROVE FALSE
  OBVIOUS
<1>1. Level(c) = 4 /\ Sched # Resched
  BY LevelFacts DEF Level
<1>2. ~InBottom(c)
  BY BottomAssumption, CallAssumption DEF InBottom
<1>3. ~(Level(c) = 0) /\ ~(Level(c) < 2) /\ ~(Level(c) < 3)
  BY <1>1
<1> QED
  BY <1>1, <1>2, <1>3 DEF MayEnter

LEMMA CallOnlyOn ==
    ASSUME KType, OneCPU, NEW c \in CPU, UNCHANGED on,
           \A t \in Task \ {TaskOn(c)} : thread'[t] = thread[t],
           fresh \ {TaskOn(c)} \subseteq fresh',
           \A d \in CPU \ {c} : heard'[d] = heard[d]
    PROVE  OnlyOn(c)
<1>1. \A d \in CPU \ {c} : TaskOn(d) \in Task \ {TaskOn(c)}
  BY TaskFacts, OtherTasks
<1> QED
  BY <1>1 DEF OnlyOn

LEMMA EnterKeepsSInv ==
    ASSUME RInv, SInv, NEW c \in CPU, NEW x \in Call, Enter(c, x)
    PROVE  SInv'
<1> DEFINE t == TaskOn(c)
           s == IF x = Sched /\ TopCall(c) = Resched THEN Front(thread[t]) ELSE thread[t]
           u == Append(s, x)
<1>1. KType /\ OneCPU /\ ThreadsTrue /\ SchedTrue
  BY DEF RInv, SInv
<1>2. /\ Hands(c) /\ event'.kind = "call" /\ event'.num = x /\ event'.dur = 0
      /\ UNCHANGED on /\ mix' = mix
      /\ heard' = [heard EXCEPT ![c] = IF heard[c] = "nothing" THEN "first" ELSE "call"]
  BY <1>1, EnterFacts DEF Hands
<1>3. thread' = [thread EXCEPT ![t] = u] /\ fresh' = fresh \ {t} /\ MayEnter(c, x)
  BY DEF Enter
<1>5. t \in Task /\ thread[t] \in Seq(Call) /\ (~mix.intr => Innermost(thread[t]))
  BY <1>1, TaskFacts DEF ThreadsTrue
<1>6. ASSUME ~mix.intr PROVE \A i \in 1 .. Len(thread[t]) : thread[t][i] # Sched
  <2>1. ~Asleep(thread[t])
    BY <1>1, <1>3, <1>6, AtTop, EnterOutside
  <2>2. ASSUME NEW i \in 1 .. Len(thread[t]), thread[t][i] = Sched PROVE FALSE
    <3>1. i = Len(thread[t]) /\ thread[t] # <<>>
      BY <1>5, <1>6, <2>2 DEF Innermost
    <3> QED
      BY <2>1, <2>2, <3>1 DEF Asleep
  <2> QED
    BY <2>2
<1>7. s \in Seq(Call) /\ (~mix.intr => \A i \in 1 .. Len(s) : s[i] # Sched)
  <2>1. CASE thread[t] = <<>>
    <3>1. TopCall(c) = on[c]
      BY <1>1, <2>1, AtTop
    <3>2. TopCall(c) # Resched
      BY <1>1, <3>1, LevelFacts, TaskFacts
    <3> QED
      BY <1>5, <1>6, <3>2
  <2>2. CASE thread[t] # <<>>
    <3>1. /\ Front(thread[t]) \in Seq(Call) /\ Len(Front(thread[t])) = Len(thread[t]) - 1
          /\ \A i \in 1 .. Len(thread[t]) - 1 : Front(thread[t])[i] = thread[t][i]
          /\ Len(thread[t]) \in Nat
      BY <1>5, <2>2, FrontFacts
    <3>2. ~mix.intr => \A i \in 1 .. Len(Front(thread[t])) : Front(thread[t])[i] # Sched
      BY <1>6, <3>1
    <3> QED
      BY <1>5, <1>6, <3>1, <3>2
  <2> QED
    BY <2>1, <2>2
<1> HIDE DEF s
<1>8. /\ u \in Seq(Call) /\ Len(u) = Len(s) + 1 /\ u[Len(u)] = x /\ u # <<>>
      /\ \A i \in 1 .. Len(s) : u[i] = s[i]
  BY <1>7
<1> HIDE DEF u
<1>9. ~mix.intr => Innermost(u)
  <2>1. Len(s) \in Nat
    BY <1>7
  <2> QED
    BY <1>7, <1>8, <2>1 DEF Innermost
<1>10. ThreadsTrue'
  BY <1>1, <1>2, <1>3, <1>9, ThreadKeeps
<1>11. OnlyOn(c)
  BY <1>1, <1>2, <1>3, CallOnlyOn DEF KType
<1>12. SchedAfter(c)'
  <2>1. TaskOn(c)' = t
    BY <1>2 DEF TaskOn
  <2>2. thread'[t] = u
    BY <1>1, <1>3, <1>5 DEF KType
  <2>3. TopCall(c)' = x
    BY <1>8, <2>1, <2>2 DEF TopCall
  <2> QED
    BY <1>2, <2>3 DEF SchedAfter
<1>13. event'.kind \notin Points
  BY <1>2 DEF Points
<1> QED
  BY <1>1, <1>2, <1>10, <1>11, <1>12, <1>13, OthersKeepSched DEF SInv

LEMMA WholeKeepsSInv ==
    ASSUME RInv, SInv, NEW c \in CPU, NEW x \in Call, Whole(c, x)
    PROVE  SInv'
<1> DEFINE t == TaskOn(c)
<1>1. KType /\ OneCPU /\ ThreadsTrue /\ SchedTrue
  BY DEF RInv, SInv
<1>2. /\ Hands(c) /\ event'.kind = "call" /\ event'.num = x /\ event'.dur = 1
      /\ UNCHANGED on /\ mix' = mix
      /\ heard' = [heard EXCEPT ![c] = IF heard[c] = "nothing" THEN "first" ELSE "call"]
  BY <1>1, WholeFacts DEF Hands
<1>3. UNCHANGED thread /\ fresh' = fresh \ {t} /\ MayEnter(c, x) /\ x # Sched
  BY DEF Whole
<1>4. ~mix.intr => TopCall(c) # Sched
  BY <1>1, <1>3, EnterOutside
<1>5. thread' = [thread EXCEPT ![t] = thread[t]] /\ (~mix.intr => Innermost(thread[t]))
  BY <1>1, <1>3, TaskFacts DEF KType, ThreadsTrue
<1>6. ThreadsTrue'
  BY <1>1, <1>2, <1>3, <1>5, ThreadKeeps
<1>7. OnlyOn(c)
  BY <1>1, <1>2, <1>3, CallOnlyOn DEF KType
<1>8. SchedAfter(c)'
  <2>1. TopCall(c)' = TopCall(c)
    BY <1>2, <1>3 DEF TopCall, TaskOn
  <2> QED
    BY <1>2, <1>3, <1>4, <2>1 DEF SchedAfter
<1>9. event'.kind \notin Points
  BY <1>2 DEF Points
<1> QED
  BY <1>1, <1>2, <1>6, <1>7, <1>8, <1>9, OthersKeepSched DEF SInv

(* Whatever returns, the scheduler is left.                                *)
LEMMA LeaveKeepsSInv ==
    ASSUME RInv, SInv, NEW c \in CPU, Leave(c)
    PROVE  SInv'
<1> DEFINE t == TaskOn(c)
           s == Front(thread[t])
<1>1. KType /\ OneCPU /\ ThreadsTrue /\ SchedTrue
  BY DEF RInv, SInv
<1>2. /\ Hands(c) /\ event'.kind = "ret" /\ event'.dur = 0 /\ UNCHANGED on /\ mix' = mix
      /\ heard' = [heard EXCEPT ![c] = IF heard[c] = "nothing" THEN "first" ELSE "call"]
  BY <1>1, LeaveFacts DEF Hands
<1>3. t \in Task /\ thread[t] \in Seq(Call) /\ thread[t] # <<>>
      /\ (~mix.intr => Innermost(thread[t]))
  BY <1>1, TaskFacts DEF Leave, ThreadsTrue
<1>4. s \in Seq(Call) /\ Len(s) = Len(thread[t]) - 1 /\ Len(thread[t]) \in Nat \ {0}
  BY <1>3, FrontFacts
<1>5. PICK n \in 0 .. Len(s) : thread' = [thread EXCEPT ![t] = SubSeq(s, 1, n)]
  <2>1. Len(s) \in 0 .. Len(s)
    BY <1>4
  <2>2. \E n \in (0 .. Len(s)) \cup {Len(s)} : thread' = [thread EXCEPT ![t] = SubSeq(s, 1, n)]
    BY Zenon DEF Leave
  <2> QED
    BY <2>1, <2>2, Zenon
<1> DEFINE u == SubSeq(s, 1, n)
<1>6. u \in Seq(Call) /\ Len(u) = n /\ \A i \in 1 .. n : u[i] = thread[t][i]
  BY <1>3, <1>4, <1>5, FrontFacts
<1> HIDE DEF u
<1>7. ~mix.intr => \A i \in 1 .. Len(u) : u[i] # Sched
  BY <1>3, <1>4, <1>5, <1>6 DEF Innermost
<1>8. ~mix.intr => Innermost(u) /\ ~Asleep(u)
  <2>1. ~mix.intr => Innermost(u)
    BY <1>7 DEF Innermost
  <2>2. u # <<>> => Len(u) \in 1 .. Len(u)
    BY <1>6, EmptySeq
  <2> QED
    BY <1>7, <2>1, <2>2 DEF Asleep
<1>9. fresh' = fresh \ {t}
  <2>1. fresh' = fresh
    BY DEF Leave
  <2>2. t \notin fresh
    BY <1>1, <1>3 DEF ThreadsTrue
  <2> QED
    BY <2>1, <2>2
<1>10. thread' = [thread EXCEPT ![t] = u]
  BY <1>5 DEF u
<1>11. ThreadsTrue'
  BY <1>1, <1>2, <1>8, <1>9, <1>10, ThreadKeeps
<1>12. OnlyOn(c)
  BY <1>1, <1>2, <1>9, <1>10, CallOnlyOn DEF KType
<1>13. SchedAfter(c)'
  <2>1. TaskOn(c)' = t
    BY <1>2 DEF TaskOn
  <2>2. thread'[t] = u
    BY <1>1, <1>3, <1>10 DEF KType
  <2>3. ~mix.intr => TopCall(c)' # Sched
    <3>1. CASE u = <<>>
      <4>1. TopCall(c)' = on[c]
        BY <1>2, <2>1, <2>2, <3>1 DEF TopCall
      <4> QED
        BY <1>1, <4>1, LevelFacts, TaskFacts
    <3>2. CASE u # <<>>
      <4>1. TopCall(c)' = u[Len(u)]
        BY <2>1, <2>2, <3>2 DEF TopCall
      <4> QED
        BY <1>8, <3>2, <4>1 DEF Asleep
    <3> QED
      BY <3>1, <3>2
  <2> QED
    BY <1>2, <2>3 DEF SchedAfter
<1>14. event'.kind \notin Points
  BY <1>2 DEF Points
<1> QED
  BY <1>1, <1>2, <1>11, <1>12, <1>13, <1>14, OthersKeepSched DEF SInv

LEMMA AnnounceKeepsSInv ==
    ASSUME RInv, SInv, NEW c \in CPU, Announce(c)
    PROVE  SInv'
<1>1. KType /\ OneCPU /\ ThreadsTrue /\ SchedTrue
  BY DEF RInv, SInv
<1>2. /\ Hands(c) /\ event'.kind = "ctx" /\ event'.pid = on[c]
      /\ UNCHANGED <<on, thread, fresh>> /\ heard[c] = "first"
      /\ heard' = [heard EXCEPT ![c] = "header"]
  BY <1>1, AnnounceFacts
<1>3. ThreadsTrue' /\ mix' = mix
  BY <1>1, <1>2 DEF ThreadsTrue, Hands
<1>4. OnlyOn(c)
  BY <1>1, <1>2, CallOnlyOn DEF KType
<1>5. ~Announced(c) /\ Owner(c) = Idle /\ (\A K : ~Converts(c, K))
  <2>1. ~Announced(c)
    BY <1>2 DEF Announced
  <2> QED
    BY <1>2, <2>1, HandsConverts DEF RInv, OwnersTrue
<1>6. SchedAt(c) /\ Idle \notin fresh
  BY <1>1, <1>5 DEF SchedTrue, KType, Proc
<1>7. SchedAfter(c)'
  <2>1. UNCHANGED cpu_stack /\ Owner(c)' = Idle /\ ~ran'.open /\ heard'[c] = "header"
    BY <1>1, <1>2, <1>5, HandsConverts DEF Hands, KType
  <2>2. TopCall(c)' = TopCall(c) /\ on'[c] = on[c]
    BY <1>2 DEF TopCall, TaskOn
  <2>3. on[c] = Idle =>
            /\ TOS(cpu_stack[c]) = Sched => TopCall(c) = Sched
            /\ ~mix.intr /\ TopCall(c) = Sched => TOS(cpu_stack[c]) = Sched
    BY <1>6 DEF SchedAt
  <2> QED
    BY <1>2, <1>3, <2>1, <2>2, <2>3 DEF SchedAfter
<1>8. event'.kind \notin Points
  BY <1>2 DEF Points
<1> QED
  BY <1>1, <1>2, <1>3, <1>4, <1>7, <1>8, OthersKeepSched DEF SInv

(* Who is switched away, and who is switched to, is inside the scheduler.  *)
LEMMA SwitchKeepsSInv ==
    ASSUME RInv, SInv, NEW c \in CPU, NEW q \in Pid, Switch(c, q)
    PROVE  SInv'
<1>1. KType /\ OneCPU /\ ThreadsTrue /\ SchedTrue
  BY DEF RInv, SInv
<1>9. mix' = mix
  BY SwitchFacts DEF RInv, Hands
<1>2. /\ KType' /\ Hands(c) /\ event'.kind = "ctx" /\ event'.pid = q
      /\ UNCHANGED <<thread, fresh, heard>> /\ Announced(c)
      /\ on' = [on EXCEPT ![c] = q] /\ q # on[c]
      /\ \A d \in CPU : q # Idle => on[d] # q
      /\ TopCall(c) = Sched
  BY <1>1, SwitchFacts
<1>3. on'[c] = q /\ \A d \in CPU \ {c} : on'[d] = on[d]
  BY <1>1, <1>2 DEF KType
<1>4. Asleep(thread[TaskOn(c)])
  BY <1>1, <1>2, AtTop
<1>5. ThreadsTrue'
  <2>1. ASSUME NEW p \in Proc \ fresh', \A d \in CPU : on'[d] # p
        PROVE  Asleep(thread'[p])
    <3>1. CASE on[c] = p
      BY <1>2, <1>4, <3>1 DEF TaskOn, Proc
    <3>2. CASE on[c] # p
      BY <1>1, <1>2, <1>3, <2>1, <3>2 DEF ThreadsTrue
    <3> QED
      BY <3>1, <3>2
  <2>2. ASSUME NEW d \in CPU, on'[d] # Idle PROVE Asleep(thread'[d])
    <3>1. CASE on[d] # Idle
      BY <1>1, <1>2, <3>1 DEF ThreadsTrue
    <3>2. CASE on[d] = Idle
      BY <1>2, <1>3, <1>4, <2>2, <3>2 DEF TaskOn
    <3> QED
      BY <3>1, <3>2
  <2> QED
    BY <1>1, <1>2, <1>9, <2>1, <2>2 DEF ThreadsTrue
<1>6. OnlyOn(c)
  BY <1>2, <1>3 DEF OnlyOn
<1>7. SchedAfter(c)'
  <2>1. \A K : ~Converts(c, K)
    BY <1>2, HandsConverts
  <2>2. Owner(c) = on[c]
    BY <1>2, <2>1 DEF RInv, OwnersTrue
  <2>3. ~mix.intr => TOS(cpu_stack[c]) = Sched
    BY <1>1, <1>2, <2>1 DEF SchedTrue, SchedAt
  <2>4. UNCHANGED cpu_stack /\ Owner(c)' = on[c]
    BY <1>2, <2>2, HandsConverts
  <2>5. q \in fresh \/ TopCall(c)' = Sched
    <3>1. CASE q = Idle
      <4>1. TaskOn(c)' = c
        BY <1>3, <3>1 DEF TaskOn
      <4>2. Asleep(thread[c])
        BY <1>1, <1>2, <3>1 DEF ThreadsTrue
      <4> QED
        BY <1>2, <4>1, <4>2 DEF TopCall, Asleep
    <3>2. CASE q # Idle
      <4>1. TaskOn(c)' = q /\ q \in Proc
        BY <1>3, <3>2 DEF TaskOn, Proc
      <4>2. q \in fresh \/ Asleep(thread[q])
        BY <1>1, <1>2, <3>2, <4>1 DEF ThreadsTrue
      <4> QED
        BY <1>2, <4>1, <4>2 DEF TopCall, Asleep
    <3> QED
      BY <3>1, <3>2
  <2>6. Idle \notin fresh
    BY <1>1 DEF KType, Proc
  <2> QED
    BY <1>2, <1>3, <1>9, <2>3, <2>4, <2>5, <2>6 DEF SchedAfter
<1>8. event'.kind \notin Points
  BY <1>2 DEF Points
<1> QED
  BY <1>1, <1>2, <1>5, <1>6, <1>7, <1>8, OthersKeepSched DEF SInv

(* Nothing that splits a span happens inside the scheduler, and the        *)
(* converter does not believe so either, unless a mark comes early.        *)
LEMMA PointKeepsSInv ==
    ASSUME RInv, SInv, NEW c \in CPU, NEW kind \in Points,
           NEW arg \in Pid \cup CPU \cup Rpcs \cup {1, 4}, Point(c, kind, arg)
    PROVE  SInv'
<1>1. KType /\ OneCPU /\ ThreadsTrue /\ SchedTrue
  BY DEF RInv, SInv
<1>2. /\ Hands(c) /\ event'.kind = kind /\ UNCHANGED <<on, thread, fresh>>
      /\ heard[c] # "first"
      /\ heard' = [heard EXCEPT ![c] = IF heard[c] = "nothing" THEN "first" ELSE heard[c]]
  BY <1>1, PointFacts
<1>3. ThreadsTrue' /\ mix' = mix
  BY <1>1, <1>2 DEF ThreadsTrue, Hands
<1>4. OnlyOn(c)
  BY <1>1, <1>2, CallOnlyOn DEF KType
<1>5. SchedAt(c)
  BY <1>1, <1>2, HandsConverts DEF SchedTrue
<1>6. UNCHANGED cpu_stack /\ TopCall(c)' = TopCall(c)
  BY <1>2, HandsConverts DEF TopCall, TaskOn
<1>7. (Announced(c)' <=> Announced(c)) /\ (heard'[c] = "header" <=> heard[c] = "header")
  BY <1>1, <1>2 DEF Announced, KType
<1>8. SchedAt(c)'
  BY <1>2, <1>3, <1>5, <1>6, <1>7 DEF SchedAt
<1>9. SchedAfter(c)'
  <2>1. ASSUME kind \in {"rpc", "mark", "mwait", "mwait_exit"}
        PROVE  TopCall(c) # Sched /\ (~mix.early => TOS(cpu_stack[c]) # Sched)
    <3>1. Level(c) = 0 /\ (kind \in {"mwait", "mwait_exit"} => on[c] = Idle)
          /\ (kind \in {"rpc", "mark"} => on[c] # Idle)
      BY <2>1 DEF Point, MayPoint
    <3>2. TopCall(c) # Sched
      BY <3>1, LevelFacts DEF Level
    <3>3. CASE kind \in {"mwait", "mwait_exit"}
      BY <1>1, <1>5, <3>1, <3>2, <3>3 DEF SchedAt, KType, Proc
    <3>4. CASE kind \in {"rpc", "mark"}
      <4>1. Early(c, kind) => mix.early
        BY DEF Point
      <4> QED
        BY <1>5, <3>2, <3>4, <4>1 DEF SchedAt, Early
    <3> QED
      BY <2>1, <3>2, <3>3, <3>4
  <2> QED
    BY <1>2, <1>6, <2>1 DEF SchedAfter, Points, Hands
<1> QED
  BY <1>1, <1>2, <1>3, <1>4, <1>8, <1>9, OthersKeepSched DEF SInv

LEMMA KernelKeepsSInv ==
    ASSUME RInv, SInv, NEW c \in CPU, KernelStep(c)
    PROVE  SInv'
<1>1. CASE Announce(c)
  BY <1>1, AnnounceKeepsSInv
<1>2. ASSUME NEW x \in Call, Enter(c, x) PROVE SInv'
  BY <1>2, EnterKeepsSInv
<1>3. ASSUME NEW x \in Call, Whole(c, x) PROVE SInv'
  BY <1>3, WholeKeepsSInv
<1>4. CASE Leave(c)
  BY <1>4, LeaveKeepsSInv
<1>5. ASSUME NEW q \in Pid, Switch(c, q) PROVE SInv'
  BY <1>5, SwitchKeepsSInv
<1>6. ASSUME NEW kind \in Points, NEW arg \in Pid \cup CPU \cup Rpcs \cup {1, 4},
             Point(c, kind, arg)
      PROVE  SInv'
  BY <1>6, PointKeepsSInv
<1> QED
  BY <1>1, <1>2, <1>3, <1>4, <1>5, <1>6 DEF KernelStep

(***************************************************************************)
(* Who is inside the scheduler: steps of the converter                     *)
(***************************************************************************)

LEMMA KernelSame ==
    ASSUME UNCHANGED kvars
    PROVE  /\ UNCHANGED <<mix, now, on, thread, heard, fresh, ran>>
           /\ \A d : TopCall(d)' = TopCall(d) /\ (Announced(d)' <=> Announced(d))
           /\ ThreadsTrue => ThreadsTrue'
<1>1. UNCHANGED <<mix, now, on, thread, heard, fresh, ran>>
  BY DEF kvars
<1> QED
  BY <1>1 DEF TopCall, TaskOn, Announced, ThreadsTrue

LEMMA OthersSchedAt ==
    ASSUME SchedTrue, UNCHANGED kvars, NEW c \in CPU,
           \A d \in CPU \ {c} : cpu_stack'[d] = cpu_stack[d],
           NEW d \in CPU \ {c}, \A K : ~Converts(d, K)
    PROVE  SchedAt(d)'
  BY KernelSame DEF SchedTrue, SchedAt

(* Before the event itself: what a fix-up does to the stack does not       *)
(* matter, while the event is a call or a return.                          *)
LEMMA FixupKeepsSInv ==
    ASSUME SInv, IInv, ~Reading, UNCHANGED kvars, UNCHANGED event,
           NEW c, c = event.cpu, NEW st, Edits(c, st), st.eventnum[1] = Owner(c),
           event.kind \in {"call", "ret"} \/ TOS(st) = TOS(cpu_stack[c])
    PROVE  SInv'
<1>1. c \in CPU /\ ThreadsTrue /\ SchedTrue
  BY Converting DEF SInv
<1>2. UNCHANGED perpidstate /\ cpu_stack'[c] = st
      /\ \A d \in CPU \ {c} : cpu_stack'[d] = cpu_stack[d]
  BY DEF Edits
<1>3. \A d, K : Converts(d, K)' <=> Converts(d, K)
  BY DEF Converts, Reading
<1>4. \A d \in CPU \ {c} : \A K : ~Converts(d, K)
  BY DEF Converts
<1>5. Owner(c)' = Owner(c)
  BY <1>2 DEF Owner
<1>6. SchedAfter(c)'
  <2>1. SchedAfter(c)
    BY <1>1 DEF SchedTrue
  <2> QED
    BY <1>2, <1>5, <2>1, KernelSame DEF SchedAfter
<1>7. ASSUME NEW d \in CPU, ~Converts(d, {"call", "ret", "ctx"})' PROVE SchedAt(d)'
  <2>1. CASE d # c
    BY <1>1, <1>2, <1>4, <2>1, OthersSchedAt
  <2>2. CASE d = c
    <3>1. SchedAt(c) /\ event.kind \notin {"call", "ret"}
      BY <1>1, <1>3, <1>7, <2>2 DEF SchedTrue, Converts
    <3> QED
      BY <1>2, <2>2, <3>1, KernelSame DEF SchedAt
  <2> QED
    BY <2>1, <2>2
<1>8. ~mix.intr => \A p \in Pid : perpidstate'[p] = NoState \/ TOS(perpidstate'[p]) = Sched
  BY <1>1, <1>2 DEF SchedTrue
<1>9. \A d \in CPU : event'.cpu = d => SchedAfter(d)'
  BY <1>6
<1>10. SchedTrue'
  BY <1>7, <1>8, <1>9, KernelSame DEF SchedTrue
<1> QED
  BY <1>1, <1>10, KernelSame DEF SInv

(* After it.                                                               *)
LEMMA EventKeepsSInv ==
    ASSUME SInv, IInv, ~Reading, UNCHANGED kvars, Goes, NEW c, c = event.cpu,
           \A d \in CPU \ {c} : cpu_stack'[d] = cpu_stack[d],
           ~mix.intr => \A p \in Pid : perpidstate'[p] = NoState \/ TOS(perpidstate'[p]) = Sched,
           SchedAt(c)'
    PROVE  SInv'
<1>1. c \in CPU /\ ThreadsTrue /\ SchedTrue
  BY Converting DEF SInv
<1>2. \A d \in CPU \ {c} : \A K : ~Converts(d, K)
  BY DEF Converts
<1>3. \A d \in CPU : SchedAt(d)'
  BY <1>1, <1>2, OthersSchedAt
<1>4. ASSUME ~Reading', NEW d \in CPU PROVE SchedAfter(d)'
  <2>1. event' = RunnableAfter(event)
    BY <1>4 DEF Goes, Reading
  <2>2. event'.kind = "wakeup"
    BY <2>1 DEF RunnableAfter
  <2> QED
    BY <2>2 DEF SchedAfter
<1>5. SchedTrue'
  BY <1>3, <1>4, KernelSame DEF SchedTrue
<1> QED
  BY <1>1, <1>5, KernelSame DEF SInv

LEMMA ContextKeepsSInv ==
    ASSUME RInv, SInv, IInv, ~Reading, UNCHANGED kvars, event.kind = "ctx", event' = NoEvent,
           ProcessContextSwitch(event), NEW c, c = event.cpu
    PROVE  SInv'
<1> DEFINE q == event.pid
<1>1. c \in CPU /\ q \in Pid /\ StackType /\ StacksNest
  BY Converting DEF IInv
<1>2. q = on[c] /\ Announced(c)
  BY <1>1 DEF RInv, OwnersTrue, Converts
<1>3. SchedAfter(c) /\ SchedTrue
  BY <1>1 DEF SInv, SchedTrue
<1>4. \A r \in Pid : TOS(BrandNewPid(r)) = Sched
  BY DEF TOS, BrandNewPid
<1>5. \A d \in CPU \ {c} : cpu_stack'[d] = cpu_stack[d]
  BY <1>1, SwitchEdits
<1>6. CASE Owner(c) = q
  <2>1. UNCHANGED perpidstate /\ cpu_stack'[c].eventnum = cpu_stack[c].eventnum
    BY <1>1, <1>6, SwitchEdits
  <2>2. SchedAt(c)'
    BY <1>2, <1>3, <1>6, <2>1, KernelSame DEF SchedAfter, SchedAt, TOS
  <2>3. ~mix.intr => \A p \in Pid : perpidstate'[p] = NoState \/ TOS(perpidstate'[p]) = Sched
    BY <1>3, <2>1 DEF SchedTrue
  <2> QED
    BY <1>5, <2>2, <2>3, EventKeepsSInv DEF Goes
<1>7. CASE Owner(c) # q
  <2>1. /\ cpu_stack'[c] = IF perpidstate[q] = NoState THEN BrandNewPid(q)
                                                       ELSE perpidstate[q]
        /\ Owner(c) # Idle => perpidstate'[Owner(c)].eventnum = cpu_stack[c].eventnum
        /\ \A r \in Pid : (r # Owner(c) \/ r = Idle) =>
                   \/ perpidstate'[r] = perpidstate[r]
                   \/ r = q /\ perpidstate'[r] = BrandNewPid(r)
    BY <1>1, <1>7, SwitchEdits
  <2>2. ~mix.intr => TOS(cpu_stack'[c]) = Sched
    BY <1>1, <1>3, <1>4, <2>1 DEF SchedTrue
  <2>3. SchedAt(c)'
    BY <1>2, <1>3, <1>7, <2>2, KernelSame DEF SchedAfter, SchedAt
  <2>4. ASSUME ~mix.intr, NEW p \in Pid
        PROVE  perpidstate'[p] = NoState \/ TOS(perpidstate'[p]) = Sched
    <3>1. CASE p = Owner(c) /\ p # Idle
      <4>1. TOS(cpu_stack[c]) = Sched
        BY <1>3, <2>4, <3>1 DEF SchedAfter
      <4> QED
        BY <2>1, <3>1, <4>1 DEF TOS
    <3>2. CASE p # Owner(c) \/ p = Idle
      BY <1>3, <1>4, <2>1, <2>4, <3>2 DEF SchedTrue
    <3> QED
      BY <3>1, <3>2
  <2> QED
    BY <1>5, <2>3, <2>4, EventKeepsSInv DEF Goes
<1> QED
  BY <1>6, <1>7

LEMMA ProcessKeepsSInv ==
    ASSUME RInv, SInv, IInv, ProcessEvent, UNCHANGED kvars, NEW c, c = event.cpu
    PROVE  SInv'
<1>1. ~Reading /\ c \in CPU /\ Goes /\ event \in Lines /\ SchedTrue /\ SchedAfter(c)
  <2>1. ~Reading /\ c \in CPU /\ Goes /\ event \in Lines
    BY EventEdits
  <2> QED
    BY <2>1 DEF SInv, SchedTrue
<1>2. ~mix.intr => \A p \in Pid : perpidstate[p] = NoState \/ TOS(perpidstate[p]) = Sched
  BY <1>1 DEF SchedTrue
<1>3. ASSUME NEW st, Edits(c, st), SchedAt(c)' PROVE SInv'
  BY <1>1, <1>2, <1>3, EventKeepsSInv DEF Edits
<1>4. CASE event.kind = "call" /\ \E st : Pushes(c, st, event)
  <2>1. PICK st : Pushes(c, st, event)
    BY <1>4
  <2>2. event.dur \in {0, 1}
    BY <1>1 DEF RInv, EventTrue
  <2>3. IsOptimizedCall(event) <=> event.dur = 1
    BY <1>4, <2>2 DEF IsOptimizedCall, IsACall
  <2>4. /\ TOS(st) = Sched => TopCall(c) = Sched
        /\ ~mix.intr /\ TopCall(c) = Sched => TOS(st) = Sched
    BY <1>1, <1>4, <2>1, <2>2, <2>3 DEF Pushes, SchedAfter
  <2>5. SchedAt(c)' /\ Edits(c, st)
    BY <2>1, <2>4, KernelSame DEF SchedAt, Pushes, Edits
  <2> QED
    BY <1>3, <2>5
<1>5. CASE event.kind = "ret" /\ \E st : Pops(c, st)
  <2>1. PICK st : Pops(c, st)
    BY <1>5
  <2>2. SchedAt(c)' /\ Edits(c, st)
    BY <1>1, <1>5, <2>1, KernelSame DEF SchedAt, SchedAfter, Pops, Edits
  <2> QED
    BY <1>3, <2>2
<1>6. CASE event.kind = "ctx" /\ ProcessContextSwitch(event) /\ event' = NoEvent
  BY <1>1, <1>6, ContextKeepsSInv
<1>7. CASE event.kind \in {"rpc", "mark", "mwait", "mwait_exit"}
           /\ \E st : Settles(c, st, event)
  <2>1. PICK st : Settles(c, st, event)
    BY <1>7
  <2>2. TOS(st) = TOS(cpu_stack[c]) \/ TOS(st) # Sched
    BY <2>1, LevelFacts DEF Settles
  <2>3. SchedAt(c) /\ TopCall(c) # Sched
    BY <1>1, <1>7 DEF SchedTrue, SchedAfter, Converts
  <2>4. cpu_stack'[c] = st /\ Edits(c, st)
    BY <2>1 DEF Settles, Edits
  <2>5. /\ TopCall(c)' = TopCall(c) /\ on' = on /\ heard' = heard /\ fresh' = fresh
        /\ mix' = mix /\ (TOS(st) = Sched => TOS(cpu_stack[c]) = Sched)
    BY <2>2, KernelSame
  <2>6. SchedAt(c)'
    BY <2>3, <2>4, <2>5 DEF SchedAt
  <2> QED
    BY <1>3, <2>4, <2>6
<1>8. CASE event.kind \in {"sample", "wakeup", "ipi", "monitor_store", "other"}
           /\ \E st : Settles(c, st, event)
  <2>1. PICK st : Settles(c, st, event)
    BY <1>8
  <2>2. TOS(st) = TOS(cpu_stack[c])
    BY <1>8, <2>1 DEF Settles, OnlyInUserMode, IsACall
  <2>3. SchedAt(c)
    BY <1>1, <1>8 DEF SchedTrue, Converts
  <2>4. SchedAt(c)' /\ Edits(c, st)
    BY <2>1, <2>2, <2>3, KernelSame DEF SchedAt, Settles, Edits
  <2> QED
    BY <1>3, <2>4
<1> QED
  BY <1>4, <1>5, <1>6, <1>7, <1>8, EventEdits

LEMMA ConvertKeepsSInv ==
    ASSUME RInv, SInv, IInv, Convert, UNCHANGED kvars
    PROVE  SInv'
<1>1. ASSUME NEW ts, Inserts(ts), event.kind \in {"call", "ret"} PROVE SInv'
  <2>1. PICK st : Pops(event.cpu, st)
    BY <1>1, InsertedReturnEdits
  <2> QED
    BY <1>1, <2>1, FixupKeepsSInv DEF Inserts, Pops
<1>2. CASE FixupReturnPop \/ FixupSched \/ FixupCall
  <2>1. event.kind \in {"call", "ret"}
    BY <1>2 DEF FixupReturnPop, FixupSched, FixupCall, NeedsSched, NeedsPop, IsACall, IsAReturn
  <2> QED
    BY <1>1, <1>2, <2>1, FixupFacts
<1>3. CASE FixupReturnCall
  BY <1>3, InsertedCallEdits, FixupKeepsSInv DEF Pushes, IsAReturn
<1>4. CASE FixupResched
  <2>1. ~Reading /\ event' = event /\ event.kind = "call"
    BY <1>4 DEF FixupResched, NeedsResched, IsSchedCallEvent, IsACall
  <2> QED
    BY <1>4, <2>1, ReschedEdits, FixupKeepsSInv
<1>5. CASE FixupCexit
  BY <1>5, CexitEdits, FixupKeepsSInv DEF Settles
<1>6. CASE ProcessEvent
  BY <1>6, ProcessKeepsSInv
<1> QED
  BY <1>2, <1>3, <1>4, <1>5, <1>6 DEF Convert

LEMMA KInitSInv ==
    ASSUME KInit
    PROVE  SInv
<1>1. /\ mix \in Mixes /\ on \in [CPU -> mix.procs \cup {Idle}]
      /\ fresh \in SUBSET (mix.fresh \ {on[c] : c \in CPU})
      /\ thread \in [Task -> mix.begin \cup {<<>>, <<Sched>>}]
      /\ \A p \in Proc :
            IF \E c \in CPU : on[c] = p THEN thread[p] \in mix.begin
            ELSE IF p \in fresh THEN thread[p] = <<>>
            ELSE thread[p] # <<>> /\ thread[p][Len(thread[p])] = Sched
      /\ \A c \in CPU : thread[c] = IF on[c] = Idle THEN <<>> ELSE <<Sched>>
  BY DEF KInit
<1>2. /\ event = NoEvent /\ cpu_stack = [c \in CPU |-> IdleStack]
      /\ perpidstate = [p \in Pid |-> IF p = Idle THEN BrandNewPid(Idle) ELSE NoState]
  BY DEF KInit, Init
<1>3. KType /\ mix.fresh \subseteq Proc
  BY <1>1, KInitRInv, MixAssumption DEF RInv
<1>4. Asleep(<<Sched>>) /\ Innermost(<<Sched>>) /\ Innermost(<<>>)
  BY DEF Asleep, Innermost
<1>5. \A s \in mix.begin : Innermost(s)
  BY <1>1, MixAssumption DEF Innermost
<1>6. ThreadsTrue
  <2>1. \A t \in Task : Innermost(thread[t])
    <3>1. \A s \in mix.begin \cup {<<>>, <<Sched>>} : Innermost(s)
      BY <1>4, <1>5
    <3> QED
      BY <1>1, <3>1
  <2>2. \A p \in fresh : thread[p] = <<>>
    BY <1>1, <1>3
  <2>3. ASSUME NEW p \in Proc \ fresh, \A c \in CPU : on[c] # p
        PROVE  Asleep(thread[p])
    BY <1>1, <2>3 DEF Asleep
  <2>4. \A c \in CPU : on[c] # Idle => Asleep(thread[c])
    BY <1>1, <1>4
  <2> QED
    BY <2>1, <2>2, <2>3, <2>4 DEF ThreadsTrue
<1>7. \A c \in CPU : TOS(cpu_stack[c]) = Idle /\ Idle # Sched
  BY <1>2, LevelFacts, CallAssumption DEF TOS, IdleStack
<1>8. \A c \in CPU : on[c] = Idle => TopCall(c) # Sched
  <2> SUFFICES ASSUME NEW c \in CPU, on[c] = Idle PROVE TopCall(c) # Sched
    OBVIOUS
  <2>1. TaskOn(c) = c /\ thread[c] = <<>>
    BY <1>1 DEF TaskOn
  <2>2. TopCall(c) = Idle
    BY <2>1 DEF TopCall
  <2> QED
    BY <1>7, <2>2
<1>9. \A c \in CPU : SchedAt(c)
  <2>1. \A c \in CPU : ~Announced(c)
    BY DEF KInit, Announced
  <2> QED
    BY <1>7, <1>8, <2>1 DEF SchedAt
<1>10. \A p \in Pid : perpidstate[p] = NoState \/ TOS(perpidstate[p]) = Sched
  BY <1>2 DEF TOS, BrandNewPid
<1>11. SchedTrue
  BY <1>2, <1>9, <1>10 DEF SchedTrue, Reading
<1> QED
  BY <1>6, <1>11 DEF SInv

(***************************************************************************)
(* Spans that follow one another                                           *)
(***************************************************************************)

Tile(s, a, b, open) ==
    /\ open /\ s = <<>> => b = a
    /\ open /\ s # <<>> => s[1].start = a
    /\ \A i \in 1 .. Len(s) - 1 : s[i].stop = s[i + 1].start
    /\ s # <<>> => s[Len(s)].stop = b

LEMMA TileOne ==
    ASSUME NEW s \in Seq(Shown), NEW r \in Shown, NEW a, NEW b, NEW open,
           Tile(s, a, b, open), r.start = b \/ (s = <<>> /\ ~open)
    PROVE  Append(s, r) \in Seq(Shown) /\ Tile(Append(s, r), a, r.stop, open)
<1> DEFINE n == Len(s)
           u == Append(s, r)
<1>1. /\ n \in Nat /\ u \in Seq(Shown) /\ Len(u) = n + 1 /\ u[n + 1] = r /\ u # <<>>
      /\ \A i \in 1 .. n : u[i] = s[i]
      /\ s = <<>> <=> n = 0
  BY EmptySeq
<1> HIDE DEF u
<1>2. \A i \in 1 .. Len(u) - 1 : u[i].stop = u[i + 1].start
  <2> TAKE i \in 1 .. Len(u) - 1
  <2>1. i \in 1 .. n /\ s # <<>>
    BY <1>1
  <2>2. CASE i = n
    BY <1>1, <2>1, <2>2 DEF Tile
  <2>3. CASE i # n
    <3>1. i \in 1 .. n - 1 /\ i + 1 \in 1 .. n
      BY <1>1, <2>1, <2>3
    <3> QED
      BY <1>1, <3>1 DEF Tile
  <2> QED
    BY <2>2, <2>3
<1>3. open => u[1].start = a
  <2>1. CASE s = <<>>
    BY <1>1, <2>1 DEF Tile
  <2>2. CASE s # <<>>
    <3>1. 1 \in 1 .. n
      BY <1>1, <2>2
    <3> QED
      BY <1>1, <2>2, <3>1 DEF Tile
  <2> QED
    BY <2>1, <2>2
<1>4. Tile(u, a, r.stop, open)
  BY <1>1, <1>2, <1>3 DEF Tile
<1> QED
  BY <1>1, <1>4 DEF u

LEMMA LabelledFacts ==
    ASSUME TimeType, StackType, StacksNest, NEW c \in CPU, NEW e
    PROVE  Labelled(c, e) \in OpenSpan /\ Labelled(c, e).start = cur_span[c].start
<1>1. cur_span[c] \in OpenSpan
  BY DEF TimeType
<1>2. cpu_stack[c].eventnum[1] \in Pid
  BY StackFacts, TopFacts DEF GoodState
<1> QED
  BY <1>1, <1>2 DEF Labelled, OpenSpan

(* What is closed when the span that is open goes up to ts.                *)
Closes(c, e) == shown \o FinishSpan(c, Labelled(c, e), e.ts).out

(* The spans closed so far reach to the start of the one that is open, and *)
(* there are some only if one is.                                          *)
Closable(c) ==
    /\ ran.cpu = c /\ (ran.open => valid_span[c])
    /\ ~valid_span[c] => shown = <<>>

LEMMA ClosesTile ==
    ASSUME TimeType, StackType, StacksNest, Tiled, NEW c \in CPU, Closable(c),
           NEW e, e.ts \in Nat, valid_span[c] => cur_span[c].start <= e.ts
    PROVE  Closes(c, e) \in Seq(Shown) /\ Tile(Closes(c, e), span_start_time, e.ts, ran.open)
<1> DEFINE span == Labelled(c, e)
<1>1. span \in OpenSpan /\ span.start = cur_span[c].start
  BY LabelledFacts
<1>2. shown \in Seq(Shown) /\ valid_span[c] \in BOOLEAN
  BY DEF TimeType
<1>3. Tile(shown, span_start_time, cur_span[c].start, ran.open)
  BY DEF Tiled, Tile, Closable
<1> HIDE DEF span
<1>4. CASE valid_span[c]
  <2> DEFINE r == Closed(span, e.ts)
  <2>1. StopOf(span, e.ts) = e.ts
    BY <1>1, <1>4 DEF StopOf, OpenSpan
  <2>2. r \in Shown /\ r.start = cur_span[c].start /\ r.stop = e.ts
    BY <1>1, <2>1 DEF Closed, Shown, OpenSpan
  <2>3. Closes(c, e) = shown \o <<r>>
    BY <1>4 DEF Closes, FinishSpan, span
  <2> HIDE DEF r
  <2>4. Closes(c, e) = Append(shown, r)
    BY <1>2, <2>2, <2>3
  <2> QED
    BY <1>2, <1>3, <2>2, <2>4, TileOne
<1>5. CASE ~valid_span[c]
  <2>1. shown = <<>> /\ ~ran.open
    BY <1>5 DEF Closable
  <2>2. Closes(c, e) = shown \o <<>>
    BY <1>5 DEF Closes, FinishSpan
  <2>3. Closes(c, e) = <<>>
    BY <2>1, <2>2
  <2> QED
    BY <2>1, <2>3 DEF Tile
<1> QED
  BY <1>2, <1>4, <1>5

(* The same with a span made up for the event.                             *)
LEMMA ClosesMore ==
    ASSUME TimeType, StackType, StacksNest, Tiled, NEW c \in CPU, Closable(c),
           NEW e, e.ts \in Nat, e.dur \in Nat, valid_span[c] => cur_span[c].start <= e.ts,
           NEW x \in Pid \cup Call \cup Points \cup {"cexit"},
           NEW r, r = [start |-> e.ts, stop |-> e.ts + e.dur, eventnum |-> x]
    PROVE  /\ Closes(c, e) \o <<r>> \in Seq(Shown)
           /\ Tile(Closes(c, e) \o <<r>>, span_start_time, e.ts + e.dur, ran.open)
<1>1. r \in Shown /\ r.start = e.ts /\ r.stop = e.ts + e.dur
  BY DEF Shown
<1>2. Closes(c, e) \in Seq(Shown) /\ Tile(Closes(c, e), span_start_time, e.ts, ran.open)
  BY ClosesTile
<1>3. Closes(c, e) \o <<r>> = Append(Closes(c, e), r)
  BY <1>1, <1>2
<1> QED
  BY <1>1, <1>2, <1>3, TileOne

(***************************************************************************)
(* Times: steps of the converter                                           *)
(***************************************************************************)

(* One CPU gets another open span, and the time x of its last switch.      *)
Opens(c, span, x) ==
    /\ cur_span' = [cur_span EXCEPT ![c] = span] /\ span \in OpenSpan
    /\ ctx_switch_ts' = [ctx_switch_ts EXCEPT ![c] = x] /\ x \in Nat
    /\ \A d \in CPU \ {c} : cpu_stack'[d] = cpu_stack[d]
    /\ UNCHANGED span_start_time
    /\ shown' \in Seq(Shown) /\ Tile(shown', span_start_time, span.start, ran.open)

LEMMA OpensKeeps ==
    ASSUME KType, TInv, UNCHANGED kvars, NEW c \in CPU, ran.cpu = c,
           NEW span, NEW x, Opens(c, span, x),
           span.start <= now + 1, x <= now,
           0 < x /\ TOS(cpu_stack'[c]) = Sched => span.start <= x,
           valid_span' \in [CPU -> BOOLEAN], mwait_pending' \in [CPU -> Int]
    PROVE  TimeType' /\ StartsTrue' /\ Tiled'
<1>1. /\ cur_span'[c] = span /\ \A d \in CPU \ {c} : cur_span'[d] = cur_span[d]
      /\ ctx_switch_ts'[c] = x /\ \A d \in CPU \ {c} : ctx_switch_ts'[d] = ctx_switch_ts[d]
  BY DEF Opens, TInv, TimeType
<1>2. TimeType'
  BY DEF Opens, TInv, TimeType
<1>3. UNCHANGED <<now, ran>>
  BY DEF kvars
<1>4. StartsTrue'
  <2> SUFFICES ASSUME NEW d \in CPU
               PROVE  /\ cur_span'[d].start <= now + 1 /\ ctx_switch_ts'[d] <= now
                      /\ 0 < ctx_switch_ts'[d] /\ TOS(cpu_stack'[d]) = Sched
                            => cur_span'[d].start <= ctx_switch_ts'[d]
    BY <1>3 DEF StartsTrue
  <2>1. CASE d = c
    BY <1>1, <2>1
  <2>2. CASE d # c
    BY <1>1, <2>2 DEF Opens, TInv, StartsTrue
  <2> QED
    BY <2>1, <2>2
<1>5. Tiled'
  <2>1. Tile(shown', span_start_time', cur_span'[ran'.cpu].start, ran'.open)
    BY <1>1, <1>3 DEF Opens
  <2> QED
    BY <2>1 DEF Tile, Tiled
<1> QED
  BY <1>2, <1>4, <1>5

(* While the event waits, and when it is done.                             *)
LEMMA WaitingEvent ==
    ASSUME TInv, ~Reading, UNCHANGED <<event, span_start_time, ran>>, NEW c, c = event.cpu,
           valid_span'[c] = TRUE, cur_span'[c].start <= event.ts,
           event.kind = "ret" /\ ~CallFound(event)' => cur_span'[c].start <= span_start_time,
           event.kind = "ctx" => cur_span'[c].start = event.ts
    PROVE  EventTimes'
  BY DEF TInv, EventTimes, Reading

LEMMA DoneEvent ==
    ASSUME TInv, ~Reading, Goes, event \in Lines, NEW c, c = event.cpu,
           UNCHANGED <<span_start_time, ran>>,
           event' # NoEvent => valid_span'[c] = TRUE /\ cur_span'[c].start <= event.ts + event.dur
    PROVE  EventTimes'
<1>1. CASE event' = NoEvent
  BY <1>1 DEF EventTimes, Reading
<1>2. CASE event' # NoEvent
  <2>1. event' = RunnableAfter(event) /\ event.ts \in Nat /\ event.dur \in Nat
    BY <1>2 DEF Goes, Lines
  <2>2. event'.kind = "wakeup" /\ event'.cpu = c /\ event'.ts = event.ts + event.dur
    BY <2>1 DEF RunnableAfter
  <2>3. span_start_time <= event.ts /\ span_start_time \in Nat
    BY DEF TInv, EventTimes, TimeType
  <2> QED
    BY <1>2, <2>1, <2>2, <2>3 DEF EventTimes
<1> QED
  BY <1>1, <1>2

(* What is known of the event and the span that is open for it.            *)
LEMMA ConvertingTimes ==
    ASSUME RInv, IInv, TInv, ~Reading, NEW c, c = event.cpu
    PROVE  /\ c \in CPU /\ event \in Lines /\ StackType /\ StacksNest /\ TimeType /\ Tiled
           /\ KType /\ now \in Nat /\ event.ts \in {now, now + 1} /\ event.dur \in {0, 1}
           /\ event.kind # "wakeup" => event.ts = now
           /\ Closable(c) /\ ran.cpu = c
           /\ cur_span[c] \in OpenSpan /\ cur_span[c].start \in Nat /\ span_start_time \in Nat
           /\ cur_span[c].start <= event.ts /\ span_start_time <= event.ts
           /\ ctx_switch_ts[c] \in Nat /\ ctx_switch_ts[c] <= now
           /\ event.pid \in Pid
<1>1. c \in CPU /\ event \in Lines /\ StackType /\ StacksNest /\ event.pid \in Pid
  BY Converting DEF IInv
<1>2. KType /\ EventTrue
  BY DEF RInv
<1>3. TimeType /\ Tiled /\ StartsTrue /\ EventTimes
  BY DEF TInv
<1>4. cur_span[c] \in OpenSpan /\ cur_span[c].start \in Nat /\ span_start_time \in Nat
      /\ ctx_switch_ts[c] \in Nat
  BY <1>1, <1>3 DEF TimeType, OpenSpan
<1>5. now \in Nat
  BY <1>2 DEF KType
<1>6. /\ event.ts \in {now, now + 1} /\ event.dur \in {0, 1} /\ ran.cpu = c
      /\ event.kind # "wakeup" => event.ts = now
  BY <1>2 DEF EventTrue
<1>7. /\ ran.open => valid_span[c]
      /\ ~valid_span[c] => shown = <<>>
      /\ cur_span[c].start <= event.ts /\ span_start_time <= event.ts
  BY <1>3 DEF EventTimes
<1>8. ctx_switch_ts[c] <= now
  BY <1>1, <1>3 DEF StartsTrue
<1> QED
  BY <1>1, <1>2, <1>3, <1>4, <1>5, <1>6, <1>7, <1>8 DEF Closable

(* A return closes the open span and starts that of what is below.         *)
LEMMA ReturnOpens ==
    ASSUME TimeType, StackType, StacksNest, Tiled, NEW c \in CPU, Closable(c),
           NEW e, e.cpu = c, e.ts \in Nat, e.pid \in Pid, IsAReturn(e), ProcessReturn(e),
           valid_span[c] => cur_span[c].start <= e.ts, UNCHANGED span_start_time,
           NEW st, Pops(c, st), cur_span' = [cur_span EXCEPT ![c] = StartSpan(e, TOS(st))]
    PROVE  /\ Opens(c, StartSpan(e, TOS(st)), IF e.num = Sched THEN 0 ELSE ctx_switch_ts[c])
           /\ StartSpan(e, TOS(st)).start = e.ts
           /\ valid_span' = [valid_span EXCEPT ![c] = TRUE] /\ UNCHANGED mwait_pending
<1> DEFINE span == StartSpan(e, TOS(st))
           x == IF e.num = Sched THEN 0 ELSE ctx_switch_ts[c]
<1>1. span \in OpenSpan /\ span.start = e.ts
  BY DEF StartSpan, OpenSpan, Pops
<1>2. /\ shown' = Closes(c, e) \o <<>> /\ valid_span' = [valid_span EXCEPT ![c] = TRUE]
      /\ UNCHANGED mwait_pending /\ SetSchedTs(e)
  BY DEF ProcessReturn, EndSpan, Closes
<1>3. shown' \in Seq(Shown) /\ Tile(shown', span_start_time, e.ts, ran.open)
  <2>1. Closes(c, e) \in Seq(Shown) /\ Tile(Closes(c, e), span_start_time, e.ts, ran.open)
    BY ClosesTile
  <2>2. shown' = Closes(c, e)
    BY <1>2, <2>1
  <2> QED
    BY <2>1, <2>2
<1>4. ctx_switch_ts' = [ctx_switch_ts EXCEPT ![c] = x] /\ x \in Nat
  <2>1. ~IsSchedCallEvent(e) /\ (IsSchedReturnEvent(e) <=> e.num = Sched)
    BY DEF IsSchedReturnEvent, IsSchedCallEvent, IsACall, IsAReturn
  <2>2. CASE e.num = Sched
    BY <1>2, <2>1, <2>2 DEF SetSchedTs
  <2>3. CASE e.num # Sched
    BY <1>2, <2>1, <2>3 DEF SetSchedTs, TimeType
  <2> QED
    BY <2>2, <2>3
<1>5. \A d \in CPU \ {c} : cpu_stack'[d] = cpu_stack[d]
  BY DEF Pops, Edits
<1>6. cur_span' = [cur_span EXCEPT ![c] = span]
  OBVIOUS
<1> HIDE DEF span, x
<1>7. Opens(c, span, x)
  BY <1>1, <1>3, <1>4, <1>5, <1>6 DEF Opens
<1> QED
  BY <1>1, <1>2, <1>7 DEF span, x

LEMMA InsertKeepsTInv ==
    ASSUME RInv, IInv, TInv, UNCHANGED kvars, NEW ts \in Nat, Inserts(ts),
           UNCHANGED span_start_time, NEW c, c = event.cpu,
           event.kind \in {"call", "ret"}, ts <= event.ts,
           valid_span[c] => cur_span[c].start <= ts,
           event.kind = "ret" /\ ~CallFound(event)' => ts <= span_start_time
    PROVE  TInv'
<1> DEFINE e == ReturnAt(ts)
<1>1. ~Reading /\ UNCHANGED event /\ ProcessReturn(e)
  BY DEF Inserts
<1>2. /\ c \in CPU /\ event \in Lines /\ StackType /\ StacksNest /\ TimeType /\ Tiled
      /\ KType /\ now \in Nat /\ event.ts = now /\ Closable(c) /\ ran.cpu = c
      /\ ctx_switch_ts[c] \in Nat /\ ctx_switch_ts[c] <= now
  BY <1>1, ConvertingTimes
<1>3. IsAReturn(e) /\ e.cpu = c /\ e.ts = ts /\ e.pid \in Pid
  BY <1>2 DEF ReturnAt, Lines, IsAReturn
<1>4. PICK st : Pops(c, st) /\ cur_span' = [cur_span EXCEPT ![c] = StartSpan(e, TOS(st))]
  BY InsertedReturnEdits
<1> DEFINE span == StartSpan(e, TOS(st))
           x == IF e.num = Sched THEN 0 ELSE ctx_switch_ts[c]
<1> HIDE DEF e
<1>5. /\ Opens(c, span, x)
      /\ span.start = e.ts /\ valid_span' = [valid_span EXCEPT ![c] = TRUE]
      /\ UNCHANGED mwait_pending
  BY <1>1, <1>2, <1>3, <1>4, ReturnOpens
<1>6. x \in Nat /\ x <= now
  BY <1>2
<1> HIDE DEF span, x
<1>7. TOS(cpu_stack'[c]) # Sched
  BY <1>4 DEF Pops, Edits
<1>8. valid_span' \in [CPU -> BOOLEAN] /\ valid_span'[c] = TRUE
      /\ mwait_pending' \in [CPU -> Int]
  BY <1>2, <1>5 DEF TimeType
<1>9. span.start = ts /\ span.start <= now + 1
  BY <1>2, <1>3, <1>5
<1>10. TimeType' /\ StartsTrue' /\ Tiled'
  BY <1>2, <1>5, <1>6, <1>7, <1>8, <1>9, OpensKeeps
<1>11. cur_span'[c] = span
  BY <1>2, <1>5 DEF Opens, TimeType
<1>12. UNCHANGED ran
  BY DEF kvars
<1>13. EventTimes'
  BY <1>1, <1>8, <1>9, <1>11, <1>12, WaitingEvent
<1> QED
  BY <1>10, <1>13 DEF TInv

(* A call that is found below the one on top is found without it.          *)
LEMMA StillFound ==
    ASSUME IInv, ~Reading, UNCHANGED event, NEW c, c = event.cpu, NEW st, Pops(c, st),
           CallFound(event), ~Matches(event)
    PROVE  CallFound(event)'
<1> DEFINE s == cpu_stack[c].eventnum
           r == SubSeq(s, 1, Len(s) - 1)
<1>1. Stack = cpu_stack[c] /\ Stack' = st /\ st.eventnum = r
  BY DEF Stack, Pops, Edits
<1>2. s \in Seq(Pid \cup Call) /\ Len(s) \in 1 .. 5
  BY <1>1, Converting DEF GoodState, Nested
<1>3. PICK i \in 2 .. Len(s) : s[i] = event.num
  BY <1>1 DEF CallFound
<1>4. i # Len(s)
  BY <1>1, <1>3 DEF Matches, TOS
<1>5. Len(r) = Len(s) - 1 /\ \A j \in 1 .. Len(s) - 1 : r[j] = s[j]
  BY <1>2, <1>3
<1> HIDE DEF r
<1>6. i \in 2 .. Len(r) /\ r[i] = s[i]
  BY <1>2, <1>3, <1>4, <1>5
<1> QED
  BY <1>1, <1>3, <1>6 DEF CallFound

LEMMA ReturnPopKeepsTInv ==
    ASSUME RInv, IInv, TInv, UNCHANGED kvars, FixupReturnPop
    PROVE  TInv'
<1> DEFINE c == event.cpu
<1>1. ~Reading /\ UNCHANGED <<event, span_start_time>> /\ event.kind = "ret" /\ ~Matches(event)
  BY DEF FixupReturnPop, IsAReturn
<1>2. /\ c \in CPU /\ event.ts \in Nat /\ span_start_time \in Nat
      /\ cur_span[c].start \in Nat /\ cur_span[c].start <= event.ts
      /\ span_start_time <= event.ts /\ event \in Lines
  BY <1>1, ConvertingTimes
<1>3. 1 < Len(Stack.eventnum)
  BY FixupFacts DEF Inserts
<1>4. CASE CallFound(event) /\ ProcessReturn(ReturnAt(event.ts))
  <2>1. Inserts(event.ts)
    BY <1>1, <1>2, <1>3, <1>4 DEF Inserts
  <2>2. CallFound(event)'
    BY <1>1, <1>4, <2>1, InsertedReturnEdits, StillFound
  <2> QED
    BY <1>1, <1>2, <2>1, <2>2, InsertKeepsTInv
<1>5. CASE ~CallFound(event) /\ ProcessReturn(ReturnAt(span_start_time))
  <2>1. Inserts(span_start_time)
    BY <1>1, <1>2, <1>3, <1>5 DEF Inserts
  <2>2. valid_span[c] => cur_span[c].start <= span_start_time
    BY <1>1, <1>5 DEF TInv, EventTimes
  <2> QED
    BY <1>1, <1>2, <2>1, <2>2, InsertKeepsTInv
<1> QED
  BY <1>4, <1>5 DEF FixupReturnPop

LEMMA SchedFixupKeepsTInv ==
    ASSUME RInv, IInv, TInv, UNCHANGED kvars, FixupSched
    PROVE  TInv'
<1> DEFINE c == event.cpu
           ts == ctx_switch_ts[c]
<1>1. /\ ~Reading /\ UNCHANGED <<event, span_start_time>> /\ event.kind = "call"
      /\ 0 < ts /\ TOS(Stack) = Sched
  BY DEF FixupSched, NeedsSched, IsACall
<1>2. c \in CPU /\ ts \in Nat /\ ts <= now /\ event.ts = now
  BY <1>1, ConvertingTimes
<1>3. cur_span[c].start <= ts
  BY <1>1, <1>2 DEF TInv, StartsTrue, Stack
<1>4. Inserts(ts)
  BY FixupFacts
<1> QED
  BY <1>1, <1>2, <1>3, <1>4, InsertKeepsTInv

LEMMA CallFixupKeepsTInv ==
    ASSUME RInv, IInv, TInv, UNCHANGED kvars, FixupCall
    PROVE  TInv'
<1> DEFINE c == event.cpu
<1>1. ~Reading /\ UNCHANGED <<event, span_start_time>> /\ event.kind = "call"
  BY DEF FixupCall, NeedsPop, IsACall
<1>2. c \in CPU /\ event.ts \in Nat /\ cur_span[c].start <= event.ts
  BY <1>1, ConvertingTimes
<1>3. Inserts(event.ts)
  BY FixupFacts
<1> QED
  BY <1>1, <1>2, <1>3, InsertKeepsTInv

LEMMA ReschedKeepsTInv ==
    ASSUME RInv, IInv, TInv, UNCHANGED kvars, FixupResched
    PROVE  TInv'
<1> DEFINE c == event.cpu
<1>1. /\ ~Reading /\ event.kind = "call"
      /\ UNCHANGED <<event, span_start_time, cur_span, valid_span, ctx_switch_ts,
                     mwait_pending, shown>>
  BY DEF FixupResched, NeedsResched, IsSchedCallEvent, IsACall, outvars
<1>2. c \in CPU
  BY <1>1, ConvertingTimes
<1>3. PICK st : Edits(c, st) /\ TOS(st) # Sched
  BY ReschedEdits
<1>4. UNCHANGED <<now, ran>>
  BY DEF kvars
<1>5. TimeType' /\ Tiled'
  BY <1>1, <1>4 DEF TInv, TimeType, Tiled
<1>6. StartsTrue'
  BY <1>1, <1>3, <1>4 DEF TInv, StartsTrue, Edits
<1>7. EventTimes'
  BY <1>1, <1>4 DEF TInv, EventTimes, Reading
<1> QED
  BY <1>5, <1>6, <1>7 DEF TInv

(* A call closes the open span and starts its own.                         *)
LEMMA CallOpens ==
    ASSUME TimeType, StackType, StacksNest, Tiled, NEW c \in CPU, Closable(c),
           NEW e, e.cpu = c, e.ts \in Nat, e.pid \in Pid, e.num \in Call, IsACall(e),
           ~IsOptimizedCall(e), ProcessCall(e),
           valid_span[c] => cur_span[c].start <= e.ts, UNCHANGED span_start_time,
           NEW st, Pushes(c, st, e)
    PROVE  /\ Opens(c, StartSpan(e, e.num), IF e.num = Sched THEN 0 ELSE ctx_switch_ts[c])
           /\ StartSpan(e, e.num).start = e.ts /\ TOS(cpu_stack'[c]) = e.num
           /\ valid_span' = [valid_span EXCEPT ![c] = TRUE] /\ UNCHANGED mwait_pending
<1> DEFINE span == StartSpan(e, e.num)
           x == IF e.num = Sched THEN 0 ELSE ctx_switch_ts[c]
<1>1. span \in OpenSpan /\ span.start = e.ts
  BY DEF StartSpan, OpenSpan
<1>2. /\ shown' = Closes(c, e) \o <<>> /\ valid_span' = [valid_span EXCEPT ![c] = TRUE]
      /\ UNCHANGED mwait_pending /\ SetSchedTs(e)
      /\ cur_span' = [cur_span EXCEPT ![c] = span]
  BY DEF ProcessCall, EndSpan, Closes
<1>3. shown' \in Seq(Shown) /\ Tile(shown', span_start_time, e.ts, ran.open)
  <2>1. Closes(c, e) \in Seq(Shown) /\ Tile(Closes(c, e), span_start_time, e.ts, ran.open)
    BY ClosesTile
  <2>2. shown' = Closes(c, e)
    BY <1>2, <2>1
  <2> QED
    BY <2>1, <2>2
<1>4. ctx_switch_ts' = [ctx_switch_ts EXCEPT ![c] = x] /\ x \in Nat
  <2>1. ~IsSchedReturnEvent(e) /\ (IsSchedCallEvent(e) <=> e.num = Sched)
    BY DEF IsSchedReturnEvent, IsSchedCallEvent, IsACall, IsAReturn
  <2>2. CASE e.num = Sched
    BY <1>2, <2>1, <2>2 DEF SetSchedTs
  <2>3. CASE e.num # Sched
    BY <1>2, <2>1, <2>3 DEF SetSchedTs, TimeType
  <2> QED
    BY <2>2, <2>3
<1>5. /\ \A d \in CPU \ {c} : cpu_stack'[d] = cpu_stack[d]
      /\ TOS(cpu_stack'[c]) = e.num
  BY DEF Pushes, Edits
<1> HIDE DEF span, x
<1>6. Opens(c, span, x)
  BY <1>1, <1>2, <1>3, <1>4, <1>5 DEF Opens
<1> QED
  BY <1>1, <1>2, <1>5, <1>6 DEF span, x

LEMMA ReturnCallKeepsTInv ==
    ASSUME RInv, IInv, TInv, UNCHANGED kvars, FixupReturnCall
    PROVE  TInv'
<1> DEFINE c == event.cpu
           e == MissingCall
           span == StartSpan(e, e.num)
           x == IF e.num = Sched THEN 0 ELSE ctx_switch_ts[c]
<1>1. /\ ~Reading /\ UNCHANGED <<event, span_start_time>> /\ event.kind = "ret"
      /\ ~CallFound(event)
  BY DEF FixupReturnCall, IsAReturn
<1>2. /\ c \in CPU /\ event \in Lines /\ StackType /\ StacksNest /\ TimeType /\ Tiled
      /\ KType /\ now \in Nat /\ event.ts = now /\ Closable(c) /\ ran.cpu = c
      /\ span_start_time \in Nat /\ span_start_time <= event.ts
      /\ ctx_switch_ts[c] \in Nat /\ ctx_switch_ts[c] <= now /\ event.pid \in Pid
  BY <1>1, ConvertingTimes
<1>3. /\ e.cpu = c /\ e.num = event.num /\ e.ts = span_start_time /\ ~IsOptimizedCall(e)
      /\ ProcessCall(e) /\ \E st : Pushes(c, st, e)
  BY InsertedCallEdits
<1>4. e.pid \in Pid /\ IsACall(e) /\ e.num \in Call
  BY <1>1, <1>2, <1>3, Converting DEF MissingCall, Lines, IsACall
<1>5. valid_span[c] => cur_span[c].start <= span_start_time
  BY <1>1 DEF TInv, EventTimes
<1> HIDE DEF e
<1>6. /\ Opens(c, span, x) /\ span.start = span_start_time /\ TOS(cpu_stack'[c]) = e.num
      /\ valid_span' = [valid_span EXCEPT ![c] = TRUE] /\ UNCHANGED mwait_pending
  BY <1>1, <1>2, <1>3, <1>4, <1>5, CallOpens
<1>7. /\ 0 < x /\ TOS(cpu_stack'[c]) = Sched => span.start <= x
      /\ x <= now
  BY <1>2, <1>6
<1>8. valid_span' \in [CPU -> BOOLEAN] /\ valid_span'[c] = TRUE
      /\ mwait_pending' \in [CPU -> Int] /\ span.start <= now + 1
  BY <1>2, <1>6 DEF TimeType
<1> HIDE DEF span, x
<1>9. TimeType' /\ StartsTrue' /\ Tiled'
  BY <1>2, <1>6, <1>7, <1>8, OpensKeeps
<1>10. cur_span'[c] = span
  BY <1>2, <1>6 DEF Opens, TimeType
<1>11. UNCHANGED ran
  BY DEF kvars
<1>12. EventTimes'
  <2>1. /\ cur_span'[c].start <= event.ts /\ cur_span'[c].start <= span_start_time
        /\ event.kind # "ctx"
    BY <1>1, <1>2, <1>6, <1>10
  <2> QED
    BY <1>1, <1>8, <1>11, <2>1, WaitingEvent
<1> QED
  BY <1>9, <1>12 DEF TInv

(* A span made up for the event is closed as well, and the one that was    *)
(* open goes on after it.                                                  *)
LEMMA ContinueOpens ==
    ASSUME TimeType, StackType, StacksNest, Tiled, NEW c \in CPU, Closable(c),
           NEW e, e.cpu = c, e.ts \in Nat, e.dur \in Nat,
           valid_span[c] => cur_span[c].start <= e.ts, UNCHANGED span_start_time,
           NEW k \in Pid \cup Call \cup Points \cup {"cexit"},
           shown' = Closes(c, e) \o <<[start |-> e.ts, stop |-> e.ts + e.dur, eventnum |-> k]>>,
           ContinueSpan(e), \A d \in CPU \ {c} : cpu_stack'[d] = cpu_stack[d],
           NEW x \in Nat, ctx_switch_ts' = [ctx_switch_ts EXCEPT ![c] = x]
    PROVE  \E span : Opens(c, span, x) /\ span.start = e.ts + e.dur
<1> DEFINE span == [Labelled(c, e) EXCEPT !.start = e.ts + e.dur]
           r == [start |-> e.ts, stop |-> e.ts + e.dur, eventnum |-> k]
<1>1. Labelled(c, e) \in OpenSpan /\ e.ts + e.dur \in Nat
  BY LabelledFacts
<1>2. span \in OpenSpan /\ span.start = e.ts + e.dur
  BY <1>1 DEF OpenSpan
<1>3. cur_span' = [cur_span EXCEPT ![c] = span]
  BY DEF ContinueSpan
<1> HIDE DEF span
<1>4. r = [start |-> e.ts, stop |-> e.ts + e.dur, eventnum |-> k]
      /\ shown' = Closes(c, e) \o <<r>>
  OBVIOUS
<1> HIDE DEF r
<1>5. /\ Closes(c, e) \o <<r>> \in Seq(Shown)
      /\ Tile(Closes(c, e) \o <<r>>, span_start_time, e.ts + e.dur, ran.open)
  BY <1>4, ClosesMore
<1>6. Opens(c, span, x)
  BY <1>2, <1>3, <1>4, <1>5 DEF Opens
<1> QED
  BY <1>2, <1>6

(* The exit from an idle state fits between the start of the open span and *)
(* the event.                                                              *)
LEMMA CexitKeepsTInv ==
    ASSUME RInv, IInv, TInv, UNCHANGED kvars, FixupCexit, NEW c, c = event.cpu
    PROVE  TInv'
<1> DEFINE latency == IF event.ts < cur_span[c].start THEN mwait_pending[c]
                      ELSE Lesser(mwait_pending[c], event.ts - cur_span[c].start)
<1>1. ~Reading /\ Settled /\ UNCHANGED <<event, span_start_time>> /\ UNCHANGED <<now, ran>>
  BY CexitEdits DEF kvars
<1>2. /\ c \in CPU /\ event \in Lines /\ StackType /\ StacksNest /\ TimeType /\ Tiled
      /\ KType /\ now \in Nat /\ event.ts \in {now, now + 1} /\ Closable(c) /\ ran.cpu = c
      /\ cur_span[c].start \in Nat /\ cur_span[c].start <= event.ts
      /\ ctx_switch_ts[c] \in Nat /\ ctx_switch_ts[c] <= now /\ span_start_time <= event.ts
  BY <1>1, ConvertingTimes
<1>3. mwait_pending[c] \in Nat /\ mwait_pending' = [mwait_pending EXCEPT ![c] = -1]
  BY <1>2 DEF FixupCexit, TimeType
<1>4. mwait_pending' \in [CPU -> Int]
  BY <1>2, <1>3 DEF TimeType
<1>5. CASE UNCHANGED <<cpuvars, ctx_switch_ts, outvars>>
  <2>1. UNCHANGED <<cpu_stack, cur_span, valid_span, shown, ctx_switch_ts>>
    BY <1>5 DEF cpuvars, outvars
  <2>2. TimeType'
    BY <1>1, <1>2, <1>4, <2>1 DEF TimeType
  <2>3. StartsTrue' /\ Tiled'
    BY <1>1, <2>1 DEF TInv, StartsTrue, Tiled
  <2>4. EventTimes'
    BY <1>1, <2>1 DEF TInv, EventTimes, Reading, CallFound, Stack
  <2> QED
    BY <2>2, <2>3, <2>4 DEF TInv
<1>6. CASE Top(Stack) = 0 /\ ProcessCexit(Cexit(event.ts - latency, latency))
  <2> DEFINE e == Cexit(event.ts - latency, latency)
  <2>1. latency \in Nat /\ event.ts - latency \in Nat
        /\ cur_span[c].start <= event.ts - latency
    BY <1>2, <1>3 DEF Lesser
  <2> HIDE DEF latency
  <2>2. e.cpu = c /\ e.ts = event.ts - latency /\ e.dur = latency /\ e.ts + e.dur = event.ts
    BY <1>2, <2>1 DEF Cexit, Lines
  <2>3. ProcessCexit(e)
    BY <1>6
  <2> HIDE DEF e
  <2>4. /\ shown' = Closes(c, e) \o <<[start |-> e.ts, stop |-> e.ts + e.dur,
                                       eventnum |-> "cexit"]>>
        /\ valid_span' = [valid_span EXCEPT ![c] = TRUE]
        /\ ContinueSpan(e) /\ UNCHANGED ctx_switch_ts
    BY <2>2, <2>3 DEF ProcessCexit, EndSpan, Closes
  <2>5. PICK st : Edits(c, st) /\ TOS(st) = TOS(cpu_stack[c])
    BY CexitEdits DEF Settles
  <2>6. ctx_switch_ts' = [ctx_switch_ts EXCEPT ![c] = ctx_switch_ts[c]]
    BY <1>2, <2>4 DEF TimeType
  <2>7. PICK span : Opens(c, span, ctx_switch_ts[c]) /\ span.start = event.ts
    <3>1. \A d \in CPU \ {c} : cpu_stack'[d] = cpu_stack[d]
      BY <2>5 DEF Edits
    <3>2. e.ts \in Nat /\ e.dur \in Nat
      BY <2>1, <2>2
    <3>3. valid_span[c] => cur_span[c].start <= e.ts
      BY <2>1, <2>2
    <3>4. "cexit" \in Pid \cup Call \cup Points \cup {"cexit"}
      OBVIOUS
    <3>5. \E span : Opens(c, span, ctx_switch_ts[c]) /\ span.start = e.ts + e.dur
      BY <1>1, <1>2, <2>2, <2>4, <2>6, <3>1, <3>2, <3>3, <3>4, ContinueOpens
    <3> QED
      BY <2>2, <3>5
  <2>8. TOS(Stack) \notin Call
    <3>1. Len(Stack.eventnum) = 1
      BY <1>1, <1>6, Converting DEF Top
    <3> QED
      BY <1>1, <3>1, Converting
  <2>9. TOS(cpu_stack'[c]) # Sched
    BY <2>5, <2>8, LevelFacts DEF Edits, Stack
  <2>10. event.kind # "ret"
    <3>1. event.kind = "ret" => TOS(Stack) \in Call
      BY <1>1, Converting, LevelFacts DEF Settled, IsAReturn, Matches
    <3> QED
      BY <2>8, <3>1
  <2>11. valid_span' \in [CPU -> BOOLEAN] /\ valid_span'[c] = TRUE
         /\ span.start <= now + 1
    BY <1>2, <2>4, <2>7 DEF TimeType
  <2>12. TimeType' /\ StartsTrue' /\ Tiled'
    BY <1>2, <1>4, <2>7, <2>9, <2>11, OpensKeeps
  <2>13. cur_span'[c] = span
    BY <1>2, <2>7 DEF Opens, TimeType
  <2>14. EventTimes'
    <3>1. cur_span'[c].start <= event.ts /\ cur_span'[c].start = event.ts
      BY <1>2, <2>7, <2>13
    <3> QED
      BY <1>1, <2>10, <2>11, <3>1, WaitingEvent
  <2> QED
    BY <2>12, <2>14 DEF TInv
<1> QED
  BY <1>5, <1>6 DEF FixupCexit, Cexit

(***************************************************************************)
(* Times: the event itself                                                 *)
(***************************************************************************)

LEMMA CallKeepsTInv ==
    ASSUME RInv, IInv, SInv, TInv, UNCHANGED kvars, UNCHANGED span_start_time,
           ~Reading, Goes, NEW c, c = event.cpu, event.kind = "call", ProcessCall(event),
           NEW st, Pushes(c, st, event)
    PROVE  TInv'
<1> DEFINE x == IF event.num = Sched THEN 0 ELSE ctx_switch_ts[c]
<1>1. /\ c \in CPU /\ event \in Lines /\ StackType /\ StacksNest /\ TimeType /\ Tiled
      /\ KType /\ now \in Nat /\ event.ts = now /\ Closable(c) /\ ran.cpu = c
      /\ cur_span[c].start \in Nat /\ cur_span[c].start <= event.ts
      /\ ctx_switch_ts[c] \in Nat /\ ctx_switch_ts[c] <= now
      /\ event.pid \in Pid /\ event.dur \in {0, 1}
  BY ConvertingTimes
<1>2. event.num \in Call /\ IsACall(event) /\ UNCHANGED <<now, ran>>
  BY Converting DEF IsACall, kvars
<1>3. valid_span' = [valid_span EXCEPT ![c] = TRUE] /\ UNCHANGED mwait_pending
  BY DEF ProcessCall, EndSpan
<1>4. /\ valid_span' \in [CPU -> BOOLEAN] /\ valid_span'[c] = TRUE
      /\ mwait_pending' \in [CPU -> Int]
  BY <1>1, <1>3 DEF TimeType
<1>5. x \in Nat /\ x <= now
  BY <1>1
<1>6. \E span : /\ Opens(c, span, x)
                /\ span.start = event.ts + event.dur
                /\ 0 < x /\ TOS(cpu_stack'[c]) = Sched => span.start <= x
  <2>1. CASE IsOptimizedCall(event)
    <3>1. /\ shown' = Closes(c, event) \o <<[start |-> event.ts, stop |-> event.ts + event.dur,
                                             eventnum |-> event.num]>>
          /\ ContinueSpan(event) /\ SetSchedTs(event)
      BY <2>1 DEF ProcessCall, EndSpan, Closes
    <3>2. ctx_switch_ts' = [ctx_switch_ts EXCEPT ![c] = x]
      <4>1. ~IsSchedReturnEvent(event) /\ (IsSchedCallEvent(event) <=> event.num = Sched)
        BY <1>2 DEF IsSchedReturnEvent, IsSchedCallEvent, IsACall, IsAReturn
      <4>2. CASE event.num = Sched
        BY <3>1, <4>1, <4>2 DEF SetSchedTs
      <4>3. CASE event.num # Sched
        BY <1>1, <3>1, <4>1, <4>3 DEF SetSchedTs, TimeType
      <4> QED
        BY <4>2, <4>3
    <3>3. TOS(cpu_stack'[c]) # Sched /\ \A d \in CPU \ {c} : cpu_stack'[d] = cpu_stack[d]
      BY <2>1 DEF Pushes, Edits
    <3>4. event.ts \in Nat /\ event.dur \in Nat
      BY <1>1
    <3> HIDE DEF x
    <3>5. PICK span : Opens(c, span, x) /\ span.start = event.ts + event.dur
      BY <1>1, <1>2, <1>5, <3>1, <3>2, <3>3, <3>4, ContinueOpens
    <3> QED
      BY <3>3, <3>5
  <2>2. CASE ~IsOptimizedCall(event)
    <3> DEFINE span == StartSpan(event, event.num)
    <3>1. /\ Opens(c, span, x) /\ span.start = event.ts /\ TOS(cpu_stack'[c]) = event.num
      BY <1>1, <1>2, <2>2, CallOpens
    <3>2. event.dur = 0
      BY <1>1, <1>2, <2>2 DEF IsOptimizedCall
    <3> HIDE DEF span
    <3>3. span.start = event.ts + event.dur
      BY <1>1, <3>1, <3>2
    <3> QED
      BY <3>1, <3>3
  <2> QED
    BY <2>1, <2>2
<1> HIDE DEF x
<1>7. PICK span : /\ Opens(c, span, x)
                  /\ span.start = event.ts + event.dur
                  /\ 0 < x /\ TOS(cpu_stack'[c]) = Sched => span.start <= x
  BY <1>6
<1>8. span.start <= now + 1
  BY <1>1, <1>7
<1>9. TimeType' /\ StartsTrue' /\ Tiled'
  BY <1>1, <1>4, <1>5, <1>7, <1>8, OpensKeeps
<1>10. cur_span'[c] = span
  BY <1>1, <1>7 DEF Opens, TimeType
<1>11. EventTimes'
  <2>1. cur_span'[c].start <= event.ts + event.dur
    BY <1>1, <1>7, <1>10
  <2> QED
    BY <1>1, <1>2, <1>4, <2>1, DoneEvent
<1> QED
  BY <1>9, <1>11 DEF TInv

LEMMA ReturnKeepsTInv ==
    ASSUME RInv, IInv, TInv, UNCHANGED kvars, UNCHANGED span_start_time,
           ~Reading, Goes, NEW c, c = event.cpu, event.kind = "ret", ProcessReturn(event),
           NEW st, Pops(c, st), cur_span' = [cur_span EXCEPT ![c] = StartSpan(event, TOS(st))]
    PROVE  TInv'
<1> DEFINE x == IF event.num = Sched THEN 0 ELSE ctx_switch_ts[c]
           span == StartSpan(event, TOS(st))
<1>1. /\ c \in CPU /\ event \in Lines /\ StackType /\ StacksNest /\ TimeType /\ Tiled
      /\ KType /\ now \in Nat /\ event.ts = now /\ Closable(c) /\ ran.cpu = c
      /\ cur_span[c].start \in Nat /\ cur_span[c].start <= event.ts
      /\ ctx_switch_ts[c] \in Nat /\ ctx_switch_ts[c] <= now
      /\ event.pid \in Pid /\ event.dur \in {0, 1}
  BY ConvertingTimes
<1>2. UNCHANGED <<now, ran>> /\ IsAReturn(event)
  BY DEF kvars, IsAReturn
<1>3. /\ Opens(c, span, x) /\ span.start = event.ts
      /\ valid_span' = [valid_span EXCEPT ![c] = TRUE] /\ UNCHANGED mwait_pending
  BY <1>1, <1>2, ReturnOpens
<1>4. /\ valid_span' \in [CPU -> BOOLEAN] /\ valid_span'[c] = TRUE
      /\ mwait_pending' \in [CPU -> Int]
  BY <1>1, <1>3 DEF TimeType
<1>5. x \in Nat /\ x <= now
  BY <1>1
<1>6. TOS(cpu_stack'[c]) # Sched
  BY DEF Pops, Edits
<1> HIDE DEF x, span
<1>7. span.start <= now + 1
  BY <1>1, <1>3
<1>8. TimeType' /\ StartsTrue' /\ Tiled'
  BY <1>1, <1>3, <1>4, <1>5, <1>6, <1>7, OpensKeeps
<1>9. cur_span'[c] = span
  BY <1>1, <1>3 DEF Opens, TimeType
<1>10. EventTimes'
  <2>1. cur_span'[c].start <= event.ts + event.dur
    BY <1>1, <1>3, <1>9
  <2> QED
    BY <1>1, <1>2, <1>4, <2>1, DoneEvent
<1> QED
  BY <1>8, <1>10 DEF TInv

LEMMA SplitKeepsTInv ==
    ASSUME RInv, IInv, Calm, SInv, TInv, UNCHANGED kvars, UNCHANGED span_start_time,
           ~Reading, event' = NoEvent, NEW c, c = event.cpu,
           event.kind \in {"rpc", "mark", "mwait", "mwait_exit"}, ProcessSplit(event),
           NEW st, Settles(c, st, event)
    PROVE  TInv'
<1>1. /\ c \in CPU /\ event \in Lines /\ StackType /\ StacksNest /\ TimeType /\ Tiled
      /\ KType /\ now \in Nat /\ event.ts = now /\ Closable(c) /\ ran.cpu = c
      /\ cur_span[c].start \in Nat /\ cur_span[c].start <= event.ts
      /\ ctx_switch_ts[c] \in Nat /\ ctx_switch_ts[c] <= now
      /\ event.dur \in {0, 1}
  BY ConvertingTimes
<1>2. TOS(cpu_stack[c]) # Sched
  BY <1>1 DEF SInv, SchedTrue, SchedAfter, Calm
<1>3. /\ TOS(cpu_stack'[c]) # Sched
      /\ \A d \in CPU \ {c} : cpu_stack'[d] = cpu_stack[d]
  BY <1>2, LevelFacts DEF Settles, Edits
<1>4. /\ shown' = Closes(c, event) \o <<[start |-> event.ts, stop |-> event.ts + event.dur,
                                         eventnum |-> event.kind]>>
      /\ ContinueSpan(event) /\ UNCHANGED <<ctx_switch_ts, valid_span>>
      /\ mwait_pending' = [mwait_pending EXCEPT ![c] = MwaitPending(event)]
  BY DEF ProcessSplit, Closes
<1>5. ctx_switch_ts' = [ctx_switch_ts EXCEPT ![c] = ctx_switch_ts[c]]
  BY <1>1, <1>4 DEF TimeType
<1>6. MwaitPending(event) \in Int
  BY <1>1 DEF MwaitPending, TimeType, RInv, EventTrue
<1>7. mwait_pending' \in [CPU -> Int] /\ valid_span' \in [CPU -> BOOLEAN]
  BY <1>1, <1>4, <1>6 DEF TimeType
<1>8. event.ts \in Nat /\ event.dur \in Nat
      /\ event.kind \in Pid \cup Call \cup Points \cup {"cexit"}
  BY <1>1 DEF Points
<1>9. PICK span : Opens(c, span, ctx_switch_ts[c]) /\ span.start = event.ts + event.dur
  BY <1>1, <1>3, <1>4, <1>5, <1>8, ContinueOpens
<1>10. span.start <= now + 1
  BY <1>1, <1>9
<1>11. TimeType' /\ StartsTrue' /\ Tiled'
  BY <1>1, <1>3, <1>7, <1>9, <1>10, OpensKeeps
<1>12. EventTimes'
  BY DEF EventTimes, Reading
<1> QED
  BY <1>11, <1>12 DEF TInv

LEMMA PointKeepsTInv ==
    ASSUME RInv, IInv, TInv, UNCHANGED kvars, UNCHANGED span_start_time,
           ~Reading, event' = NoEvent, NEW c, c = event.cpu,
           event.kind \in {"sample", "wakeup", "ipi", "monitor_store", "other"},
           ProcessPoint(event), NEW st, Settles(c, st, event)
    PROVE  TInv'
<1> DEFINE span == Labelled(c, event)
<1>1. /\ c \in CPU /\ StackType /\ StacksNest /\ TimeType /\ Tiled
      /\ KType /\ Closable(c) /\ ran.cpu = c
      /\ ctx_switch_ts[c] \in Nat /\ ctx_switch_ts[c] <= now
  BY ConvertingTimes
<1>2. span \in OpenSpan /\ span.start = cur_span[c].start
  BY <1>1, LabelledFacts
<1>3. TOS(cpu_stack'[c]) = TOS(cpu_stack[c])
      /\ \A d \in CPU \ {c} : cpu_stack'[d] = cpu_stack[d]
  BY DEF Settles, Edits, OnlyInUserMode, IsACall
<1>4. /\ cur_span' = [cur_span EXCEPT ![c] = span]
      /\ UNCHANGED <<valid_span, ctx_switch_ts, mwait_pending, shown>>
  BY DEF ProcessPoint
<1>5. ctx_switch_ts' = [ctx_switch_ts EXCEPT ![c] = ctx_switch_ts[c]]
  BY <1>1, <1>4 DEF TimeType
<1>6. shown' \in Seq(Shown) /\ Tile(shown', span_start_time, cur_span[c].start, ran.open)
  BY <1>1, <1>4 DEF Tiled, Tile, TimeType
<1> HIDE DEF span
<1>7. Opens(c, span, ctx_switch_ts[c])
  BY <1>1, <1>2, <1>3, <1>4, <1>5, <1>6 DEF Opens
<1>8. /\ span.start <= now + 1
      /\ 0 < ctx_switch_ts[c] /\ TOS(cpu_stack'[c]) = Sched => span.start <= ctx_switch_ts[c]
  BY <1>1, <1>2, <1>3 DEF TInv, StartsTrue
<1>9. mwait_pending' \in [CPU -> Int] /\ valid_span' \in [CPU -> BOOLEAN]
  BY <1>1, <1>4 DEF TimeType
<1>10. TimeType' /\ StartsTrue' /\ Tiled'
  BY <1>1, <1>7, <1>8, <1>9, OpensKeeps
<1>11. EventTimes'
  BY DEF EventTimes, Reading
<1> QED
  BY <1>10, <1>11 DEF TInv

(* A switch starts a span only when it is no switch: the header of a CPU   *)
(* that is idle.                                                           *)
LEMMA ContextKeepsTInv ==
    ASSUME RInv, IInv, Calm, SInv, TInv, UNCHANGED kvars, UNCHANGED span_start_time,
           ~Reading, event' = NoEvent, NEW c, c = event.cpu, event.kind = "ctx",
           ProcessContextSwitch(event)
    PROVE  TInv'
<1> DEFINE q == event.pid
           new == SwapStacks(MarkAmbiguous(cpu_stack[c]), q)
<1>1. /\ c \in CPU /\ StackType /\ StacksNest /\ TimeType /\ Tiled
      /\ KType /\ now \in Nat /\ event.ts = now /\ Closable(c) /\ ran.cpu = c
      /\ cur_span[c] \in OpenSpan /\ cur_span[c].start \in Nat /\ cur_span[c].start <= now
      /\ q \in Pid
  BY ConvertingTimes
<1>2. /\ ctx_switch_ts' = [ctx_switch_ts EXCEPT ![c] = now]
      /\ UNCHANGED <<mwait_pending, shown>> /\ cpu_stack' = [cpu_stack EXCEPT ![c] = new]
      /\ IF Top(new) = 0
         THEN /\ cur_span' = [cur_span EXCEPT ![c] = StartSpan(event, q)]
              /\ valid_span' = [valid_span EXCEPT ![c] = TRUE]
         ELSE UNCHANGED <<cur_span, valid_span>>
  BY <1>1 DEF ProcessContextSwitch, outvars
<1>3. /\ cpu_stack'[c] = new
      /\ \A d \in CPU \ {c} : cpu_stack'[d] = cpu_stack[d]
  BY <1>1, <1>2 DEF StackType
<1>4. Tile(shown, span_start_time, cur_span[c].start, ran.open) /\ shown \in Seq(Shown)
  BY <1>1 DEF Tiled, Tile, TimeType
<1>5. valid_span' \in [CPU -> BOOLEAN] /\ mwait_pending' \in [CPU -> Int]
  BY <1>1, <1>2 DEF TimeType
<1>6. \E span : Opens(c, span, now) /\ span.start <= now
  <2>1. CASE Top(new) = 0
    <3> DEFINE span == StartSpan(event, q)
    <3>1. ~ran.open
      <4>1. q = on[c]
        BY <1>1 DEF RInv, OwnersTrue, Converts
      <4>2. SchedAfter(c) /\ SchedTrue
        BY <1>1 DEF SInv, SchedTrue
      <4>3. CASE Owner(c) = q
        BY <4>1, <4>2, <4>3 DEF SchedAfter
      <4>4. CASE Owner(c) # q
        <5>1. cpu_stack'[c] = IF perpidstate[q] = NoState THEN BrandNewPid(q)
                                                          ELSE perpidstate[q]
          BY <1>1, <4>4, SwitchEdits
        <5>2. TOS(BrandNewPid(q)) = Sched
          BY DEF TOS, BrandNewPid
        <5>3. TOS(new) = Sched
          BY <1>1, <1>3, <4>2, <5>1, <5>2 DEF SchedTrue, Calm
        <5>4. GoodState(new)
          <6>1. (StackType /\ StacksNest)'
            BY <1>1, SwitchStep
          <6> QED
            BY <1>1, <1>3, <6>1 DEF StackType, StacksNest, GoodState
        <5> DEFINE depth == Len(new.eventnum)
        <5>5. 1 < depth
          BY <5>3, <5>4, TopFacts, LevelFacts DEF GoodState, TOS
        <5>6. depth \in Nat
          BY <5>4, TopFacts DEF GoodState
        <5>7. depth - 1 = 0
          BY <2>1 DEF Top
        <5> HIDE DEF depth
        <5> QED
          BY <5>5, <5>6, <5>7
      <4> QED
        BY <4>3, <4>4
    <3>2. span \in OpenSpan /\ span.start = now
      BY <1>1 DEF StartSpan, OpenSpan
    <3>3. shown # <<>> => cur_span[c].start = now
      BY <1>1 DEF TInv, EventTimes
    <3>4. Tile(shown, span_start_time, now, ran.open)
      BY <1>4, <3>1, <3>3 DEF Tile
    <3>5. cur_span' = [cur_span EXCEPT ![c] = span]
      BY <1>2, <2>1
    <3> HIDE DEF span
    <3>6. Opens(c, span, now)
      BY <1>1, <1>2, <1>3, <1>4, <3>2, <3>4, <3>5 DEF Opens
    <3> QED
      BY <1>1, <3>2, <3>6
  <2>2. CASE Top(new) # 0
    <3>1. cur_span' = [cur_span EXCEPT ![c] = cur_span[c]]
      BY <1>1, <1>2, <2>2 DEF TimeType
    <3>2. Opens(c, cur_span[c], now)
      BY <1>1, <1>2, <1>3, <1>4, <3>1 DEF Opens
    <3> QED
      BY <1>1, <3>2
  <2> QED
    BY <2>1, <2>2
<1>7. PICK span : Opens(c, span, now) /\ span.start <= now
  BY <1>6
<1>8. span.start <= now + 1
  BY <1>1, <1>7 DEF Opens, OpenSpan
<1>9. TimeType' /\ StartsTrue' /\ Tiled'
  BY <1>1, <1>5, <1>7, <1>8, OpensKeeps
<1>10. EventTimes'
  BY DEF EventTimes, Reading
<1> QED
  BY <1>9, <1>10 DEF TInv

LEMMA ConvertKeepsTInv ==
    ASSUME RInv, IInv, Calm, SInv, TInv, Convert, UNCHANGED kvars
    PROVE  TInv'
<1>1. CASE ProcessEvent
  <2>1. ~Reading /\ Goes /\ UNCHANGED span_start_time
    BY <1>1, EventEdits
  <2>2. CASE event.kind = "call" /\ ProcessCall(event) /\ \E st : Pushes(event.cpu, st, event)
    BY <2>1, <2>2, CallKeepsTInv
  <2>3. CASE /\ event.kind = "ret" /\ ProcessReturn(event)
             /\ \E st : /\ Pops(event.cpu, st)
                        /\ cur_span' = [cur_span EXCEPT ![event.cpu] =
                                           StartSpan(event, TOS(st))]
    BY <2>1, <2>3, ReturnKeepsTInv
  <2>4. CASE event.kind = "ctx" /\ ProcessContextSwitch(event) /\ event' = NoEvent
    BY <2>1, <2>4, ContextKeepsTInv
  <2>5. CASE /\ event.kind \in {"rpc", "mark", "mwait", "mwait_exit"} /\ event' = NoEvent
             /\ ProcessSplit(event) /\ \E st : Settles(event.cpu, st, event)
    BY <2>1, <2>5, SplitKeepsTInv
  <2>6. CASE /\ event.kind \in {"sample", "wakeup", "ipi", "monitor_store", "other"}
             /\ event' = NoEvent
             /\ ProcessPoint(event) /\ \E st : Settles(event.cpu, st, event)
    BY <2>1, <2>6, PointKeepsTInv
  <2> QED
    BY <1>1, <2>2, <2>3, <2>4, <2>5, <2>6, EventEdits
<1> QED
  BY <1>1, ReturnPopKeepsTInv, ReturnCallKeepsTInv, ReschedKeepsTInv, SchedFixupKeepsTInv,
     CallFixupKeepsTInv, CexitKeepsTInv DEF Convert

(***************************************************************************)
(* Times: the kernel, and the theorem                                      *)
(***************************************************************************)

LEMMA KernelKeepsTInv ==
    ASSUME RInv, TInv, NEW c \in CPU, Hands(c)
    PROVE  TInv'
<1>1. /\ Reading /\ now' = now + 2 /\ ran'.cpu = c /\ (ran'.open <=> valid_span[c] /\ Announced(c))
      /\ UNCHANGED convvars /\ shown' = <<>>
      /\ span_start_time' = IF valid_span[c] THEN cur_span[c].start ELSE now + 2
      /\ event'.cpu = c /\ event'.ts = now + 2
  BY DEF Hands
<1>2. UNCHANGED <<cpu_stack, cur_span, valid_span, ctx_switch_ts, mwait_pending>>
  BY <1>1 DEF convvars, cpuvars
<1>3. now \in Nat /\ TimeType
  BY DEF RInv, KType, TInv
<1>4. cur_span[c].start \in Nat /\ cur_span[c].start <= now + 1
  BY <1>3 DEF TInv, TimeType, OpenSpan, StartsTrue
<1>5. TimeType'
  BY <1>1, <1>2, <1>3, <1>4 DEF TimeType
<1>6. StartsTrue'
  <2> SUFFICES ASSUME NEW d \in CPU
               PROVE  /\ cur_span[d].start <= now + 2 + 1 /\ ctx_switch_ts[d] <= now + 2
                      /\ 0 < ctx_switch_ts[d] /\ TOS(cpu_stack[d]) = Sched
                            => cur_span[d].start <= ctx_switch_ts[d]
    BY <1>1, <1>2 DEF StartsTrue
  <2>1. cur_span[d].start \in Nat /\ ctx_switch_ts[d] \in Nat
    BY <1>3 DEF TimeType, OpenSpan
  <2> QED
    BY <1>3, <2>1 DEF TInv, StartsTrue
<1>7. Tiled'
  <2>1. ran'.open => cur_span'[ran'.cpu].start = span_start_time'
    BY <1>1, <1>2
  <2>2. Len(shown') = 0
    BY <1>1
  <2> QED
    BY <1>1, <2>1, <2>2 DEF Tiled
<1>8. EventTimes'
  BY <1>1, <1>2, <1>3, <1>4 DEF EventTimes
<1> QED
  BY <1>5, <1>6, <1>7, <1>8 DEF TInv

LEMMA KInitTInv ==
    ASSUME KInit
    PROVE  TInv
<1>1. /\ event = NoEvent /\ span_start_time = 0 /\ shown = <<>> /\ now = 0 /\ ran.open = FALSE
      /\ cur_span = [c \in CPU |-> [start |-> 0, eventnum |-> Idle, pid |-> Idle]]
      /\ valid_span = [c \in CPU |-> FALSE] /\ ctx_switch_ts = [c \in CPU |-> 0]
      /\ mwait_pending = [c \in CPU |-> -1]
  BY DEF KInit, Init
<1>2. TimeType
  BY <1>1, CallAssumption DEF TimeType, OpenSpan
<1>3. StartsTrue
  BY <1>1 DEF StartsTrue
<1>4. EventTimes
  BY <1>1 DEF EventTimes, Reading
<1>5. Tiled
  <2>1. Len(shown) = 0
    BY <1>1
  <2> QED
    BY <1>1, <2>1 DEF Tiled
<1> QED
  BY <1>2, <1>3, <1>4, <1>5 DEF TInv

CalmInv == SInv /\ (Calm => TInv)

LEMMA NextKeepsCalm ==
    ASSUME RInv, IInv, CalmInv, [Next]_allvars
    PROVE  CalmInv'
<1>1. CASE UNCHANGED allvars
  <2>1. UNCHANGED <<vars, kvars>>
    BY <1>1 DEF allvars
  <2>2. UNCHANGED <<event, cpu_stack, perpidstate, span_start_time, cur_span, valid_span,
                    ctx_switch_ts, mwait_pending, shown>>
    BY <2>1 DEF vars, convvars, cpuvars, switchvars, outvars
  <2>3. UNCHANGED <<mix, now, on, thread, heard, fresh, ran>>
    BY <2>1, KernelSame
  <2>4. (Calm' <=> Calm) /\ mix' = mix
    BY <2>3 DEF Calm
  <2>5. TInv' <=> TInv
    BY <2>2, <2>3 DEF TInv, TimeType, StartsTrue, EventTimes, Tiled, Reading, CallFound, Stack
  <2>6. \A d : /\ SchedAt(d)' <=> SchedAt(d)
               /\ SchedAfter(d)' <=> SchedAfter(d)
               /\ \A K : Converts(d, K)' <=> Converts(d, K)
    BY <2>1, <2>2, <2>3, KernelSame DEF SchedAt, SchedAfter, Converts, Owner, Reading
  <2>7. SInv => SInv'
    BY <2>1, <2>2, <2>6, KernelSame DEF SInv, SchedTrue, Reading
  <2> QED
    BY <2>4, <2>5, <2>7 DEF CalmInv
<1>2. CASE Kernel
  <2>1. PICK c \in CPU : KernelStep(c)
    BY <1>2, KernelSteps DEF RInv
  <2>2. Hands(c) /\ (Calm' <=> Calm) /\ mix' = mix
    BY <2>1, KernelReads DEF RInv, Hands, Calm
  <2> QED
    BY <2>1, <2>2, KernelKeepsSInv, KernelKeepsTInv DEF CalmInv
<1>3. CASE Convert /\ UNCHANGED kvars
  <2>1. (Calm' <=> Calm) /\ mix' = mix
    BY <1>3 DEF kvars, Calm
  <2> QED
    BY <1>3, <2>1, ConvertKeepsSInv, ConvertKeepsTInv DEF CalmInv, Calm
<1> QED
  BY <1>1, <1>2, <1>3 DEF Next

(* The spans closed for an event follow one another without gap or         *)
(* overlap, from where the span open before it began to where the one open *)
(* after it begins, on any number of CPUs and for any processes, as long   *)
(* as no interrupt comes inside the scheduler and no process makes a mark  *)
(* before its first call: what FixupReturn, FixupSched, FixupCall and      *)
(* FixupCexit insert always falls into the span that is open.              *)
THEOREM SpansTileHolds == Spec => []SpansTile
<1>1. KInit => CalmInv
  BY KInitSInv, KInitTInv DEF CalmInv
<1>2. IInv /\ RInv /\ CalmInv /\ [Next]_allvars => CalmInv'
  BY NextKeepsCalm
<1>3. CalmInv => SpansTile
  BY DEF CalmInv, Calm, TInv, SpansTile, TimeCovered
<1> QED
  BY <1>1, <1>2, <1>3, KernelInv, PTL DEF Spec

(***************************************************************************)
(* Waits: the invariant, and who the CPUs show                             *)
(***************************************************************************)

(* Every return from the scheduler follows a switch, and no process is     *)
(* switched to before the CPU that it left is done with it.                *)
Orderly == ~mix.intr /\ ~mix.stay /\ ~mix.hurry

LeftType ==
    /\ switched \subseteq CPU /\ leaving \in [CPU -> Pid]
    /\ left \in [Proc -> Nat] /\ came \in [Proc -> Nat]

(* A process that was seen to come is on a CPU, and one that a CPU is      *)
(* leaving is on none.                                                     *)
MovesTrue ==
    /\ \A c \in switched : TopCall(c) = Sched /\ Announced(c)
    /\ \A p \in fresh : left[p] = 0 /\ came[p] = 0
    /\ \A c \in CPU : on[c] \in fresh => Announced(c)
    /\ \A p \in Proc : left[p] <= now
    /\ \A p \in Proc : came[p] # 0 => \E c \in CPU \ switched : on[c] = p /\ Announced(c)
    /\ \A c \in CPU \ switched : on[c] # Idle /\ came[on[c]] = 0 => left[on[c]] = 0
    /\ \A c \in CPU : leaving[c] # Idle =>
          \A d \in CPU : on[d] # leaving[c] /\ (leaving[d] = leaving[c] => d = c)

WaitType ==
    /\ span_start_time \in Nat
    /\ cur_span \in [CPU -> OpenSpan]
    /\ valid_span \in [CPU -> BOOLEAN]
    /\ ctx_switch_ts \in [CPU -> Nat]
    /\ mwait_pending \in [CPU -> Int]
    /\ oldpid \in [CPU -> Pid] /\ newpid \in [CPU -> Pid]
    /\ priorPidEnd \in [Pid -> Nat] /\ priorPidEnd[Idle] = 0

EventFits == ~Reading =>
    /\ event.pid = on[event.cpu] /\ 0 < now
    /\ event.kind = "wakeup" => event.arg \in Proc
    /\ event.kind \in {"call", "ret"} => event.arg \in Pid /\ on[event.cpu] \notin fresh
    /\ event.kind = "ret" /\ event.num = Sched => TOS(cpu_stack[event.cpu]) = Sched

(* Whose span is open on a CPU.                                            *)
Shows(c, p) == valid_span[c] /\ cur_span[c].pid = p
Away(c) == \E p \in Proc : p # on[c] /\ Shows(c, p)

(* The converter takes the CPU to be inside the scheduler, after a switch. *)
Settling(c) ==
    /\ Top(cpu_stack[c]) = 1 /\ TOS(cpu_stack[c]) = Sched /\ cpu_stack[c].ambiguous = 0
    /\ 0 < ctx_switch_ts[c]

Calls(c) == Converts(c, {"call", "ret"})
SchedReturns(c) ==
    Converts(c, {"ret"}) /\ event.num = Sched /\ TOS(cpu_stack[c]) = Sched

(* The span of a process that was switched away from is open until the     *)
(* scheduler returns.                                                      *)
AwayTrue(c) == LET p == cur_span[c].pid IN
    /\ TOS(cpu_stack[c]) = Sched
    /\ ~Converts(c, {"ctx"}) => left[p] <= ctx_switch_ts[c]
    /\ Converts(c, {"ctx"}) => Owner(c) = p
    /\ ~Calls(c) => leaving[c] = p /\ (c \in switched \/ on[c] \in fresh)
    /\ Converts(c, {"call"}) => Settling(c)
    /\ Converts(c, {"ret"}) => SchedReturns(c)

(* A process that was seen to come has its span, or gets it now.           *)
CameTrue(c) == LET p == on[c] IN
    \/ Shows(c, p) /\ p \in pidRunning
    \/ Converts(c, {"call"}) /\ left[p] = 0 /\ Settling(c)
    \/ SchedReturns(c) /\ came[p] = now

(* The process that a return from the scheduler takes out of pidRunning.   *)
OldTrue(c) == LET p == oldpid[c] IN
    /\ ~Calls(c) /\ ~Converts(c, {"ctx"})
          => leaving[c] = p \/ (TopCall(c) = Sched /\ c \notin switched)
    /\ Calls(c) => /\ came[p] = 0
                   /\ \A d \in CPU : Shows(d, p) /\ 0 < left[p] => d = c

CpuTrue(c) ==
    /\ ~valid_span[c] => cur_span[c].pid = Idle
    /\ Announced(c) /\ ~Converts(c, {"ctx"}) => newpid[c] = on[c]
    /\ Converts(c, {"ctx"}) /\ Owner(c) # Idle
          => leaving[c] = Owner(c) /\ Owner(c) \notin fresh
    /\ on[c] \in fresh /\ ~Converts(c, {"ctx"}) => Settling(c)
    /\ c \in switched => TOS(cpu_stack[c]) = Sched /\ ~Calls(c)
    /\ Away(c) => AwayTrue(c)
    /\ on[c] # Idle /\ came[on[c]] # 0 => CameTrue(c)
    /\ oldpid[c] # Idle /\ TOS(cpu_stack[c]) = Sched => OldTrue(c)
    /\ \A p \in Proc : Shows(c, p) /\ 0 < left[p] => p \in pidRunning

FreshTrue ==
    \A p \in fresh : (\A c \in CPU : Owner(c) # p) => perpidstate[p] = NoState

(* When a process was switched out, its span is still open, or was closed  *)
(* no earlier.                                                             *)
EndsTrue ==
    \A p \in Proc : 0 < left[p] =>
        left[p] <= priorPidEnd[p] \/ \E c \in CPU : Shows(c, p)

WaitTrue(w) ==
    /\ w.pid \in Proc
    /\ 0 < left[w.pid] => /\ left[w.pid] < w.start
                          /\ came[w.pid] = 0 \/ w.stop <= came[w.pid]

WInv ==
    /\ LeftType /\ MovesTrue /\ WaitType /\ EventFits
    /\ \A c \in CPU : CpuTrue(c)
    /\ FreshTrue /\ EndsTrue
    /\ \A w \in waits : WaitTrue(w)

OrderlyInv == Orderly => WInv

(***************************************************************************)
(* Waits: where processes go                                               *)
(***************************************************************************)

(* CPU c goes on with the process that it has, leaves the scheduler or is  *)
(* done with the process it left; a process that comes is the one it has.  *)
LEMMA StayMoves ==
    ASSUME KType, OneCPU, LeftType, MovesTrue, NEW c \in CPU, now' = now + 2,
           UNCHANGED <<on, left>>, fresh' \subseteq fresh,
           switched' \subseteq switched, switched \ {c} \subseteq switched',
           \A d \in switched' : TopCall(d)' = TopCall(d),
           \A d \in CPU : Announced(d) => Announced(d)',
           leaving' = leaving \/ leaving' = [leaving EXCEPT ![c] = Idle],
           came' \in [Proc -> Nat],
           \A p \in Proc : came'[p] # came[p] =>
              /\ p = on[c] /\ c \notin switched' /\ Announced(c)' /\ p \notin fresh'
              /\ came'[p] = 0 => left[p] = 0,
           c \in switched \ switched' /\ on[c] # Idle => came'[on[c]] # 0
    PROVE  LeftType' /\ MovesTrue'
<1>1. now \in Nat /\ on \in [CPU -> Pid] /\ Idle \in Pid
  BY CallAssumption DEF KType
<1>2. LeftType'
  BY <1>1 DEF LeftType
<1>3. \A p \in Proc : left[p] \in Nat
  BY DEF LeftType
<1>4. \A p \in Proc : left'[p] <= now'
  BY <1>1, <1>3 DEF MovesTrue
<1>5. \A d \in switched' : TopCall(d)' = Sched /\ Announced(d)'
  BY DEF MovesTrue, LeftType
<1>6. \A p \in fresh' : left'[p] = 0 /\ came'[p] = 0
  BY DEF MovesTrue, KType
<1>7. \A d \in CPU : on'[d] \in fresh' => Announced(d)'
  BY DEF MovesTrue
<1>8. \A p \in Proc : came'[p] # 0 => \E d \in CPU \ switched' : on'[d] = p /\ Announced(d)'
  BY DEF MovesTrue
<1>9. ASSUME NEW d \in CPU \ switched', on'[d] # Idle, came'[on'[d]] = 0
      PROVE  left'[on'[d]] = 0
  <2>1. on[d] \in Proc
    BY <1>1, <1>9 DEF Proc
  <2>2. CASE came[on[d]] # 0
    BY <1>9, <2>1, <2>2
  <2>3. CASE came[on[d]] = 0 /\ d \notin switched
    BY <1>9, <2>3 DEF MovesTrue
  <2>4. CASE d \in switched
    BY <1>9, <2>4
  <2> QED
    BY <2>2, <2>3, <2>4
<1>10. ASSUME NEW d \in CPU, leaving'[d] # Idle
       PROVE  \A e \in CPU : on'[e] # leaving'[d] /\ (leaving'[e] = leaving'[d] => e = d)
  <2>1. leaving'[d] = leaving[d] /\ \A e \in CPU : leaving'[e] \in {leaving[e], Idle}
    BY <1>10 DEF LeftType
  <2> QED
    BY <1>10, <2>1 DEF MovesTrue
<1> QED
  BY <1>2, <1>4, <1>5, <1>6, <1>7, <1>8, <1>9, <1>10 DEF MovesTrue

(* What a CPU is doing does not depend on the steps of another.            *)
LEMMA OthersKeepCpu ==
    ASSUME KType, OneCPU, LeftType, MovesTrue, NEW c \in CPU, Hands(c), OnlyOn(c),
           NEW d \in CPU \ {c}, CpuTrue(d), leaving'[d] = leaving[d],
           d \in switched' <=> d \in switched, fresh' \subseteq fresh,
           \A p \in Proc : p # on[c] => left'[p] = left[p]
                                        /\ (came'[p] # 0 => came'[p] = came[p])
    PROVE  CpuTrue(d)'
<1>1. \A K : ~Converts(d, K) /\ ~Converts(d, K)'
  BY HandsConverts
<1>2. on'[d] = on[d] /\ heard'[d] = heard[d] /\ (Announced(d)' <=> Announced(d))
  BY DEF OnlyOn, Announced
<1>3. TopCall(d)' = TopCall(d)
  BY <1>2 DEF OnlyOn, TopCall, TaskOn
<1>4. on[d] \in fresh' <=> on[d] \in fresh
  <2>1. TaskOn(d) # TaskOn(c)
    BY OtherTasks
  <2>2. on[d] \in fresh => on[d] # TaskOn(c)
    BY <2>1 DEF KType, Proc, TaskOn
  <2> QED
    BY <2>2 DEF OnlyOn
<1>5. UNCHANGED <<cpu_stack, cur_span, valid_span, ctx_switch_ts, oldpid, newpid, pidRunning>>
  BY DEF Hands, convvars, cpuvars, switchvars
<1>6. \A p : Shows(d, p)' <=> Shows(d, p)
  BY <1>5 DEF Shows
<1>7. on[d] # Idle => on[d] \in Proc /\ on[d] # on[c]
  BY DEF KType, OneCPU, Proc
<1>8. Settling(d)' <=> Settling(d)
  BY <1>5 DEF Settling
<1>9. ~Calls(d) /\ ~Calls(d)' /\ ~SchedReturns(d) /\ ~SchedReturns(d)'
  BY <1>1 DEF Calls, SchedReturns
<1>10. ASSUME NEW p \in Proc, p # on[d], Shows(d, p)
       PROVE  /\ cur_span[d].pid = p /\ TOS(cpu_stack[d]) = Sched /\ left[p] <= ctx_switch_ts[d]
              /\ leaving[d] = p /\ (d \in switched \/ on[d] \in fresh)
              /\ left'[p] = left[p]
  <2>1. Away(d) /\ cur_span[d].pid = p
    BY <1>10 DEF Away, Shows
  <2>2. AwayTrue(d)
    BY <2>1 DEF CpuTrue
  <2>3. leaving[d] = p /\ p # Idle
    BY <1>9, <2>1, <2>2 DEF AwayTrue, Proc
  <2>4. on[c] # p
    BY <2>3 DEF MovesTrue
  <2> QED
    BY <1>1, <1>9, <2>1, <2>2, <2>4 DEF AwayTrue
<1>11. Away(d)' => AwayTrue(d)'
  <2> SUFFICES ASSUME NEW p \in Proc, p # on'[d], Shows(d, p)'
               PROVE  AwayTrue(d)'
    BY DEF Away
  <2>1. p # on[d] /\ Shows(d, p)
    BY <1>2, <1>6
  <2> QED
    BY <1>1, <1>2, <1>4, <1>5, <1>9, <1>10, <2>1 DEF AwayTrue
<1>12. on'[d] # Idle /\ came'[on'[d]] # 0 => CameTrue(d)'
  <2> SUFFICES ASSUME on[d] # Idle, came'[on[d]] # 0 PROVE Shows(d, on[d]) /\ on[d] \in pidRunning
    BY <1>2, <1>5, <1>6 DEF CameTrue
  <2>1. came[on[d]] # 0
    BY <1>7
  <2> QED
    BY <1>1, <1>9, <2>1 DEF CpuTrue, CameTrue
<1>13. ASSUME NEW p \in Proc, Shows(d, p), 0 < left'[p] PROVE p \in pidRunning
  <2>1. CASE p = on[d]
    <3>1. p # on[c]
      BY <2>1, <1>7, <1>13 DEF Proc
    <3>2. left'[p] = left[p]
      BY <3>1
    <3> QED
      BY <1>13, <3>2 DEF CpuTrue
  <2>2. CASE p # on[d]
    BY <1>10, <1>13, <2>2 DEF CpuTrue
  <2> QED
    BY <2>1, <2>2
<1>14. oldpid[d] # Idle /\ TOS(cpu_stack[d]) = Sched => OldTrue(d)'
  <2> SUFFICES ASSUME oldpid[d] # Idle, TOS(cpu_stack[d]) = Sched
               PROVE  leaving[d] = oldpid[d] \/ (TopCall(d) = Sched /\ d \notin switched)
    BY <1>3, <1>5, <1>9 DEF OldTrue
  <2> QED
    BY <1>1, <1>9 DEF CpuTrue, OldTrue
<1>15. ~valid_span[d] => cur_span[d].pid = Idle
  BY DEF CpuTrue
<1>16. Announced(d) => newpid[d] = on[d]
  BY <1>1 DEF CpuTrue
<1>17. on[d] \in fresh => Settling(d)
  BY <1>1 DEF CpuTrue
<1>18. d \in switched => TOS(cpu_stack[d]) = Sched
  BY DEF CpuTrue
<1> QED
  BY <1>1, <1>2, <1>4, <1>5, <1>6, <1>8, <1>9, <1>11, <1>12, <1>13, <1>14, <1>15, <1>16,
     <1>17, <1>18 DEF CpuTrue

(* What a kernel step leaves to be shown: of its own CPU, and of what      *)
(* moves there.                                                            *)
LEMMA HandsKeepWaits ==
    ASSUME KType, OneCPU, WInv, NEW c \in CPU, Hands(c), OnlyOn(c),
           LeftType', MovesTrue', EventFits', CpuTrue(c)', fresh' \subseteq fresh,
           \A d \in CPU \ {c} : leaving'[d] = leaving[d] /\ (d \in switched' <=> d \in switched),
           \A p \in Proc : p # on[c] => left'[p] = left[p]
                                        /\ (came'[p] # 0 => came'[p] = came[p]),
           on[c] # Idle => left'[on[c]] = left[on[c]] \/ Shows(c, on[c])
    PROVE  WInv'
<1>1. LeftType /\ MovesTrue /\ WaitType /\ \A d \in CPU : CpuTrue(d)
  BY DEF WInv
<1>2. ASSUME NEW d \in CPU PROVE CpuTrue(d)'
  <2>1. CASE d = c
    BY <2>1
  <2>2. CASE d # c
    BY <1>1, <2>2, OthersKeepCpu
  <2> QED
    BY <2>1, <2>2
<1>3. UNCHANGED <<cpu_stack, perpidstate, cur_span, valid_span, ctx_switch_ts, mwait_pending,
                  oldpid, newpid, priorPidEnd>> /\ waits' = {}
  BY DEF Hands, convvars, cpuvars, switchvars, Read
<1>4. WaitType'
  <2>1. span_start_time' \in Nat
    BY <1>1 DEF Hands, WaitType, OpenSpan, KType
  <2> QED
    BY <1>1, <1>3, <2>1 DEF WaitType
<1>5. FreshTrue'
  <2>1. \A d \in CPU : Owner(d)' = Owner(d)
    BY <1>3 DEF Owner
  <2> QED
    BY <1>3, <2>1 DEF WInv, FreshTrue
<1>6. EndsTrue'
  <2> SUFFICES ASSUME NEW p \in Proc, 0 < left'[p]
               PROVE  left'[p] <= priorPidEnd[p] \/ \E d \in CPU : Shows(d, p)
    BY <1>3 DEF EndsTrue, Shows
  <2>1. left'[p] = left[p] \/ Shows(c, p)
    BY DEF Proc
  <2> QED
    BY <2>1 DEF WInv, EndsTrue
<1> QED
  BY <1>2, <1>3, <1>4, <1>5, <1>6 DEF WInv

(* While no event is converted, the process whose span is open on a CPU    *)
(* after a switch is the one that the CPU is leaving.                      *)
LEMMA AwayLeaves ==
    ASSUME Reading, MovesTrue, NEW d \in CPU, CpuTrue(d),
           NEW p \in Proc, p # on[d], Shows(d, p)
    PROVE  /\ cur_span[d].pid = p /\ TOS(cpu_stack[d]) = Sched /\ left[p] <= ctx_switch_ts[d]
           /\ leaving[d] = p /\ (d \in switched \/ on[d] \in fresh)
           /\ \A e \in CPU : on[e] # p /\ (leaving[e] = p => e = d)
<1>1. Away(d) /\ cur_span[d].pid = p
  BY DEF Away, Shows
<1>2. AwayTrue(d)
  BY <1>1 DEF CpuTrue
<1>3. leaving[d] = p /\ p # Idle
  BY <1>1, <1>2 DEF AwayTrue, Calls, Converts, Proc
<1> QED
  BY <1>1, <1>2, <1>3 DEF AwayTrue, Calls, Converts, MovesTrue

(* The process that a CPU has left was not seen to come again, and its     *)
(* span is open nowhere else.                                              *)
LEMMA LeftIsAway ==
    ASSUME Reading, KType, MovesTrue, \A d \in CPU : CpuTrue(d), NEW c \in CPU,
           NEW p \in Proc, leaving[c] = p
    PROVE  came[p] = 0 /\ \A d \in CPU : on[d] # p /\ (Shows(d, p) => d = c)
<1>1. \A d \in CPU : on[d] # p
  BY DEF MovesTrue, Proc
<1>2. came[p] = 0
  BY <1>1 DEF MovesTrue
<1>3. ASSUME NEW d \in CPU, Shows(d, p) PROVE d = c
  BY <1>1, <1>3, AwayLeaves
<1> QED
  BY <1>1, <1>2, <1>3

(* The kernel makes a call outside of its scheduler.                       *)
LEMMA CallKeepsWaits ==
    ASSUME RInv, Orderly, SInv, WInv, NEW c \in CPU, NEW x \in Call, MayEnter(c, x),
           KType', Hands(c), CallEvent(c, event'), event'.kind = "call",
           UNCHANGED <<on, switched, left>>, heard[c] # "first",
           heard' = [heard EXCEPT ![c] = IF heard[c] = "nothing" THEN "first" ELSE "call"],
           fresh' = fresh \ {TaskOn(c)}, Outside(c),
           came' = IF TaskOn(c) \in fresh THEN [came EXCEPT ![on[c]] = now] ELSE came,
           \A t \in Task \ {TaskOn(c)} : thread'[t] = thread[t]
    PROVE  WInv'
<1>1. KType /\ OneCPU /\ Reading
  BY DEF RInv, Hands
<1>2. LeftType /\ MovesTrue /\ WaitType /\ \A d \in CPU : CpuTrue(d)
  BY DEF WInv
<1>3. TopCall(c) # Sched /\ c \notin switched
  BY <1>1, <1>2, EnterOutside DEF Orderly, MovesTrue
<1>4. on[c] \in Pid /\ (on[c] # Idle => TaskOn(c) = on[c] /\ on[c] \in Proc) /\ now \in Nat
  BY <1>1, TaskFacts DEF KType
<1>5. TaskOn(c) \in fresh => TaskOn(c) = on[c] /\ on[c] # Idle
  BY <1>1, <1>4, TaskFacts DEF KType
<1>6. on[c] \notin fresh' /\ (on[c] \in fresh => TaskOn(c) = on[c])
  BY <1>1, <1>4 DEF KType, Proc
<1>7. OnlyOn(c)
  BY <1>1, CallOnlyOn DEF KType
<1>8. \A d \in CPU : Announced(d)' <=> Announced(d)
  BY <1>1 DEF KType, Announced
<1>9. leaving' = [leaving EXCEPT ![c] = Idle]
  BY <1>3 DEF Outside
<1>10. LeftType' /\ MovesTrue'
  <2>1. came' \in [Proc -> Nat]
    BY <1>2, <1>4 DEF LeftType
  <2>2. \A d \in switched' : TopCall(d)' = TopCall(d)
    BY <1>2, <1>3, <1>7 DEF OnlyOn, TopCall, TaskOn, LeftType
  <2>3. ASSUME NEW p \in Proc, came'[p] # came[p]
        PROVE  /\ p = on[c] /\ c \notin switched' /\ Announced(c)' /\ p \notin fresh'
               /\ left[p] = 0
    <3>1. TaskOn(c) \in fresh /\ p = on[c]
      BY <2>3, <1>2 DEF LeftType
    <3> QED
      BY <3>1, <1>2, <1>3, <1>5, <1>6, <1>8 DEF MovesTrue
  <2> QED
    BY <1>1, <1>2, <1>3, <1>8, <1>9, <2>1, <2>2, <2>3, StayMoves DEF Hands
<1>11. EventFits'
  <2>1. event'.pid = on'[event'.cpu] /\ event'.cpu = c /\ 0 < now' /\ event'.arg \in Pid
    BY <1>4 DEF CallEvent, Hands, Event, Points
  <2> QED
    BY <1>6, <2>1 DEF EventFits
<1>12. CpuTrue(c)'
  <2> DEFINE K == {"call", "ret"}
  <2>1. \A d, L : ~Converts(d, L) /\ (Converts(d, L)' <=> d = c /\ "call" \in L)
    BY HandsConverts
  <2>2. UNCHANGED <<cpu_stack, cur_span, valid_span, ctx_switch_ts, oldpid, newpid, pidRunning>>
    BY DEF Hands, convvars, cpuvars, switchvars
  <2>3. \A d \in CPU, p \in Proc : Shows(d, p)' <=> Shows(d, p)
    BY <2>2 DEF Shows
  <2>4. /\ Calls(c)' /\ ~SchedReturns(c)' /\ Converts(c, {"call"})'
        /\ ~Converts(c, {"ret"})' /\ ~Converts(c, {"ctx"})'
    BY <2>1 DEF Calls, SchedReturns
  <2>5. Settling(c)' <=> Settling(c)
    BY <2>2 DEF Settling
  <2>6. CpuTrue(c)
    BY <1>2
  <2>7. on[c] \in fresh => Settling(c)
    BY <2>1, <2>6 DEF CpuTrue
  <2>8. Away(c)' => AwayTrue(c)'
    <3> SUFFICES ASSUME NEW p \in Proc, p # on[c], Shows(c, p)
                 PROVE  AwayTrue(c)'
      BY <2>3 DEF Away
    <3>1. /\ cur_span[c].pid = p /\ TOS(cpu_stack[c]) = Sched /\ left[p] <= ctx_switch_ts[c]
          /\ on[c] \in fresh
      BY <1>1, <1>2, <1>3, <2>6, AwayLeaves
    <3> QED
      BY <2>2, <2>4, <2>5, <2>7, <3>1 DEF AwayTrue
  <2>9. on'[c] # Idle /\ came'[on'[c]] # 0 => CameTrue(c)'
    <3>1. CASE on[c] \in fresh
      BY <1>2, <2>4, <2>5, <2>7, <3>1 DEF CameTrue, MovesTrue
    <3>2. CASE on[c] \notin fresh /\ on[c] # Idle /\ came[on[c]] # 0
      <4>1. Shows(c, on[c]) /\ on[c] \in pidRunning
        BY <2>1, <2>6, <3>2 DEF CpuTrue, CameTrue, SchedReturns
      <4> QED
        BY <1>4, <2>2, <2>3, <3>2, <4>1 DEF CameTrue
    <3> QED
      BY <1>5, <3>1, <3>2
  <2>10. oldpid'[c] # Idle /\ TOS(cpu_stack'[c]) = Sched => OldTrue(c)'
    <3> SUFFICES ASSUME oldpid[c] # Idle, TOS(cpu_stack[c]) = Sched PROVE OldTrue(c)'
      BY <2>2
    <3>1. oldpid[c] \in Proc
      BY <1>2 DEF WaitType, Proc
    <3>2. leaving[c] = oldpid[c]
      BY <1>3, <2>1, <2>6 DEF CpuTrue, OldTrue, Calls
    <3>3. /\ came[oldpid[c]] = 0
          /\ \A d \in CPU : on[d] # oldpid[c] /\ (Shows(d, oldpid[c]) => d = c)
      BY <1>1, <1>2, <3>1, <3>2, LeftIsAway
    <3>4. came'[oldpid[c]] = 0
      BY <1>2, <3>1, <3>3 DEF LeftType
    <3> QED
      BY <2>2, <2>3, <2>4, <3>1, <3>3, <3>4 DEF OldTrue
  <2> QED
    BY <1>3, <1>6, <1>8, <2>1, <2>2, <2>3, <2>4, <2>6, <2>8, <2>9, <2>10 DEF CpuTrue
<1>13. \A p \in Proc : p # on[c] => came'[p] = came[p]
  BY <1>2 DEF LeftType
<1>14. \A d \in CPU \ {c} : leaving'[d] = leaving[d]
  BY <1>2, <1>9 DEF LeftType
<1> QED
  BY <1>1, <1>7, <1>10, <1>11, <1>12, <1>13, <1>14, HandsKeepWaits

LEMMA EnterKeepsWaits ==
    ASSUME RInv, Orderly, SInv, WInv, NEW c \in CPU, NEW x \in Call, Enter(c, x)
    PROVE  WInv'
<1>1. KType
  BY DEF RInv
<1>2. MayEnter(c, x) /\ UNCHANGED <<on, switched, left>> /\ Outside(c)
  BY DEF Enter
<1>3. fresh' = fresh \ {TaskOn(c)} /\ \A t \in Task \ {TaskOn(c)} : thread'[t] = thread[t]
  BY <1>1 DEF Enter, KType
<1>4. came' = IF TaskOn(c) \in fresh THEN [came EXCEPT ![on[c]] = now] ELSE came
  <2>1. TaskOn(c) \in fresh => TaskOn(c) = on[c]
    BY <1>1, TaskFacts DEF KType
  <2> QED
    BY <2>1 DEF Enter
<1> QED
  BY <1>1, <1>2, <1>3, <1>4, EnterFacts, CallKeepsWaits

LEMMA WholeKeepsWaits ==
    ASSUME RInv, Orderly, SInv, WInv, NEW c \in CPU, NEW x \in Call, Whole(c, x)
    PROVE  WInv'
<1>1. KType
  BY DEF RInv
<1>2. /\ MayEnter(c, x) /\ UNCHANGED <<on, switched, left, thread>> /\ Outside(c)
      /\ fresh' = fresh \ {TaskOn(c)}
      /\ came' = IF TaskOn(c) \in fresh THEN [came EXCEPT ![on[c]] = now] ELSE came
  BY DEF Whole
<1> QED
  BY <1>1, <1>2, WholeFacts, CallKeepsWaits

(* The call on top returns; one of the scheduler makes its process one     *)
(* that was seen to come.                                                  *)
LEMMA LeaveKeepsWaits ==
    ASSUME RInv, Orderly, SInv, WInv, NEW c \in CPU, Leave(c)
    PROVE  WInv'
<1> DEFINE t == TaskOn(c)
           back == TopCall(c) = Sched
<1>1. KType /\ OneCPU /\ ThreadsTrue
  BY DEF RInv, SInv
<1>2. LeftType /\ MovesTrue /\ WaitType /\ \A d \in CPU : CpuTrue(d)
  BY DEF WInv
<1>3. /\ KType' /\ Hands(c) /\ Reading /\ CallEvent(c, event') /\ event'.kind = "ret"
      /\ UNCHANGED <<on, fresh, left>> /\ heard[c] # "first"
      /\ heard' = [heard EXCEPT ![c] = IF heard[c] = "nothing" THEN "first" ELSE "call"]
  BY <1>1, LeaveFacts DEF Leave, Hands
<1>4. /\ t \in Task /\ thread[t] # <<>> /\ on[c] \in Pid /\ now \in Nat
      /\ (on[c] # Idle => t = on[c] /\ on[c] \in Proc) /\ (t \in Proc => t = on[c])
  BY <1>1, TaskFacts DEF Leave, KType
<1>5. back <=> c \in switched
  BY <1>2 DEF Leave, Orderly, MovesTrue
<1>6. /\ switched' = IF back THEN switched \ {c} ELSE switched
      /\ came' = IF back /\ t \in Proc THEN [came EXCEPT ![t] = now'] ELSE came
  BY <1>5 DEF Leave
<1>7. c \notin switched' /\ leaving' = [leaving EXCEPT ![c] = Idle]
  BY <1>5, <1>6 DEF Leave, Outside
<1>8. on[c] \notin fresh
  BY <1>1, <1>4 DEF ThreadsTrue, KType, Proc
<1>9. event'.num = Sched <=> back
  <2>1. PICK x \in IF TopCall(c) = Resched THEN {Resched, BHhi} ELSE {TopCall(c)} :
           \E q \in Results(x) : Entry(c, "ret", x, q, on[c], 0)
    BY DEF Leave
  <2>2. PICK q : Emit(c, "ret", x, q, on[c], 0)
    BY <2>1 DEF Entry
  <2>3. event'.num = x
    BY <2>2, EmitFacts
  <2> QED
    BY <2>1, <2>3, LevelFacts
<1>10. \A u \in Task \ {t} : thread'[u] = thread[u]
  BY <1>1, <1>4 DEF Leave, KType
<1>11. OnlyOn(c)
  BY <1>1, <1>3, <1>10, CallOnlyOn DEF KType
<1>12. \A d \in CPU : Announced(d)' <=> Announced(d)
  BY <1>1, <1>3 DEF KType, Announced
<1>13. \A p \in Proc : came'[p] = IF back /\ p = on[c] THEN now' ELSE came[p]
  BY <1>2, <1>4, <1>6 DEF LeftType, Proc
<1>14. LeftType' /\ MovesTrue'
  <2>1. came' \in [Proc -> Nat] /\ now' # 0
    BY <1>2, <1>3, <1>4, <1>6 DEF LeftType, Hands
  <2>2. \A d \in switched' : TopCall(d)' = TopCall(d)
    BY <1>2, <1>6, <1>7, <1>11 DEF OnlyOn, TopCall, TaskOn, LeftType
  <2>3. \A p \in Proc : came'[p] # came[p] =>
           /\ p = on[c] /\ c \notin switched' /\ Announced(c)' /\ p \notin fresh'
           /\ came'[p] = 0 => left[p] = 0
    BY <1>2, <1>3, <1>5, <1>7, <1>8, <1>12, <1>13, <2>1 DEF MovesTrue
  <2>4. c \in switched /\ on[c] # Idle => came'[on[c]] # 0
    BY <1>4, <1>5, <1>13, <2>1
  <2> QED
    BY <1>1, <1>2, <1>3, <1>6, <1>7, <1>12, <2>1, <2>2, <2>3, <2>4, StayMoves DEF Hands
<1>15. EventFits'
  <2>1. event'.pid = on'[event'.cpu] /\ event'.cpu = c /\ 0 < now' /\ event'.arg \in Pid
    BY <1>3, <1>4 DEF CallEvent, Hands, Event, Points
  <2>2. event'.num = Sched => TOS(cpu_stack'[c]) = Sched
    BY <1>2, <1>3, <1>5, <1>9 DEF CpuTrue, Hands, convvars, cpuvars
  <2> QED
    BY <1>3, <1>8, <2>1, <2>2 DEF EventFits
<1>16. CpuTrue(c)'
  <2>1. \A d, L : ~Converts(d, L) /\ (Converts(d, L)' <=> d = c /\ "ret" \in L)
    BY <1>3, HandsConverts
  <2>2. UNCHANGED <<cpu_stack, cur_span, valid_span, ctx_switch_ts, oldpid, newpid, pidRunning>>
    BY <1>3 DEF Hands, convvars, cpuvars, switchvars
  <2>3. \A d \in CPU, p \in Proc : Shows(d, p)' <=> Shows(d, p)
    BY <2>2 DEF Shows
  <2>4. Calls(c)' /\ ~Converts(c, {"call"})' /\ ~Converts(c, {"ctx"})'
    BY <2>1 DEF Calls
  <2>5. CpuTrue(c)
    BY <1>2
  <2>6. back => TOS(cpu_stack[c]) = Sched /\ SchedReturns(c)'
    BY <1>5, <1>9, <2>1, <2>2, <2>5 DEF CpuTrue, SchedReturns
  <2>7. Away(c)' => AwayTrue(c)'
    <3> SUFFICES ASSUME NEW p \in Proc, p # on[c], Shows(c, p)
                 PROVE  AwayTrue(c)'
      BY <1>3, <2>3 DEF Away
    <3>1. /\ cur_span[c].pid = p /\ TOS(cpu_stack[c]) = Sched /\ left[p] <= ctx_switch_ts[c]
          /\ c \in switched
      BY <1>2, <1>3, <1>8, <2>5, AwayLeaves
    <3> QED
      BY <1>3, <1>5, <2>2, <2>4, <2>6, <3>1 DEF AwayTrue
  <2>8. on'[c] # Idle /\ came'[on'[c]] # 0 => CameTrue(c)'
    <3> SUFFICES ASSUME on[c] # Idle, came'[on[c]] # 0 PROVE CameTrue(c)'
      BY <1>3
    <3>1. CASE back
      BY <1>3, <1>4, <1>13, <2>6, <3>1 DEF CameTrue
    <3>2. CASE ~back
      <4>1. came[on[c]] # 0
        BY <1>4, <1>13, <3>2
      <4>2. Shows(c, on[c]) /\ on[c] \in pidRunning
        BY <2>1, <2>5, <4>1 DEF CpuTrue, CameTrue, SchedReturns
      <4> QED
        BY <1>3, <1>4, <2>2, <2>3, <4>2 DEF CameTrue
    <3> QED
      BY <3>1, <3>2
  <2>9. oldpid'[c] # Idle /\ TOS(cpu_stack'[c]) = Sched => OldTrue(c)'
    <3> SUFFICES ASSUME oldpid[c] # Idle, TOS(cpu_stack[c]) = Sched PROVE OldTrue(c)'
      BY <2>2
    <3>1. oldpid[c] \in Proc
      BY <1>2 DEF WaitType, Proc
    <3>2. leaving[c] = oldpid[c]
      BY <1>5, <2>1, <2>5 DEF CpuTrue, OldTrue, Calls
    <3>3. /\ came[oldpid[c]] = 0
          /\ \A d \in CPU : on[d] # oldpid[c] /\ (Shows(d, oldpid[c]) => d = c)
      BY <1>2, <1>3, <1>1, <3>1, <3>2, LeftIsAway
    <3>4. came'[oldpid[c]] = 0
      BY <1>13, <3>1, <3>3
    <3> QED
      BY <2>2, <2>3, <2>4, <3>1, <3>3, <3>4 DEF OldTrue
  <2> QED
    BY <1>3, <1>7, <1>8, <1>12, <2>1, <2>2, <2>3, <2>4, <2>5, <2>7, <2>8, <2>9 DEF CpuTrue
<1>17. \A d \in CPU \ {c} : leaving'[d] = leaving[d] /\ (d \in switched' <=> d \in switched)
  BY <1>2, <1>6, <1>7 DEF LeftType
<1> QED
  BY <1>1, <1>3, <1>11, <1>13, <1>14, <1>15, <1>16, <1>17, HandsKeepWaits

(* The block header comes before anything that was seen to happen there.   *)
LEMMA AnnounceKeepsWaits ==
    ASSUME RInv, WInv, NEW c \in CPU, Announce(c)
    PROVE  WInv'
<1>1. KType /\ OneCPU /\ OwnersTrue
  BY DEF RInv
<1>2. LeftType /\ MovesTrue /\ WaitType /\ \A d \in CPU : CpuTrue(d)
  BY DEF WInv
<1>3. /\ KType' /\ Hands(c) /\ Reading /\ event'.kind = "ctx" /\ event'.pid = on[c]
      /\ UNCHANGED <<on, thread, fresh, switched, leaving, left, came>> /\ heard[c] = "first"
      /\ heard' = [heard EXCEPT ![c] = "header"]
  BY <1>1, AnnounceFacts DEF Announce, Hands
<1>4. ~Announced(c) /\ \A d \in CPU : Announced(d) => Announced(d)'
  BY <1>1, <1>3 DEF KType, Announced
<1>5. c \notin switched /\ on[c] \notin fresh /\ on[c] \in Pid
  BY <1>1, <1>2, <1>4 DEF MovesTrue, KType
<1>6. OnlyOn(c)
  BY <1>1, <1>3, CallOnlyOn DEF KType
<1>7. LeftType' /\ MovesTrue'
  <2>1. \A d \in switched' : TopCall(d)' = TopCall(d)
    BY <1>3 DEF TopCall, TaskOn
  <2>2. came' \in [Proc -> Nat]
    BY <1>2, <1>3 DEF LeftType
  <2> QED
    BY <1>1, <1>2, <1>3, <1>4, <1>5, <2>1, <2>2, StayMoves DEF Hands
<1>8. EventFits'
  BY <1>1, <1>3 DEF EventFits, Hands, KType
<1>9. CpuTrue(c)'
  <2>1. \A d, L : ~Converts(d, L) /\ (Converts(d, L)' <=> d = c /\ "ctx" \in L)
    BY <1>3, HandsConverts
  <2>2. /\ UNCHANGED <<cpu_stack, cur_span, valid_span, ctx_switch_ts, oldpid, newpid, pidRunning>>
        /\ Owner(c)' = Owner(c)
    BY <1>3, HandsConverts DEF Hands, convvars, cpuvars, switchvars
  <2>3. \A p \in Proc : Shows(c, p)' <=> Shows(c, p)
    BY <2>2 DEF Shows
  <2>4. Converts(c, {"ctx"})' /\ ~Calls(c)'
    BY <2>1 DEF Calls
  <2>5. CpuTrue(c)
    BY <1>2
  <2>6. Owner(c) = Idle
    BY <1>1, <1>4 DEF OwnersTrue
  <2>7. \A p \in Proc : Shows(c, p) => p = on[c]
    BY <1>2, <1>3, <1>5, <2>5, AwayLeaves
  <2>8. ~Away(c)'
    BY <1>3, <2>3, <2>7 DEF Away
  <2>9. on[c] # Idle => came[on[c]] = 0
    BY <1>1, <1>2, <1>4, <1>5 DEF MovesTrue, OneCPU, Proc
  <2>10. OldTrue(c)'
    BY <2>4 DEF OldTrue
  <2> QED
    BY <1>3, <1>5, <2>2, <2>3, <2>4, <2>5, <2>6, <2>8, <2>9, <2>10 DEF CpuTrue
<1> QED
  BY <1>1, <1>3, <1>6, <1>7, <1>8, <1>9, HandsKeepWaits

(* An entry of one point in time changes nothing of this.                  *)
LEMMA PointKeepsWaits ==
    ASSUME RInv, WInv, NEW c \in CPU, NEW kind \in Points,
           NEW arg \in Pid \cup CPU \cup Rpcs \cup {1, 4}, Point(c, kind, arg)
    PROVE  WInv'
<1>1. KType /\ OneCPU
  BY DEF RInv
<1>2. LeftType /\ MovesTrue /\ WaitType /\ \A d \in CPU : CpuTrue(d)
  BY DEF WInv
<1>3. /\ KType' /\ Hands(c) /\ PointEvent(c, event') /\ event'.kind = kind /\ event'.arg = arg
      /\ UNCHANGED <<on, thread, fresh, switched, leaving, left, came>> /\ heard[c] # "first"
      /\ heard' = [heard EXCEPT ![c] = IF heard[c] = "nothing" THEN "first" ELSE heard[c]]
  BY <1>1, PointFacts DEF Point
<1>4. \A d \in CPU : Announced(d)' <=> Announced(d)
  BY <1>1, <1>3 DEF KType, Announced
<1>5. OnlyOn(c)
  BY <1>1, <1>3, CallOnlyOn DEF KType
<1>6. \A d \in CPU : TopCall(d)' = TopCall(d)
  BY <1>3 DEF TopCall, TaskOn
<1>7. LeftType' /\ MovesTrue'
  <2>1. came' \in [Proc -> Nat]
    BY <1>2, <1>3 DEF LeftType
  <2>2. /\ fresh' \subseteq fresh /\ switched' \subseteq switched
        /\ switched \ {c} \subseteq switched' /\ switched \ switched' = {}
        /\ came' = came /\ leaving' = leaving /\ UNCHANGED <<on, left>>
    BY <1>3
  <2>3. \A d \in switched' : TopCall(d)' = TopCall(d)
    BY <1>2, <1>3, <1>6 DEF LeftType
  <2>4. now' = now + 2
    BY <1>3 DEF Hands
  <2> QED
    BY <1>1, <1>2, <1>4, <2>1, <2>2, <2>3, <2>4, StayMoves
<1>8. EventFits'
  <2>1. kind = "wakeup" => arg \in Proc
    BY <1>1, MixFacts DEF Point, MayPoint
  <2> QED
    BY <1>1, <1>3, <2>1 DEF EventFits, Hands, KType, PointEvent, Points
<1>9. CpuTrue(c)'
  <2>1. \A L : ~Converts(c, L) /\ (Converts(c, L)' <=> kind \in L)
    BY <1>3, HandsConverts
  <2>2. /\ UNCHANGED <<cpu_stack, cur_span, valid_span, ctx_switch_ts, oldpid, newpid, pidRunning>>
        /\ Owner(c)' = Owner(c)
    BY <1>3, HandsConverts DEF Hands, convvars, cpuvars, switchvars
  <2>3. \A p : Shows(c, p)' <=> Shows(c, p)
    BY <2>2 DEF Shows
  <2>4. /\ ~Converts(c, {"ctx"})' /\ ~Calls(c)' /\ ~Converts(c, {"call"})'
        /\ ~Converts(c, {"ret"})' /\ ~SchedReturns(c)'
    BY <2>1 DEF Calls, Points, SchedReturns
  <2>5. /\ ~Converts(c, {"ctx"}) /\ ~Calls(c) /\ ~Converts(c, {"call"})
        /\ ~Converts(c, {"ret"}) /\ ~SchedReturns(c)
    BY <2>1 DEF Calls, SchedReturns
  <2>6. CpuTrue(c) /\ (Settling(c)' <=> Settling(c))
    BY <1>2, <2>2 DEF Settling
  <2>7. Away(c)' => AwayTrue(c)'
    BY <1>3, <2>2, <2>3, <2>4, <2>5, <2>6 DEF CpuTrue, Away, AwayTrue
  <2>8. on'[c] # Idle /\ came'[on'[c]] # 0 => CameTrue(c)'
    BY <1>3, <2>2, <2>3, <2>5, <2>6 DEF CpuTrue, CameTrue
  <2>9. oldpid'[c] # Idle /\ TOS(cpu_stack'[c]) = Sched => OldTrue(c)'
    BY <1>3, <1>6, <2>2, <2>4, <2>5, <2>6 DEF CpuTrue, OldTrue
  <2> QED
    BY <1>3, <1>4, <2>2, <2>3, <2>4, <2>5, <2>6, <2>7, <2>8, <2>9 DEF CpuTrue
<1> QED
  BY <1>1, <1>3, <1>5, <1>7, <1>8, <1>9, HandsKeepWaits

(* The scheduler switches: the process that runs is left, and may be       *)
(* switched to again only after the CPU is done with it.                   *)
LEMMA SwitchMoves ==
    ASSUME RInv, Orderly, SInv, WInv, NEW c \in CPU, NEW q \in Pid, Switch(c, q)
    PROVE  LeftType' /\ MovesTrue'
<1> DEFINE t == IF q = Idle THEN c ELSE q
<1>1. KType /\ OneCPU /\ ThreadsTrue /\ LeftType /\ MovesTrue
  BY DEF RInv, SInv, WInv
<1>2. /\ KType' /\ Hands(c) /\ UNCHANGED <<thread, fresh, heard>> /\ Announced(c)
      /\ on' = [on EXCEPT ![c] = q] /\ q # on[c]
      /\ \A d \in CPU : q # Idle => on[d] # q
  BY <1>1, SwitchFacts
<1>3. on'[c] = q /\ \A d \in CPU \ {c} : on'[d] = on[d]
  BY <1>1, <1>2 DEF KType
<1>4. /\ c \notin switched /\ now \in Nat /\ now' = now + 2 /\ on[c] \in Pid
      /\ \A d \in CPU : q # Idle => leaving[d] # q
  BY <1>1, <1>2 DEF Switch, Orderly, Hands, KType
<1>5. switched' = IF thread[t] = <<>> THEN switched ELSE switched \cup {c}
  BY DEF Switch
<1>6. leaving'[c] = on[c] /\ \A d \in CPU \ {c} : leaving'[d] = leaving[d]
  BY <1>1 DEF Switch, LeftType
<1>7. \A p \in Proc : left'[p] = IF p = on[c] /\ came[p] # 0 THEN now' ELSE left[p]
  BY <1>1, <1>4 DEF Switch, LeftType, Proc
<1>8. \A p \in Proc : came'[p] = IF p \in {on[c], q} THEN 0 ELSE came[p]
  BY DEF Switch
<1>9. LeftType'
  <2>1. switched' \subseteq CPU
    BY <1>1, <1>5 DEF LeftType
  <2>2. leaving' \in [CPU -> Pid]
    BY <1>1, <1>4 DEF Switch, LeftType
  <2>3. left' \in [Proc -> Nat]
    <3>1. left' = left \/ left' = [left EXCEPT ![on[c]] = now']
      BY DEF Switch
    <3> QED
      BY <1>1, <1>4, <3>1 DEF LeftType
  <2>4. came' \in [Proc -> Nat]
    BY <1>1 DEF Switch, LeftType
  <2> QED
    BY <2>1, <2>2, <2>3, <2>4 DEF LeftType
<1>10. thread[t] # <<>> => Asleep(thread[t])
  BY <1>1, <1>2 DEF ThreadsTrue, Proc
<1>11. thread[t] = <<>> => q \in fresh
  <2>1. CASE q = Idle
    BY <1>1, <1>2, <2>1 DEF ThreadsTrue, Asleep
  <2>2. CASE q # Idle
    BY <1>1, <1>2, <2>2 DEF ThreadsTrue, Asleep, Proc
  <2> QED
    BY <2>1, <2>2
<1>12. \A d \in switched' : TopCall(d)' = Sched /\ Announced(d)'
  <2> SUFFICES ASSUME NEW d \in switched' PROVE TopCall(d)' = Sched /\ Announced(d)'
    OBVIOUS
  <2>1. CASE d = c
    <3>1. TaskOn(c)' = t /\ Asleep(thread[t])
      BY <1>3, <1>4, <1>5, <1>10, <2>1 DEF TaskOn
    <3> QED
      BY <1>2, <2>1, <3>1 DEF TopCall, Asleep, Announced
  <2>2. CASE d # c
    <3>1. d \in switched /\ d \in CPU
      BY <1>1, <1>5, <2>2 DEF LeftType
    <3>2. TopCall(d)' = TopCall(d)
      BY <1>2, <1>3, <2>2, <3>1 DEF TopCall, TaskOn
    <3> QED
      BY <1>1, <1>2, <3>1, <3>2 DEF MovesTrue, Announced
  <2> QED
    BY <2>1, <2>2
<1>13. \A p \in fresh' : left'[p] = 0 /\ came'[p] = 0
  BY <1>1, <1>2, <1>7, <1>8 DEF MovesTrue, KType
<1>14. \A d \in CPU : on'[d] \in fresh' => Announced(d)'
  BY <1>1, <1>2, <1>3 DEF MovesTrue, Announced
<1>15. \A p \in Proc : left'[p] <= now'
  <2> SUFFICES ASSUME NEW p \in Proc PROVE left'[p] <= now'
    OBVIOUS
  <2>1. left[p] \in Nat /\ left[p] <= now
    BY <1>1 DEF MovesTrue, LeftType
  <2> QED
    BY <1>4, <1>7, <2>1
<1>16. ASSUME NEW p \in Proc, came'[p] # 0
       PROVE  \E d \in CPU \ switched' : on'[d] = p /\ Announced(d)'
  <2>1. p # on[c] /\ p # q /\ came[p] # 0
    BY <1>8, <1>16
  <2>2. PICK d \in CPU \ switched : on[d] = p /\ Announced(d)
    BY <1>1, <2>1 DEF MovesTrue
  <2>3. d # c
    BY <2>1, <2>2
  <2> QED
    BY <1>2, <1>3, <1>5, <2>2, <2>3 DEF Announced
<1>17. ASSUME NEW d \in CPU \ switched', on'[d] # Idle, came'[on'[d]] = 0
       PROVE  left'[on'[d]] = 0
  <2>1. on'[d] \in Proc
    BY <1>2, <1>17 DEF KType, Proc
  <2>2. CASE d = c
    <3>1. q \in fresh
      BY <1>5, <1>11, <1>17, <2>2
    <3> QED
      BY <1>3, <1>13, <1>2, <2>2, <3>1
  <2>3. CASE d # c
    <3>1. on'[d] = on[d] /\ on[d] # on[c] /\ on[d] # q /\ d \notin switched
      BY <1>1, <1>2, <1>3, <1>5, <1>17, <2>3 DEF OneCPU
    <3> QED
      BY <1>1, <1>7, <1>8, <1>17, <2>1, <3>1 DEF MovesTrue
  <2> QED
    BY <2>2, <2>3
<1>18. ASSUME NEW d \in CPU, leaving'[d] # Idle, NEW e \in CPU
       PROVE  on'[e] # leaving'[d] /\ (leaving'[e] = leaving'[d] => e = d)
  <2>1. CASE d = c
    <3>1. leaving'[d] = on[c] /\ on[c] # Idle
      BY <1>6, <1>18, <2>1
    <3>2. on'[e] # on[c]
      BY <1>1, <1>2, <1>3, <3>1 DEF OneCPU
    <3>3. e # c => leaving'[e] # on[c]
      BY <1>1, <1>6, <3>1 DEF MovesTrue
    <3> QED
      BY <2>1, <3>1, <3>2, <3>3
  <2>2. CASE d # c
    <3>1. leaving'[d] = leaving[d] /\ leaving[d] # Idle
      BY <1>6, <1>18, <2>2
    <3>2. on[e] # leaving[d] /\ on[c] # leaving[d] /\ (leaving[e] = leaving[d] => e = d)
      BY <1>1, <3>1 DEF MovesTrue
    <3>3. q # leaving[d]
      BY <1>4, <3>1
    <3> QED
      BY <1>3, <1>6, <3>1, <3>2, <3>3
  <2> QED
    BY <2>1, <2>2
<1> QED
  BY <1>9, <1>12, <1>13, <1>14, <1>15, <1>16, <1>17, <1>18 DEF MovesTrue

LEMMA SwitchKeepsWaits ==
    ASSUME RInv, Orderly, SInv, WInv, NEW c \in CPU, NEW q \in Pid, Switch(c, q)
    PROVE  WInv'
<1> DEFINE t == IF q = Idle THEN c ELSE q
           p == on[c]
<1>1. KType /\ OneCPU /\ ThreadsTrue /\ SchedTrue /\ OwnersTrue
  BY DEF RInv, SInv
<1>2. LeftType /\ MovesTrue /\ WaitType /\ \A d \in CPU : CpuTrue(d)
  BY DEF WInv
<1>3. /\ KType' /\ Hands(c) /\ Reading /\ event'.kind = "ctx" /\ event'.pid = q
      /\ UNCHANGED <<thread, fresh, heard>> /\ Announced(c)
      /\ on' = [on EXCEPT ![c] = q] /\ q # on[c]
      /\ \A d \in CPU : q # Idle => on[d] # q
      /\ TopCall(c) = Sched
  BY <1>1, SwitchFacts DEF Hands
<1>4. on'[c] = q /\ p \in Pid /\ \A d \in CPU \ {c} : on'[d] = on[d]
  BY <1>1, <1>3 DEF KType
<1>5. c \notin switched /\ switched' = IF thread[t] = <<>> THEN switched ELSE switched \cup {c}
  BY DEF Switch
<1>6. leaving'[c] = p /\ \A d \in CPU \ {c} : leaving'[d] = leaving[d]
  BY <1>2 DEF Switch, LeftType
<1>7. \A r \in Proc : left'[r] = left[r] \/ (r = p /\ came[r] # 0)
  BY <1>2, <1>4 DEF Switch, LeftType, Proc
<1>8. \A r \in Proc : came'[r] = IF r \in {p, q} THEN 0 ELSE came[r]
  BY DEF Switch
<1>9. LeftType' /\ MovesTrue'
  BY SwitchMoves
<1>10. OnlyOn(c)
  BY <1>3, <1>4 DEF OnlyOn
<1>11. p \notin fresh
  <2>1. thread[TaskOn(c)] # <<>>
    BY <1>1, <1>3, AtTop DEF Asleep
  <2> QED
    BY <1>1, <2>1 DEF TaskOn, ThreadsTrue, KType, Proc
<1>12. thread[t] = <<>> => q \in fresh
  <2>1. CASE q = Idle
    BY <1>1, <1>3, <2>1 DEF ThreadsTrue, Asleep
  <2>2. CASE q # Idle
    BY <1>1, <1>3, <2>2 DEF ThreadsTrue, Asleep, Proc
  <2> QED
    BY <2>1, <2>2
<1>13. EventFits'
  BY <1>1, <1>3, <1>4 DEF EventFits, Hands, KType
<1>14. \A d, L : ~Converts(d, L) /\ (Converts(d, L)' <=> d = c /\ "ctx" \in L)
  BY <1>3, HandsConverts
<1>15. CpuTrue(c) /\ \A r \in Proc : Shows(c, r) => r = p
  BY <1>2, <1>3, <1>5, <1>11, AwayLeaves
<1>16. p # Idle /\ came[p] # 0 => Shows(c, p) /\ p \in pidRunning
  BY <1>14, <1>15 DEF CpuTrue, CameTrue, SchedReturns
<1>17. CpuTrue(c)'
  <2>2. /\ UNCHANGED <<cpu_stack, cur_span, valid_span, ctx_switch_ts, oldpid, newpid, pidRunning>>
        /\ Owner(c)' = Owner(c)
    BY <1>3, HandsConverts DEF Hands, convvars, cpuvars, switchvars
  <2>3. \A r \in Proc : Shows(c, r)' <=> Shows(c, r)
    BY <2>2 DEF Shows
  <2>4. /\ Converts(c, {"ctx"})' /\ ~Calls(c)'
        /\ ~Converts(c, {"call"})' /\ ~Converts(c, {"ret"})'
    BY <1>14 DEF Calls
  <2>5. Owner(c) = p
    BY <1>1, <1>3, <1>14 DEF OwnersTrue
  <2>6. TOS(cpu_stack[c]) = Sched
    BY <1>1, <1>3, <1>14 DEF SchedTrue, SchedAt, Orderly
  <2>7. Away(c)' => AwayTrue(c)'
    <3> SUFFICES ASSUME NEW r \in Proc, r # q, Shows(c, r)
                 PROVE  AwayTrue(c)'
      BY <1>4, <2>3 DEF Away
    <3>1. r = p /\ cur_span[c].pid = p
      BY <1>15 DEF Shows
    <3>2. c \in switched' \/ on'[c] \in fresh'
      BY <1>3, <1>4, <1>5, <1>12
    <3> QED
      BY <1>6, <2>2, <2>4, <2>5, <2>6, <3>1, <3>2 DEF AwayTrue
  <2>8. q # Idle => came'[q] = 0
    BY <1>8 DEF Proc
  <2>9. OldTrue(c)'
    BY <2>4 DEF OldTrue
  <2>10. \A r \in Proc : Shows(c, r) /\ 0 < left'[r] => r \in pidRunning
    BY <1>7, <1>15, <1>16 DEF CpuTrue, Proc
  <2>11. ~valid_span[c] => cur_span[c].pid = Idle
    BY <1>15 DEF CpuTrue
  <2> QED
    BY <1>3, <1>4, <1>6, <1>11, <2>2, <2>3, <2>4, <2>5, <2>6, <2>7, <2>8, <2>9, <2>10, <2>11
       DEF CpuTrue
<1>18. \A d \in CPU \ {c} : leaving'[d] = leaving[d] /\ (d \in switched' <=> d \in switched)
  BY <1>5, <1>6
<1>19. p # Idle => left'[p] = left[p] \/ Shows(c, p)
  BY <1>4, <1>7, <1>16 DEF Proc
<1>20. \A r \in Proc : r # p => left'[r] = left[r] /\ (came'[r] # 0 => came'[r] = came[r])
  BY <1>7, <1>8
<1> QED
  BY <1>1, <1>3, <1>9, <1>10, <1>13, <1>17, <1>18, <1>19, <1>20, HandsKeepWaits

LEMMA KernelKeepsWaits ==
    ASSUME RInv, Orderly, SInv, WInv, NEW c \in CPU, KernelStep(c)
    PROVE  WInv'
<1>1. CASE Announce(c)
  BY <1>1, AnnounceKeepsWaits
<1>2. CASE \E x \in Call : Enter(c, x) \/ Whole(c, x)
  BY <1>2, EnterKeepsWaits, WholeKeepsWaits
<1>3. CASE Leave(c)
  BY <1>3, LeaveKeepsWaits
<1>4. CASE \E q \in Pid : Switch(c, q)
  BY <1>4, SwitchKeepsWaits
<1>5. CASE \E kind \in Points : \E arg \in Pid \cup CPU \cup Rpcs \cup {1, 4} : Point(c, kind, arg)
  BY <1>5, PointKeepsWaits
<1> QED
  BY <1>1, <1>2, <1>3, <1>4, <1>5 DEF KernelStep

(***************************************************************************)
(* Waits: what a step of the converter draws                               *)
(***************************************************************************)

LEMMA LabelledPid ==
    ASSUME WaitType, NEW c \in CPU, NEW e
    PROVE  Labelled(c, e).pid = cur_span[c].pid /\ Labelled(c, e).start \in Nat
                                                /\ cur_span[c].pid \in Pid
<1>1. cur_span[c] \in OpenSpan
  BY DEF WaitType
<1> QED
  BY <1>1 DEF OpenSpan, Labelled

(* FinishSpan moves the end of the process whose span it closes.           *)
LEMMA FinishEnds ==
    ASSUME WaitType, NEW c \in CPU, NEW e, e.ts \in Int,
           NEW end, end = FinishSpan(c, Labelled(c, e), e.ts).end
    PROVE  /\ end \in [Pid -> Nat] /\ end[Idle] = 0
           /\ \A p \in Proc : IF Shows(c, p) THEN e.ts <= end[p] ELSE end[p] = priorPidEnd[p]
<1> DEFINE span == Labelled(c, e)
<1>1. span.pid = cur_span[c].pid /\ span.start \in Nat /\ span.pid \in Pid
  BY LabelledPid
<1>2. StopOf(span, e.ts) \in Nat /\ e.ts <= StopOf(span, e.ts)
  BY <1>1 DEF StopOf
<1> HIDE DEF span
<1>3. end = IF valid_span[c] /\ span.pid # Idle
            THEN [priorPidEnd EXCEPT ![span.pid] = StopOf(span, e.ts)] ELSE priorPidEnd
  BY DEF FinishSpan, span
<1> QED
  BY <1>1, <1>2, <1>3, CallAssumption DEF WaitType, Shows, Proc

(* An event that ends a span gives its process an end, and a wait unless   *)
(* the span was that of the process itself.                                *)
LEMMA EndSpanFacts ==
    ASSUME WaitType, NEW e, NEW c \in CPU, e.cpu = c, e.ts \in Int, e.ts + e.dur \in Nat,
           e.pid \in Pid, NEW more, EndSpan(e, more)
    PROVE  /\ priorPidEnd' \in [Pid -> Nat] /\ priorPidEnd'[Idle] = 0
           /\ valid_span' = [valid_span EXCEPT ![c] = TRUE]
           /\ \A p \in Proc : p # e.pid =>
                 IF Shows(c, p) THEN e.ts <= priorPidEnd'[p] ELSE priorPidEnd'[p] = priorPidEnd[p]
           /\ \A w \in waits' :
                 \/ w \in waits
                 \/ /\ w.pid = e.pid /\ e.pid \in Proc /\ ~Shows(c, e.pid)
                    /\ w.start = priorPidEnd[e.pid] + 1 /\ w.stop = e.ts
<1> DEFINE end == FinishSpan(c, Labelled(c, e), e.ts).end
<1>1. /\ end \in [Pid -> Nat] /\ end[Idle] = 0
      /\ \A p \in Proc : IF Shows(c, p) THEN e.ts <= end[p] ELSE end[p] = priorPidEnd[p]
  BY FinishEnds
<1>2. /\ IF end[e.pid] = 0
         THEN UNCHANGED waits /\ priorPidEnd' = end
         ELSE /\ waits' = waits \cup WaitSpan(e.pid, end[e.pid], e.ts, "cpu")
              /\ priorPidEnd' = [end EXCEPT ![e.pid] = e.ts + e.dur]
      /\ valid_span' = [valid_span EXCEPT ![c] = TRUE]
  BY DEF EndSpan
<1> HIDE DEF end
<1>3. priorPidEnd' \in [Pid -> Nat] /\ priorPidEnd'[Idle] = 0
  BY <1>1, <1>2, CallAssumption
<1>4. \A p \in Proc : p # e.pid =>
         IF Shows(c, p) THEN e.ts <= priorPidEnd'[p] ELSE priorPidEnd'[p] = priorPidEnd[p]
  BY <1>1, <1>2 DEF Proc
<1>5. ASSUME NEW w \in waits', w \notin waits
      PROVE  /\ w.pid = e.pid /\ e.pid \in Proc /\ ~Shows(c, e.pid)
             /\ w.start = priorPidEnd[e.pid] + 1 /\ w.stop = e.ts
  <2>1. end[e.pid] # 0 /\ w \in WaitSpan(e.pid, end[e.pid], e.ts, "cpu")
    BY <1>2, <1>5
  <2>2. /\ w.pid = e.pid /\ w.start = end[e.pid] + 1 /\ w.stop = e.ts
        /\ MinWait <= e.ts - end[e.pid] - 1
    BY <2>1 DEF WaitSpan
  <2>3. e.pid \in Proc
    BY <1>1, <2>1 DEF Proc
  <2>4. ~Shows(c, e.pid)
    BY <1>1, <2>2, <2>3, LengthAssumption
  <2> QED
    BY <1>1, <2>2, <2>3, <2>4
<1> QED
  BY <1>2, <1>3, <1>4, <1>5

(* The span of a process that was switched out once and runs outside of    *)
(* the scheduler is open on its CPU, unless it just comes from there.      *)
LEMMA HomeFact ==
    ASSUME MovesTrue, NEW c \in CPU, CpuTrue(c), c \notin switched, on[c] \in Proc,
           left[on[c]] # 0
    PROVE  /\ came[on[c]] # 0
           /\ (Shows(c, on[c]) /\ on[c] \in pidRunning) \/ (SchedReturns(c) /\ came[on[c]] = now)
<1>1. came[on[c]] # 0
  BY DEF MovesTrue, Proc
<1> QED
  BY <1>1 DEF CpuTrue, CameTrue, Proc

(* What an event that ends a span of CPU c leaves of every process.        *)
LEMMA EndsAfter ==
    ASSUME KType, OneCPU, WInv, UNCHANGED kvars, ~Reading, NEW c \in CPU, c = event.cpu,
           NEW e, e.cpu = c, e.ts \in Int, e.ts + e.dur \in Nat, e.pid = on[c], NEW more,
           EndSpan(e, more), c \notin switched, SchedReturns(c) => e.ts = now,
           \A d \in CPU \ {c} : cur_span'[d] = cur_span[d],
           \A p \in Proc : Shows(c, p) /\ p # on[c] => left[p] <= e.ts,
           \/ cur_span'[c].pid = on[c]
           \/ cur_span'[c].pid = cur_span[c].pid /\ ~SchedReturns(c)
    PROVE  EndsTrue' /\ \A w \in waits' : WaitTrue(w)'
<1>1. /\ LeftType /\ MovesTrue /\ WaitType /\ EndsTrue /\ \A d \in CPU : CpuTrue(d)
      /\ \A w \in waits : WaitTrue(w)
  BY DEF WInv
<1>2. UNCHANGED <<left, came, now>> /\ on[c] \in Pid
  BY DEF kvars, KType
<1>3. /\ valid_span' = [valid_span EXCEPT ![c] = TRUE]
      /\ \A p \in Proc : p # on[c] =>
            IF Shows(c, p) THEN e.ts <= priorPidEnd'[p] ELSE priorPidEnd'[p] = priorPidEnd[p]
      /\ \A w \in waits' :
            \/ w \in waits
            \/ /\ w.pid = on[c] /\ on[c] \in Proc /\ ~Shows(c, on[c])
               /\ w.start = priorPidEnd[on[c]] + 1 /\ w.stop = e.ts
  BY <1>1, <1>2, EndSpanFacts
<1>4. \A d \in CPU \ {c}, p \in Proc : Shows(d, p)' <=> Shows(d, p)
  BY <1>1, <1>3 DEF Shows, WaitType
<1>5. ASSUME NEW p \in Proc, 0 < left[p]
      PROVE  left[p] <= priorPidEnd'[p] \/ \E d \in CPU : Shows(d, p)'
  <2>1. CASE p = on[c]
    <3>1. cur_span'[c].pid = p
      <4>1. CASE cur_span'[c].pid = on[c]
        BY <2>1, <4>1
      <4>2. CASE cur_span'[c].pid = cur_span[c].pid /\ ~SchedReturns(c)
        BY <1>1, <1>5, <2>1, <4>2, HomeFact DEF Shows
      <4> QED
        BY <4>1, <4>2
    <3> QED
      BY <1>1, <1>3, <3>1 DEF Shows, WaitType
  <2>2. CASE p # on[c] /\ Shows(c, p)
    <3>1. left[p] <= e.ts /\ e.ts <= priorPidEnd'[p]
      BY <1>3, <2>2
    <3>2. left[p] \in Nat /\ priorPidEnd'[p] \in Nat
      BY <1>1, <1>2, EndSpanFacts DEF LeftType, Proc
    <3> QED
      BY <3>1, <3>2
  <2>3. CASE p # on[c] /\ ~Shows(c, p)
    <3>1. left[p] <= priorPidEnd[p] \/ \E d \in CPU \ {c} : Shows(d, p)
      BY <1>1, <1>5, <2>3 DEF EndsTrue
    <3> QED
      BY <1>3, <1>4, <2>3, <3>1
  <2> QED
    BY <2>1, <2>2, <2>3
<1>6. EndsTrue'
  BY <1>2, <1>5 DEF EndsTrue
<1>7. ASSUME NEW w \in waits' PROVE WaitTrue(w)'
  <2>1. CASE w \in waits
    BY <1>1, <1>2, <2>1 DEF WaitTrue
  <2>2. CASE w \notin waits
    <3>1. /\ w.pid = on[c] /\ on[c] \in Proc /\ ~Shows(c, on[c])
          /\ w.start = priorPidEnd[on[c]] + 1 /\ w.stop = e.ts
      BY <1>3, <2>2
    <3> SUFFICES ASSUME 0 < left[on[c]]
                 PROVE  left[on[c]] < w.start /\ w.stop <= came[on[c]]
      BY <1>2, <3>1 DEF WaitTrue
    <3>2. SchedReturns(c) /\ came[on[c]] = now
      BY <1>1, <3>1, HomeFact
    <3>3. ASSUME NEW d \in CPU, Shows(d, on[c]) PROVE FALSE
      <4>1. d # c /\ on[d] # on[c]
        BY <3>1, <3>3 DEF OneCPU, Proc
      <4>2. Away(d) /\ cur_span[d].pid = on[c]
        BY <3>1, <3>3, <4>1 DEF Away, Shows
      <4>3. AwayTrue(d) /\ ~Calls(d)
        BY <1>1, <4>1, <4>2 DEF CpuTrue, Calls, Converts
      <4>4. leaving[d] = on[c]
        BY <4>2, <4>3 DEF AwayTrue
      <4> QED
        BY <1>1, <3>1, <4>4 DEF MovesTrue, Proc
    <3>4. left[on[c]] <= priorPidEnd[on[c]]
      BY <1>1, <3>1, <3>3 DEF EndsTrue
    <3>5. left[on[c]] \in Nat /\ priorPidEnd[on[c]] \in Nat
      BY <1>1, <3>1, <1>2 DEF LeftType, WaitType
    <3>6. now \in Nat
      BY DEF KType
    <3> QED
      BY <3>1, <3>2, <3>4, <3>5, <3>6
  <2> QED
    BY <2>1, <2>2
<1> QED
  BY <1>6, <1>7

(***************************************************************************)
(* Waits: steps of the converter                                           *)
(***************************************************************************)

(* What the converter keeps of the other CPUs stays as it is.              *)
OnlyConv(c) == \A d \in CPU \ {c} :
    /\ cpu_stack'[d] = cpu_stack[d] /\ cur_span'[d] = cur_span[d]
    /\ valid_span'[d] = valid_span[d] /\ ctx_switch_ts'[d] = ctx_switch_ts[d]
    /\ oldpid'[d] = oldpid[d] /\ newpid'[d] = newpid[d]

(* Only the return of a scheduler takes a process out of pidRunning: the   *)
(* one that its CPU switched away from.                                    *)
Drops(c) == \A p \in pidRunning : p \notin pidRunning' =>
    Calls(c) /\ p = oldpid[c] /\ TOS(cpu_stack[c]) = Sched

LEMMA OthersConvert ==
    ASSUME ~Reading, UNCHANGED kvars, NEW c \in CPU, c = event.cpu, event' = event \/ Goes,
           OnlyConv(c), Drops(c), CpuTrue(c), NEW d \in CPU \ {c}, CpuTrue(d)
    PROVE  CpuTrue(d)'
<1>1. \A K : ~Converts(d, K) /\ ~Converts(d, K)'
  BY DEF Converts, Goes, RunnableAfter, Reading
<1>2. /\ UNCHANGED <<on, fresh, left, came, leaving, switched, now>> /\ TopCall(d)' = TopCall(d)
      /\ (Announced(d)' <=> Announced(d))
  BY KernelSame DEF kvars
<1>3. /\ cpu_stack'[d] = cpu_stack[d] /\ cur_span'[d] = cur_span[d]
      /\ valid_span'[d] = valid_span[d] /\ ctx_switch_ts'[d] = ctx_switch_ts[d]
      /\ oldpid'[d] = oldpid[d] /\ newpid'[d] = newpid[d] /\ Owner(d)' = Owner(d)
  BY DEF OnlyConv, Owner
<1>4. /\ \A p : Shows(d, p)' <=> Shows(d, p)
      /\ Settling(d)' <=> Settling(d)
      /\ ~Calls(d) /\ ~Calls(d)' /\ ~SchedReturns(d) /\ ~SchedReturns(d)'
  BY <1>1, <1>3 DEF Shows, Settling, Calls, SchedReturns
<1>5. ASSUME NEW p \in Proc, p \in pidRunning, p \notin pidRunning', Shows(d, p)
      PROVE  came[p] = 0 /\ ~(0 < left[p])
  <2>1. OldTrue(c) /\ Calls(c) /\ p = oldpid[c]
    BY <1>5 DEF Drops, CpuTrue, Proc
  <2> QED
    BY <1>5, <2>1 DEF OldTrue
<1>6. Away(d)' => AwayTrue(d)'
  BY <1>1, <1>2, <1>3, <1>4 DEF CpuTrue, Away, AwayTrue
<1>7. on'[d] # Idle /\ came'[on'[d]] # 0 => CameTrue(d)'
  <2> SUFFICES ASSUME on[d] # Idle, came[on[d]] # 0 PROVE Shows(d, on[d]) /\ on[d] \in pidRunning'
    BY <1>2, <1>4 DEF CameTrue
  <2>1. Shows(d, on[d]) /\ on[d] \in pidRunning
    BY <1>1, <1>4 DEF CpuTrue, CameTrue
  <2>2. on[d] \notin pidRunning' => came[on[d]] = 0
    <3>1. on[d] \notin pidRunning' => OldTrue(c) /\ Calls(c) /\ on[d] = oldpid[c]
      BY <2>1 DEF Drops, CpuTrue
    <3> QED
      BY <3>1 DEF OldTrue
  <2> QED
    BY <2>1, <2>2
<1>8. oldpid'[d] # Idle /\ TOS(cpu_stack'[d]) = Sched => OldTrue(d)'
  BY <1>1, <1>2, <1>3, <1>4 DEF CpuTrue, OldTrue
<1>9. \A p \in Proc : Shows(d, p) /\ 0 < left[p] => p \in pidRunning'
  BY <1>5 DEF CpuTrue
<1> QED
  BY <1>1, <1>2, <1>3, <1>4, <1>6, <1>7, <1>8, <1>9 DEF CpuTrue

(* A step of the converter, from what it does to its CPU.                  *)
LEMMA ConvertWaits ==
    ASSUME WInv, ~Reading, UNCHANGED kvars, NEW c \in CPU, c = event.cpu,
           event' = event \/ Goes, OnlyConv(c), Drops(c), WaitType', CpuTrue(c)',
           event' = event /\ SchedReturns(c) => TOS(cpu_stack'[c]) = Sched,
           FreshTrue', EndsTrue', \A w \in waits' : WaitTrue(w)'
    PROVE  WInv'
<1>1. LeftType /\ MovesTrue /\ EventFits /\ \A d \in CPU : CpuTrue(d)
  BY DEF WInv
<1>2. /\ UNCHANGED <<on, fresh, left, came, leaving, switched, now>>
      /\ \A d : TopCall(d)' = TopCall(d) /\ (Announced(d)' <=> Announced(d))
  BY KernelSame DEF kvars
<1>3. LeftType' /\ MovesTrue'
  BY <1>1, <1>2 DEF LeftType, MovesTrue
<1>4. EventFits'
  <2>1. CASE event' = event
    BY <1>1, <1>2, <2>1 DEF EventFits, Reading, SchedReturns, Converts
  <2>2. CASE Goes
    <3>1. CASE event' = NoEvent
      BY <3>1 DEF EventFits, Reading
    <3>2. CASE NewRunnable(event) /\ event' = RunnableAfter(event)
      <4>1. event.arg \in Pid /\ event.arg # Idle
        BY <1>1, <3>2 DEF EventFits, NewRunnable, IsAReturn, IsOptimizedCall, IsACall
      <4>2. /\ event'.kind = "wakeup" /\ event'.arg = event.arg /\ event'.cpu = event.cpu
            /\ event'.pid = event.pid
        BY <3>2 DEF RunnableAfter
      <4> QED
        BY <1>1, <1>2, <4>1, <4>2 DEF EventFits, Proc
    <3> QED
      BY <2>2, <3>1, <3>2 DEF Goes
  <2> QED
    BY <2>1, <2>2
<1>5. \A d \in CPU : CpuTrue(d)'
  BY <1>1, OthersConvert
<1> QED
  BY <1>3, <1>4, <1>5 DEF WInv

LEMMA FreshStays ==
    ASSUME FreshTrue, UNCHANGED fresh, NEW c \in CPU, NEW st, Edits(c, st),
           st.eventnum[1] = Owner(c)
    PROVE  FreshTrue' /\ \A d \in CPU : Owner(d)' = Owner(d)
<1>1. \A d \in CPU : Owner(d)' = Owner(d)
  BY DEF Edits, Owner
<1> QED
  BY <1>1 DEF FreshTrue, Edits

(* What a converter that handles a call or a return knows of its CPU.      *)
LEMMA CallingFacts ==
    ASSUME RInv, IInv, WInv, ~Reading, NEW c, c = event.cpu, event.kind \in {"call", "ret"}
    PROVE  /\ c \in CPU /\ KType /\ OneCPU /\ StackType /\ StacksNest
           /\ LeftType /\ MovesTrue /\ WaitType /\ CpuTrue(c) /\ FreshTrue
           /\ event.pid = on[c] /\ on[c] \in Pid /\ on[c] \notin fresh /\ now \in Nat
           /\ c \notin switched /\ Calls(c) /\ ~Converts(c, {"ctx"})
           /\ on[c] \in Proc /\ (came[on[c]] # 0 \/ left[on[c]] # 0)
                => came[on[c]] # 0 /\ CameTrue(c) /\ Announced(c) /\ newpid[c] = on[c]
<1>1. /\ KType /\ OneCPU /\ StackType /\ StacksNest /\ event \in Lines /\ event.cpu \in CPU
      /\ LeftType /\ MovesTrue /\ WaitType /\ CpuTrue(c) /\ FreshTrue
  BY Converting DEF RInv, IInv, WInv
<1>2. event.pid = on[c] /\ on[c] \in Pid /\ on[c] \notin fresh /\ now \in Nat
  BY <1>1 DEF WInv, EventFits, KType
<1>3. Calls(c) /\ ~Converts(c, {"ctx"}) /\ c \notin switched
  BY <1>1 DEF Calls, Converts, CpuTrue
<1>4. ASSUME on[c] \in Proc, came[on[c]] # 0 \/ left[on[c]] # 0
      PROVE  came[on[c]] # 0 /\ CameTrue(c) /\ Announced(c) /\ newpid[c] = on[c]
  <2>1. came[on[c]] # 0
    BY <1>1, <1>3, <1>4 DEF MovesTrue, Proc
  <2>2. CameTrue(c)
    BY <1>1, <1>4, <2>1 DEF CpuTrue, Proc
  <2>3. Announced(c)
    BY <1>1, <1>4, <2>1 DEF MovesTrue, OneCPU, Proc
  <2> QED
    BY <1>1, <1>3, <2>1, <2>2, <2>3 DEF CpuTrue
<1> QED
  BY <1>1, <1>2, <1>3, <1>4

(* A return, of the trace or inserted, ends the span of the process that   *)
(* was switched away from and begins one of the process that runs.         *)
LEMMA ReturnKeepsWaits ==
    ASSUME RInv, IInv, WInv, ~Reading, UNCHANGED kvars, UNCHANGED span_start_time,
           NEW c, c = event.cpu, event.kind \in {"call", "ret"}, event' = event \/ Goes,
           NEW e, IsAReturn(e), e.cpu = c, e.pid = event.pid, e.ts \in Nat, e.dur \in Nat,
           ProcessReturn(e), NEW st, Pops(c, st),
           cur_span' = [cur_span EXCEPT ![c] = StartSpan(e, TOS(st))],
           e.num = Sched => TOS(cpu_stack[c]) = Sched,
           SchedReturns(c) => e.num = Sched /\ e.ts = now /\ event' # event,
           Converts(c, {"call"}) /\ Settling(c) => e.num = Sched,
           \A p \in Proc : Shows(c, p) /\ p # on[c] => left[p] <= e.ts
    PROVE  WInv'
<1>1. /\ c \in CPU /\ KType /\ OneCPU /\ StackType /\ StacksNest
      /\ LeftType /\ MovesTrue /\ WaitType /\ CpuTrue(c) /\ FreshTrue
      /\ event.pid = on[c] /\ on[c] \in Pid /\ on[c] \notin fresh /\ now \in Nat
      /\ c \notin switched /\ Calls(c) /\ ~Converts(c, {"ctx"})
      /\ on[c] \in Proc /\ (came[on[c]] # 0 \/ left[on[c]] # 0)
           => came[on[c]] # 0 /\ CameTrue(c) /\ Announced(c) /\ newpid[c] = on[c]
  BY CallingFacts
<1>2. UNCHANGED <<on, fresh, left, came, switched>> /\ (Announced(c)' <=> Announced(c))
  BY KernelSame DEF kvars
<1>3. /\ EndSpan(e, <<>>) /\ UNCHANGED switchvars /\ UNCHANGED mwait_pending
      /\ ctx_switch_ts' = IF e.num = Sched THEN [ctx_switch_ts EXCEPT ![c] = 0] ELSE ctx_switch_ts
      /\ pidRunning' = IF e.num = Sched THEN (pidRunning \ {oldpid[c]}) \cup {newpid[c]}
                       ELSE pidRunning
  BY DEF ProcessReturn, SetSchedTs, Prologue, IsSchedReturnEvent, IsSchedCallEvent, IsACall,
         IsAReturn
<1>4. /\ cur_span'[c].pid = on[c] /\ cur_span'[c] \in OpenSpan
      /\ \A d \in CPU \ {c} : cur_span'[d] = cur_span[d]
  <2>1. StartSpan(e, TOS(st)) \in OpenSpan /\ StartSpan(e, TOS(st)).pid = on[c]
    BY <1>1 DEF StartSpan, Pops, OpenSpan
  <2> QED
    BY <1>1, <2>1 DEF WaitType
<1>5. /\ valid_span' = [valid_span EXCEPT ![c] = TRUE]
      /\ priorPidEnd' \in [Pid -> Nat] /\ priorPidEnd'[Idle] = 0
  <2>1. e.ts \in Int /\ e.ts + e.dur \in Nat
    OBVIOUS
  <2> QED
    BY <1>1, <1>3, <2>1, EndSpanFacts
<1>6. WaitType'
  BY <1>1, <1>3, <1>4, <1>5 DEF WaitType, switchvars
<1>7. EndsTrue' /\ \A w \in waits' : WaitTrue(w)'
  <2>1. e.ts \in Int /\ e.ts + e.dur \in Nat
    OBVIOUS
  <2> QED
    BY <1>1, <1>3, <1>4, <2>1, EndsAfter
<1>8. FreshTrue' /\ TOS(cpu_stack'[c]) = TOS(st) /\ TOS(st) # Sched
  BY <1>1, <1>2, FreshStays DEF Pops, Edits
<1>9. OnlyConv(c)
  BY <1>1, <1>3, <1>4, <1>5 DEF OnlyConv, Pops, Edits, WaitType, switchvars
<1>10. Drops(c)
  BY <1>1, <1>3 DEF Drops
<1>11. \A p \in Proc : Shows(c, p)' <=> p = on[c]
  BY <1>1, <1>4, <1>5 DEF Shows, WaitType
<1>12. on[c] \in Proc /\ (came[on[c]] # 0 \/ left[on[c]] # 0) => on[c] \in pidRunning'
  <2> SUFFICES ASSUME on[c] \in Proc, came[on[c]] # 0 \/ left[on[c]] # 0
               PROVE  on[c] \in pidRunning'
    OBVIOUS
  <2>1. CameTrue(c) /\ newpid[c] = on[c]
    BY <1>1
  <2>2. CASE e.num = Sched
    BY <1>3, <2>1, <2>2
  <2>3. CASE e.num # Sched
    <3>1. on[c] \in pidRunning
      BY <2>1, <2>3 DEF CameTrue
    <3> QED
      BY <1>3, <2>3, <3>1
  <2> QED
    BY <2>2, <2>3
<1>13. CpuTrue(c)'
  <2>1. valid_span'[c] = TRUE
    BY <1>1, <1>5 DEF WaitType
  <2>2. ~Converts(c, {"ctx"})'
    BY <1>1 DEF Converts, Goes, RunnableAfter, Reading
  <2>3. ~Away(c)'
    BY <1>2, <1>11 DEF Away
  <2>4. on[c] # Idle /\ came[on[c]] # 0 => CameTrue(c)'
    BY <1>1, <1>2, <1>11, <1>12 DEF CameTrue, Proc
  <2>5. Announced(c) => newpid'[c] = on[c]
    BY <1>1, <1>3 DEF CpuTrue, switchvars
  <2>6. \A p \in Proc : Shows(c, p)' /\ 0 < left'[p] => p \in pidRunning'
    BY <1>2, <1>11, <1>12
  <2> QED
    BY <1>1, <1>2, <1>8, <2>1, <2>2, <2>3, <2>4, <2>5, <2>6 DEF CpuTrue
<1> QED
  BY <1>1, <1>6, <1>7, <1>8, <1>9, <1>10, <1>13, ConvertWaits

(* A process whose span is open on a CPU that it does not run on: what is  *)
(* converted there is a return of the scheduler, or will be preceded by    *)
(* one.                                                                    *)
LEMMA AwayCalls ==
    ASSUME RInv, IInv, WInv, ~Reading, NEW c, c = event.cpu,
           NEW p \in Proc, p # on[c], Shows(c, p)
    PROVE  /\ TOS(cpu_stack[c]) = Sched
           /\ event.kind = "call" => Settling(c) /\ left[p] <= ctx_switch_ts[c]
           /\ event.kind = "ret" => SchedReturns(c)
<1>1. event.cpu \in CPU /\ CpuTrue(c)
  BY Converting DEF WInv
<1>2. AwayTrue(c) /\ cur_span[c].pid = p
  BY <1>1 DEF CpuTrue, Away, Shows
<1> QED
  BY <1>2 DEF AwayTrue, Converts

(* The fix-ups that insert a return.                                       *)
LEMMA InsertKeepsWaits ==
    ASSUME RInv, IInv, WInv, UNCHANGED kvars, UNCHANGED span_start_time,
           NEW ts \in Nat, Inserts(ts), event.kind \in {"call", "ret"},
           NEW c, c = event.cpu, ~SchedReturns(c),
           Converts(c, {"call"}) /\ Settling(c) => ts = ctx_switch_ts[c]
    PROVE  WInv'
<1>1. ~Reading /\ UNCHANGED event /\ event.cpu \in CPU /\ event \in Lines
  BY DEF Inserts
<1> DEFINE e == ReturnAt(ts)
<1>2. PICK st : Pops(c, st) /\ cur_span' = [cur_span EXCEPT ![c] = StartSpan(e, TOS(st))]
  BY InsertedReturnEdits
<1>3. /\ IsAReturn(e) /\ e.cpu = c /\ e.num = TOS(cpu_stack[c]) /\ e.pid = event.pid
      /\ e.ts = ts /\ e.dur = 0
  BY <1>1 DEF ReturnAt, Lines, IsAReturn, Stack
<1>4. ProcessReturn(e)
  BY DEF Inserts
<1> HIDE DEF e
<1>5. \A p \in Proc : Shows(c, p) /\ p # on[c] => left[p] <= e.ts
  BY <1>1, <1>3, AwayCalls DEF Converts
<1>6. Converts(c, {"call"}) /\ Settling(c) => e.num = Sched
  BY <1>3 DEF Settling
<1>7. e.ts \in Nat /\ e.dur \in Nat /\ (e.num = Sched => TOS(cpu_stack[c]) = Sched)
  BY <1>3
<1> QED
  BY <1>1, <1>2, <1>3, <1>4, <1>5, <1>6, <1>7, ReturnKeepsWaits

LEMMA ReturnPopKeepsWaits ==
    ASSUME RInv, IInv, WInv, UNCHANGED kvars, FixupReturnPop
    PROVE  WInv'
<1>1. /\ ~Reading /\ event.kind = "ret" /\ ~SchedReturns(event.cpu)
      /\ ~Converts(event.cpu, {"call"}) /\ UNCHANGED span_start_time
  BY DEF FixupReturnPop, IsAReturn, SchedReturns, Matches, Stack, Converts
<1>2. PICK ts \in {event.ts, span_start_time} : Inserts(ts)
  BY FixupFacts
<1>3. ts \in Nat
  BY <1>1, Converting DEF WInv, WaitType, Lines
<1> QED
  BY <1>1, <1>2, <1>3, InsertKeepsWaits

LEMMA SchedFixupKeepsWaits ==
    ASSUME RInv, IInv, WInv, UNCHANGED kvars, FixupSched
    PROVE  WInv'
<1>1. ~Reading /\ event.kind = "call" /\ ~SchedReturns(event.cpu) /\ UNCHANGED span_start_time
  BY DEF FixupSched, NeedsSched, IsACall, SchedReturns, Converts
<1>2. Inserts(ctx_switch_ts[event.cpu])
  BY FixupFacts
<1>3. ctx_switch_ts[event.cpu] \in Nat
  BY <1>2 DEF WInv, WaitType, Inserts
<1> QED
  BY <1>1, <1>2, <1>3, InsertKeepsWaits

LEMMA CallFixupKeepsWaits ==
    ASSUME RInv, IInv, WInv, UNCHANGED kvars, FixupCall
    PROVE  WInv'
<1>1. /\ ~Reading /\ event.kind = "call" /\ ~SchedReturns(event.cpu) /\ UNCHANGED span_start_time
      /\ ~Settling(event.cpu)
  BY DEF FixupCall, NeedsPop, NeedsSched, IsACall, SchedReturns, Converts, Settling, Stack
<1>2. Inserts(event.ts)
  BY FixupFacts
<1>3. event.ts \in Nat
  BY <1>1, Converting DEF Lines
<1> QED
  BY <1>1, <1>2, <1>3, InsertKeepsWaits

(* The end of a reschedule_ipi has nothing to do with a switch.            *)
LEMMA ReschedKeepsWaits ==
    ASSUME RInv, IInv, WInv, UNCHANGED kvars, FixupResched, NEW c, c = event.cpu
    PROVE  WInv'
<1>1. /\ ~Reading /\ event.kind = "call" /\ TOS(cpu_stack[c]) = Resched
      /\ UNCHANGED <<event, span_start_time, cur_span, valid_span, oldpid, newpid, perpidstate,
                     ctx_switch_ts, mwait_pending, pidRunning, priorPidEnd, waits>>
  BY DEF FixupResched, NeedsResched, IsSchedCallEvent, IsACall, switchvars, outvars, Stack
<1>2. PICK st : Edits(c, st) /\ st.eventnum[1] = Owner(c) /\ TOS(st) # Sched
  BY ReschedEdits
<1>3. /\ c \in CPU /\ WaitType /\ CpuTrue(c) /\ FreshTrue /\ on[c] \in Pid
      /\ on[c] \notin fresh /\ c \notin switched /\ ~Converts(c, {"ctx"})
  <2>1. event.kind \in {"call", "ret"}
    BY <1>1
  <2> QED
    BY <1>1, <2>1, CallingFacts
<1>4. UNCHANGED <<on, fresh, left, came, switched>> /\ (Announced(c)' <=> Announced(c))
  BY KernelSame DEF kvars
<1>5. TOS(cpu_stack[c]) # Sched
  BY <1>1, LevelFacts
<1>6. ~Away(c)
  BY <1>1, <1>3, <1>5 DEF CpuTrue, AwayTrue
<1>7. on[c] # Idle /\ came[on[c]] # 0 => Shows(c, on[c]) /\ on[c] \in pidRunning
  BY <1>1, <1>3, <1>5 DEF CpuTrue, CameTrue, Settling, SchedReturns, Converts
<1>8. \A p : Shows(c, p)' <=> Shows(c, p)
  BY <1>1 DEF Shows
<1>9. TOS(cpu_stack'[c]) # Sched /\ ~Converts(c, {"ctx"})'
  BY <1>1, <1>2 DEF Edits, Converts, Reading
<1>10. CpuTrue(c)'
  <2>1. ~Away(c)'
    BY <1>4, <1>6, <1>8 DEF Away
  <2>2. on[c] # Idle /\ came[on[c]] # 0 => CameTrue(c)'
    BY <1>1, <1>4, <1>7, <1>8 DEF CameTrue
  <2> QED
    BY <1>1, <1>3, <1>4, <1>8, <1>9, <2>1, <2>2 DEF CpuTrue
<1>11. WaitType'
  BY <1>1, <1>3 DEF WaitType
<1>12. FreshTrue'
  BY <1>2, <1>3, <1>4, FreshStays
<1>13. EndsTrue' /\ \A w \in waits' : WaitTrue(w)'
  BY <1>1, <1>4 DEF WInv, EndsTrue, WaitTrue, Shows
<1>14. OnlyConv(c) /\ Drops(c)
  BY <1>1, <1>2 DEF OnlyConv, Drops, Edits
<1>15. ~SchedReturns(c)
  BY <1>5 DEF SchedReturns
<1> QED
  BY <1>1, <1>3, <1>10, <1>11, <1>12, <1>13, <1>14, <1>15, ConvertWaits

LEMMA LabelledSpan ==
    ASSUME WaitType, StackType, StacksNest, NEW c \in CPU, NEW e
    PROVE  Labelled(c, e) \in OpenSpan
<1>1. cur_span[c] \in OpenSpan
  BY DEF WaitType
<1>2. cpu_stack[c].eventnum[1] \in Pid
  BY StackFacts, TopFacts DEF GoodState
<1> QED
  BY <1>1, <1>2 DEF Labelled, OpenSpan

(* The span that goes on is that of the same process.                      *)
LEMMA ContinueFacts ==
    ASSUME WaitType, StackType, StacksNest, NEW c \in CPU, NEW e, e.cpu = c,
           e.ts + e.dur \in Nat, ContinueSpan(e)
    PROVE  /\ cur_span' \in [CPU -> OpenSpan] /\ cur_span'[c].pid = cur_span[c].pid
           /\ \A d \in CPU \ {c} : cur_span'[d] = cur_span[d]
<1> DEFINE span == [Labelled(c, e) EXCEPT !.start = e.ts + e.dur]
<1>1. Labelled(c, e) \in OpenSpan /\ Labelled(c, e).pid = cur_span[c].pid
  BY LabelledSpan, LabelledPid
<1>2. span \in OpenSpan /\ span.pid = cur_span[c].pid
  BY <1>1 DEF OpenSpan
<1> HIDE DEF span
<1>3. cur_span' = [cur_span EXCEPT ![c] = span]
  BY DEF ContinueSpan, span
<1> QED
  BY <1>2, <1>3 DEF WaitType

(* A call that is pushed, of the trace or inserted: no process that was    *)
(* switched away from has its span here any more.                          *)
LEMMA PushKeepsWaits ==
    ASSUME RInv, IInv, WInv, ~Reading, UNCHANGED kvars, UNCHANGED span_start_time,
           NEW c, c = event.cpu, event.kind \in {"call", "ret"}, event' = event \/ Goes,
           NEW e, IsACall(e), e.cpu = c, e.pid = event.pid, e.ts \in Nat, e.dur \in Nat,
           e.num \in Call, ProcessCall(e), NEW st, Pushes(c, st, e),
           ~SchedReturns(c), ~(Converts(c, {"call"}) /\ Settling(c)),
           TOS(st) = Sched => event' = NoEvent /\ TopCall(c) = Sched
    PROVE  WInv'
<1>1. /\ c \in CPU /\ KType /\ OneCPU /\ StackType /\ StacksNest
      /\ LeftType /\ MovesTrue /\ WaitType /\ CpuTrue(c) /\ FreshTrue
      /\ event.pid = on[c] /\ on[c] \in Pid /\ on[c] \notin fresh /\ now \in Nat
      /\ c \notin switched /\ Calls(c) /\ ~Converts(c, {"ctx"})
      /\ on[c] \in Proc /\ (came[on[c]] # 0 \/ left[on[c]] # 0)
           => came[on[c]] # 0 /\ CameTrue(c) /\ Announced(c) /\ newpid[c] = on[c]
  BY CallingFacts
<1>2. UNCHANGED <<on, fresh, left, came, switched>> /\ TopCall(c)' = TopCall(c)
      /\ (Announced(c)' <=> Announced(c))
  BY KernelSame DEF kvars
<1>3. /\ UNCHANGED switchvars /\ UNCHANGED mwait_pending /\ UNCHANGED pidRunning
      /\ ctx_switch_ts' \in {ctx_switch_ts, [ctx_switch_ts EXCEPT ![c] = 0]}
  BY DEF ProcessCall, SetSchedTs, Prologue, IsSchedReturnEvent, IsACall, IsAReturn
<1>4. PICK more : EndSpan(e, more)
  BY DEF ProcessCall
<1>5. \A p \in Proc : Shows(c, p) => p = on[c]
  <2>1. Converts(c, {event.kind})
    BY DEF Converts
  <2> QED
    BY <2>1, AwayCalls
<1>6. e.ts \in Int /\ e.ts + e.dur \in Nat
  OBVIOUS
<1>7. /\ cur_span' \in [CPU -> OpenSpan] /\ cur_span'[c].pid \in {on[c], cur_span[c].pid}
      /\ \A d \in CPU \ {c} : cur_span'[d] = cur_span[d]
  <2>1. CASE IsOptimizedCall(e)
    <3>1. ContinueSpan(e)
      BY <2>1 DEF ProcessCall
    <3> QED
      BY <1>1, <1>6, <3>1, ContinueFacts
  <2>2. CASE ~IsOptimizedCall(e)
    <3>1. cur_span' = [cur_span EXCEPT ![c] = StartSpan(e, e.num)]
      BY <2>2 DEF ProcessCall
    <3>2. StartSpan(e, e.num) \in OpenSpan /\ StartSpan(e, e.num).pid = on[c]
      BY <1>1 DEF StartSpan, OpenSpan
    <3> QED
      BY <1>1, <3>1, <3>2 DEF WaitType
  <2> QED
    BY <2>1, <2>2
<1>8. /\ valid_span' = [valid_span EXCEPT ![c] = TRUE]
      /\ priorPidEnd' \in [Pid -> Nat] /\ priorPidEnd'[Idle] = 0
  BY <1>1, <1>4, <1>6, EndSpanFacts
<1>9. WaitType'
  BY <1>1, <1>3, <1>7, <1>8 DEF WaitType, switchvars
<1>10. EndsTrue' /\ \A w \in waits' : WaitTrue(w)'
  BY <1>1, <1>4, <1>5, <1>6, <1>7, EndsAfter
<1>11. FreshTrue' /\ TOS(cpu_stack'[c]) = TOS(st)
  BY <1>1, <1>2, FreshStays DEF Pushes, Edits
<1>12. OnlyConv(c)
  BY <1>1, <1>3, <1>7, <1>8 DEF OnlyConv, Pushes, Edits, WaitType, switchvars
<1>13. Drops(c)
  BY <1>3 DEF Drops
<1>14. \A p \in Proc : /\ Shows(c, p)' => p = on[c]
                       /\ Shows(c, p) => Shows(c, p)'
  BY <1>1, <1>5, <1>7, <1>8 DEF Shows, WaitType, CpuTrue, Proc
<1>15. on[c] \in Proc /\ (came[on[c]] # 0 \/ left[on[c]] # 0)
         => Shows(c, on[c]) /\ on[c] \in pidRunning
  BY <1>1 DEF CameTrue
<1>16. CpuTrue(c)'
  <2>1. valid_span'[c] = TRUE
    BY <1>1, <1>8 DEF WaitType
  <2>2. ~Converts(c, {"ctx"})'
    BY <1>1 DEF Converts, Goes, RunnableAfter, Reading
  <2>3. ~Away(c)'
    BY <1>2, <1>14 DEF Away
  <2>4. on[c] # Idle /\ came[on[c]] # 0 => CameTrue(c)'
    BY <1>1, <1>2, <1>3, <1>14, <1>15 DEF CameTrue, Proc
  <2>5. Announced(c) => newpid'[c] = on[c]
    BY <1>1, <1>3 DEF CpuTrue, switchvars
  <2>6. \A p \in Proc : Shows(c, p)' /\ 0 < left'[p] => p \in pidRunning'
    BY <1>2, <1>3, <1>14, <1>15
  <2>7. oldpid'[c] # Idle /\ TOS(cpu_stack'[c]) = Sched => OldTrue(c)'
    <3> SUFFICES ASSUME TOS(st) = Sched PROVE OldTrue(c)'
      BY <1>11
    <3>1. event' = NoEvent /\ TopCall(c) = Sched
      OBVIOUS
    <3>2. ~Calls(c)'
      BY <3>1 DEF Calls, Converts, Reading
    <3> QED
      BY <1>1, <1>2, <3>1, <3>2 DEF OldTrue
  <2> QED
    BY <1>1, <1>2, <2>1, <2>2, <2>3, <2>4, <2>5, <2>6, <2>7 DEF CpuTrue
<1> QED
  BY <1>1, <1>9, <1>10, <1>11, <1>12, <1>13, <1>16, ConvertWaits

LEMMA ReturnCallKeepsWaits ==
    ASSUME RInv, IInv, WInv, UNCHANGED kvars, FixupReturnCall
    PROVE  WInv'
<1>1. /\ ~Reading /\ UNCHANGED event /\ event.cpu \in CPU /\ event.kind = "ret"
      /\ MissingCall.cpu = event.cpu /\ MissingCall.num = event.num
      /\ MissingCall.ts = span_start_time /\ ~IsOptimizedCall(MissingCall)
      /\ ProcessCall(MissingCall)
  BY InsertedCallEdits DEF IsAReturn
<1>2. PICK st : Pushes(event.cpu, st, MissingCall)
  BY InsertedCallEdits
<1>3. event \in Lines /\ event.num \in Call
  BY <1>1, Converting
<1>4. IsACall(MissingCall) /\ MissingCall.pid = event.pid /\ MissingCall.dur = 0
  BY <1>3 DEF MissingCall, Lines, IsACall
<1>5. /\ UNCHANGED span_start_time /\ span_start_time \in Nat
      /\ TOS(cpu_stack[event.cpu]) # event.num
  BY DEF FixupReturnCall, Matches, Stack, WInv, WaitType
<1>6. event.num # Sched
  BY <1>1, <1>5 DEF WInv, EventFits
<1>7. ~SchedReturns(event.cpu) /\ ~Converts(event.cpu, {"call"})
  BY <1>1, <1>6 DEF SchedReturns, Converts
<1>8. TOS(st) = event.num
  BY <1>1, <1>2 DEF Pushes
<1> QED
  BY <1>1, <1>2, <1>3, <1>4, <1>5, <1>6, <1>7, <1>8, PushKeepsWaits

LEMMA EventCallKeepsWaits ==
    ASSUME RInv, IInv, SInv, WInv, ~Reading, Settled, Goes, UNCHANGED kvars,
           UNCHANGED span_start_time,
           event.kind = "call", ProcessCall(event), NEW c, c = event.cpu,
           NEW st, Pushes(c, st, event)
    PROVE  WInv'
<1>1. event \in Lines /\ c \in CPU /\ event.num \in Call
  BY Converting
<1>2. IsACall(event) /\ event.ts \in Nat /\ event.dur \in Nat
  BY <1>1 DEF Lines, IsACall
<1>3. ~Settling(c)
  BY <1>2, LevelFacts DEF Settled, NeedsResched, NeedsSched, Settling, Stack
<1>4. ~SchedReturns(c)
  BY DEF SchedReturns, Converts
<1>5. ASSUME TOS(st) = Sched PROVE event' = NoEvent /\ TopCall(c) = Sched
  <2>1. ~IsOptimizedCall(event) /\ event.num = Sched
    BY <1>5 DEF Pushes
  <2>2. event.dur = 0
    BY <1>2, <2>1 DEF IsOptimizedCall
  <2>3. SchedAfter(c)
    BY <1>1 DEF SInv, SchedTrue
  <2> QED
    BY <2>1, <2>2, <2>3 DEF SchedAfter, Goes, NewRunnable, IsAReturn
<1> QED
  BY <1>1, <1>2, <1>3, <1>4, <1>5, PushKeepsWaits

LEMMA EventReturnKeepsWaits ==
    ASSUME RInv, IInv, WInv, ~Reading, Settled, Goes, UNCHANGED kvars,
           UNCHANGED span_start_time,
           event.kind = "ret", ProcessReturn(event), NEW c, c = event.cpu,
           NEW st, Pops(c, st),
           cur_span' = [cur_span EXCEPT ![c] = StartSpan(event, TOS(st))]
    PROVE  WInv'
<1>1. event \in Lines /\ c \in CPU /\ EventTrue /\ KType
  BY Converting DEF RInv
<1>2. IsAReturn(event) /\ event.ts = now /\ event.dur \in Nat /\ now \in Nat
  BY <1>1 DEF Lines, IsAReturn, EventTrue, KType
<1>3. event.num = Sched => TOS(cpu_stack[c]) = Sched
  BY DEF WInv, EventFits
<1>4. event' # event
  BY <1>1 DEF Goes, RunnableAfter, Reading, Lines
<1>5. ~Converts(c, {"call"}) /\ (SchedReturns(c) => event.num = Sched)
  BY DEF Converts, SchedReturns
<1>6. \A p \in Proc : left[p] <= event.ts
  BY <1>2 DEF WInv, MovesTrue
<1> QED
  BY <1>1, <1>2, <1>3, <1>4, <1>5, <1>6, ReturnKeepsWaits

(* An event that leaves the processes of its CPU as they are.              *)
LEMMA StillKeepsCpu ==
    ASSUME ~Reading, UNCHANGED kvars, NEW c \in CPU, c = event.cpu, CpuTrue(c),
           NEW st, Edits(c, st), st.eventnum[1] = Owner(c),
           ~Calls(c), ~Converts(c, {"ctx"}), event' = NoEvent,
           TOS(st) = Sched => TOS(cpu_stack[c]) = Sched,
           Settling(c) => Settling(c)', c \in switched => TOS(st) = TOS(cpu_stack[c]),
           UNCHANGED <<oldpid, newpid, pidRunning, ctx_switch_ts, valid_span>>,
           cur_span'[c].pid = cur_span[c].pid
    PROVE  CpuTrue(c)'
<1>1. /\ UNCHANGED <<on, fresh, left, came, leaving, switched>> /\ TopCall(c)' = TopCall(c)
      /\ (Announced(c)' <=> Announced(c))
  BY KernelSame DEF kvars
<1>2. \A K : ~Converts(c, K)'
  BY DEF Converts, Reading
<1>3. \A p : Shows(c, p)' <=> Shows(c, p)
  BY DEF Shows
<1>4. cpu_stack'[c] = st
  BY DEF Edits
<1>5. ~Converts(c, {"call"}) /\ ~Converts(c, {"ret"}) /\ ~SchedReturns(c) /\ ~Calls(c)'
  BY <1>2 DEF Calls, Converts, SchedReturns
<1>6. on[c] \in fresh => Settling(c)
  BY DEF CpuTrue
<1>7. Away(c)' => AwayTrue(c)'
  <2> SUFFICES ASSUME Away(c) PROVE AwayTrue(c)'
    BY <1>1, <1>3 DEF Away
  <2>1. /\ TOS(cpu_stack[c]) = Sched /\ left[cur_span[c].pid] <= ctx_switch_ts[c]
        /\ leaving[c] = cur_span[c].pid /\ (c \in switched \/ on[c] \in fresh)
    BY DEF CpuTrue, AwayTrue
  <2>2. TOS(st) = Sched
    BY <1>4, <1>6, <2>1 DEF Settling
  <2> QED
    BY <1>1, <1>2, <1>4, <1>5, <2>1, <2>2 DEF AwayTrue
<1>8. on[c] # Idle /\ came[on[c]] # 0 => CameTrue(c)'
  BY <1>1, <1>3, <1>5 DEF CpuTrue, CameTrue
<1>9. oldpid[c] # Idle /\ TOS(st) = Sched => OldTrue(c)'
  BY <1>1, <1>5 DEF CpuTrue, OldTrue
<1> QED
  BY <1>1, <1>2, <1>3, <1>4, <1>5, <1>6, <1>7, <1>8, <1>9 DEF CpuTrue

(* An ambiguous stack is one of a process that came back: the converter    *)
(* does not resolve that of a new one.                                     *)
LEMMA StillSettling ==
    ASSUME NEW c \in CPU, NEW e, cpu_stack'[c] = Resolve(cpu_stack[c], e), UNCHANGED ctx_switch_ts
    PROVE  Settling(c) => Settling(c)'
  BY DEF Settling, Resolve, Ambiguous, Top, TOS

LEMMA EventSplitKeepsWaits ==
    ASSUME RInv, IInv, SInv, WInv, UNCHANGED kvars, UNCHANGED span_start_time,
           ~Reading, event' = NoEvent, NEW c, c = event.cpu,
           event.kind \in {"rpc", "mark", "mwait", "mwait_exit"}, ProcessSplit(event),
           NEW st, Settles(c, st, event)
    PROVE  WInv'
<1>1. /\ c \in CPU /\ event \in Lines /\ StackType /\ StacksNest /\ WaitType /\ CpuTrue(c)
      /\ FreshTrue /\ MovesTrue /\ SchedAfter(c) /\ EventTrue /\ KType
  BY Converting DEF IInv, WInv, SInv, SchedTrue, RInv
<1>2. UNCHANGED <<fresh, left, came>>
  BY DEF kvars
<1>3. /\ UNCHANGED <<oldpid, newpid, perpidstate, pidRunning, ctx_switch_ts, valid_span, waits>>
      /\ priorPidEnd' = FinishSpan(c, Labelled(c, event), event.ts).end /\ ContinueSpan(event)
      /\ mwait_pending' = [mwait_pending EXCEPT ![c] = MwaitPending(event)]
  BY DEF ProcessSplit, switchvars, Prologue, IsSchedReturnEvent, IsAReturn
<1>4. event.ts \in Nat /\ event.dur \in Nat /\ event.ts \in Int /\ event.ts + event.dur \in Nat
  <2>1. event.ts \in Nat /\ event.dur \in Nat
    BY <1>1 DEF Lines
  <2> QED
    BY <2>1
<1>5. /\ cur_span' \in [CPU -> OpenSpan] /\ cur_span'[c].pid = cur_span[c].pid
      /\ \A d \in CPU \ {c} : cur_span'[d] = cur_span[d]
  BY <1>1, <1>3, <1>4, ContinueFacts
<1>6. /\ priorPidEnd' \in [Pid -> Nat] /\ priorPidEnd'[Idle] = 0
      /\ \A p \in Proc : ~Shows(c, p) => priorPidEnd'[p] = priorPidEnd[p]
  BY <1>1, <1>3, <1>4, FinishEnds
<1>7. WaitType'
  <2>1. MwaitPending(event) \in Int
    BY <1>1 DEF EventTrue, MwaitPending, WaitType
  <2> QED
    BY <1>1, <1>3, <1>5, <1>6, <2>1 DEF WaitType
<1>8. \A d \in CPU, p \in Proc : Shows(d, p)' <=> Shows(d, p)
  BY <1>3, <1>5 DEF Shows
<1>9. EndsTrue'
  <2> SUFFICES ASSUME NEW p \in Proc, 0 < left[p]
               PROVE  left[p] <= priorPidEnd'[p] \/ \E d \in CPU : Shows(d, p)
    BY <1>2, <1>8 DEF EndsTrue
  <2>1. left[p] <= priorPidEnd[p] \/ \E d \in CPU : Shows(d, p)
    BY DEF WInv, EndsTrue
  <2> QED
    BY <1>1, <1>6, <2>1
<1>10. \A w \in waits' : WaitTrue(w)'
  BY <1>2, <1>3 DEF WInv, WaitTrue
<1>11. FreshTrue'
  BY <1>1, <1>2, FreshStays DEF Settles
<1>12. Edits(c, st) /\ st.eventnum[1] = Owner(c) /\ (TOS(st) = Sched => TOS(cpu_stack[c]) = Sched)
  BY LevelFacts DEF Settles
<1>13. ~Calls(c) /\ ~Converts(c, {"ctx"}) /\ c \notin switched
  BY <1>1 DEF Calls, Converts, SchedAfter, MovesTrue
<1>14. Settling(c) => Settling(c)'
  <2>1. cpu_stack'[c] = IF event.kind = "rpc"
                        THEN [Resolve(cpu_stack[c], event) EXCEPT !.rpcid = event.arg]
                        ELSE Resolve(cpu_stack[c], event)
    BY <1>1 DEF ProcessSplit, StackType
  <2>2. ASSUME Settling(c) PROVE Resolve(cpu_stack[c], event) = cpu_stack[c]
    BY <2>2 DEF Settling, Resolve, Ambiguous
  <2>3. cpu_stack[c] \in PidStates
    BY <1>1 DEF StackType
  <2> QED
    BY <1>3, <2>1, <2>2, <2>3 DEF Settling, PidStates, Top, TOS
<1>15. CpuTrue(c)'
  BY <1>1, <1>3, <1>5, <1>12, <1>13, <1>14, StillKeepsCpu
<1>16. OnlyConv(c) /\ Drops(c)
  BY <1>3, <1>5, <1>12 DEF OnlyConv, Drops, Edits
<1>17. Goes /\ event' # event
  BY DEF Goes, Reading
<1> QED
  BY <1>1, <1>7, <1>9, <1>10, <1>11, <1>15, <1>16, <1>17, ConvertWaits

(* A wakeup draws a wait of a process that does not run.                   *)
LEMMA EventPointKeepsWaits ==
    ASSUME RInv, IInv, WInv, UNCHANGED kvars, UNCHANGED span_start_time,
           ~Reading, event' = NoEvent, NEW c, c = event.cpu,
           event.kind \in {"sample", "wakeup", "ipi", "monitor_store", "other"},
           ProcessPoint(event), NEW st, Settles(c, st, event)
    PROVE  WInv'
<1>1. /\ c \in CPU /\ event \in Lines /\ StackType /\ StacksNest /\ WaitType /\ CpuTrue(c)
      /\ FreshTrue /\ MovesTrue /\ LeftType /\ EventTrue /\ KType
  BY Converting DEF IInv, WInv, RInv
<1>2. UNCHANGED <<fresh, left, came, now>>
  BY DEF kvars
<1>3. /\ UNCHANGED <<oldpid, newpid, pidRunning, ctx_switch_ts, valid_span, mwait_pending>>
      /\ cur_span' = [cur_span EXCEPT ![c] = Labelled(c, event)]
      /\ cpu_stack' = [cpu_stack EXCEPT ![c] = Resolve(cpu_stack[c], event)]
  BY DEF ProcessPoint, switchvars, Prologue, IsSchedReturnEvent, IsAReturn
<1>4. /\ cur_span' \in [CPU -> OpenSpan] /\ cur_span'[c].pid = cur_span[c].pid
      /\ \A d \in CPU \ {c} : cur_span'[d] = cur_span[d]
  BY <1>1, <1>3, LabelledSpan, LabelledPid DEF WaitType
<1>5. \A d \in CPU, p \in Proc : Shows(d, p)' <=> Shows(d, p)
  BY <1>3, <1>4 DEF Shows
<1>6. ASSUME NEW p \in Proc, p \notin pidRunning
      PROVE  /\ 0 < left[p] => left[p] <= priorPidEnd[p]
             /\ came[p] = 0
  <2>1. \A d \in CPU : ~(Shows(d, p) /\ 0 < left[p])
    BY <1>6 DEF WInv, CpuTrue
  <2>2. 0 < left[p] => left[p] <= priorPidEnd[p]
    BY <2>1 DEF WInv, EndsTrue
  <2>3. ASSUME came[p] # 0 PROVE FALSE
    <3>1. PICK d \in CPU : on[d] = p
      BY <1>1, <2>3 DEF MovesTrue
    <3>2. CameTrue(d)
      BY <2>3, <3>1 DEF WInv, CpuTrue, Proc
    <3> QED
      BY <1>6, <3>1, <3>2 DEF CameTrue, Converts, SchedReturns
  <2> QED
    BY <2>2, <2>3
<1> DEFINE Ends == /\ priorPidEnd' \in [Pid -> Nat] /\ priorPidEnd'[Idle] = 0
                   /\ EndsTrue' /\ \A w \in waits' : WaitTrue(w)'
<1>7. ASSUME event.kind = "wakeup" PROVE Ends
  <2>1. event.arg \in Proc /\ event.arg \in Pid /\ event.arg # Idle
    BY <1>7 DEF WInv, EventFits, Proc
  <2>2. priorPidEnd' = [priorPidEnd EXCEPT ![event.arg] = event.ts + event.dur]
    BY <1>7 DEF ProcessPoint
  <2>3. event.ts + event.dur \in Nat /\ now <= event.ts + event.dur /\ now \in Nat
    <3>1. event.ts \in {now, now + 1} /\ event.dur \in {0, 1} /\ now \in Nat
      BY <1>1 DEF EventTrue, KType
    <3> QED
      BY <3>1
  <2>4. priorPidEnd' \in [Pid -> Nat] /\ priorPidEnd'[Idle] = 0
    BY <1>1, <2>1, <2>2, <2>3 DEF WaitType
  <2>5. EndsTrue'
    <3> SUFFICES ASSUME NEW p \in Proc, 0 < left[p]
                 PROVE  left[p] <= priorPidEnd'[p] \/ \E d \in CPU : Shows(d, p)
      BY <1>2, <1>5 DEF EndsTrue
    <3>1. CASE p = event.arg
      <4>1. left[p] \in Nat /\ left[p] <= now
        BY <1>1 DEF LeftType, MovesTrue
      <4> QED
        BY <1>1, <2>1, <2>2, <2>3, <3>1, <4>1 DEF WaitType
    <3>2. CASE p # event.arg
      BY <2>2, <3>2, <1>1 DEF WInv, EndsTrue, WaitType, Proc
    <3> QED
      BY <3>1, <3>2
  <2>6. ASSUME NEW w \in waits' PROVE WaitTrue(w)'
    <3>1. CASE w \in waits
      BY <1>2, <3>1 DEF WInv, WaitTrue
    <3>2. CASE w \notin waits
      <4>1. /\ w \in WaitSpan(event.arg, priorPidEnd[event.arg], event.ts, "reason")
            /\ event.arg \notin pidRunning
        BY <1>7, <2>6, <3>2 DEF ProcessPoint
      <4>2. w.pid = event.arg /\ w.start = priorPidEnd[event.arg] + 1
        BY <4>1 DEF WaitSpan
      <4>3. left[event.arg] \in Nat /\ priorPidEnd[event.arg] \in Nat
        BY <1>1, <2>1 DEF LeftType, WaitType
      <4> QED
        BY <1>2, <1>6, <2>1, <4>1, <4>2, <4>3 DEF WaitTrue
    <3> QED
      BY <3>1, <3>2
  <2> QED
    BY <2>4, <2>5, <2>6
<1>8. ASSUME event.kind # "wakeup" PROVE Ends
  <2>1. UNCHANGED <<priorPidEnd, waits>>
    BY <1>8 DEF ProcessPoint
  <2> QED
    BY <1>1, <1>2, <1>5, <2>1 DEF WInv, EndsTrue, WaitTrue, WaitType
<1>9. Ends
  BY <1>7, <1>8
<1>10. WaitType'
  BY <1>1, <1>3, <1>4, <1>9 DEF WaitType
<1>11. FreshTrue'
  BY <1>1, <1>2, FreshStays DEF Settles
<1>12. Edits(c, st) /\ st.eventnum[1] = Owner(c) /\ TOS(st) = TOS(cpu_stack[c])
  BY DEF Settles, OnlyInUserMode, IsACall
<1>13. ~Calls(c) /\ ~Converts(c, {"ctx"})
  BY DEF Calls, Converts
<1>14. Settling(c) => Settling(c)'
  <2>1. cpu_stack'[c] = Resolve(cpu_stack[c], event)
    BY <1>1, <1>3 DEF StackType
  <2> QED
    BY <1>1, <1>3, <2>1, StillSettling
<1>15. CpuTrue(c)'
  BY <1>1, <1>3, <1>4, <1>12, <1>13, <1>14, StillKeepsCpu
<1>16. OnlyConv(c) /\ Drops(c)
  BY <1>3, <1>4, <1>12 DEF OnlyConv, Drops, Edits
<1>17. Goes /\ event' # event
  BY DEF Goes, Reading
<1> QED
  BY <1>1, <1>9, <1>10, <1>11, <1>15, <1>16, <1>17, ConvertWaits

(* At the bottom of the stack no switch is under way, and the span goes on *)
(* after the exit from the C state.                                        *)
LEMMA CexitKeepsWaits ==
    ASSUME RInv, IInv, WInv, UNCHANGED kvars, FixupCexit, NEW c, c = event.cpu
    PROVE  WInv'
<1> DEFINE latency == IF event.ts < cur_span[c].start THEN mwait_pending[c]
                      ELSE Lesser(mwait_pending[c], event.ts - cur_span[c].start)
<1>1. ~Reading /\ Settled /\ UNCHANGED <<event, span_start_time>>
      /\ mwait_pending' = [mwait_pending EXCEPT ![c] = -1]
  BY CexitEdits DEF FixupCexit
<1>2. /\ c \in CPU /\ event \in Lines /\ StackType /\ StacksNest /\ WaitType /\ CpuTrue(c)
      /\ FreshTrue /\ MovesTrue /\ KType /\ OneCPU /\ EventFits
  BY <1>1, Converting DEF IInv, WInv, RInv
<1>3. /\ UNCHANGED <<on, fresh, left, came, now, leaving, switched>> /\ TopCall(c)' = TopCall(c)
      /\ (Announced(c)' <=> Announced(c)) /\ on[c] \in Pid
  BY <1>2, KernelSame DEF kvars, KType
<1>4. mwait_pending' \in [CPU -> Int]
  BY <1>1, <1>2 DEF WaitType
<1>5. PICK st : Edits(c, st) /\ st.eventnum[1] = Owner(c) /\ TOS(st) = TOS(cpu_stack[c])
  BY CexitEdits DEF Settles
<1>6. FreshTrue' /\ \A d \in CPU : Owner(d)' = Owner(d)
  BY <1>2, <1>3, <1>5, FreshStays
<1>7. \A K : Converts(c, K)' <=> Converts(c, K)
  BY <1>1 DEF Converts, Reading
<1>8. CASE UNCHANGED <<cpuvars, switchvars, ctx_switch_ts, pidRunning, priorPidEnd, outvars>>
  <2>1. UNCHANGED <<cpu_stack, cur_span, valid_span, oldpid, newpid, ctx_switch_ts, pidRunning,
                    priorPidEnd, waits>>
    BY <1>8 DEF cpuvars, switchvars, outvars
  <2>2. WaitType'
    BY <1>1, <1>2, <1>4, <2>1 DEF WaitType
  <2>3. EndsTrue' /\ \A w \in waits' : WaitTrue(w)'
    BY <1>3, <2>1 DEF WInv, EndsTrue, Shows, WaitTrue
  <2>4. OnlyConv(c) /\ Drops(c)
    BY <2>1 DEF OnlyConv, Drops
  <2>5. /\ Calls(c)' <=> Calls(c)
        /\ SchedReturns(c)' <=> SchedReturns(c)
        /\ Settling(c)' <=> Settling(c)
        /\ \A p : Shows(c, p)' <=> Shows(c, p)
        /\ \A d \in CPU : \A p : Shows(d, p)' <=> Shows(d, p)
        /\ Converts(c, {"ctx"})' <=> Converts(c, {"ctx"})
    BY <1>1, <1>7, <2>1 DEF Calls, SchedReturns, Settling, Shows
  <2>6. Away(c)' => AwayTrue(c)'
    BY <1>2, <1>3, <1>6, <1>7, <2>1, <2>5 DEF CpuTrue, Away, AwayTrue
  <2>7. on'[c] # Idle /\ came'[on'[c]] # 0 => CameTrue(c)'
    BY <1>2, <1>3, <1>7, <2>1, <2>5 DEF CpuTrue, CameTrue
  <2>8. oldpid'[c] # Idle /\ TOS(cpu_stack'[c]) = Sched => OldTrue(c)'
    <3>1. oldpid[c] # Idle /\ TOS(cpu_stack[c]) = Sched => OldTrue(c)
      BY <1>2 DEF CpuTrue
    <3> QED
      BY <1>3, <2>1, <2>5, <3>1 DEF OldTrue
  <2>9. CpuTrue(c)'
    BY <1>2, <1>3, <1>6, <1>7, <2>1, <2>5, <2>6, <2>7, <2>8 DEF CpuTrue
  <2> QED
    BY <1>1, <1>2, <1>6, <2>1, <2>2, <2>3, <2>4, <2>9, ConvertWaits DEF SchedReturns
<1>9. CASE Top(Stack) = 0 /\ ProcessCexit(Cexit(event.ts - latency, latency))
  <2> DEFINE e == Cexit(event.ts - latency, latency)
  <2>1. latency \in Int
    BY <1>2 DEF Lesser, WaitType, OpenSpan, Lines
  <2> HIDE DEF latency
  <2>2. /\ e.cpu = c /\ e.ts = event.ts - latency /\ e.dur = latency /\ e.pid = on[c]
        /\ e.kind = "cexit"
    BY <1>1, <1>2 DEF Cexit, Lines, EventFits
  <2>3. e.ts \in Int /\ e.ts + e.dur \in Nat
    <3>1. event.ts \in Nat
      BY <1>2 DEF Lines
    <3> QED
      BY <2>1, <2>2, <3>1
  <2>4. ProcessCexit(e)
    BY <1>9
  <2> HIDE DEF e
  <2>5. /\ UNCHANGED <<oldpid, newpid, ctx_switch_ts, pidRunning>> /\ ContinueSpan(e)
    BY <2>2, <2>4 DEF ProcessCexit, switchvars, Prologue, IsSchedReturnEvent, IsAReturn
  <2>6. PICK more : EndSpan(e, more)
    BY <2>4 DEF ProcessCexit
  <2>7. TOS(cpu_stack[c]) # Sched
    <3>1. TOS(Stack) \notin Call
      <4>1. Len(Stack.eventnum) = 1
        BY <1>1, <1>9, Converting DEF Top
      <4> QED
        BY <1>1, <4>1, Converting
    <3> QED
      BY <3>1, LevelFacts DEF Stack
  <2>8. ~Away(c) /\ c \notin switched /\ ~SchedReturns(c) /\ ~Settling(c)
    BY <1>2, <2>7 DEF CpuTrue, AwayTrue, SchedReturns, Settling
  <2>9. /\ cur_span' \in [CPU -> OpenSpan] /\ cur_span'[c].pid = cur_span[c].pid
        /\ \A d \in CPU \ {c} : cur_span'[d] = cur_span[d]
    BY <1>2, <2>2, <2>3, <2>5, ContinueFacts
  <2>10. /\ valid_span' = [valid_span EXCEPT ![c] = TRUE]
         /\ priorPidEnd' \in [Pid -> Nat] /\ priorPidEnd'[Idle] = 0
    BY <1>2, <1>3, <2>2, <2>3, <2>6, EndSpanFacts
  <2>11. WaitType'
    BY <1>1, <1>2, <1>4, <2>5, <2>9, <2>10 DEF WaitType
  <2>12. \A p \in Proc : ~(Shows(c, p) /\ p # on[c])
    BY <2>8 DEF Away
  <2>13. EndsTrue' /\ \A w \in waits' : WaitTrue(w)'
    BY <1>1, <1>2, <2>2, <2>3, <2>6, <2>8, <2>9, <2>12, EndsAfter
  <2>14. OnlyConv(c) /\ Drops(c)
    BY <1>2, <1>5, <2>5, <2>9, <2>10 DEF OnlyConv, Drops, Edits, WaitType
  <2>15. \A p \in Proc : Shows(c, p)' <=> Shows(c, p)
    BY <1>2, <2>9, <2>10 DEF Shows, CpuTrue, WaitType, Proc
  <2>16. CpuTrue(c)'
    <3>1. ~Away(c)' /\ TOS(cpu_stack'[c]) # Sched
      BY <1>3, <1>5, <2>7, <2>12, <2>15 DEF Away, Edits
    <3>2. valid_span'[c] = TRUE
      BY <1>2, <2>10 DEF WaitType
    <3>3. on[c] # Idle /\ came[on[c]] # 0 => CameTrue(c)'
      BY <1>2, <1>3, <2>5, <2>8, <2>15 DEF CpuTrue, CameTrue, Proc
    <3> QED
      BY <1>2, <1>3, <1>6, <1>7, <2>5, <2>8, <2>15, <3>1, <3>2, <3>3 DEF CpuTrue
  <2> QED
    BY <1>1, <1>2, <1>6, <2>8, <2>11, <2>13, <2>14, <2>16, ConvertWaits
<1> QED
  BY <1>8, <1>9 DEF FixupCexit, Cexit

(* A context switch: the span of the process that was left stays open      *)
(* while the converter takes the new one to be inside the scheduler.       *)
LEMMA EventSwitchKeepsWaits ==
    ASSUME RInv, IInv, Orderly, SInv, WInv, UNCHANGED kvars, UNCHANGED span_start_time,
           ~Reading, event' = NoEvent, NEW c, c = event.cpu, event.kind = "ctx",
           ProcessContextSwitch(event), IInv', RInv', SInv'
    PROVE  WInv'
<1> DEFINE p == Owner(c)
           q == on[c]
           new == cpu_stack'[c]
<1>1. /\ c \in CPU /\ event \in Lines /\ StackType /\ StacksNest /\ WaitType /\ CpuTrue(c)
      /\ FreshTrue /\ MovesTrue /\ LeftType /\ EventTrue /\ KType /\ OneCPU /\ EventFits
      /\ OwnersTrue /\ RpcsTrue
  BY Converting DEF IInv, WInv, RInv
<1>2. /\ UNCHANGED <<on, fresh, left, came, now, leaving, switched>> /\ TopCall(c)' = TopCall(c)
      /\ (Announced(c)' <=> Announced(c)) /\ q \in Pid /\ Idle \in Pid
  BY <1>1, KernelSame, CallAssumption DEF kvars, KType
<1>3. event.pid = q /\ event.ts = now /\ now \in Nat /\ 0 < now
  BY <1>1 DEF EventFits, EventTrue, KType
<1>4. Converts(c, {"ctx"}) /\ ~Calls(c) /\ ~Converts(c, {"call"}) /\ ~Converts(c, {"ret"})
      /\ ~SchedReturns(c) /\ Announced(c)
  <2>1. Converts(c, {"ctx"})
    BY DEF Converts
  <2> QED
    BY <1>1, <2>1 DEF Converts, Calls, SchedReturns, OwnersTrue
<1>5. p \in Pid
  BY <1>1, StackFacts, TopFacts DEF Owner, GoodState
<1>6. /\ ctx_switch_ts' = [ctx_switch_ts EXCEPT ![c] = now]
      /\ oldpid' = [oldpid EXCEPT ![c] = p] /\ newpid' = [newpid EXCEPT ![c] = q]
      /\ UNCHANGED <<pidRunning, mwait_pending, priorPidEnd, waits>>
      /\ IF Top(new) = 0
         THEN /\ cur_span' = [cur_span EXCEPT ![c] = StartSpan(event, q)]
              /\ valid_span' = [valid_span EXCEPT ![c] = TRUE]
         ELSE UNCHANGED <<cur_span, valid_span>>
  <2>1. MarkAmbiguous(cpu_stack[c]).eventnum[1] = p
    BY <1>1 DEF MarkAmbiguous, Owner, StackType, PidStates
  <2>2. cpu_stack'[c] = SwapStacks(MarkAmbiguous(cpu_stack[c]), event.pid)
    BY <1>1 DEF ProcessContextSwitch, StackType
  <2> QED
    BY <1>3, <2>1, <2>2 DEF ProcessContextSwitch, Prologue, IsSchedReturnEvent, IsAReturn, outvars
<1>7. /\ StartSpan(event, q) \in OpenSpan /\ StartSpan(event, q).pid = q
  BY <1>2, <1>3 DEF StartSpan, OpenSpan
<1>8. /\ cur_span' \in [CPU -> OpenSpan] /\ valid_span' \in [CPU -> BOOLEAN]
      /\ \A d \in CPU \ {c} : cur_span'[d] = cur_span[d] /\ valid_span'[d] = valid_span[d]
      /\ Top(new) = 0 => cur_span'[c].pid = q /\ valid_span'[c] = TRUE
      /\ Top(new) # 0 => cur_span'[c] = cur_span[c] /\ valid_span'[c] = valid_span[c]
  <2>1. CASE Top(new) = 0
    BY <1>1, <1>6, <1>7, <2>1 DEF WaitType
  <2>2. CASE Top(new) # 0
    BY <1>1, <1>6, <2>2 DEF WaitType
  <2> QED
    BY <2>1, <2>2
<1>9. WaitType'
  BY <1>1, <1>2, <1>3, <1>5, <1>6, <1>8 DEF WaitType
<1>10. /\ \A d \in CPU \ {c} : cpu_stack'[d] = cpu_stack[d]
       /\ p = q => UNCHANGED perpidstate /\ new.eventnum = cpu_stack[c].eventnum
       /\ p # q => /\ new = IF perpidstate[q] = NoState THEN BrandNewPid(q) ELSE perpidstate[q]
                   /\ \A r \in Pid : (r # p \/ r = Idle) =>
                         \/ perpidstate'[r] = perpidstate[r]
                         \/ r = q /\ perpidstate'[r] = BrandNewPid(r)
  BY <1>1, <1>2, <1>3, SwitchEdits DEF Owner
<1>11. TOS(new) = Sched => Top(new) # 0
  <2>1. Nested(new.eventnum)
    BY <1>1 DEF IInv, StacksNest
  <2>2. TOS(new) = Sched => 1 < Len(new.eventnum)
    BY <2>1, TopFacts, LevelFacts DEF TOS
  <2>3. Len(new.eventnum) \in 1 .. 5
    BY <2>1, TopFacts
  <2>4. Top(new) = Len(new.eventnum) - 1
    BY DEF Top
  <2>5. ASSUME TOS(new) = Sched PROVE Top(new) # 0
    <3>1. \A n \in 1 .. 5 : 1 < n => n - 1 # 0
      OBVIOUS
    <3>2. 1 < Len(new.eventnum)
      BY <2>2, <2>5
    <3>3. Len(new.eventnum) - 1 # 0
      BY <2>3, <3>1, <3>2
    <3> QED
      BY <2>4, <3>3
  <2> QED
    BY <2>5
<1>12. c \in switched => TOS(new) = Sched
  <2>1. SchedAt(c)' /\ ~mix'.intr
    BY <1>1, KernelSame DEF SInv, SchedTrue, Converts, Reading, Orderly
  <2> QED
    BY <1>1, <1>2, <1>4, <2>1 DEF SchedAt, MovesTrue
<1>13. Owner(c)' = q
  BY <1>1, <1>2, <1>4 DEF RInv, OwnersTrue, Converts, Reading
<1>14. ASSUME q \in fresh
       PROVE  TOS(new) = Sched /\ Settling(c)'
  <2>1. q # Idle /\ q \in Proc
    BY <1>1, <1>14 DEF KType, Proc
  <2>2. \A d \in CPU : Owner(d) # q
    BY <1>1, <1>4, <2>1 DEF OwnersTrue
  <2>3. perpidstate[q] = NoState /\ p # q
    BY <1>1, <1>14, <2>2 DEF FreshTrue
  <2>4. new = BrandNewPid(q)
    BY <1>10, <2>3
  <2>5. ctx_switch_ts'[c] = now
    BY <1>1, <1>6 DEF WaitType
  <2>6. Top(new) = 1 /\ TOS(new) = Sched /\ new.ambiguous = 0
    BY <2>4 DEF BrandNewPid, Top, TOS
  <2> QED
    BY <1>3, <2>5, <2>6 DEF Settling
<1>15. ASSUME Away(c)
       PROVE  /\ leaving[c] = cur_span[c].pid /\ (c \in switched \/ q \in fresh)
              /\ TOS(new) = Sched /\ left[cur_span[c].pid] <= now
  <2>1. AwayTrue(c)
    BY <1>1, <1>15 DEF CpuTrue
  <2>2. leaving[c] = cur_span[c].pid /\ (c \in switched \/ q \in fresh)
    BY <1>4, <2>1 DEF AwayTrue
  <2>3. cur_span[c].pid \in Proc
    BY <1>15 DEF Away, Shows
  <2> QED
    BY <1>1, <1>12, <1>14, <2>2, <2>3 DEF MovesTrue
<1>16. Top(new) = 0 => ~Away(c) /\ c \notin switched /\ q \notin fresh
  BY <1>11, <1>12, <1>14, <1>15
<1>17. ~Converts(c, {"ctx"})' /\ ~Calls(c)' /\ ~Converts(c, {"call"})' /\ ~Converts(c, {"ret"})'
  BY DEF Converts, Calls, Reading
<1>18. \A r \in Proc : /\ Shows(c, r) => Shows(c, r)'
                       /\ Top(new) # 0 => (Shows(c, r)' <=> Shows(c, r))
                       /\ Top(new) = 0 => (Shows(c, r)' <=> r = q)
  BY <1>8, <1>16 DEF Shows, Away
<1>19. CpuTrue(c)'
  <2>1. Away(c)' => AwayTrue(c)'
    <3> SUFFICES ASSUME NEW r \in Proc, r # q, Shows(c, r)'
                 PROVE  AwayTrue(c)'
      BY <1>2 DEF Away
    <3>1. Top(new) # 0 /\ Shows(c, r)
      BY <1>18
    <3>2. Away(c) /\ cur_span'[c] = cur_span[c]
      BY <1>8, <3>1 DEF Away
    <3>3. ctx_switch_ts'[c] = now
      BY <1>1, <1>6 DEF WaitType
    <3> QED
      BY <1>2, <1>15, <1>17, <3>2, <3>3 DEF AwayTrue
  <2>2. ASSUME q # Idle, came[q] # 0 PROVE Shows(c, q)' /\ q \in pidRunning
    <3>1. Shows(c, q) /\ q \in pidRunning
      BY <1>1, <1>4, <2>2 DEF CpuTrue, CameTrue
    <3> QED
      BY <1>2, <1>18, <2>2, <3>1 DEF Proc
  <2>3. q # Idle /\ came[q] # 0 => CameTrue(c)'
    BY <1>2, <1>6, <2>2 DEF CameTrue
  <2>4. oldpid'[c] # Idle => OldTrue(c)'
    <3>1. oldpid'[c] = p
      BY <1>1, <1>6 DEF WaitType
    <3>2. p # Idle => leaving[c] = p
      BY <1>1, <1>4 DEF CpuTrue
    <3> QED
      BY <1>2, <1>17, <3>1, <3>2 DEF OldTrue
  <2>5. ASSUME NEW r \in Proc, Shows(c, r)', 0 < left[r] PROVE r \in pidRunning
    <3>1. CASE Top(new) # 0
      BY <1>1, <1>18, <2>5, <3>1 DEF CpuTrue
    <3>2. CASE Top(new) = 0
      <4>1. r = q /\ c \notin switched
        BY <1>16, <1>18, <2>5, <3>2
      <4>2. came[q] # 0 /\ q # Idle
        BY <1>1, <2>5, <4>1 DEF MovesTrue, Proc
      <4> QED
        BY <2>2, <4>1, <4>2
    <3> QED
      BY <3>1, <3>2
  <2>6. ~valid_span'[c] => cur_span'[c].pid = Idle
    BY <1>1, <1>8 DEF CpuTrue
  <2>7. newpid'[c] = q
    BY <1>1, <1>6 DEF WaitType
  <2> QED
    BY <1>2, <1>6, <1>12, <1>14, <1>17, <2>1, <2>3, <2>4, <2>5, <2>6, <2>7 DEF CpuTrue
<1>20. EndsTrue' /\ \A w \in waits' : WaitTrue(w)'
  <2>1. \A d \in CPU, r \in Proc : Shows(d, r) => Shows(d, r)'
    BY <1>8, <1>18 DEF Shows
  <2> QED
    BY <1>2, <1>6, <2>1 DEF WInv, EndsTrue, WaitTrue
<1>21. FreshTrue'
  <2> SUFFICES ASSUME NEW r \in fresh, \A d \in CPU : Owner(d)' # r
               PROVE  perpidstate'[r] = NoState
    BY <1>2 DEF FreshTrue
  <2>1. r \in Pid /\ r # Idle /\ r # q
    BY <1>1, <1>13 DEF KType, Proc
  <2>2. r # p
    BY <1>1, <1>4, <2>1 DEF CpuTrue
  <2>3. \A d \in CPU : Owner(d) # r
    BY <1>10, <2>2 DEF Owner
  <2>4. perpidstate[r] = NoState
    BY <1>1, <2>3 DEF FreshTrue
  <2> QED
    BY <1>10, <2>1, <2>2, <2>4
<1>22. OnlyConv(c) /\ Drops(c)
  BY <1>1, <1>6, <1>8, <1>10 DEF OnlyConv, Drops, WaitType
<1>23. Goes
  BY DEF Goes
<1> QED
  BY <1>1, <1>4, <1>9, <1>19, <1>20, <1>21, <1>22, <1>23, ConvertWaits

LEMMA ProcessKeepsWaits ==
    ASSUME RInv, IInv, Orderly, SInv, WInv, UNCHANGED kvars, ProcessEvent,
           IInv', RInv', SInv'
    PROVE  WInv'
<1> DEFINE c == event.cpu
<1>1. ~Reading /\ Settled /\ c \in CPU /\ Goes /\ UNCHANGED span_start_time
  BY EventEdits
<1>2. CASE /\ event.kind = "call" /\ ProcessCall(event)
           /\ \E st : Pushes(c, st, event)
  BY <1>1, <1>2, EventCallKeepsWaits
<1>3. CASE /\ event.kind = "ret" /\ ProcessReturn(event)
           /\ \E st : /\ Pops(c, st)
                      /\ cur_span' = [cur_span EXCEPT ![c] = StartSpan(event, TOS(st))]
  BY <1>1, <1>3, EventReturnKeepsWaits
<1>4. CASE event.kind = "ctx" /\ ProcessContextSwitch(event) /\ event' = NoEvent
  BY <1>1, <1>4, EventSwitchKeepsWaits
<1>5. CASE /\ event.kind \in {"rpc", "mark", "mwait", "mwait_exit"}
           /\ ProcessSplit(event) /\ event' = NoEvent
           /\ \E st : Settles(c, st, event)
  BY <1>1, <1>5, EventSplitKeepsWaits
<1>6. CASE /\ event.kind \in {"sample", "wakeup", "ipi", "monitor_store", "other"}
           /\ ProcessPoint(event) /\ event' = NoEvent
           /\ \E st : Settles(c, st, event)
  BY <1>1, <1>6, EventPointKeepsWaits
<1> QED
  BY <1>2, <1>3, <1>4, <1>5, <1>6, EventEdits

LEMMA ConvertKeepsWaits ==
    ASSUME RInv, IInv, Orderly, SInv, WInv, UNCHANGED kvars, Convert, IInv', RInv', SInv'
    PROVE  WInv'
<1>1. CASE FixupReturnPop
  BY <1>1, ReturnPopKeepsWaits
<1>2. CASE FixupReturnCall
  BY <1>2, ReturnCallKeepsWaits
<1>3. CASE FixupResched
  BY <1>3, ReschedKeepsWaits
<1>4. CASE FixupSched
  BY <1>4, SchedFixupKeepsWaits
<1>5. CASE FixupCall
  BY <1>5, CallFixupKeepsWaits
<1>6. CASE FixupCexit
  BY <1>6, CexitKeepsWaits
<1>7. CASE ProcessEvent
  BY <1>7, ProcessKeepsWaits
<1> QED
  BY <1>1, <1>2, <1>3, <1>4, <1>5, <1>6, <1>7 DEF Convert

(***************************************************************************)
(* Waits: the theorem                                                      *)
(***************************************************************************)

LEMMA KInitWaits ==
    ASSUME KInit
    PROVE  WInv
<1>1. /\ event = NoEvent /\ span_start_time = 0 /\ waits = {} /\ now = 0
      /\ switched = {} /\ leaving = [c \in CPU |-> Idle]
      /\ left = [p \in Proc |-> 0] /\ came = [p \in Proc |-> 0]
      /\ cur_span = [c \in CPU |-> [start |-> 0, eventnum |-> Idle, pid |-> Idle]]
      /\ valid_span = [c \in CPU |-> FALSE] /\ ctx_switch_ts = [c \in CPU |-> 0]
      /\ mwait_pending = [c \in CPU |-> -1]
      /\ oldpid = [c \in CPU |-> Idle] /\ newpid = [c \in CPU |-> Idle]
      /\ priorPidEnd = [p \in Pid |-> 0] /\ heard = [c \in CPU |-> "nothing"]
      /\ cpu_stack = [c \in CPU |-> IdleStack]
      /\ perpidstate = [p \in Pid |-> IF p = Idle THEN BrandNewPid(Idle) ELSE NoState]
  BY DEF KInit, Init
<1>2. KType /\ \A c \in CPU : on[c] \notin fresh
  <2>1. KType
    BY KInitRInv DEF RInv
  <2> QED
    BY <2>1 DEF KInit
<1>3. LeftType /\ WaitType
  BY <1>1, CallAssumption DEF LeftType, WaitType, OpenSpan
<1>4. MovesTrue
  BY <1>1, <1>2 DEF MovesTrue, KType
<1>5. ASSUME NEW c \in CPU PROVE CpuTrue(c)
  <2>1. /\ ~valid_span[c] /\ cur_span[c].pid = Idle /\ oldpid[c] = Idle /\ c \notin switched
        /\ ~Announced(c) /\ Owner(c) = Idle
    BY <1>1 DEF Announced, Owner, IdleStack
  <2>2. ~Away(c) /\ \A p \in Proc : ~Shows(c, p) /\ came[p] = 0
    BY <1>1, <2>1 DEF Away, Shows
  <2>3. on[c] # Idle => on[c] \in Proc
    BY <1>2 DEF KType, Proc
  <2> QED
    BY <1>2, <2>1, <2>2, <2>3 DEF CpuTrue
<1>6. FreshTrue /\ EndsTrue /\ EventFits
  BY <1>1, <1>2 DEF FreshTrue, EndsTrue, EventFits, Reading, KType, Proc
<1> QED
  BY <1>1, <1>3, <1>4, <1>5, <1>6 DEF WInv

LEMMA StutterKeepsWaits ==
    ASSUME WInv, UNCHANGED allvars
    PROVE  WInv'
<1>1. UNCHANGED <<vars, kvars>>
  BY DEF allvars
<1>2. /\ UNCHANGED <<event, span_start_time, cpu_stack, perpidstate, cur_span, valid_span,
                     ctx_switch_ts, mwait_pending, oldpid, newpid, pidRunning, priorPidEnd, waits>>
      /\ UNCHANGED <<now, on, fresh, switched, leaving, left, came>>
  BY <1>1 DEF vars, convvars, cpuvars, switchvars, outvars, kvars
<1>3. \A d : TopCall(d)' = TopCall(d) /\ (Announced(d)' <=> Announced(d))
  BY <1>1, KernelSame
<1>4. LeftType' /\ MovesTrue' /\ WaitType' /\ EventFits'
  BY <1>2, <1>3 DEF WInv, LeftType, MovesTrue, WaitType, EventFits, Reading
<1>5. FreshTrue' /\ EndsTrue' /\ \A w \in waits' : WaitTrue(w)'
  BY <1>2 DEF WInv, FreshTrue, EndsTrue, WaitTrue, Owner, Shows
<1>6. ASSUME NEW d \in CPU PROVE CpuTrue(d)'
  <2>1. /\ Owner(d)' = Owner(d)
        /\ \A K : Converts(d, K)' <=> Converts(d, K)
        /\ \A e, p : Shows(e, p)' <=> Shows(e, p)
        /\ Settling(d)' <=> Settling(d)
    BY <1>2 DEF Owner, Converts, Reading, Shows, Settling
  <2>2. /\ Away(d)' <=> Away(d)
        /\ Calls(d)' <=> Calls(d)
        /\ SchedReturns(d)' <=> SchedReturns(d)
    BY <1>2, <2>1 DEF Away, Calls, SchedReturns
  <2>3. /\ AwayTrue(d)' <=> AwayTrue(d)
        /\ CameTrue(d)' <=> CameTrue(d)
        /\ OldTrue(d)' <=> OldTrue(d)
    BY <1>2, <1>3, <2>1, <2>2 DEF AwayTrue, CameTrue, OldTrue
  <2> QED
    BY <1>2, <1>3, <2>1, <2>2, <2>3 DEF WInv, CpuTrue
<1> QED
  BY <1>4, <1>5, <1>6 DEF WInv

LEMMA NextKeepsOrderly ==
    ASSUME RInv, IInv, CalmInv, OrderlyInv, [Next]_allvars, RInv', IInv', CalmInv'
    PROVE  OrderlyInv'
<1>1. mix' = mix
  <2>1. CASE UNCHANGED allvars
    BY <2>1 DEF allvars, kvars
  <2>2. CASE Kernel
    <3>1. PICK c \in CPU : KernelStep(c)
      BY <2>2, KernelSteps DEF RInv
    <3> QED
      BY <3>1, KernelReads DEF RInv, Hands
  <2>3. CASE Convert /\ UNCHANGED kvars
    BY <2>3 DEF kvars
  <2> QED
    BY <2>1, <2>2, <2>3 DEF Next
<1>2. SUFFICES ASSUME Orderly PROVE WInv'
  BY <1>1 DEF OrderlyInv, Orderly
<1>3. WInv /\ SInv /\ SInv'
  BY <1>1, <1>2 DEF OrderlyInv, CalmInv, Orderly
<1>4. CASE UNCHANGED allvars
  BY <1>3, <1>4, StutterKeepsWaits
<1>5. CASE Kernel
  <2>1. PICK c \in CPU : KernelStep(c)
    BY <1>5, KernelSteps DEF RInv
  <2> QED
    BY <1>2, <1>3, <2>1, KernelKeepsWaits
<1>6. CASE Convert /\ UNCHANGED kvars
  BY <1>2, <1>3, <1>6, ConvertKeepsWaits
<1> QED
  BY <1>4, <1>5, <1>6 DEF Next

(* No process is shown waiting while it runs, on any number of CPUs and    *)
(* for any processes, as long as every return from the scheduler follows a *)
(* switch and no process is switched to before the CPU that it left is     *)
(* done with it: the wait that EndSpan or a wakeup draws begins after the  *)
(* process was last switched out, and ends no later than it came again.    *)
THEOREM WaitsTrueHolds == Spec => []WaitsTrueIfSwitched
<1>1. KInit => CalmInv /\ OrderlyInv
  BY KInitSInv, KInitTInv, KInitWaits DEF CalmInv, OrderlyInv
<1>2. /\ IInv /\ RInv /\ CalmInv /\ OrderlyInv /\ [Next]_allvars /\ IInv' /\ RInv'
      => CalmInv' /\ OrderlyInv'
  BY NextKeepsCalm, NextKeepsOrderly
<1>3. OrderlyInv => WaitsTrueIfSwitched
  BY DEF OrderlyInv, Orderly, WInv, WaitTrue, WaitsTrueIfSwitched, WaitsTrue
<1> QED
  BY <1>1, <1>2, <1>3, KernelInv, PTL DEF Spec
=============================================================================
