----------------------------- MODULE EventToSpan -----------------------------
(***************************************************************************)
(* The converter postproc/eventtospan3.cc: it reads the events of all CPUs *)
(* in time order and writes the spans of time in which each CPU executed   *)
(* one thing, keeping for each CPU the stack of calls it believes to be in *)
(* progress and, for each process that is switched out, the stack to go    *)
(* back to.                                                                *)
(*                                                                         *)
(* The fix-ups of PreProcessEvent that insert missing calls and returns    *)
(* are steps of their own, taken before the event itself is processed;     *)
(* what they insert goes through the same ProcessEvent.  Names, values,    *)
(* IPC and the text of the output are left out, and so are the spans of    *)
(* locks, queues and messages, which share no state with the ones here.    *)
(* Left out too are the limit of eight seconds on a plausible span, the    *)
(* rounding for clocks of low resolution, and the decision not to print an *)
(* idle span of at most one unit: a span counts as shown when it is closed.*)
(***************************************************************************)
EXTENDS Integers, Sequences, FiniteSets

CONSTANTS
    CPU,                    \* the CPUs of the trace
    Pid, Idle,              \* processes, the idle task among them
    Syscalls, Traps, Irqs,  \* numbers of calls, by how they nest
    Sched,                  \* the call of the scheduler
    Resched, BHhi,          \* reschedule_ipi and BH:hi, two interrupts
    Clone,                  \* a system call that returns a new process
    Wakers,                 \* calls that FindWaitReason knows a reason for
    Rpcs,                   \* RPC numbers, 0 for none
    MinCexit, MinWait       \* the shortest c-exit and wait span written

Call == Syscalls \cup Traps \cup Irqs \cup {Sched}

ASSUME CallAssumption ==
    /\ Idle \in Pid
    /\ Pid \cap Call = {}
    /\ Sched \notin Syscalls \cup Traps \cup Irqs
    /\ Syscalls \cap (Traps \cup Irqs) = {} /\ Traps \cap Irqs = {}
    /\ {Resched, BHhi} \subseteq Irqs /\ Clone \in Syscalls
    /\ 0 \in Rpcs

(* The name of a made-up span is that of no process and no call.           *)
ASSUME NameAssumption == "cexit" \notin Pid \cup Call

ASSUME LengthAssumption == MinCexit \in Nat \ {0} /\ MinWait \in Nat \ {0}

VARIABLES
    event,           \* the event being converted, or NoEvent
    span_start_time, \* start of the current span when the event was read
    cpu_stack,       \* per CPU: the PidState of what runs there
    cur_span,        \* per CPU: start, eventnum and pid of the open span
    valid_span,      \* per CPU: there is an open span
    ctx_switch_ts,   \* per CPU: time of a context switch since sched, or 0
    mwait_pending,   \* per CPU: exit latency after an mwait, or -1
    oldpid, newpid,  \* per CPU: processes of the last context switch
    perpidstate,     \* PidState of the processes that were switched out
    pidRunning,      \* processes switched to and not yet away
    priorPidEvent,   \* processes seen
    priorPidEnd,     \* per process: end of its last span or wakeup, or 0
    pendingWakeup,   \* per process: time of a wakeup not yet drawn, or 0
    pendingIPI,      \* per CPU: time of an IPI not yet drawn, or 0
    pendingWait,     \* CPUs with a wait reason left by a monitor-store
    shown,           \* history: execution spans closed for this event
    waits            \* history: wait spans written for this event

cpuvars == <<cpu_stack, cur_span, valid_span>>
switchvars == <<oldpid, newpid, perpidstate>>
pendingvars == <<pendingWakeup, pendingIPI, pendingWait>>
outvars == <<shown, waits>>
convvars == <<cpuvars, switchvars, pendingvars, ctx_switch_ts, mwait_pending,
              pidRunning, priorPidEvent, priorPidEnd>>
vars == <<event, span_start_time, convvars, outvars>>

-----------------------------------------------------------------------------
(* Events: kind, number of the call and argument, CPU, process, start and  *)
(* duration.  A call with a duration includes its return.                  *)

NoEvent == [kind |-> "none"]

Points == {"rpc", "mark", "mwait", "mwait_exit", "sample", "wakeup", "ipi",
           "monitor_store", "other"}

Event ==
    [kind : {"call", "ret"}, num : Call, arg : Pid, cpu : CPU, pid : Pid,
     ts : Nat, dur : Nat]
    \cup
    [kind : {"ctx"} \cup Points, num : Pid, arg : Pid \cup CPU \cup Rpcs \cup Nat,
     cpu : CPU, pid : Pid, ts : Nat, dur : Nat]

IsACall(e) == e.kind = "call"
IsAReturn(e) == e.kind = "ret"
IsOptimizedCall(e) == IsACall(e) /\ 0 < e.dur
IsSchedCallEvent(e) == IsACall(e) /\ e.num = Sched
IsSchedReturnEvent(e) == IsAReturn(e) /\ e.num = Sched

OnlyInKernelMode(e) ==
    \/ e.kind \in {"ret", "ctx", "wakeup", "ipi", "sample"}
    \/ IsSchedCallEvent(e)

OnlyInUserMode(e) ==
    \/ e.kind \in {"mark", "mwait", "mwait_exit"}
    \/ IsACall(e) /\ e.num \in Syscalls

(* user:0, syscall:1, trap:2, IRQ:3, sched:4                               *)
NestLevel(x) ==
    IF x \in Pid THEN 0
    ELSE IF x = Sched THEN 4
    ELSE IF x \in Irqs THEN 3
    ELSE IF x \in Traps THEN 2 ELSE 1

-----------------------------------------------------------------------------
(* PidState: eventnum[1] is the process, above it calls in progress; the   *)
(* code counts from 0, and so do top and ambiguous.                        *)

Top(st) == Len(st.eventnum) - 1
TOS(st) == st.eventnum[Len(st.eventnum)]

IdleStack == [eventnum |-> <<Idle>>, ambiguous |-> 0, rpcid |-> 0]
BrandNewPid(p) == [eventnum |-> <<p, Sched>>, ambiguous |-> 0, rpcid |-> 0]
NoState == [eventnum |-> <<>>, ambiguous |-> 0, rpcid |-> 0]

MaxOf(S) == CHOOSE i \in S : \A j \in S : j <= i

(* Dummy pops while the call on top is one that Bad holds of, down to low. *)
PopWhile(s, low, Bad(_)) ==
    IF ~Bad(s[Len(s)]) THEN s
    ELSE SubSeq(s, 1, MaxOf({low} \cup {i \in low .. Len(s) : ~Bad(s[i])}))

AdjustStackForPush(s, x) == PopWhile(s, 1, LAMBDA y : NestLevel(x) <= NestLevel(y))

AdjustStackForPop(s, x) ==
    PopWhile(IF Len(s) = 1 THEN Append(s, Sched) ELSE s, 2,
             LAMBDA y : NestLevel(x) < NestLevel(y))

Ambiguous(st) == st.ambiguous # 0 /\ Top(st) <= st.ambiguous

(* FixupAmbiguousSpan: a process that came back into a call may be there   *)
(* or back in user mode; the event e may tell.                             *)
Resolve(st, e) ==
    IF ~Ambiguous(st) THEN st
    ELSE IF OnlyInKernelMode(e) THEN [st EXCEPT !.ambiguous = 0]
    ELSE IF OnlyInUserMode(e)
         THEN [eventnum |-> <<st.eventnum[1]>>, ambiguous |-> 0, rpcid |-> st.rpcid]
    ELSE st

Labelled(c, e) ==
    IF Ambiguous(cpu_stack[c]) /\ ~OnlyInKernelMode(e) /\ OnlyInUserMode(e)
    THEN [cur_span[c] EXCEPT !.eventnum = cpu_stack[c].eventnum[1]]
    ELSE cur_span[c]

-----------------------------------------------------------------------------
(* Spans                                                                   *)

(* FinishSpan: a span that would end before it starts is made one unit.    *)
StopOf(span, ts) == IF ts < span.start THEN span.start + 1 ELSE ts

Closed(span, ts) ==
    [start |-> span.start, stop |-> StopOf(span, ts), eventnum |-> span.eventnum]

StartSpan(e, x) == [start |-> e.ts, eventnum |-> x, pid |-> e.pid]

FinishSpan(c, span, ts) ==
    IF valid_span[c]
    THEN [out |-> <<Closed(span, ts)>>,
          end |-> IF span.pid = Idle THEN priorPidEnd
                  ELSE [priorPidEnd EXCEPT ![span.pid] = StopOf(span, ts)]]
    ELSE [out |-> <<>>, end |-> priorPidEnd]

(* MakeWaitSpan, and the test that the wait is worth drawing; one that     *)
(* ends before it starts is, unsigned, too long for WriteSpanJson2.        *)
WaitSpan(p, from, to, why) ==
    IF MinWait <= to - from - 1
    THEN {[pid |-> p, start |-> from + 1, stop |-> to, why |-> why]} ELSE {}

-----------------------------------------------------------------------------
(* ProcessEvent, one operator for each kind of event                       *)

(* Mutant: the process that was switched to is not noted as running.       *)
Prologue_NotRunning(e) ==
    /\ priorPidEvent' = IF e.pid = Idle THEN priorPidEvent
                                        ELSE priorPidEvent \cup {e.pid}
    /\ pidRunning' = IF IsSchedReturnEvent(e)
                     THEN pidRunning \ {oldpid[e.cpu]} ELSE pidRunning

(* What it does first whatever the kind.                                   *)
Prologue(e) ==
    LET c == e.cpu IN
    /\ priorPidEvent' = IF e.pid = Idle THEN priorPidEvent
                                        ELSE priorPidEvent \cup {e.pid}
    /\ pidRunning' = IF IsSchedReturnEvent(e)
                     THEN (pidRunning \ {oldpid[c]}) \cup {newpid[c]}
                     ELSE pidRunning

SetSchedTs(e) ==
    ctx_switch_ts' = IF IsSchedCallEvent(e) \/ IsSchedReturnEvent(e)
                     THEN [ctx_switch_ts EXCEPT ![e.cpu] = 0]
                     ELSE ctx_switch_ts

(* An event that ends a span: the open span is closed, arcs and the wait   *)
(* for a CPU that lead here are drawn.                                     *)
EndSpan(e, more) ==
    LET c == e.cpu
        done == FinishSpan(c, Labelled(c, e), e.ts)
    IN  /\ shown' = shown \o done.out \o more
        /\ pendingWakeup' = [pendingWakeup EXCEPT ![e.pid] = 0]
        /\ pendingIPI' = [pendingIPI EXCEPT ![c] = 0]
        /\ IF done.end[e.pid] = 0
           THEN UNCHANGED waits /\ priorPidEnd' = done.end
           ELSE /\ waits' = waits \cup WaitSpan(e.pid, done.end[e.pid], e.ts, "cpu")
                /\ priorPidEnd' = [done.end EXCEPT ![e.pid] = e.ts + e.dur]
        /\ valid_span' = [valid_span EXCEPT ![c] = TRUE]
        /\ UNCHANGED pendingWait

(* Mutant: the duration of the event is forgotten.                         *)
ContinueSpan_NoDuration(e) ==
    cur_span' = [cur_span EXCEPT ![e.cpu] = [Labelled(e.cpu, e) EXCEPT !.start = e.ts]]

(* Go on with the span there was, from the end of the event.               *)
ContinueSpan(e) ==
    cur_span' = [cur_span EXCEPT ![e.cpu] =
                    [Labelled(e.cpu, e) EXCEPT !.start = e.ts + e.dur]]

ProcessCall(e) ==
    LET c == e.cpu
        st == Resolve(cpu_stack[c], e)
        s == AdjustStackForPush(st.eventnum, e.num)
    IN  /\ Prologue(e)
        /\ SetSchedTs(e)
        /\ IF IsOptimizedCall(e)
           THEN /\ EndSpan(e, <<[start |-> e.ts, stop |-> e.ts + e.dur,
                                 eventnum |-> e.num]>>)
                /\ ContinueSpan(e)
                /\ cpu_stack' = [cpu_stack EXCEPT ![c] =
                                    [st EXCEPT !.eventnum = s]]
           ELSE /\ EndSpan(e, <<>>)
                /\ cur_span' = [cur_span EXCEPT ![c] = StartSpan(e, e.num)]
                /\ cpu_stack' = [cpu_stack EXCEPT ![c] =
                                    [st EXCEPT !.eventnum = Append(s, e.num)]]
        /\ UNCHANGED <<switchvars, mwait_pending>>

ProcessReturn(e) ==
    LET c == e.cpu
        st == Resolve(cpu_stack[c], e)
        s == AdjustStackForPop(st.eventnum, e.num)
        rest == SubSeq(s, 1, Len(s) - 1)
    IN  /\ Prologue(e)
        /\ SetSchedTs(e)
        /\ EndSpan(e, <<>>)
        /\ cpu_stack' = [cpu_stack EXCEPT ![c] = [st EXCEPT !.eventnum = rest]]
        /\ cur_span' = [cur_span EXCEPT ![c] = StartSpan(e, rest[Len(rest)])]
        /\ UNCHANGED <<switchvars, mwait_pending>>

(* c-exit and other made-up spans                                          *)
ProcessCexit(e) ==
    /\ Prologue(e)
    /\ EndSpan(e, <<[start |-> e.ts, stop |-> e.ts + e.dur, eventnum |-> "cexit"]>>)
    /\ ContinueSpan(e)
    /\ cpu_stack' = [cpu_stack EXCEPT ![e.cpu] = Resolve(@, e)]
    /\ UNCHANGED <<switchvars, ctx_switch_ts>>

(* An mwait leaves its exit latency for the next event.                    *)
MwaitPending(e) ==
    IF e.kind = "mwait" THEN e.arg
    ELSE IF e.kind = "mwait_exit" THEN -1 ELSE mwait_pending[e.cpu]

(* RPC events, marks, mwait and its exit split the open span.              *)
ProcessSplit(e) ==
    LET c == e.cpu
        done == FinishSpan(c, Labelled(c, e), e.ts)
        st == Resolve(cpu_stack[c], e)
    IN  /\ Prologue(e)
        /\ shown' = shown \o done.out
                 \o <<[start |-> e.ts, stop |-> e.ts + e.dur, eventnum |-> e.kind]>>
        /\ priorPidEnd' = done.end
        /\ ContinueSpan(e)
        /\ cpu_stack' = [cpu_stack EXCEPT ![c] =
              IF e.kind = "rpc" THEN [st EXCEPT !.rpcid = e.arg] ELSE st]
        /\ mwait_pending' = [mwait_pending EXCEPT ![c] = MwaitPending(e)]
        /\ UNCHANGED <<switchvars, pendingvars, ctx_switch_ts, valid_span, waits>>

(* Context switch: the stack of the old process, marked ambiguous if it is *)
(* inside a call, gives way to that of the new one.                        *)
MarkAmbiguous(st) ==
    [st EXCEPT !.ambiguous = IF 2 <= Top(st) THEN Top(st) - 1 ELSE 0]

(* Mutant: the new process is written over the top entry of the stack.     *)
SwapStacks_Top(st, p) ==
    LET new == IF perpidstate[p] = NoState THEN BrandNewPid(p) ELSE perpidstate[p]
    IN  IF st.eventnum[1] = p THEN st
        ELSE [new EXCEPT !.eventnum[Len(new.eventnum)] = p]

(* Mutant: the stack of the new process is always a new one.               *)
SwapStacks_New(st, p) == IF st.eventnum[1] = p THEN st ELSE BrandNewPid(p)

(* Mutant: the RPC stays with the CPU.                                     *)
SwapStacks_Rpc(st, p) ==
    IF st.eventnum[1] = p THEN st
    ELSE [(IF perpidstate[p] = NoState THEN BrandNewPid(p) ELSE perpidstate[p])
             EXCEPT !.rpcid = st.rpcid]

SwapStacks(st, p) ==
    IF st.eventnum[1] = p THEN st
    ELSE IF perpidstate[p] = NoState THEN BrandNewPid(p) ELSE perpidstate[p]

ProcessContextSwitch(e) ==
    LET c == e.cpu
        old == MarkAmbiguous(cpu_stack[c])
        p == old.eventnum[1]
        new == SwapStacks(old, e.pid)
    IN  /\ Prologue(e)
        /\ ctx_switch_ts' = [ctx_switch_ts EXCEPT ![c] = e.ts]
        /\ oldpid' = [oldpid EXCEPT ![c] = p]
        /\ newpid' = [newpid EXCEPT ![c] = e.pid]
        /\ perpidstate' = [q \in Pid |->
              IF p = e.pid THEN perpidstate[q]
              ELSE IF q = p /\ p # Idle THEN old
              ELSE IF q = e.pid /\ perpidstate[q] = NoState THEN BrandNewPid(q)
              ELSE perpidstate[q]]
        /\ cpu_stack' = [cpu_stack EXCEPT ![c] = new]
        /\ IF Top(new) = 0
           THEN /\ cur_span' = [cur_span EXCEPT ![c] = StartSpan(e, e.pid)]
                /\ valid_span' = [valid_span EXCEPT ![c] = TRUE]
           ELSE UNCHANGED <<cur_span, valid_span>>
        /\ UNCHANGED <<pendingvars, mwait_pending, priorPidEnd, outvars>>

(* Events that leave the open span alone: PC samples and clock rates, and  *)
(* wakeups and IPIs, which are remembered for the arcs.                    *)
ProcessPoint(e) ==
    LET c == e.cpu
        st == Resolve(cpu_stack[c], e)
        why == TOS(st) \in Wakers
    IN  /\ Prologue(e)
        /\ cpu_stack' = [cpu_stack EXCEPT ![c] = st]
        /\ cur_span' = [cur_span EXCEPT ![c] = Labelled(c, e)]
        /\ IF e.kind = "wakeup"
           THEN /\ waits' = IF /\ e.arg \in priorPidEvent' \ pidRunning
                               /\ why \/ c \in pendingWait
                            THEN waits \cup WaitSpan(e.arg, priorPidEnd[e.arg], e.ts, "reason")
                            ELSE waits
                /\ pendingWakeup' = [pendingWakeup EXCEPT ![e.arg] = e.ts]
                /\ priorPidEnd' = [priorPidEnd EXCEPT ![e.arg] = e.ts + e.dur]
           ELSE UNCHANGED <<waits, pendingWakeup, priorPidEnd>>
        /\ IF e.kind \in {"ipi", "monitor_store"}
           THEN pendingIPI' = [pendingIPI EXCEPT ![e.arg] = e.ts]
           ELSE UNCHANGED pendingIPI
        /\ pendingWait' =
              IF e.kind # "monitor_store" THEN pendingWait
              ELSE IF why THEN pendingWait \cup {e.arg}
              ELSE pendingWait \ {e.arg}
        /\ UNCHANGED <<switchvars, valid_span, ctx_switch_ts, mwait_pending, shown>>

-----------------------------------------------------------------------------
(* PreProcessEvent                                                         *)

Stack == cpu_stack[event.cpu]

(* The return matches the call on top.                                     *)
Matches(e) ==
    \/ TOS(Stack) = e.num
    \/ TOS(Stack) = Resched /\ e.num = BHhi

CallFound(e) == \E i \in 2 .. Len(Stack.eventnum) : Stack.eventnum[i] = e.num

(* InsertReturnAt: a return from the call on top                           *)
ReturnAt(ts) == [event EXCEPT !.kind = "ret", !.num = TOS(Stack),
                              !.arg = Idle, !.ts = ts, !.dur = 0]

Reading == event = NoEvent

(* FixupReturn: pop to the call this event returns from, or                *)
FixupReturnPop ==
    /\ ~Reading /\ IsAReturn(event) /\ ~Matches(event)
    /\ \/ CallFound(event) /\ ProcessReturn(ReturnAt(event.ts))
       \/ /\ ~CallFound(event)
          /\ NestLevel(event.num) <= NestLevel(TOS(Stack))
          /\ ProcessReturn(ReturnAt(span_start_time))
    /\ UNCHANGED <<event, span_start_time>>

(* Mutant: the call is inserted where it returns.                          *)
FixupReturnCall_Now ==
    /\ ~Reading /\ IsAReturn(event) /\ ~Matches(event) /\ ~CallFound(event)
    /\ NestLevel(TOS(Stack)) < NestLevel(event.num)
    /\ ProcessCall([event EXCEPT !.kind = "call", !.arg = Idle, !.dur = 0])
    /\ UNCHANGED <<event, span_start_time>>

(* insert the call when it was never seen.                                 *)
FixupReturnCall ==
    /\ ~Reading /\ IsAReturn(event) /\ ~Matches(event) /\ ~CallFound(event)
    /\ NestLevel(TOS(Stack)) < NestLevel(event.num)
    /\ ProcessCall([event EXCEPT !.kind = "call", !.arg = Idle,
                                 !.ts = span_start_time, !.dur = 0])
    /\ UNCHANGED <<event, span_start_time>>

(* FixupResched: a call of the scheduler silently ends a reschedule_ipi.   *)
(* (The code looks for one once, before it inserts any return; a scheduler *)
(* is never left on the stack right above one, so this is the same.)       *)
NeedsResched == IsSchedCallEvent(event) /\ TOS(Stack) = Resched

FixupResched ==
    /\ ~Reading /\ NeedsResched
    /\ cpu_stack' = [cpu_stack EXCEPT ![event.cpu].eventnum =
                        SubSeq(@, 1, Len(@) - 1)]
    /\ UNCHANGED <<event, span_start_time, cur_span, valid_span, switchvars,
                   pendingvars, ctx_switch_ts, mwait_pending, pidRunning,
                   priorPidEvent, priorPidEnd, outvars>>

(* FixupSched: a call inside a scheduler that has switched: its return was *)
(* missed, put it at the switch.                                           *)
NeedsSched ==
    /\ 0 < ctx_switch_ts[event.cpu] /\ IsACall(event)
    /\ Top(Stack) = 1 /\ TOS(Stack) = Sched

FixupSched ==
    /\ ~Reading /\ ~NeedsResched /\ NeedsSched
    /\ ProcessReturn(ReturnAt(ctx_switch_ts[event.cpu]))
    /\ UNCHANGED <<event, span_start_time>>

(* FixupCall: returns until the call may nest in what is on top (mutant:   *)
(* calls of the same level may).                                           *)
NeedsPop_Strict == IsACall(event) /\ NestLevel(event.num) < NestLevel(TOS(Stack))

NeedsPop == IsACall(event) /\ NestLevel(event.num) <= NestLevel(TOS(Stack))

FixupCall ==
    /\ ~Reading /\ ~NeedsResched /\ ~NeedsSched /\ NeedsPop
    /\ ProcessReturn(ReturnAt(event.ts))
    /\ UNCHANGED <<event, span_start_time>>

Settled ==
    /\ ~Reading
    /\ ~NeedsResched /\ ~NeedsSched /\ ~NeedsPop
    /\ IsAReturn(event) => Matches(event)

Lesser(a, b) == IF a < b THEN a ELSE b

(* Mutant: the mwait stays pending.                                        *)
FixupCexit_Pending ==
    LET c == event.cpu
        latency == IF event.ts < cur_span[c].start THEN mwait_pending[c]
                   ELSE Lesser(mwait_pending[c], event.ts - cur_span[c].start)
    IN  /\ Settled /\ 0 <= mwait_pending[c]
        /\ IF Top(Stack) = 0 /\ MinCexit <= latency
           THEN ProcessCexit([event EXCEPT !.kind = "cexit",
                                 !.ts = event.ts - latency, !.dur = latency])
           ELSE UNCHANGED <<cpuvars, switchvars, pendingvars, ctx_switch_ts,
                            pidRunning, priorPidEvent, priorPidEnd, outvars>>
        /\ UNCHANGED <<event, span_start_time, mwait_pending>>

(* FixupCexit: idle after an mwait ends with the exit from the C state.    *)
FixupCexit ==
    LET c == event.cpu
        latency == IF event.ts < cur_span[c].start THEN mwait_pending[c]
                   ELSE Lesser(mwait_pending[c], event.ts - cur_span[c].start)
    IN  /\ Settled /\ 0 <= mwait_pending[c]
        /\ mwait_pending' = [mwait_pending EXCEPT ![c] = -1]
        /\ IF Top(Stack) = 0 /\ MinCexit <= latency
           THEN ProcessCexit([event EXCEPT !.kind = "cexit",
                                 !.ts = event.ts - latency, !.dur = latency])
           ELSE UNCHANGED <<cpuvars, switchvars, pendingvars, ctx_switch_ts,
                            pidRunning, priorPidEvent, priorPidEnd, outvars>>
        /\ UNCHANGED <<event, span_start_time>>

(* The event itself; after the return of a clone with a new process, or a  *)
(* whole such call, FixupRunnable inserts the wakeup the kernel leaves out.*)
NewRunnable(e) ==
    (IsAReturn(e) \/ IsOptimizedCall(e)) /\ e.num = Clone /\ e.arg # Idle

RunnableAfter(e) ==
    [kind |-> "wakeup", num |-> e.num, arg |-> e.arg, cpu |-> e.cpu, pid |-> e.pid,
     ts |-> e.ts + e.dur, dur |-> 1]

ProcessEvent ==
    /\ Settled /\ mwait_pending[event.cpu] < 0
    /\ \/ event.kind = "call" /\ ProcessCall(event)
       \/ event.kind = "ret" /\ ProcessReturn(event)
       \/ event.kind = "ctx" /\ ProcessContextSwitch(event)
       \/ event.kind \in {"rpc", "mark", "mwait", "mwait_exit"} /\ ProcessSplit(event)
       \/ /\ event.kind \in {"sample", "wakeup", "ipi", "monitor_store", "other"}
          /\ ProcessPoint(event)
    /\ event' = IF NewRunnable(event) THEN RunnableAfter(event) ELSE NoEvent
    /\ UNCHANGED span_start_time

(* PreProcessEvent, one step of it                                         *)
Convert ==
    \/ FixupReturnPop \/ FixupReturnCall \/ FixupResched \/ FixupSched
    \/ FixupCall \/ FixupCexit \/ ProcessEvent

(* The next line of the input.                                             *)
Read(e) ==
    /\ Reading
    /\ event' = e
    /\ span_start_time' = IF valid_span[e.cpu] THEN cur_span[e.cpu].start ELSE e.ts
    /\ shown' = <<>>
    /\ waits' = {}
    /\ UNCHANGED convvars

Init ==
    /\ event = NoEvent
    /\ span_start_time = 0
    /\ cpu_stack = [c \in CPU |-> IdleStack]
    /\ cur_span = [c \in CPU |-> [start |-> 0, eventnum |-> Idle, pid |-> Idle]]
    /\ valid_span = [c \in CPU |-> FALSE]
    /\ ctx_switch_ts = [c \in CPU |-> 0]
    /\ mwait_pending = [c \in CPU |-> -1]
    /\ oldpid = [c \in CPU |-> Idle]
    /\ newpid = [c \in CPU |-> Idle]
    /\ perpidstate = [p \in Pid |-> IF p = Idle THEN BrandNewPid(Idle) ELSE NoState]
    /\ pidRunning = {}
    /\ priorPidEvent = {}
    /\ priorPidEnd = [p \in Pid |-> 0]
    /\ pendingWakeup = [p \in Pid |-> 0]
    /\ pendingIPI = [c \in CPU |-> 0]
    /\ pendingWait = {}
    /\ shown = <<>>
    /\ waits = {}

(* The converter by itself: events of any kind in any order.               *)
ConvNext == (\E e \in Event : Read(e)) \/ Convert

ConvSpec == Init /\ [][ConvNext]_vars

-----------------------------------------------------------------------------
(* Whatever the events are, the calls of a stack nest, so that they fit in *)
(* the five places that PidState has (int eventnum[5]; top = 0..4).        *)
Nested(s) ==
    /\ s \in Seq(Pid \cup Call)
    /\ s # <<>>
    /\ s[1] \in Pid
    /\ \A i, j \in 1 .. Len(s) : i < j => NestLevel(s[i]) < NestLevel(s[j])
    /\ Len(s) <= 5

StacksNest ==
    /\ \A c \in CPU : Nested(cpu_stack[c].eventnum)
    /\ \A p \in Pid : perpidstate[p] = NoState \/ Nested(perpidstate[p].eventnum)

(* "Die if any -- preproc failed": what PreProcessEvent inserts leaves     *)
(* nothing to adjust when ProcessEvent pushes or pops.                     *)
PreprocSuffices ==
    Settled =>
        LET s == Resolve(Stack, event).eventnum IN
        /\ IsACall(event) => AdjustStackForPush(s, event.num) = s
        /\ IsAReturn(event) => 1 < Len(s) /\ AdjustStackForPop(s, event.num) = s
=============================================================================
