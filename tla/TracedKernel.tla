----------------------------- MODULE TracedKernel -----------------------------
(***************************************************************************)
(* The kernel with the tracing patch, and the converter that reads what it *)
(* traced.  What every CPU and process is really doing is state of its own *)
(* here, so that the spans can be compared with it.  The converter works   *)
(* offline on the sorted trace; it sees the events in the order in which   *)
(* they happened, so it may as well read each one when it happens.         *)
(*                                                                         *)
(* The trace starts in the middle of things: calls may be in progress that *)
(* it has not seen begin.  Processes may also leave calls in ways that are *)
(* not traced.  A workload of Mixes says what may happen in a behaviour.   *)
(***************************************************************************)
EXTENDS EventToSpan

CONSTANTS
    BottomHalves, \* the Irqs that stand for bottom halves
    Mixes    \* workloads: cpus, procs and calls that take part, kinds of
             \* point events, threads a task may be in when the trace starts,
             \* and whether calls are optimised (opt), left untraced (drop),
             \* the scheduler may keep the process (stay) or be interrupted
             \* (intr), a process may make marks before the trace has a call
             \* of it (early), and may be switched to before the CPU that it
             \* left is out of its scheduler (hurry); events bounds their number

VARIABLES
    mix,        \* the workload
    now,        \* time of the last event
    on,         \* per CPU: the process that runs
    thread,     \* per task: calls in progress
    hidden,     \* per task: how many of them the trace has not seen begin
    switched,   \* CPUs inside a scheduler that has switched
    leaving,    \* per CPU: the process it switched away from, until its next
                \* call or return outside that scheduler
    heard,      \* per CPU: nothing, first entry, block header, a call
    fresh,      \* processes that have not made a call yet
    strayed,    \* tasks that left calls untraced
    cut,        \* tasks in a bottom half that an interrupt came into
    working,    \* per process: the RPC it works on
    left, came, \* per process seen to be switched in: when it was last switched
                \* out, and in
    ran         \* what the CPU of the last event did before it

kvars == <<mix, now, on, thread, hidden, switched, leaving, heard, fresh, strayed,
           cut, working, left, came, ran>>
allvars == <<vars, kvars>>

Proc == Pid \ {Idle}
Task == Proc \cup CPU       \* a CPU stands for its idle task

ASSUME TaskAssumption == CPU \cap Pid = {}

ASSUME BottomAssumption == BHhi \in BottomHalves /\ BottomHalves \subseteq Irqs \ {Resched}

ASSUME MixAssumption ==
    \A m \in Mixes :
        /\ m.cpus \subseteq CPU /\ m.procs \subseteq Proc /\ m.fresh \subseteq Proc
        /\ m.calls \subseteq Call /\ m.kinds \subseteq Points
        /\ m.begin \subseteq Seq(Call)
        /\ \A s \in m.begin : \A i \in 1 .. Len(s) : s[i] \in {Sched, Resched} => i = Len(s)
        /\ {m.opt, m.drop, m.stay, m.intr, m.early, m.hurry} \subseteq BOOLEAN
        /\ m.events \in Nat

TaskOn(c) == IF on[c] = Idle THEN c ELSE on[c]
TopCall(c) == LET s == thread[TaskOn(c)] IN IF s = <<>> THEN on[c] ELSE s[Len(s)]
Level(c) == NestLevel(TopCall(c))
Front(s) == SubSeq(s, 1, Len(s) - 1)

(* The softirq code runs its handlers with interrupts enabled, and traces  *)
(* them as interrupt 255.  An interrupt that comes into a bottom half and  *)
(* the bottom half have the same level, so that FixupCall has the bottom   *)
(* half return there: the converter takes the rest of it for what is below *)
(* it, until it returns.                                                   *)
InBottom(c) == TopCall(c) \in BottomHalves
AboveBottom(c) ==
    LET s == thread[TaskOn(c)] IN 1 < Len(s) /\ s[Len(s) - 1] \in BottomHalves

-----------------------------------------------------------------------------
(* An entry of CPU c, made by process p.  The property needs to know what  *)
(* ran before it and whether the converter can be expected to know.        *)
Sure(c, kind) ==
    LET t == TaskOn(c) IN
    /\ heard[c] = "call"
    /\ t \notin strayed
    /\ kind # "ret" => hidden[t] = 0 \/ hidden[t] < Len(thread[t])
    /\ t \in fresh => kind = "call" /\ ~mix.early
    /\ mix.intr => TopCall(c) # Sched
    /\ InBottom(c) /\ t \in cut => kind = "ret"

Emit(c, kind, num, arg, p, dur) ==
    /\ now' = now + 2
    /\ now' <= 2 * mix.events
    /\ ran' = [what |-> TopCall(c), sure |-> Sure(c, kind), cpu |-> c,
                at |-> now', open |-> valid_span[c] /\ heard[c] \in {"header", "call"}]
    /\ Read([kind |-> kind, num |-> num, arg |-> arg, cpu |-> c, pid |-> p,
             ts |-> now', dur |-> dur])
    /\ UNCHANGED mix

(* Every entry but the first of a CPU comes after its first block header.  *)
Entry(c, kind, num, arg, p, dur) ==
    /\ heard[c] # "first"
    /\ Emit(c, kind, num, arg, p, dur)
    /\ heard' = [heard EXCEPT ![c] =
                    IF @ = "nothing" THEN "first"
                    ELSE IF kind \in {"call", "ret"} THEN "call" ELSE @]

(* The header names the process that runs, once for each CPU; its time is  *)
(* taken after that of the first entry.                                    *)
Announce(c) ==
    /\ heard[c] = "first"
    /\ Emit(c, "ctx", Idle, Idle, on[c], 1)
    /\ heard' = [heard EXCEPT ![c] = "header"]
    /\ hidden' = [hidden EXCEPT ![TaskOn(c)] = Len(thread[TaskOn(c)])]
    /\ working' = IF on[c] = Idle THEN working ELSE [working EXCEPT ![on[c]] = 0]
    /\ UNCHANGED <<on, thread, switched, leaving, fresh, strayed, cut, left, came>>

-----------------------------------------------------------------------------
(* Calls nest by level, but for interrupts inside a bottom half.  The      *)
(* scheduler is called from the idle loop, in user mode, or inside a       *)
(* system call or trap, and not inside a bottom half; a reschedule_ipi     *)
(* that calls it is not heard of again.  Interrupts may come inside the    *)
(* scheduler.                                                              *)
MayEnter(c, x) ==
    \/ x \in Syscalls /\ Level(c) = 0 /\ on[c] # Idle
    \/ x \in Traps /\ Level(c) < 2 /\ on[c] # Idle
    \/ x \in Irqs /\ (Level(c) < 3 \/ (mix.intr /\ TopCall(c) = Sched))
    \/ x \in Irqs \ BottomHalves /\ InBottom(c)
    \/ x = Sched /\ Level(c) = 0
    \/ x = Sched /\ on[c] # Idle /\ Level(c) < 3
    \/ x = Sched /\ on[c] # Idle /\ TopCall(c) = Resched /\ ~ AboveBottom(c)

(* What CPU c traces now is after the switch and outside of its scheduler. *)
Outside(c) ==
    leaving' = IF c \in switched' THEN leaving ELSE [leaving EXCEPT ![c] = Idle]

Interrupts(c) == cut' = IF InBottom(c) THEN cut \cup {TaskOn(c)} ELSE cut

Enter(c, x) ==
    LET t == TaskOn(c)
        s == IF x = Sched /\ TopCall(c) = Resched THEN Front(thread[t]) ELSE thread[t]
    IN  /\ MayEnter(c, x)
        /\ Entry(c, "call", x, Idle, on[c], 0)
        /\ thread' = [thread EXCEPT ![t] = Append(s, x)]
        /\ hidden' = [hidden EXCEPT ![t] = IF Len(s) < @ THEN Len(s) ELSE @]
        /\ fresh' = fresh \ {t}
        /\ strayed' = IF x \in Syscalls THEN strayed \ {t} ELSE strayed
        /\ came' = IF t \in fresh THEN [came EXCEPT ![t] = now] ELSE came
        /\ UNCHANGED <<on, switched, working, left>>
        /\ Outside(c) /\ Interrupts(c)

(* What a call of x may return: a clone gives a process, others no matter. *)
Results(x) == IF x = Clone THEN {Idle} \cup fresh ELSE {Idle}

(* A call that returned at once, in one entry.                             *)
Whole(c, x) ==
    /\ mix.opt /\ x # Sched /\ MayEnter(c, x)
    /\ \E q \in Results(x) : Entry(c, "call", x, q, on[c], 1)
    /\ fresh' = fresh \ {TaskOn(c)}
    /\ strayed' = IF x \in Syscalls THEN strayed \ {TaskOn(c)} ELSE strayed
    /\ came' = IF TaskOn(c) \in fresh THEN [came EXCEPT ![on[c]] = now] ELSE came
    /\ UNCHANGED <<on, thread, hidden, switched, working, left>>
    /\ Outside(c) /\ Interrupts(c)

(* The call on top returns; BH:hi may stand for the end of reschedule_ipi. *)
(* A process that was switched to may find itself further out.             *)
Leave(c) ==
    LET t == TaskOn(c)
        s == Front(thread[t])
        back == TopCall(c) = Sched /\ c \in switched
    IN  /\ thread[t] # <<>>
        /\ TopCall(c) = Sched => c \in switched \/ mix.stay
        /\ \E x \in IF TopCall(c) = Resched THEN {Resched, BHhi} ELSE {TopCall(c)} :
              \E q \in Results(x) : Entry(c, "ret", x, q, on[c], 0)
        /\ \E n \in IF back /\ mix.drop THEN 0 .. Len(s) ELSE {Len(s)} :
              /\ thread' = [thread EXCEPT ![t] = SubSeq(s, 1, n)]
              /\ hidden' = [hidden EXCEPT ![t] = IF n < @ THEN n ELSE @]
              /\ strayed' = IF n < Len(s) THEN strayed \cup {t} ELSE strayed
        /\ switched' = IF TopCall(c) = Sched THEN switched \ {c} ELSE switched
        /\ cut' = IF InBottom(c) THEN cut \ {t} ELSE cut
        /\ came' = IF back /\ t \in Proc THEN [came EXCEPT ![t] = now'] ELSE came
        /\ UNCHANGED <<on, fresh, working, left>>
        /\ Outside(c)

(* __schedule switches to another process, which goes on inside its own    *)
(* call of the scheduler unless it is new.                                 *)
Switch(c, q) ==
    LET p == on[c]
        t == IF q = Idle THEN c ELSE q
    IN  /\ TopCall(c) = Sched /\ c \notin switched
        /\ q # p /\ \A d \in CPU : q # Idle => on[d] # q
        /\ heard[c] # "nothing"
        /\ (\E d \in CPU : q # Idle /\ leaving[d] = q) => mix.hurry
        /\ Entry(c, "ctx", Idle, Idle, q, 1)
        /\ on' = [on EXCEPT ![c] = q]
        /\ switched' = IF thread[t] = <<>> THEN switched ELSE switched \cup {c}
        /\ leaving' = [leaving EXCEPT ![c] = p]
        /\ left' = IF p = Idle \/ came[p] = 0 THEN left ELSE [left EXCEPT ![p] = now']
        /\ came' = [r \in Proc |-> IF r \in {p, q} THEN 0 ELSE came[r]]
        /\ UNCHANGED <<thread, hidden, fresh, strayed, cut, working>>

-----------------------------------------------------------------------------
(* Entries of one point in time, by where they can happen.                 *)
MayPoint(c, kind, arg) ==
    \/ kind \in {"mark", "other"} /\ Level(c) = 0 /\ on[c] # Idle /\ arg = Idle
    \/ kind = "rpc" /\ Level(c) = 0 /\ on[c] # Idle /\ arg \in Rpcs
    \/ kind \in {"mwait", "mwait_exit"} /\ Level(c) = 0 /\ on[c] = Idle /\ arg \in {1, 4}
    \/ kind = "sample" /\ Level(c) < 3 /\ arg = Idle
    \/ kind = "wakeup" /\ 0 < Level(c) /\ Level(c) < 4 /\ arg \in mix.procs
    \/ kind \in {"ipi", "monitor_store"} /\ 0 < Level(c) /\ arg \in mix.cpus

(* A mark before the first call after the header, or of a new process.     *)
Early(c, kind) == kind \in {"mark", "rpc"} /\ (heard[c] = "header" \/ on[c] \in fresh)

Point(c, kind, arg) ==
    /\ MayPoint(c, kind, arg)
    /\ Early(c, kind) => mix.early
    /\ Entry(c, kind, Idle, arg, on[c], 1)
    /\ working' = IF kind = "rpc" THEN [working EXCEPT ![on[c]] = arg] ELSE working
    /\ UNCHANGED <<on, thread, hidden, switched, leaving, fresh, strayed, cut, left, came>>

Kernel ==
    \E c \in mix.cpus :
        \/ Announce(c)
        \/ \E x \in mix.calls : Enter(c, x) \/ Whole(c, x)
        \/ Leave(c)
        \/ \E q \in mix.procs \cup {Idle} : Switch(c, q)
        \/ \E kind \in mix.kinds : \E arg \in Pid \cup CPU \cup Rpcs \cup {1, 4} :
              Point(c, kind, arg)

Next ==
    \/ Kernel
    \/ Convert /\ UNCHANGED kvars

(* Threads at the start: sleepers are inside the scheduler or are new.     *)
KInit ==
    /\ Init
    /\ mix \in Mixes
    /\ now = 0
    /\ on \in [CPU -> mix.procs \cup {Idle}]
    /\ \A c, d \in CPU : c # d /\ on[c] = on[d] => on[c] = Idle
    /\ \A c \in CPU : c \notin mix.cpus => on[c] = Idle
    /\ fresh \in SUBSET (mix.fresh \ {on[c] : c \in CPU})
    /\ thread \in [Task -> mix.begin \cup {<<>>, <<Sched>>}]
    /\ \A p \in Proc :
          IF \E c \in CPU : on[c] = p THEN thread[p] \in mix.begin
          ELSE IF p \in fresh THEN thread[p] = <<>>
          ELSE thread[p] # <<>> /\ thread[p][Len(thread[p])] = Sched
    /\ \A c \in CPU : thread[c] = IF on[c] = Idle THEN <<>> ELSE <<Sched>>
    /\ hidden = [t \in Task |-> Len(thread[t])]
    /\ switched = {}
    /\ leaving = [c \in CPU |-> Idle]
    /\ heard = [c \in CPU |-> "nothing"]
    /\ strayed = {} /\ cut = {}
    /\ working = [p \in Proc |-> 0]
    /\ left = [p \in Proc |-> 0]
    /\ came = [p \in Proc |-> 0]
    /\ ran = [what |-> Idle, sure |-> FALSE, cpu |-> CHOOSE c \in CPU : TRUE,
              at |-> 0, open |-> FALSE]

(* The converter reads to the end of its input.                            *)
Spec == KInit /\ [][Next]_allvars /\ WF_allvars(Convert /\ UNCHANGED kvars)

-----------------------------------------------------------------------------
(* The converter always gets done with an event: its fix-ups come to an    *)
(* end, whatever is missing in the trace (PreProcessEvent and its loops).  *)
AllConverted == ~Reading ~> Reading

(* Apart from the scheduler itself, the stack of every CPU and of every    *)
(* process that sleeps is the calls that are in progress, as far as their  *)
(* begin was traced; for a process that left calls untraced (the comment   *)
(* before NestLevel: some exit abnormally) they are all there, and its     *)
(* next system call sets things right.  A bottom half that an interrupt    *)
(* came into is in progress and not in the stack.                          *)
Places(s) == {i \in DOMAIN s : s[i] # Sched}

(* What s has in the places S is in u, in places of U, in that order.      *)
Within(s, S, u, U) ==
    \E f \in [S -> U] : \A i, j \in S : s[i] = u[f[i]] /\ (i < j => f[i] < f[j])

Follows(st, p, t) ==
    LET u == <<p>> \o SubSeq(thread[t], hidden[t] + 1, Len(thread[t]))
        known == {i \in Places(u) : ~ (t \in cut /\ u[i] \in BottomHalves)}
        seen == Places(st.eventnum)
    IN  /\ Within(u, known, st.eventnum, seen)
        /\ t \in strayed \/ Within(st.eventnum, seen, u, known)

StacksTrue == Reading =>
    /\ \A c \in mix.cpus : heard[c] = "call" => Follows(cpu_stack[c], on[c], TaskOn(c))
    /\ \A p \in mix.procs :
          (perpidstate[p] # NoState /\ \A c \in CPU : on[c] # p)
              => Follows(perpidstate[p], p, p)

(* A span that is closed by an event says what the CPU was doing until     *)
(* then; but in a bottom half that was interrupted before, only if it is   *)
(* its return that closes the span.                                        *)
SpansTrue == Reading /\ ran.sure =>
    \A i \in DOMAIN shown :
        /\ shown[i].stop = ran.at /\ shown[i].start < ran.at
        /\ shown[i].eventnum \in Pid \cup Call
        => shown[i].eventnum = ran.what

(* The spans closed for an event follow one another, with no gap and no    *)
(* overlap, from the start of the span that was open before it to the      *)
(* start of the one that is open after it.                                 *)
Tiled ==
    /\ ran.open /\ shown = <<>> => cur_span[ran.cpu].start = span_start_time
    /\ ran.open /\ shown # <<>> => shown[1].start = span_start_time
    /\ \A i \in 1 .. Len(shown) - 1 : shown[i].stop = shown[i + 1].start
    /\ shown # <<>> => shown[Len(shown)].stop = cur_span[ran.cpu].start

(* "covering 100% of the time on each CPU core".                           *)
TimeCovered == Reading => Tiled

(* The same while no interrupt comes inside the scheduler and no process   *)
(* makes a mark before the first call that the trace has of it: until then *)
(* the converter takes it to be in the scheduler still, and FixupSched     *)
(* puts the return that it misses before the mark.                         *)
SpansTile == ~mix.intr /\ ~mix.early => TimeCovered

(* No process is shown waiting while it runs ("Any wakeup delivered while  *)
(* it is running creates no waiting before that wakeup").                  *)
WaitsTrue == Reading =>
    \A w \in waits :
        0 < left[w.pid] => /\ left[w.pid] < w.start
                           /\ came[w.pid] = 0 \/ w.stop <= came[w.pid]

(* The same while every return from the scheduler follows a switch and no  *)
(* process is switched to before the CPU that it left is done with it.     *)
WaitsTrueIfSwitched == ~mix.intr /\ ~mix.stay /\ ~mix.hurry => WaitsTrue

(* The RPC of a CPU is the one its process last said it works on, across   *)
(* every switch away and back.                                             *)
RpcTrue == Reading =>
    \A c \in mix.cpus :
        heard[c] \in {"header", "call"} /\ on[c] # Idle
            => cpu_stack[c].rpcid = working[on[c]]
=============================================================================
