----------------------------- MODULE ClaimSpace -----------------------------
(***************************************************************************)
(* What the trace buffer promises to the code that logs an entry.  A       *)
(* context is granted a run of words that nobody else holds and that holds *)
(* no finished entry; it stores its entry there; the finished entry stays  *)
(* until the whole buffer is cleared.  TraceBuffer.tla shows that the      *)
(* lockless per-CPU allocator of kutrace_mod.c implements this.            *)
(***************************************************************************)
EXTENDS Integers

CONSTANTS
    Ctx,     \* contexts that log entries: tasks and interrupt handlers
    Addr,    \* word addresses of the trace buffer
    MaxRun   \* longest run of words one grant may hand out

VARIABLES
    held,    \* held[x]: the words granted to x and not stored yet
    done     \* the words of finished entries

vars == <<held, done>>

Words(lo, n) == {a \in Addr : lo <= a /\ a < lo + n}

Init == /\ held = [x \in Ctx |-> {}]
        /\ done = {}

Free(S) == /\ S \cap done = {}
           /\ \A y \in Ctx : S \cap held[y] = {}

Grant(x) ==
    /\ held[x] = {} /\ held'[x] # {}
    /\ UNCHANGED done
    /\ \E lo \in Addr, n \in 1..MaxRun :
          /\ held' = [held EXCEPT ![x] = Words(lo, n)]
          /\ Free(Words(lo, n))

Commit(x) ==
    /\ held[x] # {}
    /\ done' = done \cup held[x]
    /\ held' = [held EXCEPT ![x] = {}]

Clear ==
    /\ \A x \in Ctx : held[x] = {}
    /\ UNCHANGED held
    /\ done' = {}

Next == Clear \/ \E x \in Ctx : Grant(x) \/ Commit(x)

Spec == Init /\ [][Next]_vars
=============================================================================
