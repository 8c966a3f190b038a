---------------------------- MODULE KeyValueStore ----------------------------
(***************************************************************************)
(* What the RPC server of bookcode/server4.cc promises its clients: every  *)
(* request is carried out at most once, at one instant between its sending *)
(* and its answer, on one store that all clients share.  The promise ends  *)
(* when the lock is broken (sound = FALSE); from then on the store and the *)
(* answers may be anything.                                                *)
(***************************************************************************)
CONSTANTS Client, Key, Value, None

VARIABLES
    command,  \* per client: the request it makes, again and again
    store,    \* per key: its value, or None
    asked,    \* clients that wait for an answer or whose request is on the way
    reply,    \* per client: the answer that is on the way, or None
    sound     \* the lock has not been broken

absvars == <<command, store, asked, reply, sound>>

Fail == [status |-> "fail", value |-> None]
Success(v) == [status |-> "success", value |-> v]
Replies == {Fail} \cup {Success(v) : v \in Value \cup {None}}

(* The store after request r, and its answer.                              *)
After(r, st) ==
    CASE r.method = "write" -> [st EXCEPT ![r.key] = r.value]
      [] r.method = "delete" -> [st EXCEPT ![r.key] = None]
      [] r.method = "reset" -> [k \in Key |-> None]
      [] OTHER -> st

Answer(r, st) ==
    CASE r.method = "read" -> IF st[r.key] = None THEN Fail ELSE Success(st[r.key])
      [] r.method = "delete" -> IF st[r.key] = None THEN Fail ELSE Success(None)
      [] r.method = "other" -> Fail
      [] OTHER -> Success(None)

Start ==
    /\ store = [k \in Key |-> None]
    /\ asked = {}
    /\ reply = [c \in Client |-> None]
    /\ sound = TRUE

Ask(c) ==
    /\ c \notin asked
    /\ asked' = asked \cup {c}
    /\ UNCHANGED <<command, store, reply, sound>>

Do(c) ==
    /\ c \in asked /\ reply[c] = None
    /\ store' = After(command[c], store)
    /\ reply' = [reply EXCEPT ![c] = Answer(command[c], store)]
    /\ UNCHANGED <<command, asked, sound>>

(* The answer arrives, or the request or its answer is lost with the       *)
(* connections of the clients in S.                                        *)
End(S) ==
    /\ asked' = asked \ S
    /\ reply' = [c \in Client |-> IF c \in S THEN None ELSE reply[c]]
    /\ UNCHANGED <<command, store, sound>>

Break == sound' = FALSE /\ UNCHANGED <<command, store, asked, reply>>

Anything == ~sound /\ UNCHANGED <<command, asked, sound>>

Step ==
    \/ \E c \in Client : Ask(c) \/ Do(c)
    \/ \E S \in SUBSET Client : End(S)
    \/ Break
    \/ Anything

Atomic == Start /\ [][Step]_absvars
=============================================================================
