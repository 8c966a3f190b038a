------------------------------ MODULE RpcServer ------------------------------
(***************************************************************************)
(* The key-value server of bookcode/server4.cc, one thread per port, with  *)
(* the spin lock of spinlock.cc around its map, the message layer of       *)
(* dclab_rpc.cc and the clients of client4.cc.                             *)
(*                                                                         *)
(* A message is a marker, a header and arguments, read part by part.  Time *)
(* stamps, logs, trace entries and the histogram of the lock are left out; *)
(* a response, which is written and read in one piece each, is one value.  *)
(***************************************************************************)
EXTENDS Integers, Sequences, FiniteSets

CONSTANTS
    Port,       \* ports, each with its thread
    Client,     \* client processes
    Key, Value, None,
    Jobs,       \* what happens in a behaviour: the command of each client,
                \* how often it repeats it and its port, the clients that may
                \* be killed (mortal), and whether the time may run out
    SPINS       \* looks at a lock that is held before it is grabbed: 100 million

ASSUME PortAssumption == None \notin Value \cup Client /\ SPINS \in Nat

VARIABLES
    lock,         \* lockandhist.lock
    key_value,    \* the map
    grabbed,      \* history: a lock that was held has been cleared
    stopping,     \* the flag any thread can set
    up,           \* the server process runs
    pc,           \* per port: where its thread is
    serving,      \* per port: the client it is connected with, or None
    got,          \* per port: the parts of the request read so far
    found,        \* per port: the iterator that find returned, None for end
    safety_count, \* per port: AcquireSpinlock's count
    response,     \* per port: the response being made
    job,          \* the job of this behaviour
    todo,         \* per client: how often it will ask still
    client,       \* per client: where it is
    conn,         \* per client: none, queued, open, or shut by the server
    requests,     \* per client: parts sent and not read yet
    responses,    \* per client: the response sent and not read yet, or None
    reset         \* per client: reading from it is an error

lockvars == <<lock, grabbed, safety_count>>
mapvars == <<key_value, found, response>>
threadvars == <<pc, serving, got>>
netvars == <<conn, requests, responses, reset>>
clientvars == <<job, todo, client>>
vars == <<lockvars, mapvars, threadvars, netvars, clientvars, stopping, up>>

command == job.command
at == job.port

(* The abstract state: a request is on its way until its response is read  *)
(* or its connection is gone; its answer is there from the moment the map  *)
(* has been consulted.                                                     *)
ThreadOf(c) == {t \in Port : up /\ serving[t] = c /\ got[t] # <<>>}

Asked == {c \in Client :
    \/ responses[c] # None
    \/ /\ up /\ conn[c] \in {"queued", "open"}
       /\ client[c] = "await" \/ requests[c] # <<>> \/ ThreadOf(c) # {}}

Reply(c) ==
    IF responses[c] # None THEN responses[c]
    ELSE IF \E t \in ThreadOf(c) : pc[t] \in {"release", "reply"}
    THEN response[CHOOSE t \in ThreadOf(c) : TRUE] ELSE None

KV == INSTANCE KeyValueStore WITH
    store <- key_value, asked <- Asked, reply <- [c \in Client |-> Reply(c)],
    sound <- ~grabbed

Stores == [Key -> Value \cup {None}]
Locked == {"read", "write", "delete", "stats", "reset"}  \* methods that take the lock
Methods == Locked \cup {"ping", "sink", "quit", "other"}
Inside == {"find", "act", "release"}
Serve == {"look", "grab", "try", "reply"} \cup Inside
Live == {"start", "send", "await"}

(* A client asks at least once, always the same, and of one port.          *)
ASSUME JobsAssumption == \A j \in Jobs :
    /\ j.command \in [Client -> [method : Methods, key : Key, value : Value]]
    /\ j.reps \in [Client -> Nat \ {0}] /\ j.port \in [Client -> Port]

ASSUME NoneAssumption == None \notin KV!Replies

Goto(t, l) == pc' = [pc EXCEPT ![t] = l]

(* SendOneRPC: the marker tells how many arguments follow.                 *)
Arguments(r) ==
    IF r.method \in {"write", "sink"} THEN <<"key", "value">>
    ELSE IF r.method \in {"read", "delete"} THEN <<"key">> ELSE <<>>

Part(name, n) == [name |-> name, datalen |-> n]

Message(r) ==
    <<Part("marker", Len(Arguments(r))), Part("header", 0)>>
    \o [i \in 1 .. Len(Arguments(r)) |-> Part(Arguments(r)[i], 0)]

(* Mutant: a message is complete when its header is.                       *)
Complete_Header(parts) == 2 <= Len(parts)

(* ReadOneRPC has all of the message.                                      *)
Complete(parts) == parts # <<>> /\ Len(parts) = 2 + parts[1].datalen

(* ReadExactlyLenBytes asks for no more than is left of one part.          *)
Needed(parts) ==
    IF Len(parts) < 2 THEN 1 ELSE 2 + parts[1].datalen - Len(parts)

-----------------------------------------------------------------------------
(* SocketLoop                                                              *)

Shut(S) ==
    /\ conn' = [c \in Client |-> IF c \in S THEN "shut" ELSE conn[c]]
    /\ requests' = [c \in Client |-> IF c \in S THEN <<>> ELSE requests[c]]

(* The outer loop: listen and wait for a connection, or end and drop the   *)
(* connections that wait.                                                  *)
Listen(t) ==
    /\ up /\ pc[t] \in {"start", "top"}
    /\ IF stopping
       THEN /\ Goto(t, "ended")
            /\ Shut({c \in Client : conn[c] = "queued" /\ at[c] = t})
       ELSE Goto(t, "accept") /\ UNCHANGED <<conn, requests>>
    /\ UNCHANGED <<lockvars, mapvars, serving, got, responses, reset, clientvars,
                   stopping, up>>

Accept(t, c) ==
    /\ up /\ pc[t] = "accept"
    /\ conn[c] = "queued" /\ at[c] = t
    /\ conn' = [conn EXCEPT ![c] = "open"]
    /\ serving' = [serving EXCEPT ![t] = c]
    /\ Goto(t, "next")
    /\ UNCHANGED <<lockvars, mapvars, got, requests, responses, reset, clientvars,
                   stopping, up>>

(* The inner loop                                                          *)
NextRequest(t) ==
    /\ up /\ pc[t] = "next"
    /\ Goto(t, IF stopping THEN "close" ELSE "read")
    /\ UNCHANGED <<lockvars, mapvars, serving, got, netvars, clientvars, stopping, up>>

(* read() returns some of what is there.                                   *)
ReadSome(t) ==
    LET c == serving[t] IN
    /\ up /\ pc[t] = "read" /\ ~Complete(got[t])
    /\ \E n \in 1 .. Needed(got[t]) :
          /\ n <= Len(requests[c])
          /\ got' = [got EXCEPT ![t] = @ \o SubSeq(requests[c], 1, n)]
          /\ requests' = [requests EXCEPT ![c] = SubSeq(@, n + 1, Len(@))]
    /\ UNCHANGED <<lockvars, mapvars, pc, serving, conn, responses, reset,
                   clientvars, stopping, up>>

(* Mutant: zero bytes are taken for "nothing yet".                         *)
ReadEnd_Ignored(t) == FALSE /\ UNCHANGED vars

(* It returns 0 when the client has closed the connection: with half a     *)
(* request or none the thread gives up the connection.                     *)
ReadEnd(t) ==
    LET c == serving[t] IN
    /\ up /\ pc[t] = "read" /\ ~Complete(got[t])
    /\ requests[c] = <<>> /\ client[c] \notin Live /\ ~reset[c]
    /\ Goto(t, "close")
    /\ UNCHANGED <<lockvars, mapvars, serving, got, netvars, clientvars, stopping, up>>

Exit ==
    /\ up' = FALSE
    /\ Shut({c \in Client : conn[c] \in {"queued", "open"}})
    /\ UNCHANGED <<lockvars, mapvars, threadvars, responses, reset, clientvars>>

(* It returns -1 when the connection was reset; Error ends the process.    *)
ReadError(t) ==
    LET c == serving[t] IN
    /\ up /\ pc[t] = "read" /\ ~Complete(got[t])
    /\ requests[c] = <<>> /\ reset[c]
    /\ Exit
    /\ UNCHANGED stopping

(* Do the request: ping, sink and quit, and what is no method, at once;    *)
(* the others once they have the lock.                                     *)
Dispatch(t) ==
    LET method == command[serving[t]].method IN
    /\ up /\ pc[t] = "read" /\ Complete(got[t])
    /\ IF method \in Locked
       THEN Goto(t, "look") /\ UNCHANGED response
       ELSE /\ Goto(t, "reply")
            /\ response' = [response EXCEPT ![t] =
                  IF method = "other" THEN KV!Fail ELSE KV!Success(None)]
    /\ safety_count' = [safety_count EXCEPT ![t] = 0]
    /\ stopping' = (stopping \/ method = "quit")
    /\ UNCHANGED <<lock, grabbed, key_value, found, serving, got, netvars,
                   clientvars, up>>

-----------------------------------------------------------------------------
(* AcquireSpinlock looks at the lock until it is free and tries to get it; *)
(* after SPINS looks in vain it clears it, whoever holds it.               *)

(* One look at the lock.                                                   *)
Look(t) ==
    /\ up /\ pc[t] = "look"
    /\ IF lock = 0 THEN Goto(t, "try") /\ UNCHANGED safety_count
       ELSE IF safety_count[t] < SPINS
       THEN /\ safety_count' = [safety_count EXCEPT ![t] = @ + 1]
            /\ UNCHANGED pc
       ELSE Goto(t, "grab") /\ UNCHANGED safety_count
    /\ UNCHANGED <<lock, grabbed, mapvars, serving, got, netvars, clientvars, stopping, up>>

(* The store of 0 comes after the look, and the lock may be free by then.  *)
Grab(t) ==
    /\ up /\ pc[t] = "grab"
    /\ lock' = 0
    /\ grabbed' = (grabbed \/ lock = 1)
    /\ Goto(t, "look")
    /\ UNCHANGED <<safety_count, mapvars, serving, got, netvars, clientvars, stopping, up>>

(* Mutant: the lock that was seen free is taken without a test.            *)
Try_Set(t) ==
    /\ up /\ pc[t] = "try"
    /\ lock' = 1
    /\ Goto(t, "find")
    /\ UNCHANGED <<grabbed, safety_count, mapvars, serving, got, netvars, clientvars,
                   stopping, up>>

(* __atomic_test_and_set                                                   *)
Try(t) ==
    /\ up /\ pc[t] = "try"
    /\ lock' = 1
    /\ Goto(t, IF lock = 0 THEN "find" ELSE "look")
    /\ UNCHANGED <<grabbed, safety_count, mapvars, serving, got, netvars, clientvars,
                   stopping, up>>

(* Mutant: the lock is released before the map is changed.                 *)
Find_Release(t) ==
    LET r == command[serving[t]] IN
    /\ up /\ pc[t] = "find"
    /\ lock' = 0
    /\ found' = [found EXCEPT ![t] =
          IF r.method \in {"read", "delete"} THEN key_value[r.key] ELSE None]
    /\ Goto(t, "act")
    /\ UNCHANGED <<grabbed, safety_count, key_value, response, serving, got, netvars,
                   clientvars, stopping, up>>

(* Inside the lock, first the look-up                                      *)
Find(t) ==
    LET r == command[serving[t]] IN
    /\ up /\ pc[t] = "find"
    /\ found' = [found EXCEPT ![t] =
          IF r.method \in {"read", "delete"} THEN key_value[r.key] ELSE None]
    /\ Goto(t, "act")
    /\ UNCHANGED <<lockvars, key_value, response, serving, got, netvars, clientvars,
                   stopping, up>>

(* and then what is done with it; with another thread inside, the map may  *)
(* end up as anything.                                                     *)
Act(t) ==
    LET r == command[serving[t]]
        missing == r.method \in {"read", "delete"} /\ found[t] = None
        alone == \A u \in Port \ {t} : pc[u] \notin Inside
    IN  /\ up /\ pc[t] = "act"
        /\ \/ /\ alone
              /\ key_value' =
                    CASE r.method = "write" -> [key_value EXCEPT ![r.key] = r.value]
                      [] r.method = "delete" -> [key_value EXCEPT ![r.key] = None]
                      [] r.method = "reset" -> [k \in Key |-> None]
                      [] OTHER -> key_value
              /\ response' = [response EXCEPT ![t] =
                    IF missing THEN KV!Fail
                    ELSE KV!Success(IF r.method = "read" THEN found[t] ELSE None)]
           \/ /\ ~alone
              /\ key_value' \in Stores
              /\ \E p \in KV!Replies : response' = [response EXCEPT ![t] = p]
        /\ Goto(t, "release")
        /\ UNCHANGED <<lockvars, found, serving, got, netvars, clientvars, stopping, up>>

ReleaseSpinlock(t) ==
    /\ up /\ pc[t] = "release"
    /\ lock' = 0
    /\ Goto(t, "reply")
    /\ UNCHANGED <<grabbed, safety_count, mapvars, serving, got, netvars, clientvars,
                   stopping, up>>

-----------------------------------------------------------------------------
(* Mutant: a request that fails ends the connection.                       *)
KeepsConnection_Failed(t) == response[t].status = "success"

(* DoError returns false, the other methods true.                          *)
KeepsConnection(t) == command[serving[t]].method # "other"

(* SendResponse; a client that is gone answers with a reset.               *)
SendResponse(t) ==
    LET c == serving[t] IN
    /\ up /\ pc[t] = "reply"
    /\ IF client[c] \in Live
       THEN responses' = [responses EXCEPT ![c] = response[t]] /\ UNCHANGED reset
       ELSE reset' = [reset EXCEPT ![c] = TRUE] /\ UNCHANGED responses
    /\ got' = [got EXCEPT ![t] = <<>>]
    /\ Goto(t, IF KeepsConnection(t) THEN "next" ELSE "close")
    /\ UNCHANGED <<lockvars, mapvars, serving, conn, requests, clientvars, stopping, up>>

Close(t) ==
    /\ up /\ pc[t] = "close"
    /\ Shut({serving[t]})
    /\ serving' = [serving EXCEPT ![t] = None]
    /\ got' = [got EXCEPT ![t] = <<>>]
    /\ Goto(t, "top")
    /\ UNCHANGED <<lockvars, mapvars, responses, reset, clientvars, stopping, up>>

(* main polls stopping, sets it itself when the time is up, and ends the   *)
(* process.                                                                *)
TimeUp ==
    /\ up /\ job.hurry /\ stopping' = TRUE
    /\ UNCHANGED <<lockvars, mapvars, threadvars, netvars, clientvars, up>>

MainExit == up /\ stopping /\ Exit /\ UNCHANGED stopping

-----------------------------------------------------------------------------
(* client4: connect, then as often as asked send a request and block until *)
(* the response comes.                                                     *)

servervars == <<lockvars, mapvars, threadvars, stopping, up>>
ClientGoto(c, l) == client' = [client EXCEPT ![c] = l]

(* A port accepts connections from its first listen until it is closed.    *)
ConnectToServer(c) ==
    /\ client[c] = "start"
    /\ IF up /\ pc[at[c]] \notin {"start", "ended"}
       THEN /\ ClientGoto(c, "send")
            /\ conn' = [conn EXCEPT ![c] = "queued"]
       ELSE ClientGoto(c, "refused") /\ UNCHANGED conn
    /\ UNCHANGED <<servervars, job, todo, requests, responses, reset>>

SendRequest(c) ==
    /\ client[c] = "send" /\ conn[c] # "shut"
    /\ requests' = [requests EXCEPT ![c] = Message(command[c])]
    /\ ClientGoto(c, "await")
    /\ UNCHANGED <<servervars, job, todo, conn, responses, reset>>

ReceiveResponse(c) ==
    /\ client[c] = "await" /\ responses[c] # None
    /\ responses' = [responses EXCEPT ![c] = None]
    /\ todo' = [todo EXCEPT ![c] = @ - 1]
    /\ ClientGoto(c, IF todo[c] = 1 THEN "done" ELSE "send")
    /\ UNCHANGED <<servervars, job, conn, requests, reset>>

(* Without a response there is no header to look at: the client fails, as  *)
(* it does when it cannot write.                                           *)
NoResponse(c) ==
    /\ client[c] \in {"send", "await"} /\ conn[c] = "shut" /\ responses[c] = None
    /\ ClientGoto(c, "failed")
    /\ UNCHANGED <<servervars, job, todo, netvars>>

(* A client may be killed, perhaps while it writes; one that leaves a      *)
(* response unread resets the connection.                                  *)
Kill(c) ==
    /\ client[c] \in Live /\ c \in job.mortal
    /\ ClientGoto(c, "killed")
    /\ \E n \in 0 .. Len(requests[c]) :
          requests' = [requests EXCEPT ![c] = SubSeq(@, 1, n)]
    /\ reset' = [reset EXCEPT ![c] = responses[c] # None]
    /\ responses' = [responses EXCEPT ![c] = None]
    /\ UNCHANGED <<servervars, job, todo, conn>>

-----------------------------------------------------------------------------
Init ==
    /\ lock = 0
    /\ key_value = [k \in Key |-> None]
    /\ grabbed = FALSE
    /\ stopping = FALSE
    /\ up = TRUE
    /\ pc = [t \in Port |-> "start"]
    /\ serving = [t \in Port |-> None]
    /\ got = [t \in Port |-> <<>>]
    /\ found = [t \in Port |-> None]
    /\ safety_count = [t \in Port |-> 0]
    /\ response = [t \in Port |-> KV!Fail]
    /\ job \in Jobs
    /\ todo = job.reps
    /\ client = [c \in Client |-> "start"]
    /\ conn = [c \in Client |-> "none"]
    /\ requests = [c \in Client |-> <<>>]
    /\ responses = [c \in Client |-> None]
    /\ reset = [c \in Client |-> FALSE]

Thread(t) ==
    \/ Listen(t) \/ (\E c \in Client : Accept(t, c)) \/ NextRequest(t)
    \/ ReadSome(t) \/ ReadEnd(t) \/ ReadError(t) \/ Dispatch(t)
    \/ Look(t) \/ Grab(t) \/ Try(t) \/ Find(t) \/ Act(t) \/ ReleaseSpinlock(t)
    \/ SendResponse(t) \/ Close(t)

ClientStep(c) == SendRequest(c) \/ ReceiveResponse(c) \/ NoResponse(c)

Next ==
    \/ \E t \in Port : Thread(t)
    \/ \E c \in Client : ClientStep(c) \/ Kill(c) \/ ConnectToServer(c)
    \/ TimeUp \/ MainExit

Spec == Init /\ [][Next]_vars

(* Threads and clients that can run do, and main gets to poll the flag; no *)
(* client has to start, none has to be killed, and the time need not be up.*)
FairSpec ==
    /\ Spec
    /\ \A t \in Port : WF_vars(Thread(t))
    /\ \A c \in Client : WF_vars(ClientStep(c))
    /\ WF_vars(MainExit)

-----------------------------------------------------------------------------
PCs == {"start", "top", "accept", "next", "read", "close", "ended"} \cup Serve

(* Type correctness                                                        *)
TypeOK ==
    /\ lock \in {0, 1} /\ grabbed \in BOOLEAN /\ stopping \in BOOLEAN /\ up \in BOOLEAN
    /\ key_value \in Stores
    /\ pc \in [Port -> PCs]
    /\ serving \in [Port -> Client \cup {None}]
    /\ found \in [Port -> Value \cup {None}]
    /\ safety_count \in [Port -> 0 .. SPINS]
    /\ response \in [Port -> KV!Replies]
    /\ job \in Jobs /\ todo \in [Client -> Nat]
    /\ client \in [Client -> Live \cup {"done", "failed", "refused", "killed"}]
    /\ conn \in [Client -> {"none", "queued", "open", "shut"}]
    /\ responses \in [Client -> KV!Replies \cup {None}]
    /\ reset \in [Client -> BOOLEAN]

(* "just declaring one of these in a block makes the block run *only* when *)
(* holding the lock" (spinlock.cc): unless a spinning thread has cleared a *)
(* lock that was held, one thread at most is inside, and lock is 1 exactly *)
(* when one is; a late grab of a lock that has become free does no harm.   *)
OneInside ==
    ~grabbed => /\ \A t, u \in Port : pc[t] \in Inside /\ pc[u] \in Inside => t = u
                /\ lock = 1 <=> \E t \in Port : pc[t] \in Inside

(* No thread acts on half a request, however the parts arrive and wherever *)
(* the client is killed, and each reads from a connection of its own.      *)
NothingHalfRead ==
    \A t \in Port : up /\ pc[t] \in Serve =>
        /\ got[t] = Message(command[serving[t]])
        /\ \A u \in Port : serving[u] = serving[t] => t = u

(* A client is left without a response only when the server stops, when    *)
(* another client was killed at a bad moment and took the server with it,  *)
(* or when it asks again after a method that does not exist.               *)
FailsOnlyIf ==
    \A c \in Client : client[c] = "failed" =>
        \/ stopping
        \/ ~up /\ \E d \in Client : client[d] = "killed"
        \/ command[c].method = "other" /\ todo[c] < job.reps[c]

(* Reads, writes, deletes and resets of all clients take effect at one     *)
(* instant each, at most once, as long as no held lock is grabbed.         *)
AtomicStore == KV!Atomic

(* Every request comes to an end: with a response, or because the server   *)
(* gives up the connection, also for clients that wait for their port      *)
(* behind one that was killed.                                             *)
RequestsEnd == \A c \in Client : client[c] = "await" ~> client[c] # "await"
=============================================================================
