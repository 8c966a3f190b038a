--------------------------- MODULE RpcServer_proofs ---------------------------
(***************************************************************************)
(* The RPC server for any number of ports and clients, any jobs and any    *)
(* limit on spinning: its spin lock, its requests, what it leaves its      *)
(* clients with, and that it implements KeyValueStore.                     *)
(***************************************************************************)
EXTENDS RpcServer, TLAPS

(* The lock is 0 or 1, and pc says where each thread is.                   *)
LockType == lock \in {0, 1} /\ pc \in [Port -> PCs]

IInv == LockType /\ OneInside

(* A thread that moves neither into nor out of the lock.                   *)
LEMMA MoveKeeps ==
    ASSUME IInv, NEW t \in Port, NEW l \in PCs, Goto(t, l),
           l \in Inside <=> pc[t] \in Inside,
           lock' = lock, grabbed' = grabbed
    PROVE  IInv'
<1>1. pc' \in [Port -> PCs] /\ \A u \in Port : pc'[u] \in Inside <=> pc[u] \in Inside
  BY DEF IInv, LockType, Goto
<1>2. LockType'
  BY <1>1 DEF IInv, LockType
<1>3. OneInside'
  BY <1>1 DEF IInv, OneInside
<1> QED
  BY <1>2, <1>3 DEF IInv

(* Steps that touch neither pc nor the lock.                               *)
LEMMA IdleKeeps ==
    ASSUME IInv, pc' = pc, lock' = lock, grabbed' = grabbed
    PROVE  IInv'
  BY DEF IInv, LockType, OneInside

LEMMA LoopKeeps ==
    ASSUME IInv, NEW t \in Port,
           \/ Listen(t) \/ (\E c \in Client : Accept(t, c)) \/ NextRequest(t)
           \/ ReadSome(t) \/ ReadEnd(t) \/ ReadError(t) \/ Dispatch(t)
           \/ SendResponse(t) \/ Close(t)
    PROVE  IInv'
<1> USE DEF PCs, Serve, Inside, lockvars, threadvars
<1>1. CASE Listen(t)
  BY <1>1, MoveKeeps DEF Listen
<1>2. CASE \E c \in Client : Accept(t, c)
  BY <1>2, MoveKeeps DEF Accept
<1>3. CASE NextRequest(t)
  BY <1>3, MoveKeeps DEF NextRequest
<1>4. CASE ReadSome(t)
  BY <1>4, IdleKeeps DEF ReadSome
<1>5. CASE ReadEnd(t)
  BY <1>5, MoveKeeps DEF ReadEnd
<1>6. CASE ReadError(t)
  BY <1>6, IdleKeeps DEF ReadError, Exit
<1>7. CASE Dispatch(t)
  BY <1>7, MoveKeeps DEF Dispatch
<1>8. CASE SendResponse(t)
  BY <1>8, MoveKeeps DEF SendResponse
<1>9. CASE Close(t)
  BY <1>9, MoveKeeps DEF Close
<1> QED
  BY <1>1, <1>2, <1>3, <1>4, <1>5, <1>6, <1>7, <1>8, <1>9

(* A look does not change the lock, nor does a test-and-set that fails;    *)
(* one that succeeds found nobody inside, and leaving frees the lock.      *)
LEMMA LockKeeps ==
    ASSUME IInv, NEW t \in Port,
           Look(t) \/ Try(t) \/ Find(t) \/ Act(t) \/ ReleaseSpinlock(t)
    PROVE  IInv'
<1> USE DEF PCs, Serve, Inside, lockvars
<1>1. CASE Look(t)
  <2>1. CASE pc' = pc
    BY <1>1, <2>1, IdleKeeps DEF Look
  <2>2. CASE Goto(t, "try") \/ Goto(t, "grab")
    BY <1>1, <2>2, MoveKeeps DEF Look
  <2> QED
    BY <1>1, <2>1, <2>2 DEF Look
<1>2. CASE Try(t)
  <2>1. CASE lock = 1
    BY <1>2, <2>1, MoveKeeps DEF Try
  <2>2. CASE lock = 0
    <3>1. lock' = 1 /\ pc' = [pc EXCEPT ![t] = "find"] /\ grabbed' = grabbed
      BY <1>2, <2>2 DEF Try, Goto
    <3>2. LockType'
      BY <3>1 DEF IInv, LockType
    <3>3. ~grabbed => \A u \in Port : pc[u] \notin Inside
      BY <2>2 DEF IInv, OneInside
    <3>4. OneInside'
      BY <3>1, <3>3 DEF IInv, LockType, OneInside
    <3> QED
      BY <3>2, <3>4 DEF IInv
  <2> QED
    BY <2>1, <2>2 DEF IInv, LockType
<1>3. CASE Find(t)
  BY <1>3, MoveKeeps DEF Find
<1>4. CASE Act(t)
  BY <1>4, MoveKeeps DEF Act
<1>5. CASE ReleaseSpinlock(t)
  <2>1. lock' = 0 /\ pc' = [pc EXCEPT ![t] = "reply"] /\ grabbed' = grabbed
        /\ pc[t] = "release"
    BY <1>5 DEF ReleaseSpinlock, Goto
  <2>2. LockType'
    BY <2>1 DEF IInv, LockType
  <2>3. OneInside'
    BY <2>1 DEF IInv, LockType, OneInside
  <2> QED
    BY <2>2, <2>3 DEF IInv
<1> QED
  BY <1>1, <1>2, <1>3, <1>4, <1>5

(* A grab either breaks the lock, and says so, or finds it free.           *)
LEMMA GrabKeeps ==
    ASSUME IInv, NEW t \in Port, Grab(t)
    PROVE  IInv'
<1> USE DEF PCs, Serve, Inside
<1>1. lock' = 0 /\ Goto(t, "look") /\ pc[t] = "grab" /\ grabbed' = (grabbed \/ lock = 1)
  BY DEF Grab
<1>2. LockType'
  BY <1>1 DEF IInv, LockType, Goto
<1>3. CASE lock = 1
  BY <1>1, <1>2, <1>3 DEF IInv, OneInside
<1>4. CASE lock = 0
  <2>1. ~grabbed' => ~grabbed
    BY <1>1
  <2>2. \A u \in Port : pc'[u] \in Inside <=> pc[u] \in Inside
    BY <1>1 DEF IInv, LockType, Goto
  <2>3. OneInside'
    BY <1>1, <1>4, <2>1, <2>2 DEF IInv, OneInside
  <2> QED
    BY <1>2, <2>3 DEF IInv
<1> QED
  BY <1>3, <1>4 DEF IInv, LockType

LEMMA NextIInv == IInv /\ [Next]_vars => IInv'
<1> SUFFICES ASSUME IInv, [Next]_vars PROVE IInv'
  OBVIOUS
<1>1. ASSUME NEW t \in Port, Thread(t) PROVE IInv'
  BY <1>1, LoopKeeps, LockKeeps, GrabKeeps DEF Thread
<1>2. ASSUME NEW c \in Client, ClientStep(c) \/ Kill(c) \/ ConnectToServer(c)
      PROVE  IInv'
  BY <1>2, IdleKeeps DEF ClientStep, SendRequest, ReceiveResponse, NoResponse, Kill,
                         ConnectToServer, servervars, lockvars, threadvars
<1>3. CASE TimeUp \/ MainExit
  BY <1>3, IdleKeeps DEF TimeUp, MainExit, Exit, lockvars, threadvars
<1>4. CASE UNCHANGED vars
  BY <1>4, IdleKeeps DEF vars, lockvars, threadvars
<1> QED
  BY <1>1, <1>2, <1>3, <1>4 DEF Next

(* AcquireSpinlock and ReleaseSpinlock let one thread at a time into the   *)
(* map, however many threads there are and however they are interrupted,   *)
(* unless a spinning thread has run out of patience and cleared a lock     *)
(* that was held.                                                          *)
THEOREM OneInsideHolds == Spec => []OneInside
<1>1. Init => IInv
  BY DEF Init, IInv, LockType, OneInside, PCs, Inside
<1>2. IInv => OneInside
  BY DEF IInv
<1> QED
  BY <1>1, <1>2, NextIInv, PTL DEF Spec


(***************************************************************************)
(* Types                                                                   *)
(***************************************************************************)

Parts == [name : {"marker", "header", "key", "value"}, datalen : 0 .. 2]
Away == {"start", "top", "accept", "ended"}

(* Types, with those of the parts of messages; a client at work has still  *)
(* to ask, and a thread has a connection between Accept and Close.         *)
Types ==
    /\ TypeOK
    /\ got \in [Port -> Seq(Parts)] /\ requests \in [Client -> Seq(Parts)]
    /\ \A c \in Client : client[c] \in Live => todo[c] # 0
    /\ \A t \in Port : serving[t] = None <=> pc[t] \in Away

LEMMA ReplyFacts ==
    /\ KV!Fail \in KV!Replies
    /\ \A v \in Value \cup {None} : KV!Success(v) \in KV!Replies
    /\ \A p \in KV!Replies : p # None
  BY NoneAssumption DEF KV!Replies, KV!Fail, KV!Success

LEMMA Concat ==
    ASSUME NEW S, NEW s \in Seq(S), NEW u \in Seq(S)
    PROVE  /\ s \o u \in Seq(S) /\ Len(s \o u) = Len(s) + Len(u)
           /\ \A i \in 1 .. Len(s) + Len(u) :
                 (s \o u)[i] = IF i <= Len(s) THEN s[i] ELSE u[i - Len(s)]
  OBVIOUS

LEMMA Sub ==
    ASSUME NEW S, NEW s \in Seq(S), NEW n \in 0 .. Len(s)
    PROVE  /\ SubSeq(s, 1, n) \in Seq(S) /\ Len(SubSeq(s, 1, n)) = n
           /\ \A i \in 1 .. n : SubSeq(s, 1, n)[i] = s[i]
           /\ SubSeq(s, n + 1, Len(s)) \in Seq(S)
           /\ Len(SubSeq(s, n + 1, Len(s))) = Len(s) - n
           /\ \A i \in 1 .. Len(s) - n : SubSeq(s, n + 1, Len(s))[i] = s[n + i]
  OBVIOUS

LEMMA MessageFacts ==
    ASSUME NEW r
    PROVE  /\ Message(r) \in Seq(Parts) /\ Len(Message(r)) = 2 + Len(Arguments(r))
           /\ Message(r)[1].datalen = Len(Arguments(r)) /\ Len(Arguments(r)) \in 0 .. 2
<1>1. /\ Len(Arguments(r)) \in 0 .. 2
      /\ \A i \in 1 .. Len(Arguments(r)) : Arguments(r)[i] \in {"key", "value"}
  <2>1. CASE r.method \in {"write", "sink"}
    <3>1. Arguments(r) = <<"key", "value">>
      BY <2>1 DEF Arguments
    <3> QED
      BY <3>1
  <2>2. CASE r.method \in {"read", "delete"}
    <3>1. Arguments(r) = <<"key">>
      BY <2>2 DEF Arguments
    <3> QED
      BY <3>1
  <2>3. CASE r.method \notin {"write", "sink", "read", "delete"}
    <3>1. Arguments(r) = <<>>
      BY <2>3 DEF Arguments
    <3> QED
      BY <3>1
  <2> QED
    BY <2>1, <2>2, <2>3
<1> DEFINE n == Len(Arguments(r))
           s == <<Part("marker", n), Part("header", 0)>>
           u == [i \in 1 .. n |-> Part(Arguments(r)[i], 0)]
<1>2. Part("marker", n) \in Parts /\ Part("header", 0) \in Parts
      /\ Part("marker", n).datalen = n
  BY <1>1 DEF Part, Parts
<1>3. s \in Seq(Parts) /\ Len(s) = 2 /\ s[1] = Part("marker", n)
  BY <1>2
<1>4. \A i \in 1 .. n : Part(Arguments(r)[i], 0) \in Parts
  BY <1>1 DEF Part, Parts
<1>5. n \in Nat
  BY <1>1
<1>6. u \in Seq(Parts) /\ Len(u) = n
  BY <1>4, <1>5
<1>7. Message(r) = s \o u
  BY DEF Message
<1> HIDE DEF s, u, n
<1>8. s \o u \in Seq(Parts) /\ Len(s \o u) = 2 + n /\ (s \o u)[1] = s[1]
  <2>1. /\ s \o u \in Seq(Parts) /\ Len(s \o u) = Len(s) + Len(u)
        /\ \A i \in 1 .. Len(s) + Len(u) :
              (s \o u)[i] = IF i <= Len(s) THEN s[i] ELSE u[i - Len(s)]
    BY Concat, <1>3, <1>6, Zenon
  <2> QED
    BY <1>3, <1>5, <1>6, <2>1
<1> QED
  BY <1>1, <1>2, <1>3, <1>7, <1>8 DEF n

LEMMA InitTypes == Init => Types
<1> SUFFICES ASSUME Init PROVE Types
  OBVIOUS
<1>1. job.reps \in [Client -> Nat \ {0}]
  BY JobsAssumption DEF Init
<1>2. TypeOK
  <2>1. response \in [Port -> KV!Replies]
    BY ReplyFacts DEF Init
  <2> QED
    <3>1. /\ key_value \in Stores /\ pc \in [Port -> PCs]
          /\ safety_count \in [Port -> 0 .. SPINS] /\ todo \in [Client -> Nat]
      BY <1>1, PortAssumption DEF Init, Stores, PCs
    <3>2. /\ serving \in [Port -> Client \cup {None}] /\ found \in [Port -> Value \cup {None}]
          /\ client \in [Client -> Live \cup {"done", "failed", "refused", "killed"}]
          /\ conn \in [Client -> {"none", "queued", "open", "shut"}]
          /\ responses \in [Client -> KV!Replies \cup {None}]
          /\ reset \in [Client -> BOOLEAN]
      BY DEF Init, Live
    <3> QED
      BY <2>1, <3>1, <3>2 DEF Init, TypeOK
<1> QED
  BY <1>1, <1>2 DEF Init, Types, Away

LEMMA ShutTypes ==
    ASSUME Types, NEW S, Shut(S)
    PROVE  /\ conn' \in [Client -> {"none", "queued", "open", "shut"}]
           /\ requests' \in [Client -> Seq(Parts)]
<1>1. <<>> \in Seq(Parts)
  OBVIOUS
<1>2. \A c \in Client : (IF c \in S THEN <<>> ELSE requests[c]) \in Seq(Parts)
  BY <1>1 DEF Types
<1>3. \A c \in Client :
         (IF c \in S THEN "shut" ELSE conn[c]) \in {"none", "queued", "open", "shut"}
  BY DEF Types, TypeOK
<1> QED
  BY <1>2, <1>3 DEF Shut

LEMMA ExitTypes ==
    ASSUME Types, Exit, UNCHANGED stopping
    PROVE  Types'
<1>1. /\ conn' \in [Client -> {"none", "queued", "open", "shut"}]
      /\ requests' \in [Client -> Seq(Parts)]
  BY ShutTypes DEF Exit
<1> QED
  BY <1>1 DEF Exit, Types, TypeOK, lockvars, mapvars, threadvars, clientvars

(* The server loop, but for reading                                        *)
LEMMA LoopTypes ==
    ASSUME Types, NEW t \in Port,
           \/ Listen(t) \/ (\E c \in Client : Accept(t, c)) \/ NextRequest(t)
           \/ ReadEnd(t) \/ ReadError(t) \/ Dispatch(t)
           \/ SendResponse(t) \/ Close(t)
    PROVE  Types'
<1> USE DEF Types, TypeOK, lockvars, mapvars, threadvars, netvars, clientvars, Goto, Away
<1>p. None \notin Client /\ SPINS \in Nat
  BY PortAssumption
<1>1. CASE Listen(t)
  <2>1. PICK l \in {"ended", "accept"} : pc' = [pc EXCEPT ![t] = l] /\ pc[t] \in Away
    BY <1>1 DEF Listen
  <2>2. /\ conn' \in [Client -> {"none", "queued", "open", "shut"}]
        /\ requests' \in [Client -> Seq(Parts)]
    <3>1. CASE stopping
      BY <1>1, <3>1, ShutTypes DEF Listen
    <3>2. CASE ~stopping
      BY <1>1, <3>2 DEF Listen
    <3> QED
      BY <3>1, <3>2
  <2> QED
    BY <1>1, <2>1, <2>2 DEF Listen, PCs
<1>2. CASE \E c \in Client : Accept(t, c)
  BY <1>p, <1>2 DEF Accept, PCs, Serve
<1>3. CASE NextRequest(t)
  BY <1>3 DEF NextRequest, PCs, Serve
<1>5. CASE ReadEnd(t)
  BY <1>5 DEF ReadEnd, PCs, Serve
<1>6. CASE ReadError(t)
  BY <1>6, ExitTypes DEF ReadError
<1>7. CASE Dispatch(t)
  <2>1. PICK l \in {"look", "reply"} : pc' = [pc EXCEPT ![t] = l] /\ pc[t] \notin Away
    BY <1>7 DEF Dispatch
  <2>2. response' \in [Port -> KV!Replies] /\ safety_count' \in [Port -> 0 .. SPINS]
    BY <1>7, <1>p, ReplyFacts DEF Dispatch
  <2>3. stopping' \in BOOLEAN
    BY <1>7 DEF Dispatch
  <2> QED
    BY <1>7, <2>1, <2>2, <2>3 DEF Dispatch, PCs, Serve
<1>8. CASE SendResponse(t)
  <2>1. PICK l \in {"next", "close"} : pc' = [pc EXCEPT ![t] = l] /\ pc[t] \notin Away
    BY <1>8 DEF SendResponse
  <2>2. /\ responses' \in [Client -> KV!Replies \cup {None}]
        /\ reset' \in [Client -> BOOLEAN] /\ got' \in [Port -> Seq(Parts)]
    <3>1. serving[t] \in Client /\ response[t] \in KV!Replies
      BY <2>1
    <3>4. got' = [got EXCEPT ![t] = <<>>] /\ <<>> \in Seq(Parts)
      BY <1>8 DEF SendResponse
    <3>5. got' \in [Port -> Seq(Parts)]
      BY <3>4
    <3>2. CASE client[serving[t]] \in Live
      BY <1>8, <3>1, <3>2, <3>5 DEF SendResponse
    <3>3. CASE client[serving[t]] \notin Live
      BY <1>8, <3>1, <3>3, <3>5 DEF SendResponse
    <3> QED
      BY <3>2, <3>3
  <2> QED
    BY <1>8, <2>1, <2>2 DEF SendResponse, PCs
<1>9. CASE Close(t)
  BY <1>9 DEF Close, Shut, PCs, Serve
<1> QED
  BY <1>1, <1>2, <1>3, <1>5, <1>6, <1>7, <1>8, <1>9

LEMMA ReadTypes ==
    ASSUME Types, NEW t \in Port, ReadSome(t)
    PROVE  Types'
<1> USE DEF Types
<1>1. PICK n \in 1 .. Needed(got[t]) :
         /\ n <= Len(requests[serving[t]])
         /\ got' = [got EXCEPT ![t] = @ \o SubSeq(requests[serving[t]], 1, n)]
         /\ requests' = [requests EXCEPT ![serving[t]] = SubSeq(@, n + 1, Len(@))]
  BY DEF ReadSome
<1>2. serving[t] \in Client
  BY DEF ReadSome, TypeOK, Away
<1>3. got[t] \in Seq(Parts) /\ requests[serving[t]] \in Seq(Parts)
  BY <1>2
<1>4. n \in Nat /\ n \in 0 .. Len(requests[serving[t]])
  BY <1>1, <1>3
<1>5. /\ SubSeq(requests[serving[t]], 1, n) \in Seq(Parts)
      /\ SubSeq(requests[serving[t]], n + 1, Len(requests[serving[t]])) \in Seq(Parts)
  BY Sub, <1>3, <1>4, Zenon
<1>6. got[t] \o SubSeq(requests[serving[t]], 1, n) \in Seq(Parts)
  BY Concat, <1>3, <1>5, Zenon
<1>7. got' \in [Port -> Seq(Parts)] /\ requests' \in [Client -> Seq(Parts)]
  BY <1>1, <1>2, <1>5, <1>6
<1> QED
  BY <1>7 DEF ReadSome, TypeOK, lockvars, mapvars, clientvars

LEMMA LockTypes ==
    ASSUME Types, NEW t \in Port,
           Look(t) \/ Grab(t) \/ Try(t) \/ Find(t) \/ Act(t) \/ ReleaseSpinlock(t)
    PROVE  Types'
<1> USE DEF Types, TypeOK, lockvars, mapvars, netvars, clientvars
<1>1. serving[t] \in Client /\ command[serving[t]].key \in Key
      /\ command[serving[t]].value \in Value
  <2>1. serving[t] \in Client
    BY DEF Look, Grab, Try, Find, Act, ReleaseSpinlock, Away
  <2> QED
    BY <2>1, JobsAssumption DEF command
<1>2. PICK l \in Serve : pc' = [pc EXCEPT ![t] = l] /\ pc[t] \in Serve
  BY DEF Look, Grab, Try, Find, Act, ReleaseSpinlock, Goto, Serve, Inside
<1>3. /\ pc' \in [Port -> PCs]
      /\ \A u \in Port : serving[u] = None <=> pc'[u] \in Away
  BY <1>2 DEF PCs, Serve, Inside, Away
<1>4. CASE Look(t)
  <2>1. safety_count' \in [Port -> 0 .. SPINS]
    <3>1. CASE lock # 0 /\ safety_count[t] < SPINS
      <4>1. SPINS \in Nat /\ safety_count[t] + 1 \in 0 .. SPINS
        BY <3>1, PortAssumption
      <4>2. safety_count' = [safety_count EXCEPT ![t] = safety_count[t] + 1]
        BY <1>4, <3>1 DEF Look
      <4> QED
        BY <4>1, <4>2
    <3>2. CASE lock = 0 \/ ~ (safety_count[t] < SPINS)
      BY <1>4, <3>2 DEF Look
    <3> QED
      BY <3>1, <3>2
  <2> QED
    BY <1>3, <1>4, <2>1 DEF Look
<1>5. CASE Grab(t)
  BY <1>3, <1>5 DEF Grab
<1>6. CASE Try(t)
  BY <1>3, <1>6 DEF Try
<1>7. CASE Find(t)
  <2>1. found' \in [Port -> Value \cup {None}]
    BY <1>1, <1>7 DEF Find, Stores
  <2> QED
    BY <1>3, <1>7, <2>1 DEF Find
<1>8. CASE Act(t)
  <2> DEFINE r == command[serving[t]]
  <2>1. found[t] \in Value \cup {None}
    OBVIOUS
  <2>2. CASE \A u \in Port \ {t} : pc[u] \notin Inside
    <3>1. key_value' = CASE r.method = "write" -> [key_value EXCEPT ![r.key] = r.value]
                      [] r.method = "delete" -> [key_value EXCEPT ![r.key] = None]
                      [] r.method = "reset" -> [k \in Key |-> None]
                      [] OTHER -> key_value
      BY <1>8, <2>2 DEF Act
    <3>2. key_value' \in Stores
      BY <1>1, <3>1 DEF Stores
    <3>3. PICK p \in KV!Replies : response' = [response EXCEPT ![t] = p]
      BY <1>8, <2>1, <2>2, ReplyFacts DEF Act
    <3> QED
      BY <1>3, <1>8, <3>2, <3>3 DEF Act
  <2>3. CASE ~ \A u \in Port \ {t} : pc[u] \notin Inside
    <3>1. key_value' \in Stores
      BY <1>8, <2>3 DEF Act
    <3>3. PICK p \in KV!Replies : response' = [response EXCEPT ![t] = p]
      BY <1>8, <2>3 DEF Act
    <3> QED
      BY <1>3, <1>8, <3>1, <3>3 DEF Act
  <2> QED
    BY <2>2, <2>3
<1>9. CASE ReleaseSpinlock(t)
  BY <1>3, <1>9 DEF ReleaseSpinlock
<1> QED
  BY <1>4, <1>5, <1>6, <1>7, <1>8, <1>9

LEMMA ClientTypes ==
    ASSUME Types, NEW c \in Client, ClientStep(c) \/ Kill(c) \/ ConnectToServer(c)
    PROVE  Types'
<1> USE DEF Types, TypeOK, servervars, lockvars, mapvars, threadvars, netvars, ClientGoto
<1>1. CASE SendRequest(c)
  <2>1. requests' \in [Client -> Seq(Parts)]
    BY <1>1, MessageFacts DEF SendRequest
  <2> QED
    BY <1>1, <2>1 DEF SendRequest, Live
<1>2. CASE ReceiveResponse(c)
  <2>1. todo[c] \in Nat \ {0}
    BY <1>2 DEF ReceiveResponse, Live
  <2>2. todo' \in [Client -> Nat] /\ \A d \in Client : client'[d] \in Live => todo'[d] # 0
    BY <1>2, <2>1 DEF ReceiveResponse, Live
  <2> QED
    BY <1>2, <2>2 DEF ReceiveResponse, Live
<1>3. CASE NoResponse(c)
  BY <1>3 DEF NoResponse, Live
<1>4. CASE Kill(c)
  <2>1. PICK n \in 0 .. Len(requests[c]) : requests' = [requests EXCEPT ![c] = SubSeq(@, 1, n)]
    BY <1>4 DEF Kill
  <2>2. SubSeq(requests[c], 1, n) \in Seq(Parts)
    BY Sub, Zenon
  <2>3. requests' \in [Client -> Seq(Parts)]
    BY <2>1, <2>2
  <2> QED
    BY <1>4, <2>3 DEF Kill, Live
<1>5. CASE ConnectToServer(c)
  BY <1>5 DEF ConnectToServer, Live
<1> QED
  BY <1>1, <1>2, <1>3, <1>4, <1>5 DEF ClientStep

LEMMA NextTypes == Types /\ [Next]_vars => Types'
<1> SUFFICES ASSUME Types, [Next]_vars PROVE Types'
  OBVIOUS
<1>1. ASSUME NEW t \in Port, Thread(t) PROVE Types'
  BY <1>1, LoopTypes, ReadTypes, LockTypes DEF Thread
<1>2. CASE TimeUp
  BY <1>2 DEF TimeUp, Types, TypeOK, lockvars, mapvars, threadvars, netvars, clientvars
<1>3. CASE MainExit
  BY <1>3, ExitTypes DEF MainExit
<1>4. CASE UNCHANGED vars
  BY <1>4 DEF vars, Types, TypeOK, lockvars, mapvars, threadvars, netvars, clientvars
<1> QED
  BY <1>1, <1>2, <1>3, <1>4, ClientTypes DEF Next

(* Types of the server, its messages and its clients: among them that a    *)
(* count of spins stays within its limit, that a map holds values only and *)
(* that no client asks more often than it was told to.                     *)
THEOREM TypeCorrect == Spec => []Types
  BY InitTypes, NextTypes, PTL DEF Spec

(***************************************************************************)
(* Requests                                                                *)
(***************************************************************************)

(* s is a stretch of the message m that begins after its first n parts.    *)
Follows(s, n, m) == n + Len(s) <= Len(m) /\ \A i \in 1 .. Len(s) : s[i] = m[n + i]

LEMMA FollowsNone ==
    ASSUME NEW m \in Seq(Parts), NEW n \in 0 .. Len(m)
    PROVE  Follows(<<>>, n, m)
  BY DEF Follows

LEMMA FollowsAll ==
    ASSUME NEW m \in Seq(Parts)
    PROVE  Follows(m, 0, m)
  BY DEF Follows

LEMMA FollowsPrefix ==
    ASSUME NEW m \in Seq(Parts), NEW s \in Seq(Parts), NEW k \in Nat, Follows(s, k, m),
           NEW n \in 0 .. Len(s)
    PROVE  Follows(SubSeq(s, 1, n), k, m)
<1>1. Len(SubSeq(s, 1, n)) = n /\ \A i \in 1 .. n : SubSeq(s, 1, n)[i] = s[i]
  BY Sub, Zenon
<1> QED
  BY <1>1 DEF Follows

LEMMA FollowsMore ==
    ASSUME NEW m \in Seq(Parts), NEW s \in Seq(Parts), NEW u \in Seq(Parts),
           Follows(s, 0, m), Follows(u, Len(s), m), NEW n \in 0 .. Len(u)
    PROVE  LET g == s \o SubSeq(u, 1, n) IN
           Follows(g, 0, m) /\ Follows(SubSeq(u, n + 1, Len(u)), Len(g), m)
<1> DEFINE v == SubSeq(u, 1, n)
           w == SubSeq(u, n + 1, Len(u))
           g == s \o v
<1>1. /\ v \in Seq(Parts) /\ Len(v) = n /\ \A i \in 1 .. n : v[i] = u[i]
      /\ Len(w) = Len(u) - n /\ \A i \in 1 .. Len(u) - n : w[i] = u[n + i]
  BY Sub, Zenon
<1> HIDE DEF v, w
<1>2. /\ g \in Seq(Parts) /\ Len(g) = Len(s) + Len(v)
      /\ \A i \in 1 .. Len(s) + Len(v) : g[i] = IF i <= Len(s) THEN s[i] ELSE v[i - Len(s)]
  BY <1>1, Concat, Zenon
<1> HIDE DEF g
<1>3. Follows(g, 0, m)
  <2>1. Len(g) = Len(s) + n /\ Len(s) \in Nat /\ Len(s) + Len(u) <= Len(m)
    BY <1>1, <1>2 DEF Follows
  <2>2. ASSUME NEW i \in 1 .. Len(s) PROVE g[i] = m[i]
    BY <1>1, <1>2, <2>1, <2>2 DEF Follows
  <2>3. ASSUME NEW i \in Len(s) + 1 .. Len(s) + n PROVE g[i] = m[i]
    <3>1. i - Len(s) \in 1 .. n /\ i = Len(s) + (i - Len(s))
      BY <2>1
    <3>2. g[i] = v[i - Len(s)] /\ v[i - Len(s)] = u[i - Len(s)]
      BY <1>1, <1>2, <2>1, <3>1
    <3>3. u[i - Len(s)] = m[Len(s) + (i - Len(s))]
      BY <3>1 DEF Follows
    <3> QED
      BY <3>1, <3>2, <3>3
  <2>4. ASSUME NEW i \in 1 .. Len(g) PROVE g[i] = m[0 + i]
    <3>1. i \in 1 .. Len(s) \/ i \in Len(s) + 1 .. Len(s) + n
      BY <2>1
    <3>2. g[i] = m[i]
      BY <2>2, <2>3, <3>1
    <3> QED
      BY <3>2
  <2>5. 0 + Len(g) <= Len(m)
    BY <2>1
  <2> QED
    BY <2>4, <2>5 DEF Follows
<1>4. Follows(w, Len(g), m)
  <2>1. /\ Len(g) = Len(s) + n /\ Len(w) = Len(u) - n /\ Len(s) \in Nat /\ Len(u) \in Nat
        /\ Len(s) + Len(u) <= Len(m)
    BY <1>1, <1>2 DEF Follows
  <2>2. ASSUME NEW i \in 1 .. Len(w) PROVE w[i] = m[Len(g) + i]
    <3>1. n + i \in 1 .. Len(u) /\ Len(s) + (n + i) = Len(g) + i /\ i \in 1 .. Len(u) - n
      BY <2>1
    <3>2. w[i] = u[n + i]
      BY <1>1, <3>1
    <3>3. u[n + i] = m[Len(s) + (n + i)]
      BY <3>1 DEF Follows
    <3> QED
      BY <3>1, <3>2, <3>3
  <2>3. Len(g) + Len(w) <= Len(m)
    BY <2>1
  <2> QED
    BY <2>2, <2>3 DEF Follows
<1> QED
  BY <1>3, <1>4 DEF g, v, w

LEMMA FollowsEnd ==
    ASSUME NEW m \in Seq(Parts), NEW s \in Seq(Parts), Follows(s, Len(m), m)
    PROVE  s = <<>>
  BY DEF Follows

LEMMA FollowsWhole ==
    ASSUME NEW r, NEW s \in Seq(Parts), Follows(s, 0, Message(r)), Complete(s)
    PROVE  s = Message(r)
<1> DEFINE m == Message(r)
<1>1. m \in Seq(Parts) /\ Len(m) = 2 + m[1].datalen
  BY MessageFacts
<1> HIDE DEF m
<1>2. Len(s) # 0 /\ Len(s) = 2 + s[1].datalen
  BY DEF Complete
<1>3. s[1] = m[1]
  BY <1>2 DEF Follows, m
<1>4. Len(s) = Len(m) /\ \A i \in 1 .. Len(s) : s[i] = m[i]
  BY <1>1, <1>2, <1>3 DEF Follows, m
<1> QED
  BY <1>1, <1>4 DEF m

(* A connection is served by one thread.                                   *)
Connected ==
    /\ \A t \in Port : serving[t] # None => conn[serving[t]] = "open"
    /\ \A t, u \in Port : serving[t] # None /\ serving[t] = serving[u] => t = u

(* What a thread has read and what it has yet to read are one message or   *)
(* less, and a connection that waits or is shut holds no more than that.   *)
Idle == \A t \in Port : pc[t] \in Away \cup {"next"} => got[t] = <<>>
Ahead ==
    \A t \in Port : serving[t] # None =>
       /\ Follows(got[t], 0, Message(command[serving[t]]))
       /\ Follows(requests[serving[t]], Len(got[t]), Message(command[serving[t]]))
Whole == \A t \in Port : pc[t] \in Serve => got[t] = Message(command[serving[t]])
Waiting ==
    \A c \in Client : (\A t \in Port : serving[t] # c) =>
       Follows(requests[c], 0, Message(command[c]))
Dropped == \A c \in Client : conn[c] = "shut" => requests[c] = <<>>
Streams == Idle /\ Ahead /\ Whole /\ Waiting /\ Dropped

(* A client that is not waiting, and not dead, has no request on the way.  *)
OneRequest ==
    \A c \in Client : client[c] \notin {"await", "killed"} \/ responses[c] # None =>
       requests[c] = <<>> /\ \A t \in Port : serving[t] = c => got[t] = <<>>

ClientsTrue ==
    \A c \in Client :
       /\ responses[c] # None => client[c] = "await"
       /\ client[c] = "start" => conn[c] = "none"
       /\ reset[c] => client[c] = "killed"
       /\ todo[c] <= job.reps[c]

(* Why a thread closes a connection, and why one has been shut             *)
GivenUp(c) == command[c].method = "other" /\ (responses[c] # None \/ todo[c] < job.reps[c])
CloseReason ==
    \A t \in Port : pc[t] = "close" =>
       stopping \/ client[serving[t]] \notin Live \/ GivenUp(serving[t])
ShutReason ==
    \A c \in Client : conn[c] = "shut" /\ client[c] \in {"send", "await"} =>
       \/ stopping \/ GivenUp(c)
       \/ ~up /\ \E d \in Client : client[d] = "killed"

(* What holds while the server runs, and what holds after that as well     *)
Running == Connected /\ Streams /\ OneRequest /\ CloseReason
Always == ClientsTrue /\ ShutReason /\ FailsOnlyIf
NInv == Types /\ Always /\ (up => Running)

LEMMA InitNInv == Init => NInv
<1> SUFFICES ASSUME Init PROVE NInv
  OBVIOUS
<1>1. Types /\ job \in Jobs
  BY InitTypes DEF Init
<1>2. \A c \in Client : todo[c] <= job.reps[c]
  BY <1>1, JobsAssumption DEF Init
<1>3. Always
  BY <1>2 DEF Init, Always, ClientsTrue, ShutReason, FailsOnlyIf
<1>4. \A c \in Client : Follows(<<>>, 0, Message(command[c]))
  BY FollowsNone, MessageFacts
<1>5. Streams
  BY <1>1, <1>4, PortAssumption DEF Init, Streams, Idle, Ahead, Whole, Waiting, Dropped, Serve, Inside
<1>6. Connected /\ OneRequest /\ CloseReason
  BY DEF Init, Connected, OneRequest, CloseReason
<1> QED
  BY <1>1, <1>3, <1>5, <1>6 DEF NInv, Running

(* A thread in the middle of a request moves on.                           *)
LEMMA ServeKeeps ==
    ASSUME NInv, Types', NEW t \in Port, NEW l \in Serve,
           pc[t] \in Serve, pc' = [pc EXCEPT ![t] = l],
           UNCHANGED <<serving, got, netvars, clientvars, stopping, up>>
    PROVE  NInv'
<1> USE DEF netvars, clientvars
<1>1. Always'
  BY DEF NInv, Always, ClientsTrue, ShutReason, FailsOnlyIf, GivenUp, command
<1>2. /\ Connected => Connected'
      /\ OneRequest => OneRequest'
  BY DEF Connected, OneRequest
<1>3. CloseReason => CloseReason'
  BY DEF NInv, Types, TypeOK, CloseReason, GivenUp, command, Serve, Inside
<1>4. Streams => Streams'
  BY DEF NInv, Types, TypeOK, Streams, Idle, Ahead, Whole, Waiting, Dropped, command,
         Serve, Inside, Away
<1> QED
  BY <1>1, <1>2, <1>3, <1>4 DEF NInv, Running

LEMMA LockStepKeeps ==
    ASSUME NInv, Types', NEW t \in Port,
           Look(t) \/ Grab(t) \/ Try(t) \/ Find(t) \/ Act(t) \/ ReleaseSpinlock(t)
    PROVE  NInv'
<1>1. \E l \in Serve : pc' = [pc EXCEPT ![t] = l]
  BY DEF NInv, Types, TypeOK, Look, Grab, Try, Find, Act, ReleaseSpinlock, Goto, Serve, Inside
<1>2. pc[t] \in Serve /\ UNCHANGED <<serving, got, netvars, clientvars, stopping, up>>
  BY DEF Look, Grab, Try, Find, Act, ReleaseSpinlock, Serve, Inside
<1> QED
  BY <1>1, <1>2, ServeKeeps

LEMMA ListenKeeps ==
    ASSUME NInv, Types', NEW t \in Port, Listen(t)
    PROVE  NInv'
<1> DEFINE S == IF stopping THEN {c \in Client : conn[c] = "queued" /\ at[c] = t} ELSE {}
<1> USE DEF clientvars
<1>1. /\ up /\ up' /\ stopping' = stopping /\ pc[t] \in Away
      /\ UNCHANGED <<serving, got, responses, reset, job, todo, client>>
  BY DEF Listen, Away
<1>2. PICK l \in {"ended", "accept"} : pc' = [pc EXCEPT ![t] = l]
  BY DEF Listen, Goto
<1>3. /\ conn' = [c \in Client |-> IF c \in S THEN "shut" ELSE conn[c]]
      /\ requests' = [c \in Client |-> IF c \in S THEN <<>> ELSE requests[c]]
  <2>1. CASE stopping
    BY <2>1 DEF Listen, Shut
  <2>2. CASE ~stopping
    BY <2>2 DEF Listen, NInv, Types, TypeOK
  <2> QED
    BY <2>1, <2>2
<1>4. \A c \in S : c \in Client /\ conn[c] = "queued" /\ stopping
  OBVIOUS
<1> HIDE DEF S
<1>5. Connected /\ Streams /\ OneRequest /\ CloseReason
  BY <1>1 DEF NInv, Running
<1>6. \A u \in Port : serving[u] # None => serving[u] \in Client /\ serving[u] \notin S
  BY <1>4, <1>5 DEF Connected, NInv, Types, TypeOK
<1>7. \A c \in Client : Follows(<<>>, 0, Message(command[c]))
  BY FollowsNone, MessageFacts
<1>8. Connected'
  BY <1>1, <1>3, <1>5, <1>6 DEF Connected
<1>9. Streams'
  <2>1. Idle' /\ Whole'
    BY <1>1, <1>2, <1>5 DEF Streams, Idle, Whole, Away, Serve, Inside, NInv, Types, TypeOK, command
  <2>2. Ahead'
    BY <1>1, <1>3, <1>5, <1>6 DEF Streams, Ahead, command
  <2>3. Waiting' /\ Dropped'
    BY <1>1, <1>3, <1>5, <1>7 DEF Streams, Waiting, Dropped, command
  <2> QED
    BY <2>1, <2>2, <2>3 DEF Streams
<1>10. OneRequest'
  BY <1>1, <1>3, <1>5 DEF OneRequest
<1>11. CloseReason'
  BY <1>1, <1>2, <1>5 DEF CloseReason, GivenUp, command, NInv, Types, TypeOK
<1>12. ClientsTrue' /\ FailsOnlyIf'
  BY <1>1, <1>3, <1>4 DEF NInv, Always, ClientsTrue, FailsOnlyIf, command
<1>13. ShutReason'
  BY <1>1, <1>3, <1>4 DEF NInv, Always, ShutReason, GivenUp, command
<1> QED
  BY <1>8, <1>9, <1>10, <1>11, <1>12, <1>13 DEF NInv, Running, Always

LEMMA AcceptKeeps ==
    ASSUME NInv, Types', NEW t \in Port, NEW c \in Client, Accept(t, c)
    PROVE  NInv'
<1> USE DEF clientvars
<1>1. /\ up /\ up' /\ stopping' = stopping /\ pc[t] = "accept" /\ pc' = [pc EXCEPT ![t] = "next"]
      /\ conn[c] = "queued" /\ conn' = [conn EXCEPT ![c] = "open"]
      /\ serving' = [serving EXCEPT ![t] = c]
      /\ UNCHANGED <<got, requests, responses, reset, job, todo, client>>
  BY DEF Accept, Goto
<1>2. /\ Connected /\ Streams /\ OneRequest /\ CloseReason
      /\ pc \in [Port -> PCs] /\ serving \in [Port -> Client \cup {None}]
      /\ conn \in [Client -> {"none", "queued", "open", "shut"}]
  BY <1>1 DEF NInv, Running, Types, TypeOK
<1>3. \A u \in Port : serving[u] # c
  BY <1>1, <1>2, PortAssumption DEF Connected
<1>4. got[t] = <<>> /\ Len(got[t]) = 0
  BY <1>1, <1>2 DEF Streams, Idle, Away
<1>5. Follows(<<>>, 0, Message(command[c])) /\ Follows(requests[c], 0, Message(command[c]))
  BY <1>2, <1>3, FollowsNone, MessageFacts DEF Streams, Waiting
<1>6. Connected'
  BY <1>1, <1>2, <1>3, PortAssumption DEF Connected
<1>7. Streams'
  <2>1. Idle' /\ Whole' /\ Dropped'
    BY <1>1, <1>2, <1>4 DEF Streams, Idle, Whole, Dropped, Away, Serve, Inside, command
  <2>2. Ahead'
    BY <1>1, <1>2, <1>4, <1>5 DEF Streams, Ahead, command
  <2>3. Waiting'
    <3> SUFFICES ASSUME NEW d \in Client, \A u \in Port : serving'[u] # d
                 PROVE  Follows(requests[d], 0, Message(command[d]))
      BY <1>1 DEF Waiting, command
    <3>1. d # c /\ \A u \in Port : serving[u] # d \/ u = t
      BY <1>1, <1>2
    <3>2. serving[t] = None /\ d # None
      BY <1>1, PortAssumption DEF NInv, Types, Away
    <3> QED
      BY <1>2, <3>1, <3>2 DEF Streams, Waiting
  <2> QED
    BY <2>1, <2>2, <2>3 DEF Streams
<1>8. OneRequest'
  BY <1>1, <1>2, <1>4 DEF OneRequest
<1>9. CloseReason'
  BY <1>1, <1>2 DEF CloseReason, GivenUp, command
<1>10. ClientsTrue' /\ FailsOnlyIf' /\ ShutReason'
  BY <1>1, <1>2 DEF NInv, Always, ClientsTrue, FailsOnlyIf, ShutReason, GivenUp, command
<1> QED
  BY <1>6, <1>7, <1>8, <1>9, <1>10 DEF NInv, Running, Always

(* Steps of a thread outside Serve and Away that change pc alone.          *)
LEMMA TurnKeeps ==
    ASSUME NInv, Types', NEW t \in Port, NextRequest(t) \/ ReadEnd(t)
    PROVE  NInv'
<1> USE DEF netvars, clientvars
<1>1. /\ up /\ pc[t] \in {"next", "read"} /\ UNCHANGED <<serving, got, netvars, clientvars, stopping, up>>
  BY DEF NextRequest, ReadEnd
<1>2. PICK l \in {"close", "read"} : pc' = [pc EXCEPT ![t] = l]
  BY DEF NextRequest, ReadEnd, Goto
<1>3. pc'[t] = "close" => stopping \/ client[serving[t]] \notin Live
  BY DEF NextRequest, ReadEnd, Goto, NInv, Types, TypeOK
<1>4. Connected /\ Streams /\ OneRequest /\ CloseReason /\ pc \in [Port -> PCs]
  BY <1>1 DEF NInv, Running, Types, TypeOK
<1>5. Always'
  BY <1>1 DEF NInv, Always, ClientsTrue, ShutReason, FailsOnlyIf, GivenUp, command
<1>6. Connected' /\ OneRequest'
  BY <1>1, <1>4 DEF Connected, OneRequest
<1>7. CloseReason'
  BY <1>1, <1>2, <1>3, <1>4 DEF CloseReason, GivenUp, command
<1>8. Streams'
  BY <1>1, <1>2, <1>4 DEF Streams, Idle, Ahead, Whole, Waiting, Dropped, command,
         Serve, Inside, Away
<1> QED
  BY <1>5, <1>6, <1>7, <1>8 DEF NInv, Running

(* However little is read at a time                                        *)
LEMMA ReadKeeps ==
    ASSUME NInv, Types', NEW t \in Port, ReadSome(t)
    PROVE  NInv'
<1> USE DEF clientvars
<1> DEFINE c == serving[t]
           m == Message(command[c])
<1>1. /\ up /\ pc[t] = "read"
      /\ UNCHANGED <<pc, serving, conn, responses, reset, job, todo, client, stopping, up>>
  BY DEF ReadSome
<1>2. /\ Connected /\ Streams /\ OneRequest /\ CloseReason
      /\ pc \in [Port -> PCs] /\ serving \in [Port -> Client \cup {None}]
      /\ got \in [Port -> Seq(Parts)] /\ requests \in [Client -> Seq(Parts)]
  BY <1>1 DEF NInv, Running, Types, TypeOK
<1>3. c \in Client /\ c # None
  BY <1>1 DEF NInv, Types, TypeOK, Away
<1>4. PICK n \in 1 .. Needed(got[t]) :
         /\ n <= Len(requests[c])
         /\ got' = [got EXCEPT ![t] = got[t] \o SubSeq(requests[c], 1, n)]
         /\ requests' = [requests EXCEPT ![c] = SubSeq(requests[c], n + 1, Len(requests[c]))]
  BY DEF ReadSome
<1>5. got[t] \in Seq(Parts) /\ requests[c] \in Seq(Parts) /\ m \in Seq(Parts)
  BY <1>2, <1>3, MessageFacts
<1>6. n \in 0 .. Len(requests[c]) /\ requests[c] # <<>>
  BY <1>4, <1>5
<1>7. Follows(got[t], 0, m) /\ Follows(requests[c], Len(got[t]), m)
  BY <1>2, <1>3 DEF Streams, Ahead
<1>8. /\ Follows(got[t] \o SubSeq(requests[c], 1, n), 0, m)
      /\ Follows(SubSeq(requests[c], n + 1, Len(requests[c])),
                 Len(got[t] \o SubSeq(requests[c], 1, n)), m)
  BY <1>5, <1>6, <1>7, FollowsMore, Zenon
<1>9. Follows(got'[t], 0, m) /\ Follows(requests'[c], Len(got'[t]), m)
  BY <1>2, <1>3, <1>4, <1>8
<1>10. /\ \A u \in Port \ {t} : got'[u] = got[u] /\ (serving[u] # None => serving[u] # c)
       /\ \A d \in Client \ {c} : requests'[d] = requests[d]
  BY <1>2, <1>3, <1>4 DEF Connected
<1> HIDE DEF m
<1>11. Streams'
  <2>1. Idle' /\ Whole'
    BY <1>1, <1>2, <1>10 DEF Streams, Idle, Whole, Away, Serve, Inside, command
  <2>2. Ahead'
    BY <1>1, <1>2, <1>9, <1>10 DEF Streams, Ahead, command, m
  <2>3. Waiting'
    BY <1>1, <1>2, <1>10 DEF Streams, Waiting, command
  <2>4. Dropped'
    BY <1>1, <1>2, <1>3, <1>10 DEF Streams, Dropped, Connected
  <2> QED
    BY <2>1, <2>2, <2>3, <2>4 DEF Streams
<1>12. OneRequest'
  BY <1>1, <1>2, <1>3, <1>6, <1>10 DEF OneRequest
<1>13. Connected' /\ CloseReason'
  BY <1>1, <1>2 DEF Connected, CloseReason, GivenUp, command
<1>14. Always'
  BY <1>1 DEF NInv, Always, ClientsTrue, ShutReason, FailsOnlyIf, GivenUp, command
<1> QED
  BY <1>11, <1>12, <1>13, <1>14 DEF NInv, Running

(* The process ends because of a reset, which only a killed client leaves, *)
(* or because the server stops.                                            *)
LEMMA ExitKeeps ==
    ASSUME NInv, Types', (\E t \in Port : ReadError(t)) \/ MainExit
    PROVE  NInv'
<1> USE DEF clientvars
<1>1. stopping \/ \E d \in Client : client[d] = "killed"
  <2>1. ASSUME NEW t \in Port, ReadError(t) PROVE \E d \in Client : client[d] = "killed"
    <3>1. serving[t] \in Client /\ reset[serving[t]]
      BY <2>1 DEF ReadError, NInv, Types, TypeOK, Away
    <3> QED
      BY <3>1 DEF NInv, Always, ClientsTrue
  <2> QED
    BY <2>1 DEF MainExit
<1>2. Exit /\ stopping' = stopping
  BY DEF ReadError, MainExit
<1>3. /\ ~up' /\ UNCHANGED <<responses, reset, job, todo, client>>
      /\ conn' = [c \in Client |-> IF conn[c] \in {"queued", "open"} THEN "shut" ELSE conn[c]]
  BY <1>2 DEF Exit, Shut
<1>4. ClientsTrue' /\ FailsOnlyIf'
  BY <1>2, <1>3 DEF NInv, Always, ClientsTrue, FailsOnlyIf, command
<1>5. ShutReason'
  BY <1>1, <1>2, <1>3 DEF NInv, Always, ShutReason
<1> QED
  BY <1>3, <1>4, <1>5 DEF NInv, Always

(* A request that is complete is the message that was sent.                *)
LEMMA DispatchKeeps ==
    ASSUME NInv, Types', NEW t \in Port, Dispatch(t)
    PROVE  NInv'
<1> USE DEF netvars, clientvars
<1>1. /\ up /\ pc[t] = "read" /\ Complete(got[t]) /\ (stopping => stopping')
      /\ UNCHANGED <<serving, got, netvars, clientvars, up>>
  BY DEF Dispatch
<1>2. PICK l \in {"look", "reply"} : pc' = [pc EXCEPT ![t] = l]
  BY DEF Dispatch, Goto
<1>3. /\ Connected /\ Streams /\ OneRequest /\ CloseReason
      /\ pc \in [Port -> PCs] /\ got[t] \in Seq(Parts) /\ serving[t] # None
  BY <1>1 DEF NInv, Running, Types, TypeOK, Away
<1>4. got[t] = Message(command[serving[t]])
  <2>1. Follows(got[t], 0, Message(command[serving[t]]))
    BY <1>3 DEF Streams, Ahead
  <2> QED
    BY <1>1, <1>3, <2>1, FollowsWhole
<1>5. Streams'
  BY <1>1, <1>2, <1>3, <1>4 DEF Streams, Idle, Ahead, Whole, Waiting, Dropped, command,
         Serve, Inside, Away
<1>6. Connected' /\ OneRequest'
  BY <1>1, <1>3 DEF Connected, OneRequest
<1>7. CloseReason'
  BY <1>1, <1>2, <1>3 DEF CloseReason, GivenUp, command
<1>8. ClientsTrue' /\ FailsOnlyIf' /\ ShutReason'
  BY <1>1 DEF NInv, Always, ClientsTrue, ShutReason, FailsOnlyIf, GivenUp, command
<1> QED
  BY <1>5, <1>6, <1>7, <1>8 DEF NInv, Running, Always

(* The client that gets a response has asked for it, and sent no more.     *)
LEMMA SendKeeps ==
    ASSUME NInv, Types', NEW t \in Port, SendResponse(t)
    PROVE  NInv'
<1> USE DEF clientvars
<1> DEFINE c == serving[t]
           m == Message(command[c])
<1>1. /\ up /\ pc[t] = "reply" /\ got' = [got EXCEPT ![t] = <<>>]
      /\ pc' = [pc EXCEPT ![t] = IF KeepsConnection(t) THEN "next" ELSE "close"]
      /\ UNCHANGED <<serving, conn, requests, job, todo, client, stopping, up>>
  BY DEF SendResponse, Goto
<1>2. /\ Connected /\ Streams /\ OneRequest /\ CloseReason
      /\ pc \in [Port -> PCs] /\ serving \in [Port -> Client \cup {None}]
      /\ got \in [Port -> Seq(Parts)] /\ requests \in [Client -> Seq(Parts)]
      /\ DOMAIN responses = Client /\ DOMAIN reset = Client
      /\ client \in [Client -> Live \cup {"done", "failed", "refused", "killed"}]
  BY <1>1 DEF NInv, Running, Types, TypeOK
<1>3. c \in Client /\ c # None /\ response[t] # None
  BY <1>1, ReplyFacts DEF NInv, Types, TypeOK, Away
<1>4. m \in Seq(Parts) /\ Len(m) \in Nat /\ Len(m) >= 2
  <2>1. m \in Seq(Parts) /\ Len(m) = 2 + Len(Arguments(command[c])) /\ Len(Arguments(command[c])) \in 0 .. 2
    BY MessageFacts
  <2> QED
    BY <2>1
<1>5. got[t] = m /\ got[t] # <<>>
  BY <1>1, <1>2, <1>4 DEF Streams, Whole, Serve
<1>6. requests[c] = <<>>
  <2>1. Follows(requests[c], Len(m), m) /\ requests[c] \in Seq(Parts)
    BY <1>2, <1>3, <1>5 DEF Streams, Ahead
  <2> HIDE DEF m
  <2> QED
    BY <1>4, <2>1, FollowsEnd
<1>7. client[c] \in {"await", "killed"} /\ responses[c] = None
  BY <1>2, <1>3, <1>5 DEF OneRequest
<1> HIDE DEF m
<1>8. /\ client[c] = "await" => responses'[c] # None /\ reset' = reset
      /\ client[c] # "await" => responses' = responses /\ reset'[c]
      /\ \A d \in Client \ {c} : responses'[d] = responses[d] /\ reset'[d] = reset[d]
  BY <1>2, <1>3, <1>7 DEF SendResponse, Live
<1>9. \A u \in Port \ {t} : got'[u] = got[u] /\ pc'[u] = pc[u] /\ (serving[u] # None => serving[u] # c)
  BY <1>1, <1>2, <1>3 DEF Connected
<1>10. got'[t] = <<>> /\ pc'[t] \in {"next", "close"} /\ Len(got'[t]) = 0
       /\ (pc'[t] = "close" => command[c].method = "other")
  BY <1>1, <1>2 DEF KeepsConnection
<1>11. Connected'
  BY <1>1, <1>2 DEF Connected
<1>12. Streams'
  <2>1. Idle' /\ Whole'
    BY <1>1, <1>2, <1>9, <1>10 DEF Streams, Idle, Whole, Away, Serve, Inside, command
  <2>2. Ahead'
    <3>1. Follows(<<>>, 0, m)
      BY <1>4, FollowsNone
    <3> QED
      BY <1>1, <1>2, <1>6, <1>9, <1>10, <3>1 DEF Streams, Ahead, command, m
  <2>3. Waiting' /\ Dropped'
    BY <1>1, <1>2 DEF Streams, Waiting, Dropped, command
  <2> QED
    BY <2>1, <2>2, <2>3 DEF Streams
<1>13. OneRequest'
  <2>1. requests'[c] = <<>> /\ \A u \in Port : serving'[u] = c => got'[u] = <<>>
    BY <1>1, <1>3, <1>6, <1>9, <1>10
  <2>2. ASSUME NEW d \in Client, d # c, client[d] \notin {"await", "killed"} \/ responses'[d] # None
        PROVE  requests'[d] = <<>> /\ \A u \in Port : serving'[u] = d => got'[u] = <<>>
    <3>1. responses'[d] = responses[d]
      BY <1>8, <2>2
    <3>2. requests[d] = <<>> /\ \A u \in Port : serving[u] = d => got[u] = <<>>
      BY <1>2, <2>2, <3>1 DEF OneRequest
    <3> QED
      BY <1>1, <1>9, <2>2, <3>2
  <2> QED
    BY <1>1, <2>1, <2>2 DEF OneRequest
<1>14. \A d \in Client : GivenUp(d) => GivenUp(d)'
  BY <1>1, <1>3, <1>7, <1>8 DEF GivenUp, command
<1>15. CloseReason'
  <2>1. pc'[t] = "close" => client[c] \notin Live \/ GivenUp(c)'
    BY <1>1, <1>7, <1>8, <1>10 DEF GivenUp, command, Live
  <2>2. ASSUME NEW u \in Port, u # t, pc'[u] = "close"
        PROVE  stopping \/ client[serving[u]] \notin Live \/ GivenUp(serving[u])'
    <3>1. pc[u] = "close" /\ serving[u] \in Client
      BY <1>2, <1>9, <2>2 DEF NInv, Types, Away
    <3> QED
      BY <1>1, <1>2, <1>14, <3>1 DEF CloseReason
  <2> QED
    BY <1>1, <2>1, <2>2 DEF CloseReason, GivenUp, command
<1>16. ClientsTrue'
  BY <1>1, <1>3, <1>7, <1>8 DEF NInv, Always, ClientsTrue
<1>17. FailsOnlyIf' /\ ShutReason'
  BY <1>1, <1>14 DEF NInv, Always, FailsOnlyIf, ShutReason, command
<1> QED
  BY <1>11, <1>12, <1>13, <1>15, <1>16, <1>17 DEF NInv, Running, Always

LEMMA CloseKeeps ==
    ASSUME NInv, Types', NEW t \in Port, Close(t)
    PROVE  NInv'
<1> USE DEF clientvars
<1> DEFINE c == serving[t]
<1>1. /\ up /\ pc[t] = "close" /\ pc' = [pc EXCEPT ![t] = "top"]
      /\ conn' = [d \in Client |-> IF d = c THEN "shut" ELSE conn[d]]
      /\ requests' = [d \in Client |-> IF d = c THEN <<>> ELSE requests[d]]
      /\ serving' = [serving EXCEPT ![t] = None] /\ got' = [got EXCEPT ![t] = <<>>]
      /\ UNCHANGED <<responses, reset, job, todo, client, stopping, up>>
  BY DEF Close, Goto, Shut
<1>2. /\ Connected /\ Streams /\ OneRequest /\ CloseReason
      /\ pc \in [Port -> PCs] /\ serving \in [Port -> Client \cup {None}]
      /\ got \in [Port -> Seq(Parts)]
  BY <1>1 DEF NInv, Running, Types, TypeOK
<1>3. c \in Client /\ c # None /\ conn[c] = "open"
  <2>1. c # None
    BY <1>1 DEF NInv, Types, Away
  <2> QED
    BY <1>2, <2>1 DEF Connected
<1>4. /\ \A u \in Port \ {t} : /\ pc'[u] = pc[u] /\ got'[u] = got[u] /\ serving'[u] = serving[u]
                               /\ serving[u] # None => serving[u] # c
      /\ pc'[t] = "top" /\ got'[t] = <<>> /\ serving'[t] = None
  BY <1>1, <1>2, <1>3 DEF Connected
<1>5. Connected'
  BY <1>1, <1>2, <1>4 DEF Connected
<1>6. Streams'
  <2>1. Idle' /\ Whole'
    BY <1>1, <1>2, <1>4 DEF Streams, Idle, Whole, Away, Serve, Inside, command
  <2>2. Ahead'
    BY <1>1, <1>2, <1>4 DEF Streams, Ahead, command
  <2>3. Waiting'
    <3> SUFFICES ASSUME NEW d \in Client, \A u \in Port : serving'[u] # d
                 PROVE  Follows(requests'[d], 0, Message(command[d]))
      BY <1>1 DEF Waiting, command
    <3>1. CASE d = c
      BY <1>1, <3>1, FollowsNone, MessageFacts
    <3>2. CASE d # c
      <4>1. \A u \in Port : serving[u] # d
        BY <1>4, <3>2
      <4> QED
        BY <1>1, <1>2, <3>2, <4>1 DEF Streams, Waiting
    <3> QED
      BY <3>1, <3>2
  <2>4. Dropped'
    BY <1>1, <1>2 DEF Streams, Dropped
  <2> QED
    BY <2>1, <2>2, <2>3, <2>4 DEF Streams
<1>7. OneRequest'
  <2>1. ASSUME NEW d \in Client, client[d] \notin {"await", "killed"} \/ responses[d] # None
        PROVE  requests'[d] = <<>> /\ \A u \in Port : serving'[u] = d => got'[u] = <<>>
    <3>1. requests[d] = <<>> /\ \A u \in Port : serving[u] = d => got[u] = <<>>
      BY <1>2, <2>1 DEF OneRequest
    <3> QED
      BY <1>1, <1>4, <3>1
  <2> QED
    BY <1>1, <2>1 DEF OneRequest
<1>8. CloseReason'
  BY <1>1, <1>2, <1>4 DEF CloseReason, GivenUp, command
<1>9. ClientsTrue' /\ FailsOnlyIf'
  BY <1>1, <1>3 DEF NInv, Always, ClientsTrue, FailsOnlyIf, command
<1>10. stopping \/ client[c] \notin Live \/ GivenUp(c)
  BY <1>1, <1>2 DEF CloseReason
<1>11. ShutReason'
  BY <1>1, <1>3, <1>10 DEF NInv, Always, ShutReason, GivenUp, command, Live
<1> QED
  BY <1>5, <1>6, <1>7, <1>8, <1>9, <1>11 DEF NInv, Running, Always

LEMMA TimeKeeps ==
    ASSUME NInv, Types', TimeUp
    PROVE  NInv'
<1> USE DEF TimeUp, threadvars, netvars, clientvars
<1>1. Always'
  BY DEF NInv, Always, ClientsTrue, FailsOnlyIf, ShutReason, GivenUp, command
<1>2. Running => Running'
  BY DEF Running, Connected, Streams, Idle, Ahead, Whole, Waiting, Dropped, OneRequest,
         CloseReason, GivenUp, command
<1> QED
  BY <1>1, <1>2 DEF NInv

-----------------------------------------------------------------------------
(* The clients                                                             *)

LEMMA ConnectKeeps ==
    ASSUME NInv, Types', NEW c \in Client, ConnectToServer(c)
    PROVE  NInv'
<1> USE DEF servervars, threadvars
<1>1. /\ client[c] = "start" /\ conn[c] = "none"
      /\ UNCHANGED <<pc, serving, got, stopping, up, job, todo, requests, responses, reset>>
  BY DEF ConnectToServer, NInv, Always, ClientsTrue
<1>2. /\ client \in [Client -> Live \cup {"done", "failed", "refused", "killed"}]
      /\ conn \in [Client -> {"none", "queued", "open", "shut"}]
      /\ serving \in [Port -> Client \cup {None}]
      /\ \A t \in Port : serving[t] = None <=> pc[t] \in Away
  BY DEF NInv, Types, TypeOK
<1>3. /\ \A d \in Client \ {c} : conn'[d] = conn[d] /\ client'[d] = client[d]
      /\ client'[c] \in {"send", "refused"} /\ conn'[c] \in {"none", "queued"}
  <2>1. CASE up /\ pc[at[c]] \notin {"start", "ended"}
    BY <1>2, <2>1 DEF ConnectToServer, ClientGoto
  <2>2. CASE ~ (up /\ pc[at[c]] \notin {"start", "ended"})
    BY <1>1, <1>2, <2>2 DEF ConnectToServer, ClientGoto
  <2> QED
    BY <2>1, <2>2
<1>4. Always'
  <2>1. ClientsTrue'
    BY <1>1, <1>3 DEF NInv, Always, ClientsTrue
  <2>2. FailsOnlyIf'
    BY <1>1, <1>3 DEF NInv, Always, FailsOnlyIf, command
  <2>3. ShutReason'
    BY <1>1, <1>3 DEF NInv, Always, ShutReason, GivenUp, command
  <2> QED
    BY <2>1, <2>2, <2>3 DEF Always
<1>5. ASSUME up PROVE Running'
  <2>1. Connected /\ Streams /\ OneRequest /\ CloseReason
    BY <1>5 DEF NInv, Running
  <2>2. \A t \in Port : serving[t] # None => serving[t] # c
    BY <1>1, <2>1 DEF Connected
  <2>3. Connected'
    BY <1>1, <1>2, <1>3, <2>1, <2>2 DEF Connected
  <2>4. Streams'
    BY <1>1, <1>3, <2>1 DEF Streams, Idle, Ahead, Whole, Waiting, Dropped, command
  <2>5. OneRequest'
    BY <1>1, <1>3, <2>1 DEF OneRequest
  <2>6. CloseReason'
    BY <1>1, <1>2, <1>3, <2>1, <2>2 DEF CloseReason, GivenUp, command, Away
  <2> QED
    BY <2>3, <2>4, <2>5, <2>6 DEF Running
<1> QED
  BY <1>1, <1>4, <1>5 DEF NInv

LEMMA RequestKeeps ==
    ASSUME NInv, Types', NEW c \in Client, SendRequest(c)
    PROVE  NInv'
<1> USE DEF servervars, threadvars
<1> DEFINE m == Message(command[c])
<1>1. /\ client[c] = "send" /\ conn[c] # "shut"
      /\ UNCHANGED <<pc, serving, got, stopping, up, job, todo, conn, responses, reset>>
      /\ requests' = [requests EXCEPT ![c] = m] /\ client' = [client EXCEPT ![c] = "await"]
  BY DEF SendRequest, ClientGoto
<1>2. /\ client \in [Client -> Live \cup {"done", "failed", "refused", "killed"}]
      /\ requests \in [Client -> Seq(Parts)]
      /\ serving \in [Port -> Client \cup {None}]
      /\ \A t \in Port : serving[t] = None <=> pc[t] \in Away
  BY DEF NInv, Types, TypeOK
<1>3. /\ \A d \in Client \ {c} : requests'[d] = requests[d] /\ client'[d] = client[d]
      /\ client'[c] = "await" /\ requests'[c] = m
  BY <1>1, <1>2
<1>4. responses[c] = None /\ ~reset[c]
  BY <1>1 DEF NInv, Always, ClientsTrue
<1>5. Follows(m, 0, m)
  BY FollowsAll, MessageFacts
<1> HIDE DEF m
<1>6. Always'
  <2>1. ClientsTrue'
    BY <1>1, <1>3, <1>4 DEF NInv, Always, ClientsTrue
  <2>2. FailsOnlyIf'
    BY <1>1, <1>3 DEF NInv, Always, FailsOnlyIf, command
  <2>3. ShutReason'
    BY <1>1, <1>3 DEF NInv, Always, ShutReason, GivenUp, command
  <2> QED
    BY <2>1, <2>2, <2>3 DEF Always
<1>7. ASSUME up PROVE Running'
  <2>1. Connected /\ Streams /\ OneRequest /\ CloseReason
    BY <1>7 DEF NInv, Running
  <2>2. \A t \in Port : serving[t] = c => got[t] = <<>> /\ Len(got[t]) = 0
    BY <1>1, <2>1 DEF OneRequest
  <2>3. Connected'
    BY <1>1, <2>1 DEF Connected
  <2>4. Streams'
    <3>1. Idle' /\ Whole' /\ Dropped'
      BY <1>1, <1>3, <2>1 DEF Streams, Idle, Whole, Dropped, command
    <3>2. Ahead'
      BY <1>1, <1>2, <1>3, <1>5, <2>1, <2>2 DEF Streams, Ahead, command, m
    <3>3. Waiting'
      BY <1>1, <1>3, <1>5, <2>1 DEF Streams, Waiting, command, m
    <3> QED
      BY <3>1, <3>2, <3>3 DEF Streams
  <2>5. OneRequest'
    BY <1>1, <1>3, <1>4, <2>1 DEF OneRequest
  <2>6. CloseReason'
    BY <1>1, <1>2, <1>3, <2>1 DEF CloseReason, GivenUp, command, Away, Live
  <2> QED
    BY <2>3, <2>4, <2>5, <2>6 DEF Running
<1> QED
  BY <1>1, <1>6, <1>7 DEF NInv

LEMMA ReceiveKeeps ==
    ASSUME NInv, Types', NEW c \in Client, ReceiveResponse(c)
    PROVE  NInv'
<1> USE DEF servervars, threadvars
<1>1. /\ client[c] = "await" /\ responses[c] # None
      /\ UNCHANGED <<pc, serving, got, stopping, up, job, conn, requests, reset>>
      /\ responses' = [responses EXCEPT ![c] = None]
      /\ todo' = [todo EXCEPT ![c] = todo[c] - 1]
      /\ client' = [client EXCEPT ![c] = IF todo[c] = 1 THEN "done" ELSE "send"]
  BY DEF ReceiveResponse, ClientGoto
<1>2. /\ client \in [Client -> Live \cup {"done", "failed", "refused", "killed"}]
      /\ DOMAIN responses = Client /\ todo \in [Client -> Nat]
      /\ serving \in [Port -> Client \cup {None}] /\ job \in Jobs
      /\ \A t \in Port : serving[t] = None <=> pc[t] \in Away
  BY DEF NInv, Types, TypeOK
<1>3. /\ \A d \in Client \ {c} : /\ responses'[d] = responses[d] /\ client'[d] = client[d]
                                 /\ todo'[d] = todo[d]
      /\ client'[c] \in {"send", "done"} /\ responses'[c] = None /\ todo'[c] = todo[c] - 1
  BY <1>1, <1>2
<1>4. todo[c] \in Nat /\ job.reps[c] \in Nat /\ todo[c] <= job.reps[c]
  BY <1>2, JobsAssumption DEF NInv, Always, ClientsTrue
<1>5. todo'[c] <= job.reps[c] /\ todo'[c] < job.reps[c]
  BY <1>3, <1>4
<1>6. \A d \in Client : GivenUp(d) => GivenUp(d)'
  BY <1>1, <1>3, <1>5 DEF GivenUp, command
<1>7. ~reset[c]
  BY <1>1 DEF NInv, Always, ClientsTrue
<1>8. Always'
  <2>1. ClientsTrue'
    BY <1>1, <1>3, <1>5, <1>7 DEF NInv, Always, ClientsTrue
  <2>2. FailsOnlyIf'
    BY <1>1, <1>3 DEF NInv, Always, FailsOnlyIf, command
  <2>3. ShutReason'
    BY <1>1, <1>3, <1>6 DEF NInv, Always, ShutReason
  <2> QED
    BY <2>1, <2>2, <2>3 DEF Always
<1>9. ASSUME up PROVE Running'
  <2>1. Connected /\ Streams /\ OneRequest /\ CloseReason
    BY <1>9 DEF NInv, Running
  <2>2. Connected' /\ Streams'
    BY <1>1, <2>1 DEF Connected, Streams, Idle, Whole, Ahead, Waiting, Dropped, command
  <2>3. OneRequest'
    BY <1>1, <1>3, <2>1 DEF OneRequest
  <2>4. CloseReason'
    <3> SUFFICES ASSUME NEW t \in Port, pc[t] = "close"
                 PROVE  stopping \/ client'[serving[t]] \notin Live \/ GivenUp(serving[t])'
      BY <1>1 DEF CloseReason, GivenUp, command
    <3>1. serving[t] \in Client
      BY <1>2 DEF Away
    <3>2. client'[serving[t]] \in Live => client[serving[t]] \in Live
      BY <1>1, <1>3, <3>1 DEF Live
    <3> QED
      BY <1>1, <1>6, <2>1, <3>1, <3>2 DEF CloseReason
  <2> QED
    BY <2>1, <2>2, <2>3, <2>4 DEF Running
<1> QED
  BY <1>1, <1>8, <1>9 DEF NInv

LEMMA NoResponseKeeps ==
    ASSUME NInv, Types', NEW c \in Client, NoResponse(c)
    PROVE  NInv'
<1> USE DEF servervars, threadvars, netvars
<1>1. /\ client[c] \in {"send", "await"} /\ conn[c] = "shut" /\ responses[c] = None
      /\ UNCHANGED <<pc, serving, got, stopping, up, job, todo, conn, requests, responses, reset>>
      /\ client' = [client EXCEPT ![c] = "failed"]
  BY DEF NoResponse, ClientGoto
<1>2. /\ client \in [Client -> Live \cup {"done", "failed", "refused", "killed"}]
      /\ serving \in [Port -> Client \cup {None}]
      /\ \A t \in Port : serving[t] = None <=> pc[t] \in Away
  BY DEF NInv, Types, TypeOK
<1>3. (\A d \in Client \ {c} : client'[d] = client[d]) /\ client'[c] = "failed"
  BY <1>1, <1>2
<1>4. /\ ~reset[c]
      /\ \/ stopping \/ (~up /\ \E d \in Client : client[d] = "killed")
         \/ (command[c].method = "other" /\ todo[c] < job.reps[c])
  BY <1>1 DEF NInv, Always, ClientsTrue, ShutReason, GivenUp
<1>5. (\E d \in Client : client[d] = "killed") => \E d \in Client : client'[d] = "killed"
  BY <1>1, <1>3
<1>6. Always'
  <2>1. ClientsTrue'
    BY <1>1, <1>3, <1>4 DEF NInv, Always, ClientsTrue
  <2>2. FailsOnlyIf'
    BY <1>1, <1>3, <1>4, <1>5 DEF NInv, Always, FailsOnlyIf, command
  <2>3. ShutReason'
    BY <1>1, <1>3, <1>5 DEF NInv, Always, ShutReason, GivenUp, command
  <2> QED
    BY <2>1, <2>2, <2>3 DEF Always
<1>7. ASSUME up PROVE Running'
  <2>1. Connected /\ Streams /\ OneRequest /\ CloseReason
    BY <1>7 DEF NInv, Running
  <2>2. \A t \in Port : serving[t] # c
    BY <1>1, <1>2, <2>1, PortAssumption DEF Connected
  <2>3. Connected' /\ Streams'
    BY <1>1, <2>1 DEF Connected, Streams, Idle, Whole, Ahead, Waiting, Dropped, command
  <2>4. OneRequest'
    BY <1>1, <1>3, <2>1, <2>2 DEF OneRequest, Streams, Dropped
  <2>5. CloseReason'
    BY <1>1, <1>2, <1>3, <2>1, <2>2 DEF CloseReason, GivenUp, command, Away
  <2> QED
    BY <2>3, <2>4, <2>5 DEF Running
<1> QED
  BY <1>1, <1>6, <1>7 DEF NInv

(* A killed client leaves a prefix of its message.                         *)
LEMMA KillKeeps ==
    ASSUME NInv, Types', NEW c \in Client, Kill(c)
    PROVE  NInv'
<1> USE DEF servervars, threadvars
<1>1. /\ client[c] \in Live
      /\ UNCHANGED <<pc, serving, got, stopping, up, job, todo, conn>>
      /\ client' = [client EXCEPT ![c] = "killed"]
      /\ responses' = [responses EXCEPT ![c] = None]
      /\ reset' = [reset EXCEPT ![c] = responses[c] # None]
  BY DEF Kill, ClientGoto
<1>2. PICK n \in 0 .. Len(requests[c]) :
         requests' = [requests EXCEPT ![c] = SubSeq(requests[c], 1, n)]
  BY DEF Kill
<1>3. /\ client \in [Client -> Live \cup {"done", "failed", "refused", "killed"}]
      /\ requests \in [Client -> Seq(Parts)] /\ got \in [Port -> Seq(Parts)]
      /\ DOMAIN responses = Client /\ DOMAIN reset = Client
      /\ serving \in [Port -> Client \cup {None}]
      /\ \A t \in Port : serving[t] = None <=> pc[t] \in Away
  BY DEF NInv, Types, TypeOK
<1>4. /\ \A d \in Client \ {c} : /\ requests'[d] = requests[d] /\ client'[d] = client[d]
                                 /\ responses'[d] = responses[d] /\ reset'[d] = reset[d]
      /\ client'[c] = "killed" /\ responses'[c] = None
      /\ requests'[c] = SubSeq(requests[c], 1, n)
  BY <1>1, <1>2, <1>3
<1>5. \A k \in Nat : Follows(requests[c], k, Message(command[c])) =>
                     Follows(requests'[c], k, Message(command[c]))
  <2>1. requests[c] \in Seq(Parts) /\ Message(command[c]) \in Seq(Parts)
    BY <1>3, MessageFacts
  <2> QED
    BY <1>4, <2>1, FollowsPrefix
<1>6. requests[c] = <<>> => requests'[c] = <<>>
  BY <1>2, <1>4
<1>7. Always'
  <2>1. ClientsTrue'
    BY <1>1, <1>4 DEF NInv, Always, ClientsTrue
  <2>2. FailsOnlyIf'
    BY <1>1, <1>4 DEF NInv, Always, FailsOnlyIf, command
  <2>3. ShutReason'
    BY <1>1, <1>4 DEF NInv, Always, ShutReason, GivenUp, command
  <2> QED
    BY <2>1, <2>2, <2>3 DEF Always
<1>8. ASSUME up PROVE Running'
  <2>1. Connected /\ Streams /\ OneRequest /\ CloseReason
    BY <1>8 DEF NInv, Running
  <2>2. Connected'
    BY <1>1, <2>1 DEF Connected
  <2>3. Streams'
    <3>1. Idle' /\ Whole' /\ Dropped'
      BY <1>1, <1>4, <1>6, <2>1 DEF Streams, Idle, Whole, Dropped, command
    <3>2. Ahead'
      <4> SUFFICES ASSUME NEW t \in Port, serving[t] # None
                   PROVE  /\ Follows(got[t], 0, Message(command[serving[t]]))
                          /\ Follows(requests'[serving[t]], Len(got[t]),
                                     Message(command[serving[t]]))
        BY <1>1 DEF Ahead, command
      <4>1. /\ Follows(got[t], 0, Message(command[serving[t]]))
            /\ Follows(requests[serving[t]], Len(got[t]), Message(command[serving[t]]))
        BY <2>1 DEF Streams, Ahead
      <4>2. Len(got[t]) \in Nat /\ serving[t] \in Client
        BY <1>3
      <4> QED
        BY <1>4, <1>5, <4>1, <4>2
    <3>3. Waiting'
      BY <1>1, <1>4, <1>5, <2>1 DEF Streams, Waiting, command
    <3> QED
      BY <3>1, <3>2, <3>3 DEF Streams
  <2>4. OneRequest'
    BY <1>1, <1>4, <2>1 DEF OneRequest
  <2>5. CloseReason'
    BY <1>1, <1>3, <1>4, <2>1 DEF CloseReason, GivenUp, command, Away, Live
  <2> QED
    BY <2>2, <2>3, <2>4, <2>5 DEF Running
<1> QED
  BY <1>1, <1>7, <1>8 DEF NInv

LEMMA NextNInv == NInv /\ [Next]_vars => NInv'
<1> SUFFICES ASSUME NInv, [Next]_vars PROVE NInv'
  OBVIOUS
<1>1. Types'
  BY NextTypes DEF NInv
<1>2. ASSUME NEW t \in Port, Thread(t) PROVE NInv'
  BY <1>1, <1>2, ListenKeeps, AcceptKeeps, TurnKeeps, ReadKeeps, ExitKeeps, DispatchKeeps,
     LockStepKeeps, SendKeeps, CloseKeeps DEF Thread
<1>3. ASSUME NEW c \in Client, ClientStep(c) \/ Kill(c) \/ ConnectToServer(c) PROVE NInv'
  BY <1>1, <1>3, ConnectKeeps, RequestKeeps, ReceiveKeeps, NoResponseKeeps, KillKeeps
     DEF ClientStep
<1>4. CASE UNCHANGED vars
  BY <1>1, <1>4 DEF vars, threadvars, netvars, clientvars, NInv, Always, ClientsTrue,
     FailsOnlyIf, ShutReason, Running, Connected, Streams, Idle, Ahead, Whole, Waiting,
     Dropped, OneRequest, CloseReason, GivenUp, command
<1> QED
  BY <1>1, <1>2, <1>3, <1>4, ExitKeeps, TimeKeeps DEF Next

LEMMA AlwaysNInv == Spec => []NInv
  BY InitNInv, NextNInv, PTL DEF Spec

(* ReadOneRPC hands over whole requests only, each the message its client  *)
(* has sent, from a connection that no other thread reads from.            *)
THEOREM NothingHalfReadHolds == Spec => []NothingHalfRead
<1>1. NInv => NothingHalfRead
  BY DEF NInv, Running, Streams, Whole, Connected, NothingHalfRead, Types, Away, Serve, Inside
<1> QED
  BY <1>1, AlwaysNInv, PTL

(* A client of any server goes without a response only if the server       *)
(* stops, if a killed client has taken it down with a reset, or if it asks *)
(* again on the connection that DoError has given up.                      *)
THEOREM FailsOnlyIfHolds == Spec => []FailsOnlyIf
<1>1. NInv => FailsOnlyIf
  BY DEF NInv, Always
<1> QED
  BY <1>1, AlwaysNInv, PTL

(***************************************************************************)
(* The server implements the atomic store.                                 *)
(***************************************************************************)

Held == {"look", "grab", "try"} \cup Inside
Answered == {"release", "reply"}

(* Only methods that take the lock get to it, and what a thread has looked *)
(* up inside the lock is true until it acts.                               *)
TakesLock == \A t \in Port : pc[t] \in Held => command[serving[t]].method \in Locked
FoundTrue ==
    ~grabbed => \A t \in Port :
       pc[t] = "act" /\ command[serving[t]].method \in {"read", "delete"} =>
          found[t] = key_value[command[serving[t]].key]
RInv == IInv /\ NInv /\ TakesLock /\ FoundTrue

LEMMA AsideKeeps ==
    ASSUME TakesLock, FoundTrue, UNCHANGED <<found, key_value, job, grabbed>>,
           \A u \in Port : pc'[u] \in Held => pc[u] = pc'[u] /\ serving'[u] = serving[u]
    PROVE  TakesLock' /\ FoundTrue'
<1>1. "act" \in Held
  BY DEF Held, Inside
<1>2. TakesLock'
  BY DEF TakesLock, command
<1>3. FoundTrue'
  BY <1>1 DEF FoundTrue, command
<1> QED
  BY <1>2, <1>3

LEMMA LoopAside ==
    ASSUME RInv, NEW t \in Port,
           \/ Listen(t) \/ (\E c \in Client : Accept(t, c)) \/ NextRequest(t)
           \/ ReadSome(t) \/ ReadEnd(t) \/ ReadError(t) \/ Dispatch(t)
           \/ SendResponse(t) \/ Close(t)
    PROVE  TakesLock' /\ FoundTrue'
<1> USE DEF lockvars, mapvars, clientvars, threadvars
<1>1. /\ UNCHANGED <<found, key_value, job, grabbed>>
      /\ TakesLock /\ FoundTrue /\ pc \in [Port -> PCs] /\ serving \in [Port -> Client \cup {None}]
  BY DEF Listen, Accept, NextRequest, ReadSome, ReadEnd, ReadError, Exit, Dispatch,
         SendResponse, Close, RInv, NInv, Types, TypeOK
<1>2. CASE ~ (Dispatch(t) /\ command[serving[t]].method \in Locked)
  <2>1. /\ \A u \in Port \ {t} : pc'[u] = pc[u] /\ serving'[u] = serving[u]
        /\ pc'[t] \in Held => pc'[t] = pc[t] /\ serving'[t] = serving[t]
    BY <1>1, <1>2 DEF Listen, Accept, NextRequest, ReadSome, ReadEnd, ReadError, Exit, Dispatch,
       SendResponse, Close, Held, Inside, Goto
  <2> QED
    BY <1>1, <2>1, AsideKeeps
<1>3. CASE Dispatch(t) /\ command[serving[t]].method \in Locked
  <2>1. serving' = serving /\ pc' = [pc EXCEPT ![t] = "look"]
    BY <1>3 DEF Dispatch, Goto
  <2>2. TakesLock'
    BY <1>1, <1>3, <2>1 DEF TakesLock, command
  <2>3. FoundTrue'
    BY <1>1, <2>1 DEF FoundTrue, command
  <2> QED
    BY <2>2, <2>3
<1> QED
  BY <1>2, <1>3

LEMMA LockAside ==
    ASSUME RInv, NEW t \in Port,
           Look(t) \/ Grab(t) \/ Try(t) \/ Find(t) \/ Act(t) \/ ReleaseSpinlock(t)
    PROVE  TakesLock' /\ FoundTrue'
<1> USE DEF lockvars, mapvars, clientvars
<1>1. /\ UNCHANGED <<serving, job>> /\ (grabbed => grabbed')
      /\ TakesLock /\ FoundTrue /\ pc \in [Port -> PCs] /\ found \in [Port -> Value \cup {None}]
  BY DEF Look, Grab, Try, Find, Act, ReleaseSpinlock, RInv, NInv, Types, TypeOK
<1>2. \A u \in Port \ {t} : pc'[u] = pc[u]
  BY <1>1 DEF Look, Grab, Try, Find, Act, ReleaseSpinlock, Goto
<1>3. TakesLock'
  <2>1. pc[t] \in Held
    BY DEF Look, Grab, Try, Find, Act, ReleaseSpinlock, Held, Inside
  <2> QED
    BY <1>1, <1>2, <2>1 DEF TakesLock, command
<1>4. CASE Look(t) \/ Grab(t) \/ Try(t) \/ ReleaseSpinlock(t)
  <2>1. UNCHANGED <<found, key_value>> /\ pc'[t] # "act"
    BY <1>1, <1>4 DEF Look, Grab, Try, ReleaseSpinlock, Goto
  <2> QED
    BY <1>1, <1>2, <1>3, <2>1 DEF FoundTrue, command
<1>5. CASE Find(t)
  <2>1. /\ key_value' = key_value /\ grabbed' = grabbed
        /\ \A u \in Port \ {t} : found'[u] = found[u]
        /\ command[serving[t]].method \in {"read", "delete"} =>
              found'[t] = key_value[command[serving[t]].key]
    BY <1>1, <1>5 DEF Find
  <2> QED
    BY <1>1, <1>2, <1>3, <2>1 DEF FoundTrue, command
<1>6. CASE Act(t)
  <2>1. grabbed' = grabbed /\ pc[t] = "act" /\ pc'[t] = "release"
    BY <1>1, <1>6 DEF Act, Goto
  <2>2. ~grabbed => \A u \in Port \ {t} : pc[u] # "act"
    BY <2>1 DEF RInv, IInv, OneInside, Inside
  <2> QED
    BY <1>1, <1>2, <1>3, <2>1, <2>2 DEF FoundTrue
<1> QED
  BY <1>4, <1>5, <1>6

LEMMA NextRInv == RInv /\ [Next]_vars => RInv'
<1> SUFFICES ASSUME RInv, [Next]_vars PROVE RInv'
  OBVIOUS
<1>1. IInv' /\ NInv'
  BY NextIInv, NextNInv DEF RInv
<1>2. ASSUME UNCHANGED <<found, key_value, job, grabbed, pc, serving>>
      PROVE  TakesLock' /\ FoundTrue'
  BY <1>2, AsideKeeps DEF RInv
<1>3. ASSUME NEW t \in Port, Thread(t) PROVE TakesLock' /\ FoundTrue'
  BY <1>3, LoopAside, LockAside DEF Thread
<1>4. ASSUME NEW c \in Client, ClientStep(c) \/ Kill(c) \/ ConnectToServer(c)
      PROVE  TakesLock' /\ FoundTrue'
  BY <1>2, <1>4 DEF ClientStep, SendRequest, ReceiveResponse, NoResponse, Kill,
                    ConnectToServer, servervars, lockvars, mapvars, threadvars
<1>5. CASE TimeUp \/ MainExit
  <2>1. UNCHANGED <<found, key_value, job, grabbed, pc, serving>>
    BY <1>5 DEF TimeUp, MainExit, Exit, lockvars, mapvars, threadvars, clientvars
  <2> QED
    BY <1>1, <1>2, <2>1 DEF RInv
<1>6. CASE UNCHANGED vars
  <2>1. UNCHANGED <<found, key_value, job, grabbed, pc, serving>>
    BY <1>6 DEF vars, lockvars, mapvars, threadvars, clientvars
  <2> QED
    BY <1>1, <1>2, <2>1 DEF RInv
<1> QED
  BY <1>1, <1>3, <1>4, <1>5, <1>6 DEF Next, RInv

LEMMA AlwaysRInv == Spec => []RInv
<1>1. Init => RInv
  <2>1. Init => IInv
    BY DEF Init, IInv, LockType, OneInside, PCs, Inside
  <2>2. Init => TakesLock /\ FoundTrue
    BY DEF Init, TakesLock, FoundTrue, Held, Inside
  <2> QED
    BY <2>1, <2>2, InitNInv DEF RInv
<1> QED
  BY <1>1, NextRInv, PTL DEF Spec

-----------------------------------------------------------------------------
(* What the abstract state is                                              *)

ReplyTrue ==
    \A c \in Client :
       /\ responses[c] # None => Reply(c) = responses[c]
       /\ \A t \in ThreadOf(c) : /\ ThreadOf(c) = {t} /\ responses[c] = None
                                 /\ conn[c] = "open" /\ c \in Asked
                                 /\ Reply(c) = IF pc[t] \in Answered THEN response[t] ELSE None
       /\ ThreadOf(c) = {} /\ responses[c] = None => Reply(c) = None
       /\ c \notin Asked => Reply(c) = None

LEMMA ReplyIs == NInv => ReplyTrue
<1> SUFFICES ASSUME NInv, NEW c \in Client
             PROVE  /\ responses[c] # None => Reply(c) = responses[c]
                    /\ \A t \in ThreadOf(c) :
                          /\ ThreadOf(c) = {t} /\ responses[c] = None
                          /\ conn[c] = "open" /\ c \in Asked
                          /\ Reply(c) = IF pc[t] \in Answered THEN response[t] ELSE None
                    /\ ThreadOf(c) = {} /\ responses[c] = None => Reply(c) = None
                    /\ c \notin Asked => Reply(c) = None
  BY DEF ReplyTrue
<1>1. responses[c] # None => Reply(c) = responses[c] /\ c \in Asked
  BY DEF Reply, Asked
<1>2. ThreadOf(c) = {} /\ responses[c] = None => Reply(c) = None
  BY DEF Reply
<1>3. ASSUME NEW t \in ThreadOf(c)
      PROVE  /\ ThreadOf(c) = {t} /\ responses[c] = None
             /\ conn[c] = "open" /\ c \in Asked
             /\ Reply(c) = IF pc[t] \in Answered THEN response[t] ELSE None
  <2>1. t \in Port /\ up /\ serving[t] = c /\ got[t] # <<>> /\ c # None
    BY <1>3, PortAssumption DEF ThreadOf
  <2>2. Connected /\ OneRequest
    BY <2>1 DEF NInv, Running
  <2>3. ThreadOf(c) = {t} /\ conn[c] = "open"
    BY <2>1, <2>2 DEF Connected, ThreadOf
  <2>4. responses[c] = None
    BY <2>1, <2>2 DEF OneRequest
  <2>5. c \in Asked
    BY <1>3, <2>1, <2>3 DEF Asked
  <2>6. (CHOOSE u \in ThreadOf(c) : TRUE) = t
    BY <2>3
  <2>7. Reply(c) = IF pc[t] \in Answered THEN response[t] ELSE None
    BY <2>3, <2>4, <2>6 DEF Reply, Answered
  <2> QED
    BY <2>3, <2>4, <2>5, <2>7
<1> QED
  BY <1>1, <1>2, <1>3

LEMMA ReplyWillBe == NInv' => ReplyTrue'
  BY ReplyIs, PTL

(* Steps that carry out no request: some requests may end.                 *)
LEMMA EndStep ==
    ASSUME NInv, NInv', UNCHANGED <<key_value, grabbed, job>>,
           Asked' \subseteq Asked, \A c \in Asked' : Reply(c)' = Reply(c)
    PROVE  KV!Step
<1> DEFINE S == Asked \ Asked'
<1>1. ASSUME NEW c \in Client PROVE Reply(c)' = IF c \in S THEN None ELSE Reply(c)
  <2>1. c \notin Asked' => Reply(c)' = None
    BY ReplyWillBe DEF ReplyTrue
  <2>2. c \notin Asked => Reply(c) = None
    BY ReplyIs DEF ReplyTrue
  <2> QED
    BY <2>1, <2>2
<1>2. Asked' = Asked \ S /\ S \in SUBSET Client
  BY DEF Asked
<1> HIDE DEF S
<1>3. [c \in Client |-> Reply(c)]' = [c \in Client |-> IF c \in S THEN None ELSE [d \in Client |-> Reply(d)][c]]
  BY <1>1
<1>4. KV!End(S)
  BY <1>2, <1>3 DEF KV!End, command
<1> QED
  BY <1>2, <1>4 DEF KV!Step

(* A request is carried out.                                               *)
LEMMA DoStep ==
    ASSUME NEW c \in Asked, Reply(c) = None, UNCHANGED <<grabbed, job>>, Asked' = Asked,
           key_value' = KV!After(command[c], key_value),
           Reply(c)' = KV!Answer(command[c], key_value),
           \A d \in Client \ {c} : Reply(d)' = Reply(d)
    PROVE  KV!Step
<1>1. c \in Client
  BY DEF Asked
<1>2. [d \in Client |-> Reply(d)]' =
      [[d \in Client |-> Reply(d)] EXCEPT ![c] = KV!Answer(command[c], key_value)]
  BY <1>1
<1>3. [d \in Client |-> Reply(d)][c] = None
  BY <1>1
<1>4. KV!Do(c)
  BY <1>2, <1>3 DEF KV!Do, command
<1> QED
  BY <1>1, <1>4 DEF KV!Step

(* A reply does not depend on where its thread is, but for having answered.*)
LEMMA SameReply ==
    ASSUME NEW c \in Client, responses'[c] = responses[c], ThreadOf(c)' = ThreadOf(c),
           \A t \in ThreadOf(c) : /\ response'[t] = response[t]
                                  /\ pc'[t] \in Answered <=> pc[t] \in Answered
    PROVE  Reply(c)' = Reply(c)
<1>1. ThreadOf(c) # {} => (CHOOSE t \in ThreadOf(c) : TRUE) \in ThreadOf(c)
  OBVIOUS
<1> QED
  BY <1>1 DEF Reply, Answered

(* Steps inside a thread                                                   *)
LEMMA InnerStep ==
    ASSUME NInv, NInv', NEW t \in Port, pc'[t] \in Answered <=> pc[t] \in Answered,
           \A u \in Port \ {t} : pc'[u] = pc[u],
           UNCHANGED <<serving, got, response, conn, requests, responses, client, job, up>>
    PROVE  Asked' = Asked /\ \A c \in Client : Reply(c)' = Reply(c)
<1>1. \A c \in Client : ThreadOf(c)' = ThreadOf(c)
  BY DEF ThreadOf
<1>2. Asked' = Asked
  BY <1>1 DEF Asked
<1>3. ASSUME NEW c \in Client PROVE Reply(c)' = Reply(c)
  <2>1. \A u \in ThreadOf(c) : u \in Port
    BY DEF ThreadOf
  <2> QED
    BY <1>1, <2>1, SameReply
<1> QED
  BY <1>2, <1>3

LEMMA LockMaps ==
    ASSUME RInv, RInv', NEW t \in Port, Look(t) \/ Grab(t) \/ Try(t) \/ Find(t) \/ ReleaseSpinlock(t)
    PROVE  KV!Step
<1> USE DEF lockvars, mapvars, netvars, clientvars
<1>1. NInv /\ NInv' /\ pc \in [Port -> PCs] /\ grabbed \in BOOLEAN
  BY DEF RInv, NInv, Types, TypeOK
<1>2. /\ UNCHANGED <<key_value, serving, got, response, conn, requests, responses, client, job, up>>
  BY DEF Look, Grab, Try, Find, ReleaseSpinlock
<1>3. /\ pc'[t] \in Answered <=> pc[t] \in Answered
      /\ \A u \in Port \ {t} : pc'[u] = pc[u]
  BY <1>1 DEF Look, Grab, Try, Find, ReleaseSpinlock, Goto, Answered
<1>4. Asked' = Asked /\ \A c \in Client : Reply(c)' = Reply(c)
  BY <1>1, <1>2, <1>3, InnerStep
<1>5. CASE grabbed' = grabbed
  BY <1>1, <1>2, <1>4, <1>5, EndStep DEF Asked
<1>6. CASE grabbed'
  <2>1. [c \in Client |-> Reply(c)]' = [c \in Client |-> Reply(c)]
    BY <1>4
  <2>2. KV!Break
    BY <1>2, <1>4, <1>6, <2>1 DEF KV!Break, command
  <2> QED
    BY <2>2 DEF KV!Step
<1>7. grabbed' = grabbed \/ grabbed'
  <2>1. CASE Grab(t)
    BY <1>1, <2>1 DEF Grab
  <2>2. CASE ~Grab(t)
    BY <2>2 DEF Look, Try, Find, ReleaseSpinlock
  <2> QED
    BY <2>1, <2>2
<1> QED
  BY <1>5, <1>6, <1>7

LEMMA TurnMaps ==
    ASSUME RInv, RInv', NEW t \in Port, NextRequest(t) \/ ReadEnd(t)
    PROVE  KV!Step
<1> USE DEF lockvars, mapvars, netvars, clientvars
<1>1. NInv /\ NInv' /\ pc \in [Port -> PCs]
  BY DEF RInv, NInv, Types, TypeOK
<1>2. UNCHANGED <<key_value, grabbed, serving, got, response, conn, requests, responses,
                  client, job, up>>
  BY DEF NextRequest, ReadEnd
<1>3. /\ pc'[t] \in Answered <=> pc[t] \in Answered
      /\ \A u \in Port \ {t} : pc'[u] = pc[u]
  BY <1>1 DEF NextRequest, ReadEnd, Goto, Answered
<1>4. Asked' = Asked /\ \A c \in Client : Reply(c)' = Reply(c)
  BY <1>1, <1>2, <1>3, InnerStep
<1> QED
  BY <1>1, <1>2, <1>4, EndStep DEF Asked

LEMMA ListenMaps ==
    ASSUME RInv, RInv', NEW t \in Port, Listen(t)
    PROVE  KV!Step
<1> USE DEF lockvars, mapvars, clientvars
<1>1. NInv /\ NInv' /\ pc \in [Port -> PCs]
  BY DEF RInv, NInv, Types, TypeOK
<1>2. /\ UNCHANGED <<key_value, grabbed, serving, got, response, responses, client, job, up>>
      /\ pc[t] \notin Answered /\ pc'[t] \notin Answered /\ \A u \in Port \ {t} : pc'[u] = pc[u]
  BY <1>1 DEF Listen, Goto, Answered
<1>3. \A c \in Client : (conn'[c] = conn[c] /\ requests'[c] = requests[c]) \/ conn'[c] = "shut"
  BY DEF Listen, Shut
<1>4. ASSUME NEW c \in Client PROVE ThreadOf(c)' = ThreadOf(c) /\ Reply(c)' = Reply(c)
  <2>1. ThreadOf(c)' = ThreadOf(c) /\ \A u \in ThreadOf(c) : u \in Port
    BY <1>2 DEF ThreadOf
  <2> QED
    BY <1>2, <2>1, SameReply
<1>5. Asked' \subseteq Asked
  BY <1>2, <1>3, <1>4 DEF Asked
<1>6. \A c \in Asked' : Reply(c)' = Reply(c)
  BY <1>4 DEF Asked
<1> QED
  BY <1>1, <1>2, <1>5, <1>6, EndStep

LEMMA AcceptMaps ==
    ASSUME RInv, RInv', NEW t \in Port, NEW c \in Client, Accept(t, c)
    PROVE  KV!Step
<1> USE DEF lockvars, mapvars, clientvars
<1>1. NInv /\ NInv' /\ pc \in [Port -> PCs] /\ serving \in [Port -> Client \cup {None}]
      /\ conn \in [Client -> {"none", "queued", "open", "shut"}]
  BY DEF RInv, NInv, Types, TypeOK
<1>2. /\ UNCHANGED <<key_value, grabbed, got, response, requests, responses, client, job, up>>
      /\ pc[t] = "accept" /\ up /\ conn[c] = "queued" /\ conn' = [conn EXCEPT ![c] = "open"]
      /\ pc' = [pc EXCEPT ![t] = "next"] /\ serving' = [serving EXCEPT ![t] = c]
  BY DEF Accept, Goto
<1>3. got[t] = <<>>
  BY <1>1, <1>2 DEF NInv, Running, Streams, Idle, Away
<1>4. ASSUME NEW d \in Client PROVE ThreadOf(d)' = ThreadOf(d) /\ Reply(d)' = Reply(d)
  <2>1. ThreadOf(d)' = ThreadOf(d) /\ \A u \in ThreadOf(d) : u \in Port \ {t}
    BY <1>1, <1>2, <1>3 DEF ThreadOf
  <2> QED
    BY <1>1, <1>2, <2>1, SameReply
<1>5. Asked' = Asked
  BY <1>1, <1>2, <1>4 DEF Asked
<1>6. \A d \in Asked' : Reply(d)' = Reply(d)
  BY <1>4 DEF Asked
<1> QED
  BY <1>1, <1>2, <1>5, <1>6, EndStep

LEMMA ReadMaps ==
    ASSUME RInv, RInv', NEW t \in Port, ReadSome(t)
    PROVE  KV!Step
<1> USE DEF lockvars, mapvars, clientvars
<1>1. /\ NInv /\ NInv' /\ pc \in [Port -> PCs] /\ got \in [Port -> Seq(Parts)]
      /\ requests \in [Client -> Seq(Parts)] /\ serving \in [Port -> Client \cup {None}]
  BY DEF RInv, NInv, Types, TypeOK
<1>2. /\ UNCHANGED <<key_value, grabbed, pc, serving, response, conn, responses, client, job, up>>
      /\ pc[t] = "read" /\ up
  BY DEF ReadSome
<1>3. PICK c \in Client : c = serving[t] /\ c # None /\ Connected
  BY <1>1, <1>2 DEF NInv, Types, Running, Away
<1>4. PICK n \in 1 .. Needed(got[t]) :
         /\ n <= Len(requests[c])
         /\ got' = [got EXCEPT ![t] = got[t] \o SubSeq(requests[c], 1, n)]
         /\ requests' = [requests EXCEPT ![c] = SubSeq(requests[c], n + 1, Len(requests[c]))]
  BY <1>3 DEF ReadSome
<1>5. requests[c] # <<>> /\ got'[t] # <<>>
  <2>1. got[t] \in Seq(Parts) /\ requests[c] \in Seq(Parts)
    BY <1>1, <1>3
  <2>2. n \in 0 .. Len(requests[c]) /\ n >= 1 /\ requests[c] # <<>>
    BY <1>4, <2>1
  <2>3. SubSeq(requests[c], 1, n) \in Seq(Parts) /\ Len(SubSeq(requests[c], 1, n)) = n
    BY <2>1, <2>2, Sub, Zenon
  <2>4. Len(got[t] \o SubSeq(requests[c], 1, n)) = Len(got[t]) + Len(SubSeq(requests[c], 1, n))
    BY <2>1, <2>3, Concat, Zenon
  <2>5. got'[t] = got[t] \o SubSeq(requests[c], 1, n) /\ Len(got'[t]) # 0
    BY <1>1, <1>4, <2>1, <2>2, <2>3, <2>4
  <2>6. got'[t] # <<>>
    <3>1. Len(<<>>) = 0
      OBVIOUS
    <3> QED
      BY <2>5, <3>1, Zenon
  <2> QED
    BY <2>2, <2>6
<1>6. /\ \A u \in Port \ {t} : got'[u] = got[u]
      /\ \A d \in Client \ {c} : requests'[d] = requests[d]
  BY <1>1, <1>3, <1>4
<1>7. c \in Asked /\ c \in Asked'
  <2>1. conn[c] = "open" /\ t \in ThreadOf(c)'
    BY <1>2, <1>3, <1>5 DEF Connected, ThreadOf
  <2> QED
    BY <1>2, <1>3, <1>5, <2>1 DEF Asked
<1>8. \A d \in Client \ {c} : ThreadOf(d)' = ThreadOf(d)
  BY <1>2, <1>3, <1>6 DEF ThreadOf
<1>9. Asked' = Asked
  BY <1>2, <1>6, <1>7, <1>8 DEF Asked
<1>10. ASSUME NEW d \in Client PROVE Reply(d)' = Reply(d)
  <2>1. CASE d = c
    <3>1. t \in ThreadOf(c)'
      BY <1>2, <1>3, <1>5 DEF ThreadOf
    <3>2. Reply(c)' = None /\ responses'[c] = None
      BY <1>1, <1>2, <1>3, <3>1, ReplyWillBe DEF ReplyTrue, Answered
    <3>3. \A u \in ThreadOf(c) : u = t
      BY <1>2, <1>3 DEF ThreadOf, Connected
    <3>4. Reply(c) = None
      <4>1. CASE ThreadOf(c) = {}
        BY <1>1, <1>2, <3>2, <4>1, ReplyIs DEF ReplyTrue
      <4>2. CASE t \in ThreadOf(c)
        BY <1>1, <1>2, <4>2, ReplyIs DEF ReplyTrue, Answered
      <4> QED
        BY <3>3, <4>1, <4>2
    <3> QED
      BY <2>1, <3>2, <3>4
  <2>2. CASE d # c
    BY <1>2, <1>8, <2>2, SameReply
  <2> QED
    BY <2>1, <2>2
<1> QED
  BY <1>1, <1>2, <1>9, <1>10, EndStep DEF Asked

LEMMA ExitMaps ==
    ASSUME RInv, RInv', Exit
    PROVE  KV!Step
<1>1. NInv /\ NInv' /\ ~up' /\ UNCHANGED <<key_value, grabbed, responses, job>>
  BY DEF RInv, Exit, lockvars, mapvars, clientvars
<1>2. Asked' = {c \in Client : responses[c] # None}
  BY <1>1 DEF Asked
<1>3. \A c \in Asked' : c \in Asked /\ Reply(c)' = Reply(c)
  BY <1>1, <1>2 DEF Asked, Reply
<1> QED
  BY <1>1, <1>3, EndStep

LEMMA DispatchMaps ==
    ASSUME RInv, RInv', NEW t \in Port, Dispatch(t)
    PROVE  KV!Step
<1> USE DEF netvars, clientvars
<1>1. /\ NInv /\ NInv' /\ pc \in [Port -> PCs] /\ got \in [Port -> Seq(Parts)]
      /\ response \in [Port -> KV!Replies] /\ serving \in [Port -> Client \cup {None}]
      /\ job \in Jobs
  BY DEF RInv, NInv, Types, TypeOK
<1>2. /\ UNCHANGED <<key_value, grabbed, serving, got, conn, requests, responses, client, job, up>>
      /\ pc[t] = "read" /\ up /\ Complete(got[t])
  BY DEF Dispatch
<1>3. PICK c \in Client :
         serving[t] = c /\ got[t] # <<>> /\ command[c].method \in Methods
  <2>1. serving[t] \in Client
    BY <1>1, <1>2 DEF NInv, Types, Away
  <2> QED
    BY <1>1, <1>2, <2>1, JobsAssumption DEF Complete, command
<1> DEFINE method == command[c].method
<1>4. \A u \in Port \ {t} : pc'[u] = pc[u] /\ response'[u] = response[u]
  BY <1>1 DEF Dispatch, Goto
<1>5. CASE method \in Locked
  <2>1. response' = response /\ pc' = [pc EXCEPT ![t] = "look"]
    BY <1>3, <1>5 DEF Dispatch, Goto
  <2>2. Asked' = Asked /\ \A d \in Client : Reply(d)' = Reply(d)
    BY <1>1, <1>2, <2>1, InnerStep DEF Answered
  <2> QED
    BY <1>1, <1>2, <2>2, EndStep DEF Asked
<1>6. CASE method \notin Locked
  <2>1. /\ pc'[t] = "reply"
        /\ response'[t] = IF method = "other" THEN KV!Fail ELSE KV!Success(None)
    BY <1>1, <1>3, <1>6 DEF Dispatch, Goto
  <2>2. \A d \in Client : ThreadOf(d)' = ThreadOf(d)
    BY <1>2 DEF ThreadOf
  <2>3. Asked' = Asked
    BY <1>2, <2>2 DEF Asked
  <2>4. t \in ThreadOf(c)
    BY <1>2, <1>3 DEF ThreadOf
  <2>5. c \in Asked /\ Reply(c) = None
    BY <1>1, <1>2, <1>3, <2>4, ReplyIs DEF ReplyTrue, Answered
  <2>6. Reply(c)' = response'[t]
    BY <1>1, <1>3, <2>1, <2>2, <2>4, ReplyWillBe DEF ReplyTrue, Answered
  <2>7. ASSUME NEW d \in Client, d # c PROVE Reply(d)' = Reply(d)
    <3>1. \A u \in ThreadOf(d) : u \in Port \ {t}
      BY <1>3, <2>7 DEF ThreadOf
    <3> QED
      BY <1>2, <1>4, <2>2, <3>1, SameReply
  <2>8. /\ KV!After(command[c], key_value) = key_value
        /\ KV!Answer(command[c], key_value) = response'[t]
    BY <1>3, <1>6, <2>1 DEF KV!After, KV!Answer, Methods, Locked
  <2> QED
    BY <1>2, <2>3, <2>5, <2>6, <2>7, <2>8, DoStep
<1> QED
  BY <1>5, <1>6

(* The instant at which a request takes effect.                            *)
LEMMA ActMaps ==
    ASSUME RInv, RInv', NEW t \in Port, Act(t)
    PROVE  KV!Step
<1> USE DEF lockvars, netvars, clientvars
<1>1. /\ NInv /\ NInv' /\ pc \in [Port -> PCs] /\ got \in [Port -> Seq(Parts)]
      /\ response \in [Port -> KV!Replies] /\ serving \in [Port -> Client \cup {None}]
  BY DEF RInv, NInv, Types, TypeOK
<1>2. /\ UNCHANGED <<grabbed, serving, got, conn, requests, responses, client, job, up>>
      /\ pc[t] = "act" /\ up /\ pc' = [pc EXCEPT ![t] = "release"]
  BY DEF Act, Goto
<1>0. PICK c \in Client : serving[t] = c
  BY <1>1, <1>2 DEF NInv, Types, Away
<1> DEFINE r == command[c]
<1>3. \A d \in Client : ThreadOf(d)' = ThreadOf(d)
  BY <1>2 DEF ThreadOf
<1>4. Asked' = Asked
  BY <1>2, <1>3 DEF Asked
<1>5. CASE grabbed
  <2>1. KV!Anything
    BY <1>2, <1>4, <1>5 DEF KV!Anything, command
  <2> QED
    BY <2>1 DEF KV!Step
<1>6. CASE ~grabbed
  <2>1. \A u \in Port \ {t} : pc[u] \notin Inside
    BY <1>2, <1>6 DEF RInv, IInv, OneInside, Inside
  <2>2. /\ key_value' = KV!After(r, key_value)
        /\ response' = [response EXCEPT ![t] =
              IF r.method \in {"read", "delete"} /\ found[t] = None THEN KV!Fail
              ELSE KV!Success(IF r.method = "read" THEN found[t] ELSE None)]
    BY <1>0, <2>1 DEF Act, KV!After
  <2>3. r.method \in Locked
    BY <1>0, <1>2 DEF RInv, TakesLock, Held, Inside
  <2>4. r.method \in {"read", "delete"} => found[t] = key_value[r.key]
    BY <1>0, <1>2, <1>6 DEF RInv, FoundTrue
  <2>5. response'[t] = KV!Answer(r, key_value)
    BY <1>1, <2>2, <2>3, <2>4 DEF KV!Answer, Locked
  <2>6. got[t] # <<>>
    <3>2. got[t] = Message(command[c])
      BY <1>0, <1>1, <1>2 DEF NInv, Running, Streams, Whole, Serve, Inside
    <3>3. /\ Message(command[c]) \in Seq(Parts) /\ Len(Arguments(command[c])) \in 0 .. 2
          /\ Len(Message(command[c])) = 2 + Len(Arguments(command[c]))
      BY MessageFacts
    <3> QED
      BY <3>2, <3>3
  <2>7. t \in ThreadOf(c)
    BY <1>0, <1>2, <2>6 DEF ThreadOf
  <2>8. c \in Asked /\ Reply(c) = None
    BY <1>1, <1>2, <2>6, <2>7, ReplyIs DEF ReplyTrue, Answered
  <2>9. Reply(c)' = response'[t]
    <3>1. pc'[t] \in Answered
      BY <1>1, <1>2 DEF Answered
    <3> QED
      BY <1>1, <1>3, <2>6, <2>7, <3>1, ReplyWillBe DEF ReplyTrue
  <2>10. ASSUME NEW d \in Client, d # c PROVE Reply(d)' = Reply(d)
    <3>1. \A u \in ThreadOf(d) : u \in Port \ {t}
      BY <1>0, <2>10 DEF ThreadOf
    <3>2. \A u \in Port \ {t} : pc'[u] = pc[u] /\ response'[u] = response[u]
      BY <1>1, <1>2, <2>2
    <3> QED
      BY <1>2, <1>3, <2>10, <3>1, <3>2, SameReply
  <2> QED
    BY <1>2, <1>4, <2>2, <2>5, <2>8, <2>9, <2>10, DoStep
<1> QED
  BY <1>5, <1>6

LEMMA SendMaps ==
    ASSUME RInv, RInv', NEW t \in Port, SendResponse(t)
    PROVE  KV!Step
<1> USE DEF lockvars, mapvars, clientvars
<1>1. /\ NInv /\ NInv' /\ pc \in [Port -> PCs] /\ got \in [Port -> Seq(Parts)]
      /\ DOMAIN responses = Client /\ serving \in [Port -> Client \cup {None}]
  BY DEF RInv, NInv, Types, TypeOK
<1>2. /\ UNCHANGED <<key_value, grabbed, response, serving, conn, requests, client, job, up>>
      /\ pc[t] = "reply" /\ up /\ got' = [got EXCEPT ![t] = <<>>]
      /\ \A u \in Port \ {t} : pc'[u] = pc[u]
  BY <1>1 DEF SendResponse, Goto
<1>3. PICK c \in Client : serving[t] = c /\ c # None
  BY <1>1, <1>2 DEF NInv, Types, Away
<1>4. got[t] # <<>> /\ requests[c] = <<>>
  <2>1. got[t] = Message(command[c]) /\ Follows(requests[c], Len(got[t]), Message(command[c]))
    BY <1>1, <1>2, <1>3 DEF NInv, Running, Streams, Ahead, Whole, Serve
  <2>2. /\ Message(command[c]) \in Seq(Parts) /\ Len(Arguments(command[c])) \in 0 .. 2
        /\ Len(Message(command[c])) = 2 + Len(Arguments(command[c]))
    BY MessageFacts
  <2>3. requests[c] \in Seq(Parts)
    BY <1>1 DEF NInv, Types
  <2>4. requests[c] = <<>>
    BY <2>1, <2>2, <2>3, FollowsEnd
  <2> QED
    BY <2>1, <2>2, <2>4
<1>5. t \in ThreadOf(c)
  BY <1>2, <1>3, <1>4 DEF ThreadOf
<1>6. c \in Asked /\ Reply(c) = response[t] /\ ThreadOf(c) = {t} /\ responses[c] = None
      /\ conn[c] = "open"
  BY <1>1, <1>2, <1>5, ReplyIs DEF ReplyTrue, Answered
<1>7. ThreadOf(c)' = {}
  BY <1>1, <1>2, <1>6 DEF ThreadOf
<1>8. \A d \in Client \ {c} : responses'[d] = responses[d] /\ ThreadOf(d)' = ThreadOf(d)
  BY <1>1, <1>2, <1>3 DEF SendResponse, ThreadOf
<1>9. ASSUME NEW d \in Client, d # c PROVE Reply(d)' = Reply(d)
  <2>1. \A u \in ThreadOf(d) : u \in Port \ {t}
    BY <1>3, <1>9 DEF ThreadOf
  <2> QED
    BY <1>2, <1>8, <1>9, <2>1, SameReply
<1>10. Asked' \subseteq Asked
  BY <1>2, <1>6, <1>8 DEF Asked
<1>11. c \in Asked' => Reply(c)' = Reply(c)
  <2>1. CASE client[c] \in Live
    <3>1. responses'[c] = response[t] /\ response[t] # None
      BY <1>1, <1>3, <2>1, ReplyFacts DEF SendResponse, NInv, Types, TypeOK
    <3> QED
      BY <1>1, <1>6, <3>1, ReplyWillBe DEF ReplyTrue
  <2>2. CASE client[c] \notin Live
    <3>1. responses' = responses
      BY <1>3, <2>2 DEF SendResponse
    <3>2. c \notin Asked'
      BY <1>2, <1>4, <1>6, <1>7, <2>2, <3>1 DEF Asked, Live
    <3> QED
      BY <3>2
  <2> QED
    BY <2>1, <2>2
<1>12. \A d \in Asked' : Reply(d)' = Reply(d)
  BY <1>9, <1>11 DEF Asked
<1> QED
  BY <1>1, <1>2, <1>10, <1>12, EndStep

LEMMA CloseMaps ==
    ASSUME RInv, RInv', NEW t \in Port, Close(t)
    PROVE  KV!Step
<1> USE DEF lockvars, mapvars, clientvars
<1>1. /\ NInv /\ NInv' /\ pc \in [Port -> PCs] /\ got \in [Port -> Seq(Parts)]
      /\ serving \in [Port -> Client \cup {None}]
  BY DEF RInv, NInv, Types, TypeOK
<1>2. /\ UNCHANGED <<key_value, grabbed, response, responses, client, job, up>>
      /\ pc[t] = "close" /\ up /\ pc' = [pc EXCEPT ![t] = "top"]
      /\ got' = [got EXCEPT ![t] = <<>>] /\ serving' = [serving EXCEPT ![t] = None]
  BY DEF Close, Goto
<1>3. PICK c \in Client : serving[t] = c /\ c # None
  BY <1>1, <1>2 DEF NInv, Types, Away
<1>4. /\ \A d \in Client \ {c} : conn'[d] = conn[d] /\ requests'[d] = requests[d]
      /\ conn'[c] = "shut"
  BY <1>3 DEF Close, Shut
<1>5. \A d \in Client \ {c} : ThreadOf(d)' = ThreadOf(d)
  <2>1. \A d \in Client : d # None
    BY PortAssumption
  <2> QED
    BY <1>1, <1>2, <1>3, <2>1 DEF ThreadOf
<1>6. ASSUME NEW d \in Client, d # c PROVE Reply(d)' = Reply(d)
  <2>1. \A u \in ThreadOf(d) : u \in Port \ {t}
    BY <1>3, <1>6 DEF ThreadOf
  <2> QED
    BY <1>1, <1>2, <1>5, <1>6, <2>1, SameReply
<1>7. Asked' \subseteq Asked
  BY <1>2, <1>4, <1>5 DEF Asked
<1>8. c \in Asked' => responses[c] # None
  BY <1>2, <1>4 DEF Asked
<1>9. c \in Asked' => Reply(c)' = Reply(c)
  BY <1>1, <1>2, <1>8, ReplyIs, ReplyWillBe DEF ReplyTrue
<1>10. \A d \in Asked' : Reply(d)' = Reply(d)
  BY <1>6, <1>9 DEF Asked
<1> QED
  BY <1>1, <1>2, <1>7, <1>10, EndStep

(* Steps of clients leave the threads alone.                               *)
LEMMA ClientMaps ==
    ASSUME RInv, RInv', NEW c \in Client, NoResponse(c) \/ ConnectToServer(c) \/ SendRequest(c)
    PROVE  KV!Step
<1> USE DEF servervars, lockvars, mapvars, threadvars, netvars
<1>1. /\ NInv /\ NInv' /\ client \in [Client -> Live \cup {"done", "failed", "refused", "killed"}]
      /\ conn \in [Client -> {"none", "queued", "open", "shut"}]
      /\ requests \in [Client -> Seq(Parts)]
  BY DEF RInv, NInv, Types, TypeOK
<1>2. UNCHANGED <<key_value, grabbed, response, responses, job, up, pc, serving, got>>
  BY DEF NoResponse, ConnectToServer, SendRequest
<1>3. \A d \in Client : ThreadOf(d)' = ThreadOf(d)
  BY <1>2 DEF ThreadOf
<1>4. \A d \in Client : Reply(d)' = Reply(d)
  BY <1>2, <1>3, SameReply
<1>5. \A d \in Client \ {c} : client'[d] = client[d] /\ conn'[d] = conn[d] /\ requests'[d] = requests[d]
  BY <1>1 DEF NoResponse, ConnectToServer, SendRequest, ClientGoto
<1>6. Asked \ {c} = Asked' \ {c}
  BY <1>2, <1>3, <1>5 DEF Asked
<1>7. CASE c \notin Asked'
  BY <1>1, <1>2, <1>4, <1>6, <1>7, EndStep DEF Asked
<1>8. CASE c \in Asked'
  <2>1. responses[c] = None /\ up
    <3>1. responses[c] = None
      BY <1>1 DEF NoResponse, ConnectToServer, SendRequest, NInv, Always, ClientsTrue
    <3> QED
      BY <1>2, <1>8, <3>1 DEF Asked
  <2>2. SendRequest(c)
    <3>1. CASE NoResponse(c)
      BY <1>2, <1>8, <2>1, <3>1 DEF NoResponse, Asked
    <3>2. CASE ConnectToServer(c)
      <4>1. requests'[c] = <<>> /\ client'[c] # "await" /\ ThreadOf(c) = {}
        BY <1>1, <2>1, <3>2 DEF ConnectToServer, ClientGoto, ThreadOf, NInv, Running, OneRequest
      <4> QED
        BY <1>2, <1>3, <1>8, <2>1, <4>1 DEF Asked
    <3> QED
      BY <3>1, <3>2
  <2>3. c \notin Asked
    <3>1. client[c] = "send"
      BY <2>2 DEF SendRequest
    <3>2. requests[c] = <<>> /\ ThreadOf(c) = {}
      BY <1>1, <2>1, <3>1 DEF ThreadOf, NInv, Running, OneRequest
    <3> QED
      BY <2>1, <3>1, <3>2 DEF Asked
  <2>4. Asked' = Asked \cup {c} /\ [d \in Client |-> Reply(d)]' = [d \in Client |-> Reply(d)]
    BY <1>4, <1>6, <1>8, <2>3
  <2>5. KV!Ask(c)
    BY <1>2, <2>3, <2>4 DEF KV!Ask, command
  <2> QED
    BY <2>5 DEF KV!Step
<1> QED
  BY <1>7, <1>8

LEMMA LeaveMaps ==
    ASSUME RInv, RInv', NEW c \in Client, ReceiveResponse(c) \/ Kill(c)
    PROVE  KV!Step
<1> USE DEF servervars, lockvars, mapvars, threadvars
<1>1. /\ NInv /\ NInv' /\ client \in [Client -> Live \cup {"done", "failed", "refused", "killed"}]
      /\ DOMAIN responses = Client /\ requests \in [Client -> Seq(Parts)]
  BY DEF RInv, NInv, Types, TypeOK
<1>2. UNCHANGED <<key_value, grabbed, response, job, up, pc, serving, got, conn>>
  BY DEF ReceiveResponse, Kill
<1>3. /\ \A d \in Client \ {c} : client'[d] = client[d] /\ requests'[d] = requests[d]
                                 /\ responses'[d] = responses[d]
      /\ responses'[c] = None /\ client'[c] # "await" /\ (requests[c] = <<>> => requests'[c] = <<>>)
  BY <1>1 DEF ReceiveResponse, Kill, ClientGoto
<1>4. \A d \in Client : ThreadOf(d)' = ThreadOf(d)
  BY <1>2 DEF ThreadOf
<1>5. Asked' \subseteq Asked
  BY <1>2, <1>3, <1>4 DEF Asked
<1>6. c \in Asked' => responses[c] = None
  <2>1. ASSUME up, responses[c] # None PROVE requests[c] = <<>> /\ ThreadOf(c) = {}
    BY <1>1, <2>1 DEF NInv, Running, OneRequest, ThreadOf
  <2> QED
    BY <1>2, <1>3, <1>4, <2>1 DEF Asked
<1>7. \A d \in Asked' : Reply(d)' = Reply(d)
  <2> SUFFICES ASSUME NEW d \in Asked' PROVE Reply(d)' = Reply(d)
    OBVIOUS
  <2>1. d \in Client /\ responses'[d] = responses[d]
    BY <1>3, <1>6 DEF Asked
  <2> QED
    BY <1>2, <1>4, <2>1, SameReply
<1> QED
  BY <1>1, <1>2, <1>5, <1>7, EndStep

(* The server implements KeyValueStore: every request takes effect at most *)
(* once, in the Act of its thread or in its Dispatch, and every other step *)
(* is none of the store or the end of some requests.                       *)
THEOREM AtomicStoreHolds == Spec => AtomicStore
<1>1. Init => KV!Start
  <2> SUFFICES ASSUME Init PROVE KV!Start
    OBVIOUS
  <2>1. Asked = {} /\ \A c \in Client : Reply(c) = None
    BY DEF Init, Asked, Reply, ThreadOf
  <2> QED
    BY <2>1 DEF Init, KV!Start
<1>2. RInv /\ RInv' /\ [Next]_vars => [KV!Step]_(KV!absvars)
  <2> SUFFICES ASSUME RInv, RInv', [Next]_vars PROVE [KV!Step]_(KV!absvars)
    OBVIOUS
  <2>1. ASSUME NEW t \in Port, Thread(t) PROVE KV!Step
    BY <2>1, ListenMaps, AcceptMaps, TurnMaps, ReadMaps, ExitMaps, DispatchMaps, LockMaps,
       ActMaps, SendMaps, CloseMaps DEF Thread, ReadError
  <2>2. ASSUME NEW c \in Client, ClientStep(c) \/ Kill(c) \/ ConnectToServer(c) PROVE KV!Step
    BY <2>2, ClientMaps, LeaveMaps DEF ClientStep
  <2>3. CASE MainExit
    BY <2>3, ExitMaps DEF MainExit
  <2>4. CASE TimeUp \/ UNCHANGED vars
    <3>1. UNCHANGED <<key_value, grabbed, response, responses, job, up, pc, serving, got, conn,
                      requests, client>>
      BY <2>4 DEF TimeUp, vars, lockvars, mapvars, threadvars, netvars, clientvars
    <3>2. \A c \in Client : ThreadOf(c)' = ThreadOf(c) /\ Reply(c)' = Reply(c)
      BY <3>1 DEF ThreadOf, Reply
    <3>3. Asked' = Asked
      BY <3>1, <3>2 DEF Asked
    <3> QED
      BY <3>1, <3>2, <3>3, EndStep DEF Asked, RInv
  <2> QED
    BY <2>1, <2>2, <2>3, <2>4 DEF Next
<1> QED
  BY <1>1, <1>2, AlwaysRInv, PTL DEF Spec, AtomicStore, KV!Atomic
=============================================================================
