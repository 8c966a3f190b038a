-------------------------- MODULE TraceSession_proofs --------------------------
(***************************************************************************)
(* Tracing sessions with any commands, any number of them, any kernel      *)
(* events and any sizes of the buffer: what a trace file holds, and that   *)
(* its time pairs enclose it.                                              *)
(***************************************************************************)
EXTENDS TraceSession, TLAPS

-----------------------------------------------------------------------------
(* The lists of operations                                                 *)

Names ==
    {"RESET", "ClearPairs", "StartPair", "INSERTN", "INSERT1", "StartPairIfZero", "ON", "exit",
     "OFF", "msleep", "StopPairIfZero", "FLUSH", "TEST", "fopen", "GETCOUNT", "LivePair",
     "Blocks", "Close"}
Operation == [op : Names, flags : SUBSET Flags]

(* Which operation follows which, in any command                           *)
Pairs ==
    {<<"RESET", "ClearPairs">>, <<"ClearPairs", "StartPair">>, <<"StartPair", "INSERTN">>,
     <<"INSERTN", "INSERT1">>, <<"INSERT1", "StartPairIfZero">>, <<"StartPairIfZero", "ON">>,
     <<"ON", "exit">>, <<"OFF", "msleep">>, <<"msleep", "StopPairIfZero">>,
     <<"StopPairIfZero", "msleep">>, <<"StopPairIfZero", "FLUSH">>,
     <<"StopPairIfZero", "exit">>, <<"msleep", "FLUSH">>, <<"FLUSH", "TEST">>,
     <<"TEST", "FLUSH">>, <<"FLUSH", "fopen">>, <<"fopen", "GETCOUNT">>,
     <<"GETCOUNT", "LivePair">>, <<"LivePair", "Blocks">>, <<"Blocks", "Close">>,
     <<"Close", "RESET">>, <<"RESET", "OFF">>}

(* The FLUSH before a file is opened comes after a TEST, and no command    *)
(* ends with blocks to be copied.                                          *)
Shaped(s) ==
    /\ \A i \in 1 .. Len(s) - 1 : <<s[i].op, s[i + 1].op>> \in Pairs
    /\ \A i \in 1 .. Len(s) - 2 :
          s[i + 1].op = "FLUSH" /\ s[i + 2].op = "fopen" => s[i].op = "TEST"
    /\ Len(s) >= 1 => s[Len(s)].op # "Blocks"

(* A list of operations from a to b, and not one that is about to open a   *)
(* file untested.                                                          *)
Piece(s, a, b) ==
    /\ s \in Seq(Operation) /\ Len(s) >= 1 /\ Shaped(s)
    /\ s[1].op = a /\ s[Len(s)].op = b
    /\ a = "FLUSH" /\ Len(s) >= 2 => s[2].op # "fopen"

LEMMA Join ==
    ASSUME NEW s, NEW t, NEW a, NEW b, NEW c, NEW d, Piece(s, a, b), Piece(t, c, d),
           <<b, c>> \in Pairs, c # "fopen"
    PROVE  Piece(s \o t, a, d)
<1> DEFINE u == s \o t
<1>1. s \in Seq(Operation) /\ t \in Seq(Operation)
  BY DEF Piece
<1>2. /\ u \in Seq(Operation) /\ Len(u) = Len(s) + Len(t)
      /\ \A i \in 1 .. Len(s) + Len(t) : u[i] = IF i <= Len(s) THEN s[i] ELSE t[i - Len(s)]
  BY <1>1
<1>3. Len(s) \in Nat /\ Len(t) \in Nat /\ Len(s) >= 1 /\ Len(t) >= 1
  BY <1>1 DEF Piece
<1> HIDE DEF u
<1>4. u[1] = s[1] /\ u[Len(u)] = t[Len(t)]
  BY <1>2, <1>3
<1>5. ASSUME NEW i \in 1 .. Len(u) - 1 PROVE <<u[i].op, u[i + 1].op>> \in Pairs
  <2>1. CASE i < Len(s)
    <3>1. u[i] = s[i] /\ u[i + 1] = s[i + 1] /\ i \in 1 .. Len(s) - 1
      BY <1>2, <1>3, <2>1
    <3> QED
      BY <3>1 DEF Piece, Shaped
  <2>2. CASE i = Len(s)
    <3>1. u[i] = s[Len(s)] /\ u[i + 1] = t[1]
      BY <1>2, <1>3, <2>2
    <3> QED
      BY <3>1 DEF Piece
  <2>3. CASE i > Len(s)
    <3>1. u[i] = t[i - Len(s)] /\ u[i + 1] = t[(i - Len(s)) + 1] /\ i - Len(s) \in 1 .. Len(t) - 1
      BY <1>2, <1>3, <2>3
    <3> QED
      BY <3>1 DEF Piece, Shaped
  <2> QED
    BY <1>3, <2>1, <2>2, <2>3
<1>6. ASSUME NEW i \in 1 .. Len(u) - 2, u[i + 1].op = "FLUSH", u[i + 2].op = "fopen"
      PROVE  u[i].op = "TEST"
  <2>1. CASE i + 2 <= Len(s)
    <3>1. u[i] = s[i] /\ u[i + 1] = s[i + 1] /\ u[i + 2] = s[i + 2] /\ i \in 1 .. Len(s) - 2
      BY <1>2, <1>3, <2>1
    <3> QED
      BY <1>6, <3>1 DEF Piece, Shaped
  <2>2. CASE i + 2 = Len(s) + 1
    <3>1. u[i + 2] = t[1]
      BY <1>2, <1>3, <2>2
    <3> QED
      BY <1>6, <3>1 DEF Piece
  <2>3. CASE i + 2 = Len(s) + 2
    <3>1. u[i + 1] = t[1] /\ u[i + 2] = t[2] /\ Len(t) >= 2
      BY <1>2, <1>3, <2>3
    <3> QED
      BY <1>6, <3>1 DEF Piece
  <2>4. CASE i + 2 > Len(s) + 2
    <3>1. /\ u[i] = t[i - Len(s)] /\ u[i + 1] = t[(i - Len(s)) + 1]
          /\ u[i + 2] = t[(i - Len(s)) + 2] /\ i - Len(s) \in 1 .. Len(t) - 2
      <4>1. /\ i \in 1 .. Len(s) + Len(t) /\ i + 1 \in 1 .. Len(s) + Len(t)
            /\ i + 2 \in 1 .. Len(s) + Len(t) /\ i > Len(s)
        BY <1>2, <1>3, <2>4
      <4>2. /\ u[i] = t[i - Len(s)] /\ u[i + 1] = t[i + 1 - Len(s)]
            /\ u[i + 2] = t[i + 2 - Len(s)]
        BY <1>2, <1>3, <4>1
      <4>3. i + 1 - Len(s) = (i - Len(s)) + 1 /\ i + 2 - Len(s) = (i - Len(s)) + 2
        BY <1>3
      <4> QED
        BY <1>2, <1>3, <2>4, <4>2, <4>3
    <3> QED
      BY <1>6, <3>1 DEF Piece, Shaped
  <2> QED
    BY <1>3, <2>1, <2>2, <2>3, <2>4
<1>7. a = "FLUSH" /\ Len(u) >= 2 => u[2].op # "fopen"
  <2>1. CASE Len(s) >= 2
    BY <1>2, <1>3, <2>1 DEF Piece
  <2>2. CASE Len(s) = 1
    BY <1>2, <1>3, <2>2 DEF Piece
  <2> DEFINE n == Len(s)
  <2>3. n \in Nat /\ n >= 1
    BY <1>3
  <2> HIDE DEF n
  <2>4. n >= 2 \/ n = 1
    BY <2>3
  <2> QED
    BY <2>1, <2>2, <2>4, Zenon DEF n
<1>8. s[1].op = a /\ t[Len(t)].op = d /\ t[Len(t)].op # "Blocks"
  BY <1>3 DEF Piece, Shaped
<1>9. Shaped(u)
  BY <1>4, <1>5, <1>6, <1>8 DEF Shaped
<1>10. Len(u) >= 1
  BY <1>2, <1>3
<1>11. Piece(u, a, d)
  BY <1>2, <1>4, <1>7, <1>8, <1>9, <1>10 DEF Piece
<1> QED
  BY <1>11 DEF u

LEMMA OpsFacts ==
    ASSUME NEW names \in Seq(Names)
    PROVE  /\ Ops(names) \in Seq(Operation) /\ Len(Ops(names)) = Len(names)
           /\ \A i \in 1 .. Len(names) : Ops(names)[i].op = names[i]
<1>1. \A i \in 1 .. Len(names) : Op(names[i]) \in Operation /\ Op(names[i]).op = names[i]
  BY DEF Op, Operation
<1>2. Len(names) \in Nat
  OBVIOUS
<1> QED
  BY <1>1, <1>2 DEF Ops

LEMMA Pieces ==
    /\ \A f \in SUBSET Flags : Piece(RESET(f), "RESET", "RESET") /\ Len(RESET(f)) = 1
    /\ Piece(DoInit, "StartPair", "INSERT1")
    /\ Piece(DoOn, "StartPairIfZero", "ON")
    /\ Piece(DoOff, "OFF", "StopPairIfZero")
    /\ Piece(DoFlush, "FLUSH", "FLUSH")
    /\ Piece(Ops(<<"ClearPairs">>), "ClearPairs", "ClearPairs")
    /\ Piece(Ops(<<"exit">>), "exit", "exit")
    /\ Piece(Ops(<<"msleep">>), "msleep", "msleep")
    /\ Piece(Ops(<<"TEST", "FLUSH", "fopen">>), "TEST", "fopen")
    /\ Piece(Ops(<<"GETCOUNT", "LivePair", "Blocks", "Close">>), "GETCOUNT", "Close")
    /\ Len(Ops(<<"GETCOUNT", "LivePair", "Blocks", "Close">>)) = 4
<1>1. ASSUME NEW f \in SUBSET Flags PROVE Piece(RESET(f), "RESET", "RESET") /\ Len(RESET(f)) = 1
  <2>1. [op |-> "RESET", flags |-> f] \in Operation
    BY DEF Operation, Names
  <2>2. /\ RESET(f) \in Seq(Operation) /\ Len(RESET(f)) = 1 /\ RESET(f)[1].op = "RESET"
    BY <2>1 DEF RESET
  <2> QED
    BY <2>2 DEF Piece, Shaped
<1>2. ASSUME NEW x \in Names, x # "Blocks" PROVE Piece(Ops(<<x>>), x, x)
  <2> DEFINE n == <<x>>
             s == Ops(n)
  <2>1. n \in Seq(Names) /\ Len(n) = 1 /\ n[1] = x
    OBVIOUS
  <2> HIDE DEF n
  <2>2. s \in Seq(Operation) /\ Len(s) = 1 /\ s[1].op = x
    BY <2>1, OpsFacts
  <2> HIDE DEF s
  <2>3. Shaped(s)
    BY <1>2, <2>2 DEF Shaped
  <2>4. Piece(s, x, x)
    BY <2>2, <2>3 DEF Piece
  <2> QED
    BY <2>4 DEF s, n
<1>3. ASSUME NEW x \in Names, NEW y \in Names, <<x, y>> \in Pairs, x # "FLUSH", y # "Blocks"
      PROVE  Piece(Ops(<<x, y>>), x, y)
  <2> DEFINE n == <<x, y>>
             s == Ops(n)
  <2>1. n \in Seq(Names) /\ Len(n) = 2 /\ n[1] = x /\ n[2] = y
    OBVIOUS
  <2> HIDE DEF n
  <2>2. s \in Seq(Operation) /\ Len(s) = 2 /\ s[1].op = x /\ s[2].op = y
    BY <2>1, OpsFacts
  <2> HIDE DEF s
  <2>3. Piece(s, x, y)
    BY <1>3, <2>2 DEF Piece, Shaped
  <2> QED
    BY <2>3 DEF s, n
<1>4. ASSUME NEW x \in Names, NEW y \in Names, NEW z \in Names,
             <<x, y>> \in Pairs, <<y, z>> \in Pairs, x # "FLUSH", z = "fopen" => x = "TEST",
             z # "Blocks"
      PROVE  Piece(Ops(<<x, y, z>>), x, z)
  <2> DEFINE n == <<x, y, z>>
             s == Ops(n)
  <2>1. n \in Seq(Names) /\ Len(n) = 3 /\ n[1] = x /\ n[2] = y /\ n[3] = z
    OBVIOUS
  <2> HIDE DEF n
  <2>2. s \in Seq(Operation) /\ Len(s) = 3 /\ s[1].op = x /\ s[2].op = y /\ s[3].op = z
    BY <2>1, OpsFacts
  <2> HIDE DEF s
  <2>3. Shaped(s)
    <3>1. ASSUME NEW i \in 1 .. Len(s) - 1 PROVE <<s[i].op, s[i + 1].op>> \in Pairs
      <4>1. i = 1 \/ i = 2
        BY <2>2
      <4> QED
        BY <1>4, <2>2, <4>1
    <3>2. ASSUME NEW i \in 1 .. Len(s) - 2 PROVE i = 1
      BY <2>2
    <3> QED
      BY <1>4, <2>2, <3>1, <3>2 DEF Shaped
  <2>4. Piece(s, x, z)
    BY <1>4, <2>2, <2>3 DEF Piece
  <2> QED
    BY <2>4 DEF s, n
<1>5. /\ Piece(Ops(<<"GETCOUNT", "LivePair", "Blocks", "Close">>), "GETCOUNT", "Close")
      /\ Len(Ops(<<"GETCOUNT", "LivePair", "Blocks", "Close">>)) = 4
  <2> DEFINE n == <<"GETCOUNT", "LivePair", "Blocks", "Close">>
             s == Ops(n)
  <2>1. n \in Seq(Names) /\ Len(n) = 4 /\ n[1] = "GETCOUNT" /\ n[2] = "LivePair"
        /\ n[3] = "Blocks" /\ n[4] = "Close"
    BY DEF Names
  <2> HIDE DEF n
  <2>2. s \in Seq(Operation) /\ Len(s) = 4 /\ s[1].op = "GETCOUNT" /\ s[2].op = "LivePair"
        /\ s[3].op = "Blocks" /\ s[4].op = "Close"
    BY <2>1, OpsFacts
  <2> HIDE DEF s
  <2>3. Shaped(s)
    <3>1. ASSUME NEW i \in 1 .. Len(s) - 1
          PROVE  <<s[i].op, s[i + 1].op>> \in Pairs /\ s[i + 1].op # "FLUSH"
      <4>1. i = 1 \/ i = 2 \/ i = 3
        BY <2>2
      <4> QED
        BY <2>2, <4>1 DEF Pairs
    <3>2. ASSUME NEW i \in 1 .. Len(s) - 2 PROVE i \in 1 .. Len(s) - 1
      BY <2>2
    <3> QED
      BY <2>2, <3>1, <3>2 DEF Shaped
  <2>4. Piece(s, "GETCOUNT", "Close")
    BY <2>2, <2>3 DEF Piece
  <2> QED
    BY <2>2, <2>4 DEF s, n
<1>6. /\ Piece(DoInit, "StartPair", "INSERT1")
      /\ Piece(DoOff, "OFF", "StopPairIfZero")
      /\ Piece(Ops(<<"TEST", "FLUSH", "fopen">>), "TEST", "fopen")
  BY <1>4 DEF DoInit, DoOff, Pairs, Names
<1>7. Piece(DoOn, "StartPairIfZero", "ON")
  BY <1>3 DEF DoOn, Pairs, Names
<1> QED
  BY <1>1, <1>2, <1>5, <1>6, <1>7 DEF DoFlush, Names

LEMMA LenConcat ==
    ASSUME NEW S, NEW s \in Seq(S), NEW t \in Seq(S)
    PROVE  Len(s \o t) = Len(s) + Len(t)
  OBVIOUS

LEMMA DumpFacts ==
    /\ Piece(WriteFile, "GETCOUNT", "RESET") /\ Len(WriteFile) = 5
    /\ Piece(DoDump, "TEST", "RESET")
    /\ Piece(DoQuit, "OFF", "exit")
    /\ \A f \in SUBSET Flags : Piece(DoReset(f), "RESET", "ClearPairs")
<1>1. {} \in SUBSET Flags
  OBVIOUS
<1>2. Piece(WriteFile, "GETCOUNT", "RESET")
  BY <1>1, Pieces, Join DEF WriteFile, Pairs
<1>3. Len(WriteFile) = 5
  <2> DEFINE s == Ops(<<"GETCOUNT", "LivePair", "Blocks", "Close">>)
             t == RESET({})
  <2>1. s \in Seq(Operation) /\ t \in Seq(Operation) /\ Len(s) = 4 /\ Len(t) = 1
    BY <1>1, Pieces DEF Piece
  <2> HIDE DEF s, t
  <2>2. Len(s \o t) = Len(s) + Len(t)
    BY <2>1, LenConcat, Zenon
  <2>3. Len(s \o t) = 5
    BY <2>1, <2>2
  <2> QED
    BY <2>3, Zenon DEF s, t, WriteFile
<1>4. Piece(DoDump, "TEST", "RESET")
  BY <1>2, Pieces, Join DEF DoDump, Pairs
<1>5. Piece(DoQuit, "OFF", "exit")
  BY Pieces, Join DEF DoQuit, Pairs
<1>6. ASSUME NEW f \in SUBSET Flags PROVE Piece(DoReset(f), "RESET", "ClearPairs")
  BY Pieces, Join DEF DoReset, Pairs
<1> QED
  BY <1>2, <1>3, <1>4, <1>5, <1>6

(* The operations a command can begin with                                 *)
Firsts == {"RESET", "StartPair", "StartPairIfZero", "OFF", "FLUSH", "TEST"}

LEMMA BodyFacts ==
    ASSUME NEW c \in Commands, NEW f \in SUBSET Flags
    PROVE  Body(c, f) = <<>> \/ \E a \in Firsts : \E b : Piece(Body(c, f), a, b)
<1> USE DEF Pairs
<1>1. {} \in SUBSET Flags
  OBVIOUS
<1>2. ASSUME NEW g \in SUBSET Flags PROVE Piece(DoReset(g) \o DoInit \o DoOn, "RESET", "ON")
  <2>1. Piece(DoReset(g) \o DoInit, "RESET", "INSERT1")
    BY Pieces, DumpFacts, Join
  <2> QED
    BY <2>1, Pieces, Join
<1>3. Piece(DoReset(f) \o DoInit \o DoOn \o Ops(<<"exit">>), "RESET", "exit")
  BY <1>2, Pieces, Join
<1>4. Piece(DoOff \o Ops(<<"msleep">>), "OFF", "msleep")
  BY Pieces, Join
<1>5. Piece(DoOff \o Ops(<<"msleep">>) \o DoFlush \o DoDump \o DoQuit, "OFF", "exit")
  <2>1. Piece(DoOff \o Ops(<<"msleep">>) \o DoFlush, "OFF", "FLUSH")
    BY <1>4, Pieces, Join
  <2>2. Piece(DoOff \o Ops(<<"msleep">>) \o DoFlush \o DoDump, "OFF", "RESET")
    BY <2>1, DumpFacts, Join
  <2> QED
    BY <2>2, DumpFacts, Join
<1>6. Piece(DoOff \o DoFlush \o DoDump \o DoQuit, "OFF", "exit")
  <2>1. Piece(DoOff \o DoFlush, "OFF", "FLUSH")
    BY Pieces, Join
  <2>2. Piece(DoOff \o DoFlush \o DoDump, "OFF", "RESET")
    BY <2>1, DumpFacts, Join
  <2> QED
    BY <2>2, DumpFacts, Join
<1> HIDE DEF Pairs
<1>7. CASE c \in DOMAIN GoFlags
  <2>1. Body(c, f) = DoReset(f) \o DoInit \o DoOn
    BY <1>7 DEF Body, GoFlags
  <2> QED
    BY <1>2, <2>1 DEF Firsts
<1>8. CASE c \notin DOMAIN GoFlags
  <2>1. CASE c \in {"stop", "0", "1", "kutrace::go", "kutrace::stop"}
    BY <1>1, <1>2, <1>3, <1>5, <1>6, <1>8, <2>1 DEF Body, Firsts
  <2>2. CASE c \in {"-force", "init", "on", "off", "flush", "reset", "dump", "quit", "test", "stat"}
    BY <1>1, <1>4, <1>8, <2>2, Pieces, DumpFacts DEF Body, Firsts
  <2> QED
    BY <1>8, <2>1, <2>2 DEF Commands
<1> QED
  BY <1>7, <1>8

LEMMA SuffixShaped ==
    ASSUME NEW s \in Seq(Operation), Shaped(s), NEW n \in 1 .. Len(s) + 1
    PROVE  LET t == SubSeq(s, n, Len(s)) IN
           /\ t \in Seq(Operation) /\ Shaped(t) /\ Len(t) = Len(s) - n + 1
           /\ \A i \in 1 .. Len(t) : t[i] = s[n - 1 + i]
<1> DEFINE t == SubSeq(s, n, Len(s))
<1>1. /\ t \in Seq(Operation) /\ Len(t) = Len(s) - n + 1
      /\ \A i \in 1 .. Len(t) : t[i] = s[n - 1 + i]
  OBVIOUS
<1>2. Len(s) \in Nat /\ Len(t) \in Nat
  BY <1>1
<1> HIDE DEF t
<1>3. ASSUME NEW i \in 1 .. Len(t) - 1 PROVE <<t[i].op, t[i + 1].op>> \in Pairs
  <2>1. t[i] = s[n - 1 + i] /\ t[i + 1] = s[(n - 1 + i) + 1] /\ n - 1 + i \in 1 .. Len(s) - 1
    BY <1>1, <1>2
  <2> QED
    BY <2>1 DEF Shaped
<1>4. ASSUME NEW i \in 1 .. Len(t) - 2, t[i + 1].op = "FLUSH", t[i + 2].op = "fopen"
      PROVE  t[i].op = "TEST"
  <2>1. /\ t[i] = s[n - 1 + i] /\ t[i + 1] = s[(n - 1 + i) + 1] /\ t[i + 2] = s[(n - 1 + i) + 2]
        /\ n - 1 + i \in 1 .. Len(s) - 2
    <3>1. i \in 1 .. Len(t) /\ i + 1 \in 1 .. Len(t) /\ i + 2 \in 1 .. Len(t)
      BY <1>2
    <3>2. t[i] = s[n - 1 + i] /\ t[i + 1] = s[n - 1 + (i + 1)] /\ t[i + 2] = s[n - 1 + (i + 2)]
      BY <1>1, <3>1
    <3>3. n - 1 + (i + 1) = (n - 1 + i) + 1 /\ n - 1 + (i + 2) = (n - 1 + i) + 2
      BY <1>2
    <3>4. n - 1 + i \in 1 .. Len(s) - 2
      BY <1>1, <1>2
    <3> QED
      BY <3>2, <3>3, <3>4
  <2> QED
    BY <1>4, <2>1 DEF Shaped
<1>5. ASSUME Len(t) >= 1 PROVE t[Len(t)].op # "Blocks"
  <2>1. Len(t) \in 1 .. Len(t) /\ n - 1 + Len(t) = Len(s) /\ Len(s) >= 1
    BY <1>1, <1>2, <1>5
  <2>2. t[Len(t)] = s[Len(s)]
    BY <1>1, <2>1
  <2> QED
    BY <2>1, <2>2 DEF Shaped
<1> QED
  BY <1>1, <1>3, <1>4, <1>5 DEF Shaped, t

(* What is next when an operation is done                                  *)
LEMMA Advance ==
    ASSUME todo \in Seq(Operation), Shaped(todo), todo # <<>>, Done
    PROVE  /\ todo' \in Seq(Operation) /\ Shaped(todo')
           /\ todo' # <<>> => <<Head(todo).op, Head(todo').op>> \in Pairs
           /\ todo' # <<>> => Len(todo) >= 2 /\ todo[2] = Head(todo')
           /\ todo' = <<>> => Head(todo).op # "Blocks"
           /\ Len(todo') >= 2 /\ Head(todo').op = "FLUSH" /\ todo'[2].op = "fopen" =>
                 Head(todo).op = "TEST"
<1> DEFINE t == SubSeq(todo, 2, Len(todo))
<1>1. Len(todo) \in Nat /\ Len(todo) >= 1 /\ Tail(todo) = t /\ Head(todo) = todo[1]
  OBVIOUS
<1>2. 2 \in 1 .. Len(todo) + 1
  BY <1>1
<1>3. /\ t \in Seq(Operation) /\ Shaped(t) /\ Len(t) = Len(todo) - 2 + 1
      /\ \A i \in 1 .. Len(t) : t[i] = todo[2 - 1 + i]
  BY <1>2, SuffixShaped
<1>4. todo' = t
  BY <1>1 DEF Done
<1> HIDE DEF t
<1>5. ASSUME t # <<>>
      PROVE  <<todo[1].op, Head(t).op>> \in Pairs /\ Len(todo) >= 2 /\ todo[2] = Head(t)
  <2>1. Len(t) >= 1 /\ Head(t) = t[1]
    BY <1>3, <1>5
  <2>2. t[1] = todo[1 + 1] /\ 1 \in 1 .. Len(todo) - 1
    BY <1>1, <1>3, <2>1
  <2> QED
    BY <2>1, <2>2 DEF Shaped
<1>6. ASSUME Len(t) >= 2, Head(t).op = "FLUSH", t[2].op = "fopen" PROVE todo[1].op = "TEST"
  <2>1. Head(t) = t[1] /\ t[1] = todo[1 + 1] /\ t[2] = todo[1 + 2] /\ 1 \in 1 .. Len(todo) - 2
    BY <1>1, <1>3, <1>6
  <2> QED
    BY <1>6, <2>1 DEF Shaped
<1>7. ASSUME t = <<>> PROVE todo[1].op # "Blocks"
  <2>1. Len(todo) = 1
    BY <1>1, <1>3, <1>7
  <2> QED
    BY <2>1 DEF Shaped
<1> QED
  BY <1>1, <1>3, <1>4, <1>5, <1>6, <1>7

-----------------------------------------------------------------------------
(* The invariant                                                           *)

(* The operation the program is at                                         *)
At == IF todo = <<>> THEN "" ELSE Head(todo).op
OpensNext == Len(todo) >= 2 /\ todo[2].op = "fopen"

(* Everything in some blocks happened at one of these times.               *)
AllIn(bs, T) ==
    \A i \in 1 .. Len(bs) : \A j \in 1 .. Len(bs[i].entries) : bs[i].entries[j].at \in T

Past ==
    AllIn(blocks, 0 .. clock) /\ AllIn(out, 0 .. clock) /\ AllIn(<<traceblock>>, 0 .. clock)

(* The times between the start pair and the stop pair                      *)
Times == {x \in 0 .. clock : 0 < start /\ start <= x /\ (stop # 0 => x <= stop)}

(* What the history variable kept stands for                               *)
KeptTrue ==
    kept => /\ AllIn(blocks, Times) /\ AllIn(out, Times) /\ AllIn(<<traceblock>>, Times)
            /\ pending # 0 => pending \in Times
            /\ start = 0 => Empty
            /\ stop # 0 => ~kutrace_tracing

OffTrue == off => stop # 0 /\ ~kutrace_tracing /\ pending = 0

(* DoDump's count of the blocks                                            *)
Counted ==
    /\ off => ~livedump /\ blockcount = Len(blocks)
    /\ Named(blocks) => blockcount # 0

(* The blocks DoDump has written                                           *)
Copied ==
    /\ off => \A i \in 1 .. Len(out) : i <= Len(blocks) /\ out[i] = blocks[i]
    /\ Named(blocks) /\ out # <<>> => Named(out)

(* What the earlier operations of a command have seen to                   *)
Ready ==
    /\ At = "ON" => start # 0
    /\ At \in {"INSERTN", "INSERT1"} => start # 0 /\ (kept => stop = 0)
    /\ At \in {"msleep", "StopPairIfZero", "fopen", "GETCOUNT", "LivePair", "Blocks", "Close"}
          => ~kutrace_tracing
    /\ At = "StopPairIfZero" => pending = 0
    /\ (At = "FLUSH" /\ OpensNext) \/ At \in {"fopen", "GETCOUNT"} => (off => ~livedump)
    /\ At \in {"LivePair", "Blocks", "Close"} => Counted
    /\ At \in {"Blocks", "Close"} => (livedump => stop # 0) /\ Copied
    /\ At = "Close" => Len(out) >= blockcount
    /\ At \notin {"Blocks", "Close"} => out = <<>> /\ traceblock = Garbage

Types == TypeOK /\ todo \in Seq(Operation) /\ Shaped(todo)
Inv == Types /\ Past /\ KeptTrue /\ OffTrue /\ Ready /\ TimesBracketedIfKept

LEMMA AllInMore ==
    ASSUME NEW bs, NEW S, NEW T, AllIn(bs, S), S \subseteq T
    PROVE  AllIn(bs, T)
  BY DEF AllIn

LEMMA AllInNone ==
    ASSUME NEW T
    PROVE  AllIn(<<>>, T) /\ AllIn(<<Garbage>>, T)
<1>1. Garbage.entries = <<>>
  BY DEF Garbage
<1> QED
  BY <1>1 DEF AllIn

LEMMA AtDoing ==
    ASSUME NEW x \in Names
    PROVE  Doing(x) <=> At = x
  BY DEF Doing, At, Names

LEMMA Step ==
    ASSUME todo \in Seq(Operation), Shaped(todo), NEW a \in Names, At = a, Done
    PROVE  /\ todo' \in Seq(Operation) /\ Shaped(todo')
           /\ At' = "" \/ <<a, At'>> \in Pairs
           /\ At' = "" => a # "Blocks"
           /\ At' = "fopen" => OpensNext
           /\ At' = "FLUSH" /\ OpensNext' => a = "TEST"
<1>1. todo # <<>> /\ Head(todo).op = a
  BY DEF At, Names
<1>2. todo' # <<>> => Head(todo') \in Operation /\ Head(todo').op \in Names
  <2>1. todo' \in Seq(Operation)
    BY <1>1, Advance
  <2>2. todo' # <<>> => Head(todo') \in Operation
    BY <2>1
  <2> QED
    BY <2>2 DEF Operation
<1>3. todo' # <<>> => At' # ""
  BY <1>2 DEF At, Names
<1> QED
  BY <1>1, <1>3, Advance DEF At, OpensNext

(* Inserting an entry                                                      *)
LEMMA InsertFacts ==
    ASSUME TypeOK, NEW e \in Entry, InsertEntry(e)
    PROVE  /\ blocks' \in Seq(Block) /\ Len(blocks') <= NBLOCKS
           /\ \A b \in 1 .. Len(blocks') : Len(blocks'[b].entries) \in 1 .. BlockWords
           /\ current' \in 0 .. Len(blocks') /\ flags' = flags
           /\ kutrace_tracing' \in BOOLEAN /\ did_wrap_around' \in BOOLEAN
           /\ kutrace_tracing' => kutrace_tracing
           /\ \A T : AllIn(blocks, T) /\ e.at \in T => AllIn(blocks', T)
           /\ Named(blocks) => Named(blocks')
           /\ Named(blocks') => Named(blocks) \/ e.kind = "name"
<1> DEFINE fresh == [flags |-> flags, entries |-> <<e>>]
           room == current # 0 /\ Len(blocks[current].entries) < BlockWords
<1> USE SizesAssumption
<1>1. fresh \in Block /\ Len(fresh.entries) = 1 /\ fresh.entries[1] = e
  BY DEF TypeOK, Block
<1>2. /\ blocks \in Seq(Block) /\ Len(blocks) \in Nat /\ Len(blocks) <= NBLOCKS
      /\ current \in 0 .. Len(blocks) /\ kutrace_tracing \in BOOLEAN /\ did_wrap_around \in BOOLEAN
      /\ \A b \in 1 .. Len(blocks) : Len(blocks[b].entries) \in 1 .. BlockWords
  BY DEF TypeOK
<1>7. ASSUME NEW b \in 1 .. Len(blocks) PROVE blocks[b] \in Block /\ blocks[b].entries \in Seq(Entry)
  <2>1. blocks[b] \in Block
    BY <1>2
  <2> QED
    BY <2>1 DEF Block
<1>3. CASE room /\ blocks' = [blocks EXCEPT ![current].entries = Append(@, e)]
            /\ UNCHANGED <<kutrace_tracing, flags, did_wrap_around, current>>
  <2> DEFINE b1 == [blocks[current] EXCEPT !.entries = Append(@, e)]
  <2>1. current \in 1 .. Len(blocks)
    BY <1>2, <1>3
  <2>2. /\ b1 \in Block /\ b1.entries = Append(blocks[current].entries, e)
    <3> DEFINE b0 == blocks[current]
    <3>1. b0 \in Block /\ b0.entries \in Seq(Entry)
      BY <1>7, <2>1
    <3> HIDE DEF b0
    <3>2. Append(b0.entries, e) \in Seq(Entry)
      BY <3>1
    <3>3. /\ [b0 EXCEPT !.entries = Append(@, e)] \in Block
          /\ [b0 EXCEPT !.entries = Append(@, e)].entries = Append(b0.entries, e)
      BY <3>1, <3>2 DEF Block
    <3> QED
      BY <3>3 DEF b0
  <2>3. /\ Len(b1.entries) = Len(blocks[current].entries) + 1
        /\ b1.entries[Len(b1.entries)] = e
        /\ \A j \in 1 .. Len(b1.entries) - 1 : b1.entries[j] = blocks[current].entries[j]
    BY <1>7, <2>1, <2>2
  <2>4. blocks' = [blocks EXCEPT ![current] = b1]
    BY <1>3
  <2> HIDE DEF b1
  <2>5. /\ blocks' \in Seq(Block) /\ Len(blocks') = Len(blocks) /\ blocks'[current] = b1
        /\ \A i \in 1 .. Len(blocks) : i # current => blocks'[i] = blocks[i]
    BY <1>2, <2>1, <2>2, <2>4
  <2>6. \A b \in 1 .. Len(blocks') : Len(blocks'[b].entries) \in 1 .. BlockWords
    BY <1>2, <1>3, <2>1, <2>3, <2>5
  <2>7. ASSUME NEW T, AllIn(blocks, T), e.at \in T PROVE AllIn(blocks', T)
    <3> SUFFICES ASSUME NEW i \in 1 .. Len(blocks'), NEW j \in 1 .. Len(blocks'[i].entries)
                 PROVE  blocks'[i].entries[j].at \in T
      BY DEF AllIn
    <3>1. CASE i # current
      BY <2>5, <2>7, <3>1 DEF AllIn
    <3>2. CASE i = current /\ j = Len(b1.entries)
      BY <2>3, <2>5, <2>7, <3>2
    <3>3. CASE i = current /\ j # Len(b1.entries)
      <4>1. j \in 1 .. Len(b1.entries) - 1 /\ j \in 1 .. Len(blocks[current].entries)
        BY <1>2, <2>1, <2>3, <2>5, <3>3
      <4> QED
        BY <2>1, <2>3, <2>5, <2>7, <3>3, <4>1 DEF AllIn
    <3> QED
      BY <3>1, <3>2, <3>3
  <2>8. blocks' # <<>> /\ blocks # <<>> /\ blocks'[1].entries[1] = blocks[1].entries[1]
    <3>1. 1 \in 1 .. Len(blocks) /\ 1 \in 1 .. Len(blocks[1].entries)
      BY <1>2, <2>1
    <3>2. CASE current = 1
      BY <2>3, <2>5, <3>1, <3>2
    <3>3. CASE current # 1
      BY <2>5, <3>1, <3>3
    <3> QED
      BY <2>5, <3>1, <3>2, <3>3
  <2> QED
    BY <1>2, <1>3, <2>5, <2>6, <2>7, <2>8 DEF Named
<1>4. CASE ~room /\ Len(blocks) < NBLOCKS /\ blocks' = Append(blocks, fresh)
            /\ current' = Len(blocks) + 1
            /\ UNCHANGED <<kutrace_tracing, flags, did_wrap_around>>
  <2> HIDE DEF fresh
  <2>1. /\ blocks' \in Seq(Block) /\ Len(blocks') = Len(blocks) + 1
        /\ blocks'[Len(blocks) + 1] = fresh
        /\ \A i \in 1 .. Len(blocks) : blocks'[i] = blocks[i]
    BY <1>1, <1>2, <1>4
  <2>2. \A b \in 1 .. Len(blocks') : Len(blocks'[b].entries) \in 1 .. BlockWords
    <3>1. \A b \in 1 .. Len(blocks') : b \in 1 .. Len(blocks) \/ b = Len(blocks) + 1
      BY <1>2, <2>1
    <3>2. 1 \in 1 .. BlockWords
      OBVIOUS
    <3> QED
      BY <1>1, <1>2, <2>1, <3>1, <3>2
  <2>3. ASSUME NEW T, AllIn(blocks, T), e.at \in T PROVE AllIn(blocks', T)
    <3> SUFFICES ASSUME NEW i \in 1 .. Len(blocks'), NEW j \in 1 .. Len(blocks'[i].entries)
                 PROVE  blocks'[i].entries[j].at \in T
      BY DEF AllIn
    <3>1. CASE i = Len(blocks) + 1
      BY <1>1, <2>1, <2>3, <3>1
    <3>2. CASE i # Len(blocks) + 1
      <4>1. i \in 1 .. Len(blocks)
        BY <1>2, <2>1, <3>2
      <4> QED
        BY <2>1, <2>3, <4>1 DEF AllIn
    <3> QED
      BY <3>1, <3>2
  <2>4. blocks' # <<>> /\ (blocks # <<>> => blocks'[1] = blocks[1])
    BY <1>2, <2>1
  <2>5. blocks = <<>> => blocks'[1] = fresh
    BY <1>2, <2>1
  <2> QED
    BY <1>1, <1>2, <1>4, <2>1, <2>2, <2>3, <2>4, <2>5 DEF Named
<1>5. CASE ~room /\ Len(blocks) = NBLOCKS /\ current' = WrapTo
            /\ blocks' = [blocks EXCEPT ![WrapTo] = fresh]
            /\ did_wrap_around' = TRUE
            /\ UNCHANGED <<kutrace_tracing, flags>>
  <2>1. WrapTo \in 2 .. Len(blocks)
    BY <1>2, <1>5 DEF WrapTo
  <2> HIDE DEF fresh
  <2>2. /\ blocks' \in Seq(Block) /\ Len(blocks') = Len(blocks) /\ blocks'[WrapTo] = fresh
        /\ \A i \in 1 .. Len(blocks) : i # WrapTo => blocks'[i] = blocks[i]
    BY <1>1, <1>2, <1>5, <2>1
  <2>3. \A b \in 1 .. Len(blocks') : Len(blocks'[b].entries) \in 1 .. BlockWords
    <3>1. 1 \in 1 .. BlockWords
      OBVIOUS
    <3> QED
      BY <1>1, <1>2, <2>2, <3>1
  <2>4. ASSUME NEW T, AllIn(blocks, T), e.at \in T PROVE AllIn(blocks', T)
    BY <1>1, <2>2, <2>4 DEF AllIn
  <2>5. blocks' # <<>> /\ blocks'[1] = blocks[1]
    BY <1>2, <2>1, <2>2
  <2>6. blocks # <<>>
    BY <1>2, <2>1
  <2>7. current' \in 0 .. Len(blocks')
    BY <1>5, <2>1, <2>2
  <2>8. Named(blocks') <=> Named(blocks)
    BY <2>5, <2>6 DEF Named
  <2> QED
    BY <1>2, <1>5, <2>2, <2>3, <2>4, <2>7, <2>8
<1>6. CASE kutrace_tracing' = FALSE /\ UNCHANGED <<flags, did_wrap_around, blocks, current>>
  BY <1>2, <1>6
<1> QED
  BY <1>3, <1>4, <1>5, <1>6 DEF InsertEntry

-----------------------------------------------------------------------------
(* Every step preserves the invariant                                      *)

LEMMA InitInv == Init => Inv
<1> SUFFICES ASSUME Init PROVE Inv
  OBVIOUS
<1>1. Garbage \in Block
  BY DEF Garbage, Block
<1>2. menu.events \in Nat /\ menu.most \in Nat
  BY MenuAssumption DEF Init
<1>3. TypeOK
  <2>1. file.blocks = <<>> /\ <<>> \in Seq(Block) /\ Len(<<>>) = 0
    BY DEF Init, NoFile
  <2>2. blocks = <<>> /\ out = <<>> /\ traceblock = Garbage
    BY DEF Init
  <2>3. /\ blocks \in Seq(Block) /\ Len(blocks) = 0 /\ Len(blocks) <= NBLOCKS
        /\ out \in Seq(Block) /\ file.blocks \in Seq(Block)
    BY <2>1, <2>2, SizesAssumption
  <2>4. /\ kutrace_tracing \in BOOLEAN /\ did_wrap_around \in BOOLEAN /\ livedump \in BOOLEAN
        /\ wrapped \in BOOLEAN /\ kept \in BOOLEAN /\ off \in BOOLEAN /\ running \in BOOLEAN
    BY Zenon DEF Init
  <2>5. /\ clock \in Nat /\ events \in 0 .. menu.events /\ pending \in 0 .. clock
        /\ flags \in SUBSET Flags /\ control_flags \in SUBSET Flags
        /\ start \in 0 .. clock /\ stop \in 0 .. clock /\ blockcount \in Nat
        /\ menu \in Menus /\ commands \in 0 .. menu.most
    BY <1>2 DEF Init
  <2>6. traceblock \in Block /\ current \in 0 .. Len(blocks)
    BY <1>1, <2>2, <2>3 DEF Init
  <2>7. \A b \in 1 .. Len(blocks) : Len(blocks[b].entries) \in 1 .. BlockWords
    BY <2>3
  <2> QED
    BY <2>3, <2>4, <2>5, <2>6, <2>7 DEF TypeOK
<1>4. todo \in Seq(Operation) /\ Shaped(todo) /\ At = ""
  BY DEF Init, Shaped, At
<1>5. Past /\ KeptTrue
  BY AllInNone DEF Init, Past, KeptTrue, Empty
<1>6. OffTrue /\ Ready /\ TimesBracketedIfKept
  BY <1>4 DEF Init, OffTrue, Ready, TimesBracketedIfKept, NoFile
<1> QED
  BY <1>3, <1>4, <1>5, <1>6 DEF Inv, Types

LEMMA StutterInv ==
    ASSUME Inv, UNCHANGED vars
    PROVE  Inv'
<1> USE DEF vars, kernelVars, modVars, cmdVars, dumpVars, history
<1>1. Types' /\ Past' /\ OffTrue'
  BY DEF Inv, Types, TypeOK, Past, OffTrue
<1>2. KeptTrue'
  BY DEF Inv, KeptTrue, Times, Empty
<1>3. Ready'
  BY DEF Inv, Ready, At, OpensNext, Counted, Copied
<1>4. TimesBracketedIfKept'
  BY DEF Inv, TimesBracketedIfKept, TimesBracketed, FileEntries
<1> QED
  BY <1>1, <1>2, <1>3, <1>4 DEF Inv

(* Only closing a file changes what is said of it.                         *)
LEMMA SameFile ==
    ASSUME TimesBracketedIfKept, file' = file
    PROVE  TimesBracketedIfKept'
  BY DEF TimesBracketedIfKept, TimesBracketed, FileEntries

LEMMA EventBeginInv ==
    ASSUME Inv, EventBegin
    PROVE  Inv'
<1> USE DEF EventBegin, modVars, cmdVars, dumpVars, history
<1>1. clock \in Nat /\ events \in Nat /\ menu.events \in Nat /\ menu.most \in Nat
  BY MenuAssumption DEF Inv, Types, TypeOK
<1>2. TypeOK'
  BY <1>1 DEF Inv, Types, TypeOK
<1>3. todo' = todo /\ At' = At /\ OpensNext' = OpensNext
  BY DEF At, OpensNext
<1>4. 0 .. clock \subseteq 0 .. clock'
  BY <1>1
<1>5. Past'
  BY <1>4, AllInMore DEF Inv, Past
<1>6. ASSUME kept PROVE KeptTrue'
  <2>1. start # 0 /\ stop = 0
    BY <1>6 DEF Inv, KeptTrue, Empty
  <2>2. Times \subseteq Times' /\ pending' \in Times'
    BY <1>1, <2>1 DEF Inv, Types, TypeOK, Times
  <2> QED
    BY <1>6, <2>1, <2>2, AllInMore DEF Inv, KeptTrue, Empty
<1>7. OffTrue' /\ ~off
  BY DEF Inv, OffTrue
<1>8. Ready'
  BY <1>3, <1>7 DEF Inv, Ready, Counted, Copied
<1> QED
  BY <1>2, <1>3, <1>5, <1>6, <1>7, <1>8, SameFile DEF Inv, Types, KeptTrue

LEMMA EventEndInv ==
    ASSUME Inv, EventEnd
    PROVE  Inv'
<1> DEFINE e == [kind |-> "event", at |-> pending]
<1> USE DEF cmdVars, dumpVars, history
<1>1. TypeOK /\ clock \in Nat /\ pending \in 0 .. clock /\ pending # 0 /\ InsertEntry(e)
  BY DEF Inv, Types, TypeOK, EventEnd
<1>2. e \in Entry /\ e.at = pending /\ e.kind # "name"
  BY <1>1 DEF Entry
<1> HIDE DEF e
<1>3. /\ blocks' \in Seq(Block) /\ Len(blocks') <= NBLOCKS
      /\ \A b \in 1 .. Len(blocks') : Len(blocks'[b].entries) \in 1 .. BlockWords
      /\ current' \in 0 .. Len(blocks') /\ flags' = flags
      /\ kutrace_tracing' \in BOOLEAN /\ did_wrap_around' \in BOOLEAN
      /\ kutrace_tracing' => kutrace_tracing
      /\ \A T : AllIn(blocks, T) /\ pending \in T => AllIn(blocks', T)
      /\ Named(blocks) <=> Named(blocks')
  BY <1>1, <1>2, InsertFacts
<1>4. /\ UNCHANGED <<clock, events, cmdVars, todo, start, stop, dumpVars, file, history>>
      /\ pending' = 0
  BY DEF EventEnd
<1>5. TypeOK'
  BY <1>1, <1>3, <1>4 DEF TypeOK
<1>6. todo' = todo /\ At' = At /\ OpensNext' = OpensNext
  BY <1>4 DEF At, OpensNext
<1>7. Past'
  BY <1>1, <1>3, <1>4 DEF Inv, Past
<1>8. ASSUME kept PROVE KeptTrue'
  <2>1. start # 0 /\ pending \in Times /\ Times' = Times
    BY <1>1, <1>4, <1>8 DEF Inv, KeptTrue, Empty, Times
  <2> QED
    BY <1>3, <1>4, <1>8, <2>1 DEF Inv, KeptTrue
<1>9. OffTrue' /\ ~off
  BY <1>1, <1>4 DEF Inv, OffTrue
<1>10. Ready'
  BY <1>3, <1>4, <1>6, <1>9 DEF Inv, Ready, Counted, Copied
<1> QED
  BY <1>4, <1>5, <1>6, <1>7, <1>8, <1>9, <1>10, SameFile DEF Inv, Types, KeptTrue

LEMMA ReadLineInv ==
    ASSUME Inv, NEW c \in menu.commands, ReadLine(c)
    PROVE  Inv'
<1> DEFINE f == NewFlags(c)
<1> USE DEF kernelVars, modVars, dumpVars, history
<1>1. menu \in Menus /\ c \in Commands /\ menu.most \in Nat /\ commands \in Nat
  BY MenuAssumption DEF Inv, Types, TypeOK
<1>2. f \in SUBSET Flags
  <2>1. ASSUME c \in DOMAIN GoFlags PROVE GoFlags[c] \in SUBSET Flags
    <3>1. c \in {"go", "goipc", "gollc", "gowrap", "goipcllc", "goipcwrap", "gollcwrap",
                 "goipcllcwrap"}
      BY <2>1 DEF GoFlags
    <3> QED
      BY <3>1 DEF GoFlags, Flags
  <2>2. control_flags \in SUBSET Flags
    BY DEF Inv, Types, TypeOK
  <2> QED
    BY <2>1, <2>2 DEF NewFlags
<1>3. /\ todo = <<>> /\ todo' = Body(c, f) /\ control_flags' = f
      /\ commands' = commands + 1 /\ commands < menu.most /\ running' = TRUE
      /\ UNCHANGED <<kernelVars, modVars, start, stop, dumpVars, file, history, menu>>
  BY DEF ReadLine
<1> HIDE DEF f
<1>4. TypeOK'
  BY <1>1, <1>2, <1>3 DEF Inv, Types, TypeOK
<1>5. /\ todo' \in Seq(Operation) /\ Shaped(todo')
      /\ At' \in Firsts \cup {""} /\ ~(At' = "FLUSH" /\ OpensNext')
  <2>1. Body(c, f) = <<>> \/ \E a \in Firsts : \E b : Piece(Body(c, f), a, b)
    BY <1>1, <1>2, BodyFacts
  <2>2. CASE Body(c, f) = <<>>
    BY <1>3, <2>2 DEF At, Shaped
  <2>3. CASE \E a \in Firsts : \E b : Piece(Body(c, f), a, b)
    <3>0. PICK a \in Firsts : \E b : Piece(todo', a, b)
      BY <1>3, <2>3
    <3>1. PICK b : Piece(todo', a, b)
      BY <3>0
    <3>2. /\ todo' \in Seq(Operation) /\ Shaped(todo') /\ Len(todo') >= 1 /\ todo'[1].op = a
          /\ a = "FLUSH" /\ Len(todo') >= 2 => todo'[2].op # "fopen"
      BY <3>1 DEF Piece
    <3>3. todo' # <<>> /\ Head(todo') = todo'[1]
      BY <3>2
    <3>4. At' = a
      BY <3>2, <3>3 DEF At
    <3> QED
      BY <3>2, <3>4 DEF OpensNext
  <2> QED
    BY <2>1, <2>2, <2>3
<1>6. Past' /\ OffTrue'
  BY <1>3 DEF Inv, Past, OffTrue
<1>7. KeptTrue'
  BY <1>3 DEF Inv, KeptTrue, Times, Empty
<1>8. At = ""
  BY <1>3 DEF At
<1>9. Ready'
  BY <1>3, <1>5, <1>8 DEF Inv, Ready, Firsts
<1> QED
  BY <1>3, <1>4, <1>5, <1>6, <1>7, <1>9, SameFile DEF Inv, Types

(* The operation that was done, and the one that may come next             *)
LEMMA DoneStep ==
    ASSUME Inv, NEW a \in Names, Doing(a), Done
    PROVE  /\ At = a /\ todo' \in Seq(Operation) /\ Shaped(todo')
           /\ At' = "" \/ <<a, At'>> \in Pairs
           /\ At' = "" => a # "Blocks"
           /\ At' = "fopen" => OpensNext
           /\ At' = "FLUSH" /\ OpensNext' => a = "TEST"
           /\ \A b \in Names : Doing(b) => b = a
<1>1. \A b \in Names : Doing(b) <=> At = b
  BY AtDoing
<1> QED
  BY <1>1, Step DEF Inv, Types

LEMMA ExitInv ==
    ASSUME Inv, Exit
    PROVE  Inv'
<1> USE DEF kernelVars, modVars, dumpVars
<1>1. /\ At = "exit" /\ todo' \in Seq(Operation) /\ Shaped(todo') /\ At' = ""
  <2>1. "exit" \in Names /\ Doing("exit") /\ Done
    BY DEF Exit, Names
  <2> QED
    BY <2>1, DoneStep DEF Pairs
<1>2. /\ running' = FALSE /\ control_flags' = {} /\ start' = 0 /\ stop' = 0
      /\ kept' = Empty /\ off' = FALSE
      /\ UNCHANGED <<kernelVars, modVars, menu, commands, dumpVars, file>>
  BY DEF Exit, Forget
<1>3. TypeOK'
  <2>1. kept' \in BOOLEAN
    BY <1>2, Zenon DEF Empty
  <2>2. start' \in 0 .. clock' /\ stop' \in 0 .. clock' /\ control_flags' \in SUBSET Flags
    BY <1>2 DEF Inv, Types, TypeOK
  <2>3. off' \in BOOLEAN /\ running' \in BOOLEAN
    BY <1>2, Zenon
  <2> QED
    BY <1>2, <2>1, <2>2, <2>3 DEF Inv, Types, TypeOK
<1>4. out = <<>> /\ traceblock = Garbage
  BY <1>1 DEF Inv, Ready
<1>5. Past' /\ OffTrue' /\ Ready'
  BY <1>1, <1>2, <1>4 DEF Inv, Past, OffTrue, Ready
<1>6. KeptTrue'
  BY <1>2, <1>4, AllInNone DEF KeptTrue, Empty
<1> QED
  BY <1>1, <1>2, <1>3, <1>5, <1>6, SameFile DEF Inv, Types

LEMMA DieInv ==
    ASSUME Inv, Die
    PROVE  Inv'
<1> USE DEF kernelVars, modVars
<1>1. /\ running' = FALSE /\ control_flags' = {} /\ start' = 0 /\ stop' = 0
      /\ kept' = Empty /\ off' = FALSE /\ todo' = <<>> /\ out' = <<>> /\ traceblock' = Garbage
      /\ UNCHANGED <<kernelVars, modVars, menu, commands, livedump, wrapped, blockcount, file>>
  BY DEF Die, Forget
<1>2. todo' \in Seq(Operation) /\ Shaped(todo') /\ At' = ""
  BY <1>1 DEF Shaped, At
<1>3. Garbage \in Block
  BY DEF Garbage, Block
<1>4. TypeOK'
  <2>1. kept' \in BOOLEAN
    BY <1>1, Zenon DEF Empty
  <2>2. start' \in 0 .. clock' /\ stop' \in 0 .. clock' /\ control_flags' \in SUBSET Flags
    BY <1>1 DEF Inv, Types, TypeOK
  <2>3. off' \in BOOLEAN /\ running' \in BOOLEAN
    BY <1>1, Zenon
  <2> QED
    BY <1>1, <1>3, <2>1, <2>2, <2>3 DEF Inv, Types, TypeOK
<1>5. Past'
  BY <1>1, AllInNone DEF Inv, Past
<1>6. OffTrue' /\ Ready'
  BY <1>1, <1>2 DEF OffTrue, Ready
<1>7. KeptTrue'
  BY <1>1, AllInNone DEF KeptTrue, Empty
<1> QED
  BY <1>1, <1>2, <1>4, <1>5, <1>6, <1>7, SameFile DEF Inv, Types

LEMMA SwitchInv ==
    ASSUME Inv, Switch
    PROVE  Inv'
<1> USE DEF kernelVars, cmdVars, dumpVars
<1>1. UNCHANGED <<kernelVars, flags, did_wrap_around, blocks, current,
                  cmdVars, start, stop, dumpVars, file>> /\ Done
  BY DEF Switch
<1>2. "ON" \in Names /\ "OFF" \in Names
  BY DEF Names
<1>3. Past'
  BY <1>1 DEF Inv, Past
<1>4. CASE Doing("ON")
  <2>1. /\ At = "ON" /\ todo' \in Seq(Operation) /\ Shaped(todo') /\ At' \in {"", "exit"}
        /\ ~Doing("OFF")
    BY <1>1, <1>2, <1>4, DoneStep DEF Pairs
  <2>2. kutrace_tracing' = TRUE /\ kept' = (kept /\ stop = 0) /\ off' = FALSE
    BY <1>4, <2>1 DEF Switch
  <2>3. TypeOK'
    BY <1>1, <2>2 DEF Inv, Types, TypeOK
  <2>4. start # 0
    BY <2>1 DEF Inv, Ready
  <2>5. KeptTrue'
    BY <1>1, <2>2, <2>4 DEF Inv, KeptTrue, Times
  <2>6. OffTrue' /\ Ready'
    BY <1>1, <2>1, <2>2 DEF Inv, Ready, OffTrue
  <2> QED
    BY <1>1, <1>3, <2>1, <2>3, <2>5, <2>6, SameFile DEF Inv, Types
<1>5. CASE Doing("OFF")
  <2>1. /\ At = "OFF" /\ todo' \in Seq(Operation) /\ Shaped(todo') /\ At' \in {"", "msleep"}
        /\ ~Doing("ON")
    BY <1>1, <1>2, <1>5, DoneStep DEF Pairs
  <2>2. kutrace_tracing' = FALSE /\ kept' = kept /\ off' = off
    <3>1. kept \in BOOLEAN /\ off \in BOOLEAN
      BY DEF Inv, Types, TypeOK
    <3>2. kutrace_tracing' = FALSE
      BY <2>1 DEF Switch, Doing
    <3>3. kept' = kept
      <4>1. kept' = (kept /\ (Doing("ON") => stop = 0))
        BY DEF Switch
      <4>2. (Doing("ON") => stop = 0) = TRUE
        BY <2>1
      <4> QED
        BY <3>1, <4>1, <4>2
    <3>4. off' = off
      <4>1. off' = (off /\ Doing("OFF"))
        BY DEF Switch
      <4> QED
        BY <1>5, <3>1, <4>1
    <3> QED
      BY <3>2, <3>3, <3>4
  <2>3. TypeOK'
    BY <1>1, <2>2 DEF Inv, Types, TypeOK
  <2>4. KeptTrue'
    BY <1>1, <2>2 DEF Inv, KeptTrue, Times, Empty
  <2>5. OffTrue' /\ Ready'
    BY <1>1, <2>1, <2>2 DEF Inv, Ready, OffTrue
  <2> QED
    BY <1>1, <1>3, <2>1, <2>3, <2>4, <2>5, SameFile DEF Inv, Types
<1> QED
  BY <1>4, <1>5 DEF Switch

LEMMA SleepInv ==
    ASSUME Inv, Sleep
    PROVE  Inv'
<1> USE DEF kernelVars, modVars, cmdVars, dumpVars, history
<1>1. /\ UNCHANGED <<kernelVars, modVars, cmdVars, start, stop, dumpVars, file, history>>
      /\ Done /\ pending = 0
  BY DEF Sleep
<1>2. /\ At = "msleep" /\ todo' \in Seq(Operation) /\ Shaped(todo')
      /\ At' \in {"", "StopPairIfZero", "FLUSH"} /\ ~(At' = "FLUSH" /\ OpensNext')
  <2>1. "msleep" \in Names /\ Doing("msleep")
    BY DEF Names, Sleep
  <2> QED
    BY <1>1, <2>1, DoneStep DEF Pairs
<1>3. TypeOK' /\ Past' /\ OffTrue'
  BY <1>1 DEF Inv, Types, TypeOK, Past, OffTrue
<1>4. KeptTrue'
  BY <1>1 DEF Inv, KeptTrue, Times, Empty
<1>5. Ready'
  BY <1>1, <1>2 DEF Inv, Ready
<1> QED
  BY <1>1, <1>2, <1>3, <1>4, <1>5, SameFile DEF Inv, Types

LEMMA SetStartInv ==
    ASSUME Inv, SetStart
    PROVE  Inv'
<1> DEFINE sets == Doing("StartPair") \/ start = 0
<1> USE DEF modVars, cmdVars, dumpVars
<1>1. /\ UNCHANGED <<events, pending, modVars, cmdVars, stop, dumpVars, file, off>> /\ Done
      /\ clock' = (IF sets THEN clock + 1 ELSE clock)
      /\ start' = (IF sets THEN clock + 1 ELSE start)
      /\ kept' = (kept /\ (sets => Empty /\ stop = 0))
  BY DEF SetStart
<1> HIDE DEF sets
<1>2. /\ At \in {"StartPair", "StartPairIfZero"} /\ todo' \in Seq(Operation) /\ Shaped(todo')
      /\ At' \in {"", "INSERTN", "ON"} /\ (At' = "INSERTN" => sets)
  <2>1. "StartPair" \in Names /\ "StartPairIfZero" \in Names
    BY DEF Names
  <2>2. CASE Doing("StartPair")
    BY <1>1, <2>1, <2>2, DoneStep DEF Pairs, sets
  <2>3. CASE Doing("StartPairIfZero")
    BY <1>1, <2>1, <2>3, DoneStep DEF Pairs
  <2> QED
    BY <2>2, <2>3 DEF SetStart
<1>3. clock \in Nat /\ start \in 0 .. clock /\ stop \in 0 .. clock /\ pending \in 0 .. clock
  BY DEF Inv, Types, TypeOK
<1>4. clock' \in Nat /\ clock <= clock' /\ start' \in 0 .. clock' /\ start' # 0
  BY <1>1, <1>3 DEF sets
<1>5. stop' \in 0 .. clock' /\ pending' \in 0 .. clock' /\ kept' \in BOOLEAN
  <2>1. kept' \in BOOLEAN
    BY <1>1, Zenon
  <2> QED
    BY <1>1, <1>3, <1>4, <2>1
<1>6. TypeOK'
  BY <1>1, <1>4, <1>5 DEF Inv, Types, TypeOK
<1>7. out = <<>> /\ traceblock = Garbage
  BY <1>2 DEF Inv, Ready
<1>8. Past'
  <2>1. 0 .. clock \subseteq 0 .. clock'
    BY <1>3, <1>4
  <2> QED
    BY <1>1, <2>1, AllInMore DEF Inv, Past
<1>9. ASSUME kept' PROVE KeptTrue'
  <2>1. kept /\ (sets => Empty /\ stop = 0)
    BY <1>1, <1>9
  <2>2. CASE sets
    <3>1. blocks = <<>> /\ pending = 0 /\ ~kutrace_tracing
      BY <2>1, <2>2 DEF Empty
    <3> QED
      BY <1>1, <1>4, <1>7, <3>1, AllInNone DEF KeptTrue
  <2>3. CASE ~sets
    <3>1. Times' = Times /\ UNCHANGED <<start, clock>>
      BY <1>1, <2>3 DEF Times
    <3> QED
      BY <1>1, <1>4, <2>1, <3>1 DEF Inv, KeptTrue
  <2> QED
    BY <2>2, <2>3
<1>10. KeptTrue'
  BY <1>9 DEF KeptTrue
<1>11. OffTrue'
  BY <1>1 DEF Inv, OffTrue
<1>12. sets => (kept' => stop' = 0)
  BY <1>1
<1>13. Ready'
  BY <1>1, <1>2, <1>4, <1>7, <1>12 DEF Ready
<1> QED
  BY <1>1, <1>2, <1>6, <1>8, <1>10, <1>11, <1>13, SameFile DEF Inv, Types

LEMMA SetStopInv ==
    ASSUME Inv, SetStop
    PROVE  Inv'
<1> DEFINE sets == \/ Doing("StopPairIfZero") /\ stop = 0
                   \/ Doing("LivePair") /\ livedump
<1> USE DEF modVars, cmdVars
<1>1. /\ UNCHANGED <<events, pending, modVars, cmdVars, start, livedump, wrapped,
                     traceblock, out, file, kept>> /\ Done
      /\ clock' = (IF sets THEN clock + 1 ELSE clock)
      /\ stop' = (IF sets THEN clock + 1 ELSE stop)
      /\ blockcount' = (IF Doing("LivePair") /\ livedump THEN LiveBlocks ELSE blockcount)
      /\ off' = (off \/ Doing("StopPairIfZero"))
  BY DEF SetStop
<1>2. /\ At \in {"StopPairIfZero", "LivePair"} /\ todo' \in Seq(Operation) /\ Shaped(todo')
      /\ Doing("StopPairIfZero") <=> At = "StopPairIfZero"
      /\ Doing("LivePair") <=> At = "LivePair"
      /\ At = "StopPairIfZero" => At' \in {"", "msleep", "FLUSH", "exit"}
      /\ At = "LivePair" => At' \in {"", "Blocks"}
      /\ ~(At' = "FLUSH" /\ OpensNext')
  <2>1. "StopPairIfZero" \in Names /\ "LivePair" \in Names
    BY DEF Names
  <2>2. CASE Doing("StopPairIfZero")
    BY <1>1, <2>1, <2>2, DoneStep, AtDoing DEF Pairs
  <2>3. CASE Doing("LivePair")
    BY <1>1, <2>1, <2>3, DoneStep, AtDoing DEF Pairs
  <2> QED
    BY <2>2, <2>3 DEF SetStop
<1>3. /\ clock \in Nat /\ start \in 0 .. clock /\ stop \in 0 .. clock /\ pending \in 0 .. clock
      /\ blockcount \in Nat /\ LiveBlocks \in Nat \ {0} /\ off \in BOOLEAN
  BY SizesAssumption DEF Inv, Types, TypeOK
<1>4. /\ clock' \in Nat /\ clock <= clock' /\ start' \in 0 .. clock' /\ stop' \in 0 .. clock'
      /\ pending' \in 0 .. clock' /\ blockcount' \in Nat
  BY <1>1, <1>3
<1>5. off' \in BOOLEAN
  BY <1>1, <1>3
<1>6. TypeOK'
  BY <1>1, <1>4, <1>5 DEF Inv, Types, TypeOK
<1>7. out = <<>> /\ traceblock = Garbage /\ ~kutrace_tracing
  BY <1>2 DEF Inv, Ready
<1>8. Past'
  <2>1. 0 .. clock \subseteq 0 .. clock'
    BY <1>3, <1>4
  <2> QED
    BY <1>1, <2>1, AllInMore DEF Inv, Past
<1>9. ASSUME kept PROVE KeptTrue'
  <2>1. Times \subseteq Times'
    BY <1>1, <1>3, <1>4 DEF Times
  <2> QED
    BY <1>1, <1>7, <1>9, <2>1, AllInMore DEF Inv, KeptTrue, Empty
<1>10. KeptTrue'
  BY <1>1, <1>9 DEF KeptTrue
<1>11. CASE At = "StopPairIfZero"
  <2>1. pending = 0 /\ stop' # 0
    <3>1. pending = 0
      BY <1>11 DEF Inv, Ready
    <3>2. stop = 0 => stop' = clock + 1
      BY <1>1, <1>2, <1>11
    <3>3. stop # 0 => stop' = stop \/ stop' = clock + 1
      BY <1>1
    <3> QED
      BY <1>3, <3>1, <3>2, <3>3
  <2>2. OffTrue'
    BY <1>1, <1>7, <2>1 DEF OffTrue
  <2>3. Ready'
    BY <1>1, <1>2, <1>7, <1>11 DEF Ready
  <2> QED
    BY <1>1, <1>2, <1>6, <1>8, <1>10, <2>2, <2>3, SameFile DEF Inv, Types
<1>12. CASE At = "LivePair"
  <2>1. off' = off
    BY <1>1, <1>2, <1>3, <1>12
  <2>2. Counted /\ (livedump => stop' # 0)
    <3>1. Counted
      BY <1>12 DEF Inv, Ready
    <3>2. livedump => stop' = clock + 1
      BY <1>1, <1>2, <1>12
    <3> QED
      BY <1>3, <3>1, <3>2
  <2>3. OffTrue'
    BY <1>1, <1>2, <1>3, <1>7, <1>12, <2>1, <2>2 DEF Inv, OffTrue, Counted
  <2>4. Counted'
    BY <1>1, <1>2, <1>3, <1>12, <2>1, <2>2 DEF Counted
  <2>5. Copied'
    BY <1>1, <1>7 DEF Copied
  <2>6. Ready'
    BY <1>1, <1>2, <1>7, <1>12, <2>2, <2>4, <2>5 DEF Ready
  <2> QED
    BY <1>1, <1>2, <1>6, <1>8, <1>10, <2>3, <2>6, SameFile DEF Inv, Types
<1> QED
  BY <1>2, <1>11, <1>12

LEMMA ClearPairsInv ==
    ASSUME Inv, ClearPairs
    PROVE  Inv'
<1> USE DEF kernelVars, modVars, cmdVars, dumpVars
<1>1. /\ UNCHANGED <<kernelVars, modVars, cmdVars, dumpVars, file>> /\ Done
      /\ start' = 0 /\ stop' = 0 /\ kept' = Empty /\ off' = FALSE
  BY DEF ClearPairs
<1>2. /\ At = "ClearPairs" /\ todo' \in Seq(Operation) /\ Shaped(todo')
      /\ At' \in {"", "StartPair"}
  <2>1. "ClearPairs" \in Names /\ Doing("ClearPairs")
    BY DEF Names, ClearPairs
  <2> QED
    BY <1>1, <2>1, DoneStep DEF Pairs
<1>3. TypeOK'
  <2>1. kept' \in BOOLEAN /\ off' \in BOOLEAN
    BY <1>1, Zenon DEF Empty
  <2>2. start' \in 0 .. clock' /\ stop' \in 0 .. clock'
    BY <1>1 DEF Inv, Types, TypeOK
  <2> QED
    BY <1>1, <2>1, <2>2 DEF Inv, Types, TypeOK
<1>4. out = <<>> /\ traceblock = Garbage
  BY <1>2 DEF Inv, Ready
<1>5. Past' /\ OffTrue' /\ Ready'
  BY <1>1, <1>2, <1>4 DEF Inv, Past, OffTrue, Ready
<1>6. KeptTrue'
  BY <1>1, <1>4, AllInNone DEF KeptTrue, Empty
<1> QED
  BY <1>1, <1>2, <1>3, <1>5, <1>6, SameFile DEF Inv, Types

LEMMA InsertNamesInv ==
    ASSUME Inv, InsertNames
    PROVE  Inv'
<1> DEFINE e == [kind |-> IF Doing("INSERTN") THEN "name" ELSE "pid", at |-> clock + 1]
<1> USE DEF cmdVars, dumpVars, history
<1>1. /\ UNCHANGED <<events, pending, cmdVars, start, stop, dumpVars, file, history>> /\ Done
      /\ clock' = clock + 1 /\ InsertEntry(e)
  BY DEF InsertNames
<1>2. TypeOK /\ clock \in Nat /\ start \in 0 .. clock /\ stop \in 0 .. clock /\ pending \in 0 .. clock
  BY DEF Inv, Types, TypeOK
<1>3. e \in Entry /\ e.at = clock + 1
  BY <1>2 DEF Entry
<1> HIDE DEF e
<1>4. /\ blocks' \in Seq(Block) /\ Len(blocks') <= NBLOCKS
      /\ \A b \in 1 .. Len(blocks') : Len(blocks'[b].entries) \in 1 .. BlockWords
      /\ current' \in 0 .. Len(blocks') /\ flags' = flags
      /\ kutrace_tracing' \in BOOLEAN /\ did_wrap_around' \in BOOLEAN
      /\ kutrace_tracing' => kutrace_tracing
      /\ \A T : AllIn(blocks, T) /\ clock + 1 \in T => AllIn(blocks', T)
  BY <1>1, <1>2, <1>3, InsertFacts
<1>5. /\ At \in {"INSERTN", "INSERT1"} /\ todo' \in Seq(Operation) /\ Shaped(todo')
      /\ At' \in {"", "INSERT1", "StartPairIfZero"}
  <2>1. "INSERTN" \in Names /\ "INSERT1" \in Names
    BY DEF Names
  <2>2. CASE Doing("INSERTN")
    BY <1>1, <2>1, <2>2, DoneStep DEF Pairs
  <2>3. CASE Doing("INSERT1")
    BY <1>1, <2>1, <2>3, DoneStep DEF Pairs
  <2> QED
    BY <2>2, <2>3 DEF InsertNames
<1>6. /\ clock' \in Nat /\ start' \in 0 .. clock' /\ stop' \in 0 .. clock' /\ pending' \in 0 .. clock'
      /\ 0 .. clock \subseteq 0 .. clock' /\ clock + 1 \in 0 .. clock'
  BY <1>1, <1>2
<1>7. TypeOK'
  BY <1>1, <1>2, <1>4, <1>6 DEF TypeOK
<1>8. start # 0 /\ (kept => stop = 0) /\ out = <<>> /\ traceblock = Garbage
  BY <1>5 DEF Inv, Ready
<1>9. Past'
  <2>1. AllIn(blocks, 0 .. clock')
    BY <1>6, AllInMore DEF Inv, Past
  <2> QED
    BY <1>1, <1>4, <1>6, <1>8, <2>1, AllInNone DEF Past
<1>10. ASSUME kept PROVE KeptTrue'
  <2>1. Times \subseteq Times' /\ clock + 1 \in Times'
    BY <1>1, <1>2, <1>6, <1>8, <1>10 DEF Times
  <2>2. AllIn(blocks, Times')
    BY <1>10, <2>1, AllInMore DEF Inv, KeptTrue
  <2>3. AllIn(blocks', Times')
    BY <1>4, <2>1, <2>2
  <2>4. pending # 0 => pending \in Times'
    BY <1>10, <2>1 DEF Inv, KeptTrue
  <2> QED
    BY <1>1, <1>4, <1>8, <1>10, <2>3, <2>4, AllInNone DEF KeptTrue
<1>11. KeptTrue'
  BY <1>1, <1>10 DEF KeptTrue
<1>12. OffTrue'
  BY <1>1, <1>4 DEF Inv, OffTrue
<1>13. Ready'
  BY <1>1, <1>5, <1>8 DEF Ready
<1> QED
  BY <1>1, <1>5, <1>7, <1>9, <1>11, <1>12, <1>13, SameFile DEF Inv, Types

LEMMA ResetInv ==
    ASSUME Inv, Reset
    PROVE  Inv'
<1> USE DEF kernelVars, cmdVars, dumpVars
<1>1. /\ UNCHANGED <<kernelVars, cmdVars, start, stop, dumpVars, file, off>> /\ Done
      /\ kutrace_tracing' = FALSE /\ flags' = Head(todo).flags /\ did_wrap_around' = FALSE
      /\ blocks' = <<>> /\ current' = 0 /\ kept' = (pending = 0 /\ start = 0 /\ stop = 0)
  BY DEF Reset
<1>2. /\ At = "RESET" /\ todo' \in Seq(Operation) /\ Shaped(todo')
      /\ At' \in {"", "ClearPairs", "OFF"} /\ todo # <<>>
  <2>1. "RESET" \in Names /\ Doing("RESET") /\ todo # <<>>
    BY DEF Names, Reset, Doing
  <2> QED
    BY <1>1, <2>1, DoneStep DEF Pairs
<1>3. flags' \in SUBSET Flags
  <2>1. Head(todo) \in Operation
    <3>1. todo \in Seq(Operation) /\ todo # <<>>
      BY <1>2 DEF Inv, Types
    <3> QED
      BY <3>1
  <2> QED
    BY <1>1, <2>1 DEF Operation
<1>4. TypeOK'
  <2>1. kutrace_tracing' \in BOOLEAN /\ did_wrap_around' \in BOOLEAN /\ kept' \in BOOLEAN
    BY <1>1, Zenon
  <2>2. blocks' \in Seq(Block) /\ Len(blocks') = 0 /\ Len(blocks') <= NBLOCKS
    BY <1>1, SizesAssumption
  <2>3. /\ \A b \in 1 .. Len(blocks') : Len(blocks'[b].entries) \in 1 .. BlockWords
        /\ current' \in 0 .. Len(blocks')
    BY <1>1, <2>2
  <2> QED
    BY <1>1, <1>3, <2>1, <2>2, <2>3 DEF Inv, Types, TypeOK
<1>5. out = <<>> /\ traceblock = Garbage
  BY <1>2 DEF Inv, Ready
<1>6. Past'
  BY <1>1, <1>5, AllInNone DEF Past
<1>7. KeptTrue'
  BY <1>1, <1>5, AllInNone DEF KeptTrue, Empty
<1>8. OffTrue' /\ Ready'
  BY <1>1, <1>2, <1>5 DEF Inv, OffTrue, Ready
<1> QED
  BY <1>1, <1>2, <1>4, <1>6, <1>7, <1>8, SameFile DEF Inv, Types

LEMMA FlushInv ==
    ASSUME Inv, Flush
    PROVE  Inv'
<1> USE DEF kernelVars, cmdVars, dumpVars, history
<1>1. /\ UNCHANGED <<kernelVars, flags, did_wrap_around, blocks, cmdVars, start,
                     stop, dumpVars, file, history>> /\ Done
      /\ kutrace_tracing' = FALSE /\ current' = 0
  BY DEF Flush
<1>2. /\ At = "FLUSH" /\ todo' \in Seq(Operation) /\ Shaped(todo')
      /\ At' \in {"", "TEST", "fopen"} /\ (At' = "fopen" => OpensNext)
  <2>1. "FLUSH" \in Names /\ Doing("FLUSH")
    BY DEF Names, Flush
  <2> QED
    BY <1>1, <2>1, DoneStep DEF Pairs
<1>3. TypeOK'
  <2>1. kutrace_tracing' \in BOOLEAN
    BY <1>1, Zenon
  <2>2. current' \in 0 .. Len(blocks')
    BY <1>1 DEF Inv, Types, TypeOK
  <2> QED
    BY <1>1, <2>1, <2>2 DEF Inv, Types, TypeOK
<1>4. Past' /\ OffTrue'
  BY <1>1 DEF Inv, Past, OffTrue
<1>5. KeptTrue'
  BY <1>1 DEF Inv, KeptTrue, Times, Empty
<1>6. Ready'
  BY <1>1, <1>2 DEF Inv, Ready
<1> QED
  BY <1>1, <1>2, <1>3, <1>4, <1>5, <1>6, SameFile DEF Inv, Types

LEMMA TestInv ==
    ASSUME Inv, Test
    PROVE  Inv'
<1> USE DEF kernelVars, modVars, cmdVars, history
<1>1. /\ UNCHANGED <<kernelVars, modVars, cmdVars, start, stop, wrapped,
                     blockcount, traceblock, out, file, history>> /\ Done
      /\ livedump' = kutrace_tracing
  BY DEF Test
<1>2. /\ At = "TEST" /\ todo' \in Seq(Operation) /\ Shaped(todo') /\ At' \in {"", "FLUSH"}
  <2>1. "TEST" \in Names /\ Doing("TEST")
    BY DEF Names, Test
  <2> QED
    BY <1>1, <2>1, DoneStep DEF Pairs
<1>3. TypeOK'
  BY <1>1 DEF Inv, Types, TypeOK
<1>4. Past' /\ OffTrue'
  BY <1>1 DEF Inv, Past, OffTrue
<1>5. KeptTrue'
  BY <1>1 DEF Inv, KeptTrue, Times, Empty
<1>6. Ready'
  BY <1>1, <1>2 DEF Inv, Ready, OffTrue
<1> QED
  BY <1>1, <1>2, <1>3, <1>4, <1>5, <1>6, SameFile DEF Inv, Types

LEMMA OpenInv ==
    ASSUME Inv, Open
    PROVE  Inv'
<1> USE DEF kernelVars, modVars, cmdVars, dumpVars, history
<1>1. UNCHANGED <<kernelVars, modVars, cmdVars, start, stop, dumpVars, file, history>>
  BY DEF Open
<1>2. TypeOK' /\ Past' /\ OffTrue'
  BY <1>1 DEF Inv, Types, TypeOK, Past, OffTrue
<1>3. KeptTrue'
  BY <1>1 DEF Inv, KeptTrue, Times, Empty
<1>4. At = "fopen" /\ todo # <<>> /\ Head(todo).op = "fopen"
  <2>1. "fopen" \in Names /\ Doing("fopen")
    BY DEF Names, Open
  <2> QED
    BY <2>1, AtDoing DEF Doing
<1>5. CASE Done
  <2>1. todo' \in Seq(Operation) /\ Shaped(todo') /\ At' \in {"", "GETCOUNT"}
    <3>1. "fopen" \in Names /\ Doing("fopen")
      BY DEF Names, Open
    <3> QED
      BY <1>5, <3>1, DoneStep DEF Pairs
  <2>2. Ready'
    BY <1>1, <1>4, <2>1 DEF Inv, Ready
  <2> QED
    BY <1>1, <1>2, <1>3, <2>1, <2>2, SameFile DEF Inv, Types
<1>6. CASE todo' = SubSeq(todo, Len(WriteFile) + 2, Len(todo))
  <2>1. todo \in Seq(Operation) /\ Shaped(todo) /\ Len(todo) \in Nat /\ Len(todo) >= 1
        /\ todo[1].op = "fopen"
    BY <1>4 DEF Inv, Types
  <2>2. todo' = SubSeq(todo, 7, Len(todo))
    BY <1>6, DumpFacts
  <2>3. todo' \in Seq(Operation) /\ Shaped(todo') /\ At' \in {"", "ClearPairs", "OFF"}
    <3>1. CASE Len(todo) < 7
      <4>1. todo' = <<>>
        BY <2>1, <2>2, <3>1
      <4> QED
        BY <4>1 DEF Shaped, At
    <3>2. CASE Len(todo) >= 7
      <4>1. 7 \in 1 .. Len(todo) + 1
        BY <2>1, <3>2
      <4>2. /\ todo' \in Seq(Operation) /\ Shaped(todo') /\ Len(todo') = Len(todo) - 7 + 1
            /\ \A i \in 1 .. Len(todo') : todo'[i] = todo[7 - 1 + i]
        BY <2>1, <2>2, <4>1, SuffixShaped
      <4>3. Len(todo') >= 1 /\ todo'[1] = todo[7]
        BY <2>1, <3>2, <4>2
      <4>4. /\ <<todo[1].op, todo[2].op>> \in Pairs /\ <<todo[2].op, todo[3].op>> \in Pairs
            /\ <<todo[3].op, todo[4].op>> \in Pairs /\ <<todo[4].op, todo[5].op>> \in Pairs
            /\ <<todo[5].op, todo[6].op>> \in Pairs /\ <<todo[6].op, todo[7].op>> \in Pairs
        <5>1. \A i \in 1 .. 6 : <<todo[i].op, todo[i + 1].op>> \in Pairs
          BY <2>1, <3>2 DEF Shaped
        <5> QED
          BY <5>1
      <4>5. todo[7].op \in {"ClearPairs", "OFF"}
        BY <2>1, <4>4 DEF Pairs
      <4>6. todo' # <<>> /\ Head(todo') = todo[7]
        BY <4>2, <4>3
      <4> QED
        BY <4>2, <4>5, <4>6 DEF At
    <3>3. Len(todo) < 7 \/ Len(todo) >= 7
      BY <2>1
    <3> QED
      BY <3>1, <3>2, <3>3, Zenon
  <2>4. Ready'
    BY <1>1, <1>4, <2>3 DEF Inv, Ready
  <2> QED
    BY <1>1, <1>2, <1>3, <2>3, <2>4, SameFile DEF Inv, Types
<1> QED
  BY <1>5, <1>6 DEF Open

LEMMA GetCountInv ==
    ASSUME Inv, GetCount
    PROVE  Inv'
<1> USE DEF kernelVars, cmdVars, history
<1>1. /\ UNCHANGED <<kernelVars, flags, did_wrap_around, blocks, current,
                     cmdVars, start, stop, livedump, traceblock, out, file, history>> /\ Done
      /\ kutrace_tracing' = FALSE /\ blockcount' = Len(blocks) /\ wrapped' = did_wrap_around
  BY DEF GetCount
<1>2. /\ At = "GETCOUNT" /\ todo' \in Seq(Operation) /\ Shaped(todo') /\ At' \in {"", "LivePair"}
  <2>1. "GETCOUNT" \in Names /\ Doing("GETCOUNT")
    BY DEF Names, GetCount
  <2> QED
    BY <1>1, <2>1, DoneStep DEF Pairs
<1>3. TypeOK'
  <2>1. kutrace_tracing' \in BOOLEAN
    BY <1>1, Zenon
  <2>2. blockcount' \in Nat
    BY <1>1 DEF Inv, Types, TypeOK
  <2> QED
    BY <1>1, <2>1, <2>2 DEF Inv, Types, TypeOK
<1>4. Past' /\ OffTrue'
  BY <1>1 DEF Inv, Past, OffTrue
<1>5. KeptTrue'
  BY <1>1 DEF Inv, KeptTrue, Times, Empty
<1>6. Counted'
  <2>1. blocks # <<>> => Len(blocks) # 0
    BY DEF Inv, Types, TypeOK
  <2> QED
    BY <1>1, <1>2, <2>1 DEF Inv, Ready, Counted, Named
<1>7. Ready'
  BY <1>1, <1>2, <1>6 DEF Inv, Ready
<1> QED
  BY <1>1, <1>2, <1>3, <1>4, <1>5, <1>7, SameFile DEF Inv, Types

LEMMA CopyBlockInv ==
    ASSUME Inv, CopyBlock
    PROVE  Inv'
<1> DEFINE n == Len(out) + 1
           b == IF n <= Len(blocks) THEN blocks[n] ELSE traceblock
<1> USE DEF kernelVars, cmdVars, history
<1>1. /\ UNCHANGED <<kernelVars, flags, did_wrap_around, blocks, current,
                     cmdVars, todo, start, stop, livedump, wrapped, blockcount,
                     file, history>>
      /\ n <= blockcount /\ traceblock' = b /\ out' = Append(out, b) /\ kutrace_tracing' = FALSE
  BY DEF CopyBlock
<1>2. At = "Blocks" /\ At' = At
  <2>1. "Blocks" \in Names /\ Doing("Blocks")
    BY DEF Names, CopyBlock
  <2> QED
    BY <1>1, <2>1, AtDoing DEF At
<1>3. /\ TypeOK /\ blocks \in Seq(Block) /\ out \in Seq(Block) /\ traceblock \in Block
      /\ Len(blocks) \in Nat /\ Len(out) \in Nat /\ blockcount \in Nat
  BY DEF Inv, Types, TypeOK
<1>4. b \in Block
  <2>1. n <= Len(blocks) => n \in 1 .. Len(blocks)
    BY <1>3
  <2> QED
    BY <1>3, <2>1
<1>5. ASSUME NEW T, AllIn(blocks, T), AllIn(<<traceblock>>, T)
      PROVE  \A j \in 1 .. Len(b.entries) : b.entries[j].at \in T
  <2>1. CASE n <= Len(blocks)
    <3>1. n \in 1 .. Len(blocks) /\ b = blocks[n]
      BY <1>3, <2>1
    <3> QED
      BY <1>5, <3>1 DEF AllIn
  <2>2. CASE ~(n <= Len(blocks))
    <3>1. b = traceblock /\ 1 \in 1 .. Len(<<traceblock>>) /\ <<traceblock>>[1] = traceblock
      BY <2>2
    <3> QED
      BY <1>5, <3>1 DEF AllIn
  <2> QED
    BY <2>1, <2>2
<1>6. /\ out' \in Seq(Block) /\ Len(out') = n /\ out'[n] = b
      /\ \A i \in 1 .. Len(out) : out'[i] = out[i]
  BY <1>1, <1>3, <1>4
<1>7. n \in Nat /\ n >= 1 /\ (n <= Len(blocks) => b = blocks[n])
  BY <1>3
<1>8. \A i \in 1 .. n : i = n \/ i \in 1 .. Len(out)
  BY <1>3
<1>9. n = 1 => out = <<>>
  BY <1>3
<1>10. n # 1 => out # <<>> /\ 1 \in 1 .. Len(out)
  BY <1>3
<1>11. out' # <<>>
  BY <1>6, <1>7
<1> HIDE DEF n, b
<1>12. ASSUME NEW T, AllIn(blocks, T), AllIn(out, T), AllIn(<<traceblock>>, T)
       PROVE  AllIn(out', T) /\ AllIn(<<traceblock'>>, T)
  <2>1. \A j \in 1 .. Len(b.entries) : b.entries[j].at \in T
    BY <1>5, <1>12
  <2>2. AllIn(out', T)
    BY <1>6, <1>8, <1>12, <2>1 DEF AllIn
  <2>3. Len(<<traceblock'>>) = 1 /\ \A i \in 1 .. 1 : <<traceblock'>>[i] = b
    BY <1>1
  <2> QED
    BY <2>1, <2>2, <2>3 DEF AllIn
<1>13. TypeOK'
  <2>1. kutrace_tracing' \in BOOLEAN
    BY <1>1, Zenon
  <2>2. traceblock' \in Block /\ out' \in Seq(Block)
    BY <1>1, <1>4, <1>6
  <2> QED
    BY <1>1, <2>1, <2>2 DEF Inv, Types, TypeOK
<1>14. Past'
  BY <1>1, <1>12 DEF Inv, Past
<1>15. ASSUME kept PROVE KeptTrue'
  <2>1. Times' = Times
    BY <1>1 DEF Times
  <2> QED
    BY <1>1, <1>12, <1>15, <2>1 DEF Inv, KeptTrue, Empty
<1>16. OffTrue' /\ KeptTrue'
  BY <1>1, <1>15 DEF Inv, OffTrue, KeptTrue
<1>17. Counted /\ Copied /\ (livedump => stop # 0)
  BY <1>2 DEF Inv, Ready
<1>18. Copied'
  <2>1. ASSUME off, NEW i \in 1 .. Len(out') PROVE i <= Len(blocks) /\ out'[i] = blocks[i]
    <3>1. n <= Len(blocks)
      BY <1>1, <1>17, <2>1 DEF Counted
    <3> QED
      BY <1>6, <1>7, <1>8, <1>17, <2>1, <3>1 DEF Copied
  <2>2. ASSUME Named(blocks) PROVE Named(out')
    <3>1. CASE n = 1
      <4>1. 1 <= Len(blocks)
        BY <1>3, <2>2 DEF Named
      <4> QED
        BY <1>6, <1>7, <1>11, <2>2, <3>1, <4>1 DEF Named
    <3>2. CASE n # 1
      BY <1>6, <1>10, <1>11, <1>17, <2>2, <3>2 DEF Named, Copied
    <3> QED
      BY <3>1, <3>2
  <2> QED
    BY <1>1, <2>1, <2>2 DEF Copied
<1>19. Ready'
  BY <1>1, <1>2, <1>17, <1>18 DEF Ready, Counted
<1> QED
  BY <1>1, <1>13, <1>14, <1>16, <1>19, SameFile DEF Inv, Types

LEMMA LastBlockInv ==
    ASSUME Inv, LastBlock
    PROVE  Inv'
<1> USE DEF kernelVars, modVars, cmdVars, dumpVars, history
<1>1. /\ UNCHANGED <<kernelVars, modVars, cmdVars, start, stop, dumpVars, file, history>>
      /\ Done /\ Len(out) >= blockcount
  BY DEF LastBlock
<1>2. /\ At = "Blocks" /\ todo' \in Seq(Operation) /\ Shaped(todo') /\ At' = "Close"
  <2>1. "Blocks" \in Names /\ Doing("Blocks")
    BY DEF Names, LastBlock
  <2> QED
    BY <1>1, <2>1, DoneStep DEF Pairs
<1>3. TypeOK' /\ Past' /\ OffTrue'
  BY <1>1 DEF Inv, Types, TypeOK, Past, OffTrue
<1>4. KeptTrue'
  BY <1>1 DEF Inv, KeptTrue, Times, Empty
<1>5. Ready'
  BY <1>1, <1>2 DEF Inv, Ready, Counted, Copied
<1> QED
  BY <1>1, <1>2, <1>3, <1>4, <1>5, SameFile DEF Inv, Types

LEMMA CloseInv ==
    ASSUME Inv, Close
    PROVE  Inv'
<1> USE DEF kernelVars, modVars, cmdVars, history
<1>1. /\ UNCHANGED <<kernelVars, modVars, cmdVars, start, stop, livedump,
                     wrapped, blockcount, history>> /\ Done
      /\ out' = <<>> /\ traceblock' = Garbage
      /\ file' = [start |-> start, stop |-> stop, live |-> livedump,
                  kept |-> kept /\ (off \/ livedump),
                  wrap |-> out # <<>> /\ "WRAP" \in out[1].flags /\ wrapped,
                  blocks |-> out]
  BY DEF Close
<1>2. /\ At = "Close" /\ todo' \in Seq(Operation) /\ Shaped(todo') /\ At' \in {"", "RESET"}
  <2>1. "Close" \in Names /\ Doing("Close")
    BY DEF Names, Close
  <2> QED
    BY <1>1, <2>1, DoneStep DEF Pairs
<1>3. /\ file'.start = start /\ file'.stop = stop /\ file'.kept = (kept /\ (off \/ livedump))
      /\ file'.blocks = out
  BY <1>1
<1>4. TypeOK'
  <2>1. Garbage \in Block
    BY DEF Garbage, Block
  <2>2. out' \in Seq(Block) /\ traceblock' \in Block /\ file'.blocks \in Seq(Block)
    BY <1>1, <1>3, <2>1 DEF Inv, Types, TypeOK
  <2> QED
    BY <1>1, <2>2 DEF Inv, Types, TypeOK
<1>5. Past' /\ OffTrue'
  BY <1>1, AllInNone DEF Inv, Past, OffTrue
<1>6. KeptTrue'
  BY <1>1, AllInNone DEF Inv, KeptTrue, Times, Empty
<1>7. Ready'
  BY <1>1, <1>2 DEF Ready
<1>8. TimesBracketedIfKept'
  <2> SUFFICES ASSUME file'.kept, NEW i \in 1 .. Len(out), NEW j \in 1 .. Len(out[i].entries)
               PROVE  /\ 0 < start /\ start <= out[i].entries[j].at
                      /\ out[i].entries[j].at <= stop
    BY <1>3 DEF TimesBracketedIfKept, TimesBracketed, FileEntries, Entries
  <2>1. kept /\ (off \/ livedump)
    BY <1>3
  <2>2. stop # 0
    BY <1>2, <2>1 DEF Inv, OffTrue, Ready
  <2>3. out[i].entries[j].at \in Times
    BY <2>1 DEF Inv, KeptTrue, AllIn
  <2> QED
    BY <2>2, <2>3 DEF Times
<1> QED
  BY <1>1, <1>2, <1>4, <1>5, <1>6, <1>7, <1>8 DEF Inv, Types

LEMMA NextInv == Inv /\ [Next]_vars => Inv'
<1> SUFFICES ASSUME Inv, [Next]_vars PROVE Inv'
  OBVIOUS
<1>1. CASE EventBegin
  BY <1>1, EventBeginInv
<1>2. CASE EventEnd
  BY <1>2, EventEndInv
<1>3. CASE \E c \in menu.commands : ReadLine(c)
  BY <1>3, ReadLineInv
<1>4. CASE Command
  BY <1>4, ExitInv, SwitchInv, SleepInv, SetStartInv, SetStopInv, ClearPairsInv, InsertNamesInv,
     ResetInv, FlushInv, TestInv, OpenInv, GetCountInv, CopyBlockInv, LastBlockInv, CloseInv
  DEF Command
<1>5. CASE Die
  BY <1>5, DieInv
<1>6. CASE UNCHANGED vars
  BY <1>6, StutterInv
<1> QED
  BY <1>1, <1>2, <1>3, <1>4, <1>5, <1>6 DEF Next

-----------------------------------------------------------------------------
(* The theorems                                                            *)

(* The state of a session has the right types, no block is overfull, and   *)
(* the program never goes from an operation to one no function of the      *)
(* library does next.                                                      *)
THEOREM TypeCorrect == Spec => []Types
<1>1. Inv => Types
  BY DEF Inv
<1> QED
  BY <1>1, InitInv, NextInv, PTL DEF Spec

(* The time pairs of a trace file enclose every entry in it, for a trace   *)
(* that was reset with no insert under way and then started, stopped and   *)
(* dumped by one process, whatever commands that process was given before  *)
(* and between, and wherever it and others were killed.                    *)
THEOREM TimesBracketedIfKeptHolds == Spec => []TimesBracketedIfKept
<1>1. Inv => TimesBracketedIfKept
  BY DEF Inv
<1> QED
  BY <1>1, InitInv, NextInv, PTL DEF Spec

(* The steps that write a file and those that change the module's blocks   *)
LEMMA FileStep == [Next]_vars => file' = file \/ Close
  BY DEF Next, Command, EventBegin, EventEnd, ReadLine, Exit, Switch, Sleep, SetStart, SetStop,
         ClearPairs, InsertNames, Reset, Flush, Test, Open, GetCount, CopyBlock, LastBlock, Die, vars

LEMMA BlocksStep ==
    Inv /\ [Next]_vars => \/ blocks' = blocks \/ blocks' = <<>>
                          \/ \E e \in Entry : InsertEntry(e)
<1> SUFFICES ASSUME Inv, Next, blocks' # blocks, blocks' # <<>>
             PROVE  \E e \in Entry : InsertEntry(e)
  BY DEF vars, modVars
<1>1. EventEnd \/ InsertNames
  BY DEF Next, Command, EventBegin, ReadLine, Exit, Switch, Sleep, SetStart, SetStop,
         ClearPairs, Reset, Flush, Test, Open, GetCount, CopyBlock, LastBlock, Close, Die, modVars
<1>2. clock \in Nat /\ pending \in Nat
  BY DEF Inv, Types, TypeOK
<1>3. [kind |-> "event", at |-> pending] \in Entry
  BY <1>2 DEF Entry
<1>4. [kind |-> IF Doing("INSERTN") THEN "name" ELSE "pid", at |-> clock + 1] \in Entry
  BY <1>2 DEF Entry
<1> QED
  BY <1>1, <1>3, <1>4 DEF EventEnd, InsertNames

(* A file closed after DoOff is the trace: no entry is still on its way,   *)
(* and the blocks written are those the module holds, in their order.      *)
THEOREM FileIsTraceHolds == Spec => FileIsTrace
<1>1. Inv /\ [Next]_vars => [file' # file /\ off => pending = 0 /\ file'.blocks = blocks]_vars
  <2> SUFFICES ASSUME Inv, Close, off PROVE pending = 0 /\ file'.blocks = blocks
    BY FileStep
  <2>1. file'.blocks = out
    BY DEF Close
  <2>2. At = "Close"
    <3>1. "Close" \in Names /\ Doing("Close")
      BY DEF Names, Close
    <3> QED
      BY <3>1, AtDoing
  <2>3. /\ pending = 0 /\ blockcount = Len(blocks) /\ Len(out) >= blockcount
        /\ \A i \in 1 .. Len(out) : i <= Len(blocks) /\ out[i] = blocks[i]
    BY <2>2 DEF Inv, OffTrue, Ready, Counted, Copied
  <2>4. out \in Seq(Block) /\ blocks \in Seq(Block) /\ Len(out) \in Nat /\ Len(blocks) \in Nat
    BY DEF Inv, Types, TypeOK
  <2>5. Len(out) = Len(blocks)
    <3>1. Len(out) >= 1 => Len(out) <= Len(blocks)
      BY <2>3, <2>4
    <3> QED
      BY <2>3, <2>4, <3>1
  <2>6. out = blocks
    BY <2>3, <2>4, <2>5
  <2> QED
    BY <2>1, <2>3, <2>6
<1> QED
  BY <1>1, InitInv, NextInv, PTL DEF Spec, FileIsTrace

(* The names inserted at the front of a trace stay at its front until the  *)
(* next RESET, through any wraparound, and every file written of it begins *)
(* with them.                                                              *)
THEOREM NamesStayHolds == Spec => NamesStay
<1>1. Inv /\ [Next]_vars =>
        [Named(blocks) => /\ blocks' # <<>> => Named(blocks')
                          /\ file' # file => Named(file'.blocks)]_vars
  <2> SUFFICES ASSUME Inv, [Next]_vars, Named(blocks)
               PROVE  /\ blocks' # <<>> => Named(blocks')
                      /\ file' # file => Named(file'.blocks)
    OBVIOUS
  <2>1. blocks' # <<>> => Named(blocks')
    <3>1. TypeOK
      BY DEF Inv, Types
    <3>2. blocks' = blocks \/ blocks' = <<>> \/ \E e \in Entry : InsertEntry(e)
      BY BlocksStep
    <3>3. ASSUME NEW e \in Entry, InsertEntry(e) PROVE Named(blocks')
      BY <3>1, <3>3, InsertFacts
    <3> QED
      BY <3>2, <3>3
  <2>2. ASSUME Close PROVE Named(file'.blocks)
    <3>1. file'.blocks = out
      BY <2>2 DEF Close
    <3>2. At = "Close"
      <4>1. "Close" \in Names /\ Doing("Close")
        BY <2>2 DEF Names, Close
      <4> QED
        BY <4>1, AtDoing
    <3>3. /\ blockcount # 0 /\ Len(out) >= blockcount /\ (out # <<>> => Named(out))
      BY <3>2 DEF Inv, Ready, Counted, Copied
    <3>4. out # <<>>
      BY <3>3 DEF Inv, Types, TypeOK
    <3> QED
      BY <3>1, <3>3, <3>4
  <2> QED
    BY <2>1, <2>2, FileStep
<1> QED
  BY <1>1, InitInv, NextInv, PTL DEF Spec, NamesStay
=============================================================================
