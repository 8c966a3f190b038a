------------------------- MODULE TraceBuffer_proofs -------------------------
(***************************************************************************)
(* Proofs about TraceBuffer for any number of CPUs, of contexts and of     *)
(* nested interrupts, and any size of block and buffer.  A trace without   *)
(* wraparound never gives a word to two entries and never loses a stored   *)
(* entry, and keeps its entries inside blocks; a trace with wraparound     *)
(* keeps its first block; and both are read out completely.                *)
(***************************************************************************)
EXTENDS TraceBuffer, TLAPS

(***************************************************************************)
(* The inductive invariant.  Because blocks are handed out downward, a     *)
(* block change moves a CPU below every claim made before it; that alone   *)
(* tells a claim of the old block from one of the new block.               *)
(***************************************************************************)

NoWrapping == \A f \in ResetFlags : "WRAP" \notin f

HasBlock(c) == tb_limit[c] # NULL

(* n1 words at lo1 and n2 words at lo2 do not overlap.                     *)
Apart(lo1, n1, lo2, n2) == lo1 + n1 <= lo2 \/ lo2 + n2 <= lo1

(* n words at lo are outside the free part of the block of CPU c.          *)
Outside(lo, n, c) == HasBlock(c) => lo + n <= tb_next[c] \/ tb_limit[c] <= lo

(* Every CPU's block is handed out, and tb->next is behind its front.      *)
BlocksTaken ==
    \A c \in CPU : HasBlock(c) =>
        /\ traceblock_next <= tb_limit[c] - BLK
        /\ tb_limit[c] - BLK < tb_next[c]

(* No two CPUs have the same block.                                        *)
BlocksApart ==
    \A c, d \in CPU : c # d /\ HasBlock(c) /\ HasBlock(d) =>
        Apart(tb_limit[c], BLK, tb_limit[d], BLK)

(* A claim made on the fast path and not judged yet: it is not below the   *)
(* CPU's block, and if it is inside it then tb->next is behind it.         *)
FreshClaims ==
    \A x \in Ctx :
        /\ pc[x] \in {"add", "recheck"} => HasBlock(cpu[x])
        /\ pc[x] = "recheck" =>
              /\ tb_limit[cpu[x]] - BLK < myclaim[x]
              /\ myclaim[x] < tb_limit[cpu[x]] =>
                    myclaim[x] + claimSize(x) <= tb_next[cpu[x]]

(* ... and which would be kept if the context went on now.                 *)
WouldFit(x) == pc[x] = "recheck" /\
               myclaim[x] + claimSize(x) < tb_limit[cpu[x]]

(* Granted claims are in handed-out memory and outside every free part.    *)
GrantsTaken ==
    \A x \in Ctx : pc[x] = "store" =>
        /\ traceblock_next <= myclaim[x]
        /\ TRACEBASE <= myclaim[x] /\ myclaim[x] + claimSize(x) <= HIGH
        /\ \A c \in CPU : Outside(myclaim[x], claimSize(x), c)

Owns(x) == pc[x] = "store" \/ WouldFit(x)

(* Granted claims, and claims that would be kept, do not overlap.          *)
OwnersApart ==
    \A x, y \in Ctx : x # y /\ Owns(x) /\ Owns(y) =>
        Apart(myclaim[x], claimSize(x), myclaim[y], claimSize(y))

Written(a) == mem[a] \in {"head", "entry"}

(* Stored entries and the fronts of blocks are as safe as granted claims.  *)
EntriesSafe ==
    \A a \in Addr : Written(a) =>
        /\ traceblock_next <= a
        /\ \A c \in CPU : Outside(a, 1, c)
        /\ \A x \in Ctx : Owns(x) => Apart(a, 1, myclaim[x], claimSize(x))

Safe == BlocksTaken /\ BlocksApart /\ FreshClaims /\ GrantsTaken
        /\ OwnersApart /\ EntriesSafe

IInv == TypeOK /\ "WRAP" \notin flags /\ Safe

(***************************************************************************)
(* Type correctness                                                        *)
(***************************************************************************)

(* The buffer has room for the IPC words and two blocks, and a block for   *)
(* its front and the longest entry.                                        *)
LEMMA SizeFacts ==
    /\ BLK \in Nat /\ HEAD \in Nat /\ HEADFIRST \in Nat /\ MAXLEN \in Nat
    /\ IPCWORDS \in Nat /\ HIGH \in Nat /\ TRACEBASE \in Nat /\ TRACEBASE = BLK
    /\ 1 <= HEAD /\ HEAD <= HEADFIRST /\ 1 <= MAXLEN
    /\ HEADFIRST + MAXLEN < BLK
    /\ TRACEBASE + IPCWORDS + 2 * BLK <= HIGH
<1>1. NBLOCKS * BLK \in Nat
  BY SizesAssumption
<1> DEFINE B == NBLOCKS * BLK
<1>2. B \in Nat /\ IPCWORDS + 2 * BLK <= B /\ HIGH = TRACEBASE + B
  BY <1>1, SizesAssumption DEF HIGH
<1> HIDE DEF B
<1> QED
  BY <1>2, SizesAssumption DEF TRACEBASE

(* do_reset leaves room for two blocks above traceblock_limit.             *)
LEMMA LimitForType == \A f : LimitFor(f) \in TRACEBASE .. (HIGH - 2 * BLK)
  BY SizeFacts DEF LimitFor

(* Leaving a CPU keeps a stack of contexts.                                *)
LEMMA PopType ==
    ASSUME stack \in [CPU -> Seq(Ctx)], NEW c
    PROVE  Pop(c) \in [CPU -> Seq(Ctx)]
<1>1. \A s \in Seq(Ctx) : SubSeq(s, 1, Len(s) - 1) \in Seq(Ctx)
  OBVIOUS
<1> QED
  BY <1>1 DEF Pop

(* Returning from an insert keeps the types of a context's locals.         *)
LEMMA ReturnType ==
    ASSUME TypeOK, NEW x \in Ctx, Return(x)
    PROVE  /\ pc' \in [Ctx -> {"idle", "limit", "add", "recheck", "slow", "store"}]
           /\ cpu' \in [Ctx -> CPU \cup {NoCPU}]
           /\ \A y \in Ctx : pc'[y] # "idle" => cpu'[y] \in CPU
           /\ len' \in [Ctx -> 1..MAXLEN] /\ tsd' \in [Ctx -> {0, 1}]
           /\ limit_item' \in [Ctx -> Nat] /\ myclaim' \in [Ctx -> Nat]
<1>1. 1 \in 1..MAXLEN /\ NULL \in Nat
  BY SizeFacts DEF NULL
<1> QED
  BY <1>1 DEF Return, Goto, TypeOK

(* So does being granted a claim.                                          *)
LEMMA GrantedType ==
    ASSUME TypeOK, NEW x \in Ctx, NEW a \in Nat, pc[x] # "idle", Granted(x, a)
    PROVE  /\ pc' \in [Ctx -> {"idle", "limit", "add", "recheck", "slow", "store"}]
           /\ cpu' \in [Ctx -> CPU \cup {NoCPU}]
           /\ \A y \in Ctx : pc'[y] # "idle" => cpu'[y] \in CPU
           /\ len' \in [Ctx -> 1..MAXLEN] /\ tsd' \in [Ctx -> {0, 1}]
           /\ limit_item' \in [Ctx -> Nat] /\ myclaim' \in [Ctx -> Nat]
           /\ stack' \in [CPU -> Seq(Ctx)]
           /\ prior' \in [CPU -> BOOLEAN]
<1>1. stack' \in [CPU -> Seq(Ctx)]
  BY PopType DEF Granted, TypeOK
<1>2. prior' \in [CPU -> BOOLEAN]
  BY DEF Granted, TypeOK
<1> QED
  BY <1>1, <1>2 DEF Granted, Goto, TypeOK, NULL

(* The next block is inside the buffer, whether the trace wraps or not.    *)
LEMMA NextBlockType ==
    ASSUME TypeOK
    PROVE  /\ NextBlock \in TRACEBASE .. (HIGH - BLK)
           /\ HeadSize \in Nat /\ 1 <= HeadSize /\ HeadSize + MAXLEN < BLK
  BY SizeFacts DEF TypeOK, NextBlock, NoBlockLeft, HeadSize

(* A claim is one to MAXLEN + 1 words.                                     *)
LEMMA ClaimSizeType ==
    ASSUME TypeOK, NEW x \in Ctx
    PROVE  claimSize(x) \in Nat /\ 1 <= claimSize(x) /\ claimSize(x) <= MAXLEN + 1
<1>1. len[x] \in 1..MAXLEN /\ tsd[x] \in {0, 1}
  BY DEF TypeOK
<1> QED
  BY <1>1, SizeFacts DEF claimSize

(* The types hold at first and are kept by every step.                     *)
LEMMA InitType == Init => TypeOK
<1> SUFFICES ASSUME Init PROVE TypeOK
  OBVIOUS
<1>1. traceblock_limit \in TRACEBASE .. (HIGH - 2 * BLK)
  BY LimitForType DEF Init
<1>2. stack \in [CPU -> Seq(Ctx)]
  BY DEF Init
<1>3. /\ tb_next \in [CPU -> Nat]
      /\ tb_limit \in [CPU -> {NULL} \cup ((TRACEBASE + BLK) .. HIGH)]
      /\ limit_item \in [Ctx -> Nat] /\ myclaim \in [Ctx -> Nat]
  BY DEF Init, NULL
<1>4. len \in [Ctx -> 1..MAXLEN] /\ tsd \in [Ctx -> {0, 1}]
  BY SizeFacts DEF Init
<1>5. /\ mem \in [Addr -> {"stale", "head", "nop", "entry"}]
      /\ prior \in [CPU -> BOOLEAN]
      /\ pc \in [Ctx -> {"idle", "limit", "add", "recheck", "slow", "store"}]
      /\ cpu \in [Ctx -> CPU \cup {NoCPU}]
      /\ \A x \in Ctx : pc[x] # "idle" => cpu[x] \in CPU
  BY DEF Init
<1>6. traceblock_next \in Int /\ traceblock_next <= HIGH
  BY SizeFacts DEF Init
<1> QED
  BY <1>1, <1>2, <1>3, <1>4, <1>5, <1>6 DEF Init, TypeOK

LEMMA NextType == TypeOK /\ [Next]_vars => TypeOK'
<1> SUFFICES ASSUME TypeOK, [Next]_vars PROVE TypeOK'
  OBVIOUS
<1> USE SizeFacts
<1>1. ASSUME NEW x \in Ctx, NEW c \in CPU, Insert(x, c) PROVE TypeOK'
  <2>1. stack' \in [CPU -> Seq(Ctx)]
    BY <1>1 DEF Insert, TypeOK
  <2>2. len' \in [Ctx -> 1..MAXLEN] /\ tsd' \in [Ctx -> {0, 1}]
    BY <1>1, InputsAssumption DEF Insert, TypeOK
  <2> QED
    BY <1>1, <2>1, <2>2 DEF Insert, Goto, TypeOK
<1>2. ASSUME NEW x \in Ctx, ReadLimit(x) PROVE TypeOK'
  <2>1. cpu[x] \in CPU /\ tb_limit[cpu[x]] \in Nat
    BY <1>2 DEF ReadLimit, TypeOK, NULL
  <2> QED
    BY <1>2, <2>1 DEF ReadLimit, Goto, TypeOK
<1>3. ASSUME NEW x \in Ctx, AddNext(x) PROVE TypeOK'
  <2>1. cpu[x] \in CPU /\ tb_next[cpu[x]] \in Nat
    BY <1>3 DEF AddNext, TypeOK
  <2>2. claimSize(x) \in Nat
    BY ClaimSizeType
  <2>3. tb_next' \in [CPU -> Nat]
    BY <1>3, <2>1, <2>2 DEF AddNext, TypeOK
  <2>4. myclaim' \in [Ctx -> Nat]
    BY <1>3, <2>1 DEF AddNext, TypeOK
  <2>5. pc' \in [Ctx -> {"idle", "limit", "add", "recheck", "slow", "store"}] /\ pc[x] = "add"
    BY <1>3 DEF AddNext, Goto, TypeOK
  <2>6. \A y \in Ctx : pc'[y] # "idle" => pc[y] # "idle"
    BY <1>3, <2>5 DEF AddNext, Goto, TypeOK
  <2> QED
    BY <1>3, <2>3, <2>4, <2>5, <2>6 DEF AddNext, TypeOK
<1>4. ASSUME NEW x \in Ctx, RecheckKeep(x) PROVE TypeOK'
  BY <1>4, GrantedType DEF RecheckKeep, TypeOK
<1>5. ASSUME NEW x \in Ctx, RecheckSlow(x) PROVE TypeOK'
  BY <1>5 DEF RecheckSlow, Goto, TypeOK
<1>6. ASSUME NEW x \in Ctx, RecheckRetry(x) PROVE TypeOK'
  BY <1>6 DEF RecheckRetry, Goto, TypeOK
<1>7. ASSUME NEW x \in Ctx, SlowBadLen(x) PROVE TypeOK'
  <2>1. Return(x) /\ stack' = Pop(cpu[x])
    BY <1>7 DEF SlowBadLen, Refused
  <2>2. stack' \in [CPU -> Seq(Ctx)]
    BY <2>1, PopType DEF TypeOK
  <2>3. prior' \in [CPU -> BOOLEAN]
    BY <1>7 DEF SlowBadLen, Refused, TypeOK
  <2> QED
    BY <1>7, <2>1, <2>2, <2>3, ReturnType DEF SlowBadLen, TypeOK
<1>8. ASSUME NEW x \in Ctx, SlowFits(x) PROVE TypeOK'
  <2>1. cpu[x] \in CPU /\ tb_next[cpu[x]] \in Nat /\ pc[x] # "idle"
    BY <1>8 DEF SlowFits, TypeOK
  <2>2. Granted(x, tb_next[cpu[x]])
    BY <1>8 DEF SlowFits
  <2>3. tb_next' \in [CPU -> Nat]
    BY <1>8, <2>1, ClaimSizeType DEF SlowFits, TypeOK
  <2> QED
    BY <1>8, <2>1, <2>2, <2>3, GrantedType DEF SlowFits, TypeOK
<1>9. ASSUME NEW x \in Ctx, SlowNewBlock(x) PROVE TypeOK'
  <2> DEFINE b == NextBlock
  <2>1. /\ b \in TRACEBASE .. (HIGH - BLK) /\ HeadSize \in Nat
        /\ claimSize(x) \in Nat
    BY NextBlockType, ClaimSizeType
  <2>2. cpu[x] \in CPU /\ pc[x] # "idle"
    BY <1>9 DEF SlowNewBlock, TypeOK
  <2>3. Granted(x, b + HeadSize)
    BY <1>9 DEF SlowNewBlock
  <2>4. mem' \in [Addr -> {"stale", "head", "nop", "entry"}]
    BY <1>9 DEF SlowNewBlock, InitBlock, TypeOK
  <2>5. /\ tb_next' = [tb_next EXCEPT ![cpu[x]] = b + HeadSize + claimSize(x)]
        /\ tb_limit' = [tb_limit EXCEPT ![cpu[x]] = b + BLK]
        /\ traceblock_next' = b
        /\ did_wrap_around' \in BOOLEAN
        /\ UNCHANGED <<kutrace_tracing, flags, traceblock_limit>>
    BY <1>9 DEF SlowNewBlock
  <2> HIDE DEF b
  <2>6. /\ tb_next' \in [CPU -> Nat]
        /\ tb_limit' \in [CPU -> {NULL} \cup ((TRACEBASE + BLK) .. HIGH)]
        /\ traceblock_next' \in Int /\ traceblock_next' <= HIGH
    BY <2>1, <2>2, <2>5 DEF TypeOK
  <2>7. b + HeadSize \in Nat
    BY <2>1
  <2> QED
    BY <2>2, <2>3, <2>4, <2>5, <2>6, <2>7, GrantedType DEF TypeOK
<1>10. ASSUME NEW x \in Ctx, SlowFull(x) PROVE TypeOK'
  <2>1. Return(x) /\ stack' = Pop(cpu[x])
    BY <1>10 DEF SlowFull, Refused
  <2>2. stack' \in [CPU -> Seq(Ctx)]
    BY <2>1, PopType DEF TypeOK
  <2>3. prior' \in [CPU -> BOOLEAN]
    BY <1>10 DEF SlowFull, Refused, TypeOK
  <2>4. tb_next' \in [CPU -> Nat]
    <3>1. cpu[x] \in CPU /\ claimSize(x) \in Nat
      BY <1>10, ClaimSizeType DEF SlowFull, TypeOK
    <3> QED
      BY <1>10, <3>1 DEF SlowFull, TypeOK
  <2>5. /\ kutrace_tracing' = FALSE
        /\ UNCHANGED <<flags, did_wrap_around, traceblock_limit, tb_limit, mem>>
    BY <1>10 DEF SlowFull
  <2>6. traceblock_next' \in Int /\ traceblock_next' <= HIGH
    BY <1>10 DEF SlowFull, TypeOK
  <2> QED
    BY <2>1, <2>2, <2>3, <2>4, <2>5, <2>6, ReturnType DEF TypeOK
<1>11. ASSUME NEW x \in Ctx, Store(x) PROVE TypeOK'
  <2>1. stack' \in [CPU -> Seq(Ctx)]
    BY <1>11, PopType DEF Store, TypeOK
  <2>2. mem' \in [Addr -> {"stale", "head", "nop", "entry"}]
    BY <1>11 DEF Store, TypeOK
  <2> QED
    BY <1>11, <2>1, <2>2, ReturnType DEF Store, TypeOK
<1>12. ASSUME do_trace_on \/ do_trace_off PROVE TypeOK'
  BY <1>12 DEF do_trace_on, do_trace_off, TypeOK, ctxVars
<1>13. ASSUME Quiet, do_flush PROVE TypeOK'
  <2>1. mem' \in [Addr -> {"stale", "head", "nop", "entry"}]
    BY <1>13 DEF do_flush, TypeOK
  <2>2. tb_next' \in [CPU -> Nat]
    BY <1>13 DEF do_flush, TypeOK, NULL
  <2> QED
    BY <1>13, <2>1, <2>2 DEF do_flush, TypeOK, ctxVars
<1>14. ASSUME NEW f \in ResetFlags, Quiet, do_reset(f) PROVE TypeOK'
  <2>1. f \in SUBSET {"IPC", "LLC", "WRAP"}
    BY InputsAssumption
  <2>2. traceblock_limit' \in TRACEBASE .. (HIGH - 2 * BLK)
    BY <1>14, LimitForType DEF do_reset
  <2>3. /\ tb_next' \in [CPU -> Nat]
        /\ tb_limit' \in [CPU -> {NULL} \cup ((TRACEBASE + BLK) .. HIGH)]
        /\ prior' \in [CPU -> BOOLEAN]
    BY <1>14 DEF do_reset, NULL
  <2>4. mem' \in [Addr -> {"stale", "head", "nop", "entry"}]
    BY <1>14 DEF do_reset
  <2>5. /\ kutrace_tracing' = FALSE /\ did_wrap_around' = FALSE /\ flags' = f
        /\ UNCHANGED <<stack, pc, cpu, len, tsd, limit_item, myclaim>>
    BY <1>14 DEF do_reset, ctxVars
  <2>6. traceblock_next' \in Int /\ traceblock_next' <= HIGH
    BY <1>14 DEF do_reset
  <2> QED
    BY <2>1, <2>2, <2>3, <2>4, <2>5, <2>6 DEF TypeOK
<1>15. CASE UNCHANGED vars
  BY <1>15 DEF vars, ctxVars, TypeOK
<1> QED
  BY <1>1, <1>2, <1>3, <1>4, <1>5, <1>6, <1>7, <1>8, <1>9, <1>10, <1>11,
     <1>12, <1>13, <1>14, <1>15 DEF Next, Step, Control

(* The state of the trace buffer is always of its type; in particular a    *)
(* CPU's block is always inside the buffer, with and without wraparound.   *)
THEOREM TypeCorrect == Spec => []TypeOK
  BY InitType, NextType, PTL DEF Spec

(***************************************************************************)
(* Exclusive claims                                                        *)
(***************************************************************************)

(* The numbers the invariant compares.                                     *)
Numbers ==
    /\ traceblock_next \in Int
    /\ \A c \in CPU : tb_next[c] \in Nat /\ tb_limit[c] \in Nat
    /\ \A x \in Ctx : myclaim[x] \in Nat /\ claimSize(x) \in Nat /\ 1 <= claimSize(x)

LEMMA NumbersType == TypeOK => Numbers
<1> SUFFICES ASSUME TypeOK PROVE Numbers
  OBVIOUS
<1>1. \A c \in CPU : tb_next[c] \in Nat /\ tb_limit[c] \in Nat
  BY SizeFacts DEF TypeOK, NULL
<1>2. \A x \in Ctx : claimSize(x) \in Nat /\ 1 <= claimSize(x)
  BY ClaimSizeType
<1> QED
  BY <1>1, <1>2 DEF TypeOK, Numbers

(* Nothing about context y changes that the invariant speaks of.           *)
Same(y) == /\ pc'[y] = pc[y] /\ cpu'[y] = cpu[y] /\ myclaim'[y] = myclaim[y]
           /\ len'[y] = len[y] /\ tsd'[y] = tsd[y]

(* A step that leaves the blocks and the stored entries alone, and after   *)
(* which x has no claim, keeps the invariant.                              *)
LEMMA NoClaimStep ==
    ASSUME Safe, NEW x \in Ctx,
           UNCHANGED <<traceblock_next, tb_next, tb_limit, mem>>,
           \A y \in Ctx \ {x} : Same(y),
           pc'[x] \notin {"recheck", "store"},
           pc'[x] = "add" => tb_limit[cpu'[x]] # NULL
    PROVE  Safe'
<1>1. \A y \in Ctx : pc'[y] \in {"recheck", "store"} =>
         y # x /\ Same(y) /\ claimSize(y)' = claimSize(y)
  BY DEF Same, claimSize
<1>2. \A y \in Ctx : Owns(y)' => Owns(y)
  BY <1>1 DEF Owns, WouldFit, Same
<1>3. BlocksTaken' /\ BlocksApart'
  BY DEF Safe, BlocksTaken, BlocksApart, HasBlock, Apart
<1>4. FreshClaims'
  BY <1>1 DEF Safe, FreshClaims, HasBlock, Same
<1>5. GrantsTaken'
  BY <1>1 DEF Safe, GrantsTaken, Outside, HasBlock, Same
<1>6. OwnersApart'
  BY <1>1, <1>2 DEF Safe, OwnersApart, Same, Owns, WouldFit
<1>7. EntriesSafe'
  BY <1>1, <1>2 DEF Safe, EntriesSafe, Written, Outside, HasBlock, Same, Owns, WouldFit
<1> QED
  BY <1>3, <1>4, <1>5, <1>6, <1>7 DEF Safe

(* Claiming words on the fast path: the claim starts where tb->next was.   *)
LEMMA AddNextSafe ==
    ASSUME Safe, Numbers, TypeOK, NEW x \in Ctx, AddNext(x)
    PROVE  Safe'
<1> DEFINE c == cpu[x]
           n == claimSize(x)
<1>1. c \in CPU /\ HasBlock(c)
  BY DEF AddNext, TypeOK, Safe, FreshClaims
<1>2. /\ UNCHANGED <<traceblock_next, tb_limit, mem, cpu, len, tsd>>
      /\ \A y \in Ctx \ {x} : Same(y)
      /\ pc'[x] = "recheck" /\ myclaim'[x] = tb_next[c]
      /\ tb_next'[c] = tb_next[c] + n
      /\ \A d \in CPU \ {c} : tb_next'[d] = tb_next[d]
  BY <1>1 DEF AddNext, Goto, Same, TypeOK
<1>3. \A y \in Ctx : claimSize(y)' = claimSize(y)
  BY <1>2 DEF claimSize
<1>4. \A d \in CPU : tb_next'[d] \in Nat /\ tb_next[d] <= tb_next'[d]
  BY <1>1, <1>2 DEF Numbers
<1> HIDE DEF n
<1>n. n = claimSize(x) /\ n \in Nat /\ 1 <= n
  BY DEF n, Numbers
<1>5. BlocksTaken'
  BY <1>2, <1>4, SizeFacts DEF Safe, BlocksTaken, HasBlock, Numbers
<1>6. BlocksApart'
  BY <1>2 DEF Safe, BlocksApart, HasBlock, Apart
<1>7. FreshClaims'
  <2> SUFFICES ASSUME NEW y \in Ctx
               PROVE  /\ pc'[y] \in {"add", "recheck"} => tb_limit[cpu[y]] # NULL
                      /\ pc'[y] = "recheck" =>
                           /\ tb_limit[cpu[y]] - BLK < myclaim'[y]
                           /\ myclaim'[y] < tb_limit[cpu[y]] =>
                                myclaim'[y] + claimSize(y) <= tb_next'[cpu[y]]
    BY <1>2, <1>3 DEF FreshClaims, HasBlock
  <2>1. CASE y = x
    BY <2>1, <1>1, <1>2, <1>n DEF HasBlock, Safe, BlocksTaken, Numbers
  <2>2. CASE y # x
    <3>1. pc'[y] \in {"add", "recheck"} => cpu[y] \in CPU
      BY <2>2, <1>2 DEF Same, TypeOK
    <3> QED
      BY <2>2, <3>1, <1>2, <1>4 DEF HasBlock, Safe, FreshClaims, Same, Numbers
  <2> QED
    BY <2>1, <2>2
<1>8. GrantsTaken'
  <2> SUFFICES ASSUME NEW y \in Ctx, pc'[y] = "store"
               PROVE  /\ traceblock_next <= myclaim[y] /\ TRACEBASE <= myclaim[y]
                      /\ myclaim[y] + claimSize(y) <= HIGH
                      /\ \A d \in CPU : Outside(myclaim[y], claimSize(y), d)'
                      /\ myclaim'[y] = myclaim[y]
    BY <1>2, <1>3 DEF GrantsTaken, Outside, HasBlock
  <2>1. y # x /\ Same(y) /\ pc[y] = "store"
    BY <1>2 DEF Same
  <2>2. \A d \in CPU : Outside(myclaim[y], claimSize(y), d)
    BY <2>1 DEF Safe, GrantsTaken
  <2>3. \A d \in CPU : Outside(myclaim[y], claimSize(y), d)'
    BY <2>1, <2>2, <1>2, <1>3, <1>4 DEF Outside, HasBlock, Numbers, Same
  <2> QED
    BY <2>1, <2>3 DEF Safe, GrantsTaken, Same
<1>9. ASSUME NEW y \in Ctx \ {x}, Owns(y)', Owns(x)'
      PROVE  Apart(tb_next[c], n, myclaim[y], claimSize(y))
  <2>1. tb_next[c] + n < tb_limit[c]
    BY <1>9, <1>2, <1>3, <1>n DEF Owns, WouldFit
  <2>2. CASE pc[y] = "store"
    <3>1. Outside(myclaim[y], claimSize(y), c)
      BY <2>2, <1>1 DEF Safe, GrantsTaken
    <3> QED
      BY <2>1, <3>1, <1>1, <1>n DEF Outside, Apart, Numbers
  <2>3. CASE WouldFit(y) /\ cpu[y] = c
    BY <2>3, <1>1, <1>n DEF WouldFit, Safe, FreshClaims, Apart, Numbers
  <2>4. CASE WouldFit(y) /\ cpu[y] # c
    <3>1. cpu[y] \in CPU /\ HasBlock(cpu[y])
      BY <2>4 DEF WouldFit, TypeOK, Safe, FreshClaims
    <3>2. Apart(tb_limit[c], BLK, tb_limit[cpu[y]], BLK)
      BY <3>1, <2>4, <1>1 DEF Safe, BlocksApart
    <3>3. /\ tb_limit[c] - BLK < tb_next[c]
          /\ tb_limit[cpu[y]] - BLK < myclaim[y]
          /\ myclaim[y] + claimSize(y) < tb_limit[cpu[y]]
      BY <2>4, <1>1 DEF WouldFit, Safe, FreshClaims, BlocksTaken
    <3> QED
      BY <3>1, <3>2, <3>3, <2>1, <1>1, <1>n, SizeFacts DEF Apart, Numbers
  <2>5. pc[y] = "store" \/ WouldFit(y)
    BY <1>9, <1>2, <1>3 DEF Owns, WouldFit, Same
  <2> QED
    BY <2>2, <2>3, <2>4, <2>5
<1>10. \A y \in Ctx \ {x} : Owns(y)' => Owns(y) /\ myclaim'[y] = myclaim[y]
  BY <1>2, <1>3 DEF Owns, WouldFit, Same
<1>11. OwnersApart'
  <2> SUFFICES ASSUME NEW y \in Ctx, NEW z \in Ctx, y # z, Owns(y)', Owns(z)'
               PROVE  Apart(myclaim'[y], claimSize(y), myclaim'[z], claimSize(z))
    BY <1>3 DEF OwnersApart, Apart
  <2>1. CASE y = x
    BY <2>1, <1>9, <1>10, <1>2, <1>n
  <2>2. CASE z = x
    BY <2>2, <1>9, <1>10, <1>2, <1>n DEF Apart
  <2>3. CASE y # x /\ z # x
    BY <2>3, <1>10 DEF Safe, OwnersApart
  <2> QED
    BY <2>1, <2>2, <2>3
<1>12. EntriesSafe'
  <2> SUFFICES ASSUME NEW a \in Addr, Written(a)
               PROVE  /\ traceblock_next <= a
                      /\ \A d \in CPU : Outside(a, 1, d)'
                      /\ \A y \in Ctx : Owns(y)' =>
                            Apart(a, 1, myclaim'[y], claimSize(y))
    BY <1>2, <1>3 DEF EntriesSafe, Written, Outside, HasBlock, Apart
  <2>1. /\ traceblock_next <= a
        /\ \A d \in CPU : Outside(a, 1, d)
        /\ \A y \in Ctx : Owns(y) => Apart(a, 1, myclaim[y], claimSize(y))
    BY DEF Safe, EntriesSafe, Written
  <2>2. a \in Nat
    BY SizeFacts DEF Addr
  <2>3. \A d \in CPU : Outside(a, 1, d)'
    BY <2>1, <2>2, <1>2, <1>4 DEF Outside, HasBlock, Numbers
  <2>4. Owns(x)' => Apart(a, 1, tb_next[c], n)
    <3> SUFFICES ASSUME Owns(x)' PROVE Apart(a, 1, tb_next[c], n)
      OBVIOUS
    <3>1. tb_next[c] + n < tb_limit[c]
      BY <1>2, <1>3, <1>n DEF Owns, WouldFit
    <3> QED
      BY <2>1, <2>2, <3>1, <1>1, <1>n DEF Outside, Apart, Numbers
  <2> QED
    BY <2>1, <2>3, <2>4, <1>2, <1>10, <1>n
<1> QED
  BY <1>5, <1>6, <1>7, <1>8, <1>11, <1>12 DEF Safe

(* A run of words inside the used part of CPU c's block is outside every   *)
(* other CPU's block as well.                                              *)
LEMMA InsideOwnBlock ==
    ASSUME Safe, Numbers, NEW c \in CPU, HasBlock(c), NEW lo \in Nat, NEW n \in Nat,
           tb_limit[c] - BLK < lo, lo + n < tb_limit[c],
           NEW d \in CPU \ {c}
    PROVE  Outside(lo, n, d)
<1> SUFFICES ASSUME HasBlock(d)
             PROVE  lo + n <= tb_next[d] \/ tb_limit[d] <= lo
  BY DEF Outside
<1>1. Apart(tb_limit[c], BLK, tb_limit[d], BLK) /\ tb_limit[d] - BLK < tb_next[d]
  BY DEF Safe, BlocksApart, BlocksTaken
<1> QED
  BY <1>1, SizeFacts DEF Apart, Numbers

(* Keeping a claim made on the fast path.                                  *)
LEMMA RecheckKeepSafe ==
    ASSUME Safe, Numbers, TypeOK, NEW x \in Ctx, RecheckKeep(x)
    PROVE  Safe'
<1> DEFINE c == cpu[x]
           n == claimSize(x)
<1>1. c \in CPU /\ HasBlock(c) /\ pc[x] = "recheck"
  BY DEF RecheckKeep, TypeOK, Safe, FreshClaims
<1>2. /\ UNCHANGED <<traceblock_next, tb_next, tb_limit, mem, cpu, len, tsd>>
      /\ \A y \in Ctx \ {x} : Same(y)
      /\ pc'[x] = "store" /\ myclaim'[x] = myclaim[x]
      /\ myclaim[x] + n < tb_limit[c]
  BY <1>1 DEF RecheckKeep, Granted, Goto, Same, TypeOK, ClaimFits
<1>3. \A y \in Ctx : claimSize(y)' = claimSize(y) /\ myclaim'[y] = myclaim[y]
  BY <1>2 DEF claimSize, Same
<1>n. n = claimSize(x) /\ n \in Nat /\ 1 <= n /\ myclaim[x] \in Nat
  BY DEF Numbers
<1>4. \A y \in Ctx : Owns(y)' => Owns(y)
  BY <1>1, <1>2, <1>3 DEF Owns, WouldFit, Same
<1> HIDE DEF c, n
<1>c. c = cpu[x]
  BY DEF c
<1>5. BlocksTaken' /\ BlocksApart'
  BY <1>2 DEF Safe, BlocksTaken, BlocksApart, HasBlock, Apart
<1>6. FreshClaims'
  BY <1>2, <1>3 DEF Safe, FreshClaims, HasBlock, Same
<1>7. GrantsTaken'
  <2> SUFFICES ASSUME NEW y \in Ctx, pc'[y] = "store"
               PROVE  /\ traceblock_next <= myclaim[y] /\ TRACEBASE <= myclaim[y]
                      /\ myclaim[y] + claimSize(y) <= HIGH
                      /\ \A d \in CPU : Outside(myclaim[y], claimSize(y), d)
    BY <1>2, <1>3 DEF GrantsTaken, Outside, HasBlock
  <2>1. CASE y # x
    BY <2>1, <1>2 DEF Safe, GrantsTaken, Same
  <2>2. CASE y = x
    <3>1. /\ tb_limit[c] - BLK < myclaim[x]
          /\ myclaim[x] + n <= tb_next[c]
          /\ traceblock_next <= tb_limit[c] - BLK
      BY <1>1, <1>2, <1>c, <1>n DEF Safe, FreshClaims, BlocksTaken, Numbers
    <3>2. tb_limit[c] \in (TRACEBASE + BLK) .. HIGH
      BY <1>1 DEF TypeOK, HasBlock
    <3>3. \A d \in CPU : Outside(myclaim[x], n, d)
      <4>1. Outside(myclaim[x], n, c)
        BY <3>1 DEF Outside
      <4> QED
        BY <4>1, <3>1, <1>1, <1>2, <1>n, InsideOwnBlock
    <3> QED
      BY <2>2, <3>1, <3>2, <3>3, <1>2, <1>n, SizeFacts DEF Numbers
  <2> QED
    BY <2>1, <2>2
<1>8. OwnersApart'
  BY <1>3, <1>4 DEF Safe, OwnersApart, Apart
<1>9. EntriesSafe'
  BY <1>2, <1>3, <1>4 DEF Safe, EntriesSafe, Written, Outside, HasBlock, Apart
<1> QED
  BY <1>5, <1>6, <1>7, <1>8, <1>9 DEF Safe

(* A block change by an interrupt: the claim made under the lock fits.     *)
LEMMA SlowFitsSafe ==
    ASSUME Safe, Numbers, TypeOK, NEW x \in Ctx, SlowFits(x)
    PROVE  Safe'
<1> DEFINE c == cpu[x]
           n == claimSize(x)
<1>1. c \in CPU /\ HasBlock(c) /\ pc[x] = "slow" /\ tb_next[c] + n < tb_limit[c]
  BY DEF SlowFits, TypeOK, NeedsBlock, ClaimFits, HasBlock
<1>2. /\ UNCHANGED <<traceblock_next, tb_limit, mem, cpu, len, tsd>>
      /\ \A y \in Ctx \ {x} : Same(y)
      /\ pc'[x] = "store" /\ myclaim'[x] = tb_next[c]
      /\ tb_next'[c] = tb_next[c] + n
      /\ \A d \in CPU \ {c} : tb_next'[d] = tb_next[d]
  BY <1>1 DEF SlowFits, Granted, Goto, Same, TypeOK
<1>3. \A y \in Ctx : claimSize(y)' = claimSize(y)
  BY <1>2 DEF claimSize
<1>n. n = claimSize(x) /\ n \in Nat /\ 1 <= n
  BY DEF Numbers
<1>4. \A d \in CPU : tb_next'[d] \in Nat /\ tb_next[d] <= tb_next'[d]
  BY <1>1, <1>2 DEF Numbers
<1> HIDE DEF c, n
<1>c. c = cpu[x]
  BY DEF c
<1>5. BlocksTaken'
  BY <1>2, <1>4, SizeFacts DEF Safe, BlocksTaken, HasBlock, Numbers
<1>6. BlocksApart'
  BY <1>2 DEF Safe, BlocksApart, HasBlock, Apart
<1>7. FreshClaims'
  <2> SUFFICES ASSUME NEW y \in Ctx, y # x
               PROVE  /\ pc[y] \in {"add", "recheck"} => tb_limit[cpu[y]] # NULL
                      /\ pc[y] = "recheck" =>
                           /\ tb_limit[cpu[y]] - BLK < myclaim[y]
                           /\ myclaim[y] < tb_limit[cpu[y]] =>
                                myclaim[y] + claimSize(y) <= tb_next'[cpu[y]]
    BY <1>2, <1>3 DEF FreshClaims, HasBlock, Same
  <2>1. pc[y] \in {"add", "recheck"} => cpu[y] \in CPU
    BY DEF TypeOK
  <2> QED
    BY <2>1, <1>4 DEF HasBlock, Safe, FreshClaims, Numbers
<1>8. GrantsTaken'
  <2> SUFFICES ASSUME NEW y \in Ctx, pc'[y] = "store"
               PROVE  /\ traceblock_next <= myclaim'[y] /\ TRACEBASE <= myclaim'[y]
                      /\ myclaim'[y] + claimSize(y) <= HIGH
                      /\ \A d \in CPU : Outside(myclaim[y], claimSize(y), d)'
    BY <1>2, <1>3 DEF GrantsTaken, Outside, HasBlock
  <2>1. CASE y # x
    <3>1. Same(y) /\ pc[y] = "store"
      BY <2>1, <1>2 DEF Same
    <3>2. \A d \in CPU : Outside(myclaim[y], claimSize(y), d)
      BY <3>1 DEF Safe, GrantsTaken
    <3>3. \A d \in CPU : Outside(myclaim[y], claimSize(y), d)'
      BY <3>1, <3>2, <1>2, <1>3, <1>4 DEF Outside, HasBlock, Numbers, Same
    <3> QED
      BY <3>1, <3>3 DEF Safe, GrantsTaken, Same
  <2>2. CASE y = x
    <3>1. /\ tb_limit[c] - BLK < tb_next[c]
          /\ traceblock_next <= tb_limit[c] - BLK
      BY <1>1 DEF Safe, BlocksTaken
    <3>2. tb_limit[c] \in (TRACEBASE + BLK) .. HIGH
      BY <1>1 DEF TypeOK, HasBlock
    <3>3. \A d \in CPU \ {c} : Outside(tb_next[c], n, d)
      BY <3>1, <1>1, <1>n, InsideOwnBlock DEF Numbers
    <3>4. \A d \in CPU : Outside(myclaim[x], claimSize(x), d)'
      <4> TAKE d \in CPU
      <4>1. tb_next[c] + n <= tb_next'[c]
        BY <1>1, <1>2, <1>n DEF Numbers
      <4>2. tb_limit[d] # NULL => tb_next[c] + n <= tb_next'[d] \/ tb_limit[d] <= tb_next[c]
        BY <4>1, <3>3, <1>2 DEF Outside, HasBlock
      <4> QED
        BY <4>2, <1>2, <1>3, <1>n DEF Outside, HasBlock
    <3> QED
      BY <2>2, <3>1, <3>2, <3>4, <1>1, <1>2, <1>n, SizeFacts DEF Numbers
  <2> QED
    BY <2>1, <2>2
<1>9. \A y \in Ctx \ {x} : Owns(y)' => Owns(y) /\ myclaim'[y] = myclaim[y]
  BY <1>2, <1>3 DEF Owns, WouldFit, Same
<1>10. ASSUME NEW y \in Ctx \ {x}, Owns(y)
       PROVE  Apart(tb_next[c], n, myclaim[y], claimSize(y))
  <2>2. CASE pc[y] = "store"
    <3>1. Outside(myclaim[y], claimSize(y), c)
      BY <2>2, <1>1 DEF Safe, GrantsTaken
    <3> QED
      BY <3>1, <1>1, <1>n DEF Outside, Apart, Numbers
  <2>3. CASE WouldFit(y) /\ cpu[y] = c
    BY <2>3, <1>1, <1>n DEF WouldFit, Safe, FreshClaims, Apart, Numbers
  <2>4. CASE WouldFit(y) /\ cpu[y] # c
    <3>1. cpu[y] \in CPU /\ HasBlock(cpu[y])
      BY <2>4 DEF WouldFit, TypeOK, Safe, FreshClaims
    <3>2. Apart(tb_limit[c], BLK, tb_limit[cpu[y]], BLK)
      BY <3>1, <2>4, <1>1 DEF Safe, BlocksApart
    <3>3. /\ tb_limit[c] - BLK < tb_next[c]
          /\ tb_limit[cpu[y]] - BLK < myclaim[y]
          /\ myclaim[y] + claimSize(y) < tb_limit[cpu[y]]
      BY <2>4, <1>1 DEF WouldFit, Safe, FreshClaims, BlocksTaken
    <3> QED
      BY <3>1, <3>2, <3>3, <1>1, <1>n, SizeFacts DEF Apart, Numbers
  <2> QED
    BY <1>10, <2>2, <2>3, <2>4 DEF Owns
<1>11. OwnersApart'
  <2> SUFFICES ASSUME NEW y \in Ctx, NEW z \in Ctx, y # z, Owns(y)', Owns(z)'
               PROVE  Apart(myclaim'[y], claimSize(y), myclaim'[z], claimSize(z))
    BY <1>3 DEF OwnersApart, Apart
  <2>1. CASE y = x
    BY <2>1, <1>9, <1>10, <1>2, <1>n
  <2>2. CASE z = x
    BY <2>2, <1>9, <1>10, <1>2, <1>n DEF Apart
  <2>3. CASE y # x /\ z # x
    BY <2>3, <1>9 DEF Safe, OwnersApart
  <2> QED
    BY <2>1, <2>2, <2>3
<1>12. EntriesSafe'
  <2> SUFFICES ASSUME NEW a \in Addr, Written(a)
               PROVE  /\ traceblock_next <= a
                      /\ \A d \in CPU : Outside(a, 1, d)'
                      /\ \A y \in Ctx : Owns(y)' =>
                            Apart(a, 1, myclaim'[y], claimSize(y))
    BY <1>2, <1>3 DEF EntriesSafe, Written, Outside, HasBlock, Apart
  <2>1. /\ traceblock_next <= a
        /\ \A d \in CPU : Outside(a, 1, d)
        /\ \A y \in Ctx : Owns(y) => Apart(a, 1, myclaim[y], claimSize(y))
    BY DEF Safe, EntriesSafe, Written
  <2>2. a \in Nat
    BY SizeFacts DEF Addr
  <2>3. \A d \in CPU : Outside(a, 1, d)'
    BY <2>1, <2>2, <1>2, <1>4 DEF Outside, HasBlock, Numbers
  <2>4. Apart(a, 1, tb_next[c], n)
    BY <2>1, <2>2, <1>1, <1>n DEF Outside, Apart, Numbers
  <2> QED
    BY <2>1, <2>3, <2>4, <1>2, <1>9, <1>n
<1> QED
  BY <1>5, <1>6, <1>7, <1>8, <1>11, <1>12 DEF Safe

(* Taking a new block: it lies below everything handed out before, so no   *)
(* earlier claim and no stored entry is in it.                             *)
LEMMA SlowNewBlockSafe ==
    ASSUME Safe, Numbers, TypeOK, "WRAP" \notin flags,
           NEW x \in Ctx, SlowNewBlock(x)
    PROVE  Safe'
<1> DEFINE c == cpu[x]
           n == claimSize(x)
           b == traceblock_next - BLK
           h == HeadSize
<1>1. c \in CPU /\ pc[x] = "slow" /\ n <= MAXLEN /\ NextBlock = b
  <2>1. c \in CPU /\ pc[x] = "slow"
    BY DEF SlowNewBlock, TypeOK
  <2>2. n <= MAXLEN
    BY SizeFacts DEF SlowNewBlock, is_bad_len, Numbers
  <2>3. ~ NoBlockLeft
    BY DEF SlowNewBlock, do_wrap
  <2> QED
    BY <2>1, <2>2, <2>3 DEF NextBlock
<1>2. /\ b \in TRACEBASE .. (HIGH - BLK)
      /\ h \in Nat /\ 1 <= h /\ h + MAXLEN < BLK
  BY <1>1, NextBlockType
<1>n. n = claimSize(x) /\ n \in Nat /\ 1 <= n
  BY DEF Numbers
<1>3. /\ UNCHANGED <<cpu, len, tsd>>
      /\ traceblock_next' = b
      /\ \A y \in Ctx \ {x} : Same(y)
      /\ pc'[x] = "store" /\ myclaim'[x] = b + h
      /\ tb_next'[c] = b + h + n /\ tb_limit'[c] = b + BLK
      /\ \A d \in CPU \ {c} : tb_next'[d] = tb_next[d] /\ tb_limit'[d] = tb_limit[d]
  BY <1>1 DEF SlowNewBlock, Granted, Goto, Same, TypeOK
<1>4. \A a \in Addr : Written(a)' => Written(a) \/ (b <= a /\ a < b + h)
  <2> TAKE a \in Addr
  <2>1. mem' = InitBlock(b) /\ a \in Int /\ b \in Int
    BY <1>1, <1>2, SizeFacts DEF SlowNewBlock, Addr
  <2> HIDE DEF b
  <2>2. mem'[a] = IF a < b \/ a >= b + BLK THEN mem[a]
                  ELSE IF a < b + h THEN "head"
                  ELSE IF a >= b + BLK - TAIL THEN "nop" ELSE "stale"
    BY <2>1 DEF InitBlock
  <2> QED
    BY <2>1, <2>2 DEF Written
<1>5. \A y \in Ctx : claimSize(y)' = claimSize(y)
  BY <1>3 DEF claimSize
<1> HIDE DEF c, n, h
<1>c. c = cpu[x]
  BY DEF c
<1>6. /\ b \in Nat /\ b + BLK = traceblock_next /\ b < traceblock_next
      /\ TRACEBASE <= b /\ b + BLK <= HIGH /\ b + h + n < b + BLK
      /\ b + h \in Nat /\ b < b + h /\ BLK \in Nat /\ 0 < b + BLK
  BY <1>1, <1>2, <1>n, SizeFacts DEF TypeOK
<1> HIDE DEF b
<1>7. BlocksTaken'
  <2> SUFFICES ASSUME NEW d \in CPU, tb_limit'[d] # NULL
               PROVE  b <= tb_limit'[d] - BLK /\ tb_limit'[d] - BLK < tb_next'[d]
    BY <1>3 DEF BlocksTaken, HasBlock
  <2>1. CASE d = c
    BY <2>1, <1>3, <1>6, <1>n, <1>2
  <2>2. CASE d # c
    <3>1. /\ traceblock_next <= tb_limit[d] - BLK
          /\ tb_limit[d] - BLK < tb_next[d]
      BY <2>2, <1>3 DEF Safe, BlocksTaken, HasBlock
    <3> QED
      BY <2>2, <3>1, <1>3, <1>6 DEF Numbers
  <2> QED
    BY <2>1, <2>2
<1>8. \A d \in CPU \ {c} : HasBlock(d) => b + BLK <= tb_limit[d] - BLK
  BY <1>6 DEF Safe, BlocksTaken
<1>9. BlocksApart'
  <2> SUFFICES ASSUME NEW d \in CPU, NEW e \in CPU, d # e,
                      tb_limit'[d] # NULL, tb_limit'[e] # NULL
               PROVE  Apart(tb_limit'[d], BLK, tb_limit'[e], BLK)
    BY DEF BlocksApart, HasBlock, Apart
  <2>1. CASE d = c
    BY <2>1, <1>3, <1>6, <1>8 DEF Apart, HasBlock, Numbers
  <2>2. CASE e = c
    BY <2>2, <1>3, <1>6, <1>8 DEF Apart, HasBlock, Numbers
  <2>3. CASE d # c /\ e # c
    BY <2>3, <1>3 DEF Safe, BlocksApart, HasBlock
  <2> QED
    BY <2>1, <2>2, <2>3
<1>10. \A y \in Ctx \ {x} : pc[y] = "recheck" =>
          cpu[y] \in CPU /\ HasBlock(cpu[y]) /\ traceblock_next < myclaim[y]
  <2> TAKE y \in Ctx \ {x}
  <2> HAVE pc[y] = "recheck"
  <2>1. cpu[y] \in CPU /\ HasBlock(cpu[y])
    BY DEF TypeOK, Safe, FreshClaims
  <2>2. /\ traceblock_next <= tb_limit[cpu[y]] - BLK
        /\ tb_limit[cpu[y]] - BLK < myclaim[y]
    BY <2>1 DEF Safe, FreshClaims, BlocksTaken
  <2> QED
    BY <2>1, <2>2, <1>6 DEF Numbers
<1>11. FreshClaims'
  <2> SUFFICES ASSUME NEW y \in Ctx, y # x
               PROVE  /\ pc[y] \in {"add", "recheck"} => tb_limit'[cpu[y]] # NULL
                      /\ pc[y] = "recheck" =>
                           /\ tb_limit'[cpu[y]] - BLK < myclaim[y]
                           /\ myclaim[y] < tb_limit'[cpu[y]] =>
                                myclaim[y] + claimSize(y) <= tb_next'[cpu[y]]
    BY <1>3, <1>5 DEF FreshClaims, HasBlock, Same
  <2>1. CASE cpu[y] = c
    BY <2>1, <1>1, <1>3, <1>6, <1>10 DEF Numbers, NULL
  <2>2. CASE cpu[y] # c
    <3>1. pc[y] \in {"add", "recheck"} => cpu[y] \in CPU \ {c}
      BY <2>2 DEF TypeOK
    <3> QED
      BY <3>1, <1>3 DEF Safe, FreshClaims, HasBlock
  <2> QED
    BY <2>1, <2>2
<1>12. \A y \in Ctx \ {x} : Owns(y)' =>
          /\ Owns(y) /\ myclaim'[y] = myclaim[y] /\ traceblock_next <= myclaim[y]
  <2> TAKE y \in Ctx \ {x}
  <2> HAVE Owns(y)'
  <2>1. Same(y)
    BY <1>3
  <2>2. CASE pc[y] = "store"
    BY <2>1, <2>2 DEF Owns, Same, Safe, GrantsTaken
  <2>3. CASE pc[y] # "store"
    <3>1. /\ pc[y] = "recheck" /\ myclaim'[y] = myclaim[y] /\ cpu'[y] = cpu[y]
          /\ myclaim[y] + claimSize(y) < tb_limit'[cpu[y]]
      BY <2>1, <2>3, <1>5 DEF Owns, WouldFit, Same
    <3>2. cpu[y] # c
      BY <3>1, <1>1, <1>3, <1>6, <1>10 DEF Numbers
    <3>3. tb_limit'[cpu[y]] = tb_limit[cpu[y]]
      BY <3>1, <3>2, <1>3, <1>10
    <3> QED
      BY <3>1, <3>3, <1>10, <1>6 DEF Owns, WouldFit, Numbers
  <2> QED
    BY <2>2, <2>3
<1>13. GrantsTaken'
  <2> SUFFICES ASSUME NEW y \in Ctx, pc'[y] = "store"
               PROVE  /\ b <= myclaim'[y] /\ TRACEBASE <= myclaim'[y]
                      /\ myclaim'[y] + claimSize(y) <= HIGH
                      /\ \A d \in CPU : tb_limit'[d] # NULL =>
                            \/ myclaim'[y] + claimSize(y) <= tb_next'[d]
                            \/ tb_limit'[d] <= myclaim'[y]
    BY <1>3, <1>5 DEF GrantsTaken, Outside, HasBlock
  <2>1. CASE y # x
    <3>1. Same(y) /\ pc[y] = "store"
      BY <2>1, <1>3 DEF Same
    <3>2. /\ traceblock_next <= myclaim[y] /\ TRACEBASE <= myclaim[y]
          /\ myclaim[y] + claimSize(y) <= HIGH
          /\ \A d \in CPU : Outside(myclaim[y], claimSize(y), d)
      BY <3>1 DEF Safe, GrantsTaken
    <3>3. tb_limit'[c] <= myclaim[y] /\ b <= myclaim[y]
      BY <3>2, <1>3, <1>6 DEF Numbers
    <3>4. \A d \in CPU \ {c} : tb_limit'[d] # NULL =>
             \/ myclaim[y] + claimSize(y) <= tb_next'[d]
             \/ tb_limit'[d] <= myclaim[y]
      BY <3>2, <1>3 DEF Outside, HasBlock
    <3> QED
      BY <3>1, <3>2, <3>3, <3>4 DEF Same
  <2>2. CASE y = x
    <3>1. \A d \in CPU \ {c} : tb_limit'[d] # NULL => b + h + n <= tb_next'[d]
      <4> TAKE d \in CPU \ {c}
      <4> HAVE tb_limit'[d] # NULL
      <4>1. b + BLK <= tb_limit[d] - BLK /\ tb_limit[d] - BLK < tb_next[d]
        BY <1>3, <1>8 DEF Safe, BlocksTaken, HasBlock
      <4> QED
        BY <4>1, <1>3, <1>6, <1>n, <1>2 DEF Numbers
    <3>2. b + h + n <= tb_next'[c] /\ b + h + n <= HIGH /\ b <= b + h
          /\ TRACEBASE <= b + h
      BY <1>2, <1>3, <1>6, <1>n, SizeFacts
    <3> QED
      BY <2>2, <3>1, <3>2, <1>3, <1>n
  <2> QED
    BY <2>1, <2>2
<1>14. \A m \in Nat, k \in Nat : traceblock_next <= m => Apart(b + h, n, m, k)
  BY <1>2, <1>6, <1>n DEF Apart, Numbers
<1>15. OwnersApart'
  <2> SUFFICES ASSUME NEW y \in Ctx, NEW z \in Ctx, y # z, Owns(y)', Owns(z)'
               PROVE  Apart(myclaim'[y], claimSize(y), myclaim'[z], claimSize(z))
    BY <1>5 DEF OwnersApart, Apart
  <2>1. CASE y = x
    BY <2>1, <1>3, <1>12, <1>14, <1>n DEF Numbers
  <2>2. CASE z = x
    <3>1. Apart(myclaim'[z], claimSize(z), myclaim'[y], claimSize(y))
      BY <2>2, <1>3, <1>12, <1>14, <1>n DEF Numbers
    <3> QED
      BY <3>1 DEF Apart
  <2>3. CASE y # x /\ z # x
    BY <2>3, <1>12 DEF Safe, OwnersApart
  <2> QED
    BY <2>1, <2>2, <2>3
<1>16. EntriesSafe'
  <2> SUFFICES ASSUME NEW a \in Addr, Written(a)'
               PROVE  /\ b <= a
                      /\ \A d \in CPU : tb_limit'[d] # NULL =>
                            a + 1 <= tb_next'[d] \/ tb_limit'[d] <= a
                      /\ \A y \in Ctx : Owns(y)' =>
                            Apart(a, 1, myclaim'[y], claimSize(y))
    BY <1>3, <1>5 DEF EntriesSafe, Outside, HasBlock, Apart
  <2>0. a \in Nat
    BY SizeFacts DEF Addr
  <2>1. CASE Written(a)
    <3>1. /\ traceblock_next <= a
          /\ \A d \in CPU : Outside(a, 1, d)
          /\ \A y \in Ctx : Owns(y) => Apart(a, 1, myclaim[y], claimSize(y))
      BY <2>1 DEF Safe, EntriesSafe
    <3>2. b <= a /\ tb_limit'[c] <= a
      BY <2>0, <3>1, <1>3, <1>6 DEF Numbers
    <3>3. \A d \in CPU \ {c} : tb_limit'[d] # NULL =>
             a + 1 <= tb_next'[d] \/ tb_limit'[d] <= a
      BY <3>1, <1>3 DEF Outside, HasBlock
    <3>4. Apart(a, 1, b + h, n)
      BY <2>0, <3>1, <1>14 DEF Apart
    <3> QED
      BY <3>1, <3>2, <3>3, <3>4, <1>3, <1>12, <1>n
  <2>2. CASE b <= a /\ a < b + h
    <3>1. a + 1 <= tb_next'[c]
      BY <2>0, <2>2, <1>2, <1>3, <1>6, <1>n
    <3>2. \A d \in CPU \ {c} : tb_limit'[d] # NULL => a + 1 <= tb_next'[d]
      <4> TAKE d \in CPU \ {c}
      <4> HAVE tb_limit'[d] # NULL
      <4>1. b + BLK <= tb_limit[d] - BLK /\ tb_limit[d] - BLK < tb_next[d]
        BY <1>3, <1>8 DEF Safe, BlocksTaken, HasBlock
      <4> QED
        BY <4>1, <2>0, <2>2, <1>3, <1>6, <1>n, <1>2 DEF Numbers
    <3>3. Apart(a, 1, b + h, n)
      BY <2>0, <2>2, <1>2, <1>6, <1>n DEF Apart
    <3>4. \A y \in Ctx \ {x} : Owns(y)' => Apart(a, 1, myclaim'[y], claimSize(y))
      <4>1. a + 1 <= traceblock_next
        BY <2>0, <2>2, <1>2, <1>6, <1>n DEF Numbers
      <4> QED
        BY <4>1, <2>0, <1>12 DEF Apart, Numbers
    <3> QED
      BY <2>2, <3>1, <3>2, <3>3, <3>4, <1>3, <1>n
  <2> QED
    BY <2>1, <2>2, <1>4
<1> QED
  BY <1>7, <1>9, <1>11, <1>13, <1>15, <1>16 DEF Safe

(* A full buffer: tb->next and traceblock_next move, no claim results.     *)
LEMMA SlowFullSafe ==
    ASSUME Safe, Numbers, TypeOK, NEW x \in Ctx, SlowFull(x)
    PROVE  Safe'
<1> DEFINE c == cpu[x]
<1>1. c \in CPU
  BY DEF SlowFull, TypeOK
<1>2. /\ UNCHANGED <<tb_limit, mem>>
      /\ traceblock_next' \in Int /\ traceblock_next' <= traceblock_next
      /\ \A y \in Ctx \ {x} : Same(y)
      /\ pc'[x] = "idle"
      /\ tb_next' = [tb_next EXCEPT ![c] = @ + claimSize(x)]
  BY SizeFacts DEF SlowFull, Refused, Return, Goto, Same, TypeOK, Numbers
<1>3. \A d \in CPU : tb_next'[d] \in Nat /\ tb_next[d] <= tb_next'[d]
  BY <1>1, <1>2 DEF Numbers, TypeOK
<1>4. \A y \in Ctx : pc'[y] \in {"add", "recheck", "store"} =>
         y # x /\ Same(y) /\ claimSize(y)' = claimSize(y)
  BY <1>2 DEF Same, claimSize
<1>5. \A y \in Ctx : Owns(y)' => Owns(y) /\ Same(y) /\ claimSize(y)' = claimSize(y)
  BY <1>2, <1>4 DEF Owns, WouldFit, Same
<1> HIDE DEF c
<1>6. BlocksTaken'
  BY <1>2, <1>3, SizeFacts DEF Safe, BlocksTaken, HasBlock, Numbers
<1>7. BlocksApart'
  BY <1>2 DEF Safe, BlocksApart, HasBlock, Apart
<1>8. FreshClaims'
  <2> SUFFICES ASSUME NEW y \in Ctx, pc'[y] \in {"add", "recheck"}
               PROVE  /\ tb_limit[cpu[y]] # NULL
                      /\ pc[y] = "recheck" =>
                           /\ tb_limit[cpu[y]] - BLK < myclaim[y]
                           /\ myclaim[y] < tb_limit[cpu[y]] =>
                                myclaim[y] + claimSize(y) <= tb_next'[cpu[y]]
    BY <1>2, <1>4 DEF FreshClaims, HasBlock, Same
  <2>1. cpu[y] \in CPU /\ pc[y] = pc'[y]
    BY <1>4 DEF TypeOK, Same
  <2> QED
    BY <2>1, <1>3 DEF HasBlock, Safe, FreshClaims, Numbers
<1>9. GrantsTaken'
  <2> SUFFICES ASSUME NEW y \in Ctx, pc'[y] = "store"
               PROVE  /\ traceblock_next' <= myclaim[y] /\ TRACEBASE <= myclaim[y]
                      /\ myclaim[y] + claimSize(y) <= HIGH
                      /\ \A d \in CPU : tb_limit[d] # NULL =>
                            \/ myclaim[y] + claimSize(y) <= tb_next'[d]
                            \/ tb_limit[d] <= myclaim[y]
    BY <1>2, <1>4 DEF GrantsTaken, Outside, HasBlock, Same
  <2>1. pc[y] = "store"
    BY <1>4 DEF Same
  <2>2. /\ traceblock_next <= myclaim[y] /\ TRACEBASE <= myclaim[y]
        /\ myclaim[y] + claimSize(y) <= HIGH
        /\ \A d \in CPU : Outside(myclaim[y], claimSize(y), d)
    BY <2>1 DEF Safe, GrantsTaken
  <2>3. \A d \in CPU : tb_limit[d] # NULL =>
           myclaim[y] + claimSize(y) <= tb_next'[d] \/ tb_limit[d] <= myclaim[y]
    BY <2>2, <1>3 DEF Outside, HasBlock, Numbers
  <2> QED
    BY <2>2, <2>3, <1>2 DEF Numbers
<1>10. OwnersApart'
  BY <1>5 DEF Safe, OwnersApart, Same
<1>11. EntriesSafe'
  <2> SUFFICES ASSUME NEW a \in Addr, Written(a)
               PROVE  /\ traceblock_next' <= a
                      /\ \A d \in CPU : tb_limit[d] # NULL =>
                            a + 1 <= tb_next'[d] \/ tb_limit[d] <= a
                      /\ \A y \in Ctx : Owns(y)' =>
                            Apart(a, 1, myclaim[y], claimSize(y))
    BY <1>2, <1>5 DEF EntriesSafe, Written, Outside, HasBlock, Same
  <2>1. /\ traceblock_next <= a /\ a \in Nat
        /\ \A d \in CPU : Outside(a, 1, d)
        /\ \A y \in Ctx : Owns(y) => Apart(a, 1, myclaim[y], claimSize(y))
    BY SizeFacts DEF Safe, EntriesSafe, Written, Addr
  <2>2. \A d \in CPU : tb_limit[d] # NULL => a + 1 <= tb_next'[d] \/ tb_limit[d] <= a
    BY <2>1, <1>3 DEF Outside, HasBlock, Numbers
  <2> QED
    BY <2>1, <2>2, <1>2, <1>5 DEF Numbers
<1> QED
  BY <1>6, <1>7, <1>8, <1>9, <1>10, <1>11 DEF Safe

(* Storing an entry turns a granted claim into a stored entry.             *)
LEMMA StoreSafe ==
    ASSUME Safe, Numbers, TypeOK, NEW x \in Ctx, Store(x)
    PROVE  Safe'
<1>1. /\ pc[x] = "store" /\ pc'[x] = "idle"
      /\ UNCHANGED <<traceblock_next, tb_next, tb_limit>>
      /\ \A y \in Ctx \ {x} : Same(y)
  BY DEF Store, Return, Goto, Same, TypeOK
<1>2. \A a \in Addr : Written(a)' =>
         \/ Written(a)
         \/ myclaim[x] <= a /\ a <= myclaim[x] + claimSize(x) - 1
  BY DEF Store, Words, Written
<1>3. \A y \in Ctx : pc'[y] \in {"add", "recheck", "store"} =>
         y # x /\ Same(y) /\ claimSize(y)' = claimSize(y)
  BY <1>1 DEF Same, claimSize
<1>4. \A y \in Ctx : Owns(y)' =>
         y # x /\ Owns(y) /\ Same(y) /\ claimSize(y)' = claimSize(y)
  BY <1>1, <1>3 DEF Owns, WouldFit, Same
<1>5. BlocksTaken' /\ BlocksApart'
  BY <1>1 DEF Safe, BlocksTaken, BlocksApart, HasBlock, Apart
<1>6. FreshClaims'
  BY <1>1, <1>3 DEF Safe, FreshClaims, HasBlock, Same
<1>7. GrantsTaken'
  BY <1>1, <1>3 DEF Safe, GrantsTaken, Outside, HasBlock, Same
<1>8. OwnersApart'
  BY <1>4 DEF Safe, OwnersApart, Same
<1>9. EntriesSafe'
  <2> SUFFICES ASSUME NEW a \in Addr, Written(a)'
               PROVE  /\ traceblock_next <= a
                      /\ \A d \in CPU : Outside(a, 1, d)
                      /\ \A y \in Ctx : Owns(y)' =>
                            Apart(a, 1, myclaim[y], claimSize(y))
    BY <1>1, <1>4 DEF EntriesSafe, Written, Outside, HasBlock, Same
  <2>1. CASE Written(a)
    BY <2>1, <1>4 DEF Safe, EntriesSafe, Written
  <2>2. CASE myclaim[x] <= a /\ a <= myclaim[x] + claimSize(x) - 1
    <3>1. a \in Nat
      BY SizeFacts DEF Addr
    <3>2. /\ traceblock_next <= myclaim[x]
          /\ \A d \in CPU : Outside(myclaim[x], claimSize(x), d)
      BY <1>1 DEF Safe, GrantsTaken
    <3>3. \A d \in CPU : Outside(a, 1, d)
      BY <2>2, <3>1, <3>2 DEF Outside, HasBlock, Numbers
    <3>4. \A y \in Ctx : Owns(y)' =>
             Apart(myclaim[x], claimSize(x), myclaim[y], claimSize(y))
      BY <1>1, <1>4 DEF Safe, OwnersApart, Owns
    <3>5. \A y \in Ctx : Owns(y)' => Apart(a, 1, myclaim[y], claimSize(y))
      BY <2>2, <3>1, <3>4 DEF Apart, Numbers
    <3> QED
      BY <2>2, <3>1, <3>2, <3>3, <3>5 DEF Numbers
  <2> QED
    BY <2>1, <2>2, <1>2
<1> QED
  BY <1>5, <1>6, <1>7, <1>8, <1>9 DEF Safe

(* Flushing, when nothing is under way, fills only free words.             *)
LEMMA FlushSafe ==
    ASSUME Safe, Numbers, Quiet, do_flush
    PROVE  Safe'
<1>1. /\ \A y \in Ctx : pc'[y] = "idle"
      /\ UNCHANGED <<traceblock_next, tb_limit>>
      /\ \A a \in Addr : Written(a)' => Written(a)
      /\ \A d \in CPU : tb_next'[d] = IF tb_next[d] # NULL /\ tb_limit[d] # NULL
                                      THEN tb_limit[d] ELSE tb_next[d]
  BY DEF do_flush, Quiet, ctxVars, Written
<1>2. \A d \in CPU : tb_limit[d] # NULL =>
         tb_limit[d] - BLK < tb_next'[d] /\ traceblock_next <= tb_limit[d] - BLK
  <2> TAKE d \in CPU
  <2> HAVE tb_limit[d] # NULL
  <2>1. /\ tb_limit[d] - BLK < tb_next[d]
        /\ traceblock_next <= tb_limit[d] - BLK
    BY DEF Safe, BlocksTaken, HasBlock
  <2> QED
    BY <2>1, <1>1, SizeFacts DEF Numbers
<1>3. BlocksTaken'
  BY <1>1, <1>2 DEF BlocksTaken, HasBlock
<1>4. BlocksApart'
  BY <1>1 DEF Safe, BlocksApart, HasBlock, Apart
<1>5. FreshClaims' /\ GrantsTaken' /\ OwnersApart'
  BY <1>1 DEF FreshClaims, GrantsTaken, OwnersApart, Owns, WouldFit
<1>6. EntriesSafe'
  <2> SUFFICES ASSUME NEW a \in Addr, Written(a), NEW d \in CPU, tb_limit[d] # NULL
               PROVE  a + 1 <= tb_next'[d] \/ tb_limit[d] <= a
    BY <1>1 DEF Safe, EntriesSafe, Written, Outside, HasBlock, Owns, WouldFit
  <2>1. a \in Nat
    BY SizeFacts DEF Addr
  <2>2. a + 1 <= tb_next[d] \/ tb_limit[d] <= a
    BY DEF Safe, EntriesSafe, Written, Outside, HasBlock
  <2> QED
    BY <2>1, <2>2, <1>1 DEF Numbers
<1> QED
  BY <1>3, <1>4, <1>5, <1>6 DEF Safe

(* A reset buffer has no blocks, no claims and no entries.                 *)
LEMMA EmptySafe ==
    ASSUME \A c \in CPU : tb_limit[c] = NULL,
           \A x \in Ctx : pc[x] = "idle",
           \A a \in Addr : mem[a] = "stale"
    PROVE  Safe
  BY DEF Safe, BlocksTaken, BlocksApart, FreshClaims, GrantsTaken, OwnersApart,
         EntriesSafe, Written, HasBlock, Owns, WouldFit

LEMMA InitIInv == Init => IInv
<1> SUFFICES ASSUME Init PROVE IInv
  OBVIOUS
<1>1. TypeOK
  BY InitType
<1>2. Safe
  BY EmptySafe DEF Init
<1> QED
  BY <1>1, <1>2 DEF IInv, Init

LEMMA NextIInv ==
    ASSUME NoWrapping, IInv, [Next]_vars
    PROVE  IInv'
<1>1. TypeOK /\ Safe /\ "WRAP" \notin flags /\ Numbers
  BY NumbersType DEF IInv
<1>2. TypeOK'
  BY <1>1, NextType
<1>3. ASSUME NEW x \in Ctx, NEW c \in CPU, Insert(x, c) PROVE IInv'
  <2>1. Safe'
    BY <1>1, <1>3, NoClaimStep DEF Insert, Goto, TypeOK, Same
  <2> QED
    BY <1>1, <1>2, <1>3, <2>1 DEF IInv, Insert
<1>4. ASSUME NEW x \in Ctx, ReadLimit(x) PROVE IInv'
  <2>1. Safe'
    BY <1>1, <1>4, NoClaimStep DEF ReadLimit, Goto, TypeOK, Same
  <2> QED
    BY <1>1, <1>2, <1>4, <2>1 DEF IInv, ReadLimit
<1>5. ASSUME NEW x \in Ctx, AddNext(x) PROVE IInv'
  BY <1>1, <1>2, <1>5, AddNextSafe DEF IInv, AddNext
<1>6. ASSUME NEW x \in Ctx, RecheckKeep(x) PROVE IInv'
  BY <1>1, <1>2, <1>6, RecheckKeepSafe DEF IInv, RecheckKeep
<1>7. ASSUME NEW x \in Ctx, RecheckSlow(x) PROVE IInv'
  <2>1. Safe'
    BY <1>1, <1>7, NoClaimStep DEF RecheckSlow, Goto, TypeOK, Same
  <2> QED
    BY <1>1, <1>2, <1>7, <2>1 DEF IInv, RecheckSlow
<1>8. ASSUME NEW x \in Ctx, RecheckRetry(x) PROVE IInv'
  <2>1. Safe'
    BY <1>1, <1>8, NoClaimStep DEF RecheckRetry, Goto, TypeOK, Same
  <2> QED
    BY <1>1, <1>2, <1>8, <2>1 DEF IInv, RecheckRetry
<1>9. ASSUME NEW x \in Ctx, SlowBadLen(x) PROVE IInv'
  <2>1. Safe'
    BY <1>1, <1>9, NoClaimStep DEF SlowBadLen, Refused, Return, Goto, TypeOK, Same
  <2> QED
    BY <1>1, <1>2, <1>9, <2>1 DEF IInv, SlowBadLen
<1>10. ASSUME NEW x \in Ctx, SlowFits(x) PROVE IInv'
  BY <1>1, <1>2, <1>10, SlowFitsSafe DEF IInv, SlowFits
<1>11. ASSUME NEW x \in Ctx, SlowNewBlock(x) PROVE IInv'
  BY <1>1, <1>2, <1>11, SlowNewBlockSafe DEF IInv, SlowNewBlock
<1>12. ASSUME NEW x \in Ctx, SlowFull(x) PROVE IInv'
  BY <1>1, <1>2, <1>12, SlowFullSafe DEF IInv, SlowFull
<1>13. ASSUME NEW x \in Ctx, Store(x) PROVE IInv'
  BY <1>1, <1>2, <1>13, StoreSafe DEF IInv, Store
<1>14. ASSUME do_trace_on \/ do_trace_off PROVE IInv'
  <2>1. UNCHANGED <<flags, traceblock_next, tb_next, tb_limit, mem, pc, cpu, len,
                    tsd, myclaim>>
    BY <1>14 DEF do_trace_on, do_trace_off, ctxVars
  <2>2. Safe'
    BY <1>1, <2>1 DEF Safe, BlocksTaken, BlocksApart, FreshClaims, GrantsTaken,
       OwnersApart, EntriesSafe, Written, HasBlock, Outside, Apart, Owns, WouldFit, claimSize
  <2> QED
    BY <1>1, <1>2, <2>1, <2>2 DEF IInv
<1>15. ASSUME Quiet, do_flush PROVE IInv'
  BY <1>1, <1>2, <1>15, FlushSafe DEF IInv, do_flush
<1>16. ASSUME NEW f \in ResetFlags, Quiet, do_reset(f) PROVE IInv'
  <2>1. "WRAP" \notin flags'
    BY <1>16 DEF do_reset, NoWrapping
  <2>2. /\ \A c \in CPU : tb_limit'[c] = NULL
        /\ \A x \in Ctx : pc'[x] = "idle"
        /\ \A a \in Addr : mem'[a] = "stale"
    BY <1>16 DEF do_reset, Quiet, ctxVars
  <2>3. Safe'
    BY <2>2 DEF Safe, BlocksTaken, BlocksApart, FreshClaims, GrantsTaken,
       OwnersApart, EntriesSafe, Written, HasBlock, Owns, WouldFit
  <2> QED
    BY <1>2, <2>1, <2>3 DEF IInv
<1>17. CASE UNCHANGED vars
  <2>1. UNCHANGED <<flags, traceblock_next, tb_next, tb_limit, mem, pc, cpu, len,
                    tsd, myclaim>>
    BY <1>17 DEF vars, ctxVars
  <2>2. Safe'
    BY <1>1, <2>1 DEF Safe, BlocksTaken, BlocksApart, FreshClaims, GrantsTaken,
       OwnersApart, EntriesSafe, Written, HasBlock, Outside, Apart, Owns, WouldFit, claimSize
  <2> QED
    BY <1>1, <1>2, <2>1, <2>2 DEF IInv
<1> QED
  BY <1>3, <1>4, <1>5, <1>6, <1>7, <1>8, <1>9, <1>10, <1>11, <1>12, <1>13,
     <1>14, <1>15, <1>16, <1>17 DEF Next, Step, Control

(* Disjoint numbers, disjoint sets of words.                               *)
LEMMA ApartDisjoint ==
    ASSUME NEW l1 \in Nat, NEW n1 \in Nat, NEW l2 \in Nat, NEW n2 \in Nat,
           Apart(l1, n1, l2, n2)
    PROVE  Words(l1, n1) \cap Words(l2, n2) = {}
  BY DEF Apart, Words

LEMMA IInvExclusive == IInv => ExclusiveClaims
<1> SUFFICES ASSUME IInv, NEW x \in Ctx, NEW y \in Ctx, x # y,
                    pc[x] = "store", pc[y] = "store"
             PROVE  Words(myclaim[x], claimSize(x)) \cap
                    Words(myclaim[y], claimSize(y)) = {}
  BY DEF ExclusiveClaims, Held
<1>1. Numbers
  BY NumbersType DEF IInv
<1>2. Apart(myclaim[x], claimSize(x), myclaim[y], claimSize(y))
  BY DEF IInv, Safe, OwnersApart, Owns
<1> QED
  BY <1>1, <1>2, ApartDisjoint DEF Numbers

(* Without wraparound the claims of get_claim are exclusive: whatever      *)
(* interrupts whatever, on however many CPUs, no word of the buffer is     *)
(* ever granted to two entries that are both still to be stored.           *)
THEOREM ExclusiveClaimsHold ==
    ASSUME NoWrapping
    PROVE  Spec => []ExclusiveClaims
<1>1. Init => IInv
  BY InitIInv
<1>2. IInv /\ [Next]_vars => IInv'
  BY NextIInv
<1>3. IInv => ExclusiveClaims
  BY IInvExclusive
<1> QED
  BY <1>1, <1>2, <1>3, PTL DEF Spec

(***************************************************************************)
(* The allocator implements ClaimSpace                                     *)
(***************************************************************************)

Entries == {a \in Addr : mem[a] = "entry"}
HeldBy == [x \in Ctx |-> Held(x)]

(* A step that changes neither claims granted nor entries stored is a      *)
(* stuttering step of ClaimSpace.                                          *)
LEMMA HeldFrame ==
    ASSUME NEW x \in Ctx, \A y \in Ctx \ {x} : Same(y)
    PROVE  \A y \in Ctx \ {x} : Held(y)' = Held(y)
  BY DEF Held, Same, claimSize

LEMMA StutterStep ==
    ASSUME NEW x \in Ctx, \A y \in Ctx \ {x} : Same(y),
           pc[x] # "store", pc'[x] # "store", mem' = mem
    PROVE  UNCHANGED <<HeldBy, Entries>>
<1>1. \A y \in Ctx : Held(y)' = Held(y)
  BY HeldFrame DEF Held
<1> QED
  BY <1>1 DEF HeldBy, Entries

(* A step that grants x a claim is a Grant step.                           *)
LEMMA GrantStep ==
    ASSUME IInv, IInv', NEW x \in Ctx, \A y \in Ctx \ {x} : Same(y),
           pc[x] # "store", pc'[x] = "store", Entries' = Entries
    PROVE  Promise!Grant(x)
<1> DEFINE lo == myclaim'[x]
           n == claimSize(x)'
<1>1. /\ lo \in Nat /\ n \in Nat /\ 1 <= n /\ n <= MAXLEN + 1
  <2>1. /\ len'[x] \in 1..MAXLEN /\ tsd'[x] \in {0, 1} /\ lo \in Nat
    BY DEF IInv, TypeOK
  <2> QED
    BY <2>1, SizeFacts DEF claimSize
<1>2. TRACEBASE <= lo /\ lo + n <= HIGH
  BY DEF IInv, Safe, GrantsTaken
<1>3. lo \in Addr /\ n \in 1 .. (MAXLEN + 1)
  BY <1>1, <1>2, SizeFacts DEF Addr
<1>4. Held(x)' = {a \in Addr : lo <= a /\ a < lo + n}
  BY <1>1, <1>2, SizeFacts DEF Held, Words, Addr
<1>5. \A y \in Ctx \ {x} : Held(y)' = Held(y)
  BY HeldFrame
<1>6. Held(x) = {}
  BY DEF Held
<1>7. Held(x)' \cap Entries = {}
  <2> SUFFICES ASSUME NEW a \in Addr, mem'[a] = "entry", lo <= a, a < lo + n
               PROVE  FALSE
    BY <1>4 DEF Entries
  <2>1. Apart(a, 1, lo, n)
    BY DEF IInv, Safe, EntriesSafe, Written, Owns, Apart
  <2> QED
    BY <2>1, <1>1, SizeFacts DEF Apart, Addr
<1>8. \A y \in Ctx : Held(x)' \cap Held(y) = {}
  <2> SUFFICES ASSUME NEW y \in Ctx \ {x}, pc[y] = "store"
               PROVE  Held(x)' \cap Held(y) = {}
    BY <1>6 DEF Held
  <2>1. pc'[y] = "store" /\ myclaim'[y] = myclaim[y] /\ claimSize(y)' = claimSize(y)
    BY DEF Same, claimSize
  <2>2. Apart(lo, n, myclaim[y], claimSize(y))
    BY <2>1 DEF IInv, Safe, OwnersApart, Owns, Apart
  <2>3. myclaim[y] \in Nat /\ claimSize(y) \in Nat
    BY NumbersType DEF IInv, Numbers
  <2>4. Words(lo, n) \cap Words(myclaim[y], claimSize(y)) = {}
    BY <2>2, <2>3, <1>1, ApartDisjoint
  <2>5. Held(x)' = Words(lo, n) /\ Held(y) = Words(myclaim[y], claimSize(y))
    BY DEF Held, Words
  <2> QED
    BY <2>4, <2>5
<1>9. HeldBy' = [HeldBy EXCEPT ![x] = {a \in Addr : lo <= a /\ a < lo + n}]
  BY <1>4, <1>5 DEF HeldBy
<1> HIDE DEF lo, n
<1>10. /\ HeldBy[x] = {} /\ Entries' = Entries
       /\ Promise!Free({a \in Addr : lo <= a /\ a < lo + n})
  BY <1>4, <1>6, <1>7, <1>8 DEF Promise!Free, HeldBy, Entries
<1>11. HeldBy'[x] # {}
  <2>1. lo \in Held(x)'
    BY <1>1, <1>3, <1>4
  <2> QED
    BY <2>1 DEF HeldBy
<1> QED
  BY <1>3, <1>9, <1>10, <1>11 DEF Promise!Grant, Promise!Words, HeldBy, Entries

(* Storing an entry is a Commit step.                                      *)
LEMMA CommitStep ==
    ASSUME IInv, NEW x \in Ctx, Store(x)
    PROVE  Promise!Commit(x)
<1>1. /\ pc[x] = "store" /\ pc'[x] = "idle"
      /\ \A y \in Ctx \ {x} : Same(y)
  BY DEF Store, Return, Goto, Same, IInv, TypeOK
<1>2. myclaim[x] \in Nat /\ claimSize(x) \in Nat /\ 1 <= claimSize(x)
  BY NumbersType DEF IInv, Numbers
<1>3. TRACEBASE <= myclaim[x] /\ myclaim[x] + claimSize(x) <= HIGH
  BY <1>1 DEF IInv, Safe, GrantsTaken
<1>4. Held(x) = Words(myclaim[x], claimSize(x)) /\ Held(x)' = {}
  BY <1>1 DEF Held
<1>5. Held(x) \subseteq Addr /\ myclaim[x] \in Held(x)
  BY <1>2, <1>3, <1>4, SizeFacts DEF Words, Addr
<1>6. Entries' = Entries \cup Held(x)
  <2>1. \A a \in Addr : mem'[a] = "entry" <=> (mem[a] = "entry" \/ a \in Held(x))
    BY <1>4 DEF Store
  <2> QED
    BY <2>1, <1>5 DEF Entries
<1>7. HeldBy' = [HeldBy EXCEPT ![x] = {}]
  BY <1>1, <1>4, HeldFrame DEF HeldBy
<1> QED
  BY <1>5, <1>6, <1>7 DEF Promise!Commit, HeldBy, Entries

(* No entry is in the block that is set up next.                           *)
LEMMA NewBlockKeepsEntries ==
    ASSUME IInv, NEW x \in Ctx, SlowNewBlock(x)
    PROVE  Entries' = Entries
<1> DEFINE b == NextBlock
<1>1. b = traceblock_next - BLK
  BY DEF SlowNewBlock, NextBlock, do_wrap, IInv
<1>2. b \in Int /\ b + BLK <= traceblock_next
  BY <1>1, SizeFacts DEF IInv, TypeOK
<1>3. \A a \in Addr : mem[a] = "entry" => a \in Int /\ a >= b + BLK
  BY <1>2, SizeFacts DEF IInv, Safe, EntriesSafe, Written, TypeOK, Addr
<1>4. mem' = InitBlock(b)
  BY DEF SlowNewBlock
<1> HIDE DEF b
<1>5. \A a \in Addr : mem'[a] = "entry" <=> mem[a] = "entry"
  BY <1>3, <1>4 DEF InitBlock
<1> QED
  BY <1>5 DEF Entries

(* Flushing overwrites no entry.                                           *)
LEMMA FlushKeepsEntries ==
    ASSUME IInv, Quiet, do_flush
    PROVE  Entries' = Entries
<1>1. \A a \in Addr : mem[a] = "entry" => ~ \E c \in CPU : a \in Unfilled(c)
  <2> SUFFICES ASSUME NEW a \in Addr, mem[a] = "entry", NEW c \in CPU,
                      tb_limit[c] # NULL, tb_next[c] <= a, a < tb_limit[c]
               PROVE  FALSE
    BY DEF Unfilled
  <2>1. a + 1 <= tb_next[c] \/ tb_limit[c] <= a
    BY DEF IInv, Safe, EntriesSafe, Written, Outside, HasBlock
  <2>2. a \in Nat /\ tb_next[c] \in Nat /\ tb_limit[c] \in Nat
    BY NumbersType, SizeFacts DEF IInv, Numbers, Addr
  <2> QED
    BY <2>1, <2>2
<1>2. \A a \in Addr : mem'[a] = "entry" <=> mem[a] = "entry"
  BY <1>1 DEF do_flush
<1> QED
  BY <1>2 DEF Entries

LEMMA PromiseStep ==
    ASSUME IInv, IInv', [Next]_vars
    PROVE  [Promise!Next]_(Promise!vars)
<1>1. UNCHANGED <<HeldBy, Entries>> => UNCHANGED Promise!vars
  BY DEF Promise!vars, HeldBy, Entries
<1>t. TypeOK
  BY DEF IInv
<1>2. ASSUME NEW x \in Ctx, NEW c \in CPU, Insert(x, c) PROVE UNCHANGED Promise!vars
  BY <1>t, <1>1, <1>2, StutterStep DEF Insert, Goto, TypeOK, Same
<1>3. ASSUME NEW x \in Ctx, ReadLimit(x) PROVE UNCHANGED Promise!vars
  BY <1>t, <1>1, <1>3, StutterStep DEF ReadLimit, Goto, TypeOK, Same
<1>4. ASSUME NEW x \in Ctx, AddNext(x) PROVE UNCHANGED Promise!vars
  BY <1>t, <1>1, <1>4, StutterStep DEF AddNext, Goto, TypeOK, Same
<1>5. ASSUME NEW x \in Ctx, RecheckKeep(x) PROVE Promise!Grant(x)
  BY <1>t, <1>5, GrantStep DEF RecheckKeep, Granted, Goto, TypeOK, Same, Entries
<1>6. ASSUME NEW x \in Ctx, RecheckSlow(x) PROVE UNCHANGED Promise!vars
  BY <1>t, <1>1, <1>6, StutterStep DEF RecheckSlow, Goto, TypeOK, Same
<1>7. ASSUME NEW x \in Ctx, RecheckRetry(x) PROVE UNCHANGED Promise!vars
  BY <1>t, <1>1, <1>7, StutterStep DEF RecheckRetry, Goto, TypeOK, Same
<1>8. ASSUME NEW x \in Ctx, SlowBadLen(x) PROVE UNCHANGED Promise!vars
  BY <1>t, <1>1, <1>8, StutterStep
     DEF SlowBadLen, Refused, Return, Goto, TypeOK, Same
<1>9. ASSUME NEW x \in Ctx, SlowFits(x) PROVE Promise!Grant(x)
  BY <1>t, <1>9, GrantStep DEF SlowFits, Granted, Goto, TypeOK, Same, Entries
<1>10. ASSUME NEW x \in Ctx, SlowNewBlock(x) PROVE Promise!Grant(x)
  <2>1. /\ pc[x] # "store" /\ pc'[x] = "store"
        /\ \A y \in Ctx \ {x} : Same(y)
    BY <1>t, <1>10 DEF SlowNewBlock, Granted, Goto, TypeOK, Same
  <2> QED
    BY <2>1, <1>10, NewBlockKeepsEntries, GrantStep
<1>11. ASSUME NEW x \in Ctx, SlowFull(x) PROVE UNCHANGED Promise!vars
  BY <1>t, <1>1, <1>11, StutterStep
     DEF SlowFull, Refused, Return, Goto, TypeOK, Same
<1>12. ASSUME NEW x \in Ctx, Store(x) PROVE Promise!Commit(x)
  BY <1>12, CommitStep
<1>13. ASSUME do_trace_on \/ do_trace_off \/ UNCHANGED vars
       PROVE  UNCHANGED Promise!vars
  <2>1. UNCHANGED <<mem, pc, len, tsd, myclaim>>
    BY <1>13 DEF do_trace_on, do_trace_off, vars, ctxVars
  <2> QED
    BY <1>1, <2>1 DEF HeldBy, Entries, Held, claimSize
<1>14. ASSUME Quiet, do_flush PROVE UNCHANGED Promise!vars
  <2>1. UNCHANGED <<pc, len, tsd, myclaim>>
    BY <1>14 DEF do_flush, ctxVars
  <2> QED
    BY <1>1, <1>14, <2>1, FlushKeepsEntries DEF HeldBy, Held, claimSize
<1>15. ASSUME NEW f \in ResetFlags, Quiet, do_reset(f) PROVE Promise!Clear
  <2>1. /\ \A x \in Ctx : pc[x] = "idle"
        /\ UNCHANGED <<pc, len, tsd, myclaim>>
        /\ \A a \in Addr : mem'[a] = "stale"
    BY <1>15 DEF do_reset, Quiet, ctxVars
  <2>2. /\ \A x \in Ctx : HeldBy[x] = {}
        /\ HeldBy' = HeldBy /\ Entries' = {}
    BY <2>1 DEF HeldBy, Held, Entries, claimSize
  <2> QED
    BY <2>2 DEF Promise!Clear, HeldBy, Entries
<1> QED
  BY <1>2, <1>3, <1>4, <1>5, <1>6, <1>7, <1>8, <1>9, <1>10, <1>11, <1>12,
     <1>13, <1>14, <1>15 DEF Next, Step, Control, Promise!Next

LEMMA PromiseInit == Init => Promise!Init
  BY DEF Init, Promise!Init, Held

(* Without wraparound the lockless allocator implements ClaimSpace: each   *)
(* entry is granted words that nobody holds and that contain no stored     *)
(* entry, and a stored entry stays until the next reset.                   *)
THEOREM Implementation ==
    ASSUME NoWrapping
    PROVE  Spec => ImplementsClaimSpace
<1>1. Init => IInv
  BY InitIInv
<1>2. IInv /\ [Next]_vars => IInv'
  BY NextIInv
<1>3. IInv /\ IInv' /\ [Next]_vars => [Promise!Next]_(Promise!vars)
  BY PromiseStep
<1>4. Init => Promise!Init
  BY PromiseInit
<1> QED
  BY <1>1, <1>2, <1>3, <1>4, PTL DEF Spec, ImplementsClaimSpace, Promise!Spec

(***************************************************************************)
(* The first block, with wraparound or without                             *)
(***************************************************************************)

First == HIGH - BLK
HasFirst(c) == tb_limit[c] = HIGH

(* Before the first block is handed out there is no claim and no entry.    *)
Untouched ==
    traceblock_next = HIGH =>
        /\ \A c \in CPU : tb_limit[c] = NULL
        /\ \A x \in Ctx : pc[x] \notin {"add", "recheck", "store"}
        /\ \A a \in Addr : mem[a] = "stale"

(* The first block is above all others.                                    *)
FirstAbove ==
    /\ traceblock_next = HIGH \/ traceblock_next <= First
    /\ \A c \in CPU : HasFirst(c) \/ tb_limit[c] <= First

(* At most one CPU ever has it, and tb->next is behind its front.          *)
OneHasFirst ==
    \A c \in CPU : HasFirst(c) =>
        /\ First + HEADFIRST <= tb_next[c]
        /\ \A d \in CPU : HasFirst(d) => c = d

(* A claim made in it, judged or not, is behind its front and before       *)
(* tb->next.                                                               *)
FirstClaims ==
    \A x \in Ctx :
        /\ pc[x] = "recheck" /\ HasFirst(cpu[x]) =>
              /\ First + HEADFIRST <= myclaim[x]
              /\ myclaim[x] + claimSize(x) <= tb_next[cpu[x]]
        /\ pc[x] = "store" =>
              \/ myclaim[x] + claimSize(x) <= First
              \/ /\ First + HEADFIRST <= myclaim[x]
                 /\ \A c \in CPU : HasFirst(c) =>
                       myclaim[x] + claimSize(x) <= tb_next[c]

(* So is what has been stored in it.                                       *)
FirstWords ==
    \A a \in Addr : First <= a =>
        /\ mem[a] = "head" => a < First + HEADFIRST
        /\ mem[a] = "entry" => \A c \in CPU : HasFirst(c) => a < tb_next[c]

FirstInv == Untouched /\ FirstAbove /\ OneHasFirst /\ FirstClaims /\ FirstWords

LEMMA InitFirst == Init => FirstInv
  BY SizeFacts DEF Init, FirstInv, Untouched, FirstAbove, OneHasFirst,
     FirstClaims, FirstWords, First, HasFirst, NULL

(* A step that leaves the blocks and the stored entries alone, and after   *)
(* which x has no claim, keeps this.                                       *)
LEMMA NoClaimFirst ==
    ASSUME FirstInv, NEW x \in Ctx,
           UNCHANGED <<traceblock_next, tb_next, tb_limit, mem>>,
           \A y \in Ctx \ {x} : Same(y),
           pc'[x] \notin {"recheck", "store"},
           pc'[x] = "add" => cpu'[x] \in CPU /\ tb_limit[cpu'[x]] # NULL
    PROVE  FirstInv'
<1>1. \A y \in Ctx : pc'[y] \in {"recheck", "store"} =>
         y # x /\ Same(y) /\ claimSize(y)' = claimSize(y)
  BY DEF Same, claimSize
<1>2. Untouched'
  BY <1>1 DEF FirstInv, Untouched, Same
<1>3. FirstAbove' /\ OneHasFirst' /\ FirstWords'
  BY DEF FirstInv, FirstAbove, OneHasFirst, FirstWords, HasFirst, First, HIGH
<1>4. FirstClaims'
  BY <1>1 DEF FirstInv, FirstClaims, HasFirst, Same, First
<1> QED
  BY <1>2, <1>3, <1>4 DEF FirstInv

LEMMA AddNextFirst ==
    ASSUME FirstInv, Numbers, TypeOK, NEW x \in Ctx, AddNext(x)
    PROVE  FirstInv'
<1> DEFINE c == cpu[x]
           n == claimSize(x)
<1>1. c \in CPU /\ pc[x] = "add"
  BY DEF AddNext, TypeOK
<1>2. /\ UNCHANGED <<traceblock_next, tb_limit, mem, cpu, len, tsd>>
      /\ \A y \in Ctx \ {x} : Same(y)
      /\ pc'[x] = "recheck" /\ myclaim'[x] = tb_next[c]
      /\ tb_next'[c] = tb_next[c] + n
      /\ \A d \in CPU \ {c} : tb_next'[d] = tb_next[d]
  BY <1>1 DEF AddNext, Goto, Same, TypeOK
<1>3. \A y \in Ctx : claimSize(y)' = claimSize(y)
  BY <1>2 DEF claimSize
<1>4. \A d \in CPU : tb_next[d] \in Nat /\ tb_next'[d] \in Nat /\ tb_next[d] <= tb_next'[d]
  BY <1>1, <1>2 DEF Numbers
<1>n. n = claimSize(x) /\ n \in Nat
  BY DEF Numbers
<1>5. Untouched' /\ FirstAbove'
  BY <1>1, <1>2 DEF FirstInv, Untouched, FirstAbove, HasFirst
<1>6. OneHasFirst'
  BY <1>2, <1>4, SizeFacts DEF FirstInv, OneHasFirst, HasFirst, First
<1>7. FirstClaims'
  <2> SUFFICES ASSUME NEW y \in Ctx
               PROVE  /\ pc'[y] = "recheck" /\ HasFirst(cpu[y]) =>
                            /\ First + HEADFIRST <= myclaim'[y]
                            /\ myclaim'[y] + claimSize(y) <= tb_next'[cpu[y]]
                      /\ pc'[y] = "store" =>
                            \/ myclaim'[y] + claimSize(y) <= First
                            \/ /\ First + HEADFIRST <= myclaim'[y]
                               /\ \A d \in CPU : HasFirst(d) =>
                                     myclaim'[y] + claimSize(y) <= tb_next'[d]
    BY <1>2, <1>3 DEF FirstClaims, HasFirst
  <2>1. CASE y = x
    BY <2>1, <1>1, <1>2, <1>4 DEF FirstInv, OneHasFirst
  <2>2. CASE y # x
    <3>1. Same(y) /\ myclaim[y] \in Nat /\ claimSize(y) \in Nat
      BY <2>2, <1>2 DEF Numbers
    <3>2. pc[y] = "recheck" => cpu[y] \in CPU
      BY DEF TypeOK
    <3> HIDE DEF c, n
    <3> QED
      BY <3>1, <3>2, <1>4 DEF FirstInv, FirstClaims, Same
  <2> QED
    BY <2>1, <2>2
<1>8. FirstWords'
  BY <1>2, <1>4, SizeFacts DEF FirstInv, FirstWords, HasFirst, Addr
<1> QED
  BY <1>5, <1>6, <1>7, <1>8 DEF FirstInv

LEMMA RecheckKeepFirst ==
    ASSUME FirstInv, Numbers, TypeOK, NEW x \in Ctx, RecheckKeep(x)
    PROVE  FirstInv'
<1> DEFINE c == cpu[x]
           n == claimSize(x)
<1>1. c \in CPU /\ pc[x] = "recheck"
  BY DEF RecheckKeep, TypeOK
<1>2. /\ UNCHANGED <<traceblock_next, tb_next, tb_limit, mem, cpu, len, tsd>>
      /\ \A y \in Ctx \ {x} : Same(y)
      /\ pc'[x] = "store" /\ myclaim'[x] = myclaim[x]
      /\ myclaim[x] + n < tb_limit[c]
  BY <1>1 DEF RecheckKeep, Granted, Goto, Same, TypeOK, ClaimFits
<1>3. \A y \in Ctx : claimSize(y)' = claimSize(y) /\ myclaim'[y] = myclaim[y]
  BY <1>2 DEF claimSize, Same
<1>4. Untouched' /\ FirstAbove' /\ OneHasFirst' /\ FirstWords'
  BY <1>1, <1>2 DEF FirstInv, Untouched, FirstAbove, OneHasFirst, FirstWords, HasFirst
<1>5. FirstClaims'
  <2>1. \/ myclaim[x] + n <= First
        \/ /\ First + HEADFIRST <= myclaim[x]
           /\ \A d \in CPU : HasFirst(d) => myclaim[x] + n <= tb_next[d]
    BY <1>1, <1>2, SizeFacts DEF FirstInv, FirstAbove, OneHasFirst, FirstClaims,
       Numbers, First
  <2> HIDE DEF c
  <2> QED
    BY <2>1, <1>2, <1>3 DEF FirstInv, FirstClaims, HasFirst, Same
<1> QED
  BY <1>4, <1>5 DEF FirstInv

(* A claim taken under the lock, in the block the CPU has.                 *)
LEMMA SlowFitsFirst ==
    ASSUME FirstInv, Numbers, TypeOK, NEW x \in Ctx, SlowFits(x)
    PROVE  FirstInv'
<1> DEFINE c == cpu[x]
           n == claimSize(x)
<1>1. c \in CPU /\ pc[x] = "slow" /\ tb_limit[c] # NULL
  BY DEF SlowFits, TypeOK, NeedsBlock
<1>2. /\ UNCHANGED <<traceblock_next, tb_limit, mem, cpu, len, tsd>>
      /\ \A y \in Ctx \ {x} : Same(y)
      /\ pc'[x] = "store" /\ myclaim'[x] = tb_next[c]
      /\ tb_next'[c] = tb_next[c] + n
      /\ \A d \in CPU \ {c} : tb_next'[d] = tb_next[d]
      /\ tb_next[c] + n < tb_limit[c]
  BY <1>1 DEF SlowFits, NeedsBlock, Granted, Goto, Same, TypeOK, ClaimFits
<1>3. \A y \in Ctx : claimSize(y)' = claimSize(y)
  BY <1>2 DEF claimSize
<1>4. \A d \in CPU : tb_next[d] \in Nat /\ tb_next'[d] \in Nat /\ tb_next[d] <= tb_next'[d]
  BY <1>1, <1>2 DEF Numbers
<1>n. n = claimSize(x) /\ n \in Nat
  BY DEF Numbers
<1>5. Untouched' /\ FirstAbove'
  BY <1>1, <1>2 DEF FirstInv, Untouched, FirstAbove, HasFirst
<1>6. OneHasFirst'
  BY <1>2, <1>4, SizeFacts DEF FirstInv, OneHasFirst, HasFirst, First
<1>7. FirstClaims'
  <2> SUFFICES ASSUME NEW y \in Ctx
               PROVE  /\ pc'[y] = "recheck" /\ HasFirst(cpu[y]) =>
                            /\ First + HEADFIRST <= myclaim'[y]
                            /\ myclaim'[y] + claimSize(y) <= tb_next'[cpu[y]]
                      /\ pc'[y] = "store" =>
                            \/ myclaim'[y] + claimSize(y) <= First
                            \/ /\ First + HEADFIRST <= myclaim'[y]
                               /\ \A d \in CPU : HasFirst(d) =>
                                     myclaim'[y] + claimSize(y) <= tb_next'[d]
    BY <1>2, <1>3 DEF FirstClaims, HasFirst
  <2>1. CASE y = x
    BY <2>1, <1>1, <1>2, <1>4, SizeFacts DEF FirstInv, OneHasFirst, FirstAbove, First, Numbers
  <2>2. CASE y # x
    <3>1. Same(y) /\ myclaim[y] \in Nat /\ claimSize(y) \in Nat
      BY <2>2, <1>2 DEF Numbers
    <3>2. pc[y] = "recheck" => cpu[y] \in CPU
      BY DEF TypeOK
    <3> HIDE DEF c, n
    <3> QED
      BY <3>1, <3>2, <1>4 DEF FirstInv, FirstClaims, Same
  <2> QED
    BY <2>1, <2>2
<1>8. FirstWords'
  BY <1>2, <1>4, SizeFacts DEF FirstInv, FirstWords, HasFirst, Addr
<1> QED
  BY <1>5, <1>6, <1>7, <1>8 DEF FirstInv

(* Setting up a block leaves the first one alone unless it is the first    *)
(* one: a trace wraps to traceblock[1].                                    *)
LEMMA NewBlockBelow ==
    ASSUME FirstInv, TypeOK, NEW x \in Ctx, SlowNewBlock(x)
    PROVE  /\ traceblock_next = HIGH => /\ NextBlock = First
                                        /\ HeadSize = HEADFIRST
           /\ traceblock_next # HIGH =>
                 /\ NextBlock + BLK <= First
                 /\ \A a \in Addr : First <= a => mem'[a] = mem[a]
<1>1. traceblock_limit \in TRACEBASE .. (HIGH - 2 * BLK) /\ traceblock_next \in Int
  BY DEF TypeOK
<1>2. traceblock_next = HIGH => NextBlock = First /\ HeadSize = HEADFIRST
  BY <1>1, SizeFacts DEF NextBlock, NoBlockLeft, First, HeadSize
<1>3. traceblock_next # HIGH => NextBlock + BLK <= First
  BY <1>1, SizeFacts DEF NextBlock, NoBlockLeft, First, FirstInv, FirstAbove
<1>4. NextBlock \in Int
  BY NextBlockType, SizeFacts
<1>5. mem' = InitBlock(NextBlock)
  BY DEF SlowNewBlock
<1>6. ASSUME traceblock_next # HIGH, NEW a \in Addr, First <= a
      PROVE  mem'[a] = mem[a]
  <2>1. a >= NextBlock + BLK
    BY <1>3, <1>4, <1>6, SizeFacts DEF Addr, First
  <2> QED
    BY <1>5, <2>1 DEF InitBlock
<1> QED
  BY <1>2, <1>3, <1>6

LEMMA SlowNewBlockFirst ==
    ASSUME FirstInv, Numbers, TypeOK, NEW x \in Ctx, SlowNewBlock(x)
    PROVE  FirstInv'
<1> DEFINE c == cpu[x]
           n == claimSize(x)
           b == NextBlock
           h == HeadSize
<1>1. c \in CPU /\ pc[x] = "slow"
  BY DEF SlowNewBlock, TypeOK
<1>2. /\ UNCHANGED <<cpu, len, tsd>>
      /\ \A y \in Ctx \ {x} : Same(y)
      /\ pc'[x] = "store" /\ myclaim'[x] = b + h
      /\ tb_next'[c] = b + h + n /\ tb_limit'[c] = b + BLK
      /\ \A d \in CPU \ {c} : tb_next'[d] = tb_next[d] /\ tb_limit'[d] = tb_limit[d]
      /\ traceblock_next' = b
      /\ mem' = InitBlock(b)
      /\ n <= MAXLEN
  BY <1>1, ClaimSizeType, SizeFacts
     DEF SlowNewBlock, Granted, Goto, Same, TypeOK, is_bad_len
<1>3. \A y \in Ctx : claimSize(y)' = claimSize(y)
  BY <1>2 DEF claimSize
<1>4. /\ b \in Nat /\ h \in Nat /\ n \in Nat /\ 1 <= n /\ 1 <= h /\ h + MAXLEN < BLK
      /\ b <= First
  BY NextBlockType, ClaimSizeType, SizeFacts DEF First
<1>5. traceblock_next = HIGH => b = First /\ h = HEADFIRST
  BY NewBlockBelow
<1>6. traceblock_next # HIGH =>
        b + BLK <= First /\ \A a \in Addr : First <= a => mem'[a] = mem[a]
  BY NewBlockBelow
<1>n. n = claimSize(x)
  OBVIOUS
<1>b. First \in Nat /\ First + BLK = HIGH /\ HIGH \in Nat /\ HIGH # NULL
  BY SizeFacts DEF First, NULL
<1> HIDE DEF b, h, n
<1>7. Untouched'
  BY <1>2, <1>4, <1>b, SizeFacts DEF Untouched
<1>8. FirstAbove'
  <2>1. tb_limit'[c] = HIGH \/ tb_limit'[c] <= First
    BY <1>2, <1>4, <1>5, <1>6, <1>b, SizeFacts
  <2> QED
    BY <2>1, <1>2, <1>4 DEF FirstInv, FirstAbove, HasFirst
<1>9. tb_limit'[c] = HIGH =>
        /\ traceblock_next = HIGH /\ b = First /\ h = HEADFIRST
        /\ \A d \in CPU : tb_limit[d] = NULL
        /\ \A y \in Ctx : pc[y] \notin {"add", "recheck", "store"}
        /\ \A a \in Addr : mem[a] = "stale"
  BY <1>2, <1>4, <1>5, <1>6, <1>b, SizeFacts DEF FirstInv, Untouched
<1>10. \A d \in CPU : tb_limit'[d] = HIGH => d = c \/ (tb_limit'[c] # HIGH /\ tb_limit[d] = HIGH)
  <2> SUFFICES ASSUME NEW d \in CPU, tb_limit'[d] = HIGH, d # c
               PROVE  tb_limit'[c] # HIGH /\ tb_limit[d] = HIGH
    OBVIOUS
  <2>1. tb_limit[d] = HIGH
    BY <1>2
  <2> QED
    BY <2>1, <1>9, <1>b
<1>11. OneHasFirst'
  BY <1>1, <1>2, <1>4, <1>9, <1>10, <1>b, SizeFacts DEF FirstInv, OneHasFirst, HasFirst
<1>12. FirstClaims'
  <2> SUFFICES ASSUME NEW y \in Ctx
               PROVE  /\ pc'[y] = "recheck" /\ tb_limit'[cpu[y]] = HIGH =>
                            /\ First + HEADFIRST <= myclaim'[y]
                            /\ myclaim'[y] + claimSize(y) <= tb_next'[cpu[y]]
                      /\ pc'[y] = "store" =>
                            \/ myclaim'[y] + claimSize(y) <= First
                            \/ /\ First + HEADFIRST <= myclaim'[y]
                               /\ \A d \in CPU : tb_limit'[d] = HIGH =>
                                     myclaim'[y] + claimSize(y) <= tb_next'[d]
    BY <1>2, <1>3 DEF FirstClaims, HasFirst
  <2>1. CASE y = x
    <3>1. CASE traceblock_next = HIGH
      <4>1. tb_limit'[c] = HIGH /\ myclaim'[x] = First + HEADFIRST /\ pc'[x] = "store"
        BY <3>1, <1>2, <1>5, <1>b
      <4>2. \A d \in CPU : tb_limit'[d] = HIGH => d = c
        BY <4>1, <1>10
      <4>3. myclaim'[x] + n <= tb_next'[c]
        BY <1>2, <1>4
      <4> QED
        BY <4>1, <4>2, <4>3, <2>1, <1>4, <1>b, <1>n, SizeFacts
    <3>2. CASE traceblock_next # HIGH
      <4>1. b + h + n <= First
        BY <3>2, <1>2, <1>4, <1>6, <1>b, SizeFacts
      <4> QED
        BY <4>1, <2>1, <1>2, <1>n
    <3> QED
      BY <3>1, <3>2
  <2>2. CASE y # x
    <3>1. Same(y) /\ myclaim[y] \in Nat /\ claimSize(y) \in Nat
      BY <2>2, <1>2 DEF Numbers
    <3>2. pc[y] = "recheck" => cpu[y] \in CPU
      BY DEF TypeOK
    <3>3. CASE tb_limit'[c] = HIGH
      BY <3>3, <3>1, <1>9 DEF Same
    <3>4. CASE tb_limit'[c] # HIGH
      <4>1. \A d \in CPU : tb_limit'[d] = HIGH => d # c /\ tb_limit[d] = HIGH /\ tb_next'[d] = tb_next[d]
        BY <3>4, <1>2, <1>10
      <4> QED
        BY <4>1, <3>1, <3>2 DEF FirstInv, FirstClaims, HasFirst, Same
    <3> QED
      BY <3>3, <3>4
  <2> QED
    BY <2>1, <2>2
<1>13. FirstWords'
  <2> SUFFICES ASSUME NEW a \in Addr, First <= a
               PROVE  /\ mem'[a] = "head" => a < First + HEADFIRST
                      /\ mem'[a] = "entry" =>
                           \A d \in CPU : tb_limit'[d] = HIGH => a < tb_next'[d]
    BY DEF FirstWords, HasFirst
  <2>0. a \in Nat /\ a < HIGH
    BY SizeFacts DEF Addr
  <2>1. CASE traceblock_next = HIGH
    <3>1. mem[a] = "stale"
      BY <2>1 DEF FirstInv, Untouched
    <3>2. mem'[a] = IF a < b \/ a >= b + BLK THEN mem[a]
                    ELSE IF a < b + h THEN "head"
                    ELSE IF a >= b + BLK - TAIL THEN "nop" ELSE "stale"
      BY <1>2 DEF InitBlock, h
    <3> QED
      BY <2>0, <2>1, <3>1, <3>2, <1>4, <1>5, <1>b
  <2>2. CASE traceblock_next # HIGH
    <3>1. b + BLK <= First /\ mem'[a] = mem[a]
      BY <2>2, <1>6
    <3>2. tb_limit'[c] # HIGH
      BY <3>1, <1>2, <1>4, <1>b, SizeFacts
    <3>3. \A d \in CPU : tb_limit'[d] = HIGH => d # c /\ tb_limit[d] = HIGH /\ tb_next'[d] = tb_next[d]
      BY <3>2, <1>2, <1>10
    <3> QED
      BY <3>1, <3>3 DEF FirstInv, FirstWords, HasFirst
  <2> QED
    BY <2>1, <2>2
<1> QED
  BY <1>7, <1>8, <1>11, <1>12, <1>13 DEF FirstInv

LEMMA SlowFullFirst ==
    ASSUME FirstInv, Numbers, TypeOK, NEW x \in Ctx, SlowFull(x)
    PROVE  FirstInv'
<1> DEFINE c == cpu[x]
           n == claimSize(x)
<1>1. c \in CPU /\ pc[x] = "slow"
  BY DEF SlowFull, TypeOK
<1>2. /\ UNCHANGED <<tb_limit, mem>> /\ traceblock_next' = traceblock_next - BLK
      /\ \A y \in Ctx \ {x} : Same(y)
      /\ pc'[x] = "idle"
      /\ tb_next'[c] = tb_next[c] + n
      /\ \A d \in CPU \ {c} : tb_next'[d] = tb_next[d]
  BY <1>1 DEF SlowFull, Refused, Return, Goto, Same, TypeOK
<1>3. \A y \in Ctx \ {x} : claimSize(y)' = claimSize(y)
  BY <1>2 DEF claimSize, Same
<1>4. \A d \in CPU : tb_next[d] \in Nat /\ tb_next'[d] \in Nat /\ tb_next[d] <= tb_next'[d]
  BY <1>1, <1>2 DEF Numbers
<1>5. traceblock_next \in Int /\ traceblock_next <= HIGH
  BY DEF TypeOK
<1>6. Untouched' /\ FirstAbove'
  BY <1>2, <1>5, SizeFacts DEF FirstInv, Untouched, FirstAbove, HasFirst, First
<1>7. OneHasFirst'
  BY <1>2, <1>4, SizeFacts DEF FirstInv, OneHasFirst, HasFirst, First
<1>8. FirstClaims'
  <2> SUFFICES ASSUME NEW y \in Ctx \ {x}
               PROVE  /\ pc'[y] = "recheck" /\ HasFirst(cpu'[y]) =>
                            /\ First + HEADFIRST <= myclaim'[y]
                            /\ myclaim'[y] + claimSize(y) <= tb_next'[cpu'[y]]
                      /\ pc'[y] = "store" =>
                            \/ myclaim'[y] + claimSize(y) <= First
                            \/ /\ First + HEADFIRST <= myclaim'[y]
                               /\ \A d \in CPU : HasFirst(d) =>
                                     myclaim'[y] + claimSize(y) <= tb_next'[d]
    BY <1>2, <1>3 DEF FirstClaims, HasFirst
  <2>1. Same(y) /\ myclaim[y] \in Nat /\ claimSize(y) \in Nat
    BY <1>2 DEF Numbers
  <2>2. pc[y] = "recheck" => cpu[y] \in CPU
    BY DEF TypeOK
  <2> HIDE DEF c, n
  <2> QED
    BY <2>1, <2>2, <1>4 DEF FirstInv, FirstClaims, Same
<1>9. FirstWords'
  BY <1>2, <1>4, SizeFacts DEF FirstInv, FirstWords, HasFirst, Addr
<1> QED
  BY <1>6, <1>7, <1>8, <1>9 DEF FirstInv

LEMMA StoreFirst ==
    ASSUME FirstInv, Numbers, TypeOK, NEW x \in Ctx, Store(x)
    PROVE  /\ FirstInv'
           /\ \A a \in Addr : First <= a /\ mem[a] \in {"head", "entry"} =>
                 mem'[a] = mem[a]
<1> DEFINE lo == myclaim[x]
           n == claimSize(x)
<1>1. /\ UNCHANGED <<traceblock_next, tb_next, tb_limit>>
      /\ \A y \in Ctx \ {x} : Same(y)
      /\ pc'[x] = "idle" /\ pc[x] = "store"
      /\ \A a \in Addr : mem'[a] = IF lo <= a /\ a <= lo + n - 1 THEN "entry" ELSE mem[a]
  <2>1. \A a \in Addr : a \in Words(lo, n) <=> lo <= a /\ a <= lo + n - 1
    BY SizeFacts DEF Words, Addr, Numbers
  <2> QED
    BY <2>1 DEF Store, Return, Goto, Same, TypeOK
<1>2. /\ lo \in Nat /\ n \in Nat
      /\ \/ lo + n <= First
         \/ /\ First + HEADFIRST <= lo
            /\ \A d \in CPU : HasFirst(d) => lo + n <= tb_next[d]
  BY <1>1 DEF FirstInv, FirstClaims, Numbers
<1>3. \A y \in Ctx : pc'[y] \in {"recheck", "store", "add"} =>
         y # x /\ Same(y) /\ claimSize(y)' = claimSize(y)
  BY <1>1 DEF Same, claimSize
<1> HIDE DEF lo, n
<1>4. Untouched'
  BY <1>1 DEF FirstInv, Untouched
<1>5. FirstAbove' /\ OneHasFirst'
  BY <1>1 DEF FirstInv, FirstAbove, OneHasFirst, HasFirst
<1>6. FirstClaims'
  BY <1>1, <1>3 DEF FirstInv, FirstClaims, HasFirst, Same
<1>7. ASSUME NEW a \in Addr, First <= a
      PROVE  /\ mem'[a] = "head" => a < First + HEADFIRST
             /\ mem'[a] = "entry" => \A d \in CPU : HasFirst(d) => a < tb_next[d]
             /\ mem[a] \in {"head", "entry"} => mem'[a] = mem[a]
  <2>1. a \in Nat
    BY SizeFacts DEF Addr
  <2>2. /\ mem[a] = "head" => a < First + HEADFIRST
        /\ mem[a] = "entry" => \A d \in CPU : HasFirst(d) => a < tb_next[d]
    BY <1>7 DEF FirstInv, FirstWords
  <2>3. CASE lo <= a /\ a <= lo + n - 1
    <3>1. mem'[a] = "entry" /\ First + HEADFIRST <= a /\ mem[a] # "head"
      BY <2>1, <2>2, <2>3, <1>1, <1>2, <1>7, SizeFacts DEF First
    <3>2. \A d \in CPU : HasFirst(d) => a < tb_next[d]
      BY <2>1, <2>3, <1>2, <1>7, SizeFacts DEF First, Numbers
    <3> QED
      BY <3>1, <3>2
  <2>4. CASE ~(lo <= a /\ a <= lo + n - 1)
    BY <2>2, <2>4, <1>1
  <2> QED
    BY <2>3, <2>4
<1>8. FirstWords'
  BY <1>1, <1>7 DEF FirstWords, HasFirst
<1> QED
  BY <1>4, <1>5, <1>6, <1>7, <1>8 DEF FirstInv

LEMMA FlushFirst ==
    ASSUME FirstInv, Numbers, TypeOK, Quiet, do_flush
    PROVE  /\ FirstInv'
           /\ \A a \in Addr : First <= a /\ mem[a] \in {"head", "entry"} =>
                 mem'[a] = mem[a]
<1>1. /\ UNCHANGED <<traceblock_next, tb_limit, pc>>
      /\ \A c \in CPU : tb_next'[c] = tb_next[c] \/ tb_next'[c] = tb_limit[c]
      /\ \A a \in Addr : mem'[a] = IF \E c \in CPU : a \in Unfilled(c) THEN "nop" ELSE mem[a]
  BY DEF do_flush, ctxVars
<1>2. \A x \in Ctx : pc'[x] = "idle"
  BY <1>1 DEF Quiet
<1>3. HIGH \in Nat /\ First + HEADFIRST <= HIGH /\ First \in Nat
  BY SizeFacts DEF First
<1>4. Untouched'
  <2> SUFFICES ASSUME traceblock_next = HIGH, NEW a \in Addr PROVE mem'[a] = "stale"
    BY <1>1, <1>2 DEF FirstInv, Untouched
  <2>1. mem[a] = "stale" /\ \A c \in CPU : tb_limit[c] = NULL
    BY DEF FirstInv, Untouched
  <2> QED
    BY <2>1, <1>1 DEF Unfilled
<1>5. FirstAbove' /\ FirstClaims'
  BY <1>1, <1>2 DEF FirstInv, FirstAbove, FirstClaims, HasFirst
<1>6. OneHasFirst'
  BY <1>1, <1>3 DEF FirstInv, OneHasFirst, HasFirst
<1>7. ASSUME NEW a \in Addr, First <= a, mem[a] \in {"head", "entry"}
      PROVE  mem'[a] = mem[a]
  <2> SUFFICES ASSUME NEW c \in CPU, a \in Unfilled(c) PROVE FALSE
    BY <1>1
  <2>1. /\ a \in Nat /\ a < HIGH /\ tb_next[c] <= a /\ a < tb_limit[c]
        /\ tb_limit[c] \in Nat /\ tb_next[c] \in Nat
    BY SizeFacts DEF Unfilled, Addr, Numbers
  <2>2. HasFirst(c)
    BY <2>1, <1>3, <1>7 DEF FirstInv, FirstAbove
  <2>3. First + HEADFIRST <= tb_next[c]
    BY <2>2 DEF FirstInv, OneHasFirst
  <2> QED
    BY <2>1, <2>2, <2>3, <1>3, <1>7, SizeFacts DEF FirstInv, FirstWords
<1>8. FirstWords'
  <2> SUFFICES ASSUME NEW a \in Addr, First <= a
               PROVE  /\ mem'[a] = "head" => a < First + HEADFIRST
                      /\ mem'[a] = "entry" =>
                           \A d \in CPU : tb_limit[d] = HIGH => a < tb_next'[d]
    BY <1>1 DEF FirstWords, HasFirst
  <2>1. mem'[a] \in {"head", "entry"} => mem[a] = mem'[a]
    BY <1>1
  <2>2. a \in Nat /\ a < HIGH
    BY SizeFacts DEF Addr
  <2> QED
    BY <2>1, <2>2, <1>1 DEF FirstInv, FirstWords, HasFirst
<1> QED
  BY <1>4, <1>5, <1>6, <1>7, <1>8 DEF FirstInv

(* Every step keeps the invariant and, unless it is a reset, the words     *)
(* written to the first block.                                             *)
LEMMA NextFirst ==
    ASSUME TypeOK, FirstInv, [Next]_vars
    PROVE  /\ FirstInv'
           /\ traceblock_next' # HIGH =>
                 \A a \in Words(HIGH - BLK, BLK) :
                    mem[a] \in {"head", "entry"} => mem'[a] = mem[a]
<1> DEFINE Keeps == traceblock_next' # HIGH =>
                      \A a \in Addr : First <= a /\ mem[a] \in {"head", "entry"} =>
                         mem'[a] = mem[a]
<1>1. Numbers
  BY NumbersType
<1>2. Keeps => (traceblock_next' # HIGH =>
                 \A a \in Words(HIGH - BLK, BLK) :
                    mem[a] \in {"head", "entry"} => mem'[a] = mem[a])
  BY SizeFacts DEF Words, Addr, First
<1>3. ASSUME NEW x \in Ctx, NEW c \in CPU, Insert(x, c) PROVE FirstInv' /\ Keeps
  BY <1>3, NoClaimFirst DEF Insert, Goto, TypeOK, Same
<1>4. ASSUME NEW x \in Ctx, ReadLimit(x) PROVE FirstInv' /\ Keeps
  BY <1>4, NoClaimFirst DEF ReadLimit, Goto, TypeOK, Same
<1>5. ASSUME NEW x \in Ctx, AddNext(x) PROVE FirstInv' /\ Keeps
  BY <1>1, <1>5, AddNextFirst DEF AddNext
<1>6. ASSUME NEW x \in Ctx, RecheckKeep(x) PROVE FirstInv' /\ Keeps
  BY <1>1, <1>6, RecheckKeepFirst DEF RecheckKeep
<1>7. ASSUME NEW x \in Ctx, RecheckSlow(x) PROVE FirstInv' /\ Keeps
  BY <1>7, NoClaimFirst DEF RecheckSlow, Goto, TypeOK, Same
<1>8. ASSUME NEW x \in Ctx, RecheckRetry(x) PROVE FirstInv' /\ Keeps
  BY <1>8, NoClaimFirst DEF RecheckRetry, Goto, TypeOK, Same
<1>9. ASSUME NEW x \in Ctx, SlowBadLen(x) PROVE FirstInv' /\ Keeps
  BY <1>9, NoClaimFirst DEF SlowBadLen, Refused, Return, Goto, TypeOK, Same
<1>10. ASSUME NEW x \in Ctx, SlowFits(x) PROVE FirstInv' /\ Keeps
  BY <1>1, <1>10, SlowFitsFirst DEF SlowFits
<1>11. ASSUME NEW x \in Ctx, SlowNewBlock(x) PROVE FirstInv' /\ Keeps
  <2>1. FirstInv'
    BY <1>1, <1>11, SlowNewBlockFirst
  <2>2. CASE traceblock_next = HIGH
    BY <2>1, <2>2 DEF FirstInv, Untouched
  <2>3. CASE traceblock_next # HIGH
    BY <2>1, <2>3, <1>11, NewBlockBelow
  <2> QED
    BY <2>1, <2>2, <2>3
<1>12. ASSUME NEW x \in Ctx, SlowFull(x) PROVE FirstInv' /\ Keeps
  BY <1>1, <1>12, SlowFullFirst DEF SlowFull
<1>13. ASSUME NEW x \in Ctx, Store(x) PROVE FirstInv' /\ Keeps
  BY <1>1, <1>13, StoreFirst
<1>14. ASSUME Quiet, do_flush PROVE FirstInv' /\ Keeps
  BY <1>1, <1>14, FlushFirst
<1>15. ASSUME NEW f \in ResetFlags, Quiet, do_reset(f) PROVE FirstInv' /\ Keeps
  <2>1. /\ traceblock_next' = HIGH
        /\ \A c \in CPU : tb_limit'[c] = NULL
        /\ \A x \in Ctx : pc'[x] = "idle"
        /\ \A a \in Addr : mem'[a] = "stale"
    BY <1>15 DEF do_reset, Quiet, ctxVars
  <2>2. NULL # HIGH /\ NULL <= First
    BY SizeFacts DEF NULL, First
  <2> QED
    BY <2>1, <2>2 DEF FirstInv, Untouched, FirstAbove, OneHasFirst, FirstClaims,
       FirstWords, HasFirst
<1>16. ASSUME UNCHANGED <<traceblock_next, tb_next, tb_limit, mem, pc, cpu, len, tsd,
                          myclaim>>
       PROVE  FirstInv' /\ Keeps
  BY <1>16 DEF FirstInv, Untouched, FirstAbove, OneHasFirst, FirstClaims,
     FirstWords, HasFirst, claimSize
<1>17. ASSUME do_trace_on \/ do_trace_off \/ UNCHANGED vars PROVE FirstInv' /\ Keeps
  BY <1>16, <1>17 DEF do_trace_on, do_trace_off, ctxVars, vars
<1>18. FirstInv' /\ Keeps
  BY <1>3, <1>4, <1>5, <1>6, <1>7, <1>8, <1>9, <1>10, <1>11, <1>12, <1>13,
     <1>14, <1>15, <1>17 DEF Next, Step, Control
<1> QED
  BY <1>2, <1>18

(* With wraparound or without, on any number of CPUs, no step but a reset  *)
(* changes a word written to the very first block of a trace, which holds  *)
(* the start time pair and the names.                                      *)
THEOREM FirstBlockSurvivesHolds == Spec => FirstBlockSurvives
<1>1. Init => TypeOK /\ FirstInv
  BY InitType, InitFirst
<1>2. TypeOK /\ FirstInv /\ [Next]_vars => TypeOK' /\ FirstInv'
  BY NextType, NextFirst
<1>3. TypeOK /\ FirstInv /\ [Next]_vars =>
        [traceblock_next' # HIGH =>
           \A a \in Words(HIGH - BLK, BLK) :
              mem[a] \in {"head", "entry"} => mem'[a] = mem[a]]_vars
  BY NextFirst
<1> QED
  BY <1>1, <1>2, <1>3, PTL DEF Spec, FirstBlockSurvives

(***************************************************************************)
(* Blocks: entries do not cross them, and reading out reads all of them    *)
(***************************************************************************)

(* The words of a block have one base.                                     *)
LEMMA Quotient ==
    ASSUME NEW n \in Nat, 0 < n, NEW q \in Int, NEW r \in Int, 0 <= r, r < n
    PROVE  (q * n + r) % n = r /\ (q * n + r) \div n = q
  BY SMTT(30)

LEMMA Division ==
    ASSUME NEW n \in Nat, 0 < n, NEW a \in Int
    PROVE  /\ a \div n \in Int /\ a % n \in Int /\ 0 <= a % n /\ a % n < n
           /\ a = (a \div n) * n + (a % n)
  BY SMTT(30)

LEMMA BaseBelow ==
    ASSUME NEW b \in Int, b % BLK = 0, NEW a \in Int, b <= a, a < b + BLK
    PROVE  BlockBase(a) = b
<1>1. BLK \in Nat /\ 0 < BLK
  BY SizeFacts
<1>2. PICK q \in Int : b = q * BLK
  BY <1>1, Division
<1>3. a - b \in Int /\ 0 <= a - b /\ a - b < BLK /\ a = q * BLK + (a - b)
  BY <1>1, <1>2
<1>4. a % BLK = a - b
  BY <1>1, <1>3, Quotient
<1> QED
  BY <1>4 DEF BlockBase

LEMMA BaseFacts ==
    ASSUME NEW a \in Int
    PROVE  /\ BlockBase(a) \in Int /\ BlockBase(a) % BLK = 0
           /\ BlockBase(a) <= a /\ a < BlockBase(a) + BLK
<1>1. BLK \in Nat /\ 0 < BLK
  BY SizeFacts
<1>2. a % BLK \in Int /\ 0 <= a % BLK /\ a % BLK < BLK
  BY <1>1, Division
<1>3. PICK q \in Int : a = q * BLK + (a % BLK)
  BY <1>1, Division
<1>4. q * BLK \in Int /\ BlockBase(a) = q * BLK + 0
  BY <1>1, <1>2, <1>3 DEF BlockBase
<1>5. (q * BLK + 0) % BLK = 0
  BY <1>1, Quotient
<1> QED
  BY <1>1, <1>2, <1>4, <1>5 DEF BlockBase

LEMMA AlignedNext ==
    ASSUME NEW b \in Int, b % BLK = 0
    PROVE  (b - BLK) % BLK = 0 /\ (b + BLK) % BLK = 0
<1>1. BLK \in Nat /\ 0 < BLK
  BY SizeFacts
<1>2. PICK q \in Int : b = q * BLK
  BY <1>1, Division
<1>3. b - BLK = (q - 1) * BLK + 0 /\ b + BLK = (q + 1) * BLK + 0
  BY <1>1, <1>2
<1> QED
  BY <1>1, <1>3, Quotient

LEMMA AlignedGap ==
    ASSUME NEW b \in Int, b % BLK = 0, NEW d \in Int, d % BLK = 0, b < d
    PROVE  b + BLK <= d
<1> SUFFICES ASSUME d < b + BLK PROVE FALSE
  BY SizeFacts
<1>1. BlockBase(d) = b
  BY BaseBelow
<1>2. BlockBase(d) = d
  BY BaseBelow, SizeFacts
<1> QED
  BY <1>1, <1>2

LEMMA AlignedBuffer ==
    /\ TRACEBASE % BLK = 0 /\ HIGH % BLK = 0 /\ (TRACEBASE + IPCWORDS) % BLK = 0
<1>1. BLK \in Nat /\ 0 < BLK /\ NBLOCKS \in Nat /\ IPCWORDS \in Nat
  BY SizeFacts, SizesAssumption
<1>2. TRACEBASE = 1 * BLK + 0 /\ HIGH = (1 + NBLOCKS) * BLK + 0
  BY <1>1 DEF TRACEBASE, HIGH
<1>3. PICK q \in Int : IPCWORDS = q * BLK
  BY <1>1, Division, IpcAssumption
<1>4. TRACEBASE + IPCWORDS = (1 + q) * BLK + 0
  BY <1>1, <1>3 DEF TRACEBASE
<1> QED
  BY <1>1, <1>2, <1>4, Quotient

LEMMA BaseInBuffer ==
    ASSUME NEW a \in Addr
    PROVE  BlockBase(a) \in Addr
<1>1. a \in Int /\ TRACEBASE <= a /\ a < HIGH /\ TRACEBASE \in Int
  BY SizeFacts DEF Addr
<1>2. ~ (BlockBase(a) < TRACEBASE)
  <2> DEFINE b == BlockBase(a)
  <2>1. b \in Int /\ b % BLK = 0 /\ a < b + BLK
    BY <1>1, BaseFacts
  <2> HIDE DEF b
  <2>2. b < TRACEBASE => b + BLK <= TRACEBASE
    BY <1>1, <2>1, AlignedBuffer, AlignedGap
  <2>3. ~ (b < TRACEBASE)
    BY <1>1, <2>1, <2>2, SizeFacts
  <2> QED
    BY <2>3 DEF b
<1> QED
  BY <1>1, <1>2, BaseFacts, SizeFacts DEF Addr

(* Blocks start at multiples of their size, and a CPU's block has a front. *)
BlocksWhole ==
    /\ traceblock_next % BLK = 0 /\ traceblock_limit % BLK = 0
    /\ did_wrap_around = FALSE
    /\ \A c \in CPU : HasBlock(c) =>
          tb_limit[c] % BLK = 0 /\ mem[tb_limit[c] - BLK] = "head"

(* A granted claim is in one block, which has a front.                     *)
GrantsInside ==
    \A x \in Ctx : pc[x] = "store" =>
        /\ BlockBase(myclaim[x]) = BlockBase(myclaim[x] + claimSize(x) - 1)
        /\ mem[BlockBase(myclaim[x])] = "head"

BlockInv == BlocksWhole /\ GrantsInside

LEMMA InitBlocks == Init => BlockInv
<1> SUFFICES ASSUME Init PROVE BlockInv
  OBVIOUS
<1>1. traceblock_limit % BLK = 0 /\ traceblock_limit \in TRACEBASE .. (HIGH - 2 * BLK)
  BY AlignedBuffer, LimitForType DEF LimitFor, Init
<1> QED
  BY <1>1, AlignedBuffer DEF BlockInv, BlocksWhole, GrantsInside, HasBlock, Init

(* A step that leaves the blocks alone, writes no front and overwrites     *)
(* none, and grants no claim.                                              *)
LEMMA NoGrantBlocks ==
    ASSUME IInv, BlockInv,
           UNCHANGED <<traceblock_next, traceblock_limit, did_wrap_around, tb_limit>>,
           \A a \in Addr : mem'[a] = "head" <=> mem[a] = "head",
           \A y \in Ctx : pc'[y] = "store" => Same(y)
    PROVE  BlockInv'
<1>1. BlocksWhole'
  <2> SUFFICES ASSUME NEW c \in CPU, HasBlock(c) PROVE mem'[tb_limit[c] - BLK] = "head"
    BY DEF BlockInv, BlocksWhole, HasBlock
  <2>1. tb_limit[c] \in (TRACEBASE + BLK) .. HIGH
    BY DEF IInv, TypeOK, HasBlock
  <2>2. tb_limit[c] - BLK \in Addr
    BY <2>1, SizeFacts DEF Addr
  <2> QED
    BY <2>2 DEF BlockInv, BlocksWhole
<1>2. GrantsInside'
  <2> SUFFICES ASSUME NEW y \in Ctx, pc'[y] = "store"
               PROVE  /\ BlockBase(myclaim[y]) = BlockBase(myclaim[y] + claimSize(y) - 1)
                      /\ mem'[BlockBase(myclaim[y])] = "head"
                      /\ myclaim'[y] = myclaim[y] /\ claimSize(y)' = claimSize(y)
    BY DEF GrantsInside, BlockBase
  <2>1. Same(y) /\ claimSize(y)' = claimSize(y) /\ pc[y] = "store"
    BY DEF Same, claimSize
  <2>2. myclaim[y] \in Addr
    BY <2>1, NumbersType, SizeFacts DEF IInv, Safe, GrantsTaken, Addr, Numbers
  <2>3. BlockBase(myclaim[y]) \in Addr
    BY <2>2, BaseInBuffer
  <2> QED
    BY <2>1, <2>3 DEF BlockInv, GrantsInside, Same
<1> QED
  BY <1>1, <1>2 DEF BlockInv

(* A claim that lies in the block of CPU c is in one block with a front.   *)
LEMMA InsideBlock ==
    ASSUME IInv, BlockInv, NEW c \in CPU, HasBlock(c), NEW lo \in Nat, NEW n \in Nat,
           1 <= n, tb_limit[c] - BLK <= lo, lo + n <= tb_limit[c]
    PROVE  /\ BlockBase(lo) = tb_limit[c] - BLK
           /\ BlockBase(lo + n - 1) = tb_limit[c] - BLK
           /\ mem[BlockBase(lo)] = "head"
<1>1. tb_limit[c] \in Int
  BY SizeFacts DEF IInv, TypeOK, NULL
<1>2. tb_limit[c] - BLK \in Int /\ (tb_limit[c] - BLK) % BLK = 0
  BY <1>1, AlignedNext, SizeFacts DEF BlockInv, BlocksWhole
<1>3. lo + n - 1 \in Int /\ lo < tb_limit[c] - BLK + BLK
      /\ lo + n - 1 < tb_limit[c] - BLK + BLK /\ tb_limit[c] - BLK <= lo + n - 1
  BY <1>1, SizeFacts
<1>4. BlockBase(lo) = tb_limit[c] - BLK /\ BlockBase(lo + n - 1) = tb_limit[c] - BLK
  BY <1>2, <1>3, BaseBelow
<1> QED
  BY <1>4 DEF BlockInv, BlocksWhole

(* Granting a claim in the block the CPU has.                              *)
LEMMA GrantBlocks ==
    ASSUME IInv, BlockInv, NEW x \in Ctx, NEW c \in CPU, HasBlock(c),
           UNCHANGED <<traceblock_next, traceblock_limit, did_wrap_around, tb_limit, mem>>,
           \A y \in Ctx \ {x} : Same(y),
           claimSize(x)' = claimSize(x), myclaim'[x] \in Nat,
           tb_limit[c] - BLK <= myclaim'[x], myclaim'[x] + claimSize(x) <= tb_limit[c]
    PROVE  BlockInv'
<1>1. BlocksWhole'
  BY DEF BlockInv, BlocksWhole, HasBlock
<1>2. claimSize(x) \in Nat /\ 1 <= claimSize(x)
  BY NumbersType DEF IInv, Numbers
<1>3. /\ BlockBase(myclaim'[x]) = BlockBase(myclaim'[x] + claimSize(x) - 1)
      /\ mem[BlockBase(myclaim'[x])] = "head"
  BY <1>2, InsideBlock
<1>4. ASSUME NEW y \in Ctx, pc'[y] = "store"
      PROVE  /\ BlockBase(myclaim'[y]) = BlockBase(myclaim'[y] + claimSize(y)' - 1)
             /\ mem'[BlockBase(myclaim'[y])] = "head"
  <2>1. CASE y = x
    BY <2>1, <1>3
  <2>2. CASE y # x
    BY <2>2, <1>4 DEF BlockInv, GrantsInside, Same, claimSize
  <2> QED
    BY <2>1, <2>2
<1>5. GrantsInside'
  BY <1>4 DEF GrantsInside, BlockBase
<1> QED
  BY <1>1, <1>5 DEF BlockInv

(* Storing and flushing leave the fronts of blocks as they are.            *)
LEMMA StoreKeepsFronts ==
    ASSUME IInv, NEW x \in Ctx, Store(x), NEW a \in Addr
    PROVE  mem'[a] = "head" <=> mem[a] = "head"
<1>1. /\ pc[x] = "store"
      /\ mem'[a] = IF a \in Words(myclaim[x], claimSize(x)) THEN "entry" ELSE mem[a]
  BY DEF Store
<1>2. mem[a] = "head" => Apart(a, 1, myclaim[x], claimSize(x))
  BY <1>1 DEF IInv, Safe, EntriesSafe, Written, Owns
<1>3. a \in Nat /\ myclaim[x] \in Nat /\ claimSize(x) \in Nat
  BY NumbersType, SizeFacts DEF IInv, Numbers, Addr
<1>4. mem[a] = "head" => a \notin Words(myclaim[x], claimSize(x))
  BY <1>2, <1>3 DEF Apart, Words
<1> QED
  BY <1>1, <1>4

LEMMA FlushKeepsFronts ==
    ASSUME IInv, Quiet, do_flush, NEW a \in Addr
    PROVE  mem'[a] = "head" <=> mem[a] = "head"
<1>1. mem'[a] = IF \E c \in CPU : a \in Unfilled(c) THEN "nop" ELSE mem[a]
  BY DEF do_flush
<1>2. ASSUME mem[a] = "head", NEW c \in CPU, a \in Unfilled(c) PROVE FALSE
  <2>1. Outside(a, 1, c)
    BY <1>2 DEF IInv, Safe, EntriesSafe, Written
  <2>2. a \in Nat /\ tb_next[c] \in Nat /\ tb_limit[c] \in Nat
    BY NumbersType, SizeFacts DEF IInv, Numbers, Addr
  <2> QED
    BY <1>2, <2>1, <2>2 DEF Outside, HasBlock, Unfilled
<1> QED
  BY <1>1, <1>2

(* A new block is the one below the lowest and gets a front.               *)
LEMMA NewBlockBlocks ==
    ASSUME IInv, BlockInv, NEW x \in Ctx, SlowNewBlock(x)
    PROVE  BlockInv'
<1> DEFINE c == cpu[x]
           n == claimSize(x)
           b == traceblock_next - BLK
           h == HeadSize
<1>1. c \in CPU /\ pc[x] = "slow" /\ ~ NoBlockLeft /\ NextBlock = b
      /\ ~ is_bad_len(n)
  BY DEF SlowNewBlock, IInv, TypeOK, do_wrap, NextBlock
<1>2. /\ UNCHANGED <<cpu, len, tsd, traceblock_limit>>
      /\ did_wrap_around' = FALSE
      /\ traceblock_next' = b
      /\ mem' = InitBlock(b)
      /\ \A y \in Ctx \ {x} : Same(y)
      /\ myclaim'[x] = b + h
      /\ tb_limit'[c] = b + BLK
      /\ \A d \in CPU \ {c} : tb_limit'[d] = tb_limit[d]
  <2>1. did_wrap_around' = FALSE
    BY <1>1 DEF SlowNewBlock, BlockInv, BlocksWhole
  <2> QED
    BY <1>1, <2>1 DEF SlowNewBlock, Granted, Goto, Same, IInv, TypeOK
<1>3. \A y \in Ctx : claimSize(y)' = claimSize(y)
  BY <1>2 DEF claimSize
<1>4. /\ b \in Int /\ TRACEBASE <= b /\ b + BLK <= HIGH
      /\ h \in Nat /\ 1 <= h /\ n \in Nat /\ 1 <= n /\ h + n < BLK
      /\ traceblock_next \in Int /\ traceblock_next = b + BLK
      /\ traceblock_limit \in Int /\ traceblock_limit <= b
  <2>1. n \in Nat /\ 1 <= n /\ n <= MAXLEN
    BY <1>1, ClaimSizeType, SizeFacts DEF IInv, is_bad_len
  <2>2. traceblock_next \in Int /\ traceblock_limit \in Int /\ traceblock_limit <= b
    BY <1>1, SizeFacts DEF IInv, TypeOK, NoBlockLeft
  <2>3. b \in TRACEBASE .. (HIGH - BLK) /\ h \in Nat /\ 1 <= h /\ h + MAXLEN < BLK
    BY <1>1, NextBlockType DEF IInv
  <2> HIDE DEF n, h
  <2> QED
    BY <2>1, <2>2, <2>3, SizeFacts
<1>5. b % BLK = 0
  BY <1>4, AlignedNext DEF BlockInv, BlocksWhole
<1>6. \A a \in Addr : a \in Int /\
        mem'[a] = IF a < b \/ a >= b + BLK THEN mem[a]
                  ELSE IF a < b + h THEN "head"
                  ELSE IF a >= b + BLK - TAIL THEN "nop" ELSE "stale"
  BY <1>2, SizeFacts DEF InitBlock, Addr
<1>n. n = claimSize(x)
  OBVIOUS
<1>7. b \in Addr
  BY <1>4, SizeFacts DEF Addr
<1> HIDE DEF b, h, n
<1>8. ASSUME NEW a \in Addr, a % BLK = 0
      PROVE  mem'[a] = "head" <=> (a = b \/ mem[a] = "head") /\ b <= a
  <2>1. a \in Int
    BY <1>6
  <2>2. CASE a < b
    <3>1. mem'[a] = mem[a]
      BY <2>2, <1>6
    <3>2. mem[a] = "head" => traceblock_next <= a
      BY DEF IInv, Safe, EntriesSafe, Written
    <3> QED
      BY <2>1, <2>2, <3>1, <3>2, <1>4, SizeFacts
  <2>3. CASE a >= b + BLK
    BY <2>1, <2>3, <1>4, <1>6, SizeFacts
  <2>4. CASE b <= a /\ a < b + BLK
    <3>1. a = b
      <4>1. BlockBase(a) = b
        BY <2>1, <2>4, <1>4, <1>5, BaseBelow
      <4>2. BlockBase(a) = a
        BY <2>1, <1>8, BaseBelow, SizeFacts
      <4> QED
        BY <4>1, <4>2
    <3> QED
      BY <3>1, <2>1, <2>4, <1>4, <1>6
  <2> QED
    BY <2>1, <2>2, <2>3, <2>4, <1>4, SizeFacts
<1>10. BlocksWhole'
  <2> SUFFICES ASSUME NEW d \in CPU, tb_limit'[d] # NULL
               PROVE  tb_limit'[d] % BLK = 0 /\ mem'[tb_limit'[d] - BLK] = "head"
    BY <1>2, <1>5 DEF BlockInv, BlocksWhole, HasBlock
  <2>1. CASE d = c
    <3>1. tb_limit'[d] = b + BLK /\ tb_limit'[d] - BLK = b
      BY <2>1, <1>2, <1>4, SizeFacts
    <3> QED
      BY <3>1, <1>4, <1>5, <1>7, <1>8, AlignedNext
  <2>2. CASE d # c
    <3>1. tb_limit'[d] = tb_limit[d] /\ HasBlock(d)
      BY <2>2, <1>2 DEF HasBlock
    <3>2. /\ tb_limit[d] \in (TRACEBASE + BLK) .. HIGH /\ tb_limit[d] % BLK = 0
          /\ traceblock_next <= tb_limit[d] - BLK /\ mem[tb_limit[d] - BLK] = "head"
      BY <3>1 DEF IInv, TypeOK, Safe, BlocksTaken, HasBlock, BlockInv, BlocksWhole
    <3>3. tb_limit[d] - BLK \in Addr /\ tb_limit[d] - BLK >= b + BLK
      BY <3>2, <1>4, SizeFacts DEF Addr
    <3> QED
      BY <3>1, <3>2, <3>3, <1>6
  <2> QED
    BY <2>1, <2>2
<1>11. GrantsInside'
  <2> SUFFICES ASSUME NEW y \in Ctx, pc'[y] = "store"
               PROVE  /\ BlockBase(myclaim'[y]) = BlockBase(myclaim'[y] + claimSize(y) - 1)
                      /\ mem'[BlockBase(myclaim'[y])] = "head"
    BY <1>3 DEF GrantsInside, BlockBase
  <2>1. CASE y = x
    <3>1. BlockBase(b + h) = b /\ BlockBase(b + h + n - 1) = b
      <4>1. b + h \in Int /\ b <= b + h /\ b + h < b + BLK
        BY <1>4, SizeFacts
      <4>2. b + h + n - 1 \in Int /\ b <= b + h + n - 1 /\ b + h + n - 1 < b + BLK
        BY <1>4, SizeFacts
      <4> QED
        BY <4>1, <4>2, <1>4, <1>5, BaseBelow
    <3> QED
      BY <2>1, <3>1, <1>2, <1>5, <1>7, <1>8, <1>4, <1>n
  <2>2. CASE y # x
    <3>1. Same(y) /\ pc[y] = "store"
      BY <2>2, <1>2 DEF Same
    <3>2. /\ myclaim[y] \in Addr /\ traceblock_next <= myclaim[y]
      BY <3>1, NumbersType, SizeFacts DEF IInv, Safe, GrantsTaken, Addr, Numbers
    <3>3. /\ BlockBase(myclaim[y]) \in Addr /\ mem[BlockBase(myclaim[y])] = "head"
          /\ BlockBase(myclaim[y]) % BLK = 0 /\ BlockBase(myclaim[y]) \in Int
      BY <3>1, <3>2, <1>6, BaseInBuffer, BaseFacts DEF BlockInv, GrantsInside
    <3>4. traceblock_next <= BlockBase(myclaim[y])
      BY <3>3 DEF IInv, Safe, EntriesSafe, Written
    <3>5. mem'[BlockBase(myclaim[y])] = "head"
      BY <3>3, <3>4, <1>4, <1>6
    <3> QED
      BY <3>1, <3>5 DEF BlockInv, GrantsInside, Same
  <2> QED
    BY <2>1, <2>2
<1> QED
  BY <1>10, <1>11 DEF BlockInv

(* With no block left traceblock_next runs past traceblock_limit.          *)
LEMMA FullBlocks ==
    ASSUME IInv, BlockInv, NEW x \in Ctx, SlowFull(x)
    PROVE  BlockInv'
<1>1. /\ NoBlockLeft /\ traceblock_next' = traceblock_next - BLK
      /\ UNCHANGED <<did_wrap_around, traceblock_limit, tb_limit, mem>>
      /\ \A y \in Ctx : pc'[y] = "store" => Same(y)
  BY DEF SlowFull, Refused, Return, Goto, Same, IInv, TypeOK
<1>2. traceblock_next \in Int /\ traceblock_limit \in Int
  BY SizeFacts DEF IInv, TypeOK
<1>5. traceblock_next' % BLK = 0
  BY <1>1, <1>2, AlignedNext DEF BlockInv, BlocksWhole
<1>6. GrantsInside'
  BY <1>1 DEF BlockInv, GrantsInside, Same, claimSize
<1> QED
  BY <1>1, <1>5, <1>6 DEF BlockInv, BlocksWhole, HasBlock

LEMMA NextBlocks ==
    ASSUME IInv, BlockInv, [Next]_vars
    PROVE  BlockInv'
<1>0. TypeOK /\ Numbers
  BY NumbersType DEF IInv
<1>1. ASSUME NEW x \in Ctx, NEW c \in CPU, Insert(x, c) PROVE BlockInv'
  BY <1>0, <1>1, NoGrantBlocks DEF Insert, Goto, TypeOK, Same
<1>2. ASSUME NEW x \in Ctx, ReadLimit(x) PROVE BlockInv'
  BY <1>0, <1>2, NoGrantBlocks DEF ReadLimit, Goto, TypeOK, Same
<1>3. ASSUME NEW x \in Ctx, AddNext(x) PROVE BlockInv'
  BY <1>0, <1>3, NoGrantBlocks DEF AddNext, Goto, TypeOK, Same
<1>4. ASSUME NEW x \in Ctx, RecheckSlow(x) \/ RecheckRetry(x) PROVE BlockInv'
  BY <1>0, <1>4, NoGrantBlocks DEF RecheckSlow, RecheckRetry, Goto, TypeOK, Same
<1>5. ASSUME NEW x \in Ctx, SlowBadLen(x) PROVE BlockInv'
  BY <1>0, <1>5, NoGrantBlocks DEF SlowBadLen, Refused, Return, Goto, TypeOK, Same
<1>6. ASSUME NEW x \in Ctx, RecheckKeep(x) PROVE BlockInv'
  <2>1. cpu[x] \in CPU /\ HasBlock(cpu[x]) /\ pc[x] = "recheck"
    BY <1>0, <1>6 DEF RecheckKeep, TypeOK, IInv, Safe, FreshClaims
  <2>2. /\ UNCHANGED <<traceblock_next, traceblock_limit, did_wrap_around, tb_limit,
                       mem, cpu, len, tsd>>
        /\ \A y \in Ctx \ {x} : Same(y)
        /\ myclaim'[x] = myclaim[x]
        /\ myclaim[x] + claimSize(x) < tb_limit[cpu[x]]
    BY <1>0, <1>6, <2>1 DEF RecheckKeep, Granted, Goto, Same, TypeOK, ClaimFits
  <2>3. tb_limit[cpu[x]] - BLK < myclaim[x]
    BY <2>1 DEF IInv, Safe, FreshClaims
  <2>4. /\ tb_limit[cpu[x]] - BLK <= myclaim'[x]
        /\ myclaim'[x] + claimSize(x) <= tb_limit[cpu[x]]
        /\ myclaim'[x] \in Nat /\ claimSize(x)' = claimSize(x)
    BY <1>0, <2>1, <2>2, <2>3, SizeFacts DEF Numbers, claimSize
  <2> QED
    BY <2>1, <2>2, <2>4, GrantBlocks
<1>7. ASSUME NEW x \in Ctx, SlowFits(x) PROVE BlockInv'
  <2>1. cpu[x] \in CPU /\ HasBlock(cpu[x])
    BY <1>0, <1>7 DEF SlowFits, TypeOK, NeedsBlock, HasBlock
  <2>2. /\ UNCHANGED <<traceblock_next, traceblock_limit, did_wrap_around, tb_limit,
                       mem, cpu, len, tsd>>
        /\ \A y \in Ctx \ {x} : Same(y)
        /\ myclaim'[x] = tb_next[cpu[x]]
        /\ tb_next[cpu[x]] + claimSize(x) < tb_limit[cpu[x]]
    BY <1>0, <1>7, <2>1 DEF SlowFits, NeedsBlock, Granted, Goto, Same, TypeOK, ClaimFits
  <2>3. tb_limit[cpu[x]] - BLK < tb_next[cpu[x]]
    BY <2>1 DEF IInv, Safe, BlocksTaken
  <2>4. /\ tb_limit[cpu[x]] - BLK <= myclaim'[x]
        /\ myclaim'[x] + claimSize(x) <= tb_limit[cpu[x]]
        /\ myclaim'[x] \in Nat /\ claimSize(x)' = claimSize(x)
    BY <1>0, <2>1, <2>2, <2>3, SizeFacts DEF Numbers, claimSize
  <2> QED
    BY <2>1, <2>2, <2>4, GrantBlocks
<1>8. ASSUME NEW x \in Ctx, SlowNewBlock(x) PROVE BlockInv'
  BY <1>8, NewBlockBlocks
<1>9. ASSUME NEW x \in Ctx, SlowFull(x) PROVE BlockInv'
  BY <1>9, FullBlocks
<1>10. ASSUME NEW x \in Ctx, Store(x) PROVE BlockInv'
  <2>1. /\ UNCHANGED <<traceblock_next, traceblock_limit, did_wrap_around, tb_limit>>
        /\ \A y \in Ctx : pc'[y] = "store" => Same(y)
    BY <1>0, <1>10 DEF Store, Return, Goto, Same, TypeOK
  <2> QED
    BY <1>10, <2>1, StoreKeepsFronts, NoGrantBlocks
<1>11. ASSUME Quiet, do_flush PROVE BlockInv'
  <2>1. /\ UNCHANGED <<traceblock_next, traceblock_limit, did_wrap_around, tb_limit>>
        /\ \A y \in Ctx : pc'[y] = "store" => Same(y)
    BY <1>11 DEF do_flush, ctxVars, Same
  <2> QED
    BY <1>11, <2>1, FlushKeepsFronts, NoGrantBlocks
<1>12. ASSUME NEW f \in ResetFlags, Quiet, do_reset(f) PROVE BlockInv'
  <2>1. /\ traceblock_next' = HIGH /\ did_wrap_around' = FALSE
        /\ traceblock_limit' = LimitFor(f)
        /\ \A c \in CPU : tb_limit'[c] = NULL
        /\ \A x \in Ctx : pc'[x] = "idle"
        /\ \A a \in Addr : mem'[a] = "stale"
    BY <1>12 DEF do_reset, Quiet, ctxVars
  <2>2. /\ traceblock_limit' % BLK = 0
        /\ traceblock_limit' \in TRACEBASE .. (HIGH - 2 * BLK)
    BY <2>1, AlignedBuffer, LimitForType DEF LimitFor
  <2> QED
    BY <2>1, <2>2, AlignedBuffer DEF BlockInv, BlocksWhole, GrantsInside, HasBlock
<1>13. ASSUME do_trace_on \/ do_trace_off \/ UNCHANGED vars PROVE BlockInv'
  BY <1>13, NoGrantBlocks DEF do_trace_on, do_trace_off, ctxVars, vars, Same
<1> QED
  BY <1>1, <1>2, <1>3, <1>4, <1>5, <1>6, <1>7, <1>8, <1>9, <1>10, <1>11, <1>12,
     <1>13 DEF Next, Step, Control

(* The blocks as the invariants see them have the claims inside.           *)
LEMMA BlockInvEntries == IInv /\ BlockInv => EntriesInsideBlock
<1> SUFFICES ASSUME IInv, BlockInv, NEW x \in Ctx, pc[x] = "store",
                    NEW a \in Held(x)
             PROVE  mem[a] # "head"
  BY DEF EntriesInsideBlock, BlockInv, GrantsInside
<1>1. myclaim[x] \in Nat /\ claimSize(x) \in Nat /\ 1 <= claimSize(x)
  BY NumbersType DEF IInv, Numbers
<1>2. a \in Int /\ myclaim[x] <= a /\ a < myclaim[x] + claimSize(x)
  BY <1>1 DEF Held, Words
<1>3. a \in Addr
  BY <1>1, <1>2, SizeFacts DEF IInv, Safe, GrantsTaken, Addr
<1>4. Written(a) => Apart(a, 1, myclaim[x], claimSize(x))
  BY <1>3 DEF IInv, Safe, EntriesSafe, Owns
<1> QED
  BY <1>1, <1>2, <1>4 DEF Apart, Written

(* In a trace that does not wrap around every claim lies in one block,     *)
(* which has been set up, behind the words at its front.                   *)
THEOREM EntriesInsideBlockHolds ==
    ASSUME NoWrapping
    PROVE  Spec => []EntriesInsideBlock
<1>1. Init => IInv /\ BlockInv
  BY InitIInv, InitBlocks
<1>2. IInv /\ BlockInv /\ [Next]_vars => IInv' /\ BlockInv'
  BY NextIInv, NextBlocks
<1>3. IInv /\ BlockInv => EntriesInsideBlock
  BY BlockInvEntries
<1> QED
  BY <1>1, <1>2, <1>3, PTL DEF Spec

(* Reading words 0 to HIGH - low - 1 reads the addresses from low up.      *)
LEMMA ReadFrom ==
    ASSUME NEW low \in Int, low % BLK = 0, TRACEBASE <= low, low <= HIGH
    PROVE  {get_word(s) : s \in 0 .. (HIGH - low - 1)} = {a \in Addr : low <= BlockBase(a)}
<1>0. /\ BLK \in Nat /\ 0 < BLK /\ HIGH \in Int /\ HIGH % BLK = 0
      /\ TRACEBASE \in Int
  BY SizeFacts, AlignedBuffer
<1>1. PICK m \in Int : HIGH - low = m * BLK
  <2>1. PICK p \in Int : HIGH = p * BLK
    BY <1>0, Division
  <2>2. PICK q \in Int : low = q * BLK
    BY <1>0, Division
  <2>3. HIGH - low = (p - q) * BLK
    BY <2>1, <2>2, <1>0
  <2> QED
    BY <2>3
<1>2. ASSUME NEW s \in 0 .. (HIGH - low - 1)
      PROVE  get_word(s) \in Addr /\ low <= BlockBase(get_word(s))
  <2>1. /\ s \in Int /\ s \div BLK \in Int /\ s % BLK \in Int
        /\ 0 <= s % BLK /\ s % BLK < BLK /\ s = (s \div BLK) * BLK + (s % BLK)
    BY <1>0, <1>2, Division
  <2> DEFINE q == s \div BLK
             r == s % BLK
             b == HIGH - (q + 1) * BLK
  <2>2. q \in Int /\ r \in Int /\ 0 <= r /\ r < BLK /\ s = q * BLK + r
    BY <2>1
  <2>3. get_word(s) = b + r
    BY DEF get_word
  <2> HIDE DEF q, r
  <2>4. q * BLK < m * BLK
    BY <2>2, <1>0, <1>1, <1>2
  <2>5. q + 1 <= m
    BY <2>4, <2>2, <1>0, SMTT(30)
  <2>6. (q + 1) * BLK <= m * BLK
    BY <2>5, <2>2, <1>0, SMTT(30)
  <2>7. b \in Int /\ low <= b
    BY <2>2, <2>6, <1>0, <1>1
  <2>8. b % BLK = 0
    <3>1. PICK p \in Int : HIGH = p * BLK
      BY <1>0, Division
    <3>2. b = (p - q - 1) * BLK + 0
      BY <3>1, <2>2, <1>0
    <3> QED
      BY <3>2, <2>2, <1>0, Quotient
  <2>9. 0 <= q
    BY <2>2, <1>0, <1>2, SMTT(30)
  <2>10. b + BLK <= HIGH
    BY <2>2, <2>9, <1>0, SMTT(30)
  <2> HIDE DEF b
  <2>11. BlockBase(b + r) = b
    <3>1. b + r \in Int /\ b <= b + r /\ b + r < b + BLK
      BY <2>2, <2>7, <1>0
    <3> QED
      BY <3>1, <2>7, <2>8, BaseBelow
  <2> QED
    BY <2>2, <2>3, <2>7, <2>10, <2>11, <1>0 DEF Addr
<1>3. ASSUME NEW a \in Addr, low <= BlockBase(a)
      PROVE  \E s \in 0 .. (HIGH - low - 1) : get_word(s) = a
  <2> DEFINE b == BlockBase(a)
             s == HIGH - BLK - b + (a - b)
  <2>1. a \in Int /\ a < HIGH /\ TRACEBASE <= a
    BY <1>0 DEF Addr
  <2>2. b \in Int /\ b % BLK = 0 /\ b <= a /\ a < b + BLK /\ low <= b
    BY <2>1, <1>3, BaseFacts
  <2> HIDE DEF b
  <2>3. b < HIGH => b + BLK <= HIGH
    BY <2>2, <1>0, AlignedGap
  <2>4. b + BLK <= HIGH
    BY <2>1, <2>2, <2>3, <1>0
  <2>5. PICK k \in Int : HIGH - b = k * BLK
    <3>1. PICK p \in Int : HIGH = p * BLK
      BY <1>0, Division
    <3>2. PICK q \in Int : b = q * BLK
      <4>1. b \div BLK \in Int /\ b = (b \div BLK) * BLK + (b % BLK)
        BY <2>2, <1>0, Division
      <4>2. b = (b \div BLK) * BLK
        BY <4>1, <2>2, <1>0
      <4> QED
        BY <4>1, <4>2
    <3>3. HIGH - b = (p - q) * BLK
      BY <3>1, <3>2, <1>0
    <3> QED
      BY <3>3
  <2>6. s = (k - 1) * BLK + (a - b)
    BY <2>1, <2>2, <2>5, <1>0
  <2>7. s \div BLK = k - 1 /\ s % BLK = a - b
    <3>1. a - b \in Int /\ 0 <= a - b /\ a - b < BLK /\ k - 1 \in Int
      BY <2>1, <2>2, <2>5, <1>0
    <3> QED
      BY <2>6, <3>1, <1>0, Quotient
  <2>8. get_word(s) = HIGH - (k - 1 + 1) * BLK + (a - b)
    BY <2>7 DEF get_word
  <2>9. get_word(s) = a
    BY <2>8, <2>5, <2>1, <2>2, <1>0
  <2>10. s \in 0 .. (HIGH - low - 1)
    BY <2>1, <2>2, <2>4, <1>0
  <2> QED
    BY <2>9, <2>10
<1> QED
  BY <1>2, <1>3

(* The lowest block that was handed out.                                   *)
Lowest == IF did_wrap_around \/ traceblock_next < traceblock_limit
          THEN traceblock_limit ELSE traceblock_next

(* The first words of the blocks handed out, and of no others, have been   *)
(* written: nobody claims a word below them, whatever he takes a claim     *)
(* for that he made before the trace wrapped around.                       *)
FrontsAbove ==
    \A a \in Addr : a % BLK = 0 => (mem[a] # "stale" <=> Lowest <= a)

BlocksAbove ==
    \A c \in CPU : HasBlock(c) => Lowest <= tb_next[c] /\ Lowest <= tb_limit[c]

ClaimsAbove ==
    \A x \in Ctx :
        /\ pc[x] \in {"add", "recheck"} => HasBlock(cpu[x])
        /\ pc[x] \in {"recheck", "store"} => Lowest <= myclaim[x]

Aligned == traceblock_next % BLK = 0 /\ traceblock_limit % BLK = 0

ReadInv == Aligned /\ FrontsAbove /\ BlocksAbove /\ ClaimsAbove

LEMMA ReadInvReadOut == TypeOK /\ ReadInv => ReadOutComplete
<1> SUFFICES ASSUME TypeOK, ReadInv PROVE ReadOutComplete
  OBVIOUS
<1>1. /\ traceblock_next \in Int /\ traceblock_next <= HIGH
      /\ traceblock_limit \in Int /\ TRACEBASE <= traceblock_limit
      /\ traceblock_limit <= HIGH
  BY SizeFacts DEF TypeOK
<1>2. /\ Lowest \in Int /\ Lowest % BLK = 0 /\ TRACEBASE <= Lowest /\ Lowest <= HIGH
  BY <1>1, SizeFacts DEF Lowest, ReadInv, Aligned
<1>3. get_count = HIGH - Lowest
  BY <1>1 DEF get_count, Lowest
<1>4. {get_word(s) : s \in 0 .. (get_count - 1)} = {a \in Addr : Lowest <= BlockBase(a)}
  BY <1>2, <1>3, ReadFrom
<1>5. ASSUME NEW a \in Addr
      PROVE  mem[BlockBase(a)] # "stale" <=> Lowest <= BlockBase(a)
  <2>1. BlockBase(a) \in Addr /\ BlockBase(a) % BLK = 0
    BY BaseInBuffer, BaseFacts, SizeFacts DEF Addr
  <2> QED
    BY <2>1 DEF ReadInv, FrontsAbove
<1> QED
  BY <1>4, <1>5 DEF ReadOutComplete

(* The trace is empty.                                                     *)
LEMMA EmptyRead ==
    ASSUME NEW f, traceblock_limit = LimitFor(f), traceblock_next = HIGH,
           did_wrap_around = FALSE, \A c \in CPU : tb_limit[c] = NULL,
           \A a \in Addr : mem[a] = "stale", \A x \in Ctx : pc[x] = "idle"
    PROVE  ReadInv
<1>1. traceblock_limit % BLK = 0 /\ traceblock_limit \in TRACEBASE .. (HIGH - 2 * BLK)
  BY AlignedBuffer, LimitForType DEF LimitFor
<1>2. Lowest = HIGH
  BY <1>1, SizeFacts DEF Lowest
<1>3. FrontsAbove
  BY <1>2, SizeFacts DEF FrontsAbove, Addr
<1> QED
  BY <1>1, <1>3, AlignedBuffer DEF ReadInv, Aligned, BlocksAbove, ClaimsAbove, HasBlock

(* A step that hands out no block.                                         *)
LEMMA SameBlocksRead ==
    ASSUME ReadInv,
           UNCHANGED <<traceblock_next, traceblock_limit, did_wrap_around, tb_limit>>,
           \A a \in Addr : mem'[a] = mem[a] \/ (mem'[a] # "stale" /\ Lowest <= a),
           \A c \in CPU : HasBlock(c) => Lowest <= tb_next'[c],
           \A x \in Ctx :
              /\ pc'[x] \in {"add", "recheck"} => HasBlock(cpu'[x])
              /\ pc'[x] \in {"recheck", "store"} => Lowest <= myclaim'[x]
    PROVE  ReadInv'
<1>1. Lowest' = Lowest
  BY DEF Lowest
<1>2. FrontsAbove'
  BY <1>1 DEF ReadInv, FrontsAbove
<1>3. BlocksAbove' /\ ClaimsAbove'
  BY <1>1 DEF ReadInv, BlocksAbove, ClaimsAbove, HasBlock
<1> QED
  BY <1>2, <1>3 DEF ReadInv, Aligned

(* A new block is the next one below, or above the lowest one in a trace   *)
(* that wraps around.                                                      *)
LEMMA NewBlockRead ==
    ASSUME TypeOK, ReadInv, NEW x \in Ctx, SlowNewBlock(x)
    PROVE  ReadInv'
<1> DEFINE c == cpu[x]
           b == NextBlock
           h == HeadSize
           n == claimSize(x)
<1>1. /\ c \in CPU
      /\ traceblock_next' = b /\ traceblock_limit' = traceblock_limit
      /\ did_wrap_around' = (did_wrap_around \/ NoBlockLeft)
      /\ mem' = InitBlock(b)
      /\ cpu' = cpu /\ myclaim'[x] = b + h
      /\ tb_next'[c] = b + h + n /\ tb_limit'[c] = b + BLK
      /\ \A d \in CPU \ {c} : tb_next'[d] = tb_next[d] /\ tb_limit'[d] = tb_limit[d]
      /\ pc'[x] = "store" /\ \A y \in Ctx \ {x} : Same(y)
  BY DEF SlowNewBlock, Granted, Goto, Same, TypeOK
<1>2. /\ traceblock_next \in Int /\ traceblock_next <= HIGH
      /\ traceblock_limit \in Int /\ traceblock_limit <= HIGH - 2 * BLK
      /\ b \in Int /\ TRACEBASE <= b /\ b <= HIGH - BLK /\ h \in Nat /\ 1 <= h
      /\ n \in Nat /\ BLK \in Nat /\ HIGH \in Nat /\ 0 < BLK
      /\ did_wrap_around \in BOOLEAN
  <2>1. b \in TRACEBASE .. (HIGH - BLK) /\ h \in Nat /\ 1 <= h /\ n \in Nat
    BY NextBlockType, ClaimSizeType
  <2> HIDE DEF b, h, n
  <2> QED
    BY <2>1, SizeFacts DEF TypeOK
<1>wraps. /\ did_wrap_around \/ NoBlockLeft => did_wrap_around' = TRUE
          /\ ~did_wrap_around /\ ~NoBlockLeft => did_wrap_around' = FALSE
  <2>1. did_wrap_around' = (did_wrap_around \/ NoBlockLeft)
    BY DEF SlowNewBlock
  <2> QED
    BY <2>1
<1>3. b % BLK = 0
  <2>1. (traceblock_next - BLK) % BLK = 0
    BY <1>2, AlignedNext DEF ReadInv, Aligned
  <2>2. ((HIGH - BLK) - BLK) % BLK = 0
    BY <1>2, AlignedBuffer, AlignedNext
  <2>3. (HIGH - BLK) - BLK = HIGH - 2 * BLK
    BY <1>2
  <2> QED
    BY <2>1, <2>2, <2>3 DEF NextBlock
<1>4. traceblock_limit < traceblock_next => traceblock_limit + BLK <= traceblock_next
  BY <1>2, AlignedGap DEF ReadInv, Aligned
<1>5. /\ Lowest' = Lowest \/ (Lowest' = b /\ Lowest = b + BLK)
      /\ Lowest' <= b /\ Lowest' <= Lowest /\ Lowest \in Int /\ Lowest' \in Int
  <2>1. CASE NoBlockLeft
    <3>1. Lowest' = traceblock_limit
      BY <1>1, <1>wraps, <2>1 DEF Lowest
    <3>2. traceblock_next <= traceblock_limit
      BY <1>2, <1>4, <2>1 DEF NoBlockLeft
    <3>3. Lowest = traceblock_limit
      BY <1>2, <3>2 DEF Lowest
    <3>4. b = HIGH - 2 * BLK
      BY <2>1 DEF NextBlock
    <3> QED
      BY <1>2, <3>1, <3>3, <3>4
  <2>2. CASE ~NoBlockLeft
    <3>1. b = traceblock_next - BLK /\ traceblock_limit <= b
      BY <1>2, <2>2 DEF NextBlock, NoBlockLeft
    <3> HIDE DEF b
    <3>2. CASE did_wrap_around
      <4>1. Lowest' = traceblock_limit /\ Lowest = traceblock_limit
        BY <1>1, <1>wraps, <3>2 DEF Lowest
      <4> QED
        BY <1>2, <3>1, <4>1
    <3>3. CASE ~did_wrap_around
      <4>1. Lowest' = b /\ Lowest = traceblock_next
        <5>1. did_wrap_around' = FALSE
          BY <1>wraps, <2>2, <3>3
        <5> QED
          BY <1>1, <1>2, <3>1, <3>3, <5>1 DEF Lowest
      <4> QED
        BY <1>2, <3>1, <4>1
    <3> QED
      BY <3>2, <3>3
  <2> QED
    BY <2>1, <2>2
<1>6. \A a \in Addr : a \in Int /\
        mem'[a] = IF a < b \/ a >= b + BLK THEN mem[a]
                  ELSE IF a < b + h THEN "head"
                  ELSE IF a >= b + BLK - TAIL THEN "nop" ELSE "stale"
  BY <1>1, SizeFacts DEF InitBlock, Addr
<1> HIDE DEF b, h, n, c
<1>7. FrontsAbove'
  <2> SUFFICES ASSUME NEW a \in Addr, a % BLK = 0 PROVE mem'[a] # "stale" <=> Lowest' <= a
    BY DEF FrontsAbove
  <2>1. a \in Int /\ (mem[a] # "stale" <=> Lowest <= a)
    BY <1>6 DEF ReadInv, FrontsAbove
  <2>2. b < a => b + BLK <= a
    BY <2>1, <1>2, <1>3, AlignedGap
  <2>3. CASE a = b
    <3>1. mem'[a] = "head"
      BY <2>1, <2>3, <1>2, <1>6
    <3> QED
      BY <2>3, <3>1, <1>5
  <2>4. CASE a # b
    <3>1. mem'[a] = mem[a]
      BY <2>1, <2>2, <2>4, <1>2, <1>6
    <3>2. Lowest' <= a <=> Lowest <= a
      BY <2>1, <2>2, <2>4, <1>2, <1>5
    <3> QED
      BY <2>1, <3>1, <3>2
  <2> QED
    BY <2>3, <2>4
<1>8. BlocksAbove'
  <2> SUFFICES ASSUME NEW d \in CPU, tb_limit'[d] # NULL
               PROVE  Lowest' <= tb_next'[d] /\ Lowest' <= tb_limit'[d]
    BY DEF BlocksAbove, HasBlock
  <2>1. CASE d = c
    BY <2>1, <1>1, <1>2, <1>5
  <2>2. CASE d # c
    <3>1. /\ tb_next'[d] = tb_next[d] /\ tb_limit'[d] = tb_limit[d]
          /\ Lowest <= tb_next[d] /\ Lowest <= tb_limit[d]
      BY <2>2, <1>1 DEF ReadInv, BlocksAbove, HasBlock
    <3>2. tb_next[d] \in Nat /\ tb_limit[d] \in Nat
      BY NumbersType DEF Numbers
    <3> QED
      BY <3>1, <3>2, <1>5
  <2> QED
    BY <2>1, <2>2
<1>9. ClaimsAbove'
  <2> SUFFICES ASSUME NEW y \in Ctx
               PROVE  /\ pc'[y] \in {"add", "recheck"} => tb_limit'[cpu'[y]] # NULL
                      /\ pc'[y] \in {"recheck", "store"} => Lowest' <= myclaim'[y]
    BY DEF ClaimsAbove, HasBlock
  <2>1. CASE y = x
    BY <2>1, <1>1, <1>2, <1>5
  <2>2. CASE y # x
    <3>1. /\ Same(y) /\ myclaim[y] \in Nat
          /\ pc[y] \in {"add", "recheck"} => HasBlock(cpu[y]) /\ cpu[y] \in CPU
          /\ pc[y] \in {"recheck", "store"} => Lowest <= myclaim[y]
      BY <2>2, <1>1 DEF ReadInv, ClaimsAbove, TypeOK
    <3>2. \A d \in CPU : HasBlock(d) => tb_limit'[d] # NULL
      BY <1>1, <1>2, SizeFacts DEF HasBlock, NULL
    <3> QED
      BY <3>1, <3>2, <1>1, <1>5 DEF Same
  <2> QED
    BY <2>1, <2>2
<1>10. Aligned'
  BY <1>1, <1>3 DEF ReadInv, Aligned
<1> QED
  BY <1>7, <1>8, <1>9, <1>10 DEF ReadInv

(* With no block left traceblock_next runs past traceblock_limit, and the  *)
(* lowest block stays the lowest.                                          *)
LEMMA FullRead ==
    ASSUME TypeOK, ReadInv, NEW x \in Ctx, SlowFull(x)
    PROVE  ReadInv'
<1>1. /\ NoBlockLeft /\ traceblock_next' = traceblock_next - BLK
      /\ UNCHANGED <<did_wrap_around, traceblock_limit, tb_limit, mem>>
      /\ pc'[x] = "idle" /\ \A y \in Ctx \ {x} : Same(y)
      /\ cpu[x] \in CPU /\ tb_next' = [tb_next EXCEPT ![cpu[x]] = @ + claimSize(x)]
  BY DEF SlowFull, Refused, Return, Goto, Same, TypeOK
<1>2. /\ traceblock_next \in Int /\ traceblock_limit \in Int /\ BLK \in Nat /\ 0 < BLK
      /\ claimSize(x) \in Nat /\ \A c \in CPU : tb_next[c] \in Nat
  BY NumbersType, SizeFacts DEF TypeOK, Numbers
<1>3. traceblock_limit < traceblock_next => traceblock_limit + BLK <= traceblock_next
  BY <1>2, AlignedGap DEF ReadInv, Aligned
<1>4. Lowest' = Lowest /\ Lowest \in Int
  BY <1>1, <1>2, <1>3 DEF Lowest, NoBlockLeft
<1>5. FrontsAbove'
  BY <1>1, <1>4 DEF ReadInv, FrontsAbove
<1>6. BlocksAbove'
  <2>1. \A c \in CPU : tb_next[c] <= tb_next'[c] /\ tb_next'[c] \in Int
    BY <1>1, <1>2 DEF TypeOK
  <2> QED
    BY <1>1, <1>2, <1>4, <2>1 DEF ReadInv, BlocksAbove, HasBlock
<1>7. ClaimsAbove'
  BY <1>1, <1>4 DEF ReadInv, ClaimsAbove, HasBlock, Same
<1>8. Aligned'
  BY <1>1, <1>2, AlignedNext DEF ReadInv, Aligned
<1> QED
  BY <1>5, <1>6, <1>7, <1>8 DEF ReadInv

LEMMA NextRead ==
    ASSUME TypeOK, ReadInv, [Next]_vars
    PROVE  ReadInv'
<1>0. /\ Numbers /\ Lowest \in Int
      /\ \A x \in Ctx : /\ pc[x] \in {"add", "recheck"} => HasBlock(cpu[x])
                        /\ pc[x] \in {"recheck", "store"} => Lowest <= myclaim[x]
      /\ \A c \in CPU : HasBlock(c) => Lowest <= tb_next[c] /\ Lowest <= tb_limit[c]
  BY NumbersType, SizeFacts DEF ReadInv, ClaimsAbove, BlocksAbove, Lowest, TypeOK
<1>1. ASSUME NEW x \in Ctx, NEW c \in CPU, Insert(x, c) PROVE ReadInv'
  <2>1. pc'[x] = "limit" /\ \A y \in Ctx \ {x} : Same(y)
    BY <1>1 DEF Insert, Goto, TypeOK, Same
  <2> QED
    BY <1>0, <1>1, <2>1, SameBlocksRead DEF Insert, Same
<1>2. ASSUME NEW x \in Ctx, ReadLimit(x) PROVE ReadInv'
  <2>1. /\ pc'[x] \in {"slow", "add"} /\ \A y \in Ctx \ {x} : Same(y)
        /\ pc'[x] = "add" => HasBlock(cpu'[x])
    BY <1>2 DEF ReadLimit, Goto, TypeOK, Same, HasBlock
  <2> QED
    BY <1>0, <1>2, <2>1, SameBlocksRead DEF ReadLimit, Same
<1>3. ASSUME NEW x \in Ctx, AddNext(x) PROVE ReadInv'
  <2>1. /\ pc[x] = "add" /\ pc'[x] = "recheck" /\ \A y \in Ctx \ {x} : Same(y)
        /\ cpu' = cpu /\ cpu[x] \in CPU /\ myclaim'[x] = tb_next[cpu[x]]
    BY <1>3 DEF AddNext, Goto, TypeOK, Same
  <2>2. tb_next' = [tb_next EXCEPT ![cpu[x]] = @ + claimSize(x)] /\ claimSize(x) \in Nat
    BY <1>0, <1>3 DEF AddNext, Numbers
  <2>3. \A c \in CPU : HasBlock(c) => Lowest <= tb_next'[c]
    BY <1>0, <2>2 DEF Numbers, TypeOK
  <2>4. \A y \in Ctx : /\ pc'[y] \in {"add", "recheck"} => HasBlock(cpu'[y])
                       /\ pc'[y] \in {"recheck", "store"} => Lowest <= myclaim'[y]
    BY <1>0, <2>1 DEF Same
  <2> QED
    BY <1>3, <2>3, <2>4, SameBlocksRead DEF AddNext
<1>4. ASSUME NEW x \in Ctx, RecheckSlow(x) \/ RecheckRetry(x) PROVE ReadInv'
  <2>1. pc'[x] \in {"slow", "limit"} /\ \A y \in Ctx \ {x} : Same(y)
    BY <1>4 DEF RecheckSlow, RecheckRetry, Goto, TypeOK, Same
  <2> QED
    BY <1>0, <1>4, <2>1, SameBlocksRead DEF RecheckSlow, RecheckRetry, Same
<1>5. ASSUME NEW x \in Ctx, RecheckKeep(x) PROVE ReadInv'
  <2>1. /\ pc[x] = "recheck" /\ pc'[x] = "store" /\ \A y \in Ctx \ {x} : Same(y)
        /\ myclaim'[x] = myclaim[x]
    BY <1>5 DEF RecheckKeep, Granted, Goto, TypeOK, Same
  <2> QED
    BY <1>0, <1>5, <2>1, SameBlocksRead DEF RecheckKeep, Same
<1>6. ASSUME NEW x \in Ctx, SlowBadLen(x) PROVE ReadInv'
  <2>1. pc'[x] = "idle" /\ \A y \in Ctx \ {x} : Same(y)
    BY <1>6 DEF SlowBadLen, Refused, Return, Goto, TypeOK, Same
  <2> QED
    BY <1>0, <1>6, <2>1, SameBlocksRead DEF SlowBadLen, Same
<1>7. ASSUME NEW x \in Ctx, SlowFits(x) PROVE ReadInv'
  <2>1. /\ pc'[x] = "store" /\ \A y \in Ctx \ {x} : Same(y)
        /\ cpu[x] \in CPU /\ myclaim'[x] = tb_next[cpu[x]] /\ HasBlock(cpu[x])
    BY <1>7 DEF SlowFits, NeedsBlock, HasBlock, Granted, Goto, TypeOK, Same
  <2>2. tb_next' = [tb_next EXCEPT ![cpu[x]] = @ + claimSize(x)] /\ claimSize(x) \in Nat
    BY <1>0, <1>7 DEF SlowFits, Numbers
  <2>3. \A c \in CPU : HasBlock(c) => Lowest <= tb_next'[c]
    BY <1>0, <2>2 DEF Numbers, TypeOK
  <2>4. \A y \in Ctx : /\ pc'[y] \in {"add", "recheck"} => HasBlock(cpu'[y])
                       /\ pc'[y] \in {"recheck", "store"} => Lowest <= myclaim'[y]
    BY <1>0, <2>1 DEF Same
  <2> QED
    BY <1>7, <2>3, <2>4, SameBlocksRead DEF SlowFits
<1>8. ASSUME NEW x \in Ctx, Store(x) PROVE ReadInv'
  <2>1. /\ pc[x] = "store" /\ pc'[x] = "idle" /\ \A y \in Ctx \ {x} : Same(y)
    BY <1>8 DEF Store, Return, Goto, TypeOK, Same
  <2>2. ASSUME NEW a \in Addr
        PROVE  mem'[a] = mem[a] \/ (mem'[a] # "stale" /\ Lowest <= a)
    <3>1. mem'[a] = IF a \in Words(myclaim[x], claimSize(x)) THEN "entry" ELSE mem[a]
      BY <1>8 DEF Store
    <3>2. a \in Words(myclaim[x], claimSize(x)) => Lowest <= a
      BY <1>0, <2>1 DEF Words, Numbers
    <3> QED
      BY <3>1, <3>2
  <2> QED
    BY <1>0, <1>8, <2>1, <2>2, SameBlocksRead DEF Store, Same
<1>9. ASSUME Quiet, do_flush PROVE ReadInv'
  <2>1. ASSUME NEW a \in Addr
        PROVE  mem'[a] = mem[a] \/ (mem'[a] # "stale" /\ Lowest <= a)
    <3>1. mem'[a] = IF \E c \in CPU : a \in Unfilled(c) THEN "nop" ELSE mem[a]
      BY <1>9 DEF do_flush
    <3>2. ASSUME NEW c \in CPU, a \in Unfilled(c) PROVE Lowest <= a
      BY <1>0, <3>2, SizeFacts DEF Unfilled, HasBlock, Numbers, Addr
    <3> QED
      BY <3>1, <3>2
  <2>2. \A c \in CPU : HasBlock(c) => Lowest <= tb_next'[c]
    BY <1>0, <1>9 DEF do_flush, HasBlock
  <2> QED
    BY <1>0, <1>9, <2>1, <2>2, SameBlocksRead DEF do_flush, ctxVars
<1>10. ASSUME NEW f \in ResetFlags, Quiet, do_reset(f) PROVE ReadInv'
  <2>1. /\ traceblock_next' = HIGH /\ did_wrap_around' = FALSE
        /\ traceblock_limit' = LimitFor(f)
        /\ \A c \in CPU : tb_limit'[c] = NULL
        /\ \A x \in Ctx : pc'[x] = "idle"
        /\ \A a \in Addr : mem'[a] = "stale"
    BY <1>10 DEF do_reset, Quiet, ctxVars
  <2>2. /\ traceblock_limit' % BLK = 0
        /\ traceblock_limit' \in TRACEBASE .. (HIGH - 2 * BLK)
    BY <2>1, AlignedBuffer, LimitForType DEF LimitFor
  <2>3. Lowest' = HIGH
    BY <2>1, <2>2, SizeFacts DEF Lowest
  <2>4. FrontsAbove'
    BY <2>1, <2>3, SizeFacts DEF FrontsAbove, Addr
  <2> QED
    BY <2>1, <2>2, <2>4, AlignedBuffer
    DEF ReadInv, Aligned, BlocksAbove, ClaimsAbove, HasBlock
<1>11. ASSUME do_trace_on \/ do_trace_off \/ UNCHANGED vars PROVE ReadInv'
  BY <1>0, <1>11, SameBlocksRead DEF do_trace_on, do_trace_off, ctxVars, vars
<1> QED
  BY <1>1, <1>2, <1>3, <1>4, <1>5, <1>6, <1>7, <1>8, <1>9, <1>10, <1>11, NewBlockRead,
     FullRead DEF Next, Step, Control

(* Reading out covers the blocks handed out, all of them and no others,    *)
(* however far past its limit traceblock_next has run and however often    *)
(* the trace has wrapped around.                                           *)
THEOREM ReadOutCompleteHolds == Spec => []ReadOutComplete
<1>1. Init => TypeOK /\ ReadInv
  BY InitType, EmptyRead DEF Init
<1>2. TypeOK /\ ReadInv /\ [Next]_vars => TypeOK' /\ ReadInv'
  BY NextType, NextRead
<1>3. TypeOK /\ ReadInv => ReadOutComplete
  BY ReadInvReadOut
<1> QED
  BY <1>1, <1>2, <1>3, PTL DEF Spec

(***************************************************************************)
(* Left-over data                                                          *)
(***************************************************************************)

(* No entry, with its TSDELTA word, is longer than the NOP words at the    *)
(* end of a block.  (The code has both at 8, so the longest entry breaks   *)
(* this; get_slow_claim refuses it with a TSDELTA word.)                   *)
ShortEntries == \A n \in EntryLens : n < TAIL

InBlock(a, c) == HasBlock(c) /\ tb_limit[c] - BLK <= a /\ a < tb_limit[c]

(* x will store into word a of CPU c's block, or will judge its claim of   *)
(* it against that block.                                                  *)
Covers(x, c, a) ==
    /\ pc[x] = "store" \/ (pc[x] = "recheck" /\ cpu[x] = c)
    /\ myclaim[x] <= a /\ a < myclaim[x] + claimSize(x)

ShortClaims == \A x \in Ctx : pc[x] # "idle" => claimSize(x) <= TAIL

TailsWritten ==
    \A c \in CPU, a \in Addr :
        InBlock(a, c) /\ tb_limit[c] - TAIL <= a => mem[a] # "stale"

StaleCovered ==
    \A c \in CPU, a \in Addr : InBlock(a, c) /\ mem[a] = "stale" =>
        tb_next[c] <= a \/ \E x \in Ctx : Covers(x, c, a)

StaleInv == ShortClaims /\ TailsWritten /\ StaleCovered

(* A step that sets up no block: a word is left to those who still cover   *)
(* it.                                                                     *)
LEMMA SameBlocksStale ==
    ASSUME StaleInv, UNCHANGED tb_limit,
           \A a \in Addr : mem'[a] = "stale" => mem[a] = "stale",
           ShortClaims',
           \A c \in CPU, a \in Addr : InBlock(a, c) /\ mem'[a] = "stale" =>
              /\ tb_next[c] <= a => tb_next'[c] <= a \/ \E y \in Ctx : Covers(y, c, a)'
              /\ \A x \in Ctx : Covers(x, c, a) => \E y \in Ctx : Covers(y, c, a)'
    PROVE  StaleInv'
<1>1. \A c \in CPU, a \in Addr : InBlock(a, c)' <=> InBlock(a, c)
  BY DEF InBlock, HasBlock
<1>2. TailsWritten'
  BY <1>1 DEF StaleInv, TailsWritten
<1>3. StaleCovered'
  <2> SUFFICES ASSUME NEW c \in CPU, NEW a \in Addr, InBlock(a, c), mem'[a] = "stale"
               PROVE  tb_next'[c] <= a \/ \E x \in Ctx : Covers(x, c, a)'
    BY <1>1 DEF StaleCovered
  <2>1. tb_next[c] <= a \/ \E x \in Ctx : Covers(x, c, a)
    BY DEF StaleInv, StaleCovered
  <2> QED
    BY <2>1
<1> QED
  BY <1>2, <1>3 DEF StaleInv

(* A step of x that leaves the buffer alone and loses no claim x had.      *)
LEMMA NoLossStale ==
    ASSUME StaleInv, NEW x \in Ctx, UNCHANGED <<tb_next, tb_limit, mem>>,
           \A y \in Ctx \ {x} : Same(y),
           pc'[x] # "idle" => claimSize(x)' <= TAIL,
           \A c \in CPU, a \in Addr : InBlock(a, c) /\ mem[a] = "stale" =>
              (Covers(x, c, a) => Covers(x, c, a)')
    PROVE  StaleInv'
<1>1. \A y \in Ctx \ {x} : claimSize(y)' = claimSize(y) /\ pc'[y] = pc[y]
  BY DEF Same, claimSize
<1>2. ShortClaims'
  BY <1>1 DEF StaleInv, ShortClaims
<1>3. \A y \in Ctx \ {x}, c \in CPU, a \in Addr : Covers(y, c, a)' <=> Covers(y, c, a)
  BY <1>1 DEF Covers, Same
<1> QED
  BY <1>2, <1>3, SameBlocksStale

LEMMA AddNextStale ==
    ASSUME StaleInv, TypeOK, Numbers, NEW x \in Ctx, AddNext(x)
    PROVE  StaleInv'
<1> DEFINE d == cpu[x]
           n == claimSize(x)
<1>1. d \in CPU /\ pc[x] = "add"
  BY DEF AddNext, TypeOK
<1>2. /\ UNCHANGED <<tb_limit, mem, cpu, len, tsd>>
      /\ \A y \in Ctx \ {x} : Same(y)
      /\ pc'[x] = "recheck" /\ myclaim'[x] = tb_next[d]
      /\ tb_next'[d] = tb_next[d] + n
      /\ \A c \in CPU \ {d} : tb_next'[c] = tb_next[c]
  BY <1>1 DEF AddNext, Goto, Same, TypeOK
<1>3. \A y \in Ctx : claimSize(y)' = claimSize(y)
  BY <1>2 DEF claimSize
<1>4. ShortClaims'
  BY <1>1, <1>2, <1>3 DEF StaleInv, ShortClaims, Same
<1>5. \A y \in Ctx, c \in CPU, a \in Addr : Covers(y, c, a) => Covers(y, c, a)'
  BY <1>1, <1>2, <1>3 DEF Covers, Same
<1>n. n = claimSize(x) /\ n \in Nat /\ d = cpu[x]
  BY DEF Numbers
<1> HIDE DEF d, n
<1>6. ASSUME NEW c \in CPU, NEW a \in Addr, tb_next[c] <= a
      PROVE  tb_next'[c] <= a \/ Covers(x, c, a)'
  <2>1. a \in Nat /\ tb_next[d] \in Nat
    BY <1>1, SizeFacts DEF Addr, Numbers
  <2>2. CASE c = d
    BY <2>1, <2>2, <1>1, <1>2, <1>3, <1>6, <1>n DEF Covers
  <2>3. CASE c # d
    BY <2>3, <1>2, <1>6
  <2> QED
    BY <2>2, <2>3
<1> QED
  BY <1>2, <1>4, <1>5, <1>6, SameBlocksStale

LEMMA SlowFitsStale ==
    ASSUME StaleInv, TypeOK, Numbers, NEW x \in Ctx, SlowFits(x)
    PROVE  StaleInv'
<1> DEFINE d == cpu[x]
           n == claimSize(x)
<1>1. d \in CPU /\ pc[x] = "slow"
  BY DEF SlowFits, TypeOK
<1>2. /\ UNCHANGED <<tb_limit, mem, cpu, len, tsd>>
      /\ \A y \in Ctx \ {x} : Same(y)
      /\ pc'[x] = "store" /\ myclaim'[x] = tb_next[d]
      /\ tb_next'[d] = tb_next[d] + n
      /\ \A c \in CPU \ {d} : tb_next'[c] = tb_next[c]
  BY <1>1 DEF SlowFits, Granted, Goto, Same, TypeOK
<1>3. \A y \in Ctx : claimSize(y)' = claimSize(y)
  BY <1>2 DEF claimSize
<1>4. ShortClaims'
  BY <1>1, <1>2, <1>3 DEF StaleInv, ShortClaims, Same
<1>5. \A y \in Ctx, c \in CPU, a \in Addr : Covers(y, c, a) => Covers(y, c, a)'
  BY <1>1, <1>2, <1>3 DEF Covers, Same
<1>n. n = claimSize(x) /\ n \in Nat /\ d = cpu[x]
  BY DEF Numbers
<1> HIDE DEF d, n
<1>6. ASSUME NEW c \in CPU, NEW a \in Addr, tb_next[c] <= a
      PROVE  tb_next'[c] <= a \/ Covers(x, c, a)'
  <2>1. a \in Nat /\ tb_next[d] \in Nat
    BY <1>1, SizeFacts DEF Addr, Numbers
  <2>2. CASE c = d
    BY <2>1, <2>2, <1>1, <1>2, <1>3, <1>6, <1>n DEF Covers
  <2>3. CASE c # d
    BY <2>3, <1>2, <1>6
  <2> QED
    BY <2>2, <2>3
<1> QED
  BY <1>2, <1>4, <1>5, <1>6, SameBlocksStale

(* A refused entry moves tb->next over words at the end of the block only. *)
LEMMA SlowFullStale ==
    ASSUME StaleInv, TypeOK, Numbers, NEW x \in Ctx, SlowFull(x)
    PROVE  StaleInv'
<1> DEFINE d == cpu[x]
           n == claimSize(x)
<1>1. d \in CPU /\ pc[x] = "slow" /\ n <= TAIL
  BY DEF SlowFull, TypeOK, StaleInv, ShortClaims
<1>2. /\ UNCHANGED <<tb_limit, mem>>
      /\ \A y \in Ctx \ {x} : Same(y)
      /\ pc'[x] = "idle"
      /\ tb_next'[d] = tb_next[d] + n
      /\ \A c \in CPU \ {d} : tb_next'[c] = tb_next[c]
      /\ tb_limit[d] = NULL \/ ~ (tb_next[d] + n < tb_limit[d])
  BY <1>1 DEF SlowFull, Refused, Return, Goto, Same, TypeOK, NeedsBlock, ClaimFits
<1>3. \A y \in Ctx \ {x} : claimSize(y)' = claimSize(y)
  BY <1>2 DEF claimSize, Same
<1>4. ShortClaims'
  BY <1>2, <1>3 DEF StaleInv, ShortClaims, Same
<1>5. \A y \in Ctx, c \in CPU, a \in Addr : Covers(y, c, a) => Covers(y, c, a)'
  BY <1>1, <1>2, <1>3 DEF Covers, Same
<1>n. n \in Nat /\ TAIL \in Nat
  BY SizesAssumption DEF Numbers
<1> HIDE DEF d, n
<1>6. ASSUME NEW c \in CPU, NEW a \in Addr, InBlock(a, c), mem'[a] = "stale",
             tb_next[c] <= a
      PROVE  tb_next'[c] <= a
  <2>1. a \in Nat /\ tb_next[d] \in Nat /\ tb_limit[d] \in Nat
    BY <1>1, SizeFacts DEF Addr, Numbers
  <2>2. CASE c = d
    <3>1. ~ (tb_limit[d] - TAIL <= a)
      BY <2>2, <1>2, <1>6 DEF StaleInv, TailsWritten
    <3>2. tb_next[d] + n >= tb_limit[d]
      BY <2>1, <2>2, <1>2, <1>6, <1>n DEF InBlock, HasBlock
    <3> QED
      BY <3>1, <3>2, <2>1, <2>2, <1>1, <1>6, <1>n
  <2>3. CASE c # d
    BY <2>3, <1>2, <1>6
  <2> QED
    BY <2>2, <2>3
<1> QED
  BY <1>2, <1>4, <1>5, <1>6, SameBlocksStale

(* A new block: words behind its front are free but for the claim granted. *)
LEMMA NewBlockStale ==
    ASSUME IInv, StaleInv, NEW x \in Ctx, SlowNewBlock(x)
    PROVE  StaleInv'
<1> DEFINE d == cpu[x]
           n == claimSize(x)
           b == NextBlock
           h == HeadSize
<1>0. TypeOK /\ Numbers
  BY NumbersType DEF IInv
<1>1. d \in CPU /\ pc[x] = "slow" /\ b = traceblock_next - BLK
  BY DEF SlowNewBlock, IInv, TypeOK, do_wrap, NextBlock
<1>2. /\ UNCHANGED <<cpu, len, tsd>>
      /\ \A y \in Ctx \ {x} : Same(y)
      /\ pc'[x] = "store" /\ myclaim'[x] = b + h
      /\ mem' = InitBlock(b)
      /\ tb_next'[d] = b + h + n /\ tb_limit'[d] = b + BLK
      /\ \A c \in CPU \ {d} : tb_limit'[c] = tb_limit[c] /\ tb_next'[c] = tb_next[c]
  BY <1>0, <1>1 DEF SlowNewBlock, Granted, Goto, Same, TypeOK
<1>3. \A y \in Ctx : claimSize(y)' = claimSize(y)
  BY <1>2 DEF claimSize
<1>4. /\ b \in Int /\ h \in Nat /\ n \in Nat /\ TAIL \in Nat /\ BLK \in Nat
      /\ traceblock_next \in Int /\ b + BLK = traceblock_next
  BY <1>0, <1>1, NextBlockType, SizeFacts, SizesAssumption DEF Numbers
<1>5. \A a \in Addr : a \in Int /\
        mem'[a] = IF a < b \/ a >= b + BLK THEN mem[a]
                  ELSE IF a < b + h THEN "head"
                  ELSE IF a >= b + BLK - TAIL THEN "nop" ELSE "stale"
  BY <1>2, SizeFacts DEF InitBlock, Addr
<1>n. n = claimSize(x)
  OBVIOUS
<1> HIDE DEF b, h, n
<1>6. ShortClaims'
  BY <1>1, <1>2, <1>3 DEF StaleInv, ShortClaims, Same
<1>7. ASSUME NEW c \in CPU, NEW a \in Addr, c # d, InBlock(a, c)'
      PROVE  InBlock(a, c) /\ mem'[a] = mem[a]
  <2>1. InBlock(a, c)
    BY <1>2, <1>7 DEF InBlock, HasBlock
  <2>2. traceblock_next <= tb_limit[c] - BLK
    BY <2>1 DEF IInv, Safe, BlocksTaken, InBlock
  <2>3. a >= b + BLK
    BY <2>1, <2>2, <1>0, <1>4, <1>5 DEF InBlock, Numbers
  <2> QED
    BY <2>1, <2>3, <1>5
<1>8. TailsWritten'
  <2> SUFFICES ASSUME NEW c \in CPU, NEW a \in Addr, InBlock(a, c)', tb_limit'[c] - TAIL <= a
               PROVE  mem'[a] # "stale"
    BY DEF TailsWritten
  <2>1. CASE c = d
    BY <2>1, <1>2, <1>4, <1>5 DEF InBlock
  <2>2. CASE c # d
    BY <2>2, <1>2, <1>7 DEF StaleInv, TailsWritten
  <2> QED
    BY <2>1, <2>2
<1>9. StaleCovered'
  <2> SUFFICES ASSUME NEW c \in CPU, NEW a \in Addr, InBlock(a, c)', mem'[a] = "stale"
               PROVE  tb_next'[c] <= a \/ \E y \in Ctx : Covers(y, c, a)'
    BY DEF StaleCovered
  <2>1. CASE c = d
    <3>1. b + h <= a
      BY <2>1, <1>2, <1>4, <1>5 DEF InBlock
    <3>2. tb_next'[c] <= a \/ Covers(x, c, a)'
      BY <3>1, <2>1, <1>2, <1>3, <1>4, <1>5, <1>n DEF Covers
    <3> QED
      BY <3>2
  <2>2. CASE c # d
    <3>1. tb_next[c] <= a \/ \E y \in Ctx : Covers(y, c, a)
      BY <2>2, <1>7 DEF StaleInv, StaleCovered
    <3>2. \A y \in Ctx : Covers(y, c, a) => Covers(y, c, a)'
      BY <2>2, <1>1, <1>2, <1>3 DEF Covers, Same
    <3> QED
      BY <3>1, <3>2, <2>2, <1>2
  <2> QED
    BY <2>1, <2>2
<1> QED
  BY <1>6, <1>8, <1>9 DEF StaleInv

LEMMA NextStale ==
    ASSUME ShortEntries, IInv, StaleInv, [Next]_vars
    PROVE  StaleInv'
<1>0. TypeOK /\ Numbers
  BY NumbersType DEF IInv
<1>1. ASSUME NEW x \in Ctx, NEW c \in CPU, Insert(x, c) PROVE StaleInv'
  <2>1. /\ UNCHANGED <<tb_next, tb_limit, mem>>
        /\ \A y \in Ctx \ {x} : Same(y)
        /\ pc[x] = "idle"
    BY <1>0, <1>1 DEF Insert, Goto, TypeOK, Same
  <2>2. PICK k \in EntryLens, t \in {0, 1} : len' = [len EXCEPT ![x] = k] /\ tsd' = [tsd EXCEPT ![x] = t]
    BY <1>1 DEF Insert
  <2>3. claimSize(x)' = k + t /\ k \in Int /\ k < TAIL /\ TAIL \in Nat
    BY <1>0, <2>2, InputsAssumption, SizesAssumption DEF claimSize, TypeOK, ShortEntries
  <2>4. claimSize(x)' <= TAIL
    BY <2>2, <2>3
  <2> QED
    BY <2>1, <2>4, NoLossStale DEF Covers
<1>2. ASSUME NEW x \in Ctx, ReadLimit(x) PROVE StaleInv'
  <2>1. /\ UNCHANGED <<tb_next, tb_limit, mem, len, tsd>>
        /\ \A y \in Ctx \ {x} : Same(y)
        /\ pc[x] = "limit"
    BY <1>0, <1>2 DEF ReadLimit, Goto, TypeOK, Same
  <2>2. claimSize(x)' <= TAIL
    BY <2>1 DEF claimSize, StaleInv, ShortClaims
  <2> QED
    BY <2>1, <2>2, NoLossStale DEF Covers
<1>3. ASSUME NEW x \in Ctx, AddNext(x) PROVE StaleInv'
  BY <1>0, <1>3, AddNextStale
<1>4. ASSUME NEW x \in Ctx, RecheckKeep(x) PROVE StaleInv'
  <2>1. /\ UNCHANGED <<tb_next, tb_limit, mem, len, tsd, cpu>>
        /\ \A y \in Ctx \ {x} : Same(y)
        /\ pc[x] = "recheck" /\ pc'[x] = "store" /\ myclaim'[x] = myclaim[x]
    BY <1>0, <1>4 DEF RecheckKeep, Granted, Goto, TypeOK, Same
  <2>2. claimSize(x)' = claimSize(x) /\ claimSize(x) <= TAIL
    BY <2>1 DEF claimSize, StaleInv, ShortClaims
  <2> QED
    BY <2>1, <2>2, NoLossStale DEF Covers
<1>5. ASSUME NEW x \in Ctx, RecheckSlow(x) \/ RecheckRetry(x) PROVE StaleInv'
  <2> DEFINE d == cpu[x]
  <2>1. /\ UNCHANGED <<tb_next, tb_limit, mem, len, tsd, cpu, myclaim>>
        /\ \A y \in Ctx \ {x} : Same(y)
        /\ pc[x] = "recheck" /\ d \in CPU
    BY <1>0, <1>5 DEF RecheckSlow, RecheckRetry, Goto, TypeOK, Same
  <2>2. claimSize(x)' = claimSize(x) /\ claimSize(x) <= TAIL
    BY <2>1 DEF claimSize, StaleInv, ShortClaims
  <2>3. HasBlock(d) /\ tb_limit[d] - BLK < myclaim[x]
    BY <2>1 DEF IInv, Safe, FreshClaims
  <2>4. ~ (myclaim[x] + claimSize(x) < tb_limit[d])
    BY <1>0, <1>5, <2>1, <2>3, SizeFacts
       DEF RecheckSlow, RecheckRetry, ClaimInBlock, ClaimFits, Numbers
  <2>5. ASSUME NEW c \in CPU, NEW a \in Addr, InBlock(a, c), mem[a] = "stale",
               Covers(x, c, a)
        PROVE  FALSE
    <3>1. c = d /\ myclaim[x] <= a
      BY <2>1, <2>5 DEF Covers
    <3>2. tb_limit[d] - TAIL <= a
      <4>1. /\ a \in Int /\ tb_limit[d] \in Nat /\ myclaim[x] \in Nat
            /\ claimSize(x) \in Nat /\ TAIL \in Nat
        BY <1>0, <2>1, SizeFacts, SizesAssumption DEF Numbers, Addr
      <4> HIDE DEF d
      <4> QED
        BY <4>1, <3>1, <2>2, <2>4
    <3> QED
      BY <3>1, <3>2, <2>5 DEF StaleInv, TailsWritten
  <2> QED
    BY <2>1, <2>2, <2>5, NoLossStale
<1>6. ASSUME NEW x \in Ctx, SlowBadLen(x) PROVE StaleInv'
  <2>1. /\ UNCHANGED <<tb_next, tb_limit, mem>>
        /\ \A y \in Ctx \ {x} : Same(y)
        /\ pc[x] = "slow" /\ pc'[x] = "idle"
    BY <1>0, <1>6 DEF SlowBadLen, Refused, Return, Goto, TypeOK, Same
  <2> QED
    BY <2>1, NoLossStale DEF Covers
<1>7. ASSUME NEW x \in Ctx, SlowFits(x) PROVE StaleInv'
  BY <1>0, <1>7, SlowFitsStale
<1>8. ASSUME NEW x \in Ctx, SlowNewBlock(x) PROVE StaleInv'
  BY <1>8, NewBlockStale
<1>9. ASSUME NEW x \in Ctx, SlowFull(x) PROVE StaleInv'
  BY <1>0, <1>9, SlowFullStale
<1>10. ASSUME NEW x \in Ctx, Store(x) PROVE StaleInv'
  <2>1. /\ UNCHANGED <<tb_next, tb_limit>>
        /\ \A y \in Ctx \ {x} : Same(y)
        /\ pc'[x] = "idle" /\ pc[x] = "store"
        /\ \A a \in Addr : mem'[a] = IF a \in Words(myclaim[x], claimSize(x))
                                     THEN "entry" ELSE mem[a]
    BY <1>0, <1>10 DEF Store, Return, Goto, Same, TypeOK
  <2>2. \A y \in Ctx \ {x} : claimSize(y)' = claimSize(y)
    BY <2>1 DEF claimSize, Same
  <2>3. ShortClaims'
    BY <2>1, <2>2 DEF StaleInv, ShortClaims, Same
  <2>4. \A y \in Ctx \ {x}, c \in CPU, a \in Addr : Covers(y, c, a) => Covers(y, c, a)'
    BY <2>1, <2>2 DEF Covers, Same
  <2>5. \A c \in CPU, a \in Addr : Covers(x, c, a) => mem'[a] = "entry"
    <3> TAKE c \in CPU, a \in Addr
    <3>1. a \in Int /\ myclaim[x] \in Nat /\ claimSize(x) \in Nat
      BY <1>0, SizeFacts DEF Numbers, Addr
    <3> QED
      BY <3>1, <2>1 DEF Covers, Words
  <2> QED
    BY <2>1, <2>3, <2>4, <2>5, SameBlocksStale
<1>11. ASSUME Quiet, do_flush PROVE StaleInv'
  <2>1. /\ UNCHANGED tb_limit /\ \A x \in Ctx : pc[x] = "idle" /\ pc'[x] = "idle"
        /\ \A a \in Addr : mem'[a] = IF \E c \in CPU : a \in Unfilled(c)
                                     THEN "nop" ELSE mem[a]
    BY <1>11 DEF do_flush, ctxVars, Quiet
  <2>2. ASSUME NEW c \in CPU, NEW a \in Addr, InBlock(a, c), mem'[a] = "stale"
        PROVE  ~ (tb_next[c] <= a)
    <3>1. a \notin Unfilled(c) /\ tb_limit[c] # NULL
      BY <2>1, <2>2 DEF InBlock, HasBlock
    <3>2. tb_next[c] # NULL
      <4>1. tb_limit[c] - BLK < tb_next[c] /\ tb_limit[c] \in (TRACEBASE + BLK) .. HIGH
        BY <1>0, <3>1 DEF IInv, Safe, BlocksTaken, HasBlock, TypeOK
      <4> QED
        BY <1>0, <4>1, SizeFacts DEF Numbers, NULL
    <3> QED
      BY <3>1, <3>2, <2>2 DEF Unfilled, InBlock
  <2> QED
    BY <2>1, <2>2, SameBlocksStale DEF ShortClaims, Covers
<1>12. ASSUME NEW f \in ResetFlags, Quiet, do_reset(f) PROVE StaleInv'
  <2>1. /\ \A c \in CPU : tb_limit'[c] = NULL
        /\ \A x \in Ctx : pc'[x] = "idle"
    BY <1>12 DEF do_reset, Quiet, ctxVars
  <2> QED
    BY <2>1 DEF StaleInv, ShortClaims, TailsWritten, StaleCovered, InBlock, HasBlock
<1>13. ASSUME do_trace_on \/ do_trace_off \/ UNCHANGED vars PROVE StaleInv'
  <2>1. UNCHANGED <<tb_next, tb_limit, mem, pc, cpu, len, tsd, myclaim>>
    BY <1>13 DEF do_trace_on, do_trace_off, ctxVars, vars
  <2> QED
    BY <2>1 DEF StaleInv, ShortClaims, TailsWritten, StaleCovered, InBlock, HasBlock,
       Covers, claimSize
<1> QED
  BY <1>1, <1>2, <1>3, <1>4, <1>5, <1>6, <1>7, <1>8, <1>9, <1>10, <1>11, <1>12,
     <1>13 DEF Next, Step, Control

LEMMA StaleInvWhole == IInv /\ StaleInv => CurrentBlockWhole
<1> SUFFICES ASSUME IInv, StaleInv, NEW a \in Addr, mem[a] = "stale",
                    NEW c \in CPU, tb_limit[c] = BlockBase(a) + BLK
             PROVE  \/ \E d \in CPU : a \in Unfilled(d)
                    \/ \E x \in Ctx : pc[x] \in {"recheck", "store"}
                                      /\ a \in Words(myclaim[x], claimSize(x))
  BY DEF CurrentBlockWhole
<1>1. a \in Int
  BY SizeFacts DEF Addr
<1>2. BlockBase(a) \in Int /\ BlockBase(a) <= a /\ a < BlockBase(a) + BLK
  BY <1>1, BaseFacts
<1>3. InBlock(a, c) /\ a < tb_limit[c] /\ tb_limit[c] # NULL
  BY <1>1, <1>2, BaseInBuffer, SizeFacts DEF InBlock, HasBlock, NULL, Addr
<1>4. CASE tb_next[c] <= a
  <2>1. tb_limit[c] - BLK < tb_next[c] /\ tb_limit[c] \in (TRACEBASE + BLK) .. HIGH
    BY <1>3 DEF IInv, Safe, BlocksTaken, HasBlock, TypeOK
  <2>2. tb_next[c] # NULL
    BY <2>1, NumbersType, SizeFacts DEF IInv, Numbers, NULL
  <2> QED
    BY <1>3, <1>4, <2>2 DEF Unfilled
<1>5. CASE \E x \in Ctx : Covers(x, c, a)
  <2>1. PICK x \in Ctx : Covers(x, c, a)
    BY <1>5
  <2>2. myclaim[x] \in Nat /\ claimSize(x) \in Nat
    BY NumbersType DEF IInv, Numbers
  <2> QED
    BY <2>1, <2>2, <1>1 DEF Covers, Words
<1> QED
  BY <1>3, <1>4, <1>5 DEF StaleInv, StaleCovered

(* In a trace that does not wrap around, left-over data in the block a CPU *)
(* is filling is free or claimed by somebody who will judge or store the   *)
(* claim, if no entry is longer than the NOP words at the end of a block.  *)
THEOREM CurrentBlockWholeHolds ==
    ASSUME NoWrapping, ShortEntries
    PROVE  Spec => []CurrentBlockWhole
<1>1. Init => IInv /\ StaleInv
  <2>1. Init => StaleInv
    BY DEF Init, StaleInv, ShortClaims, TailsWritten, StaleCovered, InBlock, HasBlock
  <2> QED
    BY <2>1, InitIInv
<1>2. IInv /\ StaleInv /\ [Next]_vars => IInv' /\ StaleInv'
  BY NextIInv, NextStale
<1>3. IInv /\ StaleInv => CurrentBlockWhole
  BY StaleInvWhole
<1> QED
  BY <1>1, <1>2, <1>3, PTL DEF Spec
=============================================================================
