---------------------------- MODULE TraceBuffer ----------------------------
(***************************************************************************)
(* The trace-block allocator of linux/module/kutrace_mod.c.                *)
(*                                                                         *)
(* Every CPU fills a block of its own.  A trace entry claims its words     *)
(* with one atomic add on the CPU's tb->next, without a lock; an interrupt *)
(* may log entries of its own between any two steps of that claim and may  *)
(* even move the CPU to a new block.  Only taking a new block is done      *)
(* under kutrace_lock with interrupts off.                                 *)
(*                                                                         *)
(* Pointers are word addresses; the buffer starts at TRACEBASE > 0, so     *)
(* that NULL = 0 is no address of it.  A word is abstracted to what it is: *)
(* "stale" (left over from before this block was set up), "head", "nop" or *)
(* "entry".                                                                *)
(***************************************************************************)
EXTENDS Integers, Sequences

CONSTANTS
    CPU,         \* online CPUs
    NoCPU,       \* not a CPU: the place of a context that is not logging
    Ctx,         \* contexts that may be logging an entry at the same time
    BLK,         \* KUTRACEBLOCKSIZEU64, words of one trace block
    NBLOCKS,     \* blocks in the buffer: (tracemb << 20) / KUTRACEBLOCKSIZE
    HEADFIRST,   \* words initialize_trace_block fills in the very first block
    HEAD,        \* ... and in every other block
    TAIL,        \* NOP words initialize_trace_block puts at the end of a block
    MAXLEN,      \* longest entry, in words
    IPCWORDS,    \* words kept for IPC bytes: 1/8 of the buffer
    EntryLens,   \* lengths of the entries logged
    ResetFlags,  \* flag sets that KUTRACE_CMD_RESET is called with
    MaxNest,     \* bound: contexts interrupting one another on one CPU
    MaxOver,     \* bound: how far tb->next may run past tb->limit, in words
    MaxUnder     \* bound: how far traceblock_next may run below its limit

ASSUME SizesAssumption ==
    /\ BLK \in Nat /\ NBLOCKS \in Nat /\ HEADFIRST \in Nat /\ HEAD \in Nat
    /\ TAIL \in Nat /\ MAXLEN \in Nat /\ IPCWORDS \in Nat
    /\ IPCWORDS + 2 * BLK <= NBLOCKS * BLK
    /\ 1 <= HEAD /\ HEAD <= HEADFIRST
    /\ 1 <= MAXLEN /\ HEADFIRST + MAXLEN < BLK

(* tracemb << (20 - 3) bytes are whole blocks.                             *)
ASSUME IpcAssumption == IPCWORDS % BLK = 0

ASSUME InputsAssumption ==
    /\ EntryLens \subseteq 1..MAXLEN
    /\ ResetFlags \subseteq SUBSET {"IPC", "LLC", "WRAP"}
    /\ NoCPU \notin CPU
    /\ MaxNest \in Nat /\ MaxOver \in Nat /\ MaxUnder \in Nat

VARIABLES
    kutrace_tracing,   \* tracing is on
    flags,             \* do_ipc, do_llc, do_wrap
    did_wrap_around,
    traceblock_limit,  \* low end of the memory for trace blocks
    traceblock_next,   \* just above the next block to hand out
    tb_next,           \* tb_next[c]: next free word of CPU c's block, or NULL
    tb_limit,          \* tb_limit[c]: end of CPU c's block, or NULL
    prior,             \* prior[c]: tb->prior_cycles of CPU c is not zero
    mem,               \* mem[a]: what word a of the buffer holds
    stack,             \* stack[c]: contexts on CPU c, the interrupting one last
    pc,                \* where each context is in logging its entry
    cpu,               \* the CPU it logs on
    len,               \* length of its entry, in words
    tsd,               \* 1 if it also claims a word for a TSDELTA entry, else 0
    limit_item,        \* its local limit_item
    myclaim            \* its local myclaim

ctxVars == <<stack, pc, cpu, len, tsd, limit_item, myclaim>>
vars == <<kutrace_tracing, flags, did_wrap_around, traceblock_limit,
          traceblock_next, tb_next, tb_limit, prior, mem, ctxVars>>

NULL == 0
TRACEBASE == BLK
HIGH == TRACEBASE + NBLOCKS * BLK      \* traceblock_high
Addr == TRACEBASE .. (HIGH - 1)
Words(lo, n) == lo .. (lo + n - 1)
do_wrap == "WRAP" \in flags

(***************************************************************************)
(* Contexts.  Interrupts nest: on each CPU only the last context runs.     *)
(***************************************************************************)

claimSize(x) == len[x] + tsd[x]        \* the len argument of get_claim

Running(x) == stack[cpu[x]] # <<>> /\ stack[cpu[x]][Len(stack[cpu[x]])] = x

Pop(c) == [stack EXCEPT ![c] = SubSeq(@, 1, Len(@) - 1)]

Goto(x, there) == pc' = [pc EXCEPT ![x] = there]

(* x returns from its insert; its locals are gone.                         *)
Return(x) ==
    /\ Goto(x, "idle")
    /\ cpu' = [cpu EXCEPT ![x] = NoCPU]
    /\ len' = [len EXCEPT ![x] = 1]
    /\ tsd' = [tsd EXCEPT ![x] = 0]
    /\ limit_item' = [limit_item EXCEPT ![x] = NULL]
    /\ myclaim' = [myclaim EXCEPT ![x] = NULL]

(* No insert is under way: what the 20 msec sleep in DoOff waits for.      *)
Quiet == \A x \in Ctx : pc[x] = "idle"

Bounded(c) == /\ tb_next[c] <= tb_limit[c] + MaxOver
              /\ traceblock_next >= traceblock_limit - MaxUnder * BLK

(* insert_1, insert_2, insert_n_krnl and insert_n_user up to the call of   *)
(* get_claim.  The hooks in the kernel and the control calls test          *)
(* kutrace_tracing first; the commands ~INSERT1 and ~INSERTN, made by a    *)
(* task that interrupts nobody, do not.  A TSDELTA word is added whenever  *)
(* the time since the CPU's last entry is large and it is not its first.   *)
Insert(x, c) ==
    /\ pc[x] = "idle"
    /\ Len(stack[c]) <= MaxNest
    /\ kutrace_tracing \/ stack[c] = <<>>
    /\ Bounded(c)
    /\ \E n \in EntryLens, d \in {0, 1} :
          /\ d = 1 => prior[c]
          /\ len' = [len EXCEPT ![x] = n]
          /\ tsd' = [tsd EXCEPT ![x] = d]
    /\ stack' = [stack EXCEPT ![c] = Append(@, x)]
    /\ cpu' = [cpu EXCEPT ![x] = c]
    /\ Goto(x, "limit")
    /\ UNCHANGED <<kutrace_tracing, flags, did_wrap_around, traceblock_limit,
                   traceblock_next, tb_next, tb_limit, prior, mem, limit_item,
                   myclaim>>

(* get_claim returns address a: insert_1 stores while it still has the     *)
(* CPU, the longer inserts let go of it first.  tb->prior_cycles = now.    *)
Granted(x, a) ==
    /\ myclaim' = [myclaim EXCEPT ![x] = a]
    /\ Goto(x, "store")
    /\ stack' = IF len[x] = 1 THEN stack ELSE Pop(cpu[x])
    /\ prior' = [prior EXCEPT ![cpu[x]] = TRUE]
    /\ limit_item' = [limit_item EXCEPT ![x] = NULL]
    /\ UNCHANGED <<cpu, len, tsd>>

(* get_claim returns NULL: nothing is inserted.                            *)
Refused(x) ==
    /\ Return(x)
    /\ stack' = Pop(cpu[x])
    /\ prior' = [prior EXCEPT ![cpu[x]] = TRUE]

(***************************************************************************)
(* get_claim, the fast path                                                *)
(***************************************************************************)

(* limit_item = tb->limit; a CPU without a block goes to the slow path.    *)
ReadLimit(x) ==
    /\ pc[x] = "limit" /\ Running(x)
    /\ limit_item' = [limit_item EXCEPT ![x] = tb_limit[cpu[x]]]
    /\ Goto(x, IF tb_limit[cpu[x]] = NULL THEN "slow" ELSE "add")
    /\ UNCHANGED <<kutrace_tracing, flags, did_wrap_around, traceblock_limit,
                   traceblock_next, tb_next, tb_limit, prior, mem, stack, cpu,
                   len, tsd, myclaim>>

(* Mutant: the word of the TSDELTA entry is not reserved.                  *)
AddNext_NoTsdelta(x) ==
    /\ pc[x] = "add" /\ Running(x)
    /\ myclaim' = [myclaim EXCEPT ![x] = tb_next[cpu[x]]]
    /\ tb_next' = [tb_next EXCEPT ![cpu[x]] = @ + len[x]]
    /\ Goto(x, "recheck")
    /\ UNCHANGED <<kutrace_tracing, flags, did_wrap_around, traceblock_limit,
                   traceblock_next, tb_limit, prior, mem, stack, cpu, len, tsd,
                   limit_item>>

(* myclaim = ATOMIC_ADD_RETURN(len, &tb->next) - len.                      *)
AddNext(x) ==
    /\ pc[x] = "add" /\ Running(x)
    /\ myclaim' = [myclaim EXCEPT ![x] = tb_next[cpu[x]]]
    /\ tb_next' = [tb_next EXCEPT ![cpu[x]] = @ + claimSize(x)]
    /\ Goto(x, "recheck")
    /\ UNCHANGED <<kutrace_tracing, flags, did_wrap_around, traceblock_limit,
                   traceblock_next, tb_limit, prior, mem, stack, cpu, len, tsd,
                   limit_item>>

(* The claim can be judged against the block ending at again: either no    *)
(* block change happened, or the claim is in the new block.                *)
ClaimInBlock(claim, before, again) ==
    \/ before = again
    \/ claim < again /\ again - BLK <= claim

(* Mutant: only the start of the claim is compared.                        *)
ClaimFits_StartOnly(claim, n, lim) == claim < lim

(* The entire claim, n words, fits in the block ending at lim.             *)
ClaimFits(claim, n, lim) == claim + n < lim

(* limit_item_again = tb->limit, and what the loop decides from it.        *)
RecheckKeep(x) ==
    LET again == tb_limit[cpu[x]] IN
    /\ pc[x] = "recheck" /\ Running(x)
    /\ ClaimInBlock(myclaim[x], limit_item[x], again)
    /\ ClaimFits(myclaim[x], claimSize(x), again)
    /\ Granted(x, myclaim[x])
    /\ UNCHANGED <<kutrace_tracing, flags, did_wrap_around, traceblock_limit,
                   traceblock_next, tb_next, tb_limit, mem>>

RecheckSlow(x) ==
    LET again == tb_limit[cpu[x]] IN
    /\ pc[x] = "recheck" /\ Running(x)
    /\ ClaimInBlock(myclaim[x], limit_item[x], again)
    /\ ~ ClaimFits(myclaim[x], claimSize(x), again)
    /\ Goto(x, "slow")
    /\ UNCHANGED <<kutrace_tracing, flags, did_wrap_around, traceblock_limit,
                   traceblock_next, tb_next, tb_limit, prior, mem, stack, cpu,
                   len, tsd, limit_item, myclaim>>

(* Mutant: tests the old claim again instead of claiming again.            *)
RecheckRetry_SameClaim(x) ==
    /\ pc[x] = "recheck" /\ Running(x)
    /\ ~ ClaimInBlock(myclaim[x], limit_item[x], tb_limit[cpu[x]])
    /\ Goto(x, "recheck")
    /\ UNCHANGED <<kutrace_tracing, flags, did_wrap_around, traceblock_limit,
                   traceblock_next, tb_next, tb_limit, prior, mem, stack, cpu,
                   len, tsd, limit_item, myclaim>>

RecheckRetry(x) ==
    /\ pc[x] = "recheck" /\ Running(x)
    /\ ~ ClaimInBlock(myclaim[x], limit_item[x], tb_limit[cpu[x]])
    /\ Goto(x, "limit")
    /\ UNCHANGED <<kutrace_tracing, flags, did_wrap_around, traceblock_limit,
                   traceblock_next, tb_next, tb_limit, prior, mem, stack, cpu,
                   len, tsd, limit_item, myclaim>>

(***************************************************************************)
(* get_slow_claim and really_get_slow_claim: one step, since they run with *)
(* interrupts off and hold the lock that guards traceblock_next.           *)
(***************************************************************************)

is_bad_len(n) == n < 1 \/ n > MAXLEN

(* is_bad_len stops tracing before the lock is even taken.                 *)
SlowBadLen(x) ==
    /\ pc[x] = "slow" /\ Running(x)
    /\ is_bad_len(claimSize(x))
    /\ kutrace_tracing' = FALSE
    /\ Refused(x)
    /\ UNCHANGED <<flags, did_wrap_around, traceblock_limit, traceblock_next,
                   tb_next, tb_limit, mem>>

(* The second attempt, under the lock, still needs a new block.            *)
NeedsBlock(c, n) == tb_limit[c] = NULL \/ ~ ClaimFits(tb_next[c], n, tb_limit[c])

(* Mutant: takes tb->next without advancing it.                            *)
SlowFits_NoAdvance(x) ==
    /\ pc[x] = "slow" /\ Running(x)
    /\ ~ is_bad_len(claimSize(x))
    /\ ~ NeedsBlock(cpu[x], claimSize(x))
    /\ Granted(x, tb_next[cpu[x]])
    /\ UNCHANGED <<kutrace_tracing, flags, did_wrap_around, traceblock_limit,
                   traceblock_next, tb_next, tb_limit, mem>>

(* An interrupt has taken a new block already and the claim fits there.    *)
SlowFits(x) ==
    LET c == cpu[x] IN
    /\ pc[x] = "slow" /\ Running(x)
    /\ ~ is_bad_len(claimSize(x))
    /\ ~ NeedsBlock(c, claimSize(x))
    /\ tb_next' = [tb_next EXCEPT ![c] = @ + claimSize(x)]
    /\ Granted(x, tb_next[c])
    /\ UNCHANGED <<kutrace_tracing, flags, did_wrap_around, traceblock_limit,
                   traceblock_next, tb_limit, mem>>

(* All blocks below traceblock_next are used up.                           *)
NoBlockLeft == traceblock_next - BLK < traceblock_limit

(* Mutant: wraps to traceblock[0].                                         *)
NextBlock_WrapToZero ==
    IF NoBlockLeft THEN HIGH - BLK ELSE traceblock_next - BLK

(* traceblock_next after an allocation: allocations grow downward, and     *)
(* wrap to traceblock[1], not [0].                                         *)
NextBlock == IF NoBlockLeft THEN HIGH - 2 * BLK ELSE traceblock_next - BLK

(* Words initialize_trace_block fills at the front of the new block.       *)
HeadSize == IF traceblock_next = HIGH THEN HEADFIRST ELSE HEAD

(* Mutant: one NOP word too few at the end.                                *)
InitBlock_ShortTail(b) ==
    [a \in Addr |->
        IF a < b \/ a >= b + BLK  THEN mem[a]
        ELSE IF a < b + HeadSize  THEN "head"
        ELSE IF a >= b + BLK - (TAIL - 1) THEN "nop"
        ELSE "stale"]

(* initialize_trace_block(b): front and NOP tail are written, the words    *)
(* between them still hold whatever was there.                             *)
InitBlock(b) ==
    [a \in Addr |->
        IF a < b \/ a >= b + BLK  THEN mem[a]
        ELSE IF a < b + HeadSize  THEN "head"
        ELSE IF a >= b + BLK - TAIL THEN "nop"
        ELSE "stale"]

SlowNewBlock(x) ==
    LET c == cpu[x]
        b == NextBlock
    IN
    /\ pc[x] = "slow" /\ Running(x)
    /\ ~ is_bad_len(claimSize(x))
    /\ NeedsBlock(c, claimSize(x))
    /\ NoBlockLeft => do_wrap
    /\ did_wrap_around' = (did_wrap_around \/ NoBlockLeft)
    /\ traceblock_next' = b
    /\ mem' = InitBlock(b)
    /\ tb_next' = [tb_next EXCEPT ![c] = b + HeadSize + claimSize(x)]
    /\ tb_limit' = [tb_limit EXCEPT ![c] = b + BLK]
    /\ Granted(x, b + HeadSize)
    /\ UNCHANGED <<kutrace_tracing, flags, traceblock_limit>>

(* All full. Stop and get out.                                             *)
SlowFull(x) ==
    LET c == cpu[x] IN
    /\ pc[x] = "slow" /\ Running(x)
    /\ ~ is_bad_len(claimSize(x))
    /\ NeedsBlock(c, claimSize(x))
    /\ NoBlockLeft /\ ~ do_wrap
    /\ traceblock_next' = traceblock_next - BLK
    /\ tb_next' = [tb_next EXCEPT ![c] = @ + claimSize(x)]
    /\ kutrace_tracing' = FALSE
    /\ Refused(x)
    /\ UNCHANGED <<flags, did_wrap_around, traceblock_limit, tb_limit, mem>>

(* claim[0..len-1] = the entry, after the TSDELTA word if there is one.    *)
Store(x) ==
    /\ pc[x] = "store"
    /\ len[x] = 1 => Running(x)
    /\ mem' = [a \in Addr |->
                 IF a \in Words(myclaim[x], claimSize(x)) THEN "entry"
                 ELSE mem[a]]
    /\ stack' = IF len[x] = 1 THEN Pop(cpu[x]) ELSE stack
    /\ Return(x)
    /\ UNCHANGED <<kutrace_tracing, flags, did_wrap_around, traceblock_limit,
                   traceblock_next, tb_next, tb_limit, prior>>

(***************************************************************************)
(* kutrace_control: the commands that touch this state                     *)
(***************************************************************************)

do_trace_on ==
    /\ kutrace_tracing' = TRUE
    /\ UNCHANGED <<flags, did_wrap_around, traceblock_limit, traceblock_next,
                   tb_next, tb_limit, prior, mem, ctxVars>>

(* do_trace_off, and the read-out commands GETCOUNT, GETWORD, GETIPCWORD,  *)
(* GET4KB and GETIPC4KB, which turn tracing off and otherwise only read.   *)
do_trace_off ==
    /\ kutrace_tracing' = FALSE
    /\ UNCHANGED <<flags, did_wrap_around, traceblock_limit, traceblock_next,
                   tb_next, tb_limit, prior, mem, ctxVars>>

(* CPU c has a block with words left over.                                 *)
Unfilled(c) == {a \in Addr : /\ tb_next[c] # NULL /\ tb_limit[c] # NULL
                             /\ tb_next[c] <= a /\ a < tb_limit[c]}

(* Should already be off, says the code of kutrace_tracing.                *)
do_flush ==
    /\ kutrace_tracing' = FALSE
    /\ mem' = [a \in Addr |->
                 IF \E c \in CPU : a \in Unfilled(c) THEN "nop" ELSE mem[a]]
    /\ tb_next' = [c \in CPU |->
                     IF tb_next[c] # NULL /\ tb_limit[c] # NULL
                     THEN tb_limit[c] ELSE tb_next[c]]
    /\ UNCHANGED <<flags, did_wrap_around, traceblock_limit, traceblock_next,
                   tb_limit, prior, ctxVars>>

(* Low end of the trace blocks: the lower 1/8 of the buffer is kept for    *)
(* IPC bytes when IPC or LLC is traced.                                    *)
LimitFor(f) == IF f \cap {"IPC", "LLC"} # {}
               THEN TRACEBASE + IPCWORDS
               ELSE TRACEBASE

(* What the buffer held before is now left-over data.                      *)
do_reset(f) ==
    /\ kutrace_tracing' = FALSE
    /\ flags' = f
    /\ did_wrap_around' = FALSE
    /\ traceblock_limit' = LimitFor(f)
    /\ traceblock_next' = HIGH
    /\ tb_next' = [c \in CPU |-> NULL]
    /\ tb_limit' = [c \in CPU |-> NULL]
    /\ prior' = [c \in CPU |-> FALSE]
    /\ mem' = [a \in Addr |-> "stale"]
    /\ UNCHANGED ctxVars

(***************************************************************************)
(* The specification                                                       *)
(***************************************************************************)

(* kutrace_mod_init ends with do_reset(0).                                 *)
Init ==
    /\ kutrace_tracing = FALSE
    /\ flags = {}
    /\ did_wrap_around = FALSE
    /\ traceblock_limit = LimitFor({})
    /\ traceblock_next = HIGH
    /\ tb_next = [c \in CPU |-> NULL]
    /\ tb_limit = [c \in CPU |-> NULL]
    /\ prior = [c \in CPU |-> FALSE]
    /\ mem = [a \in Addr |-> "stale"]
    /\ stack = [c \in CPU |-> <<>>]
    /\ pc = [x \in Ctx |-> "idle"]
    /\ cpu = [x \in Ctx |-> NoCPU]
    /\ len = [x \in Ctx |-> 1]
    /\ tsd = [x \in Ctx |-> 0]
    /\ limit_item = [x \in Ctx |-> NULL]
    /\ myclaim = [x \in Ctx |-> NULL]

Step(x) ==
    \/ ReadLimit(x) \/ AddNext(x)
    \/ RecheckKeep(x) \/ RecheckSlow(x) \/ RecheckRetry(x)
    \/ SlowBadLen(x) \/ SlowFits(x) \/ SlowNewBlock(x) \/ SlowFull(x)
    \/ Store(x)

(* The commands kutrace_control accepts.  The module does not ask, but its *)
(* comments say that tracing must be off for FLUSH and RESET: the caller   *)
(* has turned it off and has waited for the inserts under way.             *)
Control == \/ do_trace_on \/ do_trace_off
           \/ Quiet /\ do_flush
           \/ \E f \in ResetFlags : Quiet /\ do_reset(f)

Next == \/ \E x \in Ctx, c \in CPU : Insert(x, c)
        \/ \E x \in Ctx : Step(x)
        \/ Control

Spec == Init /\ [][Next]_vars

(***************************************************************************)
(* Properties                                                              *)
(***************************************************************************)

(* Type invariant.                                                         *)
TypeOK ==
    /\ kutrace_tracing \in BOOLEAN /\ did_wrap_around \in BOOLEAN
    /\ flags \in SUBSET {"IPC", "LLC", "WRAP"}
    /\ traceblock_limit \in TRACEBASE .. (HIGH - 2 * BLK)
    /\ traceblock_next \in Int /\ traceblock_next <= HIGH
    /\ tb_next \in [CPU -> Nat]
    /\ tb_limit \in [CPU -> {NULL} \cup ((TRACEBASE + BLK) .. HIGH)]
    /\ prior \in [CPU -> BOOLEAN]
    /\ mem \in [Addr -> {"stale", "head", "nop", "entry"}]
    /\ stack \in [CPU -> Seq(Ctx)]
    /\ pc \in [Ctx -> {"idle", "limit", "add", "recheck", "slow", "store"}]
    /\ cpu \in [Ctx -> CPU \cup {NoCPU}]
    /\ \A x \in Ctx : pc[x] # "idle" => cpu[x] \in CPU
    /\ len \in [Ctx -> 1..MAXLEN] /\ tsd \in [Ctx -> {0, 1}]
    /\ limit_item \in [Ctx -> Nat] /\ myclaim \in [Ctx -> Nat]

(* The words x may store into.                                             *)
Held(x) == IF pc[x] = "store" THEN Words(myclaim[x], claimSize(x)) ELSE {}

(* get_claim "must carefully either reserve an exclusive area to use or    *)
(* must call the slow path": no two contexts hold the same word, on one    *)
(* CPU or on two.                                                          *)
ExclusiveClaims ==
    \A x, y \in Ctx : x # y => Held(x) \cap Held(y) = {}

BlockBase(a) == a - (a % BLK)

(* "Trace entries do not cross block boundaries": a claim is inside one    *)
(* block that has been set up, and behind the words at its front.          *)
EntriesInsideBlock ==
    \A x \in Ctx : pc[x] = "store" =>
        /\ BlockBase(myclaim[x]) = BlockBase(myclaim[x] + claimSize(x) - 1)
        /\ mem[BlockBase(myclaim[x])] = "head"
        /\ \A a \in Held(x) : mem[a] # "head"

(* Mutant: does not expect traceblock_next to overshoot.                   *)
get_count_NoOvershoot == IF did_wrap_around THEN HIGH - traceblock_limit
                         ELSE HIGH - traceblock_next

(* get_count and do_stat: words to read out. traceblock_next may have      *)
(* overshot its limit when the buffer is full.                             *)
get_count == IF did_wrap_around \/ traceblock_next < traceblock_limit
             THEN HIGH - traceblock_limit
             ELSE HIGH - traceblock_next

(* get_word(subscr): the address word subscr is read from.                 *)
get_word(subscr) ==
    HIGH - ((subscr \div BLK) + 1) * BLK + (subscr % BLK)

(* Reading words 0 .. get_count-1 reads exactly the blocks that were       *)
(* handed out, none missing and none that was never set up: the first word *)
(* of such a block is no longer what it was before the reset.              *)
ReadOutComplete ==
    {get_word(s) : s \in 0 .. (get_count - 1)}
        = {a \in Addr : mem[BlockBase(a)] # "stale"}

(* Left-over data in the block a CPU is filling is still free, or claimed  *)
(* by somebody who will judge or store the claim: what get_claim and the   *)
(* NOP words at the end let slip through lies in blocks left behind.       *)
CurrentBlockWhole ==
    \A a \in Addr :
        mem[a] = "stale" /\ (\E c \in CPU : tb_limit[c] = BlockBase(a) + BLK) =>
            \/ \E c \in CPU : a \in Unfilled(c)
            \/ \E x \in Ctx : pc[x] \in {"recheck", "store"}
                              /\ a \in Words(myclaim[x], claimSize(x))

(* A trace without wraparound keeps the promise of ClaimSpace: entries are *)
(* granted fresh words, and a stored entry stays until the next reset.     *)
Promise == INSTANCE ClaimSpace
    WITH held <- [x \in Ctx |-> Held(x)],
         done <- {a \in Addr : mem[a] = "entry"},
         MaxRun <- MAXLEN + 1

ImplementsClaimSpace == Promise!Spec

(* "Wrap to traceblock[1], not [0]": when the trace wraps around, the very *)
(* first block, which holds the start time pair and the names, keeps every *)
(* word written to it.                                                     *)
FirstBlockSurvives ==
    [][traceblock_next' # HIGH =>
         \A a \in Words(HIGH - BLK, BLK) :
            mem[a] \in {"head", "entry"} => mem'[a] = mem[a]]_vars

(* Every entry that is begun is stored or refused: get_claim's loop ends,  *)
(* unless the trace wraps around, when interrupts could change the block   *)
(* between its reads for ever.                                             *)
InsertEnds ==
    \A x \in Ctx : pc[x] # "idle" /\ ~do_wrap ~> pc[x] = "idle"

(* A context that interrupts another one runs to its end, and a task that  *)
(* is interrupted again and again still gets to run.                       *)
FairSpec == Spec /\ \A x \in Ctx : SF_vars(Step(x))
=============================================================================
