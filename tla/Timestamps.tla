----------------------------- MODULE Timestamps -----------------------------
(***************************************************************************)
(* Time in a trace: what the inserts of linux/module/kutrace_mod.c record  *)
(* of it on one CPU, and what postproc/rawtoevent.cc makes of the record.  *)
(*                                                                         *)
(* An entry keeps only the low 20 bits of its time, t.  When the time      *)
(* since the CPU's previous entry would not be clear from t, a TSDELTA     *)
(* word with the full difference precedes it.  rawtoevent works through a  *)
(* block word by word and guesses the high bits back.                      *)
(*                                                                         *)
(* An insert reads the clock, reads tb->prior_cycles, claims its words and *)
(* sets tb->prior_cycles, and may be interrupted between any two of these  *)
(* by a handler that logs an entry of its own.  The thread modelled makes  *)
(* calls, one after the other.  Most returns are not logged: they are      *)
(* merged into the word of their call if that is still the last one.       *)
(***************************************************************************)
EXTENDS Integers, Sequences

CONSTANTS
    PERIOD,      \* 2^20, the time t wraps after
    FORWARD,     \* kLateStoreThresh of the module, 7/8 of PERIOD
    LATE,        \* kLateStoreThresh of rawtoevent, 1/8 of PERIOD
    SLACK,       \* how far back Wrapped lets time go
    ARG,         \* 2^32, the range of a TSDELTA argument
    LARGE,       \* kLargeTsdelta: arguments from here on are negative
    MAXDELTA,    \* MAX_DELTA_VALUE, the longest call a return is merged into
    BlockWords,  \* words for entries in a block
    Gaps,        \* time that passes before an insert reads the clock
    InitGaps,    \* time that passes before a new block's clock is read
    FirstClock,  \* bound: the clock when tracing starts
    LastClock    \* bound: no insert starts after this time

ASSUME SizesAssumption ==
    /\ PERIOD \in Nat /\ FORWARD \in Nat /\ LATE \in Nat /\ SLACK \in Nat
    /\ ARG \in Nat /\ LARGE \in Nat
    /\ SLACK <= LATE /\ FORWARD + LATE = PERIOD
    /\ PERIOD < LARGE /\ 2 * LARGE < ARG
    /\ MAXDELTA \in 1..(PERIOD - 1)

ASSUME InputsAssumption ==
    /\ BlockWords \in Nat /\ 2 <= BlockWords
    /\ Gaps \subseteq Nat /\ InitGaps \subseteq Nat
    /\ FirstClock \in Nat \ {0} /\ LastClock \in Nat

VARIABLES
    clock,         \* ku_get_timecount
    prior_cycles,  \* tb->prior_cycles, 0 before the CPU's first entry
    base,          \* cycle counter at the front of the CPU's block
    block,         \* the words behind it
    pc,            \* where the insert is
    now, delta,    \* its locals now and delta_cycles
    prior_entry,   \* its local of that name: the word, and where it is in the
                   \* block (0 when that is no longer the CPU's block)
    incall,        \* when the call in progress was made, 0 if none is
    raced          \* history: an interrupt came while an insert had read
                   \* prior_cycles and not yet set it

locals == <<now, delta, prior_entry>>
vars == <<clock, prior_cycles, base, block, pc, locals, incall, raced>>

(* A word: t is the recorded time, arg the argument of a TSDELTA word, ret *)
(* the delta_t of a return merged into a call.  Not in the trace: at, when *)
(* the entry was taken; of and ends, when the call of the merged return    *)
(* was made and when it ended.                                             *)
Word == [kind : {"event", "call", "return", "TSDELTA"}, t : 0..(PERIOD - 1),
         arg : 0..(ARG - 1), ret : 0..MAXDELTA, at : Nat, of : Nat, ends : Nat]

NoPrior == [at |-> 0, word |-> <<>>]

(***************************************************************************)
(* The module                                                              *)
(***************************************************************************)

(* Mutant: a negative difference is not recognised.                        *)
LateStoreOrLarge_Signed(d) == d > FORWARD

(* The difference is a u64: what goes backward is larger than FORWARD.     *)
LateStoreOrLarge(d) == d < 0 \/ d > FORWARD

(* The words of an entry of some kind, taken at time n, d after the one    *)
(* before it.                                                              *)
Entry(kind, n, d) ==
    LET w(k, arg) == [kind |-> k, t |-> n % PERIOD, arg |-> arg, ret |-> 0,
                      at |-> n, of |-> 0, ends |-> 0]
    IN  IF LateStoreOrLarge(d) /\ prior_cycles # 0
        THEN <<w("TSDELTA", d % ARG), w(kind, 0)>>
        ELSE <<w(kind, 0)>>

(* get_claim_with_tsdelta: the words go behind the others if the block has *)
(* room, and to a new block that reads the clock for itself if it has not. *)
(* The CPU's first entry starts its first block.                           *)
AddEntry(kind, n, d) ==
    LET e == Entry(kind, n, d) IN
    \/ /\ prior_cycles # 0 /\ Len(block) + Len(e) <= BlockWords
       /\ block' = block \o e
       /\ UNCHANGED <<base, prior_entry>>
    \/ /\ prior_cycles = 0 \/ Len(block) + Len(e) > BlockWords
       /\ block' = e
       /\ base' = clock'
       /\ prior_entry' = [prior_entry EXCEPT !.at = 0]

(* u64 now = ku_get_timecount(), in insert_1, or in insert_1_retopt for a  *)
(* return whose value fits in a byte, or in insert_1 after that.           *)
GetTime ==
    /\ pc = "again" \/ (pc = "idle" /\ clock <= LastClock)
    /\ \E g \in Gaps : clock' = clock + g
    /\ now' = clock'
    /\ \/ pc' = "timed"
       \/ pc = "idle" /\ incall # 0 /\ pc' = "opt"
    /\ UNCHANGED <<prior_cycles, base, block, delta, prior_entry, incall, raced>>

(* get_prior: the word before tb->next, if the block is not full.          *)
GetPrior ==
    /\ pc = "opt"
    /\ \/ /\ 0 < Len(block) /\ Len(block) < BlockWords
          /\ prior_entry' = [at |-> Len(block), word |-> <<block[Len(block)]>>]
          /\ pc' = "prior"
       \/ /\ block = <<>> \/ Len(block) = BlockWords
          /\ pc' = "again"
          /\ UNCHANGED prior_entry
    /\ UNCHANGED <<clock, prior_cycles, base, block, now, delta, incall, raced>>

(* Mutant: the time is read once more when the return is merged.           *)
delta_t_Now(w) == (clock - w.t) % PERIOD

delta_t(w) == (now - w.t) % PERIOD

(* A call with no return in it yet, and a time that fits.                  *)
Mergeable(w) == w.kind = "call" /\ w.ret = 0 /\ delta_t(w) <= MAXDELTA

(* *prior_entry |= opt_ret, wherever that is by now.                       *)
Merge ==
    /\ pc = "prior" /\ Mergeable(prior_entry.word[1])
    /\ LET w == prior_entry.word[1]
           d == IF delta_t(w) = 0 THEN 1 ELSE delta_t(w)
       IN  block' = IF prior_entry.at = 0 THEN block
                    ELSE [block EXCEPT ![prior_entry.at].ret = d,
                                       ![prior_entry.at].of = incall, ![prior_entry.at].ends = now]
    /\ pc' = "idle" /\ now' = 0 /\ prior_entry' = NoPrior /\ incall' = 0
    /\ UNCHANGED <<clock, prior_cycles, base, delta, raced>>

(* Otherwise, fall into normal insert_1.                                   *)
NoMerge ==
    /\ pc = "prior" /\ ~Mergeable(prior_entry.word[1])
    /\ pc' = "again" /\ prior_entry' = NoPrior
    /\ UNCHANGED <<clock, prior_cycles, base, block, now, delta, incall, raced>>

(* delta_cycles = now - tb->prior_cycles, with preemption off.             *)
GetDelta ==
    /\ pc = "timed"
    /\ delta' = now - prior_cycles
    /\ pc' = "delta"
    /\ UNCHANGED <<clock, prior_cycles, base, block, now, prior_entry, incall, raced>>

Claim ==
    /\ pc = "delta"
    /\ \E g \in InitGaps : clock' = clock + g
    /\ AddEntry(IF incall = 0 THEN "call" ELSE "return", now, delta)
    /\ pc' = "claimed"
    /\ UNCHANGED <<prior_cycles, now, delta, incall, raced>>

(* tb->prior_cycles = now.                                                 *)
SetPrior ==
    /\ pc = "claimed"
    /\ prior_cycles' = now
    /\ pc' = "idle" /\ now' = 0 /\ delta' = 0
    /\ incall' = IF incall = 0 THEN now ELSE 0
    /\ UNCHANGED <<clock, base, block, prior_entry, raced>>

(* An interrupt logs an entry, from reading the clock to prior_cycles =    *)
(* now, before the interrupted insert goes on.                             *)
Interrupt ==
    /\ clock <= LastClock
    /\ prior_cycles # 0
    /\ \E g \in Gaps, i \in InitGaps :
          /\ clock' = clock + g + i
          /\ AddEntry("event", clock + g, clock + g - prior_cycles)
          /\ prior_cycles' = clock + g
    /\ raced' = (raced \/ pc \in {"delta", "claimed"})
    /\ UNCHANGED <<pc, now, delta, incall>>

Init ==
    /\ clock = FirstClock /\ prior_cycles = 0
    /\ base = 0 /\ block = <<>>
    /\ pc = "idle" /\ now = 0 /\ delta = 0 /\ prior_entry = NoPrior
    /\ incall = 0 /\ raced = FALSE

Next == GetTime \/ GetPrior \/ Merge \/ NoMerge \/ GetDelta \/ Claim \/ SetPrior
        \/ Interrupt

Spec == Init /\ [][Next]_vars

(***************************************************************************)
(* rawtoevent: from the words of a block to the times of its entries       *)
(***************************************************************************)

Low(full) == full % PERIOD
High(full) == full - Low(full)         \* full & ~0xfffff

Wrapped(prior, t) == prior > t + SLACK

LateStore(prior, t) == t < prior /\ prior <= t + LATE

(* The word taken for the first entry is the PID word, whose top 20 bits   *)
(* are zero: first_real_entry moves behind the PID and name words later.   *)
FirstTimestamp == 0

(* prepend and prior_t before the first entry.                             *)
StartOfBlock ==
    [prepend |-> IF Wrapped(FirstTimestamp, base)
                 THEN High(base) - PERIOD ELSE High(base),
     prior_t |-> FirstTimestamp]

(* argall, sign extended.                                                  *)
Signed(arg) == IF arg < LARGE THEN arg ELSE arg - ARG

(* Mutant: every step back of t is a wrap.                                 *)
Rollover_Always(prior, t) == prior > t

(* The truncated time rolls over and not because of a late store.          *)
Rollover(prior, t) == Wrapped(prior, t) /\ ~ LateStore(prior, t)

(* prepend and prior_t after word w.                                       *)
DecodeWord(s, w) ==
    IF w.kind = "TSDELTA"
    THEN LET newfull == s.prepend + s.prior_t + Signed(w.arg)
         IN  [prepend |-> High(newfull), prior_t |-> Low(newfull)]
    ELSE [prepend |-> s.prepend + (IF Rollover(s.prior_t, w.t)
                                   THEN PERIOD ELSE 0),
          prior_t |-> w.t]

(* decode[i]: prepend and prior_t after the first i words of the block.    *)
decode ==
    LET d[i \in 0..Len(block)] ==
            IF i = 0 THEN StartOfBlock ELSE DecodeWord(d[i - 1], block[i])
    IN  d

tfull(i) == decode[i].prepend + decode[i].prior_t

(***************************************************************************)
(* Properties                                                              *)
(***************************************************************************)

(* Type invariant.                                                         *)
TypeOK ==
    /\ clock \in Nat /\ prior_cycles \in Nat /\ base \in Nat
    /\ block \in Seq(Word) /\ Len(block) <= BlockWords
    /\ pc \in {"idle", "opt", "prior", "again", "timed", "delta", "claimed"}
    /\ now \in Nat /\ delta \in Int /\ incall \in Nat /\ raced \in BOOLEAN
    /\ prior_entry \in [at : 0..BlockWords, word : Seq(Word)]
    /\ Len(prior_entry.word) <= 1

Events == {i \in 1..Len(block) : block[i].kind # "TSDELTA"}

(* Event i has a TSDELTA word in front of it.                              *)
HasDelta(i) == i > 1 /\ block[i - 1].kind = "TSDELTA"

(* The event before event i in the block, or 0.                            *)
Before(i) == IF HasDelta(i) THEN i - 2 ELSE i - 1

Gap(i) == block[i].at - block[Before(i)].at

(* A TSDELTA word can say it.                                              *)
Fits(gap) == gap < LARGE /\ -LARGE < gap

(* The trace says how far event i is from the one before it: by a TSDELTA  *)
(* word, or because it is less than 7/8 of a period later, or a late store *)
(* in the same period.                                                     *)
GapRecorded(i) ==
    \/ HasDelta(i) /\ block[i - 1].arg = Gap(i) % ARG /\ Fits(Gap(i))
    \/ ~ HasDelta(i) /\ 0 <= Gap(i) /\ Gap(i) < FORWARD
    \/ /\ ~ HasDelta(i)
       /\ -LATE <= Gap(i) /\ Gap(i) < 0
       /\ High(block[i].at) = High(block[i - 1].at)

(* The start of the block is not ambiguous: no TSDELTA word, and the entry *)
(* was taken in the period the block was set up in.                        *)
StartRecorded == block[1].kind # "TSDELTA" /\ High(block[1].at) = High(base)

(* The ways in which an entry's time can be lost are those of GapRecorded  *)
(* and StartRecorded and no others: an entry is dated right, whatever the  *)
(* gaps and late stores before it, if all of them were recorded.           *)
TimesRecovered ==
    block # <<>> /\ StartRecorded =>
        \A i \in Events :
            (\A j \in Events : 1 < j /\ j <= i => GapRecorded(j))
            => tfull(i) = block[i].at

(* A return that is merged into a call is of that call, and no entry after *)
(* it was taken before the call had ended; the call's length is right, but *)
(* for a call of 0 ticks, which is shown 1 tick long, if it took less than *)
(* a period.  (A call of a whole number of periods and up to MAXDELTA more *)
(* with no entry inside is made to look short.)                            *)
ReturnsTrue ==
    \A i \in Events : block[i].ret # 0 =>
        LET length == block[i].ends - block[i].at IN
        /\ block[i].of = block[i].at
        /\ \A j \in Events : i < j => block[i].ends <= block[j].at
        /\ length < PERIOD => block[i].ret = IF length = 0 THEN 1 ELSE length

(* The module records every gap and every late store that fit in a TSDELTA *)
(* word, as long as no interrupt comes between an insert's reading of      *)
(* prior_cycles and its setting it; only a gap of exactly FORWARD is not   *)
(* recorded.                                                               *)
GapsRecorded ==
    ~raced => \A i \in Events :
        Before(i) > 0 /\ Gap(i) # FORWARD /\ Fits(Gap(i)) => GapRecorded(i)
=============================================================================
