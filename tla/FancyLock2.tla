----------------------------- MODULE FancyLock2 ------------------------------
(***************************************************************************)
(* The traced lock with the histogram of bookcode/fancylock2.cc: a         *)
(* thread that had to wait for the lock counts its waiting time before it  *)
(* enters its block.  The counts are kept in two words, each with a field  *)
(* of a few bits for every bucket; a field that overflows is carried into  *)
(* its field of the other word, and when that one overflows too all counts *)
(* are halved.                                                             *)
(*                                                                         *)
(* Nothing but the lock itself protects the words.                         *)
(***************************************************************************)
EXTENDS TracedLock, Sequences, Functions

CONSTANTS
    Size,         \* 2^kBucketWidthBits: 8192, 2048, 1024, 256, 128, 64, 32, 16
    kBucketIncr   \* 1 at the start bit of each bucket

ASSUME SizeAssumption ==
    Size \in Seq(Nat \ {0}) /\ Size # <<>> /\ \A b \in DOMAIN Size : Size[b] % 2 = 0

Buckets == 1 .. Len(Size)

ASSUME IncrAssumption ==
    /\ kBucketIncr \in [Buckets -> Nat] /\ kBucketIncr[1] = 1
    /\ \A b \in Buckets \ {1} : kBucketIncr[b] = kBucketIncr[b - 1] * Size[b - 1]

VARIABLES
    counts, counts_hi,  \* the two words
    counting, bkt,      \* where each thread is in IncrCounts, and its bucket
    tally               \* history: what the counts should be

histogram == <<counts, counts_hi, counting, bkt, tally>>

(* What the counts should be after one more in bucket b: the largest count *)
(* of a bucket is that of twice its width in bits.                         *)
CountedOnce(c, b) ==
    LET more == [c EXCEPT ![b] = @ + 1]
    IN  IF more[b] < Size[b] * Size[b] THEN more
        ELSE [i \in Buckets |-> more[i] \div 2]

(***************************************************************************)
(* Words and their fields.  The masks and shifts of the code work on each  *)
(* field of a word, and all bits are in fields.                            *)
(***************************************************************************)

WORD == kBucketIncr[Len(Size)] * Size[Len(Size)]      \* 2^64

(* (word & kBucketField[b]) >> kBucketStartBit[b].                         *)
GetField(word, b) == (word \div kBucketIncr[b]) % Size[b]

(* The word with these fields.                                             *)
Word(fields) == SumFunction([b \in Buckets |-> kBucketIncr[b] * fields[b]])

(* word & ~kBucketField[b].                                                *)
ZeroField(word, b) ==
    Word([i \in Buckets |-> IF i = b THEN 0 ELSE GetField(word, i)])

(* word & ~kBucketAllLow.                                                  *)
ZeroLows(word) ==
    Word([i \in Buckets |-> GetField(word, i) - (GetField(word, i) % 2)])

(* word | kBucketHigh[i] of the buckets i in S.                            *)
SetHighs(word, S) ==
    Word([i \in Buckets |->
            LET f == GetField(word, i)
                high == Size[i] \div 2
            IN  IF i \in S /\ f < high THEN f + high ELSE f])

(***************************************************************************)
(* IncrCounts                                                              *)
(***************************************************************************)

Increment(word, b) == (word + kBucketIncr[b]) % WORD
Decrement(word, b) == (word + WORD - kBucketIncr[b]) % WORD

(* All counts halved, after bucket b's high part overflowed: the low bits  *)
(* of the high parts become the high bits of the low ones.                 *)
Halve(lo, hi, b) ==
    LET hi0 == ZeroField(Decrement(hi, b), b)
    IN  [counts    |-> SetHighs(ZeroLows(lo) \div 2,
                                {i \in Buckets : GetField(hi0, i) % 2 # 0}),
         counts_hi |-> SetHighs(ZeroLows(hi0) \div 2, {b})]

(* Mutant: the carry into the next bucket is left there.                   *)
Overflow_KeepCarry(lo, hi, b) ==
    LET lo0 == ZeroField(lo, b)
        hi1 == Increment(hi, b)
    IN  IF GetField(hi1, b) # 0 THEN [counts |-> lo0, counts_hi |-> hi1]
        ELSE Halve(lo0, hi1, b)

(* Bucket b was incremented and its field became zero: take the increment  *)
(* out again, with the carry it made, zero the field and carry into the    *)
(* high part.                                                              *)
Overflow(lo, hi, b) ==
    LET lo0 == ZeroField(Decrement(lo, b), b)
        hi1 == Increment(hi, b)
    IN  IF GetField(hi1, b) # 0 THEN [counts |-> lo0, counts_hi |-> hi1]
        ELSE Halve(lo0, hi1, b)

(* fancy2struct_.wait.counts += kBucketIncr[bkt], for the bucket that      *)
(* FindSubscr finds for the waiting time.                                  *)
AddCount(t) ==
    /\ counting[t] = "add"
    /\ \E b \in Buckets :
          /\ counts' = Increment(counts, b)
          /\ bkt' = [bkt EXCEPT ![t] = b]
          /\ tally' = CountedOnce(tally, b)
    /\ counting' = [counting EXCEPT ![t] = "test"]
    /\ UNCHANGED <<tracedvars, counts_hi>>

(* If the field is zero now, it has overflowed.                            *)
TestCount(t) ==
    /\ counting[t] = "test"
    /\ LET after == IF GetField(counts, bkt[t]) = 0
                    THEN Overflow(counts, counts_hi, bkt[t])
                    ELSE [counts |-> counts, counts_hi |-> counts_hi]
       IN  counts' = after.counts /\ counts_hi' = after.counts_hi
    /\ counting' = [counting EXCEPT ![t] = "no"]
    /\ bkt' = [bkt EXCEPT ![t] = 0]
    /\ UNCHANGED <<tracedvars, tally>>

IncrCounts(t) == AddCount(t) \/ TestCount(t)

UnpackCounts ==
    [b \in Buckets |-> GetField(counts, b) + GetField(counts_hi, b) * Size[b]]

-----------------------------------------------------------------------------

LInit ==
    /\ TracedInit
    /\ counts = 0 /\ counts_hi = 0
    /\ counting = [t \in Thread |-> "no"] /\ bkt = [t \in Thread |-> 0]
    /\ tally = [b \in Buckets |-> 0]

(* The steps of the lock; the one that sets holder after a contended acquire *)
(* goes on with IncrCounts.                                                *)
LockStep(t) ==
    /\ counting[t] = "no"
    /\ TracedStep(t)
    /\ counting' = [counting EXCEPT ![t] = IF At(t, "won") THEN "add" ELSE "no"]
    /\ UNCHANGED <<counts, counts_hi, bkt, tally>>

ThreadStep(t) == LockStep(t) \/ IncrCounts(t)

LNext == \E t \in Thread : ThreadStep(t) \/ (Unforced(t) /\ UNCHANGED histogram)

(* A thread that has the lock or waits for it runs.                        *)
FancySpec ==
    /\ LInit /\ [][LNext]_<<tracedvars, histogram>>
    /\ \A t \in Thread : WF_<<tracedvars, histogram>>(ThreadStep(t))

-----------------------------------------------------------------------------

(* Every contended acquire is counted once, in its bucket and in no other, *)
(* and the counts are halved when a bucket's two fields are full: the      *)
(* packed words, with their carries and shifts, are the counts kept one by *)
(* one, although any number of threads updates them in several steps each. *)
HistogramTrue ==
    (\A t \in Thread : counting[t] # "test") => UnpackCounts = tally
=============================================================================
