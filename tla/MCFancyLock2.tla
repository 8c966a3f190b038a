---------------------------- MODULE MCFancyLock2 ----------------------------
(* The instance of FancyLock2 for TLC: two threads, and two buckets whose   *)
(* fields of two bits and of one overflow and are halved after a few waits. *)
EXTENDS FancyLock2, Bitwise

NarrowSize == <<4, 2>>
NarrowIncr == <<1, 4>>

(* The operations on fields are the masks and shifts of fancylock2.cc.      *)
kBucketField == [b \in Buckets |-> kBucketIncr[b] * (Size[b] - 1)]
kBucketHigh == [b \in Buckets |-> kBucketIncr[b] * (Size[b] \div 2)]
kBucketAllLow == SumFunction(kBucketIncr)
AllBut(word) == WORD - 1 - word
Highs(S) == SumFunction([i \in Buckets |-> IF i \in S THEN kBucketHigh[i] ELSE 0])

ASSUME MasksAssumption ==
    \A word \in 0 .. WORD - 1 :
        /\ ZeroLows(word) = word & AllBut(kBucketAllLow)
        /\ \A S \in SUBSET Buckets : SetHighs(word, S) = word | Highs(S)
        /\ \A b \in Buckets :
              /\ GetField(word, b) = (word & kBucketField[b]) \div kBucketIncr[b]
              /\ ZeroField(word, b) = word & AllBut(kBucketField[b])
              /\ GetField(word, b) % 2 # 0 <=> word & kBucketIncr[b] # 0
=============================================================================
