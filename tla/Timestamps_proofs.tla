------------------------- MODULE Timestamps_proofs -------------------------
(***************************************************************************)
(* Proofs about Timestamps for any period, thresholds, gaps and sizes of   *)
(* block: the module records the gaps between entries, a merged return is  *)
(* that of its call, and rawtoevent finds the times that were recorded.    *)
(***************************************************************************)
EXTENDS Timestamps, TLAPS, WellFoundedInduction

(***************************************************************************)
(* Types                                                                   *)
(***************************************************************************)

LEMMA SizeFacts ==
    /\ PERIOD \in Nat /\ 1 < PERIOD /\ FORWARD \in Nat /\ LATE \in Nat
    /\ SLACK \in Nat /\ ARG \in Nat /\ LARGE \in Nat /\ 0 < ARG
    /\ SLACK <= LATE /\ FORWARD + LATE = PERIOD
    /\ PERIOD < LARGE /\ 2 * LARGE < ARG
    /\ MAXDELTA \in Nat /\ 1 <= MAXDELTA /\ MAXDELTA < PERIOD
  BY SizesAssumption

(* Division with remainder.                                                *)
LEMMA Remainder ==
    ASSUME NEW n \in Nat, 0 < n, NEW a \in Int
    PROVE  a % n \in 0 .. (n - 1)
  BY SMTT(30)

LEMMA Division ==
    ASSUME NEW n \in Nat, 0 < n, NEW a \in Int
    PROVE  \E q \in Int : a = q * n + (a % n)
<1>1. a \div n \in Int /\ a = (a \div n) * n + (a % n)
  BY SMTT(30)
<1> QED
  BY <1>1

LEMMA Quotient ==
    ASSUME NEW n \in Nat, 0 < n, NEW q \in Int, NEW r \in 0 .. (n - 1)
    PROVE  (q * n + r) % n = r
  BY SMTT(30)

(* Sequences.                                                              *)
LEMMA Concat ==
    ASSUME NEW S, NEW s \in Seq(S), NEW u \in Seq(S)
    PROVE  /\ s \o u \in Seq(S) /\ Len(s \o u) = Len(s) + Len(u)
           /\ \A i \in 1 .. (Len(s) + Len(u)) :
                 (s \o u)[i] = IF i <= Len(s) THEN s[i] ELSE u[i - Len(s)]
  OBVIOUS

Kinds == {"event", "call", "return"}

(* The word of an event as it is stored.                                   *)
EventWord(kind, n) == [kind |-> kind, t |-> n % PERIOD, arg |-> 0, ret |-> 0,
                       at |-> n, of |-> 0, ends |-> 0]

DeltaWord(n, d) == [kind |-> "TSDELTA", t |-> n % PERIOD, arg |-> d % ARG, ret |-> 0,
                    at |-> n, of |-> 0, ends |-> 0]

(* An entry is an event, with a TSDELTA word in front if it needs one.     *)
LEMMA EntryWords ==
    ASSUME NEW kind, NEW n, NEW d
    PROVE  Entry(kind, n, d) = IF LateStoreOrLarge(d) /\ prior_cycles # 0
                               THEN <<DeltaWord(n, d), EventWord(kind, n)>>
                               ELSE <<EventWord(kind, n)>>
  BY DEF Entry, DeltaWord, EventWord

LEMMA WordTypes ==
    ASSUME NEW kind \in Kinds, NEW n \in Nat, NEW d \in Int
    PROVE  EventWord(kind, n) \in Word /\ DeltaWord(n, d) \in Word
<1>1. n % PERIOD \in 0 .. (PERIOD - 1) /\ d % ARG \in 0 .. (ARG - 1)
  BY Remainder, SizeFacts
<1>2. 0 \in 0 .. (ARG - 1) /\ 0 \in 0 .. MAXDELTA /\ 0 \in Nat
  BY SizeFacts
<1> QED
  BY <1>1, <1>2 DEF EventWord, DeltaWord, Word, Kinds

(* What an insert does to the block: it adds an event at the end, which    *)
(* has a TSDELTA word in front of it or the word that was the last one, or *)
(* is alone in a new block.                                                *)
Added(kind, n, d) ==
    LET m == Len(block') IN
    /\ block' \in Seq(Word) /\ 1 <= m /\ m <= BlockWords
    /\ block'[m] = EventWord(kind, n)
    /\ \/ /\ prior_cycles # 0 /\ UNCHANGED <<base, prior_entry>>
          /\ \A i \in 1 .. Len(block) : block'[i] = block[i]
          /\ \/ /\ LateStoreOrLarge(d) /\ m = Len(block) + 2
                /\ block'[m - 1] = DeltaWord(n, d)
             \/ ~ LateStoreOrLarge(d) /\ m = Len(block) + 1
       \/ /\ base' = clock' /\ prior_entry' = [prior_entry EXCEPT !.at = 0]
          /\ m = 1 \/ (m = 2 /\ block'[1] = DeltaWord(n, d))

LEMMA AddEntryAdds ==
    ASSUME TypeOK, NEW kind \in Kinds, NEW n \in Nat, NEW d \in Int, AddEntry(kind, n, d)
    PROVE  Added(kind, n, d)
<1> DEFINE e == Entry(kind, n, d)
           v == EventWord(kind, n)
           u == DeltaWord(n, d)
           late == LateStoreOrLarge(d) /\ prior_cycles # 0
<1>1. u \in Word /\ v \in Word
  BY WordTypes
<1>2. e = IF late THEN <<u, v>> ELSE <<v>>
  BY EntryWords
<1>3. /\ block \in Seq(Word) /\ Len(block) \in Nat /\ Len(block) <= BlockWords
      /\ BlockWords \in Nat /\ 2 <= BlockWords
  BY InputsAssumption DEF TypeOK
<1>4. /\ e \in Seq(Word)
      /\ Len(e) = IF late THEN 2 ELSE 1
      /\ e[Len(e)] = v
      /\ late => e[1] = u
  BY <1>1, <1>2
<1> HIDE DEF e, u, v, late
<1>5. CASE /\ prior_cycles # 0 /\ Len(block) + Len(e) <= BlockWords
           /\ block' = block \o e
           /\ UNCHANGED <<base, prior_entry>>
  <2>1. /\ block' \in Seq(Word) /\ Len(block') = Len(block) + Len(e)
        /\ \A i \in 1 .. Len(block) : block'[i] = block[i]
        /\ block'[Len(block')] = e[Len(e)]
        /\ late => block'[Len(block') - 1] = e[1]
    <3>1. block' \in Seq(Word) /\ Len(block') = Len(block) + Len(e)
      BY <1>3, <1>4, <1>5, Concat
    <3>2. \A i \in 1 .. Len(block') :
             block'[i] = IF i <= Len(block) THEN block[i] ELSE e[i - Len(block)]
      BY <1>3, <1>4, <1>5, <3>1, Concat
    <3>3. \A i \in 1 .. Len(block) : block'[i] = block[i]
      BY <3>1, <3>2, <1>3, <1>4
    <3>4. CASE late
      <4>1. Len(e) = 2 /\ Len(block') \in 1 .. Len(block')
            /\ Len(block') - 1 \in 1 .. Len(block')
            /\ ~ (Len(block') <= Len(block)) /\ ~ (Len(block') - 1 <= Len(block))
            /\ Len(block') - Len(block) = 2 /\ Len(block') - 1 - Len(block) = 1
        BY <3>1, <3>4, <1>3, <1>4
      <4> QED
        BY <3>1, <3>2, <3>3, <4>1
    <3>5. CASE ~ late
      <4>1. Len(e) = 1 /\ Len(block') \in 1 .. Len(block')
            /\ ~ (Len(block') <= Len(block)) /\ Len(block') - Len(block) = 1
        BY <3>1, <3>5, <1>3, <1>4
      <4> QED
        BY <3>1, <3>2, <3>3, <3>5, <4>1
    <3> QED
      BY <3>4, <3>5
  <2>2. 1 <= Len(block') /\ Len(block') <= BlockWords
    BY <2>1, <1>3, <1>4, <1>5
  <2> QED
    BY <2>1, <2>2, <1>3, <1>4, <1>5 DEF Added, u, v, late
<1>6. CASE /\ prior_cycles = 0 \/ Len(block) + Len(e) > BlockWords
           /\ block' = e /\ base' = clock'
           /\ prior_entry' = [prior_entry EXCEPT !.at = 0]
  <2>1. /\ block' \in Seq(Word) /\ block'[Len(block')] = v
        /\ 1 <= Len(block') /\ Len(block') <= BlockWords
        /\ Len(block') = 1 \/ (Len(block') = 2 /\ block'[1] = u)
    BY <1>3, <1>4, <1>6 DEF late
  <2> QED
    BY <2>1, <1>6 DEF Added, u, v
<1> QED
  BY <1>5, <1>6 DEF AddEntry, e

LEMMA AddedTypes ==
    ASSUME TypeOK, NEW kind \in Kinds, NEW n \in Nat, NEW d \in Int,
           Added(kind, n, d), clock' \in Nat
    PROVE  /\ block' \in Seq(Word) /\ Len(block') <= BlockWords /\ base' \in Nat
           /\ prior_entry' \in [at : 0..BlockWords, word : Seq(Word)]
           /\ Len(prior_entry'.word) <= 1
<1>1. 0 \in 0 .. BlockWords
  BY InputsAssumption
<1> QED
  BY <1>1 DEF Added, TypeOK

LEMMA InitType == Init => TypeOK
<1>1. /\ <<>> \in Seq(Word) /\ Len(<<>>) = 0 /\ 0 \in 0 .. BlockWords
      /\ FirstClock \in Nat /\ 0 <= BlockWords
  BY InputsAssumption
<1>2. NoPrior \in [at : 0..BlockWords, word : Seq(Word)] /\ Len(NoPrior.word) <= 1
  BY <1>1 DEF NoPrior
<1>3. ASSUME Init PROVE TypeOK
  <2>1. clock \in Nat /\ prior_cycles \in Nat /\ base \in Nat /\ now \in Nat
        /\ delta \in Int /\ incall \in Nat
    BY <1>1, <1>3 DEF Init
  <2>3. raced \in BOOLEAN
    BY <1>3 DEF Init
  <2>2. block \in Seq(Word) /\ Len(block) <= BlockWords
    BY <1>1, <1>3 DEF Init
  <2> QED
    BY <1>2, <1>3, <2>1, <2>2, <2>3 DEF Init, TypeOK
<1> QED
  BY <1>3

(* Between get_prior and the merge, the word is there.                     *)
TInv == TypeOK /\ (pc = "prior" => Len(prior_entry.word) = 1)

(* Merging a return changes three fields of one word.                      *)
Returned(v, r) == [v EXCEPT !.ret = r, !.of = incall, !.ends = now]

LEMMA ReturnedFields ==
    ASSUME NEW v \in Word, NEW r, NEW x, x = Returned(v, r)
    PROVE  /\ x.kind = v.kind /\ x.t = v.t /\ x.arg = v.arg /\ x.at = v.at
           /\ x.ret = r /\ x.of = incall /\ x.ends = now
  BY DEF Word, Returned

LEMMA ReturnedWord ==
    ASSUME NEW v \in Word, NEW r \in 0 .. MAXDELTA, now \in Nat, incall \in Nat
    PROVE  Returned(v, r) \in Word
  BY DEF Word, Returned


MergedDelta == LET w == prior_entry.word[1] IN IF delta_t(w) = 0 THEN 1 ELSE delta_t(w)

LEMMA MergeWords ==
    ASSUME TInv, Merge
    PROVE  /\ prior_entry.word[1] \in Word /\ Mergeable(prior_entry.word[1])
           /\ MergedDelta \in 1 .. MAXDELTA
           /\ block' \in Seq(Word) /\ Len(block') = Len(block)
           /\ \A i \in 1 .. Len(block) :
                 block'[i] = IF i = prior_entry.at THEN Returned(block[i], MergedDelta)
                             ELSE block[i]
<1> DEFINE w == prior_entry.word[1]
           k == prior_entry.at
           r == MergedDelta
<1>1. /\ prior_entry.word \in Seq(Word) /\ k \in 0 .. BlockWords
      /\ Len(prior_entry.word) = 1
      /\ block \in Seq(Word) /\ Len(block) \in Nat
      /\ now \in Nat /\ incall \in Nat
  BY DEF TInv, TypeOK, Merge
<1>2. /\ Mergeable(w)
      /\ block' = IF k = 0 THEN block
                  ELSE [block EXCEPT ![k].ret = r, ![k].of = incall, ![k].ends = now]
  BY DEF Merge, MergedDelta
<1>3. w \in Word
  BY <1>1
<1>4. w.t \in Nat
  BY <1>3, SizeFacts DEF Word
<1>5. r \in 1 .. MAXDELTA
  <2>1. now - w.t \in Int
    BY <1>1, <1>4
  <2>2. delta_t(w) \in 0 .. (PERIOD - 1)
    BY <2>1, SizeFacts, Remainder DEF delta_t
  <2>3. delta_t(w) <= MAXDELTA
    BY <1>2 DEF Mergeable
  <2> QED
    BY <2>2, <2>3, SizeFacts DEF MergedDelta
<1> HIDE DEF w, k, r
<1>6. \A v \in Word : Returned(v, r) \in Word
  <2>1. r \in 0 .. MAXDELTA
    BY <1>5, SizeFacts
  <2> QED
    BY <2>1, <1>1, ReturnedWord
<1>7. DOMAIN block = 1 .. Len(block) /\ \A i \in 1 .. Len(block) : block[i] \in Word
  BY <1>1
<1>8. block' = [i \in 1 .. Len(block) |-> IF i = k THEN Returned(block[i], r) ELSE block[i]]
  <2>1. CASE k = 0
    <3>1. block = [i \in 1 .. Len(block) |-> block[i]]
      BY <1>1, <1>7
    <3>2. \A i \in 1 .. Len(block) : i # k
      BY <1>1, <2>1
    <3>3. block' = block
      BY <1>2, <2>1
    <3> QED
      BY <3>1, <3>2, <3>3
  <2>2. CASE k # 0
    <3>1. block' = [block EXCEPT ![k].ret = r, ![k].of = incall, ![k].ends = now]
      BY <1>2, <2>2
    <3>2. block' = [i \in DOMAIN block |-> IF i = k THEN Returned(block[i], r) ELSE block[i]]
      BY <3>1 DEF Returned
    <3> QED
      BY <1>7, <3>2
  <2> QED
    BY <2>1, <2>2
<1>9. block' \in Seq(Word) /\ Len(block') = Len(block)
  <2>1. block' \in [1 .. Len(block) -> Word]
    BY <1>6, <1>7, <1>8
  <2> QED
    BY <1>1, <2>1
<1>10. \A i \in 1 .. Len(block) :
          block'[i] = IF i = k THEN Returned(block[i], r) ELSE block[i]
  BY <1>8
<1> QED
  BY <1>2, <1>3, <1>5, <1>9, <1>10 DEF w, k, r

(* A step keeps the types.                                                 *)
LEMMA NextTypes ==
    ASSUME TInv, [Next]_vars
    PROVE  TInv'
<1> USE DEF TInv
<1>0. raced' \in BOOLEAN
  BY DEF TypeOK, Next, GetTime, GetPrior, Merge, NoMerge, GetDelta, Claim, SetPrior,
         Interrupt, vars
<1>1. CASE GetTime
  BY <1>0, <1>1, InputsAssumption DEF GetTime, TypeOK
<1>2. CASE GetPrior
  <2>1. CASE /\ 0 < Len(block) /\ Len(block) < BlockWords
             /\ prior_entry' = [at |-> Len(block), word |-> <<block[Len(block)]>>]
             /\ pc' = "prior"
    <3>1. block[Len(block)] \in Word /\ Len(block) \in 0 .. BlockWords
      BY <2>1, InputsAssumption DEF TypeOK
    <3>2. prior_entry' \in [at : 0..BlockWords, word : Seq(Word)]
          /\ Len(prior_entry'.word) = 1
      BY <2>1, <3>1
    <3> QED
      BY <1>0, <1>2, <2>1, <3>2 DEF GetPrior, TypeOK
  <2>2. CASE UNCHANGED prior_entry /\ pc' = "again"
    BY <1>0, <1>2, <2>2 DEF GetPrior, TypeOK
  <2> QED
    BY <1>2, <2>1, <2>2 DEF GetPrior
<1>a. NoPrior \in [at : 0..BlockWords, word : Seq(Word)] /\ Len(NoPrior.word) = 0
  <2>1. 0 \in 0 .. BlockWords /\ <<>> \in Seq(Word) /\ Len(<<>>) = 0
    BY InputsAssumption
  <2> QED
    BY <2>1 DEF NoPrior
<1>3. CASE Merge
  <2>1. block' \in Seq(Word) /\ Len(block') = Len(block)
    BY <1>3, MergeWords
  <2> QED
    BY <1>0, <1>3, <1>a, <2>1 DEF Merge, TypeOK
<1>4. CASE NoMerge
  BY <1>0, <1>4, <1>a DEF NoMerge, TypeOK
<1>5. CASE GetDelta
  BY <1>0, <1>5 DEF GetDelta, TypeOK
<1>6. CASE Claim
  <2>1. clock' \in Nat
    BY <1>6, InputsAssumption DEF Claim, TypeOK
  <2>2. PICK kind \in Kinds : AddEntry(kind, now, delta)
    BY <1>6 DEF Claim, Kinds
  <2>3. now \in Nat /\ delta \in Int
    BY DEF TypeOK
  <2>4. Added(kind, now, delta)
    BY <2>2, <2>3, AddEntryAdds
  <2>5. /\ block' \in Seq(Word) /\ Len(block') <= BlockWords /\ base' \in Nat
        /\ prior_entry' \in [at : 0..BlockWords, word : Seq(Word)]
        /\ Len(prior_entry'.word) <= 1
    BY <2>1, <2>3, <2>4, AddedTypes
  <2> QED
    BY <1>0, <1>6, <2>1, <2>5 DEF Claim, TypeOK
<1>7. CASE SetPrior
  BY <1>0, <1>7 DEF SetPrior, TypeOK
<1>8. CASE Interrupt
  <2>1. PICK g \in Gaps, i \in InitGaps :
          /\ clock' = clock + g + i
          /\ AddEntry("event", clock + g, clock + g - prior_cycles)
          /\ prior_cycles' = clock + g
    BY <1>8 DEF Interrupt
  <2>2. /\ clock' \in Nat /\ clock + g \in Nat /\ clock + g - prior_cycles \in Int
        /\ prior_cycles' \in Nat
    BY <2>1, InputsAssumption DEF TypeOK
  <2>3. Added("event", clock + g, clock + g - prior_cycles)
    BY <2>1, <2>2, AddEntryAdds DEF Kinds
  <2>4. /\ block' \in Seq(Word) /\ Len(block') <= BlockWords /\ base' \in Nat
        /\ prior_entry' \in [at : 0..BlockWords, word : Seq(Word)]
        /\ Len(prior_entry'.word) <= 1
    BY <2>2, <2>3, AddedTypes DEF Kinds
  <2>5. pc = "prior" => Len(prior_entry'.word) = 1
    BY <2>3 DEF Added, TypeOK
  <2> QED
    BY <1>0, <1>8, <2>2, <2>4, <2>5 DEF Interrupt, TypeOK
<1>9. CASE UNCHANGED vars
  BY <1>9 DEF vars, locals, TypeOK
<1> QED
  BY <1>1, <1>2, <1>3, <1>4, <1>5, <1>6, <1>7, <1>8, <1>9 DEF Next

(* Type correctness.                                                       *)
THEOREM TypeCorrect == Spec => []TInv
<1>1. Init => TInv
  BY InitType DEF TInv, Init
<1>2. TInv /\ [Next]_vars => TInv'
  BY NextTypes
<1> QED
  BY <1>1, <1>2, PTL DEF Spec

(***************************************************************************)
(* The gaps between entries                                                *)
(***************************************************************************)

(* A TSDELTA word is not the last one, and no two of them are adjacent.    *)
DeltasFollowed ==
    \A i \in 1..Len(block) : block[i].kind = "TSDELTA" =>
        i < Len(block) /\ block[i + 1].kind # "TSDELTA"

(* The time in tb->prior_cycles is that of the last word, unless an insert *)
(* was interrupted before it set it.                                       *)
LastIsPrior ==
    prior_cycles # 0 \/ pc = "claimed" =>
        /\ 0 < Len(block)
        /\ ~raced => block[Len(block)].at = IF pc = "claimed" THEN now ELSE prior_cycles

(* Unless it was interrupted, an insert has the gap from the last word.    *)
DeltaTrue == pc = "delta" /\ ~raced => delta = now - prior_cycles

GapInv == TInv /\ DeltasFollowed /\ LastIsPrior /\ DeltaTrue /\ GapsRecorded

(* The words in the block and the flag raced are all that DeltasFollowed   *)
(* and GapsRecorded are about: not even the returns merged matter.         *)
LEMMA SameGaps ==
    ASSUME DeltasFollowed, GapsRecorded, TypeOK, raced' = raced,
           Len(block') = Len(block),
           \A i \in 1..Len(block) : /\ block'[i].kind = block[i].kind
                                    /\ block'[i].arg = block[i].arg
                                    /\ block'[i].at = block[i].at
    PROVE  (DeltasFollowed /\ GapsRecorded)'
<1>1. Len(block) \in Nat
  BY DEF TypeOK
<1>2. DeltasFollowed'
  BY <1>1 DEF DeltasFollowed
<1>3. ASSUME ~raced, NEW i \in Events', (Before(i) > 0 /\ Gap(i) # FORWARD /\ Fits(Gap(i)))'
      PROVE  GapRecorded(i)'
  <2>1. i \in Events /\ i \in 1..Len(block) /\ i \in Nat
    BY <1>1, <1>3 DEF Events
  <2>2. HasDelta(i)' <=> HasDelta(i)
    BY <1>1, <2>1 DEF HasDelta
  <2>3. Before(i)' = Before(i)
    BY <2>2 DEF Before
  <2>4. Before(i) > 0 => Before(i) \in 1..Len(block)
    BY <1>1, <2>1 DEF Before, HasDelta
  <2>5. Gap(i)' = Gap(i)
    BY <1>3, <2>1, <2>3, <2>4 DEF Gap
  <2>6. GapRecorded(i)
    BY <1>3, <2>1, <2>3, <2>5 DEF GapsRecorded, Fits
  <2>7. i > 1 => i - 1 \in 1..Len(block)
    BY <1>1, <2>1
  <2>8. Before(i) > 0 => i > 1
    BY <2>1 DEF Before, HasDelta
  <2> QED
    BY <1>3, <2>1, <2>2, <2>3, <2>5, <2>6, <2>7, <2>8 DEF GapRecorded, Fits
<1> QED
  BY <1>2, <1>3 DEF GapsRecorded

(* An entry taken d after the last word of the block is added.  Its gap is *)
(* recorded if it fits.                                                    *)
LEMMA AddedGaps ==
    ASSUME TypeOK, DeltasFollowed, GapsRecorded, raced => raced',
           NEW kind \in Kinds, NEW n \in Nat, NEW d \in Int, Added(kind, n, d),
           prior_cycles # 0 => 0 < Len(block),
           prior_cycles # 0 /\ ~raced' => d = n - block[Len(block)].at
    PROVE  (DeltasFollowed /\ GapsRecorded)'
<1> DEFINE m == Len(block')
           v == EventWord(kind, n)
           u == DeltaWord(n, d)
<1>1. /\ Len(block) \in Nat /\ m \in Nat /\ 1 <= m /\ block'[m] = v
      /\ block' \in Seq(Word) /\ block \in Seq(Word)
  BY DEF Added, TypeOK
<1>2. /\ v.kind # "TSDELTA" /\ v.at = n /\ v.arg = 0
      /\ u.kind = "TSDELTA" /\ u.at = n /\ u.arg = d % ARG
  BY DEF EventWord, DeltaWord, Kinds
<1> HIDE DEF u, v, m
<1>3. CASE /\ prior_cycles # 0
           /\ \A i \in 1 .. Len(block) : block'[i] = block[i]
           /\ (LateStoreOrLarge(d) /\ m = Len(block) + 2 /\ block'[m - 1] = u)
              \/ (~ LateStoreOrLarge(d) /\ m = Len(block) + 1)
  <2> DEFINE l == Len(block)
  <2>1. l \in 1..Len(block) /\ block'[l] = block[l] /\ block[l].kind # "TSDELTA"
    BY <1>1, <1>3 DEF DeltasFollowed
  <2>2. \A i \in 1..m : i \in 1..l \/ i = m \/ (i = l + 1 /\ block'[i] = u /\ m = l + 2)
    BY <1>1, <1>3
  <2>3. DeltasFollowed'
    <3> SUFFICES ASSUME NEW i \in 1..m, block'[i].kind = "TSDELTA"
                 PROVE  i < m /\ block'[i + 1].kind # "TSDELTA"
      BY DEF DeltasFollowed, m
    <3>1. CASE i \in 1..l
      <4>1. i < l /\ block[i + 1].kind # "TSDELTA" /\ i + 1 \in 1..l
        BY <1>1, <1>3, <3>1 DEF DeltasFollowed
      <4> QED
        BY <1>1, <1>3, <4>1
    <3>2. CASE i = m
      BY <1>1, <1>2, <3>2
    <3>3. CASE i = l + 1 /\ m = l + 2
      <4>1. i + 1 = m /\ i < m
        BY <1>1, <3>3
      <4> QED
        BY <4>1, <1>1, <1>2
    <3> QED
      BY <2>2, <3>1, <3>2, <3>3
  <2>4. ASSUME ~raced', NEW i \in Events', (Before(i) > 0 /\ Gap(i) # FORWARD /\ Fits(Gap(i)))'
        PROVE  GapRecorded(i)'
    <3>1. i \in 1..m /\ block'[i].kind # "TSDELTA" /\ i \in Nat
      BY <2>4, <1>1 DEF Events, m
    <3>2. CASE i \in 1..l
      <4>1. i \in Events /\ (i > 1 => i - 1 \in 1..l)
        BY <3>1, <3>2, <1>1, <1>3 DEF Events
      <4>2. HasDelta(i)' <=> HasDelta(i)
        BY <1>1, <1>3, <3>2, <4>1 DEF HasDelta
      <4>3. Before(i)' = Before(i)
        BY <4>2 DEF Before
      <4>4. Before(i) > 0 => Before(i) \in 1..l /\ i > 1
        BY <1>1, <3>2 DEF Before, HasDelta
      <4>5. Gap(i)' = Gap(i)
        BY <1>3, <2>4, <3>2, <4>3, <4>4 DEF Gap
      <4>6. GapRecorded(i)
        BY <2>4, <4>1, <4>3, <4>5 DEF GapsRecorded, Fits
      <4> QED
        BY <1>3, <2>4, <3>2, <4>1, <4>2, <4>3, <4>4, <4>5, <4>6 DEF GapRecorded, Fits
    <3>3. CASE i = m
      <4>1. block[l].at \in Nat /\ d = n - block[l].at
        <5>1. block[l] \in Word
          BY <2>1, <1>1
        <5>2. block[l].at \in Nat
          BY <5>1 DEF Word
        <5> QED
          BY <5>2, <2>4, <1>3
      <4>2. CASE LateStoreOrLarge(d) /\ m = l + 2 /\ block'[m - 1] = u
        <5>1. HasDelta(i)' /\ Before(i)' = l
          BY <1>1, <1>2, <3>3, <4>2 DEF HasDelta, Before
        <5>2. Gap(i)' = d
          BY <1>1, <1>2, <2>1, <3>3, <4>1, <5>1 DEF Gap
        <5> QED
          BY <1>2, <2>4, <3>3, <4>2, <5>1, <5>2 DEF GapRecorded, Fits
      <4>3. CASE ~ LateStoreOrLarge(d) /\ m = l + 1
        <5>1. ~ HasDelta(i)' /\ Before(i)' = l
          BY <1>1, <2>1, <3>3, <4>3 DEF HasDelta, Before
        <5>2. Gap(i)' = d
          BY <1>1, <1>2, <2>1, <3>3, <4>1, <5>1 DEF Gap
        <5>3. 0 <= d /\ d < FORWARD
          BY <2>4, <4>3, <5>2, SizeFacts DEF LateStoreOrLarge
        <5> QED
          BY <5>1, <5>2, <5>3 DEF GapRecorded
      <4> QED
        BY <1>3, <4>2, <4>3
    <3>4. CASE i = l + 1 /\ block'[i] = u /\ m = l + 2
      BY <3>1, <3>4, <1>2
    <3> QED
      BY <2>2, <3>1, <3>2, <3>3, <3>4
  <2> QED
    BY <2>3, <2>4 DEF GapsRecorded
<1>4. CASE m = 1 \/ (m = 2 /\ block'[1] = u)
  <2>1. DeltasFollowed'
    BY <1>1, <1>2, <1>4 DEF DeltasFollowed, m
  <2>2. ASSUME NEW i \in Events' PROVE ~ (Before(i)' > 0)
    <3>1. i \in 1..m /\ block'[i].kind # "TSDELTA"
      BY <2>2 DEF Events, m
    <3>2. i = m
      BY <3>1, <1>1, <1>2, <1>4
    <3> QED
      BY <3>2, <1>1, <1>2, <1>4 DEF Before, HasDelta
  <2> QED
    BY <2>1, <2>2 DEF GapsRecorded
<1> QED
  BY <1>3, <1>4 DEF Added, u, m

LEMMA NextGaps ==
    ASSUME GapInv, [Next]_vars
    PROVE  GapInv'
<1>0. TInv /\ TypeOK /\ TInv' /\ DeltasFollowed /\ GapsRecorded
  BY NextTypes DEF GapInv, TInv
<1>a. /\ Len(block) \in Nat /\ block \in Seq(Word)
      /\ now \in Nat /\ delta \in Int /\ clock \in Nat /\ prior_cycles \in Nat
  BY <1>0 DEF TypeOK
(* An entry of the thread or of an interrupt is added.                     *)
<1>1. ASSUME NEW kind \in Kinds, NEW n \in Nat, NEW d \in Int, AddEntry(kind, n, d),
             raced => raced', prior_cycles # 0 /\ ~raced' => pc # "claimed" /\ d = n - prior_cycles
      PROVE  (DeltasFollowed /\ GapsRecorded)' /\ 0 < Len(block') /\ block'[Len(block')].at = n
  <2>1. Added(kind, n, d)
    BY <1>0, <1>1, AddEntryAdds
  <2>2. prior_cycles # 0 => 0 < Len(block)
    BY DEF GapInv, LastIsPrior
  <2>3. prior_cycles # 0 /\ ~raced' => d = n - block[Len(block)].at
    BY <1>1 DEF GapInv, LastIsPrior
  <2>4. (DeltasFollowed /\ GapsRecorded)'
    BY <1>0, <1>1, <2>1, <2>2, <2>3, AddedGaps
  <2>5. 1 <= Len(block') /\ block'[Len(block')] = EventWord(kind, n) /\ Len(block') \in Nat
    BY <2>1 DEF Added
  <2> QED
    BY <2>4, <2>5 DEF EventWord
(* The words and raced stay.                                               *)
<1>2. ASSUME UNCHANGED <<block, raced>>
      PROVE  (DeltasFollowed /\ GapsRecorded)'
  BY <1>0, <1>2, SameGaps
<1>3. CASE GetTime \/ GetPrior \/ NoMerge
  <2>1. /\ UNCHANGED <<block, raced, prior_cycles>>
        /\ pc # "claimed" /\ pc' # "claimed" /\ pc' # "delta"
    BY <1>3 DEF GetTime, GetPrior, NoMerge
  <2> QED
    BY <1>0, <1>2, <2>1 DEF GapInv, LastIsPrior, DeltaTrue
<1>4. CASE Merge
  <2>1. Len(block') = Len(block)
        /\ \A i \in 1..Len(block) : /\ block'[i].kind = block[i].kind
                                    /\ block'[i].arg = block[i].arg
                                    /\ block'[i].at = block[i].at
    <3>1. \A i \in 1..Len(block) : block[i] \in Word
      BY <1>a
    <3> QED
      BY <1>0, <1>4, <3>1, MergeWords, ReturnedFields
  <2>2. UNCHANGED <<raced, prior_cycles>> /\ pc = "prior" /\ pc' = "idle"
    BY <1>4 DEF Merge
  <2>3. (DeltasFollowed /\ GapsRecorded)'
    BY <1>0, <2>1, <2>2, SameGaps
  <2>4. LastIsPrior'
    BY <1>a, <2>1, <2>2 DEF GapInv, LastIsPrior
  <2> QED
    BY <1>0, <2>2, <2>3, <2>4 DEF GapInv, DeltaTrue
<1>5. CASE GetDelta
  <2>1. /\ UNCHANGED <<block, raced, prior_cycles, now>>
        /\ pc = "timed" /\ pc' = "delta" /\ delta' = now - prior_cycles
    BY <1>5 DEF GetDelta
  <2> QED
    BY <1>0, <1>2, <2>1 DEF GapInv, LastIsPrior, DeltaTrue
<1>6. CASE Claim
  <2>1. UNCHANGED <<prior_cycles, now, delta, raced>> /\ pc = "delta" /\ pc' = "claimed"
    BY <1>6 DEF Claim
  <2>2. PICK kind \in Kinds : AddEntry(kind, now, delta)
    BY <1>6 DEF Claim, Kinds
  <2>3. ~raced' => delta = now - prior_cycles
    BY <2>1 DEF GapInv, DeltaTrue
  <2>4. (DeltasFollowed /\ GapsRecorded)' /\ 0 < Len(block') /\ block'[Len(block')].at = now
    BY <1>1, <1>a, <2>1, <2>2, <2>3
  <2>5. LastIsPrior' /\ DeltaTrue'
    BY <2>1, <2>4 DEF LastIsPrior, DeltaTrue
  <2> QED
    BY <1>0, <2>4, <2>5 DEF GapInv
<1>7. CASE SetPrior
  <2>1. UNCHANGED <<block, raced>> /\ pc = "claimed" /\ pc' = "idle" /\ prior_cycles' = now
    BY <1>7 DEF SetPrior
  <2> QED
    BY <1>0, <1>2, <2>1 DEF GapInv, LastIsPrior, DeltaTrue
<1>8. CASE Interrupt
  <2>1. PICK g \in Gaps, i \in InitGaps :
          /\ AddEntry("event", clock + g, clock + g - prior_cycles)
          /\ prior_cycles' = clock + g
    BY <1>8 DEF Interrupt
  <2>2. raced' = (raced \/ pc \in {"delta", "claimed"}) /\ UNCHANGED <<pc, now, delta>>
    BY <1>8 DEF Interrupt
  <2>3. (raced => raced') /\ (~raced' => pc # "claimed" /\ pc # "delta")
    BY <2>2
  <2>4. clock + g \in Nat /\ clock + g - prior_cycles \in Int
    BY <1>a, InputsAssumption
  <2>5. (DeltasFollowed /\ GapsRecorded)' /\ 0 < Len(block') /\ block'[Len(block')].at = clock + g
    <3> DEFINE n == clock + g
               d == clock + g - prior_cycles
    <3>1. "event" \in Kinds /\ n \in Nat /\ d \in Int
      BY <2>4 DEF Kinds
    <3>3. AddEntry("event", n, d)
      BY <2>1
    <3>4. d = n - prior_cycles
      BY <1>a, <2>4, InputsAssumption
    <3> HIDE DEF n, d
    <3>2. (DeltasFollowed /\ GapsRecorded)' /\ 0 < Len(block') /\ block'[Len(block')].at = n
      BY <1>1, <2>3, <3>1, <3>3, <3>4
    <3> QED
      BY <3>2 DEF n
  <2>6. LastIsPrior' /\ DeltaTrue'
    BY <2>1, <2>2, <2>3, <2>5 DEF LastIsPrior, DeltaTrue
  <2> QED
    BY <1>0, <2>5, <2>6 DEF GapInv
<1>9. CASE UNCHANGED vars
  <2>1. UNCHANGED <<block, raced, prior_cycles, pc, now, delta>>
    BY <1>9 DEF vars, locals
  <2> QED
    BY <1>0, <1>2, <2>1 DEF GapInv, LastIsPrior, DeltaTrue
<1> QED
  BY <1>3, <1>4, <1>5, <1>6, <1>7, <1>8, <1>9 DEF Next

LEMMA InitGapInv == Init => GapInv
<1> SUFFICES ASSUME Init PROVE GapInv
  OBVIOUS
<1>1. TInv
  BY InitType DEF TInv, Init
<1>2. block = <<>> /\ Len(block) = 0 /\ 1..Len(block) = {}
  BY DEF Init
<1> QED
  BY <1>1, <1>2 DEF Init, GapInv, DeltasFollowed, LastIsPrior, DeltaTrue, GapsRecorded, Events

(* The inserts of kutrace_mod.c record every gap and every late store that *)
(* fits in a TSDELTA word, except one of exactly FORWARD, and except after *)
(* an interrupt between reading and setting tb->prior_cycles.              *)
THEOREM GapsRecordedHolds == Spec => []GapsRecorded
<1>1. Init => GapInv
  BY InitGapInv
<1>2. GapInv /\ [Next]_vars => GapInv'
  BY NextGaps
<1>3. GapInv => GapsRecorded
  BY DEF GapInv
<1> QED
  BY <1>1, <1>2, <1>3, PTL DEF Spec

(***************************************************************************)
(* The returns merged into calls                                           *)
(***************************************************************************)

(* A word has the low bits of its time.                                    *)
LowTimes == \A i \in 1..Len(block) : block[i].t = block[i].at % PERIOD

(* The clock is past what was read from it.                                *)
ClockPast ==
    /\ now <= clock /\ incall <= clock
    /\ pc \in {"opt", "prior"} => incall <= now

(* A merged return is over by the time of any entry still to be added.     *)
EndsPast ==
    \A i \in 1..Len(block) : block[i].ret # 0 =>
        /\ block[i].ends <= clock
        /\ pc \in {"timed", "delta"} => block[i].ends <= now

IsOpen(w) == w.kind = "call" /\ w.ret = 0

(* If the last word is a call without return, it is the call in progress.  *)
OpenCall ==
    0 < Len(block) /\ IsOpen(block[Len(block)]) =>
        IF pc = "claimed" THEN incall = 0 /\ block[Len(block)].at = now
                          ELSE block[Len(block)].at = incall

(* The word a return is about to be merged into is still there, a call in  *)
(* it is the one in progress, and only interrupts came behind it.          *)
PriorTrue ==
    pc = "prior" =>
        /\ prior_entry.at <= Len(block)
        /\ prior_entry.at # 0 =>
              /\ block[prior_entry.at] = prior_entry.word[1]
              /\ IsOpen(prior_entry.word[1]) => prior_entry.word[1].at = incall
        /\ \A j \in (prior_entry.at + 1)..Len(block) :
              block[j].kind # "call" /\ now <= block[j].at

(* The length of the call in word w that ReturnsTrue asks for.             *)
ReturnShown(w) == IF w.ends - w.at = 0 THEN 1 ELSE w.ends - w.at

ReturnInv ==
    TInv /\ LowTimes /\ ClockPast /\ EndsPast /\ OpenCall /\ PriorTrue /\ ReturnsTrue

(* The words of a block to which an entry was added: the first l of them   *)
(* are old, the others are those of the entry.                             *)
NewWord(w, kind, n) ==
    w.kind \in {kind, "TSDELTA"} /\ w.t = n % PERIOD /\ w.ret = 0 /\ w.at = n

AddedBehind(kind, n, l) ==
    /\ l \in 0..Len(block) /\ l <= Len(block')
    /\ \A i \in 1..l : block'[i] = block[i]
    /\ \A i \in (l + 1)..Len(block') : NewWord(block'[i], kind, n)
    /\ \/ l = Len(block) /\ prior_entry' = prior_entry
       \/ l = 0 /\ prior_entry'.at = 0

LEMMA AddedWords ==
    ASSUME TypeOK, NEW kind \in Kinds, NEW n \in Nat, NEW d \in Int, AddEntry(kind, n, d)
    PROVE  /\ 0 < Len(block') /\ block'[Len(block')] = EventWord(kind, n)
           /\ Len(block') \in Nat
           /\ \E l \in 0..Len(block) : AddedBehind(kind, n, l)
<1>1. Added(kind, n, d)
  BY AddEntryAdds
<1>2. /\ NewWord(EventWord(kind, n), kind, n)
      /\ NewWord(DeltaWord(n, d), kind, n)
  BY DEF NewWord, EventWord, DeltaWord
<1> DEFINE m == Len(block')
<1>3. /\ Len(block) \in Nat /\ m \in Nat /\ 1 <= m
      /\ block'[m] = EventWord(kind, n)
      /\ prior_entry \in [at : 0..BlockWords, word : Seq(Word)]
  BY <1>1 DEF Added, TypeOK
<1> HIDE DEF m
<1>4. CASE /\ UNCHANGED prior_entry
           /\ \A i \in 1 .. Len(block) : block'[i] = block[i]
           /\ (m = Len(block) + 2 /\ block'[m - 1] = DeltaWord(n, d)) \/ m = Len(block) + 1
  <2>1. \A i \in (Len(block) + 1)..m : i = m \/ (i = m - 1 /\ block'[i] = DeltaWord(n, d))
    BY <1>3, <1>4
  <2>2. \A i \in (Len(block) + 1)..m : NewWord(block'[i], kind, n)
    BY <1>2, <1>3, <2>1
  <2>3. AddedBehind(kind, n, Len(block)) /\ Len(block) \in 0..Len(block)
    BY <1>3, <1>4, <2>2 DEF AddedBehind, m
  <2> QED
    BY <1>3, <2>3 DEF m
<1>5. CASE /\ prior_entry' = [prior_entry EXCEPT !.at = 0]
           /\ m = 1 \/ (m = 2 /\ block'[1] = DeltaWord(n, d))
  <2>1. \A i \in 1..m : i = m \/ (i = 1 /\ block'[i] = DeltaWord(n, d))
    BY <1>3, <1>5
  <2>2. \A i \in 1..m : NewWord(block'[i], kind, n)
    BY <1>2, <1>3, <2>1
  <2>3. prior_entry'.at = 0
    BY <1>3, <1>5
  <2>4. AddedBehind(kind, n, 0) /\ 0 \in 0..Len(block)
    BY <1>3, <2>2, <2>3 DEF AddedBehind, m
  <2> QED
    BY <1>3, <2>4 DEF m
<1> QED
  BY <1>1, <1>4, <1>5 DEF Added, m

LEMMA AddedReturns ==
    ASSUME ReturnInv, NEW kind \in Kinds, NEW n \in Nat, NEW d \in Int, AddEntry(kind, n, d),
           \A i \in 1..Len(block) : block[i].ret # 0 => block[i].ends <= n,
           clock \in Nat, clock' \in Nat, clock <= clock',
           pc' \in {"timed", "delta"} => pc' = pc /\ now' = now
    PROVE  (LowTimes /\ EndsPast /\ ReturnsTrue)'
<1>0. TypeOK
  BY DEF ReturnInv, TInv
<1>1. PICK l \in 0..Len(block) : AddedBehind(kind, n, l)
  BY <1>0, AddedWords
<1>2. /\ Len(block) \in Nat /\ Len(block') \in Nat /\ l \in Nat /\ l <= Len(block)
      /\ l <= Len(block') /\ block \in Seq(Word)
      /\ \A i \in 1..l : i \in 1..Len(block) /\ block[i] \in Word
  <2>1. block \in Seq(Word)
    BY <1>0 DEF TypeOK
  <2> QED
    BY <1>0, <1>1, <2>1, AddedWords DEF AddedBehind
<1>3. \A i \in 1..Len(block') : i \in 1..l \/ i \in (l + 1)..Len(block')
  BY <1>2
<1>4. \A i \in 1..Len(block') : (i \in 1..l /\ block'[i] = block[i] /\ block[i] \in Word)
                                \/ (i \notin 1..l /\ NewWord(block'[i], kind, n))
  BY <1>1, <1>2, <1>3 DEF AddedBehind
<1>5. LowTimes'
  BY <1>2, <1>4 DEF ReturnInv, LowTimes, NewWord
<1>6. EndsPast'
  <2> SUFFICES ASSUME NEW i \in 1..Len(block'), block'[i].ret # 0
               PROVE  /\ block'[i].ends <= clock'
                      /\ pc' \in {"timed", "delta"} => block'[i].ends <= now'
    BY DEF EndsPast
  <2>1. i \in 1..l /\ block'[i] = block[i] /\ block[i] \in Word /\ i \in 1..Len(block)
    BY <1>2, <1>4 DEF NewWord
  <2>2. block[i].ends \in Nat
    BY <2>1 DEF Word
  <2> QED
    BY <2>1, <2>2 DEF ReturnInv, EndsPast
<1>7. ReturnsTrue'
  <2> SUFFICES ASSUME NEW i \in Events', block'[i].ret # 0
               PROVE  /\ block'[i].of = block'[i].at
                      /\ \A j \in Events' : i < j => block'[i].ends <= block'[j].at
                      /\ block'[i].ends - block'[i].at < PERIOD =>
                            block'[i].ret = ReturnShown(block'[i])
    BY DEF ReturnsTrue, ReturnShown
  <2>1. i \in 1..Len(block') /\ block'[i].kind # "TSDELTA"
    BY DEF Events
  <2>2. i \in 1..l /\ block'[i] = block[i] /\ i \in 1..Len(block) /\ i \in Events
    BY <1>2, <1>4, <2>1 DEF NewWord, Events
  <2>3. /\ block[i].of = block[i].at
        /\ \A j \in Events : i < j => block[i].ends <= block[j].at
        /\ block[i].ends - block[i].at < PERIOD => block[i].ret = ReturnShown(block[i])
    BY <2>2 DEF ReturnInv, ReturnsTrue, ReturnShown
  <2>4. ASSUME NEW j \in Events', i < j PROVE block'[i].ends <= block'[j].at
    <3>1. j \in 1..Len(block') /\ block'[j].kind # "TSDELTA"
      BY <2>4 DEF Events
    <3>2. CASE j \in 1..l /\ block'[j] = block[j]
      <4>1. j \in Events
        BY <1>2, <3>1, <3>2 DEF Events
      <4> QED
        BY <2>2, <2>3, <2>4, <3>2, <4>1
    <3>3. CASE NewWord(block'[j], kind, n)
      BY <2>2, <3>3 DEF NewWord
    <3> QED
      BY <1>4, <3>1, <3>2, <3>3
  <2> QED
    BY <2>2, <2>3, <2>4
<1> QED
  BY <1>5, <1>6, <1>7

(* The time of a call of less than a period, from the low bits.            *)
LEMMA ShortTime ==
    ASSUME NEW a \in Nat, NEW b \in Nat, a <= b, b - a < PERIOD
    PROVE  (b - (a % PERIOD)) % PERIOD = b - a
<1>1. PERIOD \in Nat /\ 0 < PERIOD
  BY SizeFacts
<1>2. PICK q \in Int : a = q * PERIOD + (a % PERIOD)
  BY <1>1, Division
<1>3. a % PERIOD \in Int /\ q * PERIOD \in Int
  BY <1>1, Remainder
<1> DEFINE r == b - a
<1>4. b - (a % PERIOD) = q * PERIOD + r /\ r \in 0 .. (PERIOD - 1)
  BY <1>1, <1>2, <1>3
<1> HIDE DEF r
<1>5. (q * PERIOD + r) % PERIOD = r
  BY <1>1, <1>4, Quotient
<1> QED
  BY <1>4, <1>5 DEF r

LEMMA MergedReturns ==
    ASSUME ReturnInv, Merge
    PROVE  ReturnInv'
<1>0. TInv /\ TypeOK /\ TInv'
  BY NextTypes DEF ReturnInv, TInv, Next
<1>a. /\ Len(block) \in Nat /\ block \in Seq(Word)
      /\ now \in Nat /\ clock \in Nat /\ incall \in Nat
      /\ prior_entry.at \in Nat /\ clock' = clock
      /\ pc = "prior" /\ pc' = "idle" /\ now' = 0 /\ incall' = 0
  BY <1>0 DEF TypeOK, Merge
<1> DEFINE k == prior_entry.at
           r == MergedDelta
           w == prior_entry.word[1]
<1>1. /\ w \in Word /\ Mergeable(w) /\ r \in 1 .. MAXDELTA
      /\ block' \in Seq(Word) /\ Len(block') = Len(block)
      /\ \A i \in 1 .. Len(block) : block'[i] = IF i = k THEN Returned(block[i], r) ELSE block[i]
  BY <1>0, MergeWords
<1>2. IsOpen(w)
  BY <1>1 DEF Mergeable, IsOpen
<1>3. /\ k <= Len(block)
      /\ k # 0 => block[k] = w /\ w.at = incall
      /\ \A j \in (k + 1)..Len(block) : block[j].kind # "call" /\ now <= block[j].at
      /\ incall <= now /\ now <= clock
  BY <1>a, <1>2 DEF ReturnInv, PriorTrue, ClockPast
<1>4. r \in Nat /\ 1 <= r
  BY <1>1, SizeFacts
<1>5. r = (IF delta_t(w) = 0 THEN 1 ELSE delta_t(w))
  BY DEF MergedDelta
<1> HIDE DEF k, r, w
<1>6. \A i \in 1..Len(block) : block[i] \in Word
  BY <1>a
<1>7. \A i \in 1..Len(block) :
         /\ block'[i].kind = block[i].kind /\ block'[i].t = block[i].t
         /\ block'[i].at = block[i].at
         /\ i = k => block'[i].ret = r /\ block'[i].of = incall /\ block'[i].ends = now
         /\ i # k => block'[i] = block[i]
  <2> TAKE i \in 1..Len(block)
  <2>1. CASE i = k
    BY <1>1, <1>6, <2>1, ReturnedFields
  <2>2. CASE i # k
    BY <1>1, <2>2
  <2> QED
    BY <2>1, <2>2
<1>8. LowTimes'
  BY <1>1, <1>7 DEF ReturnInv, LowTimes
<1>9. ClockPast'
  BY <1>a DEF ClockPast
<1>10. EndsPast'
  BY <1>a, <1>1, <1>3, <1>7 DEF ReturnInv, EndsPast
<1>11. OpenCall'
  <2> SUFFICES ASSUME 0 < Len(block), IsOpen(block'[Len(block)]) PROVE FALSE
    BY <1>1 DEF OpenCall
  <2>1. Len(block) \in 1..Len(block)
    BY <1>a
  <2>2. CASE Len(block) = k
    BY <1>4, <1>7, <2>1, <2>2 DEF IsOpen
  <2>3. CASE Len(block) # k
    <3>1. Len(block) \in (k + 1)..Len(block)
      BY <1>a, <1>3, <2>3 DEF k
    <3> QED
      BY <1>3, <1>7, <2>1, <3>1 DEF IsOpen
  <2> QED
    BY <2>2, <2>3
<1>12. PriorTrue'
  BY <1>a DEF PriorTrue
<1>13. ReturnsTrue'
  <2> SUFFICES ASSUME NEW i \in Events', block'[i].ret # 0
               PROVE  /\ block'[i].of = block'[i].at
                      /\ \A j \in Events' : i < j => block'[i].ends <= block'[j].at
                      /\ block'[i].ends - block'[i].at < PERIOD =>
                            block'[i].ret = ReturnShown(block'[i])
    BY DEF ReturnsTrue, ReturnShown
  <2>1. Events' = Events /\ Events \subseteq 1..Len(block)
    BY <1>1, <1>7 DEF Events
  <2>2. i \in Events /\ i \in 1..Len(block)
    BY <2>1
  <2>3. CASE i # k
    <3>1. block'[i] = block[i]
      BY <1>7, <2>2, <2>3
    <3>2. /\ block[i].of = block[i].at
          /\ \A j \in Events : i < j => block[i].ends <= block[j].at
          /\ block[i].ends - block[i].at < PERIOD => block[i].ret = ReturnShown(block[i])
      BY <2>2, <3>1 DEF ReturnInv, ReturnsTrue, ReturnShown
    <3> QED
      BY <1>7, <2>1, <3>1, <3>2
  <2>4. CASE i = k
    <3>1. /\ k # 0 /\ block[k] = w /\ w.at = incall
          /\ block'[i].at = incall /\ block'[i].of = incall /\ block'[i].ends = now
          /\ block'[i].ret = r
      BY <1>a, <1>3, <1>7, <2>2, <2>4 DEF k
    <3>2. ASSUME NEW j \in Events', i < j PROVE now <= block'[j].at
      <4>1. j \in (k + 1)..Len(block) /\ j \in 1..Len(block)
        BY <1>a, <2>1, <2>2, <2>4, <3>2
      <4> QED
        BY <1>3, <1>7, <4>1
    <3>3. ASSUME now - incall < PERIOD PROVE r = IF now - incall = 0 THEN 1 ELSE now - incall
      <4>1. w.t = incall % PERIOD
        BY <2>2, <2>4, <3>1 DEF ReturnInv, LowTimes
      <4>2. delta_t(w) = now - incall
        BY <1>a, <1>3, <3>3, <4>1, ShortTime DEF delta_t
      <4> QED
        BY <1>a, <1>3, <1>5, <4>2
    <3> QED
      BY <3>1, <3>2, <3>3 DEF ReturnShown
  <2> QED
    BY <2>3, <2>4
<1> QED
  BY <1>0, <1>8, <1>9, <1>10, <1>11, <1>12, <1>13 DEF ReturnInv

(* What is about the block alone stays with the block.                     *)
LEMMA SameReturns ==
    ASSUME LowTimes, ReturnsTrue, UNCHANGED block
    PROVE  (LowTimes /\ ReturnsTrue)'
<1>1. Events' = Events
  BY DEF Events
<1> QED
  BY <1>1 DEF LowTimes, ReturnsTrue

LEMMA NextReturns ==
    ASSUME ReturnInv, [Next]_vars
    PROVE  ReturnInv'
<1>0. TInv /\ TypeOK /\ TInv'
  BY NextTypes DEF ReturnInv, TInv
<1>a. /\ Len(block) \in Nat /\ block \in Seq(Word)
      /\ now \in Nat /\ clock \in Nat /\ incall \in Nat /\ delta \in Int /\ prior_cycles \in Nat
      /\ now' \in Nat /\ clock' \in Nat /\ incall' \in Nat /\ prior_entry.at \in Nat
  BY <1>0 DEF TInv, TypeOK
<1>b. \A i \in 1..Len(block) : block[i] \in Word /\ block[i].ends \in Nat
  <2>1. \A i \in 1..Len(block) : block[i] \in Word
    BY <1>a
  <2> QED
    BY <2>1 DEF Word
<1>1. CASE GetTime
  <2>1. PICK g \in Gaps : clock' = clock + g
    BY <1>1 DEF GetTime
  <2>2. g \in Nat
    BY InputsAssumption
  <2>3. /\ now' = clock' /\ clock <= now' /\ UNCHANGED <<block, incall>>
        /\ pc \in {"again", "idle"} /\ pc' \in {"timed", "opt"}
    BY <1>1, <1>a, <2>1, <2>2 DEF GetTime
  <2>4. (LowTimes /\ ReturnsTrue)'
    BY <2>3, SameReturns DEF ReturnInv
  <2>5. ClockPast'
    BY <1>a, <2>3 DEF ReturnInv, ClockPast
  <2>6. EndsPast'
    BY <1>a, <1>b, <2>3 DEF ReturnInv, EndsPast
  <2>7. OpenCall' /\ PriorTrue'
    BY <2>3 DEF ReturnInv, OpenCall, PriorTrue
  <2> QED
    BY <1>0, <2>4, <2>5, <2>6, <2>7 DEF ReturnInv
<1>2. CASE GetPrior
  <2>1. UNCHANGED <<clock, now, block, incall>> /\ pc = "opt" /\ pc' \in {"prior", "again"}
    BY <1>2 DEF GetPrior
  <2>2. (LowTimes /\ ReturnsTrue)'
    BY <2>1, SameReturns DEF ReturnInv
  <2>3. ClockPast' /\ EndsPast' /\ OpenCall'
    BY <2>1 DEF ReturnInv, ClockPast, EndsPast, OpenCall
  <2>4. PriorTrue'
    <3> SUFFICES ASSUME pc' = "prior" PROVE PriorTrue'
      BY DEF PriorTrue
    <3> DEFINE l == Len(block)
    <3>1. 0 < l /\ prior_entry' = [at |-> l, word |-> <<block[l]>>]
      BY <1>2 DEF GetPrior
    <3>2. prior_entry'.at = l /\ prior_entry'.word[1] = block[l]
      BY <3>1
    <3>3. (l + 1)..l = {}
      BY <1>a
    <3>4. IsOpen(block[l]) => block[l].at = incall
      BY <2>1, <3>1 DEF ReturnInv, OpenCall
    <3> QED
      BY <1>a, <2>1, <3>2, <3>3, <3>4 DEF PriorTrue
  <2> QED
    BY <1>0, <2>2, <2>3, <2>4 DEF ReturnInv
<1>3. CASE Merge
  BY <1>3, MergedReturns
<1>4. CASE NoMerge \/ GetDelta
  <2>1. /\ UNCHANGED <<clock, now, block, incall>>
        /\ pc' \in {"again", "delta"} /\ pc \in {"prior", "timed"}
        /\ pc' = "delta" => pc = "timed"
    BY <1>4 DEF NoMerge, GetDelta
  <2>2. (LowTimes /\ ReturnsTrue)'
    BY <2>1, SameReturns DEF ReturnInv
  <2>3. ClockPast' /\ EndsPast' /\ OpenCall' /\ PriorTrue'
    BY <2>1 DEF ReturnInv, ClockPast, EndsPast, OpenCall, PriorTrue
  <2> QED
    BY <1>0, <2>2, <2>3 DEF ReturnInv
<1>5. CASE Claim
  <2>1. UNCHANGED <<now, incall>> /\ pc = "delta" /\ pc' = "claimed"
    BY <1>5 DEF Claim
  <2>2. clock <= clock'
    BY <1>5, <1>a, InputsAssumption DEF Claim
  <2>3. PICK kind \in Kinds : AddEntry(kind, now, delta) /\ (kind = "call" => incall = 0)
    BY <1>5 DEF Claim, Kinds
  <2>4. (LowTimes /\ EndsPast /\ ReturnsTrue)'
    <3>1. \A i \in 1..Len(block) : block[i].ret # 0 => block[i].ends <= now
      BY <2>1 DEF ReturnInv, EndsPast
    <3> QED
      BY <1>a, <2>1, <2>2, <2>3, <3>1, AddedReturns
  <2>5. block'[Len(block')] = EventWord(kind, now)
    BY <1>0, <1>a, <2>3, AddedWords
  <2>6. OpenCall'
    BY <2>1, <2>3, <2>5 DEF OpenCall, IsOpen, EventWord
  <2>7. ClockPast' /\ PriorTrue'
    BY <1>a, <2>1, <2>2 DEF ReturnInv, ClockPast, PriorTrue
  <2> QED
    BY <1>0, <2>4, <2>6, <2>7 DEF ReturnInv
<1>6. CASE SetPrior
  <2>1. /\ UNCHANGED <<clock, block>> /\ pc = "claimed" /\ pc' = "idle" /\ now' = 0
        /\ incall' = IF incall = 0 THEN now ELSE 0
    BY <1>6 DEF SetPrior
  <2>2. (LowTimes /\ ReturnsTrue)'
    BY <2>1, SameReturns DEF ReturnInv
  <2>3. ClockPast' /\ EndsPast' /\ OpenCall' /\ PriorTrue'
    BY <1>a, <2>1 DEF ReturnInv, ClockPast, EndsPast, OpenCall, PriorTrue
  <2> QED
    BY <1>0, <2>2, <2>3 DEF ReturnInv
<1>7. CASE Interrupt
  <2>1. PICK g \in Gaps, i \in InitGaps :
          /\ clock' = clock + g + i
          /\ AddEntry("event", clock + g, clock + g - prior_cycles)
    BY <1>7 DEF Interrupt
  <2> DEFINE n == clock + g
             d == clock + g - prior_cycles
  <2>2. UNCHANGED <<pc, now, incall>>
    BY <1>7 DEF Interrupt
  <2>3. n \in Nat /\ d \in Int /\ clock <= n /\ n <= clock' /\ "event" \in Kinds
    BY <1>a, <2>1, InputsAssumption DEF Kinds
  <2>4. AddEntry("event", n, d)
    BY <2>1
  <2> HIDE DEF n, d
  <2>5. (LowTimes /\ EndsPast /\ ReturnsTrue)'
    <3>1. \A j \in 1..Len(block) : block[j].ret # 0 => block[j].ends <= n
      BY <1>a, <1>b, <2>3 DEF ReturnInv, EndsPast
    <3>2. clock <= clock'
      BY <1>a, <2>3
    <3> QED
      BY <1>a, <2>2, <2>3, <2>4, <3>1, <3>2, AddedReturns
  <2>6. /\ block'[Len(block')] = EventWord("event", n) /\ Len(block') \in Nat
        /\ \E l \in 0..Len(block) : AddedBehind("event", n, l)
    BY <1>0, <2>3, <2>4, AddedWords
  <2>7. OpenCall'
    BY <2>6 DEF OpenCall, IsOpen, EventWord
  <2>8. ClockPast'
    BY <1>a, <2>2, <2>3 DEF ReturnInv, ClockPast
  <2>9. PriorTrue'
    <3> SUFFICES ASSUME pc = "prior" PROVE PriorTrue'
      BY <2>2 DEF PriorTrue
    <3>1. PICK l \in 0..Len(block) : AddedBehind("event", n, l)
      BY <2>6
    <3>2. now <= n
      BY <1>a, <2>3 DEF ReturnInv, ClockPast
    <3>3. \A j \in (l + 1)..Len(block') : block'[j].kind # "call" /\ now <= block'[j].at
      BY <3>1, <3>2 DEF AddedBehind, NewWord
    <3>4. CASE l = Len(block) /\ prior_entry' = prior_entry
      <4> DEFINE k == prior_entry.at
      <4>1. /\ k <= Len(block)
            /\ k # 0 => /\ block[k] = prior_entry.word[1]
                        /\ IsOpen(prior_entry.word[1]) => prior_entry.word[1].at = incall
            /\ \A j \in (k + 1)..Len(block) : block[j].kind # "call" /\ now <= block[j].at
        BY DEF ReturnInv, PriorTrue
      <4>2. l <= Len(block') /\ \A j \in 1..Len(block) : block'[j] = block[j]
        BY <3>1, <3>4 DEF AddedBehind
      <4>3. k # 0 => block'[k] = block[k]
        BY <1>a, <4>1, <4>2
      <4>4. \A j \in (k + 1)..Len(block') : block'[j].kind # "call" /\ now <= block'[j].at
        <5> TAKE j \in (k + 1)..Len(block')
        <5>1. CASE j <= Len(block)
          <6>1. j \in (k + 1)..Len(block) /\ j \in 1..Len(block)
            BY <1>a, <2>6, <5>1
          <6> QED
            BY <4>1, <4>2, <6>1
        <5>2. CASE ~ (j <= Len(block))
          <6>1. j \in (l + 1)..Len(block')
            BY <1>a, <2>6, <3>4, <5>2
          <6> QED
            BY <3>3, <6>1
        <5> QED
          BY <5>1, <5>2
      <4>5. k <= Len(block')
        BY <1>a, <2>6, <3>4, <4>1, <4>2
      <4> QED
        BY <2>2, <3>4, <4>1, <4>3, <4>4, <4>5 DEF PriorTrue
    <3>5. CASE l = 0 /\ prior_entry'.at = 0
      BY <2>2, <2>6, <3>3, <3>5 DEF PriorTrue
    <3> QED
      BY <3>1, <3>4, <3>5 DEF AddedBehind
  <2> QED
    BY <1>0, <2>5, <2>7, <2>8, <2>9 DEF ReturnInv
<1>8. CASE UNCHANGED vars
  <2>1. UNCHANGED <<block, clock, prior_entry, pc, now, incall>>
    BY <1>8 DEF vars, locals
  <2>2. (LowTimes /\ ReturnsTrue)'
    BY <2>1, SameReturns DEF ReturnInv
  <2>3. ClockPast' /\ EndsPast' /\ OpenCall' /\ PriorTrue'
    BY <2>1 DEF ReturnInv, ClockPast, EndsPast, OpenCall, PriorTrue
  <2> QED
    BY <1>0, <2>2, <2>3 DEF ReturnInv
<1> QED
  BY <1>1, <1>2, <1>3, <1>4, <1>5, <1>6, <1>7, <1>8 DEF Next

LEMMA InitReturnInv == Init => ReturnInv
<1> SUFFICES ASSUME Init PROVE ReturnInv
  OBVIOUS
<1>1. TInv
  BY InitType DEF TInv, Init
<1>2. block = <<>> /\ Len(block) = 0 /\ 1..Len(block) = {}
  BY DEF Init
<1>3. ClockPast
  BY InputsAssumption DEF Init, ClockPast
<1> QED
  BY <1>1, <1>2, <1>3 DEF Init, ReturnInv, LowTimes, EndsPast, OpenCall, PriorTrue,
     ReturnsTrue, Events

(* insert_1_retopt merges a return only into its own call, no entry of an  *)
(* interrupt was taken inside a merged call, and the call's length is      *)
(* right, or 1 tick for a call of 0, if it took less than a period.        *)
THEOREM ReturnsTrueHolds == Spec => []ReturnsTrue
<1>1. Init => ReturnInv
  BY InitReturnInv
<1>2. ReturnInv /\ [Next]_vars => ReturnInv'
  BY NextReturns
<1>3. ReturnInv => ReturnsTrue
  BY DEF ReturnInv
<1> QED
  BY <1>1, <1>2, <1>3, PTL DEF Spec

(***************************************************************************)
(* The times rawtoevent finds                                              *)
(***************************************************************************)

(* Induction over the naturals, in a form without operator parameters.     *)
LEMMA Least ==
    ASSUME NEW T \in SUBSET Nat, T # {}
    PROVE  \E x \in T : \A y \in T : x <= y
<1> DEFINE R == OpToRel(<, Nat)
<1>1. IsWellFoundedOn(R, Nat)
  BY NatLessThanWellFounded
<1>2. \A x, y \in Nat : x < y => <<x, y>> \in R
  BY DEF OpToRel
<1> HIDE DEF R
<1>3. \E x \in T : \A y \in T : ~ (<<y, x>> \in R)
  BY <1>1, WFMin
<1>4. \A x, y \in Nat : ~ (y < x) => x <= y
  OBVIOUS
<1> QED
  BY <1>2, <1>3, <1>4, Zenon

LEMMA Inductive ==
    ASSUME NEW S, 0 \in S, \A n \in Nat : n \in S => n + 1 \in S
    PROVE  Nat \subseteq S
<1> DEFINE T == Nat \ S
<1>1. SUFFICES ASSUME T # {} PROVE FALSE
  OBVIOUS
<1>2. PICK x \in T : \A y \in T : x <= y
  BY <1>1, Least
<1>3. x \in Nat /\ x # 0
  OBVIOUS
<1>4. x - 1 \in Nat /\ ~ (x <= x - 1) /\ (x - 1) + 1 = x
  BY <1>3
<1>5. x - 1 \in S
  BY <1>4, <1>2
<1> QED
  BY <1>4, <1>5

(* decode is defined on every word of the block by its recursion.          *)
LEMMA DecodeDef ==
    ASSUME TypeOK
    PROVE  \A i \in 0..Len(block) :
              decode[i] = IF i = 0 THEN StartOfBlock ELSE DecodeWord(decode[i - 1], block[i])
<1> DEFINE F(f, n) == f = [i \in 0..n |-> IF i = 0 THEN StartOfBlock
                                          ELSE DecodeWord(f[i - 1], block[i])]
           T == {n \in Nat : \E f : F(f, n)}
<1> HIDE DEF DecodeWord, StartOfBlock
<1>1. 0 \in T
  <2>1. F([i \in {0} |-> StartOfBlock], 0)
    <3>1. 0..0 = {0}
      OBVIOUS
    <3> QED
      BY <3>1
  <2> QED
    BY <2>1
<1>2. ASSUME NEW n \in Nat, n \in T PROVE n + 1 \in T
  <2>1. PICK f : F(f, n)
    BY <1>2
  <2> DEFINE g == [i \in 0..(n + 1) |-> IF i <= n THEN f[i] ELSE DecodeWord(f[n], block[n + 1])]
  <2>2. \A i \in 0..(n + 1) :
           g[i] = IF i = 0 THEN StartOfBlock ELSE DecodeWord(g[i - 1], block[i])
    <3> TAKE i \in 0..(n + 1)
    <3>1. \A j \in 0..n : f[j] = IF j = 0 THEN StartOfBlock ELSE DecodeWord(f[j - 1], block[j])
      BY <2>1
    <3> HIDE DEF F
    <3>2. CASE i = 0
      BY <3>1, <3>2
    <3>3. CASE i # 0 /\ i <= n
      <4>1. i - 1 \in 0..n /\ i - 1 \in 0..(n + 1) /\ i - 1 <= n /\ i \in 0..n
        BY <3>3
      <4>2. g[i - 1] = f[i - 1] /\ g[i] = f[i]
        BY <4>1
      <4> HIDE DEF g
      <4> QED
        BY <3>1, <3>3, <4>1, <4>2
    <3>4. CASE i = n + 1
      <4>1. i - 1 = n /\ n \in 0..(n + 1) /\ n <= n /\ ~ (n + 1 <= n) /\ i # 0
        BY <3>4
      <4>2. g[i - 1] = f[n] /\ g[i] = DecodeWord(f[n], block[n + 1])
        BY <3>4, <4>1
      <4> HIDE DEF g
      <4> QED
        BY <3>4, <4>1, <4>2
    <3> QED
      BY <3>2, <3>3, <3>4
  <2>3. F(g, n + 1)
    <3>1. g = [i \in 0..(n + 1) |-> g[i]]
      OBVIOUS
    <3> HIDE DEF g
    <3> QED
      BY <2>2, <3>1
  <2> HIDE DEF F, g
  <2> QED
    BY <2>3
<1>3. Len(block) \in T
  <2> HIDE DEF T
  <2>1. \A n \in Nat : n \in T => n + 1 \in T
    BY <1>2
  <2>2. Len(block) \in Nat
    BY DEF TypeOK
  <2> QED
    BY <1>1, <2>1, <2>2, Inductive
<1>4. \E f : F(f, Len(block))
  BY <1>3
<1>5. decode = CHOOSE f : F(f, Len(block))
  BY DEF decode
<1>6. F(decode, Len(block))
  <2> HIDE DEF F
  <2> QED
    BY <1>4, <1>5
<1> QED
  BY <1>6

(* A time is its low and its high bits, in one way only.                   *)
LEMMA HighLow ==
    ASSUME NEW a \in Int
    PROVE  /\ Low(a) \in 0..(PERIOD - 1) /\ High(a) \in Int /\ High(a) + Low(a) = a
           /\ \A r \in 0..(PERIOD - 1) :
                 /\ Low(High(a) + r) = r /\ High(High(a) + r) = High(a)
                 /\ Low(High(a) + PERIOD + r) = r
                 /\ High(High(a) + PERIOD + r) = High(a) + PERIOD
<1>1. PERIOD \in Nat /\ 0 < PERIOD
  BY SizeFacts
<1>2. Low(a) \in 0..(PERIOD - 1)
  BY <1>1, Remainder DEF Low
<1>3. Low(a) \in Int
  BY <1>1, <1>2
<1>4. High(a) \in Int /\ High(a) + Low(a) = a
  BY <1>3 DEF High
<1>5. PICK q \in Int : a = q * PERIOD + Low(a)
  BY <1>1, Division DEF Low
<1>6. q * PERIOD \in Int /\ (q + 1) * PERIOD = q * PERIOD + PERIOD
  BY <1>1, SMTT(30)
<1>7. High(a) = q * PERIOD
  <2> DEFINE x == q * PERIOD
             l == Low(a)
             h == High(a)
  <2>1. x \in Int /\ l \in Int /\ h \in Int /\ h + l = a /\ a = x + l
    BY <1>3, <1>4, <1>5, <1>6
  <2> HIDE DEF x, l, h
  <2>2. h = x
    BY <2>1
  <2> QED
    BY <2>2 DEF h, x
<1>8. ASSUME NEW r \in 0..(PERIOD - 1)
      PROVE  /\ Low(High(a) + r) = r /\ High(High(a) + r) = High(a)
             /\ Low(High(a) + PERIOD + r) = r
             /\ High(High(a) + PERIOD + r) = High(a) + PERIOD
  <2>1. (q * PERIOD + r) % PERIOD = r /\ ((q + 1) * PERIOD + r) % PERIOD = r
    BY <1>1, Quotient
  <2>2. /\ Low(High(a) + r) = r /\ Low(High(a) + PERIOD + r) = r
    BY <1>6, <1>7, <2>1 DEF Low
  <2>3. r \in Int
    BY <1>1
  <2> QED
    BY <1>1, <1>4, <2>2, <2>3 DEF High
<1> QED
  BY <1>2, <1>4, <1>8

(* A TSDELTA argument is read back as what was written, if that fits.      *)
LEMMA SignedBack ==
    ASSUME NEW g \in Int, Fits(g)
    PROVE  Signed(g % ARG) = g
<1>1. CASE 0 <= g
  <2>1. g \in 0..(ARG - 1) /\ g = 0 * ARG + g
    BY <1>1, SizeFacts DEF Fits
  <2>2. (0 * ARG + g) % ARG = g
    BY <2>1, SizeFacts, Quotient
  <2> QED
    BY <2>1, <2>2 DEF Signed, Fits
<1>2. CASE g < 0
  <2>1. g + ARG \in 0..(ARG - 1) /\ g = (-1) * ARG + (g + ARG) /\ ~ (g + ARG < LARGE)
    BY <1>2, SizeFacts DEF Fits
  <2>2. ((-1) * ARG + (g + ARG)) % ARG = g + ARG
    BY <2>1, SizeFacts, Quotient
  <2> QED
    BY <2>1, <2>2, SizeFacts DEF Signed
<1> QED
  BY <1>1, <1>2

(* What rawtoevent knows after a word: the time of the word.               *)
Knows(s, a) == s.prepend = High(a) /\ s.prior_t = Low(a)

(* An event less than FORWARD after one whose time is known, or a late     *)
(* store in the same period, is given its time.                            *)
LEMMA EventDecoded ==
    ASSUME NEW a \in Nat, NEW b \in Nat, NEW s, Knows(s, a),
           NEW w, w.kind # "TSDELTA", w.t = Low(b),
           \/ 0 <= b - a /\ b - a < FORWARD
           \/ -LATE <= b - a /\ b - a < 0 /\ High(b) = High(a)
    PROVE  Knows(DecodeWord(s, w), b)
<1> DEFINE p == Low(a)
           t == Low(b)
<1>1. /\ p \in 0..(PERIOD - 1) /\ t \in 0..(PERIOD - 1)
      /\ High(a) \in Int /\ High(b) \in Int /\ High(a) + p = a /\ High(b) + t = b
  <2>1. a \in Int /\ b \in Int
    OBVIOUS
  <2> QED
    BY <2>1, HighLow
<1>2. /\ DecodeWord(s, w).prior_t = t
      /\ DecodeWord(s, w).prepend = High(a) + (IF Rollover(p, t) THEN PERIOD ELSE 0)
  BY DEF DecodeWord, Knows
<1>3. \A r \in 0..(PERIOD - 1) :
         /\ Low(High(a) + r) = r /\ High(High(a) + r) = High(a)
         /\ Low(High(a) + PERIOD + r) = r
         /\ High(High(a) + PERIOD + r) = High(a) + PERIOD
  BY HighLow
<1> HIDE DEF p, t
<1>4. CASE 0 <= b - a /\ b - a < FORWARD
  <2> DEFINE x == p + (b - a)
  <2>1. CASE x < PERIOD
    <3>1. x \in 0..(PERIOD - 1) /\ b = High(a) + x /\ p <= x
      BY <1>1, <1>4, <2>1, SizeFacts
    <3>2. t = x /\ High(b) = High(a)
      BY <1>3, <3>1 DEF t
    <3>3. ~ Rollover(p, t)
      BY <1>1, <3>1, <3>2, SizeFacts DEF Rollover, Wrapped
    <3> QED
      BY <1>1, <1>2, <3>2, <3>3 DEF Knows, t
  <2>2. CASE ~ (x < PERIOD)
    <3>1. /\ x - PERIOD \in 0..(PERIOD - 1) /\ b = High(a) + PERIOD + (x - PERIOD)
          /\ p > (x - PERIOD) + LATE
      BY <1>1, <1>4, <2>2, SizeFacts
    <3>2. t = x - PERIOD /\ High(b) = High(a) + PERIOD
      BY <1>3, <3>1 DEF t
    <3>3. Rollover(p, t)
      BY <1>1, <3>1, <3>2, SizeFacts DEF Rollover, Wrapped, LateStore
    <3> QED
      BY <1>1, <1>2, <3>2, <3>3 DEF Knows, t
  <2> QED
    BY <2>1, <2>2
<1>5. CASE -LATE <= b - a /\ b - a < 0 /\ High(b) = High(a)
  <2>1. t < p /\ p <= t + LATE
    BY <1>1, <1>5, SizeFacts
  <2>2. ~ Rollover(p, t)
    BY <2>1 DEF Rollover, LateStore
  <2> QED
    BY <1>1, <1>2, <1>5, <2>2 DEF Knows, t
<1> QED
  BY <1>4, <1>5

(* A TSDELTA word gives the time of the event behind it.                   *)
LEMMA DeltaDecoded ==
    ASSUME NEW a \in Nat, NEW b \in Nat, NEW s, Knows(s, a),
           NEW u, u.kind = "TSDELTA", u.arg = (b - a) % ARG, Fits(b - a)
    PROVE  Knows(DecodeWord(s, u), b)
<1>1. Signed(u.arg) = b - a
  BY SignedBack
<1>2. High(a) \in Int /\ Low(a) \in Int /\ High(a) + Low(a) = a
  BY HighLow, SizeFacts
<1>3. s.prepend + s.prior_t + Signed(u.arg) = b
  BY <1>1, <1>2 DEF Knows
<1> QED
  BY <1>3 DEF DecodeWord, Knows

LEMMA Recovered ==
    ASSUME TypeOK, DeltasFollowed, LowTimes, 0 < Len(block), StartRecorded,
           NEW e \in Events, \A j \in Events : 1 < j /\ j <= e => GapRecorded(j)
    PROVE  tfull(e) = block[e].at
<1> DEFINE Wrong == {i \in Events : i <= e /\ ~ Knows(decode[i], block[i].at)}
<1>1. Len(block) \in Nat /\ block \in Seq(Word) /\ base \in Nat
  BY DEF TypeOK
<1>2. \A i \in 1..Len(block) : /\ block[i] \in Word
                               /\ block[i].at \in Nat /\ block[i].t = Low(block[i].at)
  <2>1. \A i \in 1..Len(block) : block[i] \in Word
    BY <1>1
  <2> QED
    BY <2>1 DEF Word, LowTimes, Low
<1>3. Events \subseteq 1..Len(block) /\ \A i \in Events : block[i].kind # "TSDELTA"
  BY DEF Events
<1>4. /\ decode[0] = StartOfBlock
      /\ \A i \in 1..Len(block) : decode[i] = DecodeWord(decode[i - 1], block[i])
  <2>1. 0 \in 0..Len(block) /\ \A i \in 1..Len(block) : i \in 0..Len(block) /\ i # 0
    BY <1>1
  <2> QED
    BY <2>1, DecodeDef
(* The first event: the base of the block has its high bits.               *)
<1>5. Knows(decode[1], block[1].at)
  <2>1. 1 \in 1..Len(block) /\ 1 - 1 = 0
    BY <1>1
  <2>2. decode[1] = DecodeWord(StartOfBlock, block[1])
    BY <1>4, <2>1
  <2>3. StartOfBlock.prepend = High(base) /\ StartOfBlock.prior_t = 0
    BY <1>1, SizeFacts DEF StartOfBlock, FirstTimestamp, Wrapped
  <2>4. block[1].kind # "TSDELTA" /\ High(block[1].at) = High(base)
    BY DEF StartRecorded
  <2>5. block[1].t \in Nat /\ block[1].t = Low(block[1].at)
    BY <1>2, <2>1, SizeFacts DEF Word
  <2>6. ~ Rollover(0, block[1].t)
    BY <2>5, SizeFacts DEF Rollover, Wrapped
  <2>7. High(base) \in Int
    BY <1>1, HighLow
  <2> QED
    BY <2>2, <2>3, <2>4, <2>5, <2>6, <2>7 DEF DecodeWord, Knows
(* The least event that is dated wrongly has one before it, dated right.   *)
<1>6. SUFFICES ASSUME Wrong # {} PROVE FALSE
  <2>1. e \in 1..Len(block) /\ e <= e
    BY <1>1, <1>3
  <2>2. ASSUME Wrong = {} PROVE tfull(e) = block[e].at
    <3>1. Knows(decode[e], block[e].at)
      BY <2>1, <2>2
    <3>2. block[e].at \in Int
      BY <1>2, <2>1
    <3> QED
      BY <3>1, <3>2, HighLow DEF Knows, tfull
  <2> QED
    BY <2>2
<1>7. PICK i \in Wrong : \A y \in Wrong : i <= y
  <2>1. Wrong \in SUBSET Nat
    BY <1>1, <1>3
  <2> HIDE DEF Wrong
  <2> QED
    BY <1>6, <2>1, Least
<1>8. /\ i \in Events /\ i \in 1..Len(block) /\ i \in Nat /\ i <= e /\ e \in Nat
      /\ ~ Knows(decode[i], block[i].at)
  BY <1>1, <1>3
<1>9. 1 < i
  BY <1>5, <1>8
<1>10. \A j \in Events : j < i => Knows(decode[j], block[j].at)
  <2> SUFFICES ASSUME NEW j \in Events, j < i, ~ Knows(decode[j], block[j].at) PROVE FALSE
    OBVIOUS
  <2>1. j \in Nat
    BY <1>1, <1>3
  <2>2. j \in Wrong
    BY <1>8, <2>1
  <2> QED
    BY <1>7, <1>8, <2>1, <2>2
<1>11. GapRecorded(i) /\ i - 1 \in 1..Len(block)
  BY <1>1, <1>8, <1>9
<1> HIDE DEF Wrong
<1>12. CASE HasDelta(i)
  <2>1. block[i - 1].kind = "TSDELTA" /\ Before(i) = i - 2
    BY <1>12 DEF HasDelta, Before
  <2>2. i - 1 # 1
    BY <2>1 DEF StartRecorded
  <2>3. i - 2 \in 1..Len(block) /\ (i - 2) + 1 = i - 1 /\ i - 2 < i
    BY <1>1, <1>8, <1>9, <2>2
  <2>4. i - 2 \in Events
    BY <2>1, <2>3 DEF DeltasFollowed, Events
  <2> DEFINE a == block[i - 2].at
             b == block[i].at
  <2>5. a \in Nat /\ b \in Nat /\ Knows(decode[i - 2], a)
    BY <1>2, <1>8, <1>10, <2>3, <2>4
  <2>6. block[i - 1].arg = (b - a) % ARG /\ Fits(b - a)
    BY <1>11, <1>12, <2>1 DEF GapRecorded, Gap
  <2>7. decode[i - 1] = DecodeWord(decode[i - 2], block[i - 1])
    <3>1. (i - 1) - 1 = i - 2
      BY <1>8
    <3> QED
      BY <1>4, <1>11, <3>1
  <2>8. decode[i] = DecodeWord(decode[i - 1], block[i])
    BY <1>4, <1>8
  <2>9. block[i].kind # "TSDELTA" /\ block[i].t = Low(b)
    BY <1>2, <1>3, <1>8
  <2> HIDE DEF a, b
  <2>10. Knows(decode[i - 1], b)
    BY <2>1, <2>5, <2>6, <2>7, DeltaDecoded
  <2>11. ~ Rollover(Low(b), Low(b)) /\ High(b) + 0 = High(b)
    <3>1. Low(b) \in 0..(PERIOD - 1) /\ High(b) \in Int
      <4>1. b \in Int
        BY <2>5
      <4> QED
        BY <4>1, HighLow
    <3> QED
      BY <3>1, SizeFacts DEF Rollover, Wrapped
  <2>12. Knows(decode[i], b)
    BY <2>8, <2>9, <2>10, <2>11 DEF DecodeWord, Knows
  <2> QED
    BY <1>8, <2>12 DEF b
<1>13. CASE ~ HasDelta(i)
  <2>1. Before(i) = i - 1 /\ i - 1 \in Events /\ i - 1 < i
    BY <1>8, <1>9, <1>11, <1>13 DEF HasDelta, Before, Events
  <2> DEFINE a == block[i - 1].at
             b == block[i].at
  <2>2. a \in Nat /\ b \in Nat /\ Knows(decode[i - 1], a)
    BY <1>2, <1>8, <1>10, <1>11, <2>1
  <2>3. \/ 0 <= b - a /\ b - a < FORWARD
        \/ -LATE <= b - a /\ b - a < 0 /\ High(b) = High(a)
    BY <1>11, <1>13, <2>1 DEF GapRecorded, Gap
  <2>4. decode[i] = DecodeWord(decode[i - 1], block[i])
    BY <1>4, <1>8
  <2>5. block[i].kind # "TSDELTA" /\ block[i].t = Low(b)
    BY <1>2, <1>3, <1>8
  <2> HIDE DEF a, b
  <2>6. Knows(decode[i], b)
    BY <2>2, <2>3, <2>4, <2>5, EventDecoded
  <2> QED
    BY <1>8, <2>6 DEF b
<1> QED
  BY <1>12, <1>13

(* rawtoevent dates an entry right, whatever came before it in its block,  *)
(* if the start of the block and the gaps up to the entry are recorded.    *)
THEOREM TimesRecoveredHolds == Spec => []TimesRecovered
<1>1. Init => GapInv /\ ReturnInv
  BY InitGapInv, InitReturnInv
<1>2. GapInv /\ ReturnInv /\ [Next]_vars => (GapInv /\ ReturnInv)'
  BY NextGaps, NextReturns
<1>3. GapInv /\ ReturnInv => TimesRecovered
  <2> SUFFICES ASSUME GapInv, ReturnInv, block # <<>>, StartRecorded,
                      NEW e \in Events, \A j \in Events : 1 < j /\ j <= e => GapRecorded(j)
               PROVE  tfull(e) = block[e].at
    BY DEF TimesRecovered
  <2>1. TypeOK /\ DeltasFollowed /\ LowTimes
    BY DEF GapInv, ReturnInv, TInv
  <2>2. 0 < Len(block)
    BY <2>1 DEF TypeOK
  <2> QED
    BY <2>1, <2>2, Recovered
<1> QED
  BY <1>1, <1>2, <1>3, PTL DEF Spec
=============================================================================
