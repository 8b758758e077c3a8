----------------------- MODULE ActiveAccountsProofs -----------------------
(***************************************************************************)
(* For every chain, call of the script, number of retries, and order and   *)
(* completeness of the answers of the node (ActiveAccounts): the blocks of *)
(* the range are accounted for, each call of a block that was read is      *)
(* counted once in each direction, and the output has the accounts that    *)
(* stand highest with their rows seen most.                                *)
(*                                                                         *)
(* The scan.  What is scanned and skipped so far is the range up to the    *)
(* next batch (RangeInv).  The rows gathered are a function of the blocks  *)
(* read (CallsInv): those that Made has of them, whatever order they came  *)
(* in.  An answer is brought into the order of its numbers (AnswerInOrder) *)
(* and each turn of the loops over blocks and calls makes what Made says   *)
(* (OneMade, CallMade, BlockMade, BlocksMade).                             *)
(*                                                                         *)
(* The choice.  Standings and keys are tuples of numbers that differ from  *)
(* account to account and from row to row, so that a sort has one outcome  *)
(* (Places, SortedIs).  While candidates are looked at, those left stand   *)
(* below all that are chosen, and whoever is neither is a contract         *)
(* (SelectionInv).  The output has the first of the top rows by their keys *)
(* (OutputIs); where a row is missing the cap was reached with that        *)
(* account or before it (MissingRow).                                      *)
(***************************************************************************)
EXTENDS ActiveAccounts, FiniteSetTheorems, WellFoundedInduction, TLAPS
-----------------------------------------------------------------------------
(* Numbers. *)

LEMMA LeastNatural ==
  ASSUME NEW S \in SUBSET Nat, S # {}
  PROVE  \E m \in S : \A n \in S : m <= n
<1> DEFINE less == OpToRel(<, Nat)
<1>1. \A m, n \in Nat : <<m, n>> \in less <=> m < n
  BY DEF OpToRel
<1>2. IsWellFoundedOn(less, Nat)
  BY NatLessThanWellFounded
<1> HIDE DEF less
<1>3. \E m \in S : \A n \in S : ~(<<n, m>> \in less)
  BY <1>2, WFMin
<1>4. \E m \in S : \A n \in S : ~(n < m)
  BY <1>1, <1>3, Zenon
<1> QED
  BY <1>4

\* Induction over a loop: what holds before the first turn and is kept by each
\* holds after the last.
LEMMA LoopByInduction ==
  ASSUME NEW n \in Nat, NEW T, 0 \in T, \A i \in 1..n : i - 1 \in T => i \in T
  PROVE  \A i \in 0..n : i \in T
<1> DEFINE U == {i \in 0..n : i \notin T}
<1>1. SUFFICES ASSUME U # {} PROVE FALSE
  OBVIOUS
<1>2. PICK m \in U : \A k \in U : m <= k
  <2>1. U \in SUBSET Nat
    OBVIOUS
  <2> QED
    BY <1>1, <2>1, LeastNatural
<1>3. m \in 1..n /\ m - 1 \in 0..n /\ m - 1 \notin U
  BY <1>2
<1> QED
  BY <1>2, <1>3

LEMMA Appended ==
  ASSUME NEW s \in Seq(Nat), NEW t \in Seq(Nat)
  PROVE  /\ s \o t \in Seq(Nat) /\ Len(s \o t) = Len(s) + Len(t)
         /\ DOMAIN (s \o t) = 1..(Len(s) + Len(t))
         /\ \A i \in 1..(Len(s) + Len(t)) :
              (s \o t)[i] = IF i <= Len(s) THEN s[i] ELSE t[i - Len(s)]
OBVIOUS
-----------------------------------------------------------------------------
(* The range. *)

ScanPositions == {"start", "blocks", "probe", "tokens", "done", "failed"}
Least(a, b) == IF a < b THEN a ELSE b

RangeInv ==
  /\ pc \in ScanPositions
  /\ chain \in Chains
  /\ fromBlock \in Nat /\ toBlock \in Nat /\ next \in Nat /\ scanned \in Nat
  /\ skipped \in Seq(Nat)
  /\ read \subseteq DOMAIN chain
  /\ pc = "start" => scanned = 0 /\ skipped = <<>> /\ read = {}
  /\ pc \in {"blocks", "probe", "tokens", "done"} =>
       /\ fromBlock <= toBlock /\ fromBlock <= next
       /\ scanned + Len(skipped) = Least(next, toBlock + 1) - fromBlock
       /\ \A i \in DOMAIN skipped : /\ skipped[i] \in fromBlock..toBlock
                                    /\ skipped[i] < next /\ skipped[i] \notin read
       /\ \A i, j \in DOMAIN skipped : skipped[i] = skipped[j] => i = j
       /\ \A n \in read : n \in fromBlock..toBlock /\ n < next
  /\ pc \in {"probe", "tokens", "done"} => next > toBlock

\* How many blocks a batch has.
BatchLength == IF toBlock - next + 1 < BatchSize THEN toBlock - next + 1 ELSE BatchSize

LEMMA NumbersOfBatch ==
  ASSUME RangeInv, pc = "blocks", next <= toBlock
  PROVE  /\ BatchLength \in Nat \ {0} /\ DOMAIN Numbers(next) = 1..BatchLength
         /\ Numbers(next) \in Seq(Nat) /\ Len(Numbers(next)) = BatchLength
         /\ \A i \in 1..BatchLength : /\ Numbers(next)[i] = next + i - 1
                                      /\ next + i - 1 \in next..toBlock
                                      /\ next + i - 1 < next + BatchSize
         /\ Least(next + BatchSize, toBlock + 1) = next + BatchLength
<1>1. next \in Nat /\ toBlock \in Nat /\ BatchSize \in Nat \ {0}
  BY AccountsAssumption DEF RangeInv
<1>2. BatchLength \in Nat \ {0} /\ next + BatchLength - 1 <= toBlock /\ BatchLength <= BatchSize
  BY <1>1 DEF BatchLength
<1>3. Numbers(next) = [i \in 1..BatchLength |-> next + i - 1]
  BY DEF Numbers, BatchLength
<1>4. Numbers(next) \in [1..BatchLength -> Nat]
  BY <1>1, <1>2, <1>3
<1>5. Numbers(next) \in Seq(Nat) /\ Len(Numbers(next)) = BatchLength
  BY <1>2, <1>4
<1>6. Least(next + BatchSize, toBlock + 1) = next + BatchLength
  BY <1>1, <1>2 DEF Least, BatchLength
<1> QED
  BY <1>1, <1>2, <1>3, <1>5, <1>6

LEMMA StartRange == ASSUME RangeInv, NEW latest \in Nat, StartScan(latest) PROVE RangeInv'
<1> DEFINE to == Larger(0, latest - Confirmations)
           first == Larger(0, to - Lookback + 1)
<1>1. Confirmations \in Nat /\ Lookback \in Nat \ {0}
  BY AccountsAssumption
<1>2. to \in Nat /\ first \in Nat /\ first <= to
  BY <1>1 DEF Larger
<1>3. /\ pc = "start" /\ pc' = "blocks" /\ toBlock' = to /\ fromBlock' = first /\ next' = first
      /\ UNCHANGED <<chain, scanned, skipped, read>>
  BY DEF StartScan, world
<1> HIDE DEF to, first
<1>4. Least(first, to + 1) = first
  BY <1>2 DEF Least
<1> QED
  BY <1>2, <1>3, <1>4 DEF RangeInv, ScanPositions

LEMMA AnswerRange ==
  ASSUME RangeInv, NEW order, NEW known, BlocksAnswered(order, known)
  PROVE  RangeInv'
<1>1. /\ pc = "blocks" /\ next <= toBlock /\ next' = next + BatchSize
      /\ scanned' = scanned + Len(Numbers(next))
      /\ read' = read \cup (ToSet(Numbers(next)) \cap known \cap DOMAIN chain)
      /\ UNCHANGED <<pc, chain, fromBlock, toBlock, skipped>>
  BY DEF BlocksAnswered, world, range
<1>2. /\ BatchLength \in Nat \ {0} /\ Len(Numbers(next)) = BatchLength
      /\ Least(next + BatchSize, toBlock + 1) = next + BatchLength
      /\ Least(next, toBlock + 1) = next
      /\ BatchSize \in Nat \ {0} /\ next \in Nat /\ toBlock \in Nat
  BY <1>1, NumbersOfBatch, AccountsAssumption DEF RangeInv, Least
<1>3. \A n \in ToSet(Numbers(next)) : n \in next..toBlock /\ n < next + BatchSize
  <2>1. \A i \in DOMAIN Numbers(next) : /\ Numbers(next)[i] \in next..toBlock
                                        /\ Numbers(next)[i] < next + BatchSize
    BY <1>1, NumbersOfBatch
  <2> QED
    BY <2>1 DEF ToSet
<1> HIDE DEF Numbers
<1>4. \A n \in read' : n \in read \/ (n \in next..toBlock /\ n < next + BatchSize)
  BY <1>1, <1>3
<1>5. \A n \in read' : n \in fromBlock..toBlock /\ n < next'
  BY <1>1, <1>2, <1>4 DEF RangeInv
<1>6. \A i \in DOMAIN skipped : skipped[i] < next' /\ skipped[i] \notin read'
  <2>1. TAKE i \in DOMAIN skipped
  <2>2. skipped[i] \in fromBlock..toBlock /\ skipped[i] < next /\ skipped[i] \notin read
    BY <1>1 DEF RangeInv
  <2> QED
    BY <1>1, <1>2, <1>4, <2>2
<1>7. scanned' + Len(skipped') = Least(next', toBlock' + 1) - fromBlock'
  <2>1. Len(skipped) \in Nat /\ scanned \in Nat /\ fromBlock \in Nat
    BY DEF RangeInv
  <2>2. scanned + Len(skipped) = next - fromBlock
    BY <1>1, <1>2 DEF RangeInv
  <2> QED
    BY <1>1, <1>2, <2>1, <2>2
<1>8. /\ next' \in Nat /\ scanned' \in Nat /\ fromBlock <= next' /\ read' \subseteq DOMAIN chain
  BY <1>1, <1>2 DEF RangeInv
<1> QED
  BY <1>1, <1>5, <1>6, <1>7, <1>8 DEF RangeInv

LEMMA SkipRange == ASSUME RangeInv, SkipBatch PROVE RangeInv'
<1>1. /\ pc = "blocks" /\ next <= toBlock /\ next' = next + BatchSize
      /\ skipped' = skipped \o Numbers(next)
      /\ UNCHANGED <<pc, chain, fromBlock, toBlock, scanned, read>>
  BY DEF SkipBatch, world, range
<1>2. /\ BatchLength \in Nat \ {0} /\ Len(Numbers(next)) = BatchLength
      /\ Numbers(next) \in Seq(Nat)
      /\ \A i \in 1..BatchLength : Numbers(next)[i] = next + i - 1 /\ next + i - 1 \in next..toBlock
                                   /\ next + i - 1 < next + BatchSize
      /\ Least(next + BatchSize, toBlock + 1) = next + BatchLength
      /\ Least(next, toBlock + 1) = next
      /\ BatchSize \in Nat \ {0} /\ next \in Nat /\ toBlock \in Nat
  BY <1>1, NumbersOfBatch, AccountsAssumption DEF RangeInv, Least
<1> DEFINE L == Len(skipped)
<1>3. skipped \in Seq(Nat) /\ L \in Nat /\ DOMAIN skipped = 1..L
  BY DEF RangeInv
<1>4. /\ skipped' \in Seq(Nat) /\ Len(skipped') = L + BatchLength
      /\ DOMAIN skipped' = 1..(L + BatchLength)
      /\ \A i \in 1..L : skipped'[i] = skipped[i]
      /\ \A i \in (L + 1)..(L + BatchLength) : skipped'[i] = next + (i - L) - 1
  <2>1. /\ skipped' \in Seq(Nat) /\ Len(skipped') = L + BatchLength
        /\ DOMAIN skipped' = 1..(L + BatchLength)
        /\ \A i \in 1..(L + BatchLength) :
             skipped'[i] = IF i <= L THEN skipped[i] ELSE Numbers(next)[i - L]
    <3>1. \A t \in Seq(Nat) : /\ skipped \o t \in Seq(Nat) /\ Len(skipped \o t) = L + Len(t)
                              /\ DOMAIN (skipped \o t) = 1..(L + Len(t))
                              /\ \A i \in 1..(L + Len(t)) :
                                   (skipped \o t)[i] = IF i <= L THEN skipped[i] ELSE t[i - L]
      BY <1>3, Appended
    <3> HIDE DEF L, Numbers
    <3> QED
      BY <1>1, <1>2, <3>1
  <2>2. \A i \in 1..L : i \in 1..(L + BatchLength) /\ i <= L
    BY <1>2, <1>3
  <2>3. \A i \in (L + 1)..(L + BatchLength) : i \in 1..(L + BatchLength) /\ ~(i <= L)
    BY <1>2, <1>3
  <2>4. \A i \in (L + 1)..(L + BatchLength) : i - L \in 1..BatchLength
    BY <1>2, <1>3
  <2> HIDE DEF L, Numbers
  <2> QED
    BY <1>2, <1>3, <2>1, <2>2, <2>3, <2>4
<1> HIDE DEF Numbers, L
<1>11. /\ fromBlock \in Nat /\ fromBlock <= next /\ scanned \in Nat
       /\ \A n \in read : n \in fromBlock..toBlock /\ n < next
       /\ scanned + L = next - fromBlock
  BY <1>1, <1>2 DEF RangeInv, L
<1>5. \A i \in 1..L : /\ skipped'[i] \in fromBlock..toBlock /\ skipped'[i] < next
                      /\ skipped'[i] \notin read
  BY <1>1, <1>3, <1>4 DEF RangeInv
<1>6. \A i \in (L + 1)..(L + BatchLength) :
        /\ skipped'[i] \in fromBlock..toBlock /\ skipped'[i] < next' /\ skipped'[i] \notin read
        /\ skipped'[i] >= next
  <2>1. TAKE i \in (L + 1)..(L + BatchLength)
  <2>2. i - L \in 1..BatchLength /\ skipped'[i] = next + (i - L) - 1
    BY <1>2, <1>3, <1>4
  <2>3. skipped'[i] \in next..toBlock /\ skipped'[i] < next + BatchSize
    BY <1>2, <2>2
  <2>4. skipped'[i] \in fromBlock..toBlock /\ skipped'[i] >= next
    BY <1>2, <1>11, <2>3
  <2>5. skipped'[i] \notin read
    BY <1>2, <1>11, <2>4
  <2> QED
    BY <1>1, <2>3, <2>4, <2>5
<1>7. \A i \in DOMAIN skipped' : /\ skipped'[i] \in fromBlock..toBlock
                                 /\ skipped'[i] < next' /\ skipped'[i] \notin read
  <2>1. TAKE i \in DOMAIN skipped'
  <2>2. i \in 1..L \/ i \in (L + 1)..(L + BatchLength)
    BY <1>2, <1>3, <1>4
  <2>3. CASE i \in 1..L
    <3>1. skipped'[i] < next + BatchSize
      BY <1>2, <1>5, <1>11, <2>3
    <3> QED
      BY <1>1, <1>5, <2>3, <3>1
  <2> QED
    BY <1>1, <1>6, <2>2, <2>3
<1>8. \A i, j \in DOMAIN skipped' : skipped'[i] = skipped'[j] => i = j
  <2>1. SUFFICES ASSUME NEW i \in DOMAIN skipped', NEW j \in DOMAIN skipped',
                        skipped'[i] = skipped'[j], i <= j
                 PROVE  i = j
    BY <1>4
  <2>2. CASE j \in 1..L
    <3>1. i \in 1..L
      BY <1>2, <1>3, <1>4, <2>1, <2>2
    <3>2. skipped[i] = skipped[j]
      BY <1>4, <2>1, <2>2, <3>1
    <3> QED
      BY <1>1, <1>3, <2>2, <3>1, <3>2 DEF RangeInv
  <2>3. CASE j \in (L + 1)..(L + BatchLength)
    <3>1. CASE i \in 1..L
      BY <1>2, <1>5, <1>6, <2>1, <2>3, <3>1
    <3>2. CASE i \in (L + 1)..(L + BatchLength)
      BY <1>2, <1>3, <1>4, <2>1, <2>3, <3>2
    <3> QED
      BY <1>2, <1>3, <1>4, <3>1, <3>2
  <2> QED
    BY <1>2, <1>3, <1>4, <2>2, <2>3
<1>9. scanned' + Len(skipped') = Least(next', toBlock' + 1) - fromBlock'
  <2>1. scanned' = scanned /\ fromBlock' = fromBlock /\ toBlock' = toBlock
    BY <1>1
  <2>2. Least(next', toBlock' + 1) = next + BatchLength
    BY <1>1, <1>2
  <2>3. scanned' + Len(skipped') = scanned + (L + BatchLength)
    BY <1>4, <2>1
  <2>4. scanned + (L + BatchLength) = (next + BatchLength) - fromBlock
    BY <1>2, <1>3, <1>11
  <2> QED
    BY <2>1, <2>2, <2>3, <2>4
<1>10. next' \in Nat /\ fromBlock <= next'
  BY <1>1, <1>2, <1>11
<1>12. \A n \in read' : n \in fromBlock'..toBlock' /\ n < next'
  BY <1>1, <1>2, <1>11
<1>13. pc' = "blocks" /\ pc' \in ScanPositions /\ fromBlock' <= toBlock'
  BY <1>1 DEF RangeInv
<1>14. /\ chain' \in Chains /\ fromBlock' \in Nat /\ toBlock' \in Nat /\ scanned' \in Nat
       /\ read' \subseteq DOMAIN chain' /\ fromBlock' <= next'
       /\ \A i \in DOMAIN skipped' : skipped'[i] \in fromBlock'..toBlock'
  BY <1>1, <1>7, <1>10 DEF RangeInv
<1>15. \A i \in DOMAIN skipped' : skipped'[i] \notin read'
  BY <1>1, <1>7
<1> QED
  BY <1>4, <1>7, <1>8, <1>9, <1>10, <1>12, <1>13, <1>14, <1>15 DEF RangeInv

\* What comes after the scan, and what fails, leaves its record alone.
Rest ==
  \/ Retry \/ StartFails \/ ScanEnds
  \/ TakeCandidate \/ ProbeAnswered \/ ProbeFails \/ SelectionEnds
  \/ \E known \in BOOLEAN : TokenAnswered(known)
  \/ WriteOutput
  \/ UNCHANGED vars

LEMMA RestOfScan ==
  ASSUME Rest
  PROVE  /\ UNCHANGED <<chain, options, fromBlock, toBlock, next, agg, scanned, skipped, read>>
         /\ \/ pc' = pc
            \/ pc' = "failed"
            \/ pc = "blocks" /\ next > toBlock /\ pc' = "probe"
            \/ pc \in {"probe", "tokens"} /\ pc' \in {"tokens", "done"}
BY DEF Rest, Retry, StartFails, ScanEnds, TakeCandidate, ProbeAnswered, ProbeFails,
       SelectionEnds, TokenAnswered, WriteOutput, vars, world, range, scan

LEMMA NextRangeInv == RangeInv /\ [Next]_vars => RangeInv'
<1> SUFFICES ASSUME RangeInv, [Next]_vars PROVE RangeInv'
  OBVIOUS
<1>1. CASE StartScan(Len(chain))
  <2>1. Len(chain) \in Nat
    BY AccountsAssumption DEF RangeInv
  <2> QED
    BY <1>1, <2>1, StartRange
<1>2. CASE \E order \in Orders(Len(Numbers(next))), known \in SUBSET ToSet(Numbers(next)) :
             BlocksAnswered(order, known)
  BY <1>2, AnswerRange
<1>3. CASE SkipBatch
  BY <1>3, SkipRange
<1>4. CASE Rest
  BY <1>4, RestOfScan DEF RangeInv, ScanPositions
<1> QED
  BY <1>1, <1>2, <1>3, <1>4 DEF Next, Rest

LEMMA InitRangeInv == Init => RangeInv
BY DEF Init, RangeInv, ScanPositions

\* Every block of the range is scanned or listed as skipped, once, and what was
\* read is in the range and not listed (459-493).
THEOREM BlocksAreAccounted == Spec => []RangeAccounted
<1>1. RangeInv => RangeAccounted
  <2> SUFFICES ASSUME RangeInv, pc \in {"probe", "tokens", "done"}
               PROVE  /\ scanned + Len(skipped) = toBlock - fromBlock + 1
                      /\ ToSet(skipped) \subseteq (fromBlock..toBlock) \ read
                      /\ IsInjective(skipped)
                      /\ read \subseteq fromBlock..toBlock
    BY DEF RangeAccounted
  <2>1. Least(next, toBlock + 1) = toBlock + 1 /\ toBlock \in Nat /\ fromBlock \in Nat
    BY DEF RangeInv, Least
  <2>2. scanned + Len(skipped) = toBlock - fromBlock + 1
    BY <2>1 DEF RangeInv
  <2>3. ToSet(skipped) \subseteq (fromBlock..toBlock) \ read
    BY DEF RangeInv, ToSet
  <2> QED
    BY <2>2, <2>3 DEF RangeInv, IsInjective
<1> QED
  BY <1>1, InitRangeInv, NextRangeInv, PTL DEF Spec
-----------------------------------------------------------------------------
(* The calls. *)

\* A call of a block, in one direction, makes or adds to a row.
Makes(o, k) ==
  LET call == chain[o[1]][o[2]]
  IN /\ Gathered(call)
     /\ k[1] # k[2]
     /\ IF o[3] = "there" THEN k = <<Sender(call), call.to, call.token>>
                          ELSE ~options.one_way /\ k = <<call.to, Sender(call), call.token>>
Directions == {"there", "back"}
AllIn(B) == UNION {{n} \X (DOMAIN chain[n]) \X Directions : n \in B}

\* The rows that are made by the calls D.
MadeBy(D, k) == {o \in D : Makes(o, k)}
Latest(O) == IF O = {} THEN 0 ELSE Max({o[1] : o \in O})
RowFor(O) == [observed_freq |-> Cardinality(O), last_seen |-> Latest(O), last_block |-> Latest(O)]
Made(D) == [k \in Keys |-> RowFor(MadeBy(D, k))]

CallsInv ==
  /\ options \in Options
  /\ IsFiniteSet(AllIn(read))
  /\ agg = Made(AllIn(read))

\* Calls of blocks up to the n-th.
UpTo(D, n) == IsFiniteSet(D) /\ \A o \in D : o[1] \in Nat /\ o[1] <= n
-----------------------------------------------------------------------------
LEMMA MaxIs ==
  ASSUME NEW S \in SUBSET Nat, NEW n \in S, \A m \in S : m <= n
  PROVE  Max(S) = n
<1>1. \E x \in S : \A y \in S : x >= y
  OBVIOUS
<1>2. Max(S) \in S /\ \A y \in S : Max(S) >= y
  BY <1>1 DEF Max
<1>3. PICK m : m = Max(S)
  OBVIOUS
<1>4. m \in Nat /\ n \in Nat /\ m >= n /\ m <= n
  BY <1>2, <1>3
<1> QED
  BY <1>3, <1>4

LEMMA GreatestNatural ==
  ASSUME NEW n \in Nat, NEW S \in SUBSET Nat, S # {}, \A m \in S : m <= n
  PROVE  Max(S) \in S
<1> DEFINE U == {n - m : m \in S}
<1>1. U \in SUBSET Nat /\ U # {}
  <2>1. \A m \in S : n - m \in Nat
    OBVIOUS
  <2>2. PICK m \in S : TRUE
    OBVIOUS
  <2>3. n - m \in U
    OBVIOUS
  <2> QED
    BY <2>1, <2>3
<1>2. PICK u \in U : \A v \in U : u <= v
  BY <1>1, LeastNatural
<1>3. PICK m \in S : u = n - m
  OBVIOUS
<1>4. \A k \in S : k <= m
  <2>1. TAKE k \in S
  <2>2. n - k \in U
    OBVIOUS
  <2>3. n - m <= n - k
    BY <1>2, <1>3, <2>2
  <2> QED
    BY <2>3
<1> QED
  BY <1>4, MaxIs

LEMMA LatestIsBounded ==
  ASSUME NEW n \in Nat, NEW O, \A o \in O : o[1] \in Nat /\ o[1] <= n
  PROVE  Latest(O) \in Nat /\ Latest(O) <= n
<1>1. CASE O = {}
  BY <1>1 DEF Latest
<1>2. CASE O # {}
  <2> DEFINE S == {o[1] : o \in O}
  <2>1. S \in SUBSET Nat /\ S # {} /\ \A m \in S : m <= n
    BY <1>2
  <2>2. Max(S) \in S
    BY <2>1, GreatestNatural
  <2> QED
    BY <1>2, <2>1, <2>2 DEF Latest
<1> QED
  BY <1>1, <1>2

LEMMA NothingMade ==
  ASSUME NEW D, NEW o, \A k \in Keys : ~Makes(o, k)
  PROVE  Made(D \cup {o}) = Made(D)
<1>1. \A k \in Keys : MadeBy(D \cup {o}, k) = MadeBy(D, k)
  BY DEF MadeBy
<1> QED
  BY <1>1 DEF Made

\* One call, in one direction.
LEMMA OneMade ==
  ASSUME NEW n \in Nat, NEW D, UpTo(D, n), NEW o, o \notin D, o[1] = n, NEW key \in Keys,
         \A k \in Keys : Makes(o, k) <=> k = key /\ key[1] # key[2]
  PROVE  Made(D \cup {o}) = AddCounterparty(Made(D), key, n, n)
<1>1. CASE key[1] = key[2]
  <2>1. \A k \in Keys : ~Makes(o, k)
    BY <1>1
  <2> QED
    BY <1>1, <2>1, NothingMade DEF AddCounterparty
<1>2. CASE key[1] # key[2]
  <2> DEFINE O == MadeBy(D, key)
  <2>1. /\ \A k \in Keys \ {key} : MadeBy(D \cup {o}, k) = MadeBy(D, k)
        /\ MadeBy(D \cup {o}, key) = O \cup {o} /\ o \notin O
    BY <1>2 DEF MadeBy
  <2>2. IsFiniteSet(O) /\ \A x \in O : x[1] \in Nat /\ x[1] <= n
    BY FS_Subset DEF UpTo, MadeBy
  <2> HIDE DEF O
  <2>3. Cardinality(O \cup {o}) = Cardinality(O) + 1
    BY <2>1, <2>2, FS_AddElement
  <2>4. Latest(O) \in Nat /\ Latest(O) <= n
    BY <2>2, LatestIsBounded
  <2>5. Latest(O \cup {o}) = n
    <3> DEFINE S == {x[1] : x \in O \cup {o}}
    <3>1. S \in SUBSET Nat /\ n \in S /\ \A m \in S : m <= n
      BY <2>2
    <3> HIDE DEF S
    <3>2. Max(S) = n
      BY <3>1, MaxIs
    <3> QED
      BY <3>2 DEF Latest, S
  <2>6. RowFor(O \cup {o}) = [observed_freq |-> Cardinality(O) + 1, last_seen |-> n,
                              last_block |-> n]
    BY <2>3, <2>5 DEF RowFor
  <2>7. RowFor(O \cup {o}) =
          [observed_freq |-> Made(D)[key].observed_freq + 1,
           last_seen |-> Larger(n, Made(D)[key].last_seen),
           last_block |-> IF n >= Made(D)[key].last_seen THEN n ELSE Made(D)[key].last_block]
    <3>1. Made(D)[key] = RowFor(O)
      BY DEF Made, O
    <3>2. Made(D)[key].observed_freq = Cardinality(O) /\ Made(D)[key].last_seen = Latest(O)
      BY <3>1 DEF RowFor
    <3>3. Larger(n, Latest(O)) = n /\ n >= Latest(O)
      BY <2>4 DEF Larger
    <3> QED
      BY <2>6, <3>2, <3>3
  <2>8. Made(D \cup {o}) = [Made(D) EXCEPT ![key] = RowFor(O \cup {o})]
    BY <2>1 DEF Made
  <2> QED
    BY <1>2, <2>7, <2>8 DEF AddCounterparty
<1> QED
  BY <1>1, <1>2

\* One call, in both directions.
LEMMA CallMade ==
  ASSUME chain \in Chains, NEW n \in DOMAIN chain, NEW i \in DOMAIN chain[n],
         NEW D, UpTo(D, n), <<n, i, "there">> \notin D, <<n, i, "back">> \notin D
  PROVE  /\ Made((D \cup {<<n, i, "there">>}) \cup {<<n, i, "back">>}) =
              AddCall(Made(D), chain[n][i], n, n)
         /\ UpTo((D \cup {<<n, i, "there">>}) \cup {<<n, i, "back">>}, n)
<1> DEFINE call == chain[n][i]
           there == <<n, i, "there">>
           back == <<n, i, "back">>
           to == <<Sender(call), call.to, call.token>>
           from == <<call.to, Sender(call), call.token>>
<1>1. call \in Calls /\ n \in Nat
  BY AccountsAssumption
<1>2. \A k : /\ Makes(there, k) <=> Gathered(call) /\ k[1] # k[2] /\ k = to
             /\ Makes(back, k) <=> Gathered(call) /\ k[1] # k[2] /\ ~options.one_way /\ k = from
  BY DEF Makes
<1>3. /\ IsFiniteSet(D \cup {there}) /\ IsFiniteSet((D \cup {there}) \cup {back})
      /\ UpTo(D \cup {there}, n) /\ UpTo((D \cup {there}) \cup {back}, n)
  <2>1. IsFiniteSet(D) /\ \A o \in D : o[1] \in Nat /\ o[1] <= n
    BY DEF UpTo
  <2>2. IsFiniteSet(D \cup {there}) /\ IsFiniteSet((D \cup {there}) \cup {back})
    BY <2>1, FS_AddElement
  <2>3. there[1] = n /\ back[1] = n /\ n <= n
    BY <1>1
  <2> HIDE DEF there, back
  <2> QED
    BY <1>1, <2>1, <2>2, <2>3 DEF UpTo
<1>4. CASE ~Gathered(call)
  <2>1. Made(D \cup {there}) = Made(D)
    BY <1>2, <1>4, NothingMade
  <2>2. Made((D \cup {there}) \cup {back}) = Made(D \cup {there})
    BY <1>2, <1>4, NothingMade
  <2> QED
    BY <1>3, <1>4, <2>1, <2>2 DEF AddCall
<1>5. CASE Gathered(call)
  <2>1. to \in Keys /\ from \in Keys
    <3>1. /\ Sender(call) \in Addresses /\ call.to \in Addresses
          /\ call.token \in Tokens \cup {NoAddress}
      BY <1>1 DEF Calls, Sender
    <3>2. /\ Sender(call) \notin {NoAddress, ZeroAddress} /\ call.to \notin {NoAddress, ZeroAddress}
          /\ call.token # NoAddress
      BY <1>5 DEF Gathered, Decoded
    <3> HIDE DEF call
    <3> QED
      BY <3>1, <3>2 DEF Keys, Addresses
  <2> HIDE DEF call
  <2>2. Made(D \cup {there}) = AddCounterparty(Made(D), to, n, n)
    <3>1. \A k \in Keys : Makes(there, k) <=> k = to /\ to[1] # to[2]
      BY <1>2, <1>5
    <3> HIDE DEF to
    <3>2. there[1] = n
      OBVIOUS
    <3> HIDE DEF there
    <3> QED
      BY <1>1, <2>1, <3>1, <3>2, OneMade DEF there
  <2>3. CASE options.one_way
    <3>1. Made((D \cup {there}) \cup {back}) = Made(D \cup {there})
      BY <1>2, <2>3, NothingMade
    <3> QED
      BY <1>3, <1>5, <2>2, <2>3, <3>1 DEF AddCall, call
  <2>4. CASE ~options.one_way
    <3>1. \A k \in Keys : Makes(back, k) <=> k = from /\ from[1] # from[2]
      BY <1>2, <1>5, <2>4
    <3>2. back[1] = n /\ back \notin D \cup {there}
      OBVIOUS
    <3>3. Made((D \cup {there}) \cup {back}) = AddCounterparty(Made(D \cup {there}), from, n, n)
      <4> HIDE DEF from, back, there
      <4> QED
        BY <1>1, <1>3, <2>1, <3>1, <3>2, OneMade
    <3> QED
      BY <1>3, <1>5, <2>2, <2>4, <3>3 DEF AddCall, call
  <2> QED
    BY <2>3, <2>4
<1> QED
  BY <1>4, <1>5

\* The function a block's loop is read off.
CallLoop(f, a, time, n) ==
  f = [i \in 0..Len(chain[time]) |->
         IF i = 0 THEN a ELSE AddCall(f[i-1], chain[time][i], time, n)]

LEMMA BlockIsLoop ==
  ASSUME NEW a, NEW time, time # 0, NEW n
  PROVE  AddBlock(a, time, n) = (CHOOSE f : CallLoop(f, a, time, n))[Len(chain[time])]
BY DEF AddBlock, CallLoop

\* A block: each of its calls is counted in both directions.
LEMMA BlockMade ==
  ASSUME chain \in Chains, NEW n \in DOMAIN chain, NEW D, UpTo(D, n), \A o \in D : o[1] < n
  PROVE  /\ AddBlock(Made(D), n, n) = Made(D \cup AllIn({n}))
         /\ UpTo(D \cup AllIn({n}), n)
<1> DEFINE L == Len(chain[n])
           E(i) == D \cup ({n} \X (1..i) \X Directions)
           g == [i \in 0..L |-> Made(E(i))]
<1>1. L \in Nat /\ DOMAIN chain[n] = 1..L /\ n \in Nat /\ n # 0
  BY AccountsAssumption
<1>2. AllIn({n}) = {n} \X (1..L) \X Directions
  BY <1>1 DEF AllIn
<1>3. E(0) = D
  OBVIOUS
<1>4. ASSUME NEW i \in 1..L
      PROVE  /\ E(i) = (E(i-1) \cup {<<n, i, "there">>}) \cup {<<n, i, "back">>}
             /\ <<n, i, "there">> \notin E(i-1) /\ <<n, i, "back">> \notin E(i-1)
  <2>1. 1..i = (1..(i-1)) \cup {i} /\ i \notin 1..(i-1)
    BY <1>1
  <2>2. \A o \in D : o[1] # n
    BY <1>1 DEF UpTo
  <2>3. ({n} \X (1..i) \X Directions) =
          (({n} \X (1..(i-1)) \X Directions) \cup {<<n, i, "there">>}) \cup {<<n, i, "back">>}
    BY <2>1 DEF Directions
  <2>4. /\ <<n, i, "there">> \notin {n} \X (1..(i-1)) \X Directions
        /\ <<n, i, "back">> \notin {n} \X (1..(i-1)) \X Directions
    BY <2>1
  <2>5. <<n, i, "there">> \notin D /\ <<n, i, "back">> \notin D
    BY <2>2
  <2> QED
    BY <2>3, <2>4, <2>5
<1> HIDE DEF E, L
<1> DEFINE T == {i \in 0..L : UpTo(E(i), n)}
<1>5. \A i \in 0..L : i \in T
  <2>1. 0 \in T
    BY <1>1, <1>3
  <2>2. ASSUME NEW i \in 1..L, i - 1 \in T PROVE i \in T
    <3>1. UpTo(E(i-1), n) /\ i \in DOMAIN chain[n]
      BY <1>1, <2>2
    <3>2. UpTo((E(i-1) \cup {<<n, i, "there">>}) \cup {<<n, i, "back">>}, n)
      BY <1>4, <3>1, CallMade
    <3>3. UpTo(E(i), n)
      BY <1>4, <3>2
    <3> QED
      BY <1>1, <3>3
  <2> HIDE DEF T
  <2> QED
    BY <1>1, <2>1, <2>2, LoopByInduction
<1>6. ASSUME NEW i \in 1..L
      PROVE  Made(E(i)) = AddCall(Made(E(i-1)), chain[n][i], n, n)
  <2>1. i - 1 \in 0..L /\ i \in DOMAIN chain[n]
    BY <1>1
  <2>2. UpTo(E(i-1), n)
    BY <1>5, <2>1
  <2> QED
    BY <1>4, <2>1, <2>2, CallMade
<1>7. CallLoop(g, Made(D), n, n)
  <2>1. \A i \in 0..L : g[i] = IF i = 0 THEN Made(D) ELSE AddCall(g[i-1], chain[n][i], n, n)
    <3>1. TAKE i \in 0..L
    <3>2. CASE i = 0
      BY <1>3, <3>2
    <3>3. CASE i # 0
      <4>1. i \in 1..L /\ i - 1 \in 0..L
        BY <1>1, <3>3
      <4>2. g[i] = Made(E(i)) /\ g[i-1] = Made(E(i-1))
        BY <4>1
      <4> QED
        BY <1>6, <3>3, <4>1, <4>2
    <3> QED
      BY <3>2, <3>3
  <2> QED
    BY <2>1 DEF CallLoop, L
<1>8. PICK f : f = (CHOOSE h : CallLoop(h, Made(D), n, n)) /\ CallLoop(f, Made(D), n, n)
  BY <1>7
<1>9. \A i \in 0..L : f[i] = IF i = 0 THEN Made(D) ELSE AddCall(f[i-1], chain[n][i], n, n)
  BY <1>8 DEF CallLoop, L
<1> DEFINE S == {i \in 0..L : f[i] = Made(E(i))}
<1>10. \A i \in 0..L : i \in S
  <2>1. 0 \in S
    BY <1>1, <1>3, <1>9
  <2>2. ASSUME NEW i \in 1..L, i - 1 \in S PROVE i \in S
    <3>1. f[i-1] = Made(E(i-1)) /\ i \in 0..L /\ i # 0
      BY <1>1, <2>2
    <3>2. f[i] = AddCall(Made(E(i-1)), chain[n][i], n, n)
      BY <1>9, <3>1
    <3> QED
      BY <1>6, <3>1, <3>2
  <2> HIDE DEF S
  <2> QED
    BY <1>1, <2>1, <2>2, LoopByInduction
<1>11. f[L] = Made(E(L)) /\ UpTo(E(L), n)
  BY <1>1, <1>5, <1>10
<1>12. AddBlock(Made(D), n, n) = f[L]
  BY <1>1, <1>8, BlockIsLoop DEF L
<1> QED
  BY <1>2, <1>11, <1>12 DEF E

BlockLoop(f, a, first, blocks) ==
  f = [i \in 0..Len(blocks) |->
         IF i = 0 THEN a ELSE AddBlock(f[i-1], blocks[i], first + i - 1)]

LEMMA BlocksAreLoop ==
  ASSUME NEW a, NEW first, NEW blocks
  PROVE  AddBlocks(a, first, blocks) = (CHOOSE f : BlockLoop(f, a, first, blocks))[Len(blocks)]
BY DEF AddBlocks, BlockLoop

\* The blocks of an answer.
LEMMA BlocksMade ==
  ASSUME chain \in Chains, NEW first \in Nat, NEW R, R \subseteq DOMAIN chain,
         IsFiniteSet(AllIn(R)), \A n \in R : n \in Nat /\ n < first,
         NEW L \in Nat, NEW blocks, blocks = [i \in 1..L |-> blocks[i]], Len(blocks) = L,
         \A i \in 1..L : blocks[i] \in {0} \cup ({first + i - 1} \cap DOMAIN chain)
  PROVE  LET to == R \cup {blocks[i] : i \in {k \in 1..L : blocks[k] # 0}}
         IN  /\ AddBlocks(Made(AllIn(R)), first, blocks) = Made(AllIn(to))
             /\ IsFiniteSet(AllIn(to))
<1> DEFINE B(i) == R \cup {blocks[j] : j \in {k \in 1..i : blocks[k] # 0}}
           g == [i \in 0..L |-> Made(AllIn(B(i)))]
<1>1. B(0) = R
  OBVIOUS
<1>2. ASSUME NEW i \in 1..L
      PROVE  /\ blocks[i] = 0 => B(i) = B(i-1)
             /\ blocks[i] # 0 => B(i) = B(i-1) \cup {first + i - 1}
  <2>1. 1..i = (1..(i-1)) \cup {i} /\ blocks[i] \in {0, first + i - 1}
    OBVIOUS
  <2> QED
    BY <2>1
<1>3. ASSUME NEW i \in 1..L, NEW n \in B(i-1)
      PROVE  n \in Nat /\ n < first + i - 1
  <2>1. CASE n \in R
    BY <2>1
  <2>2. CASE n \notin R
    <3>1. PICK j \in 1..(i-1) : n = blocks[j] /\ blocks[j] # 0
      BY <2>2
    <3>2. j \in 1..L /\ blocks[j] = first + j - 1
      BY <3>1
    <3> QED
      BY <3>1, <3>2
  <2> QED
    BY <2>1, <2>2
<1> HIDE DEF B
<1>4. \A X, Y : AllIn(X \cup Y) = AllIn(X) \cup AllIn(Y)
  BY DEF AllIn
<1>5. \A X : \A o \in AllIn(X) : o[1] \in X
  BY DEF AllIn
\* One turn of the loop.
<1>6. ASSUME NEW i \in 1..L, IsFiniteSet(AllIn(B(i-1)))
      PROVE  /\ AddBlock(Made(AllIn(B(i-1))), blocks[i], first + i - 1) = Made(AllIn(B(i)))
             /\ IsFiniteSet(AllIn(B(i)))
  <2>1. CASE blocks[i] = 0
    BY <1>2, <1>6, <2>1 DEF AddBlock
  <2>2. CASE blocks[i] # 0
    <3> DEFINE n == first + i - 1
    <3>1. n \in DOMAIN chain /\ blocks[i] = n /\ n \in Nat
      BY <2>2
    <3>2. \A o \in AllIn(B(i-1)) : o[1] \in Nat /\ o[1] < n
      BY <1>3, <1>5
    <3> HIDE DEF n
    <3>3. UpTo(AllIn(B(i-1)), n)
      BY <1>6, <3>1, <3>2 DEF UpTo
    <3>4. /\ AddBlock(Made(AllIn(B(i-1))), n, n) = Made(AllIn(B(i-1)) \cup AllIn({n}))
          /\ UpTo(AllIn(B(i-1)) \cup AllIn({n}), n)
      BY <3>1, <3>2, <3>3, BlockMade
    <3>5. AllIn(B(i)) = AllIn(B(i-1)) \cup AllIn({n})
      <4>1. B(i) = B(i-1) \cup {n}
        BY <1>2, <2>2 DEF n
      <4> QED
        BY <1>4, <4>1
    <3> QED
      BY <3>1, <3>4, <3>5 DEF UpTo, n
  <2> QED
    BY <2>1, <2>2
<1> DEFINE T == {i \in 0..L : IsFiniteSet(AllIn(B(i)))}
<1>7. \A i \in 0..L : i \in T
  <2>1. 0 \in T
    BY <1>1
  <2>2. ASSUME NEW i \in 1..L, i - 1 \in T PROVE i \in T
    BY <1>6, <2>2
  <2> HIDE DEF T
  <2> QED
    BY <2>1, <2>2, LoopByInduction
<1>8. ASSUME NEW i \in 1..L
      PROVE  Made(AllIn(B(i))) = AddBlock(Made(AllIn(B(i-1))), blocks[i], first + i - 1)
  <2>1. i - 1 \in 0..L
    OBVIOUS
  <2>2. IsFiniteSet(AllIn(B(i-1)))
    BY <1>7, <2>1
  <2> QED
    BY <1>6, <2>2
<1>9. BlockLoop(g, Made(AllIn(R)), first, blocks)
  <2>1. \A i \in 0..L :
          g[i] = IF i = 0 THEN Made(AllIn(R)) ELSE AddBlock(g[i-1], blocks[i], first + i - 1)
    <3>1. TAKE i \in 0..L
    <3>2. CASE i = 0
      BY <1>1, <3>2
    <3>3. CASE i # 0
      <4>1. i \in 1..L /\ i - 1 \in 0..L
        BY <3>3
      <4>2. g[i] = Made(AllIn(B(i))) /\ g[i-1] = Made(AllIn(B(i-1)))
        BY <4>1
      <4> QED
        BY <1>8, <3>3, <4>1, <4>2
    <3> QED
      BY <3>2, <3>3
  <2> QED
    BY <2>1 DEF BlockLoop
<1>10. PICK f : /\ f = (CHOOSE h : BlockLoop(h, Made(AllIn(R)), first, blocks))
                /\ BlockLoop(f, Made(AllIn(R)), first, blocks)
  BY <1>9
<1>11. \A i \in 0..L :
         f[i] = IF i = 0 THEN Made(AllIn(R)) ELSE AddBlock(f[i-1], blocks[i], first + i - 1)
  BY <1>10 DEF BlockLoop
<1> DEFINE S == {i \in 0..L : f[i] = Made(AllIn(B(i)))}
<1>12. \A i \in 0..L : i \in S
  <2>1. 0 \in S
    BY <1>1, <1>11
  <2>2. ASSUME NEW i \in 1..L, i - 1 \in S PROVE i \in S
    <3>1. f[i-1] = Made(AllIn(B(i-1))) /\ i \in 0..L /\ i # 0
      BY <2>2
    <3>2. f[i] = AddBlock(Made(AllIn(B(i-1))), blocks[i], first + i - 1)
      BY <1>11, <3>1
    <3> QED
      BY <1>8, <3>1, <3>2
  <2> HIDE DEF S
  <2> QED
    BY <2>1, <2>2, LoopByInduction
<1>13. L \in 0..L
  OBVIOUS
<1>14. f[L] = Made(AllIn(B(L))) /\ IsFiniteSet(AllIn(B(L)))
  BY <1>7, <1>12, <1>13
<1>15. AddBlocks(Made(AllIn(R)), first, blocks) = f[L]
  BY <1>10, BlocksAreLoop
<1> QED
  BY <1>14, <1>15 DEF B

\* In whatever order the items of an answer came, each block is taken for the
\* number that was asked.
LEMMA AnswerInOrder ==
  ASSUME NEW L \in Nat, NEW order \in Orders(L), NEW numbers, NEW known
  PROVE  LET items == [i \in DOMAIN order |->
                         [id |-> order[i], result |-> BlockAt(numbers[order[i]], known)]]
         IN  ResultsById(items) = [i \in 1..L |-> BlockAt(numbers[i], known)]
<1> DEFINE items == [i \in DOMAIN order |->
                       [id |-> order[i], result |-> BlockAt(numbers[order[i]], known)]]
           at(i) == CHOOSE j \in DOMAIN items : items[j].id = i
<1>1. order \in [1..L -> 1..L] /\ \A i, j \in 1..L : order[i] = order[j] => i = j
  BY DEF Orders
<1>2. order \in Injection(1..L, 1..L)
  BY <1>1 DEF Injection, IsInjective
<1>3. order \in Surjection(1..L, 1..L)
  BY <1>2, FS_Interval, FS_Injection
<1>4. \A i \in 1..L : \E j \in 1..L : order[j] = i
  BY <1>3 DEF Surjection
<1>5. DOMAIN items = 1..L /\ \A j \in 1..L : /\ items[j].id = order[j]
                                             /\ items[j].result = BlockAt(numbers[order[j]], known)
  BY <1>1
<1> HIDE DEF items
<1>6. ASSUME NEW i \in 1..L PROVE items[at(i)].result = BlockAt(numbers[i], known)
  <2>1. \E j \in DOMAIN items : items[j].id = i
    BY <1>4, <1>5
  <2>2. at(i) \in DOMAIN items /\ items[at(i)].id = i
    BY <2>1
  <2> HIDE DEF at
  <2> QED
    BY <1>5, <2>2
<1>7. ResultsById(items) = [i \in 1..L |-> items[at(i)].result]
  BY <1>5 DEF ResultsById
<1>8. ResultsById(items) = [i \in 1..L |-> BlockAt(numbers[i], known)]
  <2> HIDE DEF at
  <2> QED
    BY <1>6, <1>7
<1> QED
  BY <1>8 DEF items

LEMMA AnswerCalls ==
  ASSUME RangeInv, CallsInv, NEW order \in Orders(Len(Numbers(next))), NEW known,
         BlocksAnswered(order, known)
  PROVE  CallsInv'
<1> DEFINE L == Len(Numbers(next))
           blocks == [i \in 1..L |-> BlockAt(Numbers(next)[i], known)]
           new == ToSet(Numbers(next)) \cap known \cap DOMAIN chain
<1>1. /\ pc = "blocks" /\ next <= toBlock /\ read' = read \cup new
      /\ UNCHANGED <<chain, options>>
  BY DEF BlocksAnswered, world
<1>2. agg' = AddBlocks(agg, next, blocks)
  <2>1. L \in Nat
    BY <1>1, NumbersOfBatch
  <2> DEFINE items == [i \in DOMAIN order |->
                         [id |-> order[i], result |-> BlockAt(Numbers(next)[order[i]], known)]]
  <2>2. agg' = AddBlocks(agg, next, ResultsById(items))
    BY DEF BlocksAnswered
  <2>3. order \in Orders(L)
    OBVIOUS
  <2>4. \A numbers : ResultsById([i \in DOMAIN order |->
                                   [id |-> order[i], result |-> BlockAt(numbers[order[i]], known)]])
                      = [i \in 1..L |-> BlockAt(numbers[i], known)]
    <3> HIDE DEF L
    <3> TAKE numbers
    <3> QED
      BY <2>1, <2>3, AnswerInOrder
  <2>5. ResultsById(items) = blocks
    BY <2>4
  <2> QED
    BY <2>2, <2>5
<1>3. /\ L \in Nat /\ next \in Nat /\ chain \in Chains /\ read \subseteq DOMAIN chain
      /\ \A i \in 1..L : Numbers(next)[i] = next + i - 1
      /\ DOMAIN Numbers(next) = 1..L
      /\ \A n \in read : n \in Nat /\ n < next
  <2>1. \A n \in read : n \in fromBlock..toBlock /\ n < next /\ fromBlock \in Nat
    BY <1>1 DEF RangeInv
  <2> QED
    BY <1>1, <2>1, NumbersOfBatch DEF RangeInv
<1>4. DOMAIN chain \subseteq Nat \ {0}
  BY <1>3, AccountsAssumption
<1>5. \A i \in 1..L : blocks[i] = IF next + i - 1 \in known \cap DOMAIN chain
                                    THEN next + i - 1 ELSE 0
  BY <1>3 DEF BlockAt
<1>6. new = {blocks[i] : i \in {k \in 1..L : blocks[k] # 0}}
  <2>1. ToSet(Numbers(next)) = {next + i - 1 : i \in 1..L}
    BY <1>3 DEF ToSet
  <2> HIDE DEF blocks, L
  <2> QED
    BY <1>4, <1>5, <2>1
<1>7. Len(blocks) = L /\ blocks = [i \in 1..L |-> blocks[i]]
  BY <1>3
<1>8. \A i \in 1..L : blocks[i] \in {0} \cup ({next + i - 1} \cap DOMAIN chain)
  BY <1>5
<1> HIDE DEF blocks, L, new
<1>9. /\ agg' = Made(AllIn(read \cup new)) /\ IsFiniteSet(AllIn(read \cup new))
  BY <1>2, <1>3, <1>6, <1>7, <1>8, BlocksMade DEF CallsInv
<1>10. PICK R : R = read'
  OBVIOUS
<1>11. Made(AllIn(R))' = Made(AllIn(R)) /\ AllIn(R)' = AllIn(R)
  BY <1>1 DEF Made, RowFor, MadeBy, Makes, AllIn, Gathered
<1>12. agg' = Made(AllIn(read))' /\ IsFiniteSet(AllIn(read))'
  BY <1>1, <1>9, <1>10, <1>11 DEF Made, AllIn, MadeBy
<1> QED
  BY <1>1, <1>12 DEF CallsInv

LEMMA NextCallsInv == RangeInv /\ CallsInv /\ [Next]_vars => CallsInv'
<1> SUFFICES ASSUME RangeInv, CallsInv, [Next]_vars PROVE CallsInv'
  OBVIOUS
<1>1. CASE \E order \in Orders(Len(Numbers(next))), known \in SUBSET ToSet(Numbers(next)) :
             BlocksAnswered(order, known)
  BY <1>1, AnswerCalls
<1>2. CASE StartScan(Len(chain)) \/ SkipBatch \/ Rest
  <2>1. UNCHANGED <<chain, options, agg, read>>
    <3>1. CASE Rest
      BY <3>1, RestOfScan
    <3> QED
      BY <1>2, <3>1 DEF StartScan, SkipBatch, world
  <2>2. AllIn(read)' = AllIn(read)
    BY <2>1 DEF AllIn
  <2>3. Made(AllIn(read))' = Made(AllIn(read))
    BY <2>1, <2>2 DEF Made, RowFor, MadeBy, Makes, Gathered
  <2> QED
    BY <2>1, <2>2, <2>3 DEF CallsInv
<1> QED
  BY <1>1, <1>2 DEF Next, Rest

LEMMA InitCallsInv == Init => CallsInv
<1> SUFFICES ASSUME Init PROVE CallsInv
  OBVIOUS
<1>1. AllIn(read) = {} /\ options \in Options
  BY DEF Init, AllIn
<1>2. \A k : MadeBy({}, k) = {}
  BY DEF MadeBy
<1>3. RowFor({}) = NoRow
  BY FS_EmptySet DEF RowFor, Latest, NoRow
<1>4. Made({}) = [k \in Keys |-> NoRow]
  BY <1>2, <1>3 DEF Made
<1> QED
  BY <1>1, <1>4, FS_EmptySet DEF Init, CallsInv

\* A call of a block that was read counts once in each direction, and its row
\* has the number and the time of the latest such block (139-150, 240-264 and
\* 494-517).
THEOREM CallsAreCounted == Spec => []CallsCounted
<1>1. CallsInv => CallsCounted
  <2> SUFFICES ASSUME CallsInv, NEW k \in Keys
               PROVE  LET blocks == {o[1] : o \in Occurrences(k)}
                      IN  /\ agg[k].observed_freq = Cardinality(Occurrences(k))
                          /\ blocks # {} => /\ agg[k].last_block = Max(blocks)
                                            /\ agg[k].last_seen = Max(blocks)
    BY DEF CallsCounted
  <2>1. Occurrences(k) = MadeBy(AllIn(read), k)
    BY DEF Occurrences, MadeBy, Makes, AllIn, Directions
  <2>2. agg[k] = RowFor(Occurrences(k))
    BY <2>1 DEF CallsInv, Made
  <2>3. {o[1] : o \in Occurrences(k)} # {} => Occurrences(k) # {}
    OBVIOUS
  <2> HIDE DEF Occurrences
  <2> QED
    BY <2>2, <2>3 DEF RowFor, Latest
<1>2. Init => RangeInv /\ CallsInv
  BY InitRangeInv, InitCallsInv
<1>3. RangeInv /\ CallsInv /\ [Next]_vars => (RangeInv /\ CallsInv)'
  BY NextRangeInv, NextCallsInv
<1> QED
  BY <1>1, <1>2, <1>3, PTL DEF Spec
-----------------------------------------------------------------------------
(* Sums. *)

\* Induction over the naturals, of a set of them.
LEMMA NaturalsByInduction ==
  ASSUME NEW T \in SUBSET Nat, 0 \in T, \A n \in T : n + 1 \in T
  PROVE  T = Nat
<1> SUFFICES ASSUME T # Nat
             PROVE  FALSE
  OBVIOUS
<1>1. PICK m \in Nat \ T : \A n \in Nat \ T : m <= n
  BY LeastNatural
<1>2. m # 0 /\ m - 1 \in Nat
  BY <1>1
<1>3. m - 1 \in T
  BY <1>1, <1>2
<1> QED
  BY <1>1, <1>2, <1>3

LEMMA DisjointUnion ==
  ASSUME NEW A, IsFiniteSet(A), NEW B, IsFiniteSet(B), A \cap B = {}
  PROVE  /\ IsFiniteSet(A \cup B)
         /\ Cardinality(A \cup B) = Cardinality(A) + Cardinality(B)
<1>1. /\ IsFiniteSet(A \cup B)
      /\ Cardinality(A \cup B) = Cardinality(A) + Cardinality(B) - Cardinality({})
  BY FS_Union
<1> QED
  BY <1>1, FS_EmptySet, FS_CardinalityType

\* The element that a fold takes out of a set next.
Picked(s) == CHOOSE x \in s : TRUE

LEMMA PickedIsMember ==
  ASSUME NEW s, s # {}
  PROVE  Picked(s) \in s
BY DEF Picked

\* The function that the sum of w is read off, from subset to subset.
AddsUp(sum, w) ==
  sum = [s \in SUBSET (DOMAIN w) |->
           IF s = {} THEN 0 ELSE w[Picked(s)] + sum[s \ {Picked(s)}]]

LEMMA SumIsFold == ASSUME NEW w PROVE SumFunction(w) = (CHOOSE sum : AddsUp(sum, w))[DOMAIN w]
BY DEF SumFunction, SumFunctionOnSet, FoldFunctionOnSet, MapThenFoldSet, AddsUp, Picked

\* Those of the things x whose key is among keys.
Keyed(X, key, keys) == {x \in X : key[x] \in keys}

\* A sum of how many things there are of each key is how many things there are.
LEMMA SumIsCount ==
  ASSUME NEW w, IsFiniteSet(DOMAIN w), NEW X, IsFiniteSet(X), NEW key,
         \A x \in X : key[x] \in DOMAIN w,
         \A d \in DOMAIN w : w[d] = Cardinality(Keyed(X, key, {d}))
  PROVE  SumFunction(w) = Cardinality(X)
<1> DEFINE D == DOMAIN w
           Of(s) == Keyed(X, key, s)
           counts == [s \in SUBSET D |-> Cardinality(Of(s))]
<1>1. ASSUME NEW s \in SUBSET D, s # {}
      PROVE  /\ Picked(s) \in s /\ s \ {Picked(s)} \in SUBSET D
             /\ Cardinality(Of(s)) = w[Picked(s)] + Cardinality(Of(s \ {Picked(s)}))
  <2> DEFINE d == Picked(s)
             first == Keyed(X, key, {d})
  <2>1. d \in s
    BY <1>1, PickedIsMember
  <2> HIDE DEF d
  <2>2. Of(s) = first \cup Of(s \ {d}) /\ first \cap Of(s \ {d}) = {}
    BY <2>1 DEF Keyed
  <2>3. IsFiniteSet(first) /\ IsFiniteSet(Of(s \ {d}))
    BY FS_Subset DEF Keyed
  <2>4. Cardinality(first) = w[d] /\ s \ {d} \in SUBSET D
    BY <2>1
  <2> HIDE DEF first, Of
  <2>5. Cardinality(Of(s)) = Cardinality(first) + Cardinality(Of(s \ {d}))
    BY <2>2, <2>3, DisjointUnion
  <2> QED
    BY <2>1, <2>4, <2>5 DEF d
<1>2. Of({}) = {} /\ Cardinality({}) = 0
  BY FS_EmptySet DEF Keyed
<1>3. AddsUp(counts, w)
  <2>1. \A s \in SUBSET D : counts[s] = IF s = {} THEN 0
                                        ELSE w[Picked(s)] + counts[s \ {Picked(s)}]
    BY <1>1, <1>2
  <2> QED
    BY <2>1 DEF AddsUp
<1>4. PICK sum : sum = (CHOOSE f : AddsUp(f, w)) /\ AddsUp(sum, w)
  BY <1>3
<1>5. \A s \in SUBSET D : IsFiniteSet(s) /\ Cardinality(s) \in Nat
  BY FS_Subset, FS_CardinalityType
<1>6. sum[{}] = 0 /\ \A s \in (SUBSET D) \ {{}} : sum[s] = w[Picked(s)] + sum[s \ {Picked(s)}]
  BY <1>4 DEF AddsUp
<1> DEFINE U == {n \in Nat : \A s \in SUBSET D : Cardinality(s) = n =>
                               sum[s] = Cardinality(Of(s))}
<1> HIDE DEF Of
<1>7. 0 \in U
  BY <1>2, <1>5, <1>6, FS_EmptySet
<1>8. ASSUME NEW n \in U PROVE n + 1 \in U
  <2> SUFFICES ASSUME NEW s \in SUBSET D, Cardinality(s) = n + 1
               PROVE  sum[s] = Cardinality(Of(s))
    OBVIOUS
  <2>1. s # {} /\ n \in Nat
    BY <1>5, FS_EmptySet
  <2>2. Picked(s) \in s /\ s \ {Picked(s)} \in SUBSET D
    BY <1>1, <2>1
  <2>3. Cardinality(s \ {Picked(s)}) = n
    <3>1. IsFiniteSet(s) /\ Cardinality(s \ {Picked(s)}) = Cardinality(s) - 1
      BY <1>5, <2>2, FS_RemoveElement
    <3> QED
      BY <2>1, <3>1
  <2>4. sum[s \ {Picked(s)}] = Cardinality(Of(s \ {Picked(s)}))
    BY <2>2, <2>3
  <2> QED
    BY <1>1, <1>6, <2>1, <2>4
<1>9. U = Nat
  <2> HIDE DEF U
  <2> QED
    BY <1>7, <1>8, NaturalsByInduction DEF U
<1>10. sum[D] = Cardinality(Of(D))
  BY <1>5, <1>9
<1>11. Of(D) = X
  BY DEF Of, Keyed
<1> QED
  BY <1>4, <1>10, <1>11, SumIsFold

\* The pairs of an index and a member of its set.
Pairs(J, A, N) == {x \in J \X N : x[2] \in A[x[1]]}

LEMMA PairsOfOne ==
  ASSUME NEW j, NEW S, IsFiniteSet(S)
  PROVE  IsFiniteSet({j} \X S) /\ Cardinality({j} \X S) = Cardinality(S)
<1>1. IsFiniteSet({j}) /\ Cardinality({j}) = 1
  BY FS_Singleton
<1>2. IsFiniteSet({j} \X S) /\ Cardinality({j} \X S) = 1 * Cardinality(S)
  BY <1>1, FS_Product
<1>3. Cardinality(S) \in Nat
  BY FS_CardinalityType
<1> QED
  BY <1>2, <1>3

LEMMA PairsAreFinite ==
  ASSUME NEW J, IsFiniteSet(J), NEW N, IsFiniteSet(N), NEW A
  PROVE  IsFiniteSet(Pairs(J, A, N))
<1>1. IsFiniteSet(J \X N)
  BY FS_Product
<1> QED
  BY <1>1, FS_Subset DEF Pairs

LEMMA SumOfCards ==
  ASSUME NEW w, IsFiniteSet(DOMAIN w), NEW N, IsFiniteSet(N), NEW A,
         \A j \in DOMAIN w : A[j] \subseteq N /\ w[j] = Cardinality(A[j])
  PROVE  SumFunction(w) = Cardinality(Pairs(DOMAIN w, A, N))
<1> DEFINE X == Pairs(DOMAIN w, A, N)
           key == [x \in X |-> x[1]]
<1>1. IsFiniteSet(X) /\ \A x \in X : key[x] \in DOMAIN w
  <2>1. \A x \in X : x[1] \in DOMAIN w
    BY DEF Pairs
  <2> QED
    BY <2>1, PairsAreFinite
<1>2. ASSUME NEW d \in DOMAIN w PROVE w[d] = Cardinality(Keyed(X, key, {d}))
  <2>1. Keyed(X, key, {d}) = {d} \X A[d]
    BY DEF Keyed, Pairs
  <2>2. IsFiniteSet(A[d])
    BY FS_Subset
  <2>3. Cardinality({d} \X A[d]) = Cardinality(A[d])
    BY <2>2, PairsOfOne
  <2> QED
    BY <2>1, <2>3
<1> HIDE DEF X, key
<1> QED
  BY <1>1, <1>2, SumIsCount DEF X
-----------------------------------------------------------------------------
(* Orders, and what is first by them. *)

\* R orders S, as a sort without ties does.
Ordered(R, S) ==
  /\ \A a \in S : <<a, a>> \notin R
  /\ \A a, b, c \in S : <<a, b>> \in R /\ <<b, c>> \in R => <<a, c>> \in R
  /\ \A a, b \in S : a # b => <<a, b>> \in R \/ <<b, a>> \in R

Ahead(R, S, a) == {b \in S : <<b, a>> \in R}

\* The places of the members of a finite set are 0, 1, ... and each is taken.
LEMMA Places ==
  ASSUME NEW S, IsFiniteSet(S), NEW R, Ordered(R, S)
  PROVE  /\ Cardinality(S) \in Nat
         /\ \A a \in S : Cardinality(Ahead(R, S, a)) \in 0..(Cardinality(S) - 1)
         /\ \A a, b \in S : <<a, b>> \in R <=> Cardinality(Ahead(R, S, a)) < Cardinality(Ahead(R, S, b))
         /\ \A a, b \in S : Cardinality(Ahead(R, S, a)) = Cardinality(Ahead(R, S, b)) => a = b
         /\ \A m \in 0..(Cardinality(S) - 1) : \E a \in S : Cardinality(Ahead(R, S, a)) = m
<1> DEFINE n == Cardinality(S)
           place == [a \in S |-> Cardinality(Ahead(R, S, a))]
<1>1. n \in Nat
  BY FS_CardinalityType
<1>2. ASSUME NEW a \in S
      PROVE  /\ IsFiniteSet(Ahead(R, S, a)) /\ Cardinality(Ahead(R, S, a)) \in Nat
             /\ Cardinality(Ahead(R, S, a)) < n
  <2>1. Ahead(R, S, a) \in SUBSET S /\ a \notin Ahead(R, S, a)
    BY DEF Ahead, Ordered
  <2>2. Ahead(R, S, a) # S
    BY <2>1
  <2>3. IsFiniteSet(Ahead(R, S, a)) /\ Cardinality(Ahead(R, S, a)) <= n
        /\ Cardinality(Ahead(R, S, a)) # n
    BY <2>1, <2>2, FS_Subset
  <2>4. Cardinality(Ahead(R, S, a)) \in Nat
    BY <2>3, FS_CardinalityType
  <2> QED
    BY <1>1, <2>3, <2>4
<1>3. ASSUME NEW a \in S, NEW b \in S, <<a, b>> \in R
      PROVE  Cardinality(Ahead(R, S, a)) < Cardinality(Ahead(R, S, b))
  <2>1. Ahead(R, S, a) \in SUBSET Ahead(R, S, b) /\ a \in Ahead(R, S, b) /\ a \notin Ahead(R, S, a)
    BY <1>3 DEF Ahead, Ordered
  <2>2. Ahead(R, S, a) # Ahead(R, S, b)
    BY <2>1
  <2>3. /\ Cardinality(Ahead(R, S, a)) <= Cardinality(Ahead(R, S, b))
        /\ Cardinality(Ahead(R, S, a)) # Cardinality(Ahead(R, S, b))
    BY <1>2, <2>1, <2>2, FS_Subset
  <2> QED
    BY <1>2, <2>3
<1>4. \A a, b \in S : Cardinality(Ahead(R, S, a)) = Cardinality(Ahead(R, S, b)) => a = b
  <2> SUFFICES ASSUME NEW a \in S, NEW b \in S, a # b,
                      Cardinality(Ahead(R, S, a)) = Cardinality(Ahead(R, S, b))
               PROVE  FALSE
    OBVIOUS
  <2>1. <<a, b>> \in R \/ <<b, a>> \in R
    BY DEF Ordered
  <2> QED
    BY <1>2, <1>3, <2>1
<1>5. \A a, b \in S : Cardinality(Ahead(R, S, a)) < Cardinality(Ahead(R, S, b)) => <<a, b>> \in R
  <2> SUFFICES ASSUME NEW a \in S, NEW b \in S,
                      Cardinality(Ahead(R, S, a)) < Cardinality(Ahead(R, S, b))
               PROVE  <<a, b>> \in R
    OBVIOUS
  <2>1. a # b /\ <<b, a>> \notin R
    BY <1>2, <1>3
  <2> QED
    BY <2>1 DEF Ordered
<1>6. IsFiniteSet(0..(n - 1)) /\ Cardinality(0..(n - 1)) = n
  BY <1>1, FS_Interval
<1>7. place \in Injection(S, 0..(n - 1))
  <2>1. place \in [S -> 0..(n - 1)]
    BY <1>1, <1>2
  <2>2. \A a, b \in S : place[a] = place[b] => a = b
    BY <1>4
  <2> QED
    BY <2>1, <2>2 DEF Injection, IsInjective
<1>8. place \in Surjection(S, 0..(n - 1))
  BY <1>6, <1>7, FS_Injection
<1>9. \A m \in 0..(n - 1) : \E a \in S : place[a] = m
  BY <1>8 DEF Surjection
<1> QED
  BY <1>1, <1>2, <1>3, <1>4, <1>5, <1>9

FirstOf(R, S, k) == {a \in S : Cardinality(Ahead(R, S, a)) < k}

\* The first k are k, if there are as many, and are before the others.
LEMMA FirstsAreFirst ==
  ASSUME NEW S, IsFiniteSet(S), NEW R, Ordered(R, S), NEW k \in Nat
  PROVE  /\ IsFiniteSet(FirstOf(R, S, k))
         /\ Cardinality(FirstOf(R, S, k)) <= k
         /\ FirstOf(R, S, k) # S => Cardinality(FirstOf(R, S, k)) = k
         /\ \A a \in FirstOf(R, S, k), b \in S \ FirstOf(R, S, k) : <<a, b>> \in R
<1> DEFINE n == Cardinality(S)
           place == [a \in S |-> Cardinality(Ahead(R, S, a))]
           firsts == FirstOf(R, S, k)
<1>1. /\ n \in Nat
      /\ \A a \in S : place[a] \in 0..(n - 1)
      /\ \A a, b \in S : place[a] = place[b] => a = b
      /\ \A a, b \in S : <<a, b>> \in R <=> place[a] < place[b]
      /\ \A m \in 0..(n - 1) : \E a \in S : place[a] = m
  BY Places
<1>2. firsts \subseteq S /\ \A a \in S : a \in firsts <=> place[a] < k
  BY DEF FirstOf
<1>3. IsFiniteSet(firsts)
  BY <1>2, FS_Subset
<1> HIDE DEF place, n, firsts
<1>4. ASSUME k <= n
      PROVE  Cardinality(firsts) = k
  <2> DEFINE first == [a \in firsts |-> place[a]]
  <2>1. first \in [firsts -> 0..(k - 1)]
    BY <1>1, <1>2
  <2>2. \A a, b \in firsts : first[a] = first[b] => a = b
    BY <1>1, <1>2
  <2>3. \A m \in 0..(k - 1) : \E a \in firsts : first[a] = m
    BY <1>1, <1>2, <1>4
  <2>4. first \in Bijection(firsts, 0..(k - 1))
    BY <2>1, <2>2, <2>3 DEF Bijection, Injection, Surjection, IsInjective
  <2>5. Cardinality(0..(k - 1)) = Cardinality(firsts)
    BY <1>3, <2>4, FS_Bijection DEF ExistsBijection
  <2>6. Cardinality(0..(k - 1)) = k
    BY FS_Interval
  <2> QED
    BY <2>5, <2>6
<1>5. ~(k <= n) => firsts = S /\ n <= k
  BY <1>1, <1>2
<1>6. \A a \in firsts, b \in S \ firsts : <<a, b>> \in R
  <2>1. TAKE a \in firsts, b \in S \ firsts
  <2>2. a \in S /\ b \in S /\ place[a] < k /\ ~(place[b] < k)
    BY <1>2
  <2>3. place[a] < place[b]
    BY <1>1, <2>2
  <2> QED
    BY <1>1, <2>2, <2>3
<1> QED
  BY <1>1, <1>3, <1>4, <1>5, <1>6 DEF firsts, n
-----------------------------------------------------------------------------
(* Tuples, and sets of them sorted. *)

Tuples(n) == [1..n -> Int]

LEMMA TuplesDiffer ==
  ASSUME NEW n \in Nat, NEW s \in Tuples(n), NEW t \in Tuples(n), s # t
  PROVE  TupleBefore(s, t) \/ TupleBefore(t, s)
<1> DEFINE D == {i \in 1..n : s[i] # t[i]}
<1>1. D \in SUBSET Nat /\ D # {}
  BY DEF Tuples
<1>2. PICK i \in D : \A j \in D : i <= j
  BY <1>1, LeastNatural
<1>3. /\ i \in 1..n /\ s[i] # t[i] /\ s[i] \in Int /\ t[i] \in Int
      /\ DOMAIN s = 1..n /\ DOMAIN t = 1..n
      /\ \A j \in 1..(i-1) : s[j] = t[j]
  BY <1>2 DEF Tuples
<1>4. s[i] < t[i] \/ t[i] < s[i]
  BY <1>3
<1> QED
  BY <1>3, <1>4 DEF TupleBefore

LEMMA TupleNotBeforeItself ==
  ASSUME NEW n \in Nat, NEW s \in Tuples(n)
  PROVE  ~TupleBefore(s, s)
BY DEF TupleBefore, Tuples

LEMMA TuplesTransitive ==
  ASSUME NEW n \in Nat, NEW s \in Tuples(n), NEW t \in Tuples(n), NEW u \in Tuples(n),
         TupleBefore(s, t), TupleBefore(t, u)
  PROVE  TupleBefore(s, u)
<1>1. PICK i \in 1..n : s[i] < t[i] /\ \A m \in 1..(i-1) : s[m] = t[m]
  BY DEF TupleBefore, Tuples
<1>2. PICK j \in 1..n : t[j] < u[j] /\ \A m \in 1..(j-1) : t[m] = u[m]
  BY DEF TupleBefore, Tuples
<1>3. /\ \A m \in 1..n : s[m] \in Int /\ t[m] \in Int /\ u[m] \in Int
      /\ DOMAIN s = 1..n
  BY DEF Tuples
<1> DEFINE k == IF i < j THEN i ELSE j
<1>4. k \in 1..n /\ s[k] < u[k]
  <2>1. CASE i < j
    BY <1>1, <1>2, <1>3, <2>1
  <2>2. CASE i = j
    BY <1>1, <1>2, <1>3, <2>2
  <2>3. CASE j < i
    BY <1>1, <1>2, <1>3, <2>3
  <2> QED
    BY <2>1, <2>2, <2>3
<1>5. \A m \in 1..(k-1) : s[m] = u[m]
  <2>1. TAKE m \in 1..(k-1)
  <2>2. m \in 1..(i-1) /\ m \in 1..(j-1)
    OBVIOUS
  <2> QED
    BY <1>1, <1>2, <2>2
<1> HIDE DEF k
<1> QED
  BY <1>3, <1>4, <1>5 DEF TupleBefore

\* The order of a sort by a key.
ByKey(key, S) == {p \in S \X S : TupleBefore(key[p[1]], key[p[2]])}
Falling(key, S) == {p \in S \X S : TupleBefore(key[p[2]], key[p[1]])}

LEMMA KeysOrder ==
  ASSUME NEW n \in Nat, NEW S, NEW key, \A a \in S : key[a] \in Tuples(n),
         \A a, b \in S : key[a] = key[b] => a = b
  PROVE  Ordered(ByKey(key, S), S) /\ Ordered(Falling(key, S), S)
<1>1. \A a, b \in S : /\ <<a, b>> \in ByKey(key, S) <=> TupleBefore(key[a], key[b])
                      /\ <<a, b>> \in Falling(key, S) <=> TupleBefore(key[b], key[a])
  BY DEF ByKey, Falling
<1>2. \A a \in S : ~TupleBefore(key[a], key[a])
  BY TupleNotBeforeItself
<1>3. \A a, b, c \in S : TupleBefore(key[a], key[b]) /\ TupleBefore(key[b], key[c])
                           => TupleBefore(key[a], key[c])
  BY TuplesTransitive
<1>4. \A a, b \in S : a # b => TupleBefore(key[a], key[b]) \/ TupleBefore(key[b], key[a])
  BY TuplesDiffer
<1> QED
  BY <1>1, <1>2, <1>3, <1>4 DEF Ordered

\* A sort keeps the members of a set, and has them by rising keys.
LEMMA SortedIs ==
  ASSUME NEW n \in Nat, NEW S \in SUBSET Tuples(n), IsFiniteSet(S)
  PROVE  /\ Cardinality(S) \in Nat
         /\ Sorted(S) \in [1..Cardinality(S) -> S]
         /\ \A t \in S : \E i \in 1..Cardinality(S) : Sorted(S)[i] = t
         /\ \A i, j \in 1..Cardinality(S) : i < j => TupleBefore(Sorted(S)[i], Sorted(S)[j])
<1> DEFINE key == [t \in S |-> t]
           R == ByKey(key, S)
           m == Cardinality(S)
<1>1. Ordered(R, S)
  BY KeysOrder
<1>2. \A t \in S : Ahead(R, S, t) = {s \in S : TupleBefore(s, t)}
  BY DEF Ahead, ByKey
<1>3. \A s, t \in S : <<s, t>> \in R <=> TupleBefore(s, t)
  BY DEF ByKey
<1> DEFINE place(t) == Cardinality({s \in S : TupleBefore(s, t)})
<1>4. \A t \in S : Cardinality(Ahead(R, S, t)) = place(t)
  BY <1>2
<1> HIDE DEF R, place, m
<1>5. /\ m \in Nat
      /\ \A t \in S : place(t) \in 0..(m - 1)
      /\ \A s, t \in S : TupleBefore(s, t) <=> place(s) < place(t)
      /\ \A s, t \in S : place(s) = place(t) => s = t
      /\ \A k \in 0..(m - 1) : \E t \in S : place(t) = k
  <2>1. /\ m \in Nat
        /\ \A t \in S : Cardinality(Ahead(R, S, t)) \in 0..(m - 1)
        /\ \A s, t \in S : <<s, t>> \in R <=> Cardinality(Ahead(R, S, s)) < Cardinality(Ahead(R, S, t))
        /\ \A s, t \in S : Cardinality(Ahead(R, S, s)) = Cardinality(Ahead(R, S, t)) => s = t
        /\ \A k \in 0..(m - 1) : \E t \in S : Cardinality(Ahead(R, S, t)) = k
    BY <1>1, Places DEF m
  <2> QED
    BY <1>4, <1>3, <2>1
<1>6. Sorted(S) = [i \in 1..m |-> CHOOSE t \in S : place(t) = i - 1]
  BY DEF Sorted, place, m
<1>7. \A i \in 1..m : Sorted(S)[i] \in S /\ place(Sorted(S)[i]) = i - 1
  <2>1. TAKE i \in 1..m
  <2>2. \E t \in S : place(t) = i - 1
    BY <1>5
  <2>3. Sorted(S)[i] = CHOOSE t \in S : place(t) = i - 1
    BY <1>6
  <2> QED
    BY <2>2, <2>3
<1>8. Sorted(S) \in [1..m -> S]
  BY <1>6, <1>7
<1>9. \A t \in S : \E i \in 1..m : Sorted(S)[i] = t
  <2>1. TAKE t \in S
  <2>2. place(t) + 1 \in 1..m
    BY <1>5
  <2>3. place(Sorted(S)[place(t) + 1]) = place(t) /\ Sorted(S)[place(t) + 1] \in S
    BY <1>5, <1>7, <2>2
  <2> QED
    BY <1>5, <2>2, <2>3
<1>10. \A i, j \in 1..m : i < j => TupleBefore(Sorted(S)[i], Sorted(S)[j])
  BY <1>5, <1>7
<1> QED
  BY <1>5, <1>8, <1>9, <1>10 DEF m
-----------------------------------------------------------------------------
(* The standing of an account. *)

LEMMA ImageIsFinite ==
  ASSUME NEW S, IsFiniteSet(S), NEW f
  PROVE  IsFiniteSet({f[x] : x \in S})
<1> DEFINE image == [x \in S |-> f[x]]
<1>1. image \in Surjection(S, {f[x] : x \in S})
  BY DEF Surjection
<1> QED
  BY <1>1, FS_Surjection

LEMMA KeysAreFinite == IsFiniteSet(Keys)
<1> DEFINE pairs == (Accounts \X Accounts) \X Tokens
           key == [p \in pairs |-> <<p[1][1], p[1][2], p[2]>>]
<1>1. IsFiniteSet(pairs)
  BY AccountsAssumption, FS_Product
<1>2. key \in Surjection(pairs, Keys)
  <2>1. key \in [pairs -> Keys]
    BY DEF Keys
  <2>2. \A k \in Keys : \E p \in pairs : key[p] = k
    <3>1. TAKE k \in Keys
    <3>2. /\ k = <<k[1], k[2], k[3]>> /\ k[1] \in Accounts /\ k[2] \in Accounts
          /\ k[3] \in Tokens
      BY DEF Keys
    <3>3. <<<<k[1], k[2]>>, k[3]>> \in pairs /\ key[<<<<k[1], k[2]>>, k[3]>>] = k
      BY <3>2
    <3> QED
      BY <3>3
  <2> QED
    BY <2>1, <2>2 DEF Surjection
<1> QED
  BY <1>1, <1>2, FS_Surjection

\* The rows have numbers in them, and so has what is said of an account.
RowsAreNumbers ==
  /\ \A k \in Keys : agg[k].observed_freq \in Nat /\ agg[k].last_seen \in Nat
  /\ \E n \in Nat : \A k \in Keys : agg[k].last_seen <= n
  /\ \A v : SumFunction([k \in RowsOf(v) |-> agg[k].observed_freq]) \in Nat

LEMMA RowsOfIsFinite == ASSUME NEW v PROVE IsFiniteSet(RowsOf(v)) /\ RowsOf(v) \subseteq Keys
BY KeysAreFinite, FS_Subset DEF RowsOf

LEMMA RowsCounted == RangeInv /\ CallsInv => RowsAreNumbers
<1> SUFFICES ASSUME RangeInv, CallsInv PROVE RowsAreNumbers
  OBVIOUS
<1> DEFINE D == AllIn(read)
           n == Len(chain)
<1>1. n \in Nat /\ DOMAIN chain = 1..n /\ read \subseteq 1..n
  BY AccountsAssumption DEF RangeInv
<1>2. IsFiniteSet(D) /\ \A o \in D : o[1] \in Nat /\ o[1] <= n
  BY <1>1 DEF CallsInv, AllIn
<1>3. \A k : MadeBy(D, k) \subseteq D /\ IsFiniteSet(MadeBy(D, k)) /\ Cardinality(MadeBy(D, k)) \in Nat
  BY <1>2, FS_Subset, FS_CardinalityType DEF MadeBy
<1>4. \A k \in Keys : agg[k] = RowFor(MadeBy(D, k))
  BY DEF CallsInv, Made
<1> HIDE DEF D, n
<1>5. \A k : Latest(MadeBy(D, k)) \in Nat /\ Latest(MadeBy(D, k)) <= n
  <2>1. TAKE k
  <2>2. \A o \in MadeBy(D, k) : o[1] \in Nat /\ o[1] <= n
    BY <1>2, <1>3
  <2> QED
    BY <1>1, <2>2, LatestIsBounded
<1>6. \A k \in Keys : /\ agg[k].observed_freq = Cardinality(MadeBy(D, k))
                      /\ agg[k].last_seen = Latest(MadeBy(D, k))
  <2>1. TAKE k \in Keys
  <2>2. agg[k] = RowFor(MadeBy(D, k))
    BY <1>4
  <2> QED
    BY <2>2 DEF RowFor
<1>7. ASSUME NEW v
      PROVE  SumFunction([k \in RowsOf(v) |-> agg[k].observed_freq]) \in Nat
  <2> DEFINE w == [k \in RowsOf(v) |-> agg[k].observed_freq]
             A == [k \in RowsOf(v) |-> MadeBy(D, k)]
  <2>1. IsFiniteSet(DOMAIN w) /\ \A j \in DOMAIN w : A[j] \subseteq D /\ w[j] = Cardinality(A[j])
    BY <1>3, <1>6, RowsOfIsFinite
  <2> HIDE DEF w, A
  <2>2. SumFunction(w) = Cardinality(Pairs(DOMAIN w, A, D))
    BY <1>2, <2>1, SumOfCards
  <2>3. Cardinality(Pairs(DOMAIN w, A, D)) \in Nat
    BY <1>2, <2>1, PairsAreFinite, FS_CardinalityType
  <2> QED
    BY <2>2, <2>3 DEF w
<1> QED
  BY <1>1, <1>3, <1>5, <1>6, <1>7 DEF RowsAreNumbers

LEMMA StandingIs ==
  ASSUME RowsAreNumbers, NEW v \in Eligible
  PROVE  Standing(v) \in Tuples(5) /\ Standing(v)[5] = v
<1>1. v \in Int /\ RowsOf(v) # {}
  BY AccountsAssumption DEF Eligible
<1>2. RowsOf(v) \subseteq Keys /\ IsFiniteSet(RowsOf(v))
  BY RowsOfIsFinite
<1>3. /\ Cardinality(Counterparties(v)) \in Nat
      /\ Cardinality({k[3] : k \in RowsOf(v)}) \in Nat
  <2> DEFINE S == RowsOf(v)
             recipient == [k \in S |-> k[2]]
             token == [k \in S |-> k[3]]
  <2> HIDE DEF S
  <2>1. IsFiniteSet({recipient[k] : k \in S}) /\ IsFiniteSet({token[k] : k \in S})
    BY <1>2, ImageIsFinite DEF S
  <2>2. {recipient[k] : k \in S} = {k[2] : k \in S} /\ {token[k] : k \in S} = {k[3] : k \in S}
    OBVIOUS
  <2> QED
    BY <2>1, <2>2, FS_CardinalityType DEF Counterparties, S
<1>4. SumFunction([k \in RowsOf(v) |-> agg[k].observed_freq]) \in Nat
  BY DEF RowsAreNumbers
<1>5. Max({agg[k].last_seen : k \in RowsOf(v)}) \in Nat
  <2> DEFINE S == {agg[k].last_seen : k \in RowsOf(v)}
  <2>1. PICK n \in Nat : \A k \in Keys : agg[k].last_seen <= n
    BY DEF RowsAreNumbers
  <2>2. S \in SUBSET Nat /\ S # {} /\ \A m \in S : m <= n
    BY <1>1, <1>2, <2>1 DEF RowsAreNumbers
  <2> HIDE DEF S
  <2>3. Max(S) \in S
    BY <2>2, GreatestNatural
  <2> QED
    BY <2>2, <2>3 DEF S
<1> QED
  BY <1>1, <1>3, <1>4, <1>5 DEF Standing, Tuples

\* v stands below w.
Below(v, w) == TupleBefore(Standing(v), Standing(w))

LEMMA RankedIs ==
  ASSUME RowsAreNumbers
  PROVE  /\ Ranked(Eligible) \in Seq(Eligible)
         /\ \A v \in Eligible : \E i \in DOMAIN Ranked(Eligible) : Ranked(Eligible)[i] = v
         /\ \A i, j \in DOMAIN Ranked(Eligible) :
              i < j => Below(Ranked(Eligible)[j], Ranked(Eligible)[i])
<1> DEFINE S == {Standing(v) : v \in Eligible}
           m == Cardinality(S)
           s == Sorted(S)
           R == Ranked(Eligible)
<1>1. S \in SUBSET Tuples(5) /\ \A v \in Eligible : Standing(v) \in S /\ Standing(v)[5] = v
  BY StandingIs
<1>2. \A t \in S : t[5] \in Eligible /\ Standing(t[5]) = t
  BY StandingIs
<1>3. IsFiniteSet(S)
  <2>1. IsFiniteSet(Eligible)
    BY AccountsAssumption, FS_Subset DEF Eligible
  <2> DEFINE standing == [v \in Eligible |-> Standing(v)]
  <2>2. IsFiniteSet({standing[v] : v \in Eligible})
    BY <2>1, ImageIsFinite
  <2>3. S = {standing[v] : v \in Eligible}
    OBVIOUS
  <2> QED
    BY <2>2, <2>3
<1> HIDE DEF S, s, m
<1>4. /\ m \in Nat /\ s \in [1..m -> S]
      /\ \A t \in S : \E i \in 1..m : s[i] = t
      /\ \A i, j \in 1..m : i < j => TupleBefore(s[i], s[j])
  BY <1>1, <1>3, SortedIs DEF s, m
<1>5. s \in Seq(S) /\ Len(s) = m
  BY <1>4
<1>6. R = [i \in 1..m |-> s[m - i + 1][5]]
  <2>1. Reverse(s) = [i \in 1..m |-> s[m - i + 1]]
    BY <1>5 DEF Reverse
  <2> QED
    BY <2>1 DEF Ranked, S, s
<1> HIDE DEF R
<1>7. \A i \in 1..m : m - i + 1 \in 1..m
  BY <1>4
<1>8. \A i \in 1..m : R[i] \in Eligible /\ Standing(R[i]) = s[m - i + 1]
  BY <1>2, <1>4, <1>6, <1>7
<1>9. \A v \in Eligible : \E i \in 1..m : R[i] = v
  <2>1. TAKE v \in Eligible
  <2>2. PICK j \in 1..m : s[j] = Standing(v)
    BY <1>1, <1>4
  <2>3. m - j + 1 \in 1..m /\ m - (m - j + 1) + 1 = j
    BY <1>4
  <2>4. R[m - j + 1] = v
    BY <1>1, <1>6, <2>2, <2>3
  <2> QED
    BY <2>3, <2>4
<1>10. \A i, j \in 1..m : i < j => TupleBefore(Standing(R[j]), Standing(R[i]))
  <2> SUFFICES ASSUME NEW i \in 1..m, NEW j \in 1..m, i < j
               PROVE  TupleBefore(Standing(R[j]), Standing(R[i]))
    OBVIOUS
  <2>1. m - j + 1 < m - i + 1
    BY <1>4
  <2> QED
    BY <1>4, <1>7, <1>8, <2>1
<1>11. R \in Seq(Eligible) /\ DOMAIN R = 1..m
  BY <1>4, <1>6, <1>8
<1> QED
  BY <1>9, <1>10, <1>11 DEF R, Below
-----------------------------------------------------------------------------
(* The choice of the accounts. *)

Refused(v) == ~options.allow_contract_victims /\ v \in Contracts \ unanswered

\* What is chosen, what has been refused and what is still to be looked at are
\* all that is eligible, and the last stand below all that are chosen.
SelectionInv ==
  /\ candidates \in Seq(Accounts) /\ selected \in Seq(Accounts) /\ IsInjective(selected)
  /\ codeCache \in Seq([account : Accounts, has_code : BOOLEAN])
  /\ unanswered \subseteq Chosen
  /\ pc \in {"start", "blocks"} => selected = <<>> /\ codeCache = <<>>
  /\ Len(selected) <= MaxVictims
  /\ ~options.allow_contract_victims =>
       /\ Len(codeCache) <= ProbeLimit
       /\ Chosen \cap Contracts \subseteq unanswered
  /\ pc \in {"probe", "tokens", "done"} =>
       /\ Chosen \subseteq Eligible /\ ToSet(candidates) \subseteq Eligible
       /\ \A v \in Eligible : v \in Chosen \/ v \in ToSet(candidates) \/ Refused(v)
       /\ \A i, j \in DOMAIN candidates : i < j => Below(candidates[j], candidates[i])
       /\ \A v \in ToSet(candidates), w \in Chosen : Below(v, w)
  /\ pc \in {"tokens", "done"} => ~LooksOn /\ rows = BuildRows(selected)

LEMMA HeadAndTail ==
  ASSUME NEW A, NEW s \in Seq(A), s # <<>>
  PROVE  /\ Head(s) \in A /\ Tail(s) \in Seq(A)
         /\ ToSet(s) = {Head(s)} \cup ToSet(Tail(s))
         /\ 1 \in DOMAIN s /\ Head(s) = s[1]
         /\ \A i \in DOMAIN Tail(s) : i \in Nat /\ i + 1 \in DOMAIN s /\ i + 1 > 1
                                      /\ Tail(s)[i] = s[i + 1]
<1>1. /\ Head(s) = s[1] /\ Head(s) \in A /\ Tail(s) \in Seq(A)
      /\ Len(s) \in Nat \ {0} /\ DOMAIN s = 1..Len(s) /\ DOMAIN Tail(s) = 1..(Len(s) - 1)
      /\ \A i \in 1..(Len(s) - 1) : Tail(s)[i] = s[i + 1]
  OBVIOUS
<1>2. \A i \in 1..Len(s) : i = 1 \/ (i - 1 \in 1..(Len(s) - 1) /\ Tail(s)[i - 1] = s[i])
  BY <1>1
<1>3. ToSet(s) = {Head(s)} \cup ToSet(Tail(s))
  <2>1. \A i \in 1..Len(s) : s[i] \in {Head(s)} \cup ToSet(Tail(s))
    BY <1>1, <1>2 DEF ToSet
  <2>2. 1 \in 1..Len(s) /\ \A i \in 1..(Len(s) - 1) : i + 1 \in 1..Len(s)
    BY <1>1
  <2>3. {Head(s)} \cup ToSet(Tail(s)) \subseteq ToSet(s)
    BY <1>1, <2>2 DEF ToSet
  <2> QED
    BY <1>1, <2>1, <2>3 DEF ToSet
<1> QED
  BY <1>1, <1>3

LEMMA AppendAdds ==
  ASSUME NEW A, NEW s \in Seq(A), NEW x \in A
  PROVE  /\ Append(s, x) \in Seq(A) /\ Len(Append(s, x)) = Len(s) + 1
         /\ ToSet(Append(s, x)) = ToSet(s) \cup {x}
         /\ IsInjective(s) /\ x \notin ToSet(s) => IsInjective(Append(s, x))
<1>1. /\ Len(s) \in Nat /\ DOMAIN s = 1..Len(s) /\ Append(s, x) \in Seq(A)
      /\ Len(Append(s, x)) = Len(s) + 1 /\ DOMAIN Append(s, x) = 1..(Len(s) + 1)
      /\ Append(s, x)[Len(s) + 1] = x
      /\ \A i \in 1..Len(s) : Append(s, x)[i] = s[i]
  OBVIOUS
<1>2. \A i \in 1..(Len(s) + 1) : i \in 1..Len(s) \/ i = Len(s) + 1
  BY <1>1
<1>3. ToSet(Append(s, x)) = ToSet(s) \cup {x}
  <2>1. \A i \in 1..(Len(s) + 1) : Append(s, x)[i] \in ToSet(s) \cup {x}
    BY <1>1, <1>2 DEF ToSet
  <2>2. Len(s) + 1 \in 1..(Len(s) + 1) /\ \A i \in 1..Len(s) : i \in 1..(Len(s) + 1)
    BY <1>1
  <2>3. ToSet(s) \cup {x} \subseteq ToSet(Append(s, x))
    BY <1>1, <2>2 DEF ToSet
  <2> QED
    BY <1>1, <2>1, <2>3 DEF ToSet
<1>4. ASSUME IsInjective(s), x \notin ToSet(s)
      PROVE  IsInjective(Append(s, x))
  <2>1. \A i \in 1..Len(s) : s[i] # x
    BY <1>1, <1>4 DEF ToSet
  <2>2. \A i, j \in 1..Len(s) : s[i] = s[j] => i = j
    BY <1>1, <1>4 DEF IsInjective
  <2> QED
    BY <1>1, <1>2, <2>1, <2>2 DEF IsInjective
<1> QED
  BY <1>1, <1>3, <1>4

LEMMA StandingsStay ==
  ASSUME UNCHANGED agg
  PROVE  /\ Eligible' = Eligible
         /\ \A v, w : Below(v, w)' <=> Below(v, w)
<1>1. \A v : RowsOf(v)' = RowsOf(v)
  BY DEF RowsOf
<1>2. \A v : Counterparties(v)' = Counterparties(v)
  BY <1>1 DEF Counterparties
<1>3. \A v : Standing(v)' = Standing(v)
  BY <1>1, <1>2 DEF Standing
<1> QED
  BY <1>1, <1>2, <1>3 DEF Eligible, Below

\* An account that is chosen is the first of those still to be looked at.
LEMMA HeadChosen ==
  ASSUME RowsAreNumbers, SelectionInv, pc = "probe", LooksOn,
         UNCHANGED <<agg, options, pc>>,
         selected' = Append(selected, Head(candidates)),
         candidates' = Tail(candidates),
         unanswered \subseteq unanswered', unanswered' \subseteq unanswered \cup {Head(candidates)},
         codeCache' \in Seq([account : Accounts, has_code : BOOLEAN]),
         ~options.allow_contract_victims =>
           /\ Len(codeCache') <= ProbeLimit
           /\ Head(candidates) \in Contracts => Head(candidates) \in unanswered'
  PROVE  SelectionInv'
<1> DEFINE h == Head(candidates)
<1>1. /\ h \in Accounts /\ candidates' \in Seq(Accounts)
      /\ ToSet(candidates) = {h} \cup ToSet(candidates')
      /\ 1 \in DOMAIN candidates /\ h = candidates[1]
      /\ \A i \in DOMAIN candidates' : i \in Nat /\ i + 1 \in DOMAIN candidates /\ i + 1 > 1
                                       /\ candidates'[i] = candidates[i + 1]
  BY HeadAndTail DEF SelectionInv, LooksOn
<1>2. h \in Eligible /\ \A w \in Chosen : Below(h, w)
  BY <1>1 DEF SelectionInv
<1>3. h \notin Chosen
  BY <1>2, StandingIs, TupleNotBeforeItself DEF Below
<1>4. /\ selected' \in Seq(Accounts) /\ IsInjective(selected')
      /\ Len(selected') = Len(selected) + 1 /\ Chosen' = Chosen \cup {h}
  BY <1>1, <1>3, AppendAdds DEF SelectionInv, Chosen
<1>5. Len(selected') <= MaxVictims
  BY <1>4, AccountsAssumption DEF LooksOn, SelectionInv
<1>6. Eligible' = Eligible /\ \A v, w : Below(v, w)' <=> Below(v, w)
  BY StandingsStay
<1> HIDE DEF h
<1>7. /\ Chosen' \subseteq Eligible' /\ ToSet(candidates') \subseteq Eligible'
      /\ unanswered' \subseteq Chosen'
  BY <1>1, <1>2, <1>4, <1>6 DEF SelectionInv, h
<1>8. \A v \in Eligible' : v \in Chosen' \/ v \in ToSet(candidates') \/ Refused(v)'
  <2> SUFFICES ASSUME NEW v \in Eligible, v \notin Chosen', v \notin ToSet(candidates')
               PROVE  Refused(v)'
    BY <1>6
  <2>1. v # h /\ Refused(v)
    BY <1>1, <1>4 DEF SelectionInv
  <2> QED
    BY <2>1 DEF Refused, h
<1>9. \A i, j \in DOMAIN candidates' : i < j => Below(candidates'[j], candidates'[i])
  <2> SUFFICES ASSUME NEW i \in DOMAIN candidates', NEW j \in DOMAIN candidates', i < j
               PROVE  Below(candidates[j + 1], candidates[i + 1])
    BY <1>1
  <2>1. i + 1 < j + 1
    BY <1>1
  <2> QED
    BY <1>1, <2>1 DEF SelectionInv
<1>10. \A v \in ToSet(candidates'), w \in Chosen' : Below(v, w)
  <2> SUFFICES ASSUME NEW v \in ToSet(candidates'), NEW w \in Chosen' PROVE Below(v, w)
    OBVIOUS
  <2>1. CASE w \in Chosen
    BY <1>1, <2>1 DEF SelectionInv
  <2>2. CASE w = h
    <3>1. PICK i \in DOMAIN candidates' : v = candidates'[i]
      BY DEF ToSet
    <3> QED
      BY <1>1, <2>2, <3>1 DEF SelectionInv
  <2> QED
    BY <1>4, <2>1, <2>2
<1>11. ~options.allow_contract_victims => Chosen' \cap Contracts \subseteq unanswered'
  BY <1>4 DEF SelectionInv, h
<1> QED
  BY <1>1, <1>4, <1>5, <1>6, <1>7, <1>8, <1>9, <1>10, <1>11 DEF SelectionInv

\* A contract is passed over.
LEMMA HeadRefused ==
  ASSUME RowsAreNumbers, SelectionInv, pc = "probe", LooksOn,
         UNCHANGED <<agg, options, pc, selected, unanswered>>,
         candidates' = Tail(candidates),
         ~options.allow_contract_victims, Head(candidates) \in Contracts,
         codeCache' \in Seq([account : Accounts, has_code : BOOLEAN]),
         Len(codeCache') <= ProbeLimit
  PROVE  SelectionInv'
<1> DEFINE h == Head(candidates)
<1>1. /\ candidates' \in Seq(Accounts)
      /\ ToSet(candidates) = {h} \cup ToSet(candidates')
      /\ \A i \in DOMAIN candidates' : i \in Nat /\ i + 1 \in DOMAIN candidates
                                       /\ candidates'[i] = candidates[i + 1]
  BY HeadAndTail DEF SelectionInv, LooksOn
<1>2. h \in Eligible /\ \A w \in Chosen : Below(h, w)
  BY <1>1 DEF SelectionInv
<1>3. h \notin Chosen
  BY <1>2, StandingIs, TupleNotBeforeItself DEF Below
<1>4. Refused(h)
  BY <1>3 DEF SelectionInv, Refused
<1>5. Eligible' = Eligible /\ \A v, w : Below(v, w)' <=> Below(v, w)
  BY StandingsStay
<1>6. Chosen' = Chosen /\ \A v : Refused(v)' <=> Refused(v)
  BY DEF Chosen, Refused
<1> HIDE DEF h
<1>7. \A v \in Eligible' : v \in Chosen' \/ v \in ToSet(candidates') \/ Refused(v)'
  BY <1>1, <1>4, <1>5, <1>6 DEF SelectionInv
<1>8. \A i, j \in DOMAIN candidates' : i < j => Below(candidates'[j], candidates'[i])
  <2> SUFFICES ASSUME NEW i \in DOMAIN candidates', NEW j \in DOMAIN candidates', i < j
               PROVE  Below(candidates[j + 1], candidates[i + 1])
    BY <1>1
  <2>1. i + 1 < j + 1
    BY <1>1
  <2> QED
    BY <1>1, <2>1 DEF SelectionInv
<1> QED
  BY <1>1, <1>5, <1>6, <1>7, <1>8 DEF SelectionInv

LEMMA ProbedAccount ==
  ASSUME SelectionInv, pc = "probe", LooksOn, ~options.allow_contract_victims,
         NEW code \in BOOLEAN, Probe(code)
  PROVE  /\ codeCache' \in Seq([account : Accounts, has_code : BOOLEAN])
         /\ Len(codeCache') <= ProbeLimit
<1>1. Head(candidates) \in Accounts
  BY HeadAndTail DEF SelectionInv, LooksOn
<1>2. [account |-> Head(candidates), has_code |-> code] \in [account : Accounts, has_code : BOOLEAN]
  BY <1>1
<1>3. /\ codeCache' \in Seq([account : Accounts, has_code : BOOLEAN])
      /\ Len(codeCache') = Len(codeCache) + 1
  BY <1>2, AppendAdds DEF SelectionInv, Probe
<1>4. Len(codeCache) < ProbeLimit /\ Len(codeCache) \in Nat
  BY DEF SelectionInv, LooksOn
<1> QED
  BY <1>3, <1>4, AccountsAssumption

LEMMA ChoiceStep ==
  ASSUME RowsAreNumbers, SelectionInv, TakeCandidate \/ ProbeAnswered \/ ProbeFails
  PROVE  SelectionInv'
<1>1. CASE TakeCandidate
  <2>1. codeCache' = codeCache /\ unanswered' = unanswered /\ options.allow_contract_victims
    BY <1>1 DEF TakeCandidate
  <2>2. codeCache' \in Seq([account : Accounts, has_code : BOOLEAN])
    BY <2>1 DEF SelectionInv
  <2> QED
    BY <1>1, <2>1, <2>2, HeadChosen DEF TakeCandidate, world, scan
<1>2. CASE ProbeAnswered
  <2>1. /\ pc = "probe" /\ LooksOn /\ ~options.allow_contract_victims
        /\ UNCHANGED <<agg, options, pc, unanswered>>
        /\ Probe(Head(candidates) \in Contracts)
    BY <1>2 DEF ProbeAnswered, world, scan
  <2>2. CASE Head(candidates) \in Contracts
    <3>1. Probe(TRUE)
      BY <2>1, <2>2 DEF Probe
    <3>2. /\ codeCache' \in Seq([account : Accounts, has_code : BOOLEAN])
          /\ Len(codeCache') <= ProbeLimit
      BY <2>1, <3>1, ProbedAccount
    <3> QED
      BY <2>1, <2>2, <3>1, <3>2, HeadRefused DEF Probe
  <2>3. CASE Head(candidates) \notin Contracts
    <3>1. Probe(FALSE)
      <4>1. (Head(candidates) \in Contracts) = FALSE
        BY <2>3
      <4> QED
        BY <2>1, <4>1, Zenon DEF Probe
    <3>2. /\ codeCache' \in Seq([account : Accounts, has_code : BOOLEAN])
          /\ Len(codeCache') <= ProbeLimit
      BY <2>1, <3>1, ProbedAccount
    <3> QED
      BY <2>1, <2>3, <3>1, <3>2, HeadChosen DEF Probe
  <2> QED
    BY <2>2, <2>3
<1>3. CASE ProbeFails
  <2>1. /\ pc = "probe" /\ LooksOn /\ ~options.allow_contract_victims
        /\ UNCHANGED <<agg, options, pc>>
        /\ unanswered' = unanswered \cup {Head(candidates)}
        /\ Probe(FALSE)
    BY <1>3 DEF ProbeFails, world, scan
  <2>2. /\ codeCache' \in Seq([account : Accounts, has_code : BOOLEAN])
        /\ Len(codeCache') <= ProbeLimit
    BY <2>1, ProbedAccount
  <2> QED
    BY <2>1, <2>2, HeadChosen DEF Probe
<1> QED
  BY <1>1, <1>2, <1>3

LEMMA ScanEndsStep ==
  ASSUME RowsAreNumbers, SelectionInv, ScanEnds
  PROVE  SelectionInv'
<1>1. /\ pc = "blocks" /\ pc' = "probe" /\ candidates' = Ranked(Eligible)
      /\ UNCHANGED <<agg, options, selected, codeCache, unanswered>>
  BY DEF ScanEnds, world, scan
<1>2. /\ candidates' \in Seq(Eligible)
      /\ \A v \in Eligible : \E i \in DOMAIN candidates' : candidates'[i] = v
      /\ \A i, j \in DOMAIN candidates' : i < j => Below(candidates'[j], candidates'[i])
  BY <1>1, RankedIs
<1>3. selected = <<>> /\ Chosen = {} /\ Chosen' = {}
  BY <1>1 DEF SelectionInv, Chosen, ToSet
<1>4. candidates' \in Seq(Accounts) /\ ToSet(candidates') = Eligible
  <2>1. Eligible \subseteq Accounts
    BY DEF Eligible
  <2> HIDE DEF Eligible
  <2> QED
    BY <1>2, <2>1 DEF ToSet
<1>5. Eligible' = Eligible /\ \A v, w : Below(v, w)' <=> Below(v, w)
  BY <1>1, StandingsStay
<1> QED
  BY <1>1, <1>2, <1>3, <1>4, <1>5 DEF SelectionInv

LEMMA OutputStays ==
  ASSUME UNCHANGED <<agg, selected>>
  PROVE  BuildRows(selected)' = BuildRows(selected)
<1>1. \A v : RowsOf(v)' = RowsOf(v)
  BY DEF RowsOf
<1>2. \A k : Frequency(k)' = Frequency(k) /\ SortKey(selected, k)' = SortKey(selected, k)
  BY DEF Frequency, SortKey
<1>3. \A v : TopRows(v)' = TopRows(v)
  BY <1>1, <1>2 DEF TopRows
<1> QED
  BY <1>2, <1>3 DEF BuildRows

LEMMA SelectionEndsStep ==
  ASSUME SelectionInv, SelectionEnds
  PROVE  SelectionInv'
<1>1. /\ pc = "probe" /\ pc' = "tokens" /\ ~LooksOn /\ rows' = BuildRows(selected)
      /\ UNCHANGED <<agg, options, candidates, selected, codeCache, unanswered>>
  BY DEF SelectionEnds, world, scan, selection
<1>2. Eligible' = Eligible /\ \A v, w : Below(v, w)' <=> Below(v, w)
  BY <1>1, StandingsStay
<1>3. Chosen' = Chosen /\ LooksOn' = LooksOn /\ \A v : Refused(v)' <=> Refused(v)
  BY <1>1 DEF Chosen, Refused, LooksOn
<1>4. BuildRows(selected)' = BuildRows(selected)
  BY <1>1, OutputStays
<1> QED
  BY <1>1, <1>2, <1>3, <1>4 DEF SelectionInv

\* The other steps leave what is chosen and what it is chosen from alone.
LEMMA OtherSteps ==
  ASSUME SelectionInv,
         UNCHANGED <<options, candidates, selected, codeCache, unanswered>>,
         \/ pc' \in {"start", "blocks", "failed"} /\ (pc' # "failed" => pc \in {"start", "blocks"})
         \/ UNCHANGED <<agg, rows>> /\ (pc' = pc \/ (pc = "tokens" /\ pc' = "done"))
  PROVE  SelectionInv'
<1>1. Chosen' = Chosen /\ LooksOn' = LooksOn /\ \A v : Refused(v)' <=> Refused(v)
  BY DEF Chosen, Refused, LooksOn
<1>2. CASE pc' \in {"start", "blocks", "failed"} /\ (pc' # "failed" => pc \in {"start", "blocks"})
  BY <1>1, <1>2 DEF SelectionInv
<1>3. CASE UNCHANGED <<agg, rows>> /\ (pc' = pc \/ (pc = "tokens" /\ pc' = "done"))
  <2>1. Eligible' = Eligible /\ \A v, w : Below(v, w)' <=> Below(v, w)
    BY <1>3, StandingsStay
  <2>2. BuildRows(selected)' = BuildRows(selected)
    BY <1>3, OutputStays
  <2> QED
    BY <1>1, <1>3, <2>1, <2>2 DEF SelectionInv
<1> QED
  BY <1>2, <1>3

LEMMA NextSelectionInv ==
  RowsAreNumbers /\ SelectionInv /\ [Next]_vars => SelectionInv'
<1> SUFFICES ASSUME RowsAreNumbers, SelectionInv, [Next]_vars PROVE SelectionInv'
  OBVIOUS
<1>1. CASE TakeCandidate \/ ProbeAnswered \/ ProbeFails
  BY <1>1, ChoiceStep
<1>2. CASE ScanEnds
  BY <1>2, ScanEndsStep
<1>3. CASE SelectionEnds
  BY <1>3, SelectionEndsStep
<1>4. CASE StartScan(Len(chain)) \/ StartFails
  BY <1>4, OtherSteps DEF StartScan, StartFails, world, selection
<1>5. CASE SkipBatch \/ \E order \in Orders(Len(Numbers(next))), known \in SUBSET ToSet(Numbers(next)) :
             BlocksAnswered(order, known)
  BY <1>5, OtherSteps DEF SkipBatch, BlocksAnswered, world, selection
<1>6. CASE Retry \/ WriteOutput \/ UNCHANGED vars
  BY <1>6, OtherSteps DEF Retry, WriteOutput, vars, world, scan, selection, output
<1>7. CASE \E known \in BOOLEAN : TokenAnswered(known)
  BY <1>7, OtherSteps DEF TokenAnswered, world, scan, selection
<1> QED
  BY <1>1, <1>2, <1>3, <1>4, <1>5, <1>6, <1>7 DEF Next

LEMMA InitSelectionInv == Init => SelectionInv
<1> SUFFICES ASSUME Init PROVE SelectionInv
  OBVIOUS
<1>1. pc = "start" /\ candidates = <<>> /\ selected = <<>> /\ codeCache = <<>> /\ unanswered = {}
  BY DEF Init
<1>2. Chosen = {} /\ IsInjective(selected)
  BY <1>1 DEF Chosen, ToSet, IsInjective
<1> QED
  BY <1>1, <1>2, AccountsAssumption DEF SelectionInv
-----------------------------------------------------------------------------
(* The output. *)

LEMMA FirstPlaces ==
  ASSUME NEW n \in Nat, n >= 2, NEW s \in Tuples(n), NEW t \in Tuples(n), TupleBefore(s, t)
  PROVE  s[1] <= t[1] /\ (s[1] = t[1] => s[2] <= t[2])
<1>1. PICK i \in 1..n : s[i] < t[i] /\ \A j \in 1..(i-1) : s[j] = t[j]
  BY DEF TupleBefore, Tuples
<1>2. \A j \in 1..n : s[j] \in Int /\ t[j] \in Int
  BY DEF Tuples
<1>3. CASE i = 1
  BY <1>1, <1>2, <1>3
<1>4. CASE i = 2
  BY <1>1, <1>2, <1>4
<1>5. CASE i > 2
  <2>1. 1 \in 1..(i-1) /\ 2 \in 1..(i-1) /\ 1 \in 1..n /\ 2 \in 1..n
    BY <1>5
  <2> QED
    BY <1>1, <1>2, <2>1
<1> QED
  BY <1>3, <1>4, <1>5

LEMMA RowIs ==
  ASSUME RowsAreNumbers, NEW v, NEW k \in RowsOf(v)
  PROVE  /\ k \in Keys /\ k[1] = v /\ k = <<k[1], k[2], k[3]>>
         /\ k[2] \in Int /\ k[3] \in Int
         /\ agg[k].observed_freq \in Nat /\ agg[k].last_seen \in Nat
<1>1. k \in Keys /\ k[1] = v
  BY DEF RowsOf
<1>2. /\ k = <<k[1], k[2], k[3]>>
      /\ k[2] \in Accounts /\ k[3] \in Tokens
  BY <1>1 DEF Keys
<1>3. agg[k].observed_freq \in Nat /\ agg[k].last_seen \in Nat
  BY <1>1 DEF RowsAreNumbers
<1> QED
  BY <1>1, <1>2, <1>3, AccountsAssumption

\* Of each account the rows seen most are kept, as many as are allowed.
LEMMA TopRowsAre ==
  ASSUME RowsAreNumbers, NEW v
  PROVE  /\ TopRows(v) \subseteq RowsOf(v)
         /\ IsFiniteSet(TopRows(v)) /\ Cardinality(TopRows(v)) <= MaxPerVictim
         /\ TopRows(v) # RowsOf(v) => Cardinality(TopRows(v)) = MaxPerVictim
         /\ \A k \in TopRows(v), q \in RowsOf(v) \ TopRows(v) :
              agg[q].observed_freq <= agg[k].observed_freq
<1> DEFINE S == RowsOf(v)
           key == [k \in S |-> Frequency(k)]
           R == Falling(key, S)
<1>1. IsFiniteSet(S)
  BY RowsOfIsFinite
<1>2. \A k \in S : key[k] = Frequency(k) /\ Frequency(k) \in Tuples(4)
  <2>1. TAKE k \in S
  <2>2. /\ k[2] \in Int /\ k[3] \in Int
        /\ agg[k].observed_freq \in Nat /\ agg[k].last_seen \in Nat
    BY RowIs
  <2> QED
    BY <2>2 DEF Frequency, Tuples
<1>3. \A k, q \in S : key[k] = key[q] => k = q
  <2> SUFFICES ASSUME NEW k \in S, NEW q \in S, Frequency(k) = Frequency(q)
               PROVE  k = q
    OBVIOUS
  <2>1. k[2] = q[2] /\ k[3] = q[3]
    BY DEF Frequency
  <2>2. k = <<v, k[2], k[3]>> /\ q = <<v, q[2], q[3]>>
    BY RowIs
  <2> QED
    BY <2>1, <2>2
<1>4. Ordered(R, S)
  BY <1>2, <1>3, KeysOrder
<1>5. \A k, q \in S : <<k, q>> \in R <=> TupleBefore(Frequency(q), Frequency(k))
  BY DEF Falling
<1>6. TopRows(v) = FirstOf(R, S, MaxPerVictim)
  <2>1. \A k \in S : Ahead(R, S, k) = {q \in S : TupleBefore(Frequency(k), Frequency(q))}
    BY <1>5 DEF Ahead
  <2> QED
    BY <2>1 DEF TopRows, FirstOf
<1> HIDE DEF R, key, S
<1>7. /\ IsFiniteSet(TopRows(v)) /\ Cardinality(TopRows(v)) <= MaxPerVictim
      /\ TopRows(v) # S => Cardinality(TopRows(v)) = MaxPerVictim
      /\ \A k \in TopRows(v), q \in S \ TopRows(v) : <<k, q>> \in R
  BY <1>1, <1>4, <1>6, FirstsAreFirst, AccountsAssumption
<1>8. TopRows(v) \subseteq S
  BY <1>6 DEF FirstOf
<1>9. ASSUME NEW k \in TopRows(v), NEW q \in S \ TopRows(v)
      PROVE  agg[q].observed_freq <= agg[k].observed_freq
  <2>1. TupleBefore(Frequency(q), Frequency(k))
    BY <1>5, <1>7, <1>8
  <2>2. Frequency(q)[1] <= Frequency(k)[1]
    BY <1>2, <1>8, <2>1, FirstPlaces
  <2> QED
    BY <2>2 DEF Frequency
<1> QED
  BY <1>7, <1>8, <1>9 DEF S

Top == UNION {TopRows(v) : v \in Chosen}

LEMMA SortKeyIs ==
  ASSUME RowsAreNumbers, selected \in Seq(Accounts), NEW k \in Top
  PROVE  LET key == SortKey(selected, k)
         IN  /\ key \in Tuples(5)
             /\ key[1] \in DOMAIN selected /\ selected[key[1]] = k[1] /\ k[1] \in Chosen
             /\ key[2] = -agg[k].observed_freq
             /\ k = <<selected[key[1]], key[4], key[5]>>
             /\ k \in RowsOf(k[1]) /\ k \in TopRows(k[1])
<1> DEFINE place == CHOOSE i \in DOMAIN selected : selected[i] = k[1]
<1>1. PICK v \in Chosen : k \in TopRows(v)
  BY DEF Top
<1>2. k \in RowsOf(v)
  BY <1>1, TopRowsAre
<1>3. /\ k[1] = v /\ k = <<k[1], k[2], k[3]>> /\ k[2] \in Int /\ k[3] \in Int
      /\ agg[k].observed_freq \in Nat /\ agg[k].last_seen \in Nat
  BY <1>2, RowIs
<1>4. place \in DOMAIN selected /\ selected[place] = k[1]
  <2>1. \E i \in DOMAIN selected : selected[i] = k[1]
    BY <1>1, <1>3 DEF Chosen, ToSet
  <2> QED
    BY <2>1
<1>5. place \in Int
  BY <1>4
<1>6. SortKey(selected, k) = <<place, -agg[k].observed_freq, -agg[k].last_seen, k[2], k[3]>>
  BY DEF SortKey
<1> HIDE DEF place
<1> QED
  BY <1>1, <1>2, <1>3, <1>4, <1>5, <1>6 DEF Tuples

\* The output has the first rows by their keys, all of them or as many as the
\* cap allows.
LEMMA OutputIs ==
  ASSUME RowsAreNumbers, selected \in Seq(Accounts)
  PROVE  LET out == BuildRows(selected)
         IN  /\ ToSet(out) \subseteq Top
             /\ Len(out) \in Nat
             /\ RowCap > 0 => Len(out) <= RowCap
             /\ ToSet(out) # Top => Len(out) = RowCap
             /\ \A k \in ToSet(out), q \in Top \ ToSet(out) :
                  TupleBefore(SortKey(selected, k), SortKey(selected, q))
<1> DEFINE S == {SortKey(selected, k) : k \in Top}
           m == Cardinality(S)
           s == Sorted(S)
           capped == RowCap > 0 /\ m > RowCap
           n == IF capped THEN RowCap ELSE m
           out == BuildRows(selected)
           row(t) == <<selected[t[1]], t[4], t[5]>>
<1>1. S \in SUBSET Tuples(5) /\ \A k \in Top : SortKey(selected, k) \in S
  BY SortKeyIs
<1>2. \A k \in Top : row(SortKey(selected, k)) = k
  BY SortKeyIs
<1>3. IsFiniteSet(S)
  <2>1. Top \in SUBSET Keys
    BY TopRowsAre, RowsOfIsFinite DEF Top
  <2>2. IsFiniteSet(Top)
    BY <2>1, KeysAreFinite, FS_Subset
  <2> DEFINE key == [k \in Top |-> SortKey(selected, k)]
  <2>3. IsFiniteSet({key[k] : k \in Top})
    BY <2>2, ImageIsFinite
  <2>4. S = {key[k] : k \in Top}
    OBVIOUS
  <2> QED
    BY <2>3, <2>4
<1>4. out = LET kept == IF RowCap > 0 /\ Len(s) > RowCap THEN SubSeq(s, 1, RowCap) ELSE s
            IN  [i \in DOMAIN kept |-> <<selected[kept[i][1]], kept[i][4], kept[i][5]>>]
  <2>1. {SortKey(selected, k) : k \in UNION {TopRows(v) : v \in ToSet(selected)}} = S
    BY DEF Top, Chosen
  <2> QED
    BY <2>1 DEF BuildRows
<1>5. \A t \in S : \E k \in Top : t = SortKey(selected, k)
  OBVIOUS
<1> HIDE DEF S, s, m
<1>6. /\ m \in Nat /\ s \in [1..m -> S]
      /\ \A t \in S : \E i \in 1..m : s[i] = t
      /\ \A i, j \in 1..m : i < j => TupleBefore(s[i], s[j])
  BY <1>1, <1>3, SortedIs DEF s, m
<1>7. n \in Nat /\ n <= m /\ Len(s) = m /\ s \in Seq(S) /\ (~capped => n = m) /\ (capped => n = RowCap)
  BY <1>6, AccountsAssumption
<1>8. out = [i \in 1..n |-> row(s[i])]
  <2>1. CASE capped
    <3>1. SubSeq(s, 1, RowCap) = [i \in 1..RowCap |-> s[i]]
      BY <1>6, <1>7, <2>1, AccountsAssumption
    <3> QED
      BY <1>4, <1>7, <2>1, <3>1
  <2>2. CASE ~capped
    BY <1>4, <1>6, <1>7, <2>2
  <2> QED
    BY <2>1, <2>2
<1> HIDE DEF out, capped, n, row
<1>9. DOMAIN out = 1..n /\ Len(out) = n
  BY <1>7, <1>8
<1>10. \A i \in 1..m : row(s[i]) \in Top /\ SortKey(selected, row(s[i])) = s[i]
  <2>1. TAKE i \in 1..m
  <2>2. PICK k \in Top : s[i] = SortKey(selected, k)
    BY <1>5, <1>6
  <2> QED
    BY <1>2, <2>2
<1>11. \A k \in Top : \E i \in 1..m : s[i] = SortKey(selected, k) /\ row(s[i]) = k
  BY <1>1, <1>2, <1>6
<1>12. \A i \in 1..n : i \in 1..m /\ out[i] = row(s[i])
  BY <1>7, <1>8
<1>13. ToSet(out) \subseteq Top
  BY <1>9, <1>10, <1>12 DEF ToSet
<1>14. ASSUME NEW q \in Top \ ToSet(out)
       PROVE  capped /\ \A k \in ToSet(out) : TupleBefore(SortKey(selected, k), SortKey(selected, q))
  <2>1. PICK j \in 1..m : s[j] = SortKey(selected, q) /\ row(s[j]) = q
    BY <1>11
  <2>2. j \notin 1..n
    BY <1>9, <1>12, <2>1 DEF ToSet
  <2>3. j > n /\ capped
    BY <1>6, <1>7, <2>1, <2>2
  <2>4. ASSUME NEW k \in ToSet(out)
        PROVE  TupleBefore(SortKey(selected, k), SortKey(selected, q))
    <3>1. PICK i \in 1..n : k = out[i]
      BY <1>9 DEF ToSet
    <3>2. i \in 1..m /\ SortKey(selected, k) = s[i] /\ i < j
      BY <1>7, <1>10, <1>12, <2>3, <3>1
    <3> QED
      BY <1>6, <2>1, <3>2
  <2> QED
    BY <2>3, <2>4
<1>15. RowCap > 0 => Len(out) <= RowCap
  <2>1. RowCap > 0 /\ ~capped => m <= RowCap
    BY <1>6, AccountsAssumption DEF capped
  <2> QED
    BY <1>7, <1>9, <2>1, AccountsAssumption
<1>16. ToSet(out) # Top => Len(out) = RowCap
  BY <1>7, <1>9, <1>13, <1>14
<1> QED
  BY <1>7, <1>9, <1>13, <1>14, <1>15, <1>16 DEF out

LEMMA RankedWhenDone ==
  ASSUME RowsAreNumbers, SelectionInv, pc \in {"tokens", "done"}
  PROVE  SelectionIsRanked
<1>1. candidates # <<>> => \/ Len(selected) = MaxVictims
                           \/ ~options.allow_contract_victims /\ Len(codeCache) = ProbeLimit
  <2>1. ~LooksOn /\ Len(selected) <= MaxVictims /\ Len(selected) \in Nat /\ Len(codeCache) \in Nat
        /\ (~options.allow_contract_victims => Len(codeCache) <= ProbeLimit)
    BY DEF SelectionInv
  <2> QED
    BY <2>1, AccountsAssumption DEF LooksOn
<1>2. ASSUME NEW v \in Eligible \ Chosen, v \in ToSet(candidates)
      PROVE  /\ \A w \in Chosen : TupleBefore(Standing(v), Standing(w))
             /\ \/ Len(selected) = MaxVictims
                \/ ~options.allow_contract_victims /\ Len(codeCache) = ProbeLimit
  <2>1. \A w \in Chosen : Below(v, w)
    BY <1>2 DEF SelectionInv
  <2>2. candidates # <<>>
    BY <1>2 DEF ToSet
  <2> QED
    BY <1>1, <2>1, <2>2 DEF Below
<1>3. ASSUME NEW v \in Eligible \ Chosen, v \notin ToSet(candidates)
      PROVE  ~options.allow_contract_victims /\ v \in Contracts \ unanswered
  BY <1>3 DEF SelectionInv, Refused
<1>4. /\ IsInjective(selected) /\ Chosen \subseteq Eligible
      /\ ~options.allow_contract_victims => Chosen \cap Contracts \subseteq unanswered
  BY DEF SelectionInv
<1> QED
  BY <1>2, <1>3, <1>4 DEF SelectionIsRanked

\* An account of which a row is missing has all its rows it may have, or the
\* cap has been reached with it.
LEMMA MissingRow ==
  ASSUME RowsAreNumbers, selected \in Seq(Accounts), IsInjective(selected),
         rows = BuildRows(selected), NEW i \in DOMAIN selected,
         NEW q \in RowsOf(selected[i]), q \notin ToSet(rows)
  PROVE  LET of(v) == {k \in ToSet(rows) : k[1] = v}
         IN  /\ \A k \in of(selected[i]) : agg[q].observed_freq <= agg[k].observed_freq
             /\ \/ Cardinality(of(selected[i])) = MaxPerVictim
                \/ /\ Len(rows) = RowCap
                   /\ \A j \in (i+1)..Len(selected) : of(selected[j]) = {}
<1> DEFINE kept == ToSet(rows)
           v == selected[i]
           of(w) == {k \in kept : k[1] = w}
           key(k) == SortKey(selected, k)
<1>1. /\ kept \subseteq Top
      /\ kept # Top => Len(rows) = RowCap
      /\ \A k \in kept, p \in Top \ kept : TupleBefore(key(k), key(p))
  BY OutputIs
<1>2. \A k \in Top : /\ key(k) \in Tuples(5) /\ key(k)[1] \in DOMAIN selected
                     /\ selected[key(k)[1]] = k[1]
                     /\ key(k)[2] = -agg[k].observed_freq
                     /\ k \in TopRows(k[1]) /\ k \in RowsOf(k[1])
  BY SortKeyIs
<1>3. /\ TopRows(v) \subseteq RowsOf(v)
      /\ TopRows(v) # RowsOf(v) => Cardinality(TopRows(v)) = MaxPerVictim
      /\ \A k \in TopRows(v), p \in RowsOf(v) \ TopRows(v) :
           agg[p].observed_freq <= agg[k].observed_freq
  BY TopRowsAre
<1>4. TopRows(v) \subseteq Top /\ v \in Chosen
  BY DEF Top, Chosen, ToSet
<1>5. \A k \in RowsOf(v) : k[1] = v /\ agg[k].observed_freq \in Nat
  BY RowIs
<1>6. q \in RowsOf(v) /\ q \notin kept
  OBVIOUS
<1> HIDE DEF kept, key
<1>7. of(v) \subseteq TopRows(v) /\ of(v) = kept \cap TopRows(v)
  BY <1>1, <1>2, <1>3, <1>5
<1>8. ASSUME NEW p \in TopRows(v), p \notin kept, NEW k \in kept
      PROVE  /\ key(k)[1] <= key(p)[1]
             /\ k[1] = v => agg[p].observed_freq <= agg[k].observed_freq
  <2>1. p \in Top \ kept /\ k \in Top
    BY <1>1, <1>4, <1>8
  <2>2. /\ key(k) \in Tuples(5) /\ key(p) \in Tuples(5) /\ TupleBefore(key(k), key(p))
    BY <1>1, <1>2, <2>1
  <2>3. key(k)[1] <= key(p)[1] /\ (key(k)[1] = key(p)[1] => key(k)[2] <= key(p)[2])
    BY <2>2, FirstPlaces
  <2>4. ASSUME k[1] = v
        PROVE  agg[p].observed_freq <= agg[k].observed_freq
    <3>1. selected[key(k)[1]] = v /\ selected[key(p)[1]] = v /\ k \in RowsOf(v) /\ p \in RowsOf(v)
      BY <1>2, <1>3, <1>5, <1>8, <2>1, <2>4
    <3>2. key(k)[1] = key(p)[1]
      BY <1>2, <2>1, <3>1 DEF IsInjective
    <3>3. -agg[k].observed_freq <= -agg[p].observed_freq
      BY <1>2, <2>1, <2>3, <3>2
    <3> QED
      BY <1>5, <3>1, <3>3
  <2> QED
    BY <2>3, <2>4
<1>9. \A k \in of(v) : agg[q].observed_freq <= agg[k].observed_freq
  <2>1. CASE q \in TopRows(v)
    BY <1>6, <1>8, <2>1
  <2>2. CASE q \notin TopRows(v)
    BY <1>3, <1>6, <1>7, <2>2
  <2> QED
    BY <2>1, <2>2
<1>10. CASE of(v) = TopRows(v)
  <2>1. TopRows(v) # RowsOf(v)
    BY <1>6, <1>7, <1>10
  <2> QED
    BY <1>3, <1>9, <1>10, <2>1 DEF kept
<1>11. CASE of(v) # TopRows(v)
  <2>1. PICK p \in TopRows(v) : p \notin kept
    BY <1>7, <1>11
  <2>2. Len(rows) = RowCap
    BY <1>1, <1>4, <2>1
  <2>3. key(p)[1] = i
    <3>1. key(p)[1] \in DOMAIN selected /\ selected[key(p)[1]] = v
      BY <1>2, <1>3, <1>4, <1>5, <2>1
    <3> QED
      BY <3>1 DEF IsInjective
  <2>4. ASSUME NEW j \in (i+1)..Len(selected), NEW k \in of(selected[j])
        PROVE  FALSE
    <3>1. k \in kept /\ k[1] = selected[j] /\ k \in Top
      BY <1>1
    <3>2. key(k)[1] \in DOMAIN selected /\ selected[key(k)[1]] = selected[j] /\ j \in DOMAIN selected
      BY <1>2, <3>1
    <3>3. key(k)[1] = j
      BY <3>2 DEF IsInjective
    <3>4. key(k)[1] <= i
      BY <1>8, <2>1, <2>3, <3>1
    <3> QED
      BY <3>3, <3>4
  <2> QED
    BY <1>9, <2>2, <2>4 DEF kept
<1> QED
  BY <1>10, <1>11

\* The accounts are chosen by rank, no contract among them whose probe was
\* answered, and a row is left out only in favour of rows of its account that
\* were seen as often, and of accounts chosen before it (291-343 and 400-421).
THEOREM OutputHasTheBest == Spec => []OutputIsBest
<1>1. RowsAreNumbers /\ SelectionInv => OutputIsBest
  <2> SUFFICES ASSUME RowsAreNumbers, SelectionInv PROVE OutputIsBest
    OBVIOUS
  <2>1. SelectionIsRanked
    BY RankedWhenDone DEF SelectionIsRanked
  <2>2. ASSUME pc \in {"tokens", "done"}
        PROVE  LET kept == ToSet(rows)
                   of(v) == {k \in kept : k[1] = v}
               IN  /\ \A k \in kept : k[1] \in Chosen
                   /\ RowCap > 0 => Len(rows) <= RowCap
                   /\ \A i \in DOMAIN selected :
                        LET v == selected[i]
                        IN  /\ Cardinality(of(v)) <= MaxPerVictim
                            /\ \A q \in RowsOf(v) \ kept :
                                 /\ \A k \in of(v) : agg[q].observed_freq <= agg[k].observed_freq
                                 /\ \/ Cardinality(of(v)) = MaxPerVictim
                                    \/ /\ Len(rows) = RowCap
                                       /\ \A j \in (i+1)..Len(selected) : of(selected[j]) = {}
    <3>1. selected \in Seq(Accounts) /\ IsInjective(selected) /\ rows = BuildRows(selected)
      BY <2>2 DEF SelectionInv
    <3>2. ToSet(rows) \subseteq Top /\ (RowCap > 0 => Len(rows) <= RowCap)
      BY <3>1, OutputIs
    <3>3. \A k \in ToSet(rows) : k[1] \in Chosen /\ k \in TopRows(k[1])
      BY <3>1, <3>2, SortKeyIs
    <3>4. \A v : Cardinality({k \in ToSet(rows) : k[1] = v}) <= MaxPerVictim
      <4>1. TAKE v
      <4>2. {k \in ToSet(rows) : k[1] = v} \in SUBSET TopRows(v)
        BY <3>3
      <4>3. IsFiniteSet(TopRows(v)) /\ Cardinality(TopRows(v)) <= MaxPerVictim
        BY TopRowsAre
      <4>4. /\ IsFiniteSet({k \in ToSet(rows) : k[1] = v})
            /\ Cardinality({k \in ToSet(rows) : k[1] = v}) <= Cardinality(TopRows(v))
        BY <4>2, <4>3, FS_Subset
      <4> QED
        BY <4>3, <4>4, FS_CardinalityType, AccountsAssumption
    <3> QED
      BY <3>1, <3>2, <3>3, <3>4, MissingRow
  <2> QED
    BY <2>1, <2>2 DEF OutputIsBest
<1>2. Init => RangeInv /\ CallsInv /\ SelectionInv
  BY InitRangeInv, InitCallsInv, InitSelectionInv
<1>3. RangeInv /\ CallsInv /\ SelectionInv /\ [Next]_vars => (RangeInv /\ CallsInv /\ SelectionInv)'
  BY NextRangeInv, NextCallsInv, NextSelectionInv, RowsCounted
<1>4. RangeInv /\ CallsInv /\ SelectionInv => OutputIsBest
  BY <1>1, RowsCounted
<1> QED
  BY <1>2, <1>3, <1>4, PTL DEF Spec
===========================================================================
