-------------------------- MODULE BlockFollowerProofs --------------------------
(***************************************************************************)
(* Theorems of BlockFollower, for any set of transactions, any length of   *)
(* the warm-up and any history of the chain.                               *)
(*                                                                         *)
(* Sequential accounting is inductive together with what a poll in flight  *)
(* knows: the first poll of a run fetches one block and no more, and a     *)
(* later one has fetched, in order, a part of what is between the block    *)
(* processed last and the one that was called latest.                      *)
(*                                                                         *)
(* That each block is counted once rests on the order in which blocks are  *)
(* made (OnceInv, at the end of the module).                               *)
(***************************************************************************)
EXTENDS BlockFollower, FiniteSetTheorems, TLAPS

\* What the poll in flight has in hand.
PollInv ==
  poll = "fetch" =>
    /\ latest.number \in 1..Len(chain)
    /\ lastBlockNumber = 0 => batch = <<>>
    /\ lastBlockNumber # 0 => lastBlockNumber + Len(batch) + 1 <= latest.number

\* Nothing is in hand between two polls.
IdleInv == poll = "idle" => batch = <<>>

\* Every block of the chain was made.
ChainInv == Len(chain) \in 1..made

FollowInv == TypeOK /\ ChainInv /\ PollInv /\ IdleInv /\ Contiguous

-----------------------------------------------------------------------------
\* While a poll is under way, the number fetched next follows the blocks that
\* were fetched; the first poll of a run has one number only.
LEMMA NextNumber ==
  ASSUME TypeOK, PollInv, poll = "fetch"
  PROVE  /\ FetchNumber \in Nat
         /\ lastBlockNumber = 0 => FetchNumber = latest.number
         /\ lastBlockNumber # 0 => FetchNumber = lastBlockNumber + 1 + Len(batch)
<1> DEFINE numbers == PollNumbers(latest.number)
           first == IF lastBlockNumber = 0 THEN latest.number ELSE lastBlockNumber + 1
           least == CHOOSE n \in numbers : \A m \in numbers : n <= m
<1>1. /\ latest.number \in Nat /\ lastBlockNumber \in Nat /\ Len(batch) \in Nat
      /\ lastBlockNumber # 0 => lastBlockNumber + 1 <= latest.number
      /\ lastBlockNumber = 0 => Len(batch) = 0
  BY DEF TypeOK, PollInv
<1>2. first \in numbers /\ (\A m \in numbers : first <= m) /\ numbers \subseteq Int
  BY <1>1 DEF PollNumbers, SequentialBlockNumbers
<1> HIDE DEF numbers, first
<1>3. least \in numbers /\ \A m \in numbers : least <= m
  BY <1>2
<1> HIDE DEF least
<1>4. least = first
  <2>1. least <= first /\ first <= least /\ least \in Int /\ first \in Int
    BY <1>2, <1>3
  <2> QED
    BY <2>1
<1>5. FetchNumber = first + Len(batch)
  BY <1>4 DEF FetchNumber, numbers, least
<1> QED
  BY <1>1, <1>5 DEF first

\* A counter can be added to.
LEMMA AddKeepsType ==
  ASSUME summary \in [Counters -> Nat], NEW c \in Counters, NEW n \in Nat
  PROVE  /\ Add(c, n) \in [Counters -> Nat]
         /\ Add(c, n)[c] = summary[c] + n
         /\ \A d \in Counters \ {c} : Add(c, n)[d] = summary[d]
  BY DEF Add

\* The chain starts with one block and nothing is known of it.
LEMMA InitFollow == Init => FollowInv
<1> SUFFICES ASSUME Init PROVE FollowInv
  OBVIOUS
<1> DEFINE genesis == [hash |-> 1, txs |-> {}]
<1>1. genesis \in Block
  BY FollowerAssumption DEF Block
<1>2. chain = <<genesis>> /\ chain \in Seq(Block) /\ Len(chain) = 1 /\ chain[1] = genesis
  BY <1>1 DEF Init
<1>3. latest \in [number : 0..MaxMade, block : Block] /\ made \in 1..MaxMade
  BY <1>1, <1>2, FollowerAssumption DEF Init
<1>4. summary \in [Counters -> Nat] /\ Fetches = 0
  BY DEF Init, Counters, Fetches
<1>5. batch \in Seq(Block)
  BY DEF Init
<1>7. /\ lastBlockNumber \in 0..Len(chain) /\ firstNumber \in 0..lastBlockNumber
      /\ seenBlocks \subseteq 1..MaxMade /\ allBlockOrdinal \in Nat
  BY <1>2 DEF Init
<1>8. /\ minute \in BOOLEAN /\ poll \in {"idle", "fetch", "process"}
      /\ feed \subseteq Txs /\ early \subseteq Txs /\ counted \subseteq Txs
      /\ stale \subseteq seenPending /\ seenPending \subseteq Txs
  BY DEF Init
<1>6. TypeOK
  BY <1>2, <1>3, <1>4, <1>5, <1>7, <1>8 DEF TypeOK
<1> QED
  BY <1>2, <1>4, <1>6 DEF FollowInv, Init, ChainInv, PollInv, IdleInv, Contiguous

\* What accepting a batch does to the types and to the accounting, for a batch
\* that continues where the last one ended.
LEMMA AcceptKeepsInv ==
  ASSUME FollowInv, poll = "fetch",
         NEW blocks \in Seq(Block), NEW errs \in Nat,
         lastBlockNumber = 0 => Len(blocks) <= 1,
         lastBlockNumber # 0 => lastBlockNumber + Len(blocks) <= latest.number,
         AcceptBatch(blocks, errs),
         UNCHANGED <<latest, netVars, pendVars, seenBlocks, allBlockOrdinal, counted>>
  PROVE  FollowInv'
<1> USE DEF FollowInv
<1>1. /\ "blockPollErrors" \in Counters /\ "sequentialBlockFetches" \in Counters
      /\ "blockPollErrors" # "sequentialBlockFetches"
      /\ summary \in [Counters -> Nat] /\ Fetches \in Nat
      /\ Fetches = summary["sequentialBlockFetches"]
  BY DEF TypeOK, Counters, Fetches
<1>2. /\ Len(chain) \in Nat /\ Len(blocks) \in Nat /\ lastBlockNumber \in Nat
      /\ firstNumber \in Nat /\ firstNumber <= lastBlockNumber
      /\ latest.number \in 1..Len(chain)
  BY DEF TypeOK, PollInv
<1>3. CASE blocks = <<>>
  <2>1. /\ poll' = "idle" /\ batch' = <<>> /\ lastBlockNumber' = lastBlockNumber
        /\ firstNumber' = firstNumber /\ summary' = Add("blockPollErrors", errs)
    BY <1>3 DEF AcceptBatch
  <2>2. summary' \in [Counters -> Nat] /\ Fetches' = Fetches
    BY <1>1, <2>1, AddKeepsType DEF Fetches
  <2>3. TypeOK'
    BY <2>1, <2>2 DEF TypeOK, netVars, pendVars
  <2>4. Contiguous'
    BY <2>1, <2>2 DEF Contiguous
  <2> QED
    BY <2>1, <2>3, <2>4 DEF PollInv, IdleInv, ChainInv, netVars
<1>4. CASE blocks # <<>>
  <2>1. /\ poll' = "process" /\ batch' = blocks
        /\ lastBlockNumber' = LastProcessed(blocks)
        /\ firstNumber' = IF firstNumber = 0 THEN latest.number ELSE firstNumber
        /\ summary' = [summary EXCEPT !["blockPollErrors"] = @ + errs,
                                      !["sequentialBlockFetches"] = @ + Len(blocks)]
    BY <1>4 DEF AcceptBatch
  <2>2. summary' \in [Counters -> Nat] /\ Fetches' = Fetches + Len(blocks)
    BY <1>1, <1>2, <2>1 DEF Fetches
  <2>3. Len(blocks) >= 1
    BY <1>2, <1>4
  <2>4. /\ lastBlockNumber' \in 1..Len(chain)
        /\ firstNumber' \in 1..lastBlockNumber'
        /\ Fetches' = lastBlockNumber' - firstNumber' + 1
    <3>1. CASE lastBlockNumber = 0
      <4>1. /\ firstNumber = 0 /\ Len(blocks) = 1
            /\ lastBlockNumber' = latest.number /\ firstNumber' = latest.number
        <5>1. firstNumber = 0 /\ Len(blocks) = 1
          <6>1. firstNumber = 0
            BY <3>1, <1>2
          <6>2. Len(blocks) <= 1
            BY <3>1
          <6>3. \A n \in Nat : n <= 1 /\ n >= 1 => n = 1
            OBVIOUS
          <6> QED
            BY <6>1, <6>2, <6>3, <1>2, <2>3
        <5> QED
          BY <3>1, <5>1, <2>1 DEF LastProcessed
      <4>2. Fetches = 0
        BY <4>1 DEF Contiguous
      <4> QED
        BY <4>1, <4>2, <1>2, <2>2
    <3>2. CASE lastBlockNumber # 0
      <4>1. firstNumber # 0 /\ Fetches = lastBlockNumber - firstNumber + 1
        BY <3>2 DEF Contiguous
      <4>2. lastBlockNumber' = lastBlockNumber + Len(blocks) /\ firstNumber' = firstNumber
        BY <3>2, <4>1, <2>1 DEF LastProcessed
      <4> QED
        BY <3>2, <4>1, <4>2, <1>2, <2>2, <2>3
    <3> QED
      BY <3>1, <3>2
  <2>5. TypeOK'
    <3>1. /\ chain' = chain /\ made' = made /\ minute' = minute
          /\ feed' = feed /\ seenPending' = seenPending /\ stale' = stale
          /\ early' = early /\ latest' = latest /\ counted' = counted
          /\ seenBlocks' = seenBlocks /\ allBlockOrdinal' = allBlockOrdinal
      BY DEF netVars, pendVars
    <3>2. lastBlockNumber' \in 0..Len(chain') /\ firstNumber' \in 0..lastBlockNumber'
      BY <3>1, <2>4, <1>2
    <3>3. poll' \in {"idle", "fetch", "process"} /\ batch' \in Seq(Block)
      BY <2>1
    <3> QED
      BY <3>1, <3>2, <3>3, <2>2 DEF TypeOK
  <2>6. Contiguous'
    <3>1. firstNumber' # 0
      BY <2>4
    <3> QED
      BY <3>1, <2>4 DEF Contiguous
  <2> QED
    BY <2>1, <2>5, <2>6 DEF PollInv, IdleInv, ChainInv, netVars
<1> QED
  BY <1>3, <1>4

\* The counters keep their type when a block is counted, and the fetches are
\* not among those that change.
LEMMA CountKeepsType ==
  ASSUME TypeOK, NEW block \in Block, NEW ordinal \in Nat
  PROVE  /\ CountBlock(block, ordinal) \in [Counters -> Nat]
         /\ CountBlock(block, ordinal)["sequentialBlockFetches"]
              = summary["sequentialBlockFetches"]
<1>1. /\ IsFiniteSet(block.txs) /\ IsFiniteSet(block.txs \cap seenPending)
  BY FollowerAssumption, FS_Subset DEF Block
<1>2. /\ Cardinality(block.txs) \in Nat /\ Cardinality(block.txs \cap seenPending) \in Nat
  BY <1>1, FS_CardinalityType
<1>3. summary \in [Counters -> Nat]
  BY DEF TypeOK
<1> QED
  BY <1>2, <1>3 DEF CountBlock, Add, Counters

\* The network, and what leaves poll, chain and fetches alone.
LEMMA NetworkKeepsInv == FollowInv /\ (Network \/ PendingCase) => FollowInv'
<1> SUFFICES ASSUME FollowInv, Network \/ PendingCase PROVE FollowInv'
  OBVIOUS
<1> USE DEF FollowInv
<1>1. /\ Len(chain) \in Nat /\ made \in 1..MaxMade /\ chain \in Seq(Block)
      /\ Len(chain) <= made /\ Len(chain) >= 1
  BY FollowerAssumption DEF TypeOK, ChainInv
<1>2. ASSUME NEW next \in Seq(Block), Len(next) \in Nat,
             chain' = next, Len(next) \in {Len(chain), Len(chain) + 1},
             made < MaxMade, made' = made + 1,
             UNCHANGED <<minute, pollVars, pendVars, runVars>>
      PROVE  FollowInv'
  <2>1. /\ poll' = poll /\ latest' = latest /\ batch' = batch /\ minute' = minute
        /\ feed' = feed /\ seenPending' = seenPending /\ stale' = stale
        /\ early' = early /\ counted' = counted /\ summary' = summary
        /\ lastBlockNumber' = lastBlockNumber /\ firstNumber' = firstNumber
        /\ seenBlocks' = seenBlocks /\ allBlockOrdinal' = allBlockOrdinal
    BY <1>2 DEF pollVars, pendVars, runVars
  <2>2. /\ made' \in 1..MaxMade /\ Len(chain') \in 1..made'
        /\ Len(chain) <= Len(chain')
    <3>1. MaxMade \in Nat /\ made' \in 1..MaxMade
      BY <1>1, <1>2, FollowerAssumption
    <3>2. CASE Len(next) = Len(chain)
      BY <1>1, <1>2, <3>1, <3>2
    <3>3. CASE Len(next) = Len(chain) + 1
      BY <1>1, <1>2, <3>1, <3>3
    <3> QED
      BY <1>2, <3>2, <3>3
  <2>3. lastBlockNumber' \in 0..Len(chain')
    BY <2>1, <2>2, <1>1 DEF TypeOK
  <2>4. TypeOK'
    BY <1>2, <2>1, <2>2, <2>3 DEF TypeOK
  <2>5. PollInv'
    BY <1>1, <2>1, <2>2 DEF PollInv
  <2>6. IdleInv' /\ Contiguous' /\ ChainInv'
    BY <2>1, <2>2 DEF IdleInv, Contiguous, Fetches, ChainInv
  <2> QED
    BY <2>4, <2>5, <2>6
<1>3. CASE Mine
  <2>1. PICK txs \in SUBSET (Txs \ Included) :
          chain' = Append(chain, [hash |-> made + 1, txs |-> txs])
    BY <1>3 DEF Mine
  <2>2. made < MaxMade /\ [hash |-> made + 1, txs |-> txs] \in Block
    BY <1>1, <1>3, FollowerAssumption DEF Mine, Block
  <2>3. chain' \in Seq(Block) /\ Len(chain') = Len(chain) + 1
    BY <1>1, <2>1, <2>2
  <2> QED
    BY <1>1, <1>2, <1>3, <2>2, <2>3 DEF Mine
<1>4. CASE Reorg
  <2>1. PICK txs \in SUBSET Txs :
          chain' = [chain EXCEPT ![Len(chain)] = [hash |-> made + 1, txs |-> txs]]
    BY <1>4 DEF Reorg
  <2>2. made < MaxMade /\ [hash |-> made + 1, txs |-> txs] \in Block
    BY <1>1, <1>4, FollowerAssumption DEF Reorg, Block
  <2>3. chain' \in Seq(Block) /\ Len(chain') = Len(chain)
    BY <1>1, <2>1, <2>2
  <2> QED
    BY <1>1, <1>2, <1>4, <2>2, <2>3 DEF Reorg
<1>5. CASE Announce \/ MinutePasses \/ Age \/ PendingCase
  <2>1. /\ chain' = chain /\ made' = made /\ UNCHANGED <<pollVars, runVars>>
    BY <1>5 DEF Announce, MinutePasses, Age, PendingCase, netVars
  <2>2. /\ poll' = poll /\ latest' = latest /\ batch' = batch
        /\ counted' = counted /\ summary' = summary
        /\ lastBlockNumber' = lastBlockNumber /\ firstNumber' = firstNumber
        /\ seenBlocks' = seenBlocks /\ allBlockOrdinal' = allBlockOrdinal
    BY <2>1 DEF pollVars, runVars
  <2>3. /\ minute' \in BOOLEAN /\ feed' \subseteq Txs /\ early' \subseteq Txs
        /\ stale' \subseteq seenPending' /\ seenPending' \subseteq Txs
    BY <1>5 DEF Announce, MinutePasses, Age, PendingCase, netVars, pendVars, TypeOK
  <2>4. TypeOK'
    BY <2>1, <2>2, <2>3 DEF TypeOK
  <2> QED
    BY <2>1, <2>2, <2>4 DEF PollInv, IdleInv, Contiguous, Fetches, ChainInv
<1> QED
  BY <1>3, <1>4, <1>5 DEF Network

\* Every step keeps the invariant.
LEMMA NextFollow == FollowInv /\ [Next]_vars => FollowInv'
<1> SUFFICES ASSUME FollowInv, [Next]_vars PROVE FollowInv'
  OBVIOUS
<1> USE DEF FollowInv
<1>1. /\ Len(chain) \in Nat /\ lastBlockNumber \in Nat /\ Len(batch) \in Nat
      /\ chain \in Seq(Block) /\ batch \in Seq(Block) /\ Len(chain) \in 1..MaxMade
  BY FollowerAssumption DEF TypeOK, ChainInv
<1>2. CASE Network \/ PendingCase
  BY <1>2, NetworkKeepsInv
<1>3. CASE PollLatestFails
  <2>1. summary' = Add("blockPollErrors", 1)
    BY <1>3 DEF PollLatestFails, RequestFails
  <2>2. summary' \in [Counters -> Nat] /\ Fetches' = Fetches
    BY <2>1, AddKeepsType DEF TypeOK, Counters, Fetches
  <2>3. UNCHANGED <<netVars, pollVars, pendVars, lastBlockNumber, seenBlocks,
                    allBlockOrdinal, firstNumber, counted>>
    BY <1>3 DEF PollLatestFails
  <2>4. TypeOK'
    BY <2>2, <2>3 DEF TypeOK, netVars, pollVars, pendVars
  <2> QED
    BY <2>2, <2>3, <2>4 DEF PollInv, IdleInv, Contiguous, ChainInv, netVars, pollVars
<1>4. CASE PollLatest
  <2>1. PICK n \in {Len(chain) - 1, Len(chain)} \ {0} :
          PollNumbers(n) # {} /\ latest' = [number |-> n, block |-> chain[n]]
    BY <1>4 DEF PollLatest
  <2>2. n \in 1..Len(chain) /\ n \in 0..MaxMade /\ chain[n] \in Block
    <3>1. MaxMade \in Nat /\ Len(chain) >= 1 /\ Len(chain) <= MaxMade
      BY <1>1, FollowerAssumption
    <3>2. n \in 1..Len(chain) /\ n \in 0..MaxMade
      BY <1>1, <3>1
    <3> QED
      BY <1>1, <3>2
  <2>3. lastBlockNumber # 0 => lastBlockNumber + 1 <= n
    BY <1>1, <2>1, <2>2 DEF PollNumbers, SequentialBlockNumbers
  <2>4. /\ poll = "idle" /\ poll' = "fetch" /\ batch' = batch /\ batch = <<>>
        /\ UNCHANGED <<netVars, pendVars, runVars>>
    BY <1>4 DEF PollLatest, IdleInv
  <2>5. TypeOK'
    BY <2>1, <2>2, <2>4 DEF TypeOK, netVars, pendVars, runVars
  <2>6. PollInv'
    BY <2>1, <2>2, <2>3, <2>4, <1>1 DEF PollInv, netVars, runVars
  <2> QED
    BY <2>4, <2>5, <2>6 DEF IdleInv, Contiguous, Fetches, ChainInv, netVars, runVars
<1>5. CASE FetchOld
  <2>1. /\ poll = "fetch" /\ FetchNumber < latest.number
        /\ batch' = Append(batch, chain[FetchNumber])
        /\ UNCHANGED <<poll, latest, netVars, pendVars, runVars>>
    BY <1>5 DEF FetchOld
  <2>2. latest.number \in 1..Len(chain)
    BY <2>1 DEF PollInv
  <2>3. lastBlockNumber # 0 /\ FetchNumber = lastBlockNumber + 1 + Len(batch)
    BY <2>1, <2>2, <1>1, NextNumber
  <2>4. FetchNumber \in 1..Len(chain) /\ chain[FetchNumber] \in Block
    BY <2>1, <2>2, <2>3, <1>1
  <2>5. batch' \in Seq(Block) /\ Len(batch') = Len(batch) + 1
    BY <2>1, <2>4, <1>1
  <2>6. TypeOK'
    BY <2>1, <2>5 DEF TypeOK, netVars, pendVars, runVars
  <2>7. PollInv'
    BY <2>1, <2>2, <2>3, <2>5, <1>1 DEF PollInv, netVars, runVars
  <2> QED
    BY <2>1, <2>6, <2>7 DEF IdleInv, Contiguous, Fetches, ChainInv, netVars, runVars
<1>6. CASE FetchOldFails
  <2>1. poll = "fetch" /\ FetchNumber < latest.number /\ AcceptBatch(batch, 1)
    BY <1>6 DEF FetchOldFails
  <2>2. latest.number \in 1..Len(chain)
    BY <2>1 DEF PollInv
  <2>3. lastBlockNumber # 0
    BY <2>1, <2>2, <1>1, NextNumber
  <2>4. lastBlockNumber + Len(batch) <= latest.number
    BY <2>1, <2>2, <2>3, <1>1 DEF PollInv
  <2> QED
    BY <2>1, <2>3, <2>4, <1>1, <1>6, AcceptKeepsInv DEF FetchOldFails
<1>7. CASE FetchLatest
  <2> DEFINE blocks == Append(batch, latest.block)
  <2>1. poll = "fetch" /\ AcceptBatch(blocks, 0)
    BY <1>7 DEF FetchLatest
  <2>2. /\ latest.number \in 1..Len(chain) /\ latest.block \in Block
        /\ lastBlockNumber = 0 => Len(batch) = 0
        /\ lastBlockNumber # 0 => lastBlockNumber + Len(batch) + 1 <= latest.number
    BY <2>1 DEF PollInv, TypeOK
  <2>3. blocks \in Seq(Block) /\ Len(blocks) = Len(batch) + 1
    BY <2>2, <1>1
  <2> HIDE DEF blocks
  <2>4. /\ lastBlockNumber = 0 => Len(blocks) <= 1
        /\ lastBlockNumber # 0 => lastBlockNumber + Len(blocks) <= latest.number
    BY <2>2, <2>3, <1>1
  <2> QED
    BY <2>1, <2>3, <2>4, <1>7, AcceptKeepsInv DEF FetchLatest
<1>8. CASE ProcessBlock
  <2> DEFINE block == Head(batch)
             ordinal == allBlockOrdinal + 1
  <2>1. /\ poll = "process" /\ batch # <<>> /\ batch' = Tail(batch)
        /\ UNCHANGED <<poll, latest, netVars, pendVars, lastBlockNumber, firstNumber>>
    BY <1>8 DEF ProcessBlock
  <2>2. block \in Block /\ batch' \in Seq(Block) /\ ordinal \in Nat
    BY <2>1, <1>1 DEF TypeOK
  <2>3. /\ CountBlock(block, ordinal) \in [Counters -> Nat]
        /\ CountBlock(block, ordinal)["sequentialBlockFetches"]
             = summary["sequentialBlockFetches"]
    BY <2>2, CountKeepsType
  <2>4. /\ block.hash \in 1..MaxMade /\ block.txs \subseteq Txs
    BY <2>2 DEF Block
  <2>5. \/ UNCHANGED <<seenBlocks, allBlockOrdinal, summary, counted>>
        \/ /\ seenBlocks' = seenBlocks \cup {block.hash}
           /\ allBlockOrdinal' = ordinal
           /\ summary' = CountBlock(block, ordinal)
           /\ \/ counted' = counted
              \/ counted' = counted \cup (block.txs \cap seenPending)
    BY <1>8 DEF ProcessBlock
  <2> HIDE DEF block, ordinal
  <2>6. /\ summary' \in [Counters -> Nat] /\ Fetches' = Fetches
        /\ seenBlocks' \subseteq 1..MaxMade /\ counted' \subseteq Txs
        /\ allBlockOrdinal' \in Nat
    <3>1. CASE UNCHANGED <<seenBlocks, allBlockOrdinal, summary, counted>>
      BY <3>1 DEF TypeOK, Fetches
    <3>2. CASE ~UNCHANGED <<seenBlocks, allBlockOrdinal, summary, counted>>
      BY <3>2, <2>2, <2>3, <2>4, <2>5 DEF TypeOK, Fetches
    <3> QED
      BY <3>1, <3>2
  <2>7. TypeOK'
    BY <2>1, <2>2, <2>6 DEF TypeOK, netVars, pendVars
  <2> QED
    BY <2>1, <2>6, <2>7 DEF PollInv, IdleInv, Contiguous, ChainInv, netVars
<1>9. CASE Prune
  <2>1. /\ poll' = "idle" /\ batch = <<>> /\ stale' = {}
        /\ seenPending' = seenPending \ stale
        /\ UNCHANGED <<latest, batch, netVars, feed, early, runVars>>
    BY <1>9 DEF Prune
  <2>2. TypeOK'
    BY <2>1 DEF TypeOK, netVars, runVars
  <2> QED
    BY <2>1, <2>2 DEF PollInv, IdleInv, Contiguous, Fetches, ChainInv, netVars, runVars
<1>10. CASE UNCHANGED vars
  BY <1>10 DEF vars, netVars, pollVars, pendVars, runVars, TypeOK, PollInv,
               IdleInv, Contiguous, Fetches, ChainInv
<1> QED
  BY <1>2, <1>3, <1>4, <1>5, <1>6, <1>7, <1>8, <1>9, <1>10 DEF Next, Loop

\* The invariant holds in every run of the follower.
LEMMA SpecFollow == Spec => []FollowInv
  BY InitFollow, NextFollow, PTL DEF Spec

\* The types hold, for any set of transactions and any chain.
THEOREM FollowerTypes == Spec => []TypeOK
<1>1. FollowInv => TypeOK
  BY DEF FollowInv
<1> QED
  BY <1>1, SpecFollow, PTL

\* Sequential accounting holds through failed requests, a lagging provider and
\* reorganisations.
THEOREM SequentialAccounting == Spec => []Contiguous
<1>1. FollowInv => Contiguous
  BY DEF FollowInv
<1> QED
  BY <1>1, SpecFollow, PTL

-----------------------------------------------------------------------------
(* The warm-up and the rates.                                              *)

CountsOfBlocks == {"warmupSkippedBlocks", "blocksObserved",
                   "includedTransactions", "includedSeenPending"}

\* Once a block was observed the warm-up is over on both counts.
WarmInv ==
  summary["blocksObserved"] > 0 => minute /\ allBlockOrdinal > WarmupBlocks

\* Only the processing of a block changes what is said of blocks.
LEMMA OnlyProcessCounts ==
  ASSUME TypeOK, [Next]_vars, ~ProcessBlock
  PROVE  /\ \A c \in CountsOfBlocks : summary'[c] = summary[c]
         /\ allBlockOrdinal' = allBlockOrdinal
         /\ minute => minute'
<1>1. summary \in [Counters -> Nat]
  BY DEF TypeOK
<1>2. \/ summary' = summary
      \/ \E n : summary' = Add("blockPollErrors", n)
      \/ \E m, n : summary' = [summary EXCEPT !["blockPollErrors"] = m,
                                              !["sequentialBlockFetches"] = n]
  BY DEF Next, Network, Loop, vars, runVars, Mine, Reorg, Announce, MinutePasses,
         Age, PendingCase, PollLatestFails, RequestFails, PollLatest, FetchOld,
         FetchOldFails, FetchLatest, AcceptBatch, Prune
<1>3. \A c \in CountsOfBlocks : summary'[c] = summary[c]
  BY <1>1, <1>2 DEF Add, Counters, CountsOfBlocks
<1>4. allBlockOrdinal' = allBlockOrdinal
  BY DEF Next, Network, Loop, vars, runVars, Mine, Reorg, Announce, MinutePasses,
         Age, PendingCase, PollLatestFails, PollLatest, FetchOld, FetchOldFails,
         FetchLatest, Prune
<1>5. minute => minute'
  BY DEF Next, Network, Loop, vars, netVars, Mine, Reorg, Announce, MinutePasses,
         Age, PendingCase, PollLatestFails, PollLatest, FetchOld, FetchOldFails,
         FetchLatest, Prune
<1> QED
  BY <1>3, <1>4, <1>5

\* What the processing of a block does to the counters.
LEMMA ProcessCounts ==
  ASSUME TypeOK, ProcessBlock
  PROVE  /\ minute' = minute
         /\ \/ UNCHANGED <<summary, allBlockOrdinal>>
            \/ \E block \in Block :
                 /\ allBlockOrdinal' = allBlockOrdinal + 1
                 /\ summary' = CountBlock(block, allBlockOrdinal + 1)
<1>1. Head(batch) \in Block
  BY DEF ProcessBlock, TypeOK
<1> QED
  BY <1>1 DEF ProcessBlock, netVars

\* The end of the warm-up is kept by every step, and no step skips a block
\* after it.
LEMMA NextWarm ==
  TypeOK /\ WarmInv /\ [Next]_vars =>
    /\ WarmInv'
    /\ summary["blocksObserved"] > 0 =>
         summary'["warmupSkippedBlocks"] = summary["warmupSkippedBlocks"]
<1> SUFFICES ASSUME TypeOK, WarmInv, [Next]_vars
             PROVE  /\ WarmInv'
                    /\ summary["blocksObserved"] > 0 =>
                         summary'["warmupSkippedBlocks"] = summary["warmupSkippedBlocks"]
  OBVIOUS
<1>1. /\ summary \in [Counters -> Nat] /\ allBlockOrdinal \in Nat
      /\ WarmupBlocks \in Nat
  BY FollowerAssumption DEF TypeOK
<1>2. CASE ~ProcessBlock
  BY <1>2, OnlyProcessCounts DEF WarmInv, CountsOfBlocks
<1>3. CASE ProcessBlock /\ UNCHANGED <<summary, allBlockOrdinal>>
  BY <1>3, ProcessCounts DEF WarmInv
<1>4. ASSUME NEW block \in Block, minute' = minute,
             allBlockOrdinal' = allBlockOrdinal + 1,
             summary' = CountBlock(block, allBlockOrdinal + 1)
      PROVE  /\ WarmInv'
             /\ summary["blocksObserved"] > 0 =>
                  summary'["warmupSkippedBlocks"] = summary["warmupSkippedBlocks"]
  <2>1. CASE SkipWarmup(allBlockOrdinal + 1)
    <3>1. summary' = Add("warmupSkippedBlocks", 1)
      BY <1>4, <2>1 DEF CountBlock
    <3>2. summary'["blocksObserved"] = summary["blocksObserved"]
      BY <1>1, <3>1 DEF Add, Counters
    <3>3. ~(summary["blocksObserved"] > 0)
      BY <1>1, <2>1 DEF SkipWarmup, WarmInv
    <3> QED
      BY <3>2, <3>3 DEF WarmInv
  <2>2. CASE ~SkipWarmup(allBlockOrdinal + 1)
    <3>1. minute /\ allBlockOrdinal + 1 > WarmupBlocks
      BY <1>1, <2>2 DEF SkipWarmup
    <3>2. summary'["warmupSkippedBlocks"] = summary["warmupSkippedBlocks"]
      BY <1>1, <1>4, <2>2 DEF CountBlock, Counters
    <3> QED
      BY <1>4, <3>1, <3>2 DEF WarmInv
  <2> QED
    BY <2>1, <2>2
<1> QED
  BY <1>2, <1>3, <1>4, ProcessCounts

\* The warm-up is a prefix of the run, for any length of it.
THEOREM WarmupPrefix == Spec => WarmupIsPrefix
<1>1. Init => WarmInv
  BY DEF Init, WarmInv, Counters
<1>2. TypeOK /\ WarmInv /\ [Next]_vars => WarmInv'
  BY NextWarm
<1>3. TypeOK /\ WarmInv /\ [Next]_vars =>
        [summary["blocksObserved"] > 0 =>
           summary'["warmupSkippedBlocks"] = summary["warmupSkippedBlocks"]]_vars
  BY NextWarm
<1> QED
  BY <1>1, <1>2, <1>3, FollowerTypes, PTL DEF Spec, WarmupIsPrefix

-----------------------------------------------------------------------------
(* Every block is accounted for once.                                      *)
(*                                                                         *)
(* Hashes number the blocks in the order they are made, so they rise along *)
(* the chain, and a reorganisation only replaces the newest block by one   *)
(* made later.  What a poll has in hand was made after all that was seen:  *)
(* that is why the guard on seenBlocks never drops a block.                *)

RisingInv ==
  /\ \A i, j \in 1..Len(chain) : i < j => chain[i].hash < chain[j].hash
  /\ \A i \in 1..Len(chain) : chain[i].hash <= made

\* No block seen was made after the one processed last.
SeenInv ==
  \A h \in seenBlocks : lastBlockNumber # 0 /\ h <= chain[lastBlockNumber].hash

\* The blocks below the one called latest do not change any more.
FetchInv ==
  poll = "fetch" =>
    /\ latest.block.hash <= chain[latest.number].hash
    /\ \A n \in 1..(latest.number - 1) : chain[n].hash < latest.block.hash
    /\ \A i \in 1..Len(batch) : batch[i] = chain[lastBlockNumber + i]

\* Blocks that can be processed as those up to the number top: each was made
\* after those before it and after all that were seen.
Fresh(blocks, top) ==
  /\ top \in 1..Len(chain)
  /\ \A i, j \in 1..Len(blocks) : i < j => blocks[i].hash < blocks[j].hash
  /\ \A i \in 1..Len(blocks) :
       /\ blocks[i].hash <= chain[top].hash
       /\ \A h \in seenBlocks : h < blocks[i].hash

HandInv == poll = "process" => Fresh(batch, lastBlockNumber)

CountInv ==
  /\ IsFiniteSet(seenBlocks)
  /\ allBlockOrdinal = Cardinality(seenBlocks)
  /\ allBlockOrdinal = summary["warmupSkippedBlocks"] + summary["blocksObserved"]
  /\ Fetches = IF poll = "fetch" THEN allBlockOrdinal ELSE allBlockOrdinal + Len(batch)

OnceInv == RisingInv /\ SeenInv /\ FetchInv /\ HandInv /\ CountInv

\* Hashes are numbers, those of the chain among them.
LEMMA BlockHash == \A block \in Block : block.hash \in 1..MaxMade /\ block.hash \in Nat
  BY FollowerAssumption DEF Block

LEMMA ChainHashes ==
  ASSUME TypeOK
  PROVE  /\ \A i \in 1..Len(chain) : chain[i].hash \in 1..MaxMade
         /\ Len(chain) \in Nat /\ lastBlockNumber \in 0..Len(chain)
         /\ MaxMade \in Nat /\ made \in Nat
         /\ seenBlocks \subseteq Nat
<1>1. MaxMade \in Nat /\ chain \in Seq(Block) /\ made \in 1..MaxMade
  BY FollowerAssumption DEF TypeOK
<1>2. Len(chain) \in Nat /\ \A i \in 1..Len(chain) : chain[i] \in Block
  BY <1>1
<1> QED
  BY <1>1, <1>2, BlockHash DEF TypeOK

LEMMA InitOnce == Init => OnceInv
<1> SUFFICES ASSUME Init PROVE OnceInv
  OBVIOUS
<1>1. Len(chain) = 1 /\ chain[1].hash = 1 /\ made = 1 /\ poll = "idle" /\ seenBlocks = {}
  BY DEF Init
<1>2. RisingInv
  <2>1. \A i \in 1..Len(chain) : i = 1
    BY <1>1
  <2> QED
    BY <1>1, <2>1 DEF RisingInv
<1>3. IsFiniteSet(seenBlocks) /\ Cardinality(seenBlocks) = 0
  BY <1>1, FS_EmptySet
<1>4. CountInv
  BY <1>1, <1>3 DEF CountInv, Init, Fetches, Counters
<1> QED
  BY <1>1, <1>2, <1>4 DEF OnceInv, SeenInv, FetchInv, HandInv

\* A chain that grows, or gets a later block in the place of its newest one,
\* leaves all that the run has and knows of it as it was.
LEMMA GrowthKeepsOnce ==
  ASSUME FollowInv, OnceInv, Len(chain') \in Nat, Len(chain') >= Len(chain),
         \A i \in 1..(Len(chain) - 1) : chain'[i] = chain[i],
         \A i \in 1..Len(chain) : chain'[i].hash \in Nat /\ chain[i].hash <= chain'[i].hash,
         RisingInv', UNCHANGED <<minute, pollVars, pendVars, runVars>>
  PROVE  OnceInv'
<1>1. /\ poll' = poll /\ latest' = latest /\ batch' = batch /\ summary' = summary
      /\ lastBlockNumber' = lastBlockNumber /\ seenBlocks' = seenBlocks
      /\ allBlockOrdinal' = allBlockOrdinal
  BY DEF pollVars, runVars
<1>2. /\ \A i \in 1..Len(chain) : chain[i].hash \in Nat
      /\ Len(chain) \in Nat /\ lastBlockNumber \in 0..Len(chain)
  BY ChainHashes DEF FollowInv
<1>3. seenBlocks \subseteq Nat /\ batch \in Seq(Block) /\ Len(batch) \in Nat
  BY FollowerAssumption DEF FollowInv, TypeOK
<1>4. SeenInv'
  BY <1>1, <1>2, <1>3 DEF OnceInv, SeenInv
<1>5. FetchInv'
  <2> SUFFICES ASSUME poll = "fetch" PROVE FetchInv'
    BY <1>1 DEF FetchInv
  <2>1. /\ latest.number \in 1..Len(chain) /\ latest.block.hash \in Nat
        /\ lastBlockNumber = 0 => batch = <<>>
        /\ lastBlockNumber # 0 => lastBlockNumber + Len(batch) + 1 <= latest.number
    BY FollowerAssumption DEF FollowInv, PollInv, TypeOK, Block
  <2>2. /\ latest.block.hash <= chain[latest.number].hash
        /\ \A n \in 1..(latest.number - 1) : chain[n].hash < latest.block.hash
        /\ \A i \in 1..Len(batch) : batch[i] = chain[lastBlockNumber + i]
    BY DEF OnceInv, FetchInv
  <2>3. latest.block.hash <= chain'[latest.number].hash
    BY <1>2, <2>1, <2>2
  <2>4. \A n \in 1..(latest.number - 1) : chain'[n] = chain[n]
    BY <1>2, <2>1
  <2>5. \A i \in 1..Len(batch) : lastBlockNumber + i \in 1..(latest.number - 1)
    <3>1. CASE lastBlockNumber = 0
      BY <2>1, <3>1
    <3>2. CASE lastBlockNumber # 0
      BY <1>2, <1>3, <2>1, <3>2
    <3> QED
      BY <3>1, <3>2
  <2> QED
    BY <1>1, <2>2, <2>3, <2>4, <2>5 DEF FetchInv
<1>6. HandInv'
  <2> SUFFICES ASSUME poll = "process" PROVE Fresh(batch, lastBlockNumber)'
    BY <1>1 DEF HandInv
  <2>1. Fresh(batch, lastBlockNumber)
    BY DEF OnceInv, HandInv
  <2>2. \A i \in 1..Len(batch) : batch[i].hash \in Nat
    <3>1. \A i \in 1..Len(batch) : batch[i] \in Block
      BY <1>3
    <3> QED
      BY <3>1, BlockHash
  <2>3. \A i \in 1..Len(batch) : batch[i].hash <= chain'[lastBlockNumber].hash
    BY <1>2, <2>1, <2>2 DEF Fresh
  <2> QED
    BY <1>1, <1>2, <2>1, <2>3 DEF Fresh
<1>7. CountInv'
  BY <1>1 DEF OnceInv, CountInv, Fetches
<1> QED
  BY <1>4, <1>5, <1>6, <1>7 DEF OnceInv

LEMMA MineKeepsOnce == FollowInv /\ OnceInv /\ Mine => OnceInv'
<1> SUFFICES ASSUME FollowInv, OnceInv, Mine PROVE OnceInv'
  OBVIOUS
<1>1. PICK txs : chain' = Append(chain, [hash |-> made + 1, txs |-> txs])
  BY DEF Mine
<1>2. /\ \A i \in 1..Len(chain) : chain[i].hash \in Nat
      /\ chain \in Seq(Block) /\ Len(chain) \in Nat /\ made \in Nat /\ made' = made + 1
  BY ChainHashes DEF FollowInv, TypeOK, Mine
<1>3. /\ Len(chain') = Len(chain) + 1
      /\ \A i \in 1..Len(chain) : chain'[i] = chain[i]
      /\ chain'[Len(chain) + 1].hash = made + 1
  BY <1>1, <1>2
<1>4. /\ \A i, j \in 1..Len(chain) : i < j => chain[i].hash < chain[j].hash
      /\ \A i \in 1..Len(chain) : chain[i].hash <= made
  BY DEF OnceInv, RisingInv
<1>5. RisingInv'
  <2>1. \A i \in 1..Len(chain') : i \in 1..Len(chain) \/ i = Len(chain) + 1
    BY <1>2, <1>3
  <2>2. \A i \in 1..Len(chain') : chain'[i].hash <= made'
    BY <1>2, <1>3, <1>4, <2>1
  <2>3. ASSUME NEW i \in 1..Len(chain'), NEW j \in 1..Len(chain'), i < j
        PROVE  chain'[i].hash < chain'[j].hash
    <3>1. i \in 1..Len(chain)
      BY <1>2, <1>3, <2>3
    <3>2. CASE j \in 1..Len(chain)
      BY <1>3, <1>4, <2>3, <3>1, <3>2
    <3>3. CASE j = Len(chain) + 1
      BY <1>2, <1>3, <1>4, <3>1, <3>3
    <3> QED
      BY <2>1, <3>2, <3>3
  <2> QED
    BY <2>2, <2>3 DEF RisingInv
<1> QED
  BY <1>2, <1>3, <1>5, GrowthKeepsOnce DEF Mine

LEMMA ReorgKeepsOnce == FollowInv /\ OnceInv /\ Reorg => OnceInv'
<1> SUFFICES ASSUME FollowInv, OnceInv, Reorg PROVE OnceInv'
  OBVIOUS
<1>1. PICK txs : chain' = [chain EXCEPT ![Len(chain)] = [hash |-> made + 1, txs |-> txs]]
  BY DEF Reorg
<1>2. /\ \A i \in 1..Len(chain) : chain[i].hash \in Nat
      /\ chain \in Seq(Block) /\ Len(chain) \in Nat /\ made \in Nat /\ made' = made + 1
  BY ChainHashes DEF FollowInv, TypeOK, Reorg
<1>3. Len(chain) >= 1
  BY <1>2, ChainHashes DEF FollowInv, ChainInv
<1>4. /\ Len(chain') = Len(chain)
      /\ \A i \in 1..(Len(chain) - 1) : chain'[i] = chain[i]
      /\ chain'[Len(chain)].hash = made + 1
  BY <1>1, <1>2, <1>3
<1>5. /\ \A i, j \in 1..Len(chain) : i < j => chain[i].hash < chain[j].hash
      /\ \A i \in 1..Len(chain) : chain[i].hash <= made
  BY DEF OnceInv, RisingInv
<1>6. \A i \in 1..Len(chain) : i \in 1..(Len(chain) - 1) \/ i = Len(chain)
  BY <1>2
<1>7. \A i \in 1..Len(chain) : chain'[i].hash \in Nat /\ chain[i].hash <= chain'[i].hash
  BY <1>2, <1>4, <1>5, <1>6
<1>8. RisingInv'
  <2>1. \A i \in 1..Len(chain') : chain'[i].hash <= made'
    BY <1>2, <1>4, <1>5, <1>6
  <2>2. ASSUME NEW i \in 1..Len(chain'), NEW j \in 1..Len(chain'), i < j
        PROVE  chain'[i].hash < chain'[j].hash
    <3>1. i \in 1..(Len(chain) - 1) /\ i \in 1..Len(chain) /\ j \in 1..Len(chain)
      BY <1>2, <1>4, <2>2
    <3>2. CASE j \in 1..(Len(chain) - 1)
      BY <1>4, <1>5, <2>2, <3>1, <3>2
    <3>3. CASE j = Len(chain)
      BY <1>2, <1>4, <1>5, <3>1, <3>3
    <3> QED
      BY <1>6, <3>1, <3>2, <3>3
  <2> QED
    BY <2>1, <2>2 DEF RisingInv
<1> QED
  BY <1>2, <1>4, <1>7, <1>8, GrowthKeepsOnce DEF Reorg

\* A batch that can be processed is accepted without a change to what was
\* counted.
LEMMA AcceptKeepsOnce ==
  ASSUME FollowInv, OnceInv, poll = "fetch",
         NEW blocks \in Seq(Block), NEW errs \in Nat, AcceptBatch(blocks, errs),
         blocks # <<>> => Fresh(blocks, LastProcessed(blocks)),
         UNCHANGED <<latest, netVars, pendVars, seenBlocks, allBlockOrdinal, counted>>
  PROVE  OnceInv'
<1>1. /\ chain' = chain /\ made' = made /\ seenBlocks' = seenBlocks
      /\ allBlockOrdinal' = allBlockOrdinal
  BY DEF netVars
<1>2. RisingInv'
  BY <1>1 DEF OnceInv, RisingInv
<1>3. /\ summary \in [Counters -> Nat] /\ allBlockOrdinal \in Nat
      /\ Fetches = allBlockOrdinal /\ Len(blocks) \in Nat
      /\ allBlockOrdinal = summary["warmupSkippedBlocks"] + summary["blocksObserved"]
      /\ IsFiniteSet(seenBlocks) /\ allBlockOrdinal = Cardinality(seenBlocks)
  BY DEF FollowInv, TypeOK, OnceInv, CountInv
<1>4. CASE blocks = <<>>
  <2>1. /\ poll' = "idle" /\ batch' = <<>> /\ lastBlockNumber' = lastBlockNumber
        /\ summary' = Add("blockPollErrors", errs)
    BY <1>4 DEF AcceptBatch
  <2>2. CountInv'
    BY <1>1, <1>3, <2>1 DEF CountInv, Fetches, Add, Counters
  <2> QED
    BY <1>1, <1>2, <2>1, <2>2 DEF OnceInv, SeenInv, FetchInv, HandInv
<1>5. CASE blocks # <<>>
  <2>1. /\ poll' = "process" /\ batch' = blocks
        /\ lastBlockNumber' = LastProcessed(blocks)
        /\ summary' = [summary EXCEPT !["blockPollErrors"] = @ + errs,
                                      !["sequentialBlockFetches"] = @ + Len(blocks)]
    BY <1>5 DEF AcceptBatch
  <2>2. CountInv'
    BY <1>1, <1>3, <2>1 DEF CountInv, Fetches, Counters
  <2>3. HandInv'
    BY <1>1, <1>5, <2>1 DEF HandInv, Fresh
  <2>4. SeenInv'
    <3>1. Fresh(blocks, lastBlockNumber') /\ lastBlockNumber' \in 1..Len(chain)
      BY <1>5, <2>1 DEF Fresh
    <3>2. 1 \in 1..Len(blocks) /\ blocks[1].hash \in Nat
      <4>1. Len(blocks) # 0
        BY <1>5
      <4>2. 1 \in 1..Len(blocks)
        BY <4>1, <1>3
      <4> QED
        BY <4>2, BlockHash
    <3>3. /\ chain[lastBlockNumber'].hash \in Nat /\ seenBlocks \subseteq Nat
      BY <3>1, ChainHashes, FollowerAssumption DEF FollowInv, TypeOK
    <3>4. /\ blocks[1].hash <= chain[lastBlockNumber'].hash
          /\ \A h \in seenBlocks : h < blocks[1].hash
      BY <3>1, <3>2 DEF Fresh
    <3>5. \A h \in seenBlocks : h <= chain[lastBlockNumber'].hash
      BY <3>2, <3>3, <3>4
    <3> QED
      BY <1>1, <3>1, <3>5 DEF SeenInv
  <2> QED
    BY <1>2, <2>1, <2>2, <2>3, <2>4 DEF OnceInv, FetchInv
<1> QED
  BY <1>4, <1>5

\* The blocks fetched so far can be processed, with or without the latest.
LEMMA FetchedFresh ==
  ASSUME FollowInv, OnceInv, poll = "fetch"
  PROVE  /\ lastBlockNumber # 0 /\ batch # <<>> => Fresh(batch, LastProcessed(batch))
         /\ FetchNumber >= latest.number =>
              Fresh(Append(batch, latest.block), LastProcessed(Append(batch, latest.block)))
<1> DEFINE last == lastBlockNumber
           newest == latest.block
           blocks == Append(batch, newest)
<1>1. /\ latest.number \in 1..Len(chain) /\ newest \in Block /\ newest.hash \in Nat
      /\ last = 0 => Len(batch) = 0
      /\ last # 0 => last + Len(batch) + 1 <= latest.number
      /\ batch \in Seq(Block) /\ Len(batch) \in Nat
  BY BlockHash DEF FollowInv, PollInv, TypeOK
<1>2. /\ \A i \in 1..Len(chain) : chain[i].hash \in Nat
      /\ Len(chain) \in Nat /\ last \in 0..Len(chain) /\ seenBlocks \subseteq Nat
  BY ChainHashes DEF FollowInv
<1>3. /\ \A i, j \in 1..Len(chain) : i < j => chain[i].hash < chain[j].hash
      /\ \A h \in seenBlocks : last # 0 /\ h <= chain[last].hash
      /\ newest.hash <= chain[latest.number].hash
      /\ \A n \in 1..(latest.number - 1) : chain[n].hash < newest.hash
      /\ \A i \in 1..Len(batch) : batch[i] = chain[last + i]
  BY DEF OnceInv, RisingInv, SeenInv, FetchInv
<1>4. ASSUME last # 0
      PROVE  /\ \A i \in 1..Len(batch) : last + i \in 1..(latest.number - 1)
             /\ \A i \in 1..Len(batch) : last + i \in 1..Len(chain)
             /\ last \in 1..Len(chain) /\ last \in 1..(latest.number - 1)
  BY <1>1, <1>2, <1>4
<1>5. \A i, j \in 1..Len(batch) : i < j => batch[i].hash < batch[j].hash
  <2>1. CASE last = 0
    BY <1>1, <2>1
  <2>2. CASE last # 0
    <3> SUFFICES ASSUME NEW i \in 1..Len(batch), NEW j \in 1..Len(batch), i < j
                 PROVE  batch[i].hash < batch[j].hash
      OBVIOUS
    <3>1. last + i \in 1..Len(chain) /\ last + j \in 1..Len(chain) /\ last + i < last + j
      BY <1>1, <1>2, <1>4, <2>2
    <3> QED
      BY <3>1, <1>3
  <2> QED
    BY <2>1, <2>2
<1>6. \A i \in 1..Len(batch) : \A h \in seenBlocks : h < batch[i].hash
  <2> SUFFICES ASSUME NEW i \in 1..Len(batch), NEW h \in seenBlocks
               PROVE  h < batch[i].hash
    OBVIOUS
  <2>1. last # 0 /\ h <= chain[last].hash /\ h \in Nat
    BY <1>2, <1>3
  <2>2. last \in 1..Len(chain) /\ last + i \in 1..Len(chain) /\ last < last + i
    BY <1>2, <1>4, <2>1
  <2>3. chain[last].hash < batch[i].hash
    BY <1>3, <2>2
  <2>4. chain[last].hash \in Nat /\ batch[i].hash \in Nat
    <3>1. batch[i] \in Block
      BY <1>1
    <3> QED
      BY <1>2, <2>2, <3>1, BlockHash
  <2> QED
    BY <2>1, <2>3, <2>4
<1>7. ASSUME last # 0, batch # <<>> PROVE Fresh(batch, LastProcessed(batch))
  <2> DEFINE top == last + Len(batch)
  <2>1. LastProcessed(batch) = top
    BY <1>7 DEF LastProcessed
  <2>2. top \in 1..Len(chain)
    BY <1>1, <1>2, <1>7
  <2>3. \A i \in 1..Len(batch) : batch[i].hash <= chain[top].hash
    <3> SUFFICES ASSUME NEW i \in 1..Len(batch) PROVE batch[i].hash <= chain[top].hash
      OBVIOUS
    <3>1. last + i \in 1..Len(chain) /\ batch[i] = chain[last + i]
      BY <1>3, <1>4, <1>7
    <3>2. CASE i = Len(batch)
      BY <1>2, <2>2, <3>1, <3>2
    <3>3. CASE i # Len(batch)
      <4>1. last + i < top
        BY <1>1, <1>2, <3>3
      <4> QED
        BY <1>2, <1>3, <2>2, <3>1, <4>1
    <3> QED
      BY <3>2, <3>3
  <2> QED
    BY <1>5, <1>6, <2>1, <2>2, <2>3 DEF Fresh
<1>8. ASSUME FetchNumber >= latest.number PROVE Fresh(blocks, LastProcessed(blocks))
  <2>1. LastProcessed(blocks) = latest.number
    <3>1. CASE last = 0
      BY <3>1 DEF LastProcessed
    <3>2. CASE last # 0
      <4>1. last + 1 + Len(batch) >= latest.number
        BY <1>8, <3>2, NextNumber DEF FollowInv
      <4>2. last + Len(batch) + 1 = latest.number
        <5>1. last + Len(batch) + 1 <= latest.number /\ latest.number \in Nat
          BY <1>1, <3>2
        <5>2. last \in Nat /\ Len(batch) \in Nat
          BY <1>1, <1>2
        <5> QED
          BY <4>1, <5>1, <5>2
      <4>3. Len(blocks) = Len(batch) + 1
        BY <1>1
      <4> QED
        BY <1>1, <1>2, <3>2, <4>2, <4>3 DEF LastProcessed
    <3> QED
      BY <3>1, <3>2
  <2>2. /\ Len(blocks) = Len(batch) + 1 /\ blocks[Len(batch) + 1] = newest
        /\ \A i \in 1..Len(batch) : blocks[i] = batch[i]
    BY <1>1
  <2>3. \A i \in 1..Len(blocks) : i \in 1..Len(batch) \/ i = Len(batch) + 1
    BY <1>1, <2>2
  <2>4. \A i \in 1..Len(batch) : /\ batch[i].hash < newest.hash
                                 /\ batch[i].hash \in Nat
    <3> SUFFICES ASSUME NEW i \in 1..Len(batch)
                 PROVE  batch[i].hash < newest.hash /\ batch[i].hash \in Nat
      OBVIOUS
    <3>1. last # 0
      BY <1>1
    <3> QED
      BY <1>2, <1>3, <1>4, <3>1
  <2>5. \A i \in 1..Len(blocks) : blocks[i].hash <= chain[latest.number].hash
    BY <1>1, <1>2, <1>3, <2>2, <2>3, <2>4
  <2>6. \A h \in seenBlocks : h < newest.hash
    <3> SUFFICES ASSUME NEW h \in seenBlocks PROVE h < newest.hash
      OBVIOUS
    <3>1. last # 0 /\ h <= chain[last].hash /\ h \in Nat
      BY <1>2, <1>3
    <3>2. last \in 1..Len(chain) /\ chain[last].hash < newest.hash
      BY <1>3, <1>4, <3>1
    <3> QED
      BY <1>1, <1>2, <3>1, <3>2
  <2>7. \A i \in 1..Len(blocks) : \A h \in seenBlocks : h < blocks[i].hash
    BY <1>6, <2>2, <2>3, <2>6
  <2>8. \A i, j \in 1..Len(blocks) : i < j => blocks[i].hash < blocks[j].hash
    <3> SUFFICES ASSUME NEW i \in 1..Len(blocks), NEW j \in 1..Len(blocks), i < j
                 PROVE  blocks[i].hash < blocks[j].hash
      OBVIOUS
    <3>1. i \in 1..Len(batch)
      BY <1>1, <2>2
    <3>2. CASE j \in 1..Len(batch)
      BY <1>5, <2>2, <3>1, <3>2
    <3>3. CASE j = Len(batch) + 1
      BY <2>2, <2>4, <3>1, <3>3
    <3> QED
      BY <2>3, <3>2, <3>3
  <2> HIDE DEF blocks
  <2> QED
    BY <1>1, <2>1, <2>5, <2>7, <2>8 DEF Fresh
<1> QED
  BY <1>7, <1>8

\* The block processed next was not seen, so it is counted, on one side of the
\* warm-up or the other.
LEMMA ProcessKeepsOnce == FollowInv /\ OnceInv /\ ProcessBlock => OnceInv'
<1> SUFFICES ASSUME FollowInv, OnceInv, ProcessBlock PROVE OnceInv'
  OBVIOUS
<1> DEFINE block == batch[1]
           ordinal == allBlockOrdinal + 1
<1>1. /\ poll = "process" /\ poll' = poll /\ batch # <<>> /\ batch' = Tail(batch)
      /\ chain' = chain /\ made' = made /\ latest' = latest
      /\ lastBlockNumber' = lastBlockNumber
  BY DEF ProcessBlock, netVars
<1>2. /\ batch \in Seq(Block) /\ summary \in [Counters -> Nat] /\ allBlockOrdinal \in Nat
      /\ seenBlocks \subseteq Nat
  BY ChainHashes DEF FollowInv, TypeOK
<1>3. /\ Len(batch) \in Nat /\ Len(batch) # 0 /\ Head(batch) = block
      /\ Len(Tail(batch)) = Len(batch) - 1
      /\ \A i \in 1..Len(Tail(batch)) : Tail(batch)[i] = batch[i + 1]
  BY <1>1, <1>2
<1>4. /\ lastBlockNumber \in 1..Len(chain)
      /\ \A i, j \in 1..Len(batch) : i < j => batch[i].hash < batch[j].hash
      /\ \A i \in 1..Len(batch) :
           /\ batch[i].hash <= chain[lastBlockNumber].hash
           /\ \A h \in seenBlocks : h < batch[i].hash
  BY <1>1 DEF OnceInv, HandInv, Fresh
<1>5. 1 \in 1..Len(batch) /\ block \in Block /\ block.hash \in Nat
  BY <1>2, <1>3, BlockHash
<1>6. block.hash \notin seenBlocks
  BY <1>2, <1>4, <1>5
<1>7. /\ seenBlocks' = seenBlocks \cup {block.hash} /\ allBlockOrdinal' = ordinal
      /\ summary' = CountBlock(block, ordinal)
  BY <1>3, <1>6 DEF ProcessBlock
<1> HIDE DEF block
<1>8. /\ IsFiniteSet(seenBlocks) /\ allBlockOrdinal = Cardinality(seenBlocks)
      /\ allBlockOrdinal = summary["warmupSkippedBlocks"] + summary["blocksObserved"]
      /\ Fetches = allBlockOrdinal + Len(batch)
  BY <1>1 DEF OnceInv, CountInv
<1>9. IsFiniteSet(seenBlocks') /\ Cardinality(seenBlocks') = allBlockOrdinal'
  BY <1>6, <1>7, <1>8, FS_AddElement
<1>10. summary'["warmupSkippedBlocks"] + summary'["blocksObserved"] = ordinal
  <2>1. /\ summary["warmupSkippedBlocks"] \in Nat /\ summary["blocksObserved"] \in Nat
    BY <1>2 DEF Counters
  <2>2. CASE SkipWarmup(ordinal)
    <3>1. /\ summary'["warmupSkippedBlocks"] = summary["warmupSkippedBlocks"] + 1
          /\ summary'["blocksObserved"] = summary["blocksObserved"]
      BY <1>2, <1>7, <2>2 DEF CountBlock, Add, Counters
    <3> QED
      BY <1>8, <2>1, <3>1
  <2>3. CASE ~SkipWarmup(ordinal)
    <3>1. /\ summary'["warmupSkippedBlocks"] = summary["warmupSkippedBlocks"]
          /\ summary'["blocksObserved"] = summary["blocksObserved"] + 1
      BY <1>2, <1>7, <2>3 DEF CountBlock, Counters
    <3>2. \A a, b \in Nat : a + (b + 1) = (a + b) + 1
      OBVIOUS
    <3> QED
      BY <1>8, <2>1, <3>1, <3>2
  <2> QED
    BY <2>2, <2>3
<1>11. Fetches' = Fetches
  <2>1. TypeOK /\ ordinal \in Nat
    BY <1>2 DEF FollowInv
  <2>2. CountBlock(block, ordinal)["sequentialBlockFetches"]
          = summary["sequentialBlockFetches"]
    BY <1>5, <2>1, CountKeepsType
  <2> QED
    BY <1>7, <2>2 DEF Fetches
<1>12. CountInv'
  <2>1. Fetches' = allBlockOrdinal' + Len(batch')
    BY <1>1, <1>2, <1>3, <1>7, <1>8, <1>11
  <2> QED
    BY <1>1, <1>7, <1>9, <1>10, <2>1 DEF CountInv
<1>13. SeenInv'
  <2>1. block.hash <= chain[lastBlockNumber].hash /\ lastBlockNumber # 0
    BY <1>4, <1>5 DEF block
  <2> QED
    BY <1>1, <1>7, <2>1 DEF OnceInv, SeenInv
<1>14. HandInv'
  <2>1. \A i \in 1..Len(Tail(batch)) :
          /\ i + 1 \in 1..Len(batch) /\ 1 < i + 1
          /\ Tail(batch)[i] = batch[i + 1] /\ batch[i + 1].hash \in Nat
    <3>1. \A i \in 1..Len(batch) : batch[i] \in Block
      BY <1>2
    <3>2. \A i \in 1..Len(Tail(batch)) : i + 1 \in 1..Len(batch) /\ 1 < i + 1
      BY <1>3
    <3> QED
      BY <1>3, <3>1, <3>2, BlockHash
  <2>2. \A i \in 1..Len(Tail(batch)) :
          /\ Tail(batch)[i].hash <= chain[lastBlockNumber].hash
          /\ \A h \in seenBlocks \cup {block.hash} : h < Tail(batch)[i].hash
    BY <1>4, <1>5, <2>1 DEF block
  <2>3. \A i, j \in 1..Len(Tail(batch)) : i < j => Tail(batch)[i].hash < Tail(batch)[j].hash
    <3> SUFFICES ASSUME NEW i \in 1..Len(Tail(batch)), NEW j \in 1..Len(Tail(batch)), i < j
                 PROVE  Tail(batch)[i].hash < Tail(batch)[j].hash
      OBVIOUS
    <3>1. i + 1 \in 1..Len(batch) /\ j + 1 \in 1..Len(batch) /\ i + 1 < j + 1
      BY <1>3, <2>1
    <3> QED
      BY <1>4, <2>1, <3>1
  <2> QED
    BY <1>1, <1>4, <1>7, <2>2, <2>3 DEF HandInv, Fresh
<1> QED
  BY <1>1, <1>12, <1>13, <1>14 DEF OnceInv, RisingInv, FetchInv

\* Every step keeps what makes the accounting exact.
LEMMA NextOnce == FollowInv /\ OnceInv /\ [Next]_vars => OnceInv'
<1> SUFFICES ASSUME FollowInv, OnceInv, [Next]_vars PROVE OnceInv'
  OBVIOUS
<1>1. /\ Len(chain) \in Nat /\ chain \in Seq(Block) /\ batch \in Seq(Block)
      /\ Len(batch) \in Nat /\ latest.block \in Block
      /\ lastBlockNumber \in Nat /\ summary \in [Counters -> Nat]
  BY DEF FollowInv, TypeOK
<1>2. CASE Mine \/ Reorg
  BY <1>2, MineKeepsOnce, ReorgKeepsOnce
<1>3. CASE Announce \/ MinutePasses \/ Age \/ PendingCase \/ UNCHANGED vars
  <2>1. /\ chain' = chain /\ made' = made /\ poll' = poll /\ latest' = latest
        /\ batch' = batch /\ summary' = summary /\ lastBlockNumber' = lastBlockNumber
        /\ seenBlocks' = seenBlocks /\ allBlockOrdinal' = allBlockOrdinal
    BY <1>3 DEF Announce, MinutePasses, Age, PendingCase, vars, netVars, pollVars, runVars
  <2> QED
    BY <2>1 DEF OnceInv, RisingInv, SeenInv, FetchInv, HandInv, Fresh, CountInv, Fetches
<1>4. CASE PollLatestFails
  <2>1. /\ chain' = chain /\ made' = made /\ poll' = poll /\ latest' = latest
        /\ batch' = batch /\ lastBlockNumber' = lastBlockNumber
        /\ seenBlocks' = seenBlocks /\ allBlockOrdinal' = allBlockOrdinal
        /\ summary' = Add("blockPollErrors", 1)
    BY <1>4 DEF PollLatestFails, RequestFails, netVars, pollVars
  <2>2. CountInv'
    BY <1>1, <2>1 DEF OnceInv, CountInv, Fetches, Add, Counters
  <2> QED
    BY <2>1, <2>2 DEF OnceInv, RisingInv, SeenInv, FetchInv, HandInv, Fresh
<1>5. CASE PollLatest
  <2>1. PICK n \in {Len(chain) - 1, Len(chain)} \ {0} :
          PollNumbers(n) # {} /\ latest' = [number |-> n, block |-> chain[n]]
    BY <1>5 DEF PollLatest
  <2>2. /\ poll = "idle" /\ poll' = "fetch" /\ batch' = <<>> /\ batch = <<>>
        /\ UNCHANGED <<netVars, runVars>>
    BY <1>5 DEF PollLatest, FollowInv, IdleInv
  <2>3. n \in 1..Len(chain)
    <3>1. Len(chain) >= 1
      BY <1>1, ChainHashes DEF FollowInv, ChainInv
    <3> QED
      BY <1>1, <2>1, <3>1
  <2>4. FetchInv'
    <3>1. latest'.number = n /\ latest'.block = chain[n] /\ chain' = chain
      BY <2>1, <2>2 DEF netVars
    <3>2. /\ chain[n].hash \in Nat
          /\ \A i, j \in 1..Len(chain) : i < j => chain[i].hash < chain[j].hash
      BY <2>3, ChainHashes DEF FollowInv, OnceInv, RisingInv
    <3>3. \A i \in 1..(n - 1) : i \in 1..Len(chain) /\ i < n
      BY <1>1, <2>3
    <3> QED
      BY <2>2, <2>3, <3>1, <3>2, <3>3 DEF FetchInv
  <2>5. CountInv'
    <3>1. Len(batch) = 0 /\ allBlockOrdinal \in Nat
      BY <2>2 DEF FollowInv, TypeOK
    <3>2. Fetches' = allBlockOrdinal'
      BY <2>2, <3>1 DEF OnceInv, CountInv, Fetches, runVars
    <3> QED
      BY <2>2, <3>2 DEF OnceInv, CountInv, runVars
  <2> QED
    BY <2>2, <2>4, <2>5 DEF OnceInv, RisingInv, SeenInv, HandInv, netVars, runVars
<1>6. CASE FetchOld
  <2>1. /\ poll = "fetch" /\ poll' = poll /\ latest' = latest
        /\ batch' = Append(batch, chain[FetchNumber])
        /\ chain' = chain /\ made' = made /\ lastBlockNumber' = lastBlockNumber
        /\ seenBlocks' = seenBlocks /\ allBlockOrdinal' = allBlockOrdinal
        /\ summary' = summary
    BY <1>6 DEF FetchOld, netVars, runVars
  <2>2. FetchNumber = lastBlockNumber + 1 + Len(batch)
    <3>1. FetchNumber < latest.number /\ latest.number \in Nat
      BY <1>6 DEF FetchOld, FollowInv, TypeOK
    <3> QED
      BY <2>1, <3>1, NextNumber DEF FollowInv
  <2>3. /\ Len(batch') = Len(batch) + 1
        /\ batch'[Len(batch) + 1] = chain[lastBlockNumber + (Len(batch) + 1)]
        /\ \A i \in 1..Len(batch) : batch'[i] = batch[i]
    <3>1. lastBlockNumber + 1 + Len(batch) = lastBlockNumber + (Len(batch) + 1)
      BY <1>1
    <3> QED
      BY <1>1, <2>1, <2>2, <3>1
  <2>4. \A i \in 1..Len(batch') : i \in 1..Len(batch) \/ i = Len(batch) + 1
    BY <1>1, <2>3
  <2>5. \A i \in 1..Len(batch') : batch'[i] = chain[lastBlockNumber + i]
    BY <2>1, <2>3, <2>4 DEF OnceInv, FetchInv
  <2>6. FetchInv'
    BY <2>1, <2>5 DEF OnceInv, FetchInv
  <2> QED
    BY <2>1, <2>6 DEF OnceInv, RisingInv, SeenInv, HandInv, CountInv, Fetches
<1>7. CASE FetchOldFails
  <2>1. poll = "fetch" /\ FetchNumber < latest.number /\ AcceptBatch(batch, 1)
    BY <1>7 DEF FetchOldFails
  <2>2. lastBlockNumber # 0
    BY <2>1, NextNumber DEF FollowInv, TypeOK
  <2> QED
    BY <1>1, <1>7, <2>1, <2>2, FetchedFresh, AcceptKeepsOnce DEF FetchOldFails
<1>8. CASE FetchLatest
  <2> DEFINE blocks == Append(batch, latest.block)
  <2>1. poll = "fetch" /\ FetchNumber >= latest.number /\ AcceptBatch(blocks, 0)
    BY <1>8 DEF FetchLatest
  <2>2. blocks \in Seq(Block) /\ Fresh(blocks, LastProcessed(blocks))
    BY <1>1, <2>1, FetchedFresh
  <2> HIDE DEF blocks
  <2> QED
    BY <1>8, <2>1, <2>2, AcceptKeepsOnce DEF FetchLatest
<1>9. CASE ProcessBlock
  BY <1>9, ProcessKeepsOnce
<1>10. CASE Prune
  <2>1. /\ poll = "process" /\ poll' = "idle" /\ batch = <<>> /\ batch' = <<>>
        /\ UNCHANGED <<netVars, runVars>>
    BY <1>10 DEF Prune
  <2>2. CountInv'
    BY <1>1, <2>1 DEF OnceInv, CountInv, Fetches, runVars
  <2> QED
    BY <2>1, <2>2 DEF OnceInv, RisingInv, SeenInv, FetchInv, HandInv, netVars, runVars
<1> QED
  BY <1>2, <1>3, <1>4, <1>5, <1>6, <1>7, <1>8, <1>9, <1>10 DEF Next, Network, Loop

\* Every block fetched is accounted for exactly once, for any history of the
\* chain, any failures and any length of the warm-up.
THEOREM BlocksOnce == Spec => []BlocksAccounted
<1>1. OnceInv => BlocksAccounted
  BY DEF OnceInv, CountInv, BlocksAccounted
<1> QED
  BY <1>1, InitOnce, NextOnce, SpecFollow, PTL DEF Spec
=============================================================================
