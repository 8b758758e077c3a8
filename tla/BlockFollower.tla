---------------------------- MODULE BlockFollower ----------------------------
(***************************************************************************)
(* The block side of RunMicroBenchmark (internal/live/benchmark.go): every *)
(* tick of blockTicker it asks the provider for the latest block, fetches  *)
(* the numbers it has not seen one by one (fetchSequentialBlocks), and     *)
(* counts which of their transactions it had seen pending.  The pending    *)
(* feed and the blocks are handled by one goroutine, so an announcement    *)
(* waits while a poll is under way; the chain does not.                    *)
(*                                                                         *)
(* A block is its hash and its transactions; hashes are numbered in the    *)
(* order the blocks are made.  The number of a block is its place in chain. *)
(***************************************************************************)
EXTENDS Integers, Sequences, FiniteSets

CONSTANTS
  Txs,           \* transactions
  WarmupBlocks,  \* liveBenchmarkWarmupBlocks
  MaxMade,       \* bound of the model: blocks made, on any fork
  MaxErrors      \* bound of the model: requests for a block that fail

ASSUME FollowerAssumption ==
  /\ IsFiniteSet(Txs)
  /\ WarmupBlocks \in Nat
  /\ MaxMade \in Nat \ {0}
  /\ MaxErrors \in Nat

VARIABLES
  \* the network
  chain,         \* the canonical chain
  made,          \* number of blocks made
  feed,          \* transactions announced and not yet handled
  minute,        \* a minute has passed since the run started
  \* the poll that is under way
  poll,          \* "idle", "fetch" or "process"
  latest,        \* the number and the block the provider called latest
  batch,         \* blocks fetched and not yet processed
  \* the state of the run
  lastBlockNumber, seenBlocks, seenPending,
  stale,         \* the part of seenPending older than the retention
  allBlockOrdinal,
  \* the summary
  summary,
  \* history
  firstNumber,   \* number of the first block processed, 0 if none was
  early,         \* transactions handled as pending when no block had them
  counted        \* transactions counted as seen pending

netVars  == <<chain, made, minute>>
pollVars == <<poll, latest, batch>>
pendVars == <<feed, seenPending, stale, early>>
runVars  == <<lastBlockNumber, seenBlocks, allBlockOrdinal, summary, firstNumber,
              counted>>
vars == <<netVars, pollVars, pendVars, runVars>>

Block == [hash : 1..MaxMade, txs : SUBSET Txs]
Counters == {"sequentialBlockFetches", "blockPollErrors", "warmupSkippedBlocks",
             "blocksObserved", "includedTransactions", "includedSeenPending"}

TypeOK ==
  /\ chain \in Seq(Block) /\ made \in 1..MaxMade /\ minute \in BOOLEAN
  /\ poll \in {"idle", "fetch", "process"}
  /\ latest \in [number : 0..MaxMade, block : Block]
  /\ batch \in Seq(Block)
  /\ feed \subseteq Txs /\ early \subseteq Txs /\ counted \subseteq Txs
  /\ stale \subseteq seenPending /\ seenPending \subseteq Txs
  /\ lastBlockNumber \in 0..Len(chain)
  /\ firstNumber \in 0..lastBlockNumber
  /\ seenBlocks \subseteq 1..MaxMade
  /\ allBlockOrdinal \in Nat
  /\ summary \in [Counters -> Nat]

Included == UNION {chain[n].txs : n \in 1..Len(chain)}
Add(counter, n) == [summary EXCEPT ![counter] = @ + n]

\* The run starts on a chain that has a block already.
Init ==
  /\ chain = <<[hash |-> 1, txs |-> {}]>> /\ made = 1 /\ minute = FALSE
  /\ poll = "idle" /\ latest = [number |-> 0, block |-> chain[1]] /\ batch = <<>>
  /\ feed = {} /\ seenPending = {} /\ stale = {} /\ early = {}
  /\ lastBlockNumber = 0 /\ seenBlocks = {} /\ allBlockOrdinal = 0
  /\ summary = [c \in Counters |-> 0]
  /\ firstNumber = 0 /\ counted = {}

-----------------------------------------------------------------------------
(* The network.                                                            *)

Mine ==
  /\ made < MaxMade
  /\ \E txs \in SUBSET (Txs \ Included) :
       chain' = Append(chain, [hash |-> made + 1, txs |-> txs])
  /\ made' = made + 1
  /\ UNCHANGED <<minute, pollVars, pendVars, runVars>>

\* Another block takes the place of the newest one, whose transactions go back
\* to the pool.
Reorg ==
  /\ made < MaxMade
  /\ LET n    == Len(chain)
         free == Txs \ UNION {chain[i].txs : i \in 1..(n-1)}
     IN  \E txs \in SUBSET free :
           chain' = [chain EXCEPT ![n] = [hash |-> made + 1, txs |-> txs]]
  /\ made' = made + 1
  /\ UNCHANGED <<minute, pollVars, pendVars, runVars>>

\* The provider may announce a transaction at any time, mined or not, and more
\* than once.
Announce ==
  /\ \E tx \in Txs \ feed : feed' = feed \cup {tx}
  /\ UNCHANGED <<netVars, pollVars, seenPending, stale, early, runVars>>

MinutePasses ==
  /\ ~minute /\ minute' = TRUE
  /\ UNCHANGED <<chain, made, pollVars, pendVars, runVars>>

\* Six hours pass since a transaction was observed.
Age ==
  /\ \E tx \in seenPending \ stale : stale' = stale \cup {tx}
  /\ UNCHANGED <<netVars, pollVars, feed, seenPending, early, runVars>>

-----------------------------------------------------------------------------
(* Plausible bugs, each in the place of one definition below.              *)

\* A poll that broke off is recorded as if it had reached the latest block.
BugProcessedLatest(blocks) == latest.number

\* The range starts with the number processed last, ...
BugNumbersFromLast(last, top) == last..top

\* ... or ends before the latest.
BugNumbersToTop(last, top) == (last + 1)..(top - 1)

\* Each failed request lengthens the warm-up.
BugSkipAfterErrors(ordinal) ==
  ordinal <= WarmupBlocks + summary["blockPollErrors"] \/ ~minute
-----------------------------------------------------------------------------
(* The event loop.                                                         *)

\* case raw := <-sub.RawMessages: ObservedAt is the time of handling, and
\* replaces that of an earlier announcement.
PendingCase ==
  /\ poll = "idle"
  /\ \E tx \in feed :
       /\ feed' = feed \ {tx}
       /\ seenPending' = seenPending \cup {tx}
       /\ stale' = stale \ {tx}
       /\ early' = IF tx \in Included THEN early ELSE early \cup {tx}
  /\ UNCHANGED <<netVars, pollVars, runVars>>

RequestFails ==
  /\ summary["blockPollErrors"] < MaxErrors
  /\ summary' = Add("blockPollErrors", 1)

\* case <-blockTicker.C, up to the answer for "latest".  A backend of the
\* provider may lag behind the newest block.
PollLatestFails ==
  /\ poll = "idle"
  /\ RequestFails
  /\ UNCHANGED <<netVars, pollVars, pendVars, lastBlockNumber, seenBlocks,
                 allBlockOrdinal, firstNumber, counted>>

\* The numbers from the one after the last processed to the latest.
SequentialBlockNumbers(last, top) == (last + 1)..top

\* The first poll of a run asks for nothing but the latest block.
PollNumbers(top) ==
  IF lastBlockNumber = 0 THEN {top} ELSE SequentialBlockNumbers(lastBlockNumber, top)

PollLatest ==
  /\ poll = "idle"
  /\ \E n \in {Len(chain) - 1, Len(chain)} \ {0} :
       /\ PollNumbers(n) # {}
       /\ latest' = [number |-> n, block |-> chain[n]]
  /\ poll' = "fetch"
  /\ UNCHANGED <<batch, netVars, pendVars, runVars>>

\* The number fetched next: the numbers of the poll are taken in order.
FetchNumber ==
  (CHOOSE n \in PollNumbers(latest.number) :
     \A m \in PollNumbers(latest.number) : n <= m) + Len(batch)

\* lastProcessed of fetchSequentialBlocks, for the blocks it returns.
LastProcessed(blocks) ==
  IF lastBlockNumber = 0 THEN latest.number ELSE lastBlockNumber + Len(blocks)

\* What RunMicroBenchmark does with the blocks fetchSequentialBlocks returned.
AcceptBatch(blocks, errs) ==
  IF blocks = <<>>
    THEN /\ poll' = "idle" /\ batch' = <<>>
         /\ UNCHANGED <<lastBlockNumber, firstNumber>>
         /\ summary' = Add("blockPollErrors", errs)
    ELSE /\ poll' = "process" /\ batch' = blocks
         /\ lastBlockNumber' = LastProcessed(blocks)
         /\ firstNumber' = IF firstNumber = 0 THEN latest.number ELSE firstNumber
         /\ summary' = [summary EXCEPT !["blockPollErrors"] = @ + errs,
                                       !["sequentialBlockFetches"] = @ + Len(blocks)]

\* One turn of the loop over sequentialBlockNumbers: the last block is the one
\* that was called latest, as it was then.
FetchOld ==
  /\ poll = "fetch" /\ FetchNumber < latest.number
  /\ batch' = Append(batch, chain[FetchNumber])
  /\ UNCHANGED <<poll, latest, netVars, pendVars, runVars>>

FetchOldFails ==
  /\ poll = "fetch" /\ FetchNumber < latest.number
  /\ summary["blockPollErrors"] < MaxErrors
  /\ AcceptBatch(batch, 1)
  /\ UNCHANGED <<latest, netVars, pendVars, seenBlocks, allBlockOrdinal,
                 counted>>

FetchLatest ==
  /\ poll = "fetch" /\ FetchNumber >= latest.number
  /\ AcceptBatch(Append(batch, latest.block), 0)
  /\ UNCHANGED <<latest, netVars, pendVars, seenBlocks, allBlockOrdinal,
                 counted>>

\* shouldSkipWarmupBlock
SkipWarmup(ordinal) == ordinal <= WarmupBlocks \/ ~minute

\* summarizeBlock, and recordVisibilityBlock for a block after the warm-up.
CountBlock(block, ordinal) ==
  IF SkipWarmup(ordinal)
    THEN Add("warmupSkippedBlocks", 1)
    ELSE [summary EXCEPT
           !["blocksObserved"] = @ + 1,
           !["includedTransactions"] = @ + Cardinality(block.txs),
           !["includedSeenPending"] = @ + Cardinality(block.txs \cap seenPending)]

\* One turn of the loop over the blocks.
ProcessBlock ==
  /\ poll = "process" /\ batch # <<>>
  /\ LET block   == Head(batch)
         ordinal == allBlockOrdinal + 1
     IN  IF block.hash \in seenBlocks
           THEN UNCHANGED <<seenBlocks, allBlockOrdinal, summary, counted>>
           ELSE /\ seenBlocks' = seenBlocks \cup {block.hash}
                /\ allBlockOrdinal' = ordinal
                /\ summary' = CountBlock(block, ordinal)
                /\ counted' = IF SkipWarmup(ordinal) THEN counted
                               ELSE counted \cup (block.txs \cap seenPending)
  /\ batch' = Tail(batch)
  /\ UNCHANGED <<poll, latest, netVars, pendVars, lastBlockNumber, firstNumber>>

\* pruneMicroState, after the last block of a batch.
Prune ==
  /\ poll = "process" /\ batch = <<>>
  /\ seenPending' = seenPending \ stale
  /\ stale' = {}
  /\ poll' = "idle"
  /\ UNCHANGED <<latest, batch, netVars, feed, early, runVars>>

Network == Mine \/ Reorg \/ Announce \/ MinutePasses \/ Age

Loop == PollLatest \/ FetchOld \/ FetchLatest \/ ProcessBlock \/ Prune

Next ==
  \/ Network \/ Loop
  \/ PendingCase \/ PollLatestFails \/ FetchOldFails

\* The ticker fires again and again, and the loop gets on with its poll.
Spec == Init /\ [][Next]_vars /\ SF_vars(PollLatest) /\ WF_vars(Loop)

-----------------------------------------------------------------------------
(* Properties.                                                             *)

BlockNumbers == 1..MaxMade
Fetches == summary["sequentialBlockFetches"]

\* "Sequential block accounting": the blocks processed are those of the numbers
\* from the first one to lastBlockNumber, each fetched once, although polls
\* break off half-way, a backend lags and the chain is reorganised in between
\* (fetchSequentialBlocks, sequentialBlockNumbers).
Contiguous ==
  IF firstNumber = 0
    THEN lastBlockNumber = 0 /\ Fetches = 0
    ELSE Fetches = lastBlockNumber - firstNumber + 1

\* Every block that was fetched is accounted for exactly once, as a warm-up
\* block or as an observed one; the guard on seenBlocks never has to drop one.
BlocksAccounted ==
  /\ allBlockOrdinal = Cardinality(seenBlocks)
  /\ allBlockOrdinal = summary["warmupSkippedBlocks"] + summary["blocksObserved"]
  /\ poll # "fetch" => Fetches = allBlockOrdinal + Len(batch)

\* The warm-up is a prefix of the run: no block is skipped after one has been
\* counted.
WarmupIsPrefix ==
  [][summary["blocksObserved"] > 0 =>
       summary'["warmupSkippedBlocks"] = summary["warmupSkippedBlocks"]]_vars

\* The follower catches up with every number of the chain, whatever failed on
\* the way: a poll that broke off resumes where it stopped.
CatchesUp ==
  \A n \in BlockNumbers : (Len(chain) >= n) ~> (lastBlockNumber >= n)

\* What the tables of the published run say of the rate: "Included
\* transactions observed before block inclusion".
SeenBeforeInclusion == counted \subseteq early
=============================================================================
