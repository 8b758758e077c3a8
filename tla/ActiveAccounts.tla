--------------------------- MODULE ActiveAccounts ---------------------------
(***************************************************************************)
(* The choice of the accounts a live run protects, by                      *)
(* scripts/build_active_protected_accounts.py: the script reads a range of *)
(* recent blocks over JSON-RPC, a few to a request, gathers from the       *)
(* direct ERC-20 calls in them who sends to whom, chooses the accounts     *)
(* with the most counterparties, asks of each whether it is a contract,    *)
(* and asks the tokens in use for their metadata.                          *)
(*                                                                         *)
(* A request that fails is sent again, a number of times; what happens     *)
(* when it fails for good depends on what was asked.  An answer may have   *)
(* its items in any order, lack some of them, and have no block where the  *)
(* node does not know it yet.                                              *)
(*                                                                         *)
(* Addresses and tokens are numbers, since they break ties by their order. *)
(* The time of a block is its number.                                      *)
(***************************************************************************)
EXTENDS Integers, Sequences, FiniteSets, FiniteSetsExt, SequencesExt

CONSTANTS
  NoAddress,               \* what is no address normalises to this
  ZeroAddress,
  Accounts,                \* addresses that may send and receive
  Tokens,                  \* contracts that are called
  Contracts,               \* the accounts that have code
  Chains,                  \* the chains the node may have: blocks 1, 2, ...
  Retries,                 \* --retries
  BatchSize,               \* --batch-size, at most 3
  Confirmations,           \* --confirmations
  Lookback,                \* --lookback-blocks
  MaxVictims,              \* --max-victims
  MinCounterparties,       \* --min-counterparties
  MaxPerVictim,            \* --max-counterparties-per-victim
  RowCap,                  \* --max-rows, 0: no cap
  MetadataLimit,           \* --metadata-limit
  ProbeLimit,              \* --contract-probe-limit
  Options                  \* the switches the script may be called with

Addresses == Accounts \cup {NoAddress, ZeroAddress}

\* A call has the method it selects ("other" for any that is no transfer, or
\* whose data is too short), its sender, the contract it is for, the owner
\* and the recipient in its data, and a value.
Calls ==
  [method : {"transfer", "transferFrom", "other"}, from : Addresses,
   token : Tokens \cup {NoAddress}, owner : Addresses, to : Addresses, value : Nat]

ASSUME AccountsAssumption ==
  /\ Accounts \subseteq Int /\ Tokens \subseteq Int
  /\ IsFiniteSet(Accounts) /\ IsFiniteSet(Tokens)   \* they have 20 bytes
  /\ NoAddress \notin Accounts \cup Tokens
  /\ ZeroAddress \notin Accounts
  /\ Contracts \subseteq Accounts
  /\ \A c \in Chains : \A n \in DOMAIN c : \A i \in DOMAIN c[n] : c[n][i] \in Calls
  /\ Chains \subseteq Seq(Seq(Calls))
  /\ Retries \in Nat
  /\ BatchSize \in 1..3
  /\ Confirmations \in Nat /\ Lookback \in Nat \ {0}
  /\ MinCounterparties \in Nat
  /\ MaxVictims \in Nat /\ MaxPerVictim \in Nat /\ RowCap \in Nat
  /\ MetadataLimit \in Nat /\ ProbeLimit \in Nat
  /\ Options \subseteq [include_zero_value : BOOLEAN, one_way : BOOLEAN,
                        allow_contract_victims : BOOLEAN]

VARIABLES
  chain,        \* the blocks of the node
  options,      \* the switches of this call
  pc,           \* what the script does
  attempt,      \* failed attempts at the request that is under way
  fromBlock,    \* from_block, to_block
  toBlock,
  next,         \* batch_start
  agg,          \* agg: victim, recipient and token -> the row, if any
  scanned,      \* scanned_blocks
  skipped,      \* skipped_rpc_blocks
  candidates,   \* candidates not yet looked at, in their order
  codeCache,    \* code_cache: whether an account was found to have code
  selected,     \* selected_victims
  rows,         \* selected_rows, the rows of the output
  tokens,       \* tokens not yet asked for their metadata
  metadata,     \* the tokens with metadata
  stats,        \* metadata_stats
  read,         \* history: the blocks that were in an answer
  unanswered    \* history: the accounts whose probe failed

world == <<chain, options>>
range == <<fromBlock, toBlock>>
scan == <<next, agg, scanned, skipped, read>>
selection == <<candidates, codeCache, selected, unanswered>>
output == <<rows, tokens, metadata, stats>>
vars == <<world, pc, attempt, range, scan, selection, output>>
-----------------------------------------------------------------------------
(* Decoding and gathering. *)

Keys == Accounts \X Accounts \X Tokens

NoRow == [observed_freq |-> 0, last_seen |-> 0, last_block |-> 0]

Larger(a, b) == IF a > b THEN a ELSE b

Sender(call) == IF call.method = "transfer" THEN call.from ELSE call.owner

\* decode_direct_erc20_transfer.
Decoded(call) ==
  /\ call.token # NoAddress
  /\ call.method # "other"
  /\ call.method = "transfer" => call.from # NoAddress

\* The calls that are gathered: neither invalid nor, by default, of no value.
Gathered(call) ==
  /\ Decoded(call)
  /\ {Sender(call), call.to} \cap {NoAddress, ZeroAddress} = {}
  /\ call.value = 0 => options.include_zero_value

\* add_counterparty, of a block said to be number n that was made at a time.
AddCounterparty(a, key, time, n) ==
  IF key[1] = key[2] THEN a
  ELSE [a EXCEPT ![key] =
          [observed_freq |-> @.observed_freq + 1,
           last_seen |-> Larger(time, @.last_seen),
           last_block |-> IF time >= @.last_seen THEN n ELSE @.last_block]]

AddCall(a, call, time, n) ==
  IF ~Gathered(call) THEN a
  ELSE LET there == AddCounterparty(a, <<Sender(call), call.to, call.token>>, time, n)
       IN  IF options.one_way THEN there
           ELSE AddCounterparty(there, <<call.to, Sender(call), call.token>>, time, n)

\* The loop over the transactions of the block made at a time; time 0 stands
\* for a block that the node does not know, and for the first one of all,
\* which has no calls.
AddBlock(a, time, n) ==
  IF time = 0 THEN a
  ELSE LET after[i \in 0..Len(chain[time])] ==
             IF i = 0 THEN a ELSE AddCall(after[i-1], chain[time][i], time, n)
       IN  after[Len(chain[time])]

\* The loop over the blocks of an answer, which are those numbered from
\* batch_start on.
AddBlocks(a, first, blocks) ==
  LET after[i \in 0..Len(blocks)] ==
        IF i = 0 THEN a ELSE AddBlock(after[i-1], blocks[i], first + i - 1)
  IN  after[Len(blocks)]
-----------------------------------------------------------------------------
(* The choice of victims and rows. *)

\* Tuples are compared from their first place on.
TupleBefore(s, t) == \E i \in DOMAIN s : s[i] < t[i] /\ \A j \in 1..(i-1) : s[j] = t[j]

\* A set of tuples from the first to the last.
Sorted(S) ==
  [i \in 1..Cardinality(S) |->
     CHOOSE t \in S : Cardinality({s \in S : TupleBefore(s, t)}) = i - 1]

RowsOf(victim) == {k \in Keys : k[1] = victim /\ agg[k].observed_freq > 0}
Counterparties(victim) == {k[2] : k \in RowsOf(victim)}

\* What victim_metrics has of an account, as select_victims compares it.
Standing(victim) ==
  <<Cardinality(Counterparties(victim)),
    SumFunction([k \in RowsOf(victim) |-> agg[k].observed_freq]),
    Max({agg[k].last_seen : k \in RowsOf(victim)}),
    Cardinality({k[3] : k \in RowsOf(victim)}),
    victim>>

Eligible ==
  {v \in Accounts : /\ RowsOf(v) # {}
                    /\ Cardinality(Counterparties(v)) >= MinCounterparties}

\* The accounts in falling order.
Ranked(victims) ==
  LET standings == Reverse(Sorted({Standing(v) : v \in victims}))
  IN  [i \in DOMAIN standings |-> standings[i][5]]

Frequency(k) == <<agg[k].observed_freq, agg[k].last_seen, k[2], k[3]>>

\* Bug: keeps the rows that are seen least.
BugTopRows(victim) ==
  {k \in RowsOf(victim) :
     Cardinality({q \in RowsOf(victim) : TupleBefore(Frequency(q), Frequency(k))})
       < MaxPerVictim}

\* items[:max_counterparties_per_victim], of the rows in falling order.
TopRows(victim) ==
  {k \in RowsOf(victim) :
     Cardinality({q \in RowsOf(victim) : TupleBefore(Frequency(k), Frequency(q))})
       < MaxPerVictim}

\* The key of the last sort has the victims in the order they were chosen in,
\* and ends with rising addresses where the first had falling ones.
SortKey(victims, k) ==
  <<CHOOSE i \in DOMAIN victims : victims[i] = k[1],
    -agg[k].observed_freq, -agg[k].last_seen, k[2], k[3]>>

\* build_rows.
BuildRows(victims) ==
  LET all == Sorted({SortKey(victims, k) : k \in UNION {TopRows(v) : v \in ToSet(victims)}})
      kept == IF RowCap > 0 /\ Len(all) > RowCap THEN SubSeq(all, 1, RowCap) ELSE all
  IN  [i \in DOMAIN kept |-> <<victims[kept[i][1]], kept[i][4], kept[i][5]>>]

Uses(items) ==
  LET all == Sorted({<<k[3]>> : k \in ToSet(items)})
  IN  [i \in DOMAIN all |-> all[i][1]]
-----------------------------------------------------------------------------
Init ==
  /\ chain \in Chains
  /\ options \in Options
  /\ pc = "start"
  /\ attempt = 0
  /\ fromBlock = 0 /\ toBlock = 0 /\ next = 0
  /\ agg = [k \in Keys |-> NoRow]
  /\ scanned = 0 /\ skipped = <<>>
  /\ candidates = <<>> /\ codeCache = <<>> /\ selected = <<>>
  /\ rows = <<>> /\ tokens = <<>> /\ metadata = {}
  /\ stats = [attempted |-> 0, success |-> 0, failed |-> 0, skipped_limit |-> 0]
  /\ read = {} /\ unanswered = {}

\* What lets the script look at another candidate.
LooksOn ==
  /\ candidates # <<>>
  /\ Len(selected) < MaxVictims
  /\ options.allow_contract_victims \/ Len(codeCache) < ProbeLimit

\* The script waits for an answer.
Waiting ==
  \/ pc = "start"
  \/ pc = "blocks" /\ next <= toBlock
  \/ pc = "probe" /\ LooksOn /\ ~options.allow_contract_victims
  \/ pc = "tokens" /\ tokens # <<>>

\* A request fails and is sent again: no connection, no answer in time, an
\* answer of HTTP 408, 429 or 500 and above, one that is no JSON, one that
\* lacks an item, or an item whose error is about time or rate.  The whole
\* request is sent again.
Retry ==
  /\ Waiting
  /\ attempt < Retries
  /\ attempt' = attempt + 1
  /\ UNCHANGED <<world, pc, range, scan, selection, output>>

\* eth_blockNumber.  The range ends some blocks behind the latest one.
StartScan(latest) ==
  /\ pc = "start"
  /\ LET to == Larger(0, latest - Confirmations)
     IN  /\ toBlock' = to
         /\ fromBlock' = Larger(0, to - Lookback + 1)
         /\ next' = Larger(0, to - Lookback + 1)
  /\ pc' = "blocks"
  /\ attempt' = 0
  /\ UNCHANGED <<world, agg, scanned, skipped, read, selection, output>>

\* A first request that fails for good ends the script.
StartFails ==
  /\ pc = "start"
  /\ pc' = "failed"
  /\ UNCHANGED <<world, attempt, range, scan, selection, output>>

\* Bug: the last batch goes past the end of the range.
BugNumbers(first) == [i \in 1..BatchSize |-> first + i - 1]

\* The numbers of a batch.
Numbers(first) ==
  [i \in 1..(IF toBlock - first + 1 < BatchSize THEN toBlock - first + 1 ELSE BatchSize)
     |-> first + i - 1]

\* Bug: takes the items of an answer in the order they came in.
BugResultsById(items) == [i \in DOMAIN items |-> items[i].result]

\* results_by_id, for an answer that has an item for every number.
ResultsById(items) ==
  [i \in DOMAIN items |-> items[CHOOSE j \in DOMAIN items : items[j].id = i].result]

\* A block that the node does not have, or not yet, comes as null.
BlockAt(n, known) == IF n \in known \cap DOMAIN chain THEN n ELSE 0

\* The answer to eth_getBlockByNumber for a batch: its items are in some
\* order, and only the blocks in known are there.  Each counts as scanned.
BlocksAnswered(order, known) ==
  /\ pc = "blocks"
  /\ next <= toBlock
  /\ LET numbers == Numbers(next)
         items == [i \in DOMAIN order |->
                     [id |-> order[i], result |-> BlockAt(numbers[order[i]], known)]]
     IN  /\ agg' = AddBlocks(agg, next, ResultsById(items))
         /\ scanned' = scanned + Len(numbers)
         /\ read' = read \cup (ToSet(numbers) \cap known \cap DOMAIN chain)
         /\ next' = next + BatchSize
  /\ attempt' = 0
  /\ UNCHANGED <<world, pc, range, skipped, selection, output>>

\* Bug: a batch that has failed for good is asked for once more.
BugSkipBatch ==
  /\ pc = "blocks"
  /\ next <= toBlock
  /\ attempt' = 0
  /\ UNCHANGED <<world, pc, range, scan, selection, output>>

\* A batch that fails for good, at once where the error is none of those that
\* are worth a second attempt, is left out.
SkipBatch ==
  /\ pc = "blocks"
  /\ next <= toBlock
  /\ skipped' = skipped \o Numbers(next)
  /\ next' = next + BatchSize
  /\ attempt' = 0
  /\ UNCHANGED <<world, pc, range, agg, scanned, read, selection, output>>

ScanEnds ==
  /\ pc = "blocks"
  /\ next > toBlock
  /\ candidates' = Ranked(Eligible)
  /\ pc' = "probe"
  /\ attempt' = 0
  /\ UNCHANGED <<world, range, scan, codeCache, selected, unanswered, output>>
-----------------------------------------------------------------------------
(* select_victims. *)

\* Without the probe an account is taken as it comes.
TakeCandidate ==
  /\ pc = "probe"
  /\ LooksOn
  /\ options.allow_contract_victims
  /\ selected' = Append(selected, Head(candidates))
  /\ candidates' = Tail(candidates)
  /\ UNCHANGED <<world, pc, attempt, range, scan, codeCache, unanswered, output>>

Probe(code) ==
  /\ codeCache' = Append(codeCache, [account |-> Head(candidates), has_code |-> code])
  /\ selected' = IF code THEN selected ELSE Append(selected, Head(candidates))
  /\ candidates' = Tail(candidates)
  /\ attempt' = 0

\* account_has_code.
ProbeAnswered ==
  /\ pc = "probe"
  /\ LooksOn
  /\ ~options.allow_contract_victims
  /\ Probe(Head(candidates) \in Contracts)
  /\ UNCHANGED <<world, pc, range, scan, unanswered, output>>

\* An account whose probe fails for good is taken for one without code.
ProbeFails ==
  /\ pc = "probe"
  /\ LooksOn
  /\ ~options.allow_contract_victims
  /\ Probe(FALSE)
  /\ unanswered' = unanswered \cup {Head(candidates)}
  /\ UNCHANGED <<world, pc, range, scan, output>>

\* Of the tokens in use the first ones, up to the limit, are asked for their
\* metadata.  A limit of 0 does what --skip-token-metadata does.
SelectionEnds ==
  /\ pc = "probe"
  /\ ~LooksOn
  /\ rows' = BuildRows(selected)
  /\ LET used == Uses(rows')
     IN  /\ tokens' = IF Len(used) > MetadataLimit THEN SubSeq(used, 1, MetadataLimit)
                                                   ELSE used
         /\ stats' = [stats EXCEPT !.skipped_limit = Len(used) - Len(tokens')]
  /\ pc' = "tokens"
  /\ attempt' = 0
  /\ UNCHANGED <<world, range, scan, selection, metadata>>
-----------------------------------------------------------------------------
(* fetch_token_metadata, and the output. *)

TokenDone(known) ==
  /\ stats' = [stats EXCEPT !.attempted = @ + 1,
                            !.success = @ + (IF known THEN 1 ELSE 0),
                            !.failed = @ + (IF known THEN 0 ELSE 1)]
  /\ metadata' = IF known THEN metadata \cup {Head(tokens)} ELSE metadata
  /\ tokens' = Tail(tokens)
  /\ attempt' = 0

\* The name, the symbol and the decimals are three requests, modelled as one:
\* nothing is kept of a token when one of them fails.  Whether an answer has
\* a value is for the token to say.
TokenAnswered(known) ==
  /\ pc = "tokens"
  /\ tokens # <<>>
  /\ TokenDone(known)
  /\ UNCHANGED <<world, pc, range, scan, selection, rows>>

\* The output is moved into place, and then the manifest.
WriteOutput ==
  /\ pc = "tokens"
  /\ tokens = <<>>
  /\ pc' = "done"
  /\ UNCHANGED <<world, attempt, range, scan, selection, output>>

\* The orders the items of an answer may come in.
Orders(n) == {s \in [1..n -> 1..n] : \A i, j \in 1..n : s[i] = s[j] => i = j}

Next ==
  \/ Retry
  \/ StartScan(Len(chain))
  \/ StartFails
  \/ \E order \in Orders(Len(Numbers(next))), known \in SUBSET ToSet(Numbers(next)) :
       BlocksAnswered(order, known)
  \/ SkipBatch
  \/ ScanEnds
  \/ TakeCandidate \/ ProbeAnswered \/ ProbeFails
  \/ SelectionEnds
  \/ \E known \in BOOLEAN : TokenAnswered(known)
  \/ WriteOutput

\* Every request ends, with an answer or at its timeout, and the script goes
\* on.
Spec == Init /\ [][Next]_vars /\ WF_vars(Next)
-----------------------------------------------------------------------------
(* Properties. *)

Chosen == ToSet(selected)

\* The blocks of the range and no others are accounted for, each once: it was
\* scanned, or it is listed as skipped.  What was read is in the range and is
\* not listed (459-493).
RangeAccounted ==
  pc \in {"probe", "tokens", "done"} =>
    /\ scanned + Len(skipped) = toBlock - fromBlock + 1
    /\ ToSet(skipped) \subseteq (fromBlock..toBlock) \ read
    /\ IsInjective(skipped)
    /\ read \subseteq fromBlock..toBlock

\* The calls in the blocks that were read which make a row or add to it, in
\* the direction of the call and in the other.
Occurrences(k) ==
  {o \in UNION {{n} \X (DOMAIN chain[n]) \X {"there", "back"} : n \in read} :
     LET call == chain[o[1]][o[2]]
     IN  /\ Gathered(call)
         /\ k[1] # k[2]
         /\ IF o[3] = "there" THEN k = <<Sender(call), call.to, call.token>>
                              ELSE ~options.one_way /\ k = <<call.to, Sender(call), call.token>>}

\* Every call of a block that was read is counted once in each direction,
\* however often its request was sent and in whatever order the items of an
\* answer came; and a row names the latest block it was seen in, by its
\* number and by its time alike (139-150, 240-264 and 494-517).
CallsCounted ==
  \A k \in Keys :
    LET blocks == {o[1] : o \in Occurrences(k)}
    IN  /\ agg[k].observed_freq = Cardinality(Occurrences(k))
        /\ blocks # {} => agg[k].last_block = Max(blocks) /\ agg[k].last_seen = Max(blocks)

\* The accounts chosen are the first, by their standing, of those that are
\* eligible and no contracts.  A contract is among them only when its probe
\* failed, and who is left out is a contract or stands behind all that are
\* chosen, once there are enough of them or no probes are left (291-343).
SelectionIsRanked ==
  pc \in {"tokens", "done"} =>
    /\ IsInjective(selected)
    /\ Chosen \subseteq Eligible
    /\ ~options.allow_contract_victims => Chosen \cap Contracts \subseteq unanswered
    /\ \A v \in Eligible \ Chosen :
         \/ ~options.allow_contract_victims /\ v \in Contracts \ unanswered
         \/ /\ \A w \in Chosen : TupleBefore(Standing(v), Standing(w))
            /\ \/ Len(selected) = MaxVictims
               \/ ~options.allow_contract_victims /\ Len(codeCache) = ProbeLimit

\* The accounts are chosen by rank, and the output has rows of them only, of
\* each account those seen most; and where a row is missing, the account has
\* its number of rows or the cap is reached, in which case no account chosen
\* after it has a row (400-421).
OutputIsBest ==
  SelectionIsRanked /\ (pc \in {"tokens", "done"} =>
    LET kept == ToSet(rows)
        of(v) == {k \in kept : k[1] = v}
    IN  /\ \A k \in kept : k[1] \in Chosen
        /\ RowCap > 0 => Len(rows) <= RowCap
        /\ \A i \in DOMAIN selected :
             LET v == selected[i]
             IN  /\ Cardinality(of(v)) <= MaxPerVictim
                 /\ \A q \in RowsOf(v) \ kept :
                      /\ \A k \in of(v) : agg[q].observed_freq <= agg[k].observed_freq
                      /\ \/ Cardinality(of(v)) = MaxPerVictim
                         \/ /\ Len(rows) = RowCap
                            /\ \A j \in (i+1)..Len(selected) : of(selected[j]) = {})

\* The script comes to its end, whatever the node answers and how often it
\* fails (121-163 and 475-493).
ScriptEnds == <>(pc \in {"done", "failed"})
=============================================================================
