# Mempool-TrieGuard: a TLA+ model

Mempool-TrieGuard watches the pending transactions of an Ethereum node, compares the recipient of each with the
counterparties a protected account has dealt with, and raises an alert for a lookalike. These modules model

* its retrieval core: the tries, the linear scan and the SQLite index that find the counterparties a transfer may
  resemble, and the copy of that retrieval the feature exporter has in Python;
* the part that runs for long and concurrently: the websocket feed, the two programs that consume it, and the block
  poll that measures how many transactions were seen before inclusion;
* the Python programs that prepare its data, measure it and learn its weights. They run for hours, keep what they have
  in files that later runs take over, start pools of processes and ask nodes that fail; the modules are about what
  survives an interruption and what a later run makes of it.

TLC checks them on small instances; TLAPS proves every safety property they check for all values of the constants, the
refinement included. Liveness is left to TLC.

## The system

| part | code | state | operations |
|---|---|---|---|
| websocket subscription | `internal/rpc/drpc.go` 179-303 | connection, `RawMessages` (bounded channel), `Errors` (bounded channel), a context, `cancelOnce` | `Subscribe`, `Close`, goroutine `readLoop` with `enqueueRawMessage` |
| HTTP client, decoding | `internal/rpc/drpc.go` | none | `Call`, `GetTransactionByHash`, `GetBlockByNumber`, `DecodePendingResult`, `ParseERC20TransferCall` |
| micro-benchmark | `internal/live/benchmark.go` | subscription, two contexts, `seenPending`, `seenBlocks`, sender/nonce groups, last block number, summary, three artifact files | `RunMicroBenchmark`: one event loop over done, errors, payloads, block ticks and flush ticks |
| live service | `internal/live/service.go` | `Status`, `cancel`, engine, recent alerts, under one mutex | `Start`, `Stop`, goroutine `runLoop` with `processPendingRaw`, `ApplyDetectorConfig`, getters |
| Telegram notifier | `internal/live/telegram.go` | none | `NotifyAlerts`, in a goroutine of its own for the live service |
| detector | `internal/detector` | per protected account: a prefix and a suffix trie and the counterparties by recipient; a lazily built SQLite index and display index | `LoadCounterparties`, `Detect` and its variants, scoring |
| configuration, store, control server | `internal/config`, `internal/store`, `internal/web` | a configuration per process; SQLite tables of alerts, runs and configuration versions | import of a configuration, start and stop of the live service |
| replay benchmark | `internal/bench`, `cmd/detector-cli` | counters of one run; summary and daily files | `RunWithOptions`, `RunTauSweep` |
| dataset cache | `python/benchmark_pipeline.py` 173-528 | Parquet file, metadata, temporary file | `write_parquet_dataset_cache`, `dataset_cache_covers_request`, the readers |
| full-label replay and tau sweep | `python/benchmark_pipeline.py` 1316-2433 | manifest, shards, replays, summaries; a pool of threads | `write_full_label_shards_fast`, `run_full_label_pipeline`, `run_full_label_tau_sweep` |
| ordinary benchmark run | `python/benchmark_pipeline.py` 383-942, 2435-2683 | caches of token metadata, RPC history and counterparties; summaries | `main`, `fetch_token_metadata`, `fetch_history_counterparties`, `build_replay`, `run_detector` |
| active protected accounts | `scripts/build_active_protected_accounts.py` | aggregates of one run, two output files | `main`, `batch`, `select_victims`, `build_rows`, `fetch_token_metadata` |
| feature exporter | `scripts/export_risk_training_dataset.py` | part files, splits, manifest; a pool of processes | `main`, `export_shard`, `enrich_block_numbers`, `VictimIndex` |
| risk training | `scripts/train_risk_model.py`, `search_risk_formula.py`, `learn_lr_feature_ablation.py`, the Colab notebook | the notebook's local copy; histograms of one run | read, fit, choose a threshold, report |

How they interact. `Subscribe` starts `readLoop`, whose only links to its consumer are the two channels and the
context. The micro-benchmark and the live service are two such consumers. The live service is started and stopped by
HTTP handlers, from any number of goroutines; each `Start` begins a run loop of its own and all of them write the one
`Status`. Both consumers call the detector and the store synchronously; the live service hands alerts to a goroutine
per payload. The block poll of the micro-benchmark runs in the same goroutine as its payloads, so payloads wait while
it asks the provider for blocks.

The Python programs interact through files. The dataset cache feeds the ordinary run and the full-label replay; both
write replays and counterparties for `detector-cli`, read its summaries back, and take over the files of earlier runs.
The feature exporter reads the shards and the dataset cache; the four learners read its parts, and the weights they find
go into the configuration of the detector. The active accounts are the counterparties file of a live run.

What is hard: `Close` against a reader that is blocked on a full channel; a failure that shows on two channels; a
context that ends under a subscription in use; `Start` and `Stop` that leave the mutex before they dial or cancel;
run loops that outlive their `Stop`; a block poll that fails half-way while the chain moves; announcements handled
late; detached goroutines; and, in the detector, two tries and a map that are filled apart, walks that end early,
pruning in the middle of retrieval, a side that is filled query by query. In the Python programs: files that are opened,
emptied and written in separate steps; a second file that vouches for the first; a manifest that outlives its shards;
a resumed run that finds some results and not others; answers of a node that come in any order, in part or never;
programs that read every file with the right name, whoever wrote it. The full list, with lines, is
under `hazards` in `PROJECT.json`.

## The modules

| module | models | runs | proofs |
|---|---|---|---|
| `PayloadFeed` | abstract: what a subscription promises its consumer | as `ImplementsFeed` | |
| `Subscription` | one subscription, from its acknowledgement on | `MCSubscription` | `MicroSessionProofs` |
| `MicroSession` | the life of a run of the micro-benchmark; extends `Subscription` | `MCMicroSession` | `MicroSessionProofs` |
| `BlockFollower` | the block side of the micro-benchmark and the chain it follows | `MCBlockFollower` | `BlockFollowerProofs` |
| `LiveService` | the live service, its run loops and notifications, and the exit of its process | `MCLiveService` | `LiveServiceProofs` |
| `Detector` | loading, the tries, retrieval, pruning, scoring and detection, and the linear scan | `MCDetector` | `DetectorProofs` |
| `DBIndex` | the SQLite retrieval, over the engine of `Detector` | `MCDetector` | `DetectorProofs` |
| `FeatureIndex` | the retrieval of the feature exporter, over the rows of `Detector` | `MCDetector` | `DetectorProofs` |
| `DatasetCache` | the Parquet cache of the labelled dataset | `MCDatasetCache` | `PipelineProofs` |
| `FullLabelReplay` | the full-label replay and its tau sweep, in one directory | `MCFullLabelReplay` | `PipelineProofs` |
| `ActiveAccounts` | the choice of protected accounts from recent blocks | `MCActiveAccounts` | `ActiveAccountsProofs` |
| `BenchmarkRun` | the ordinary run and the caches it leaves | `MCBenchmarkRun` | `BenchmarkRunProofs` |
| `FeatureExport` | the exporter as a writer of files | `MCRiskTraining` | `RiskTrainingProofs` |
| `RiskTraining` | the four learners and the notebook's copy; composes `FeatureExport` | `MCRiskTraining` | `RiskTrainingProofs` |

In each module the definitions named `Bug...` are plausible mistakes, each in the place of one definition; they are
no part of the specification and exist to show that every property can fail.

### Subscription

`reader` is the position of `readLoop`: `check` (the select on `ctx.Done`), `read` (`ReadMessage`), `enqueue` and
`send` (the two selects of `enqueueRawMessage`), `exited`. `RawMessages` is a sequence with a capacity, `Errors` a
count with a capacity: both sends that find a full channel are there, the blocking one and the one with a default.
`done` is the context; `Close` is `CloseCancel`, then `CloseConn`, because readers may move between the two.
`ParentCancel` is the end of the context given to `Subscribe`. A payload is its number in the provider's stream, so an
invariant can say "in order, nothing missing". Frames that are no notifications are read and skipped (`ReadOther`).

`PayloadFeed` says: a consumer gets a gap-free prefix, in order, once each, and nothing after the end. `Subscription`
implements it with `published <- nread, delivered <- taken`.

### MicroSession

The module extends `Subscription`, whose variables and actions are those of the current subscription, with
`SessionInit`, `SessionNext` and `SessionSpec`; a replaced subscription has been closed, its reader ends by
`ReaderEnds`, and nothing receives from it any more, so it is dropped. `loop` is the position in `RunMicroBenchmark`
(`setup`, `select`, `close` and `dial` inside `reconnectMicroSubscription`, `returned`), `phase` the run's deadline as
the code sees it (`contextEndingSoon` makes the last two seconds a phase of their own), `result` the way it returned.
`Prepare` is `setupCancel()` and the creation of the files.

### BlockFollower

`chain` is the canonical chain, which grows (`Mine`) and loses its newest block (`Reorg`); a provider may call either
of the two newest blocks the latest. A poll goes through `fetch` (one step per number, `FetchOld`, `FetchOldFails`,
`FetchLatest`) and `process` (one step per block, then `Prune`), and no payload is handled in between. `summary` holds
the counters that are related to one another. `stale` stands for the timestamps: the entries older than the
retention. `minute` stands for the wall clock of the warm-up. `firstNumber`, `early` and `counted` are history.

### LiveService

A run is the number of its `Start`. `Start` ends where the code unlocks for the dial; `DialSucceeds` and `DialFails`
are what follows. `Stop` and `StopCancels` are the two halves of `Stop`. `phase[r]` follows the run loop through
`processPendingRaw`, one step per place where another goroutine may come in between. `notify` says whether the
environment configures Telegram: without it `s.notify` is nil and `Record` starts no goroutine (`service.go` 202). `up`
is the server process; `Exit` ends it with whatever is under way, since neither `main` (88-91) nor `Stop` waits for a run
or a notification. `clobbered` is history: a run that
ended wrote `Running = false` over a newer run. The subscription of a run is only open or ended here. Recent alerts are
kept newest first; `recorded` is the history `RecentAlerts`, which is proved, compares them with. `notifying` holds the
rest of the batch of each notification goroutine.

### Detector

The steps are those of `LoadCounterparties`: one per row (`LoadRow`), the invalid row (`LoadInvalidRow`), the end. An
engine is built by one goroutine and loaded once (`service.go` 92-93, `bench.go` 317-318), so a query never meets a
load; queries are operators over the state, and the properties say for every state, as if the file ended there, what
every pending transfer gets. A trie is a function from nodes, named by the path to them, to a count per recipient; a
node without recipients stands for a node that is not there. `Reached` is the walk down to the first missing child,
`DepthRange` and `Deepest` are the two ways to collect from it, `PruneCandidates` keeps the first by `RankedBefore`,
`Combine` is the switch over the modes, `Detect` the loop over both ends of the transfer.

An address is a sequence of nibbles of any length. Scoring is the default mode, `logistic_lr` with the address score
that is not split; the sigmoid is monotonic, so `OverThreshold` compares its argument. Days are whole. A recipient's
best row is over the threshold if and only if one of its rows is, so `Scores` asks for one. A transfer whose two ends
are the same address is handled twice by the code, with the same result; alerts are a set here.

### DBIndex and FeatureIndex

`FillSide` is the loop over the depths of one side as a function, the deepest first; `QuerySide` is one query with
`ORDER BY` and `LIMIT`, whose rows may be in the side already. The columns of the table are functions from the
recipients. The table is what the loaded engine holds.

`FeatureIndex` has the postings of the exporter (`Posted`, `Postings`), its pruning (`Prune`, with its own key) and the
rows it takes the best features of. It differs from the detector on purpose or by accident: it does not clamp the least
depths, knows no unknown days, and passes over inactive rows when it ranks; `Comparable` leaves those cases out, and
`ExportSeesCandidates` says they are all.

### DatasetCache

One row is one line of the dump. `stage` follows `write_parquet_dataset_cache`: `normalize` (one line per step, batches
written as they fill), `replace`, `meta` and `meta open` (the file is emptied, then written), `read`. `Interrupt` may
come anywhere; the disk survives it. `ReplaceDump` puts another dump in place. `source` and `unpublished` are history.

### FullLabelReplay

Both programs of the directory in one module, since each may take over the other's shards: `args.program` tells them
apart. The manifest, the shards, replays, summaries and daily files are variables that survive `Crash`. A file that has
been opened is torn until it is written. A batch goes through `ScheduleBatch`, `OpenReplay` and `WriteReplay`, then its
jobs through the pool (`queued`, `cli`, `writing`, `ok` or `failed`, `collected`), in any order; `failing` is the time
in which the executor waits for the rest. `Measure` is what detector-cli finds: whom a method takes for alike is a
constant. Hashes are numbers of rows, so that a file is a set. `Seen` is what a method
can see of the rows: `confirmed_chain` handles the hidden ones too (`bench.go` 337), the others do not. A count over
shards is a sum over the summaries that were collected (`AggregateBy`).

### ActiveAccounts

`Waiting` is every place where the script waits for the node, `Retry` every failure that sends the request again.
`BlocksAnswered` takes a batch whose items come in some order and lack some blocks; `SkipBatch`, `StartFails`,
`ProbeFails` and an unsuccessful `TokenAnswered` are what a request that fails for good leads to, four different things.
The sorts of `select_victims` and `build_rows` are sorts of tuples, as they are in the code: `Sorted` puts each where as
many are before it, and `Ranked` turns that around where the code sorts in reverse (`Standing`, `Frequency`).

### BenchmarkRun

Four files survive a run, each absent, torn or whole. `pc` goes through the two orders of `main`: with `--max-rows 0`
the rows are sampled and the counterparties built before the token metadata, otherwise after. Counterparties are bags,
since each is counted. `job` is one of the jobs of a run, a method with a delay and a loss rate, whose replay and summary
are followed. detector-cli opens its summary in place and then writes it (`OpenSummary`, `WriteSummary`; `main.go`
135-162); a run takes a summary because it is there (`TakeSummary`) and ends at a torn one (`BadSummary`). Which alerts
are raised is free, except that an alert is on an event the method sees, hidden ones too for `confirmed_chain`
(`bench.go` 337, 508), and that the victim has a counterparty, not the lookalike itself, that is `Active` then; how alike
the two are is `Detector`'s matter. What a summary keeps of its replay and counterparties is history.

### FeatureExport and RiskTraining

A file is known by the export that wrote it, whether it is whole, its cutoffs and whether it has been enriched; its rows
are those of its shard. `OpenTmp`, `WriteTmp` and `ReplacePart` rewrite one part under a name that readers take for a
part. The learners go through `reading`, `choosing` and `writing`; what a learner makes of the training rows is a free
choice (`Scorings`), since the properties are about what it was given and what is made of its scores. The notebook
copies first; `copy_file_if_needed` compares byte counts, so a copy cut short is told from its own file and two files of
one export that are the same are taken for the same, while files of two exports may have as many bytes or not
(`MayBeSameSize`, `MayDifferInSize`). Scores are counted in half steps of the threshold grid, so that a score may lie on
a threshold or between.

## What the runs check

| run | shows |
|---|---|
| `subscription` | `DeliveredInOrder`, `NoLossWhileOpen`: a full channel blocks and drops nothing; `Close` costs one payload at most and never one in the middle. `EndHasCause`: the non-blocking send of the error never loses it. `ReaderEnds`: no leaked goroutine, although the consumer never receives again, and an end for the consumer that does. `ImplementsFeed`. |
| `micro_session` | `ReconnectsExplained`: the doubly announced failure is handled once, the counters agree, and reconnects are the provider's failures plus one. `ReconnectedFeedLives`: a reconnect's subscription lives until the run's end. `RunEnds`, `LastReaderEnds`. |
| `micro_session_provider` | a violation, see Findings |
| `block_follower` | `Contiguous`: numbers are fetched in order, once each. `BlocksAccounted`: each block is counted once, as warm-up or as observed. `WarmupIsPrefix`: no block is skipped once one was counted. `CatchesUp`: the follower reaches every height. |
| `block_follower_seen` | a violation, see Findings |
| `live_service` | `StopReaches`: unless a late report has cleared `Running`, the run that `Stop` does not reach does not exist. `StatusHasARun`: `Running` and `Connected` never without a run. `StoppedRunEnds`: in the middle of a retry too. `DetectedIsDelivered`: an alert is shown, and sent if there is a notifier, also when the run is stopped and whatever the database answers; only the exit of the process can lose it. |
| `detector` | `TrieIndexes`: the tries and the map of recipients never disagree. `TrieIsScanCut`: an alert through the tries is an alert of the scan, and within the limits all those with a near recipient are there, in each mode. `SidesAreExact`: `DetectLegacy` finds the nearest, and pruning has one outcome. `DBAgreesWithTrie`: where the sides have room the alerts of the SQLite index are those of the tries, and a crowded side keeps the closest. `ExportSeesCandidates`: the exporter retrieves what the detector scores. |
| `dataset_cache` | `CoveredIsServed`: a cache that is said to cover a request gives exactly what was asked for, unless the run that made it was interrupted between its two files. `CacheIsWhole`: the file in place is never half a file. |
| `full_label` | `CountsAreExact`: the counts of a finished run are those of one pass over its rows, over all resumed, torn and shared files, as long as all runs of the directory had one shard count and row limit. `JobsFindReplays`: no job needs a replay that is not there. `ResumeFinishes`: without further faults a run comes to its end, or a torn summary or manifest stops it. |
| `active_accounts` | `RangeAccounted`, `CallsCounted`: each block scanned or listed as skipped, each call of a block that was read counted once in each direction. `OutputIsBest`: accounts and rows are the best there are. `ScriptEnds`. |
| `benchmark_run` | `TrustedIsClean`: where a run's trusted counterparties come from. `NoLookahead`: every alert of a summary rests on a counterparty of its event that was really seen, in an earlier block, whichever runs gathered the counterparties. `MetadataKept`: a token file that can be read has all the metadata earlier ones had, and no run goes on without one. `DailyAddsUp`: found and missed events of the days are all, where the summary is of this replay. |
| `risk_training` | `SplitIsChronological`: nothing fitted is of a day that is tested. `FullExportHeals`: a full export makes good what earlier ones left. `ThresholdIsBest`: the histogram gives what comparing every score gives. `CopyHeals`: a copy that was interrupted is made good by the next run of the cell, for parts of the package's own export. |

Bounds. `MaxPayloads` and `MaxWire` exceed `BufferSize`, so that the channel is full with one payload in hand and
another in the socket. `MaxFailures` of two lets a reconnected subscription fail again. `MaxMade` of four makes a range
of several numbers, a reorganisation and a lag possible in one behaviour, with `WarmupBlocks` of one so that there are
blocks on both sides of the warm-up; `MaxErrors` bounds the failures, each of which may hit any request. `MaxStarts` of
three gives an old run, its successor and a third that is started after a late report; `MaxFound` of two gives a batch
of alerts whose notification has a rest. With `FetchAttempts` of two there is an attempt that is followed by another and
a last one; the code's three repeat the first kind. One transaction is enough for `SeenBeforeInclusion`, which compares
two sets: a counterexample needs one transaction that is in one of them and not in the other. For the detector five
nibbles with keys of three make the keys overlap and agree to every depth; four rows (`MaxRows`) give a side three
recipients where it may keep two, rows of one recipient on several days (recent, out of the window, in the future,
unknown), and a recipient that is protected itself, so that both ends of a transfer are looked up. Three recipients
share a prefix and part on the suffix, so that each of the four retrievals has a crowded side.

`MCDatasetCache` (whose bound on runs is `MaxStarts`) has dumps with bad lines, lines before and after the table, an end
in the middle and no rows at all, and requests below, at and above the number of rows; batches of two split each. Three
runs give a run that makes the cache, one that is interrupted remaking it, and one that meets the result.
`MCFullLabelReplay` has three starts for the same reason, with shard counts, methods and day boundaries that differ
between them, a sweep over the replay's shards, a loss rate, two victims on two shards, rows of all labels and one
fault, which may be a crash or a failing detector. `MCActiveAccounts` has batches of two over a range of three, so that
the last is short, and ties at every place of the orders. `MCBenchmarkRun` has two runs, the second of which meets every
state of the files the first may leave; poisoning and payoff rows whose transfers are in the archive; events whose delay
crosses midnight; and, with days as long as blocks and a window of one, counterparties that are too old, active, or of a
later block than the event. `MCRiskTraining` has two exports, of which either may be partial, failed or interrupted, a
shard without counterparties, and three thresholds with scores on and between them. A bug that needs three interrupted
exports, or four starts, would be missed; the state that connects runs is on disk and small, and each state of it that
one run can leave is met.

Deadlock is checked for the follower and the dataset cache. It is not checked where the system really stops: the
subscription and the session, once the last reader has returned and the feed has been drained; the live service, whose
process exits; the detector, whose load ends; and the other Python programs, whose runs are bounded.

## Fairness

Goroutines are scheduled: weak fairness of `readLoop`, of a `Close` that has begun, of the handling of a payload and of
notifications, whose HTTP calls have time-outs (`internal/rpc/drpc.go`, `internal/live/telegram.go`). The wall clock
moves: weak fairness of the deadline. A Go `select` chooses at random among its ready cases, so a case that is ready for
ever, or again and again, is taken: weak fairness of the run's `Done` case in `MicroSession`, where the case stays ready
whenever the loop is in `select` and the loop comes back there, and strong fairness of `SeeDone` and of `PollLatest`,
which compete with payloads. Nothing is assumed of a dial, because `Subscribe` reads its acknowledgement without a
deadline: `RunEnds` and `StoppedRunEnds` say "if every dial ends". Nothing is assumed of the provider, and nothing of
the process, which may exit at any time: `StoppedRunEnds` and `DetectedIsDelivered` hold unless it does. `ReaderEnds`
says "if the consumer keeps receiving" of the end of a feed.

Of the Python programs, `ActiveAccounts` assumes that every request ends, with an answer or at its timeout (`timeout=`
in `batch`), and `FullLabelReplay` that the program and the detectors it starts go on (`ResumeFinishes` is about runs
that are started again, of which there are finitely many faults). The safety properties of the others need none.

## What is proved

For all capacities, numbers of payloads, runs, transactions, blocks, files and datasets, from the named assumptions on
constants only (`DetectorAssumption`, `SubscriptionAssumption`, `FollowerAssumption`, `ServiceAssumption`,
`DBAssumption`, `SessionAssumption`, `CacheAssumption`, `FullLabelAssumption`, `AccountsAssumption`, `RunAssumption`,
`ExportAssumption`, `TrainingAssumption`). They ask for positive capacities and grids, natural bounds, finite sets of
transactions, addresses, rows, shards and events, and dumps, labels, calls and logs with the columns they have. Two say
more than that: `FullLabelAssumption` that the loss rates have different labels, since rates that agree to two decimals
share their files (see Findings), and that no row is lost at a loss rate of zero; `AccountsAssumption` that a batch has
at most three blocks, to which the script clamps it. TLC evaluates each of them.

* `DetectorProofs`, about `Detector`, `DBIndex` and `FeatureIndex`: for addresses, keys, limits, files and transfers of
  any size, from `DetectorAssumption` (`KP` and `KS` positive, as `config.go` requires, addresses of one length, as
  `NormalizeAddress` checks, whole days and frequencies, a finite file).
  * `TypeCorrect`, `TriesIndexRows` and `TriesCutTheScan`. `TrieIndexes` is inductive with the types; `InsertCounts`
    says what `Insert` does to every count. From it `RetrievalByDepth` follows: a walk that ends at the first missing
    child finds exactly the recipients that agree over the minimum depth, since a node on the way of a recipient's key
    is never missing. Pruning is the identity within the limit and a subset beyond it, and that is all the cut needs.
  * `SidesHandOnTheBest`. `DeepestHoldsNearest`: the walk of the deepest retrieval ends where the longest agreement
    does. `FirstsAreFirst`: of a finite set with an order without ties, the first k are there, are k, and are before
    the rest; `PruneIsExact` applies it, and needs that `RankedBefore` never ties, which is its last resort to the
    address (`AddressesAreOrdered`, an induction over the nibbles).
  * `ExporterSeesTheSame`. `PostingsCount`: the rows the exporter posts for a recipient under a key are as many as the
    trie counts on its path, and the trie's count over the depths retrieved is that sum (`FrequencyIsCount`).
    The exporter's rank is a sum over rows where the detector's loops over them (`RankIsSum`, `ObservedIsGreatest`),
    so both prune by one order (`PrunesAgree`).
  * `IndexAgreesWithTries`. The loop over the depths is a recursive function, which is shown to exist (`FillExists`);
    a step adds to a side and never beyond its limit (`StepsGrow`, `SideGrows`), a side with room gets all of its query
    (`RoomySideIsWhole`), and the side of a crowded loop holds the deepest (`DeepestFillFirst`).
* `MicroSessionProofs`, about `Subscription`: `TypeCorrect`, `InOrder`, `NoLoss`, `EndCause` and `Implementation`.
  `DeliveredInOrder` is not inductive: it needs to know what the reader holds. `IInv` adds `ReaderInv`, which ties
  `raw` and `nread` to what was delivered in each position of the reader and says that after a payload was dropped the
  context is done and the reader cannot read again before it looks; and `EndInv`, the cause of the end. About the
  composition: `ReconnectsPaid`, `FeedLives`, and `RunFeedInOrder`, that each subscription of a run keeps what one by
  itself promises. The counters are not inductive by themselves: a failure is counted when its error is taken and not
  when it happens, and the same failure shows as a closed channel too. The invariant is an account: `Due` is what the
  subscription at hand may still cost, `Paid` what the counters have already been charged; `SignsHaveCause` says that
  an error in the channel or a closed feed belongs to a connection that broke or a context that ended; `Tidy` says what
  a new subscription starts with.
* `BlockFollowerProofs`: `FollowerTypes`, `SequentialAccounting`, `WarmupPrefix`, `BlocksOnce`.
  `FollowInv` adds to the types that the number called latest is within the chain and that the batch never outgrows the
  numbers between `lastBlockNumber` and it. `WarmInv`: once a block has been counted the minute has passed and the
  ordinal is beyond the warm-up, so the condition to skip cannot come back. `OnceInv` is why the guard on `seenBlocks`
  never drops a block: hashes, numbered as the blocks are made, rise along the chain (`RisingInv`), the blocks below
  the one called latest are settled (`FetchInv`), and so what a poll has in hand was made after everything seen
  (`HandInv`); each processed block then adds one to both sides (`CountInv`).
* `LiveServiceProofs`: `TypeCorrect`, `StatusTruth`, `NoOrphan`, `Recent`. `StatusInv` adds `NewestInv`: `s.cancel` is
  nil or the newest run's, and `Running` is only ever true of the newest run. `Recent` is proved on its own, over the
  sequences.
* `PipelineProofs`, about `DatasetCache`: `CacheTypesCorrect`, `CacheServes`, `CacheWhole`, for all dumps, requests,
  batch sizes and numbers of runs. `ReadSoFar` is the invariant of the loop: the temporary file and the batch together
  are the usable rows of the lines read so far, in their order. `Published` carries it over to the file in place;
  `Vouched` ties the metadata to the file unless it is unpublished; from both, `ReadsCovered` says that a run that
  reads the cache may.
* `PipelineProofs`, about `FullLabelReplay`: `ReplaysAreThere` and `ReportsAreExact`, for all rows, shard counts,
  methods, losses, grids and numbers of runs, crashes and failing detectors.
  * `BatchInv`: a job that is queued without a summary has its replay, or the replay is still to be written in this
    batch; a job whose detector runs has it (`Scheduling`). A job that found none belongs to a run that wants daily
    counts in a directory made without; it has failed, and nothing is written for it any more (`BlindFailed`).
  * `FaithInv` is about the files, and survives every crash: a whole shard, replay or summary holds what one pass over
    the rows gives, for the shard count and the row limit of the directory, whoever wrote it and however often. It
    speaks of them only while all runs have agreed on those two, which is the condition of `CountsAreExact`.
  * `CountInv`: what has been counted is the sum over the jobs that were collected, each once, resumed or run. When a run
    is done these are all its jobs. The rest is counting: each row's victim has one shard, so what the jobs of a method
    and a loss rate count together is each row once for each run and delay (`JobsCount`).
* `ActiveAccountsProofs`: `BlocksAreAccounted`, `CallsAreCounted`, `OutputHasTheBest`, for all chains, options, limits
  and orders of answers.
  * `RangeInv`: the blocks read, the blocks skipped and the numbers from `next` on are the range, without overlap.
  * `CallsInv` is one equation: `agg` is what the calls of the blocks read so far make of an empty table (`Made`). It is
    `OneMade` for a call, in both directions, `CallMade` and `BlockMade` for a block, and `BlocksMade` for an answer,
    whose blocks come in any order (`AnswerInOrder`): counts and extremes do not depend on it.
  * `SelectionInv`: what is chosen, refused and still to be looked at are all that is eligible, and the last stand
    below all that are chosen. `SortedIs`: `Sorted` of a finite set under an order without ties is a sequence of all
    its members, in order, since the number of those before a tuple is a place of its own (`Places`). So the head of a
    ranking is before the rest (`RankedIs`, `TopRowsAre`), the cut of the rows leaves out only rows that are not before
    those it keeps (`MissingRow`), and `OutputIs` puts both limits together.
* `BenchmarkRunProofs`: `KeysAreNumbers`, `MetadataIsKept`, `AlertsRestOnThePast`, `OwnCounterpartiesAreClean`,
  `DaysAddUp`. None of the four properties is inductive. `TokenInv` says that a process that rewrites the token file
  holds all that was in it. For `AlertsRestOnThePast`, `TrustedWasSeen` says that whatever is trusted, in memory or in
  the file, is a row's or a transfer's (`SeenSomewhere`, `BuildSeen`); `EventsArePending` where each event of a replay
  comes from, a row and its delay; and `WrittenAlerts` that an alert of a summary has a counterparty that was active,
  which is of an earlier block, as delays are positive (`ActiveIsEarlier`). `HistoryInv` and `TrustedInv` follow a
  counterparty from the request that found it through two files and two bags, in both orders of `main`. `SummaryInv`
  ties the daily counts and the summary to one replay; that a sum over days is a count of events (`SumCountsEvents`) is
  an induction over the days, and that transactions may be counted for events is a bijection (`HashesTellApart`).
* `RiskTrainingProofs`: `InvHolds`, `CopyIsMadeGood`, `TrainingIsBeforeTesting`, `FullExportIsWhole`,
  `BestThresholdIsChosen`. `ExportInv` follows an export from file to file: which are its own already, which temporary
  files it has left, and so what a full export that has written its manifest leaves of earlier ones (`Healed`: nothing).
  `CutoffsInv` says that the files of one export, and their copies, have its cutoffs; that the cutoffs split the days in
  order is `CutoffsAreDays`. `LocalInv` says that a copy whose export is the part's is the part or its beginning, since
  an export is over before anything of it is copied; `CopyInv` follows the copying. `HistogramIsExact` says that the
  cumulated histogram counts what a comparison of every score counts, and `BestOfGrid` that the scan over it ends at the
  best threshold, the lowest of equals; `RatiosAreOrdered` is the arithmetic of comparing F1 by cross multiplication.

How. The induction theorems of the library cannot be instantiated here, so an induction over the naturals is done by
`NaturalsByInduction`, over a set of naturals, from `LeastNatural`, which follows from the well-foundedness of `<` as a
relation. A sum (`MapThenSumSet`, `SumFunctionOnSet`) is unfolded to the recursive function it chooses, whose existence
and uniqueness are lemmas (`SumExists`, `SumIsUnique`, `SumIsFold`). These few lemmas are repeated in each module that
needs them.

Only model-checked: the liveness properties (`ReaderEnds`, `RunEnds`, `LastReaderEnds`, `CatchesUp`, `StoppedRunEnds`,
`DetectedIsDelivered`, `ResumeFinishes`, `ScriptEnds`), since proofs under fairness need `ENABLED`, which the prover
does not reason about. Every invariant and every action property that a passing run checks is proved.

## Findings

* `ReconnectsAreTheProviders`. `RunMicroBenchmark` subscribes under a set-up context and cancels that context with its
  next statement (`benchmark.go` 259-261). `Subscribe` derives the reader's context from it (`drpc.go` 224), so the
  first subscription always dies, and the run counts a subscription error and a reconnect that are not the
  provider's, as the published metrics say they are.
* `SeenBeforeInclusion`. A transaction counts as seen pending if it is known when the poll processes its block
  (`benchmark.go` 627), not when the block was made: up to a poll interval later. The published metrics speak of
  transactions observed before inclusion.

About the two retrievals: a side of the SQLite index may miss candidates although they are within the limit, because a
query returns rows of a deeper query once more and they use up its `LIMIT` (`db_index.go` 255). With candidates b at
depth 4 and b, c at depth 3 and a limit of two, c is never returned; `Roomy` is the bound from which on this cannot
happen. And the linear scan raises more than the tries, also with the default configuration: an agreement over two
nibbles can be enough for the threshold but not for retrieval. `TestTrieAndLinearAgreeOnAlerts` holds for its fixture;
`TrieIsScanCut` says what holds in general.

Noticed on the way: `README.md` 211 speaks of a warm-up of 60 seconds or 5 blocks, the code requires both
(`benchmark.go` 693-698, as its test does); the counter of dropped messages is never written (`drpc.go` 187).

About the Python programs, noticed while modelling. These are outside the properties, or are the exceptions they name:

* Dataset cache. A run that is interrupted between the two files leaves old metadata, or none, to vouch for a new cache
  (319-321). The size and time of the dump are stored and compared by nobody. The last condition of
  `dataset_cache_covers_request` is always true. With a negative `--max-rows` the reader yields one row, while
  everything else takes it for "all".
* Full-label replay. A summary torn by a crash makes every later run raise (`json.loads`), and a torn manifest a sweep.
  Shards are removed while the old manifest still says complete. The directories of results are not named after the
  seed, the shard count, the row limit or the tau grid, so a run with other values takes over stale summaries;
  `CountsAreExact` asks for one shard count and row limit. A run with `--day-boundaries` in a directory made without
  fails at its first summary, whose replay is gone. Loss rates that agree to two decimals share their files.
  Counterparties of the other party of a transfer may be in another shard.
* Ordinary run. A log is counted for every request that returns it. The history cache is never compared with the rows it
  was fetched for, and one with failed requests is kept for good; so is a token without an answer. A torn token file
  ends every later run; a torn counterparties file is rebuilt in memory, but the torn file goes to the detector. A
  summary torn by an interruption of detector-cli ends every later run of its job. With `--max-rows` an existing
  `--counterparties-cache` is what the detector reads, though others were built. Summaries of another replay are taken
  as they are. `write_report` says (1272) that "trusted counterparties are built only from valid intended transfers and
  exclude poisoning/payoff rows."; transfers from the node are excluded by the hashes of the selected rows only
  (621-678), so poisoning rows that were not selected may be among them. Daily counts are of events, the detector's of
  transactions.
* Active accounts. A probe that fails counts as "no code"; a block the node does not know counts as scanned; the limit
  per victim is of rows, not of counterparties; the row cap may leave chosen accounts without rows, though they are
  counted.
* Exporter and learners. The temporary file of a part matches the pattern of its readers, so that an enrichment that
  was interrupted, followed by an export that skips it or has fewer shards, has rows read twice. A smoke test and the
  full export of one day share a directory, and parts of both are read together with different cutoffs. Nobody reads
  the manifest. Shards without counterparties are counted for the cutoffs and not exported. The formula search reports
  test at the threshold that is best for test. `choose_threshold` gives 0.5 for no rows, where the histogram gives the
  lowest. `--variants` without the primary one loses its results at the end (`learn_lr_feature_ablation.py` 671). The
  notebook's copy compares sizes only, so that a part of another export with as many bytes is kept, and never removes a
  file, so that parts the package no longer has are read; `CopyHeals` is of parts of the package's own export, and
  `FullExportHeals` does not speak of the copy.

## Not modelled, and why

Latencies, artifacts, wording, HTTP and JSON are left out. `LastError` and `LastMessageAt` are left out of `Status`.
Configuration and store have no state between two calls that the modelled parts read, except for the import of a
configuration (`handleConfigImport`, `ApplyDetectorConfig`, `SaveConfigVersion`), which is the first thing to add: one
active version that is the one in use. Of the micro-benchmark, the sender/nonce groups and the counters of payloads
remain; of the detector, the prior rule and `MaxScore`; of `bench.go`, the search for a block's day.

Of the Python programs: feature values, regressions, random forests, bootstrap and rank tests, which are numeric;
reports, tables and the paper; `best_tau_rows` and `finalize_tau_sweep_aggregates`, which summarise finished counts;
`normalize-rpc` and its Parquet copies; the lookup scaling; `rerun_rq2_scaling.py` and the statistics scripts, which
run once over finished results; `--from-block` and `--to-block`; the resume of the formula search from its candidate
file; `--max-files`; the notebook's cells run out of their order. `write_full_label_shards` (1362-1475) has no caller.
F1 and the other ratios are compared exactly, where the code compares floating-point numbers. An export and a learner
are taken not to run at the same time, since one person starts both.
