---------------------------- MODULE BenchmarkRun ----------------------------
(***************************************************************************)
(* The ordinary run of python/benchmark_pipeline.py (main 2435-2683): it   *)
(* takes rows from the labelled dataset, gathers the trusted counterpart-  *)
(* ies of the accounts in them from the dataset and from the archive of a  *)
(* node, replays the rows as pending transfers to the detector and counts  *)
(* per day what it found.  In between it keeps files that a later run      *)
(* takes over: the metadata of tokens, the history read from the node, the *)
(* counterparties, and the summary of the detector.  An interruption may   *)
(* leave one of these open and empty: it is torn.                          *)
(*                                                                         *)
(* A label stands for a row of the dataset, a log for a token transfer on  *)
(* the chain.  A counterparty is seen at a block, and the times of blocks  *)
(* are 12 seconds apart.  A run has replays and summaries of many jobs,    *)
(* each with files of its own; the module follows one of them.             *)
(***************************************************************************)
EXTENDS Integers, Sequences, FiniteSets, FiniteSetsExt, Bags

CONSTANTS
  NoAddress,    \* the intended_addr of a row without one
  Labels,       \* the rows of the dataset, in order
  Logs,         \* the transfers the archive has
  Calls,        \* the ways the program is called
  Window,       \* --history-window-blocks
  MaxVictims,   \* --history-max-victims
  MaxEvents,    \* --max-events
  PoolSize,     \* benign_pool_size: benign rows kept for a replay
  BenignCount,  \* benign_n: benign events of a replay
  Jobs,         \* the jobs of a run, of which one is followed
  WindowDays,   \* window_days of the detector
  DaySeconds,   \* 86400
  WriteEvery,   \* tokens between two writes of their file, 50
  MaxFailed,    \* bound on the requests for history that fail in a run
  MaxRuns       \* bound on the runs

LabelFields == {"hash", "block", "victim", "lookalike", "token", "intended_addr",
                "intended", "poison", "payoff"}

\* max_rows 0 streams the whole dataset; refresh is --refresh-rpc-cache, url
\* that there is a node to ask and no --no-rpc-enrich, reuse that
\* --counterparties-cache names the file of earlier runs.  Tokens are numbered
\* in the order of their addresses.  A job is a method, a delay and whether its
\* loss rate is above 0.
ASSUME RunAssumption ==
  /\ Len(Labels) \in Nat /\ DOMAIN Labels = 1..Len(Labels)
  /\ \A i \in DOMAIN Labels :
       /\ LabelFields \subseteq DOMAIN Labels[i]
       /\ Labels[i].block \in Nat /\ Labels[i].token \in Nat
       /\ {Labels[i].poison, Labels[i].payoff} \subseteq BOOLEAN
  /\ \A l \in DOMAIN Logs :
       /\ {"hash", "block", "from", "to", "token", "value"} \subseteq DOMAIN Logs[l]
       /\ Logs[l].block \in Nat /\ Logs[l].token \in Nat
  /\ Calls \subseteq [max_rows : Nat, refresh : BOOLEAN, url : BOOLEAN,
                      reuse : BOOLEAN]
  /\ \A j \in Jobs :
       /\ {"method", "delay", "loss"} \subseteq DOMAIN j
       /\ j.delay \in Nat \ {0} /\ j.loss \in BOOLEAN
  /\ {Window, MaxVictims, MaxEvents, PoolSize, BenignCount, WindowDays, MaxFailed, MaxRuns}
       \subseteq Nat
  /\ DaySeconds \in Nat \ {0} /\ WriteEvery \in Nat \ {0}

VARIABLES
  tokenFile,    \* token_metadata_cache.json
  historyFile,  \* rpc_history_counterparties_cache.json
  trustedFile,  \* counterparties.json
  summaryFile,  \* summary_<method>.json, of the job
  job,          \* the job that is followed
  pc,           \* where the process is
  call,         \* its arguments
  rows,         \* the labels it has selected
  history,      \* rpc_enriched, a bag of counterparties
  trusted,      \* counterparties, a bag
  cache,        \* token metadata: token -> whether it has any
  toWrite,      \* missing_written
  replay,       \* the events of the replay, in order
  daily,        \* daily metrics
  runs,         \* runs started
  fetched,      \* history: the rows whose history the run itself fetched
  known         \* history: tokens that a file ever had metadata of

files == <<tokenFile, historyFile, trustedFile, summaryFile>>
gathering == <<rows, history, trusted, cache, toWrite, fetched>>
measuring == <<replay, daily>>
vars == <<files, pc, call, gathering, measuring, runs, known, job>>

\* A file that is open is empty until its contents are written.
NoFile == [state |-> "absent", data |-> <<>>]
OpenFile == [state |-> "torn", data |-> <<>>]
File(data) == [state |-> "whole", data |-> data]

Init ==
  /\ tokenFile = NoFile /\ historyFile = NoFile
  /\ trustedFile = NoFile /\ summaryFile = NoFile
  /\ job \in Jobs
  /\ pc = "idle"
  /\ call \in Calls
  /\ rows = {} /\ history = EmptyBag /\ trusted = EmptyBag
  /\ cache = <<>> /\ toWrite = 0
  /\ replay = <<>> /\ daily = <<>>
  /\ runs = 0 /\ fetched = {} /\ known = {}
-----------------------------------------------------------------------------
(* What the rows of the dataset say. *)

Poisoning(i) == Labels[i].poison
Payoff(i) == Labels[i].payoff

Benign(i) == Labels[i].intended /\ ~Poisoning(i) /\ ~Payoff(i)

First(set, n) == {i \in set : Cardinality({j \in set : j < i}) < n}

\* A row that has a trusted counterparty: seen is its block.
Valid(i) == Benign(i) /\ Labels[i].intended_addr # NoAddress

LabelKey(i) == <<Labels[i].victim, Labels[i].intended_addr, Labels[i].token, Labels[i].block>>

\* The bag of the keys of some items.
Counted(items, key) ==
  [k \in {key[i] : i \in items} |-> Cardinality({i \in items : key[i] = k})]

LabelCounterparties(set) ==
  LET valid == {i \in set : Valid(i)}
  IN  Counted(valid, [i \in valid |-> LabelKey(i)])

Victims(set) == {Labels[i].victim : i \in set}
TokensOf(set) == {Labels[i].token : i \in set}

Streams == call.max_rows = 0

\* select_replay_rows_from_parquet: the first poisoning rows, and of the
\* benign ones as many as the pool has room for, taken at random.
Selected(pool) == First({i \in DOMAIN Labels : Poisoning(i)}, MaxEvents) \cup pool

Pools ==
  LET benign == {i \in DOMAIN Labels : Benign(i)}
  IN  {pool \in SUBSET benign :
         Cardinality(pool) = IF Cardinality(benign) < PoolSize THEN Cardinality(benign)
                                                              ELSE PoolSize}
-----------------------------------------------------------------------------
(* fetch_history_counterparties. *)

Rowcount(v) == Cardinality({i \in rows : Labels[i].victim = v})

\* The victims with most rows; equal ones are taken in any order.
TopVictims ==
  {top \in SUBSET Victims(rows) :
     /\ Cardinality(top) = IF Cardinality(Victims(rows)) < MaxVictims
                             THEN Cardinality(Victims(rows)) ELSE MaxVictims
     /\ \A v \in top, w \in Victims(rows) \ top : Rowcount(v) >= Rowcount(w)}

Anchors ==
  LET blocks == {Labels[i].block : i \in rows}
  IN  <<Min(blocks), (Min(blocks) + Max(blocks)) \div 2, Max(blocks)>>

Requests(top) == top \X (1..3) \X {"from", "to"}

\* Bug: the payoffs of the rows are not left out.
BugExcludedHashes == {Labels[i].hash : i \in {j \in rows : Poisoning(j)}}

ExcludedHashes == {Labels[i].hash : i \in {j \in rows : Poisoning(j) \/ Payoff(j)}}

\* The logs a request returns that are counted.
Answer(request) ==
  {l \in DOMAIN Logs :
     /\ Logs[l].block \in (Anchors[request[2]] - Window)..Anchors[request[2]]
     /\ Logs[l][request[3]] = request[1]
     /\ Logs[l].hash \notin ExcludedHashes
     /\ Logs[l].value > 0}

LogKey(victim, l) ==
  <<victim, IF Logs[l].from = victim THEN Logs[l].to ELSE Logs[l].from,
    Logs[l].token, Logs[l].block>>

\* A log is counted for every request that returns it.
Fetched(requests) ==
  LET items == UNION {{r} \X Answer(r) : r \in requests}
  IN  Counted(items, [x \in items |-> LogKey(x[1][1], x[2])])
-----------------------------------------------------------------------------
(* The run, up to the counterparties. *)

ReusesTrusted == call.reuse /\ trustedFile.state = "whole"

Start(c) ==
  /\ pc = "idle"
  /\ runs < MaxRuns
  /\ runs' = runs + 1
  /\ call' = c
  /\ pc' = "rows"
  /\ UNCHANGED <<files, gathering, measuring, known, job>>

\* The process ends, and what it had in memory is gone.
RunEnds ==
  /\ pc' = "idle"
  /\ rows' = {} /\ history' = EmptyBag /\ trusted' = EmptyBag
  /\ cache' = <<>> /\ toWrite' = 0 /\ fetched' = {}
  /\ replay' = <<>> /\ daily' = <<>>
  /\ UNCHANGED <<files, call, runs, known, job>>

\* Rows are selected from the whole dataset, or they are its first.
SelectRows(pool) ==
  /\ pc = "rows"
  /\ Streams
  /\ rows' = Selected(pool)
  /\ pc' = IF ReusesTrusted THEN "trusted" ELSE "history"
  /\ UNCHANGED <<files, call, history, trusted, cache, toWrite, fetched, measuring, runs, known, job>>

LoadRows ==
  /\ pc = "rows"
  /\ ~Streams
  /\ rows' = First(DOMAIN Labels, call.max_rows)
  /\ pc' = "metadata"
  /\ UNCHANGED <<files, call, history, trusted, cache, toWrite, fetched, measuring, runs, known, job>>

\* load_counterparties_cache, of a file that can be read.
TakeTrusted ==
  /\ pc = "trusted"
  /\ trusted' = trustedFile.data
  /\ pc' = "metadata"
  /\ UNCHANGED <<files, call, rows, history, cache, toWrite, fetched, measuring, runs, known, job>>

\* load_history_cache: whatever rows it was fetched for.  A file that cannot
\* be read is no file.
TakeHistory ==
  /\ pc = "history"
  /\ ~call.refresh /\ historyFile.state = "whole"
  /\ history' = historyFile.data
  /\ pc' = "build"
  /\ UNCHANGED <<files, call, rows, trusted, cache, toWrite, fetched, measuring, runs, known, job>>

NoHistory ==
  /\ pc = "history"
  /\ call.refresh \/ historyFile.state # "whole"
  /\ ~call.url
  /\ pc' = "build"
  /\ UNCHANGED <<files, call, gathering, measuring, runs, known, job>>

\* A request that fails adds nothing and is not remembered.
FetchHistory(top, failed) ==
  /\ pc = "history"
  /\ call.refresh \/ historyFile.state # "whole"
  /\ call.url
  /\ history' = Fetched(Requests(top) \ failed)
  /\ fetched' = rows
  /\ historyFile' = OpenFile
  /\ pc' = "history open"
  /\ UNCHANGED <<tokenFile, trustedFile, summaryFile, call, rows, trusted, cache, toWrite,
                 measuring, runs, known, job>>

WriteHistory ==
  /\ pc = "history open"
  /\ historyFile' = File(history)
  /\ pc' = "build"
  /\ UNCHANGED <<tokenFile, trustedFile, summaryFile, call, gathering, measuring, runs, known, job>>

\* build_counterparties, of the rows, or for the victims of the rows
\* build_counterparties_for_victims_from_parquet, of the whole dataset.
Build ==
  /\ pc = "build"
  /\ trusted' =
       IF Streams
         THEN LabelCounterparties({i \in DOMAIN Labels : Labels[i].victim \in Victims(rows)})
              (+) [k \in {h \in DOMAIN history : h[1] \in Victims(rows)} |-> history[k]]
         ELSE LabelCounterparties(rows) (+) history
  /\ pc' = IF Streams THEN "metadata" ELSE "counterparties"
  /\ UNCHANGED <<files, call, rows, history, cache, toWrite, fetched, measuring, runs, known, job>>
-----------------------------------------------------------------------------
(* fetch_token_metadata. *)

HasMetadata(data) == {t \in DOMAIN data : data[t]}

\* Bug: a file that cannot be read is taken for an empty one.
BugLoadTokens ==
  /\ pc = "metadata"
  /\ cache' = tokenFile.data
  /\ pc' = "tokens"
  /\ UNCHANGED <<files, call, rows, history, trusted, toWrite, fetched, measuring, runs, known, job>>

\* A file that cannot be read ends the run, and every later one.
LoadTokens ==
  /\ pc = "metadata"
  /\ tokenFile.state # "torn"
  /\ cache' = tokenFile.data
  /\ pc' = "tokens"
  /\ UNCHANGED <<files, call, rows, history, trusted, toWrite, fetched, measuring, runs, known, job>>

LoadTokensFails == pc = "metadata" /\ tokenFile.state = "torn" /\ RunEnds

\* The tokens of the rows, and of the counterparties where they were built
\* before.
Wanted ==
  TokensOf(rows) \cup (IF Streams /\ ~ReusesTrusted THEN {k[3] : k \in DOMAIN trusted} ELSE {})

\* A token is asked for once: one whose requests fail, or for which there is
\* no node to ask, is in the file from then on as one without metadata.
AskToken(answered) ==
  /\ pc = "tokens"
  /\ Wanted \ DOMAIN cache # {}
  /\ answered => call.url
  /\ LET t == Min(Wanted \ DOMAIN cache)
     IN  cache' = [u \in DOMAIN cache \cup {t} |-> IF u = t THEN answered ELSE cache[u]]
  /\ toWrite' = toWrite + 1
  /\ IF (toWrite + 1) % WriteEvery = 0
       THEN tokenFile' = OpenFile /\ pc' = "tokens open"
       ELSE UNCHANGED <<tokenFile, pc>>
  /\ UNCHANGED <<historyFile, trustedFile, summaryFile, call, rows, history, trusted, fetched,
                 measuring, runs, known, job>>

OpenTokens ==
  /\ pc = "tokens"
  /\ Wanted \subseteq DOMAIN cache
  /\ tokenFile' = OpenFile
  /\ pc' = "tokens last"
  /\ UNCHANGED <<historyFile, trustedFile, summaryFile, call, gathering, measuring, runs, known, job>>

\* write_token_cache.
WriteTokens ==
  /\ pc \in {"tokens open", "tokens last"}
  /\ tokenFile' = File(cache)
  /\ known' = known \cup HasMetadata(cache)
  /\ pc' = CASE pc = "tokens open" -> "tokens"
             [] Streams -> "counterparties"
             [] OTHER -> "history"
  /\ UNCHANGED <<historyFile, trustedFile, summaryFile, call, gathering, measuring, runs, job>>
-----------------------------------------------------------------------------
(* The replay. *)

\* Where --counterparties-cache names a file that is there, it is that file
\* the detector will read, whatever the run has gathered.
UseTrusted ==
  /\ pc = "counterparties"
  /\ call.reuse /\ trustedFile.state # "absent"
  /\ pc' = "replay"
  /\ UNCHANGED <<files, call, gathering, measuring, runs, known, job>>

OpenTrusted ==
  /\ pc = "counterparties"
  /\ ~call.reuse \/ trustedFile.state = "absent"
  /\ trustedFile' = OpenFile
  /\ pc' = "counterparties open"
  /\ UNCHANGED <<tokenFile, historyFile, summaryFile, call, gathering, measuring, runs, known, job>>

WriteTrusted ==
  /\ pc = "counterparties open"
  /\ trustedFile' = File(trusted)
  /\ pc' = "replay"
  /\ UNCHANGED <<tokenFile, historyFile, summaryFile, call, gathering, measuring, runs, known, job>>

BlockTime(block) == 12 * block

\* replay_event.
ReplayEvent(i, visible) ==
  [hash |-> Labels[i].hash, block |-> Labels[i].block, poison |-> Poisoning(i),
   victim |-> Labels[i].victim, lookalike |-> Labels[i].lookalike,
   at |-> BlockTime(Labels[i].block) - job.delay, visible |-> visible]

\* The benign rows a replay may have.
Samples ==
  LET benign == {i \in rows : Benign(i)}
  IN  {s \in SUBSET benign :
         Cardinality(s) = IF Cardinality(benign) < BenignCount THEN Cardinality(benign)
                                                              ELSE BenignCount}

\* build_replay and write_jsonl.  The order the events are shuffled into is
\* of no effect on what is counted here; they are kept in that of the rows.
BuildReplay(sample, lost) ==
  /\ pc = "replay"
  /\ lost # {} => job.loss
  /\ LET chosen == First({i \in rows : Poisoning(i)}, MaxEvents) \cup sample
         at(n) == CHOOSE i \in chosen : Cardinality({j \in chosen : j < i}) = n - 1
     IN  /\ lost \subseteq chosen
         /\ replay' = [n \in 1..Cardinality(chosen) |-> ReplayEvent(at(n), at(n) \notin lost)]
  /\ pc' = "detect"
  /\ UNCHANGED <<files, call, gathering, daily, runs, known, job>>

Hashes(events) == {events[n].hash : n \in DOMAIN events}

IsPoison(events, hash) ==
  \E n \in DOMAIN events : events[n].hash = hash /\ events[n].poison

\* The counts of detector-cli are of transactions.
Confusion(events, alerts) ==
  LET poison == {h \in Hashes(events) : IsPoison(events, h)}
  IN  [tp |-> Cardinality(poison \cap alerts),
       fp |-> Cardinality(alerts \ poison),
       fn |-> Cardinality(poison \ alerts)]

\* What is confirmed is seen, pending or not.
Sees(event) == job.method = "confirmed_chain" \/ event.visible

\* Bug: it counts whenever it was seen.
BugActive(k, event) ==
  WindowDays > 0 => event.at - BlockTime(k[4]) <= WindowDays * DaySeconds

\* counterpartyActive: the counterparty was seen by then, and not too long ago.
Active(k, event) ==
  /\ BlockTime(k[4]) <= event.at
  /\ WindowDays > 0 => event.at - BlockTime(k[4]) <= WindowDays * DaySeconds

\* Either address of an event may be the victim, and the other the lookalike.
Sides(event) == {<<event.victim, event.lookalike>>, <<event.lookalike, event.victim>>}

\* An alert needs an active counterparty of the victim that is not the
\* lookalike itself; whether it is alike enough is left open.
Suspicious(event, counterparties) ==
  \E k \in counterparties, side \in Sides(event) :
    k[1] = side[1] /\ k[2] # side[2] /\ Active(k, event)

\* run_detector.  A summary that is there is taken as it is, and one that
\* cannot be read ends the run, and every later one.
TakeSummary ==
  /\ pc = "detect"
  /\ summaryFile.state = "whole"
  /\ pc' = "measure"
  /\ UNCHANGED <<files, call, gathering, measuring, runs, known, job>>

BadSummary == pc = "detect" /\ summaryFile.state = "torn" /\ RunEnds

\* detector-cli has read the counterparties, and opens the summary.
OpenSummary ==
  /\ pc = "detect"
  /\ summaryFile.state = "absent" /\ trustedFile.state = "whole"
  /\ summaryFile' = OpenFile
  /\ pc' = "detect open"
  /\ UNCHANGED <<tokenFile, historyFile, trustedFile, call, gathering, measuring, runs, known, job>>

\* The code keeps counts and alerts; the replay and the counterparties they
\* rest on are for the properties alone.
WriteSummary(alerts) ==
  /\ pc = "detect open"
  /\ alerts \subseteq {replay[n].hash : n \in {m \in DOMAIN replay :
                         Sees(replay[m]) /\ Suspicious(replay[m], DOMAIN trustedFile.data)}}
  /\ summaryFile' = File([alerts |-> alerts, metrics |-> Confusion(replay, alerts),
                          replay |-> replay, trusted |-> DOMAIN trustedFile.data])
  /\ pc' = "measure"
  /\ UNCHANGED <<tokenFile, historyFile, trustedFile, call, gathering, measuring, runs, known, job>>

\* detector-cli fails where it cannot read the counterparties, and so does
\* the run.
DetectFails ==
  pc = "detect" /\ summaryFile.state = "absent" /\ trustedFile.state # "whole" /\ RunEnds

Day(event) == event.at \div DaySeconds

\* Bug: counts as missed only what was to be seen.
BugDayCounts(events, alerts, day) ==
  LET today == {n \in DOMAIN events : Day(events[n]) = day}
      found == {n \in today : events[n].hash \in alerts}
      poison == {n \in today : events[n].poison}
  IN  [tp |-> Cardinality(found \cap poison),
       fp |-> Cardinality(found \ poison),
       fn |-> Cardinality({n \in poison \ found : events[n].visible})]

\* The counts of method_daily_metrics are of events.
DayCounts(events, alerts, day) ==
  LET today == {n \in DOMAIN events : Day(events[n]) = day}
      found == {n \in today : events[n].hash \in alerts}
      poison == {n \in today : events[n].poison}
  IN  [tp |-> Cardinality(found \cap poison),
       fp |-> Cardinality(found \ poison),
       fn |-> Cardinality(poison \ found)]

\* combine_metrics and method_daily_metrics: the replay is this run's, the
\* summary may be another's.
Measure ==
  /\ pc = "measure"
  /\ daily' = [d \in {Day(replay[n]) : n \in DOMAIN replay} |->
                 DayCounts(replay, summaryFile.data.alerts, d)]
  /\ pc' = "reports"
  /\ UNCHANGED <<files, call, gathering, replay, runs, known, job>>

\* The run ends: after its reports, with --prepare-only or --normalize-only,
\* because it is interrupted, or because the dataset has no poisoning row.
Stop == pc # "idle" /\ RunEnds

Failures(top) == {f \in SUBSET Requests(top) : Cardinality(f) <= MaxFailed}

Next ==
  \/ \E c \in Calls : Start(c)
  \/ \E pool \in Pools : SelectRows(pool)
  \/ LoadRows
  \/ TakeTrusted \/ TakeHistory \/ NoHistory
  \/ pc = "history" /\ \E top \in TopVictims : \E failed \in Failures(top) :
       FetchHistory(top, failed)
  \/ WriteHistory \/ Build
  \/ LoadTokens \/ LoadTokensFails \/ OpenTokens \/ WriteTokens
  \/ \E answered \in BOOLEAN : AskToken(answered)
  \/ UseTrusted \/ OpenTrusted \/ WriteTrusted
  \/ \E sample \in Samples, lost \in SUBSET rows : BuildReplay(sample, lost)
  \/ TakeSummary \/ BadSummary \/ OpenSummary
  \/ \E alerts \in SUBSET Hashes(replay) : WriteSummary(alerts)
  \/ DetectFails \/ Measure \/ Stop

Spec == Init /\ [][Next]_vars
-----------------------------------------------------------------------------
(* Properties. *)

\* What a run has gathered by itself, without the history or the list of an
\* earlier run, is free of the attacks it is to replay: every trusted
\* counterparty was the intended recipient of a row that is neither poisoning
\* nor payoff, or took part in a transfer of value that no poisoning or payoff
\* row of the run stands for, whatever requests failed (383-428, 621-678 and
\* 725-758).
TrustedIsClean ==
  (fetched = rows \/ history = EmptyBag) /\ ~ReusesTrusted =>
    \A k \in DOMAIN trusted :
      \/ \E i \in DOMAIN Labels : Valid(i) /\ LabelKey(i) = k
      \/ \E l \in DOMAIN Logs :
           /\ LogKey(k[1], l) = k /\ k[1] \in {Logs[l].from, Logs[l].to}
           /\ Logs[l].value > 0
           /\ ~\E i \in rows : Labels[i].hash = Logs[l].hash /\ (Poisoning(i) \/ Payoff(i))

\* A counterparty that a row of the dataset names, or a transfer of the
\* archive, at the block it is said to be seen in.
Seen(k) ==
  \/ \E i \in DOMAIN Labels : Valid(i) /\ LabelKey(i) = k
  \/ \E l \in DOMAIN Logs :
       LogKey(k[1], l) = k /\ k[1] \in {Logs[l].from, Logs[l].to} /\ Logs[l].value > 0

\* "It keeps time-aware trusted counterparties" (README 3): every alert of a
\* summary rests on a counterparty of an address of its event that was really
\* seen, in a block before the event's own, though the counterparties of all
\* blocks are loaded before the replay begins, and whichever run gathered
\* them, fetched their history or wrote the summary (383-428, 621-702,
\* 725-783; engine.go 762-773).
NoLookahead ==
  summaryFile.state = "whole" =>
    \A h \in summaryFile.data.alerts :
      \E n \in DOMAIN summaryFile.data.replay, k \in summaryFile.data.trusted :
        LET event == summaryFile.data.replay[n]
        IN  /\ event.hash = h
            /\ k[1] \in {event.victim, event.lookalike}
            /\ k[4] < event.block /\ Seen(k)

\* Where a run has its metadata behind it.
PastMetadata ==
  \/ pc \in {"counterparties", "counterparties open", "replay", "detect", "detect open",
              "measure", "reports"}
  \/ ~Streams /\ pc \in {"history", "history open", "build"}

\* A token file that can be read has the metadata every earlier version had,
\* across interrupted writes, runs without a node and requests that fail, and
\* no run goes on past its metadata without such a file.  A rewrite that is
\* interrupted does lose what the file had: the file is torn, and every later
\* run stops at it (569-606).
MetadataKept ==
  /\ tokenFile.state = "whole" => known \subseteq HasMetadata(tokenFile.data)
  /\ PastMetadata => tokenFile.state = "whole"

\* The days add up, where the summary is of this replay: every poisoning
\* event is found or missed on one day, and where no transaction has two
\* events the days together have the detector's counts (903-942; bench.go
\* 568-600).
DailyAddsUp ==
  pc = "reports" /\ summaryFile.data.replay = replay =>
    LET total(count) == MapThenSumSet(LAMBDA d : daily[d][count], DOMAIN daily)
    IN  /\ total("tp") + total("fn") = Cardinality({n \in DOMAIN replay : replay[n].poison})
        /\ Cardinality(Hashes(replay)) = Len(replay) =>
             \A count \in {"tp", "fp", "fn"} :
               total(count) = summaryFile.data.metrics[count]
=============================================================================
