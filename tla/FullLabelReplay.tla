-------------------------- MODULE FullLabelReplay --------------------------
(***************************************************************************)
(* The full-label replay and its tau sweep (python/benchmark_pipeline.py,  *)
(* run_full_label_pipeline and run_full_label_tau_sweep).  The labelled    *)
(* rows are split by victim into shards; for each shard a replay file is   *)
(* made, and a pool of threads runs detector-cli on it once per method.    *)
(* Every result is a file, and a run that is started again in the same     *)
(* directory goes on with the files it finds.                              *)
(*                                                                         *)
(* The manifest, the shards, the replays and the summaries survive a       *)
(* crash; the rest is the memory of the process.  A file of rows is the    *)
(* set of their numbers, since each event's hash ends with its number.     *)
(***************************************************************************)
EXTENDS Integers, Sequences, FiniteSets, FiniteSetsExt

CONSTANTS
  Rows,        \* the rows of the Parquet cache, in order
  NoAddress,   \* an address that is no address
  HashOf,      \* address -> the number its shard is taken from
  Resembles,   \* method -> pairs <<pending, trusted>> it takes for alike
  Hidden,      \* <<row, run, loss>> for which stable_visible is false
  Args,        \* the arguments a run may have
  BenchmarkRuns, Delays,
  FixedTau,    \* the one tau of a replay
  TauGrid,     \* the taus of a sweep
  BatchShards, \* --shard-batch-size
  Workers,     \* --jobs
  MaxRuns,     \* bound on the times the program is started
  MaxFaults    \* bound on crashes and on failures of detector-cli

Production == "mempool_trieguard"
RunIds == 0..(BenchmarkRuns - 1)
Losses == UNION {a.losses : a \in Args}
Methods == {Production} \cup UNION {a.methods : a \in Args}
ShardCounts == {a.shard_count : a \in Args}
Shards == 0..(Max(ShardCounts) - 1)
Row == 1..Len(Rows)

\* format_loss_label: two decimals of a rate counted in thousandths.
LossLabel(loss) == (loss + 5) \div 10

\* A loss rate of 0 hides nothing; two loss rates that differ are written
\* differently.
ASSUME FullLabelAssumption ==
  /\ BatchShards \in Nat \ {0} /\ Workers \in Nat \ {0}
  /\ BenchmarkRuns \in Nat \ {0} /\ IsFiniteSet(Delays)
  /\ Len(Rows) \in Nat
  /\ \A i \in Row : Rows[i].victim # NoAddress => HashOf[Rows[i].victim] \in Nat
  /\ \A x \in Hidden : x[3] # 0
  /\ IsFiniteSet(ShardCounts) /\ ShardCounts \subseteq Nat \ {0}
  /\ \A a \in Args : /\ a.program \in {"replay", "sweep"} /\ a.max_rows \in Nat
                     /\ IsFiniteSet(a.losses) /\ IsFiniteSet(a.methods)
  /\ \A l, m \in Losses : LossLabel(l) = LossLabel(m) => l = m

VARIABLES
  manifest,     \* full_label_manifest.json
  events, cps,  \* shard -> the rows in its two files
  replay,       \* replay path -> its file
  summary,      \* job -> summary or tau_sweep file
  daily,        \* the jobs that have a daily_metrics file
  pc, args,     \* where the process is, and its arguments
  nextRow,      \* the row write_full_label_shards_fast reads next
  run, todo,    \* run_id, and the shards it has not scheduled
  toWrite,      \* replays of the batch still to be made, the first half made
  replayPaths,  \* replay_paths of the batch
  jobs,         \* job of the batch -> how far it is
  metrics,      \* metric_rows of a replay
  aggregates,   \* of a sweep: method, loss and tau -> confusion matrix
  starts, faults,
  shapes,       \* history: the shard counts and row limits of all runs
  blind         \* history: jobs whose detector-cli found no whole replay

disk == <<manifest, events, cps, replay, summary, daily>>
results == <<metrics, aggregates>>
batchVars == <<run, todo, toWrite, replayPaths, jobs, results>>
bounds == <<starts, faults, shapes>>
vars == <<disk, pc, args, nextRow, batchVars, bounds, blind>>

Taus(program) == IF program = "replay" THEN {FixedTau} ELSE TauGrid
Cells == {"tp", "fp", "fn", "tn"}
NoRows == [x \in Methods \X Losses \X TauGrid |-> [c \in Cells |-> 0]]

NoManifest == [status |-> "none"]
TornManifest == [status |-> "torn"]
NoSummary == [state |-> "none"]
TornSummary == [state |-> "torn"]
NoReplay == [there |-> FALSE, whole |-> FALSE, rows |-> {}]

\* A job's files are in directories named after the program, the run, the
\* loss rate, the delay, the shard and the method, and after nothing else.
Path(p, r, l, d, s, m) ==
  [program |-> p, run |-> r, loss |-> LossLabel(l), delay |-> d, shard |-> s, method |-> m]
ReplayPath(p, r, l, d, s) ==
  [program |-> p, run |-> r, loss |-> LossLabel(l), delay |-> d, shard |-> s]
Programs == {a.program : a \in Args}
Paths == {Path(p, r, l, d, s, m) : p \in Programs, r \in RunIds, l \in Losses,
                                   d \in Delays, s \in Shards, m \in Methods}
ReplayPaths == {ReplayPath(p, r, l, d, s) : p \in Programs, r \in RunIds, l \in Losses,
                                            d \in Delays, s \in Shards}

Init ==
  /\ manifest = NoManifest
  /\ events = [s \in Shards |-> {}] /\ cps = [s \in Shards |-> {}]
  /\ replay = [p \in ReplayPaths |-> NoReplay]
  /\ summary = [j \in Paths |-> NoSummary]
  /\ daily = {}
  /\ pc = "idle"
  /\ args \in Args
  /\ nextRow = 1
  /\ run = 0 /\ todo = {} /\ toWrite = {} /\ replayPaths = {}
  /\ jobs = <<>>
  /\ metrics = {} /\ aggregates = NoRows
  /\ starts = 0 /\ faults = 0 /\ shapes = {} /\ blind = {}
-----------------------------------------------------------------------------
(* The labels and the shards. *)

IsPositive(row) == row.flags \cap {"zero_value", "tiny", "counterfeit"} # {}
IsNegative(row) ==
  /\ "intended" \in row.flags
  /\ ~IsPositive(row)
  /\ row.flags \cap {"payoff", "payoff_unconfirmed"} = {}
Labelled(row) == IsPositive(row) \/ IsNegative(row)

HasParties(row) == NoAddress \notin {row.victim, row.lookalike}

\* Bug: shards by the lookalike.
BugShardFor(row, shardCount) == HashOf[row.lookalike] % shardCount
ShardFor(row, shardCount) == HashOf[row.victim] % shardCount

RowsRead(a) == IF a.max_rows > 0 THEN Min({a.max_rows, Len(Rows)}) ELSE Len(Rows)
Used(a) == {i \in 1..RowsRead(a) : HasParties(Rows[i])}
EventRows(a) == {i \in Used(a) : Labelled(Rows[i])}
Trusted(a) == {i \in Used(a) : IsNegative(Rows[i]) /\ Rows[i].intended # NoAddress}

\* The manifest counts what was written.
ManifestOf(a) ==
  [status |-> "complete", shard_count |-> a.shard_count, max_rows |-> a.max_rows,
   events |-> [s \in Shards |-> Cardinality(events[s])]]

ManifestFits(a) ==
  /\ manifest.status = "complete"
  /\ manifest.shard_count = a.shard_count
  /\ manifest.max_rows = a.max_rows

RemoveShards ==
  /\ events' = [s \in Shards |-> {}]
  /\ cps' = [s \in Shards |-> {}]

\* The shards of a results directory are used as they are; a manifest that
\* is no JSON ends the run with an exception.
UseSource ==
  /\ IF manifest = TornManifest
       THEN pc' = "idle" /\ todo' = {}
       ELSE pc' = "batch" /\ todo' = {s \in Shards : manifest.events[s] > 0}
  /\ UNCHANGED <<events, cps>>

\* The shards of this directory are used if the manifest says they are those
\* of the request, or made anew: they are removed while the old manifest
\* stays.
UseOrMakeShards(a) ==
  IF ManifestFits(a)
    THEN /\ pc' = "batch" /\ todo' = {s \in Shards : manifest.events[s] > 0}
         /\ UNCHANGED <<events, cps>>
    ELSE pc' = "shard" /\ todo' = {} /\ RemoveShards

Begin(a) ==
  /\ pc \in {"idle", "done"}
  /\ starts < MaxRuns
  /\ starts' = starts + 1
  /\ args' = a
  /\ shapes' = shapes \cup {<<a.shard_count, a.max_rows>>}
  /\ metrics' = {} /\ aggregates' = NoRows
  /\ blind' = {} /\ run' = 0 /\ nextRow' = 1
  /\ UNCHANGED <<manifest, replay, summary, daily, toWrite, replayPaths, jobs, faults>>

\* a.source: --full-label-source-results-dir names the results directory
\* itself.
StartReplay(a) ==
  /\ a.program = "replay"
  /\ Begin(a)
  /\ IF a.source /\ manifest # NoManifest THEN UseSource ELSE UseOrMakeShards(a)

\* A sweep takes the results directory for its source unless it is told
\* another.
StartSweep(a) ==
  /\ a.program = "sweep"
  /\ Begin(a)
  /\ IF manifest # NoManifest THEN UseSource ELSE UseOrMakeShards(a)

Start(a) == StartReplay(a) \/ StartSweep(a)

\* One row of the Parquet file.
ShardRow ==
  /\ pc = "shard"
  /\ nextRow <= RowsRead(args)
  /\ nextRow' = nextRow + 1
  /\ LET row == Rows[nextRow]
         shard == ShardFor(row, args.shard_count)
         add(files, cond) == IF cond THEN [files EXCEPT ![shard] = @ \cup {nextRow}] ELSE files
     IN IF HasParties(row)
          THEN /\ cps' = add(cps, IsNegative(row) /\ row.intended # NoAddress)
               /\ events' = add(events, Labelled(row))
          ELSE UNCHANGED <<events, cps>>
  /\ UNCHANGED <<manifest, replay, summary, daily, pc, args, batchVars, bounds, blind>>

OpenManifest ==
  /\ pc = "shard"
  /\ nextRow > RowsRead(args)
  /\ manifest' = TornManifest
  /\ pc' = "manifest"
  /\ UNCHANGED <<events, cps, replay, summary, daily, args, nextRow, batchVars, bounds, blind>>

WriteManifest ==
  /\ pc = "manifest"
  /\ manifest' = ManifestOf(args)
  /\ pc' = "batch"
  /\ todo' = {s \in Shards : events[s] # {}}
  /\ UNCHANGED <<events, cps, replay, summary, daily, args, nextRow, run, toWrite,
                 replayPaths, jobs, results, bounds, blind>>
-----------------------------------------------------------------------------
(* A batch of shards: its replays, then its jobs. *)

\* The next shards of the list, of which those without events are skipped.
Batch == {s \in todo : Cardinality({t \in todo : t < s}) < BatchShards}
BatchShardsThere == {s \in Batch : events[s] # {}}

\* A replay with losses is run for the production method only.
ReplayMethods(a, loss) == IF loss = 0 THEN a.methods ELSE {Production}
Scheduled(a, loss) == IF a.program = "replay" THEN ReplayMethods(a, loss) ELSE a.methods

JobsOn(a, r, l, d, s) == {Path(a.program, r, l, d, s, m) : m \in Scheduled(a, l)}

\* Bug: makes the replay only if no method has its summary.
BugNeedsReplay(a, r, l, d, s) == \A j \in JobsOn(a, r, l, d, s) : summary[j] = NoSummary
NeedsReplay(a, r, l, d, s) == \E j \in JobsOn(a, r, l, d, s) : summary[j] = NoSummary

LossOf(label) == CHOOSE l \in Losses : LossLabel(l) = label

ScheduleBatch ==
  /\ pc = "batch"
  /\ todo # {}
  /\ LET settings == args.losses \X Delays \X BatchShardsThere
         new == {x \in settings : NeedsReplay(args, run, x[1], x[2], x[3])}
     IN /\ jobs' = [j \in UNION {JobsOn(args, run, x[1], x[2], x[3]) : x \in settings}
                      |-> "queued"]
        /\ toWrite' = {ReplayPath(args.program, run, x[1], x[2], x[3]) : x \in new}
        /\ replayPaths' = toWrite'
  /\ pc' = "replays"
  /\ UNCHANGED <<disk, args, nextRow, run, todo, results, bounds, blind>>

\* materialize_full_label_replay: the file is opened, which empties it, and
\* then written.  Whether an event is visible is decided by its hash.
OpenReplay ==
  /\ pc = "replays"
  /\ \E p \in toWrite :
       /\ \A q \in toWrite : ~replay[q].there \/ replay[q].whole
       /\ replay' = [replay EXCEPT ![p] = [there |-> TRUE, whole |-> FALSE, rows |-> {}]]
  /\ UNCHANGED <<manifest, events, cps, summary, daily, pc, args, nextRow, batchVars,
                 bounds, blind>>

WriteReplay ==
  /\ pc = "replays"
  /\ \E p \in toWrite :
       /\ replay[p].there /\ ~replay[p].whole
       /\ replay' = [replay EXCEPT ![p] =
                       [there |-> TRUE, whole |-> TRUE,
                        rows |-> {<<i, <<i, p.run, LossOf(p.loss)>> \notin Hidden>>
                                    : i \in events[p.shard]}]]
       /\ toWrite' = toWrite \ {p}
  /\ UNCHANGED <<manifest, events, cps, summary, daily, pc, args, nextRow, run, todo,
                 replayPaths, jobs, results, bounds, blind>>

BeginJobs ==
  /\ pc = "replays"
  /\ toWrite = {}
  /\ pc' = "jobs"
  /\ UNCHANGED <<disk, args, nextRow, batchVars, bounds, blind>>
-----------------------------------------------------------------------------
(* run_detector and run_detector_tau_sweep in the pool, and detector-cli. *)

ReplayOf(j) == [program |-> j.program, run |-> j.run, loss |-> j.loss,
                delay |-> j.delay, shard |-> j.shard]

\* The detector looks for a resemblance on either side of a transfer whose
\* account has trusted counterparties in the file.
Alike(method, i, trusted) ==
  \E t \in trusted :
     \/ Rows[t].victim = Rows[i].victim
        /\ <<Rows[i].lookalike, Rows[t].intended>> \in Resembles[method]
     \/ Rows[t].victim = Rows[i].lookalike
        /\ <<Rows[i].victim, Rows[t].intended>> \in Resembles[method]

Alerted(method, i, trusted, tau) == Rows[i].risk >= tau /\ Alike(method, i, trusted)

\* The confusion matrix of a set of events.
Confusion(rows, found) ==
  [tp |-> Cardinality({i \in rows : IsPositive(Rows[i]) /\ i \in found}),
   fp |-> Cardinality({i \in rows : ~IsPositive(Rows[i]) /\ i \in found}),
   fn |-> Cardinality({i \in rows : IsPositive(Rows[i]) /\ i \notin found}),
   tn |-> Cardinality({i \in rows : ~IsPositive(Rows[i]) /\ i \notin found})]

\* What detector-cli finds out about a replay.
Measure(j) ==
  LET file == replay[ReplayOf(j)]
      rows == {x[1] : x \in file.rows}
      seen == {x[1] : x \in {y \in file.rows : y[2] \/ j.method = "confirmed_chain"}}
  IN [tau \in Taus(j.program) |->
        Confusion(rows, {i \in seen : Alerted(j.method, i, cps[j.shard], tau)})]

Busy == {j \in DOMAIN jobs : jobs[j] \in {"cli", "writing"}}
Unfinished == {j \in DOMAIN jobs : jobs[j] \in {"queued", "cli", "writing"}}

\* A worker takes a job: a summary that is there is read, and fails the job
\* when it is no JSON; otherwise detector-cli is started, and fails without
\* its replay.
TakeJob(j, answered) ==
  /\ pc \in {"jobs", "failing"}
  /\ jobs[j] = "queued"
  /\ Cardinality(Busy) < Workers
  /\ LET found == replay[ReplayOf(j)].whole
     IN IF answered
          THEN /\ jobs' = [jobs EXCEPT ![j] = IF summary[j] = TornSummary THEN "failed" ELSE "ok"]
               /\ UNCHANGED blind
          ELSE /\ jobs' = [jobs EXCEPT ![j] = IF found THEN "cli" ELSE "failed"]
               /\ blind' = IF found THEN blind ELSE blind \cup {j}
  /\ UNCHANGED <<disk, pc, args, nextRow, run, todo, toWrite, replayPaths, results, bounds>>

\* run_detector wants the daily metrics too if there are day boundaries.
TakeReplayJob(j) ==
  /\ j.program = "replay"
  /\ TakeJob(j, summary[j] # NoSummary /\ (args.days => j \in daily))

TakeSweepJob(j) == j.program = "sweep" /\ TakeJob(j, summary[j] # NoSummary)

\* The daily metrics are written before the summary, which is opened last.
CliReports(j) ==
  /\ jobs[j] = "cli"
  /\ daily' = IF args.days THEN daily \cup {j} ELSE daily
  /\ summary' = [summary EXCEPT ![j] = TornSummary]
  /\ jobs' = [jobs EXCEPT ![j] = "writing"]
  /\ UNCHANGED <<manifest, events, cps, replay, pc, args, nextRow, run, todo, toWrite,
                 replayPaths, results, bounds, blind>>

CliEnds(j) ==
  /\ jobs[j] = "writing"
  /\ summary' = [summary EXCEPT ![j] = [state |-> "whole", metrics |-> Measure(j)]]
  /\ jobs' = [jobs EXCEPT ![j] = "ok"]
  /\ UNCHANGED <<manifest, events, cps, replay, daily, pc, args, nextRow, run, todo, toWrite,
                 replayPaths, results, bounds, blind>>

CliFails(j) ==
  /\ jobs[j] = "cli"
  /\ faults < MaxFaults
  /\ faults' = faults + 1
  /\ jobs' = [jobs EXCEPT ![j] = "failed"]
  /\ UNCHANGED <<disk, pc, args, nextRow, run, todo, toWrite, replayPaths, results, starts,
                 shapes, blind>>

\* as_completed yields a job that is finished, in any order.
Collect(j) ==
  /\ pc = "jobs"
  /\ jobs[j] = "ok"
  /\ jobs' = [jobs EXCEPT ![j] = "collected"]
  /\ UNCHANGED <<disk, pc, args, nextRow, run, todo, toWrite, replayPaths, bounds, blind>>

CollectRow(j) ==
  /\ j.program = "replay"
  /\ Collect(j)
  /\ metrics' = metrics \cup {<<j, summary[j].metrics>>}
  /\ UNCHANGED aggregates

\* add_tau_sweep_rows
AddRows(j) ==
  /\ j.program = "sweep"
  /\ Collect(j)
  /\ aggregates' = [x \in DOMAIN aggregates |->
                      IF x[1] = j.method /\ LossLabel(x[2]) = j.loss
                        THEN [c \in Cells |-> aggregates[x][c] + summary[j].metrics[x[3]][c]]
                        ELSE aggregates[x]]
  /\ UNCHANGED metrics

\* The exception of a failed job leaves the loop; the executor still waits
\* for all other jobs, those that were not started included.
CollectFailure ==
  /\ pc = "jobs"
  /\ \E j \in DOMAIN jobs : jobs[j] = "failed"
  /\ pc' = "failing"
  /\ UNCHANGED <<disk, args, nextRow, batchVars, bounds, blind>>

RunFails ==
  /\ pc = "failing"
  /\ Unfinished = {}
  /\ pc' = "idle"
  /\ jobs' = <<>> /\ replayPaths' = {} /\ metrics' = {} /\ aggregates' = NoRows
  /\ UNCHANGED <<disk, args, nextRow, run, todo, toWrite, bounds, blind>>

\* The replays of the batch are removed.
BatchEnds ==
  /\ pc = "jobs"
  /\ \A j \in DOMAIN jobs : jobs[j] = "collected"
  /\ replay' = [p \in ReplayPaths |-> IF p \in replayPaths THEN NoReplay ELSE replay[p]]
  /\ todo' = todo \ Batch
  /\ jobs' = <<>> /\ replayPaths' = {}
  /\ pc' = "batch"
  /\ UNCHANGED <<manifest, events, cps, summary, daily, args, nextRow, run, toWrite, results,
                 bounds, blind>>

\* The list of shards is used up: the next run_id, or the report.
RunIdEnds ==
  /\ pc = "batch"
  /\ todo = {}
  /\ IF run + 1 < BenchmarkRuns
       THEN /\ run' = run + 1
            /\ todo' = {s \in Shards : manifest.events[s] > 0}
            /\ UNCHANGED pc
       ELSE pc' = "done" /\ UNCHANGED <<run, todo>>
  /\ UNCHANGED <<disk, args, nextRow, toWrite, replayPaths, jobs, results, bounds, blind>>

\* The machine goes down, with the program and the detectors it started.
Crash ==
  /\ pc \notin {"idle", "done"}
  /\ faults < MaxFaults
  /\ faults' = faults + 1
  /\ pc' = "idle"
  /\ jobs' = <<>> /\ toWrite' = {} /\ replayPaths' = {}
  /\ metrics' = {} /\ aggregates' = NoRows
  /\ UNCHANGED <<disk, args, nextRow, run, todo, starts, shapes, blind>>

JobStep(j) ==
  \/ TakeReplayJob(j) \/ TakeSweepJob(j)
  \/ CliReports(j) \/ CliEnds(j)
  \/ CollectRow(j) \/ AddRows(j)

Proceed ==
  \/ ShardRow \/ OpenManifest \/ WriteManifest
  \/ ScheduleBatch \/ OpenReplay \/ WriteReplay \/ BeginJobs
  \/ \E j \in DOMAIN jobs : JobStep(j)
  \/ CollectFailure \/ RunFails \/ BatchEnds \/ RunIdEnds

Next ==
  \/ \E a \in Args : Start(a)
  \/ Proceed
  \/ \E j \in DOMAIN jobs : CliFails(j)
  \/ Crash

\* The program runs as long as it can, and whoever started it starts it again.
Spec == Init /\ [][Next]_vars /\ WF_vars(Proceed)
StartedAgain == WF_vars(pc = "idle" /\ Start(args))
-----------------------------------------------------------------------------
(* Properties. *)

\* aggregate_full_by: the sum of one cell of the confusion matrices.
AggregateBy(method, loss, cell) ==
  SumFunction([x \in {y \in metrics : y[1].method = method /\ y[1].loss = LossLabel(loss)}
                 |-> x[2][FixedTau][cell]])
Total(method, loss, tau, cell) ==
  IF args.program = "replay" THEN AggregateBy(method, loss, cell)
                             ELSE aggregates[<<method, loss, tau>>][cell]

\* The number of rows there are in all runs and for all delays.
OverRuns(rows) == Cardinality(Delays) * SumFunction([r \in RunIds |-> Cardinality(rows[r])])

\* The rows of a run that can be seen.  The method confirmed_chain sees them
\* all (bench.go 337).
Seen(method, loss, r) ==
  {i \in EventRows(args) : <<i, r, loss>> \notin Hidden \/ method = "confirmed_chain"}

\* The alerts against the counterparties of the victim alone, and against
\* those of all accounts.
OwnAlerts(method, loss, tau, r) ==
  {i \in Seen(method, loss, r) :
     Alerted(method, i, {t \in Trusted(args) : Rows[t].victim = Rows[i].victim}, tau)}
AllAlerts(method, loss, tau, r) ==
  {i \in Seen(method, loss, r) : Alerted(method, i, Trusted(args), tau)}

Positives(S) == {i \in S : IsPositive(Rows[i])}

\* When a run reports, however often it was interrupted, started again and
\* with whatever results it found, each labelled row is in the confusion
\* matrix of each scheduled method and loss rate once per run and delay.  A
\* row is an alert if the counterparties of its victim make it one, and only
\* if those of the whole dataset do: the other party's counterparties may be
\* in another shard (2315-2398).  The number of shards and of rows must have
\* been the same in all runs in that directory.
CountsAreExact ==
  pc = "done" /\ Cardinality(shapes) = 1 =>
    \A loss \in args.losses : \A method \in Scheduled(args, loss) :
    \A tau \in Taus(args.program) :
      LET cell(c) == Total(method, loss, tau, c)
          pos == Positives(EventRows(args))
          own == [r \in RunIds |-> OwnAlerts(method, loss, tau, r)]
          all == [r \in RunIds |-> AllAlerts(method, loss, tau, r)]
          among(S, alerts) == [r \in RunIds |-> S \cap alerts[r]]
      IN /\ cell("tp") + cell("fn") = OverRuns([r \in RunIds |-> pos])
         /\ cell("fp") + cell("tn") = OverRuns([r \in RunIds |-> EventRows(args) \ pos])
         /\ OverRuns(among(pos, own)) <= cell("tp")
         /\ cell("tp") <= OverRuns(among(pos, all))
         /\ OverRuns(own) <= cell("tp") + cell("fp")
         /\ cell("tp") + cell("fp") <= OverRuns(all)

\* detector-cli is never started without a whole replay, except where a run
\* without day boundaries has left a summary and a run with them wants the
\* daily metrics: the replay is made for missing summaries only (2343-2344),
\* while run_detector also asks for the daily metrics (836).
DaysAdded(j) == args.days /\ summary[j] # NoSummary /\ j \notin daily
JobsFindReplays == \A j \in blind : DaysAdded(j)

\* Unless a summary or the manifest was cut off in the middle, or day
\* boundaries were added later, a program that is started again after each
\* failure gets to its report: what an interrupted run leaves never stops
\* the next one (836-837, 1673-1684 and 2331-2362).
Resumable ==
  /\ \A j \in Paths : summary[j] = TornSummary => j \in Busy
  /\ manifest = TornManifest => pc = "manifest"
  /\ \A j \in blind : ~DaysAdded(j)
ResumeFinishes == StartedAgain /\ []Resumable => <>(pc = "done")
=============================================================================
