--------------------------- MODULE FeatureExport ---------------------------
(***************************************************************************)
(* scripts/export_risk_training_dataset.py as a writer of files.  An       *)
(* export counts the events of its shards by day, cuts the days in three   *)
(* for training, validation and test, writes one part-NNNN.parquet for     *)
(* each shard with a pool of processes, and then rewrites the parts one by *)
(* one with the block numbers of the dataset cache.  Its directory bears   *)
(* the day's date by default, so that a smoke test over a few shards and   *)
(* the full export of one day share it, and the temporary file of the      *)
(* rewriting, part-NNNN.tmp.parquet, has a name that readers take for a    *)
(* part.  What one row says of its transfer is the matter of FeatureIndex. *)
(***************************************************************************)
EXTENDS Integers, FiniteSets

CONSTANTS
  Shards,             \* the shards with a file of events
  WithCounterparties, \* those that have a file of counterparties too
  Events,
  ShardOf, DayOf,     \* functions of an event
  Bucket,             \* sha256(victim) modulo 100, of an event's victim
  Positives,          \* the poisoning events
  Selections,         \* the options --shards and --max-shards that are tried
  NoSelection,
  Workers,            \* --jobs
  MaxExports          \* bound: exports in one behaviour

ASSUME ExportAssumption ==
  /\ Shards \subseteq Nat /\ WithCounterparties \subseteq Shards
  /\ IsFiniteSet(Shards) /\ IsFiniteSet(Events)
  /\ ShardOf \in [Events -> Shards] /\ DayOf \in [Events -> Nat]
  /\ Bucket \in [Events -> 0..99] /\ Positives \subseteq Events
  /\ \A s \in Selections : s = NoSelection \/ s \subseteq Shards
  /\ Workers \in Nat \ {0} /\ MaxExports \in Nat

VARIABLES
  drive,     \* the files of the feature directory
  exporter,  \* the export that runs
  exports,   \* the number of exports begun
  manifest   \* what manifest.json says: whose it is, and what was exported

exportVars == <<drive, exporter, exports, manifest>>

Names == {"part", "tmp"} \X Shards
NoFile == [there |-> FALSE]
\* A file's rows are those of its shard; the export that wrote it fixed the
\* split of each.  A file that is not whole lacks the footer.
File(by, whole, cutoffs, enriched) ==
  [there |-> TRUE, by |-> by, whole |-> whole, cutoffs |-> cutoffs, enriched |-> enriched]
NoManifest == [by |-> 0]
NoExport == [pc |-> "idle"]

-----------------------------------------------------------------------------
(* The split *)

CountedEvents(shards) == {e \in Events : ShardOf[e] \in shards}

\* count_shard_days, summed over the shards up to a day.
CountUpTo(shards, day) == Cardinality({e \in CountedEvents(shards) : DayOf[e] <= day})

\* The first day by which that share of the events has happened.
FirstDay(shards, percent) ==
  LET total == Cardinality(CountedEvents(shards))
      reached == {DayOf[e] : e \in {f \in CountedEvents(shards) :
                               100 * CountUpTo(shards, DayOf[f]) >= percent * total}}
  IN CHOOSE d \in reached : \A c \in reached : d <= c

ChooseTimeCutoffs(shards) ==
  [train |-> FirstDay(shards, 70), val |-> FirstDay(shards, 85)]

SplitTime(day, cutoffs) ==
  CASE day <= cutoffs.train -> "train"
    [] day > cutoffs.train /\ day <= cutoffs.val -> "val"
    [] OTHER -> "test"

SplitVictim(bucket) ==
  CASE bucket < 70 -> "train" [] bucket \in 70..84 -> "val" [] OTHER -> "test"

\* Which shards are counted, and which exported: without an option a shard is
\* counted although it has no counterparties and is not exported.
Counted(selection) ==
  IF selection = NoSelection THEN Shards ELSE selection \cap WithCounterparties
ShardJobs(selection) ==
  (IF selection = NoSelection THEN Shards ELSE selection) \cap WithCounterparties

\* Bug: each job cuts the days of its own shard.
BugJobCutoffs(shard) == ChooseTimeCutoffs({shard})

\* Every job is given the cutoffs of the whole count.
JobCutoffs(shard) == exporter.cutoffs

-----------------------------------------------------------------------------
ExportInit ==
  /\ drive = [n \in Names |-> NoFile]
  /\ exporter = NoExport /\ exports = 0 /\ manifest = NoManifest

\* No shard to count is an error before anything is written, and so is a
\* count of no events.
StartExport ==
  \E selection \in Selections, skip \in BOOLEAN :
    /\ exporter.pc = "idle" /\ exports < MaxExports
    /\ CountedEvents(Counted(selection)) # {}
    /\ exports' = exports + 1
    /\ exporter' = [pc |-> "counting", selection |-> selection, skip |-> skip,
                    cutoffs |-> [train |-> 0, val |-> 0], todo |-> {}, open |-> {},
                    written |-> {}, failed |-> FALSE]
    /\ UNCHANGED <<drive, manifest>>

ChooseSplit ==
  /\ exporter.pc = "counting"
  /\ exporter' = [exporter EXCEPT !.pc = "exporting",
                    !.cutoffs = ChooseTimeCutoffs(Counted(exporter.selection)),
                    !.todo = ShardJobs(exporter.selection)]
  /\ UNCHANGED <<drive, exports, manifest>>

\* export_shard writes its table when it has read all events.
OpenPart(s) ==
  /\ exporter.pc = "exporting" /\ s \in exporter.todo \ exporter.open
  /\ Cardinality(exporter.open) < Workers
  /\ drive' = [drive EXCEPT ![<<"part", s>>] = File(exports, FALSE, JobCutoffs(s), FALSE)]
  /\ exporter' = [exporter EXCEPT !.open = @ \cup {s}]
  /\ UNCHANGED <<exports, manifest>>

WritePart(s) ==
  /\ exporter.pc = "exporting" /\ s \in exporter.open
  /\ drive' = [drive EXCEPT ![<<"part", s>>].whole = TRUE]
  /\ exporter' = [exporter EXCEPT !.open = @ \ {s}, !.todo = @ \ {s}, !.written = @ \cup {s}]
  /\ UNCHANGED <<exports, manifest>>

\* An event the worker cannot read: no part is written for its shard.
ShardFails(s) ==
  /\ exporter.pc = "exporting" /\ s \in exporter.todo \ exporter.open
  /\ exporter' = [exporter EXCEPT !.todo = @ \ {s}, !.failed = TRUE]
  /\ UNCHANGED <<drive, exports, manifest>>

\* The pool runs the other jobs to their end before the error is raised.
PoolEnds ==
  /\ exporter.pc = "exporting" /\ exporter.todo = {}
  /\ exporter' = CASE exporter.failed -> NoExport
                   [] ~exporter.failed /\ exporter.skip -> [exporter EXCEPT !.pc = "reporting"]
                   [] OTHER -> [exporter EXCEPT !.pc = "enriching", !.todo = exporter.written]
  /\ UNCHANGED <<drive, exports, manifest>>

\* There is no dataset cache: the parts stay as they are.
NoDatasetCache ==
  /\ exporter.pc = "enriching" /\ exporter.todo = exporter.written /\ exporter.open = {}
  /\ exporter' = NoExport
  /\ UNCHANGED <<drive, exports, manifest>>

NextToEnrich == CHOOSE s \in exporter.todo : \A t \in exporter.todo : s <= t

\* A temporary file of an earlier export is unlinked, then COPY begins.
OpenTmp ==
  /\ exporter.pc = "enriching" /\ exporter.todo # {} /\ exporter.open = {}
  /\ drive' = [drive EXCEPT ![<<"tmp", NextToEnrich>>] =
                 [drive[<<"part", NextToEnrich>>] EXCEPT !.whole = FALSE, !.enriched = TRUE]]
  /\ exporter' = [exporter EXCEPT !.open = {NextToEnrich}]
  /\ UNCHANGED <<exports, manifest>>

WriteTmp ==
  /\ exporter.pc = "enriching"
  /\ \E s \in exporter.open :
       /\ ~drive[<<"tmp", s>>].whole
       /\ drive' = [drive EXCEPT ![<<"tmp", s>>].whole = TRUE]
  /\ UNCHANGED <<exporter, exports, manifest>>

\* Bug: the rewritten part is copied over the old one.
BugReplaced(s) == [drive EXCEPT ![<<"part", s>>] = drive[<<"tmp", s>>]]

Replaced(s) ==
  [drive EXCEPT ![<<"part", s>>] = drive[<<"tmp", s>>], ![<<"tmp", s>>] = NoFile]

ReplacePart ==
  /\ exporter.pc = "enriching"
  /\ \E s \in exporter.open :
       /\ drive[<<"tmp", s>>].whole
       /\ drive' = Replaced(s)
       /\ exporter' = [exporter EXCEPT !.open = {}, !.todo = @ \ {s}]
  /\ UNCHANGED <<exports, manifest>>

EnrichEnds ==
  /\ exporter.pc = "enriching" /\ exporter.todo = {}
  /\ exporter' = [exporter EXCEPT !.pc = "reporting"]
  /\ UNCHANGED <<drive, exports, manifest>>

\* manifest.json, splits.json and the records of the sources.
WriteManifest ==
  /\ exporter.pc = "reporting"
  /\ manifest' = [by |-> exports, selection |-> exporter.selection,
                  enriched |-> ~exporter.skip, shards |-> exporter.written]
  /\ exporter' = NoExport
  /\ UNCHANGED <<drive, exports>>

ExportCrash ==
  /\ exporter.pc # "idle"
  /\ exporter' = NoExport
  /\ UNCHANGED <<drive, exports, manifest>>

ExportNext ==
  \/ StartExport \/ ChooseSplit \/ PoolEnds
  \/ NoDatasetCache \/ OpenTmp \/ WriteTmp \/ ReplacePart \/ EnrichEnds
  \/ WriteManifest \/ ExportCrash
  \/ \E s \in Shards : OpenPart(s) \/ WritePart(s) \/ ShardFails(s)
=============================================================================
