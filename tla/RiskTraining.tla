---------------------------- MODULE RiskTraining ----------------------------
(***************************************************************************)
(* The four programs that learn from an exported package, each with its    *)
(* own copy of the same procedure: scripts/learn_lr_feature_ablation.py,   *)
(* scripts/train_risk_model.py, scripts/search_risk_formula.py and the     *)
(* Colab notebook, which first copies the package to a local disk.  They   *)
(* fit on the rows marked train, choose the alert threshold on those       *)
(* marked val, and report it on those marked test.  None reads the         *)
(* manifest: they take every file whose name begins with part-.  What a    *)
(* learner makes of its rows is free (Scorings).                           *)
(*                                                                         *)
(* Scores and thresholds are counted in half steps of the grid: threshold  *)
(* i is the score 2 * i, and an odd score lies between two thresholds.     *)
(***************************************************************************)
EXTENDS FeatureExport, Functions

CONSTANTS
  GridSize,  \* --threshold-grid-size
  Scorings,  \* functions from Events to 0..2 * (GridSize - 1)
  Families,  \* the fixed formulas of the features, by name, clipped to the grid
  Columns    \* subset of {"split_time", "split_victim"}

ASSUME TrainingAssumption ==
  /\ GridSize \in Nat \ {0, 1}
  /\ Scorings \subseteq [Events -> 0..(2 * (GridSize - 1))]
  /\ IsFiniteSet(DOMAIN Families)
  /\ \A name \in DOMAIN Families : Families[name] \in [Events -> 0..(2 * (GridSize - 1))]

VARIABLES
  local,     \* the notebook's copy of the feature directory
  training,  \* the program that runs
  fitted,    \* the rows it has fitted its model on
  scores,    \* what its model makes of an event
  result     \* what it has found

trainingVars == <<local, training, fitted, scores, result>>
vars == <<exportVars, trainingVars>>

NoTraining == [pc |-> "idle"]
NoResult == [threshold |-> -1]
Scripts == {"ablation", "model", "search"}
Grid == 0..(GridSize - 1)

\* sorted(feature_dir.glob("part-*.parquet")).
FilesIn(dir) == {n \in Names : dir[n].there}
Before(m, n) == m[2] < n[2] \/ (m[2] = n[2] /\ m[1] = "part" /\ n[1] = "tmp")

Read == IF training.script = "notebook" THEN local ELSE drive

\* split_mask over iter_batches: the rows of all files in one split.
SplitOf(file, event) ==
  IF training.column = "split_time"
    THEN SplitTime(DayOf[event], Read[file].cutoffs)
    ELSE SplitVictim(Bucket[event])
AllRows == {row \in FilesIn(Read) \X Events : ShardOf[row[2]] = row[1][2]}
RowsIn(split) == {row \in AllRows : SplitOf(row[1], row[2]) = split}
PositivesIn(rows) == {row \in rows : row[2] \in Positives}

-----------------------------------------------------------------------------
(* Thresholds *)

\* Bug: searchsorted from the left.
BugBin(score) == Cardinality({i \in Grid : 2 * i < score}) - 1

\* The last threshold a score reaches.
Bin(score) == Cardinality({i \in Grid : 2 * i <= score}) - 1

\* The rows of a split by class and bin, for one scorer.
Histogram(rows, f) ==
  [pos |-> [i \in Grid |-> Cardinality({r \in PositivesIn(rows) : Bin(f[r[2]]) = i})],
   neg |-> [i \in Grid |-> Cardinality({r \in rows \ PositivesIn(rows) : Bin(f[r[2]]) = i})]]

\* cumsum of the reversed histogram, reversed.
CountFrom(hist, i) == SumFunctionOnSet(hist, i..(GridSize - 1))

MetricsFromCounts(threshold, tp, fp, fn, tn) ==
  [threshold |-> threshold, tp |-> tp, fp |-> fp, fn |-> fn, tn |-> tn]

MetricsFromHist(hist, i) ==
  MetricsFromCounts(2 * i, CountFrom(hist.pos, i), CountFrom(hist.neg, i),
    CountFrom(hist.pos, 0) - CountFrom(hist.pos, i),
    CountFrom(hist.neg, 0) - CountFrom(hist.neg, i))

\* metrics_from_scores: every row compared with the threshold.
MetricsFromScores(rows, f, threshold) ==
  LET alerts == {r \in rows : f[r[2]] >= threshold}
      tp == Cardinality(PositivesIn(alerts))
      fp == Cardinality(alerts) - tp
      fn == Cardinality(PositivesIn(rows)) - tp
  IN MetricsFromCounts(threshold, tp, fp, fn, Cardinality(rows) - tp - fp - fn)

\* Ratios as pairs; 0 where the code avoids a division by 0.
Ratio(a, b) == IF b = 0 THEN <<0, 1>> ELSE <<a, b>>
Less(r, s) == r[1] * s[2] < s[1] * r[2]
Same(r, s) == r[1] * s[2] = s[1] * r[2]
F1(m) == Ratio(2 * m.tp, 2 * m.tp + m.fp + m.fn)
Precision(m) == Ratio(m.tp, m.tp + m.fp)
Recall(m) == Ratio(m.tp, m.tp + m.fn)

\* The order of the keys (f1, precision, recall).
Worse(m, n) ==
  \/ Less(F1(m), F1(n))
  \/ Same(F1(m), F1(n)) /\ Less(Precision(m), Precision(n))
  \/ Same(F1(m), F1(n)) /\ Same(Precision(m), Precision(n)) /\ Less(Recall(m), Recall(n))

\* The best of the metrics, the least threshold among equals.
Best(metrics) ==
  CHOOSE m \in metrics : \A n \in metrics \ {m} :
    Worse(n, m) \/ (~Worse(m, n) /\ m.threshold < n.threshold)

BestThresholdFromHist(hist) == Best({MetricsFromHist(hist, i) : i \in Grid})

\* searchsorted(thresholds, threshold, "left"), clipped.
ThresholdIndex(threshold) ==
  CHOOSE i \in Grid : /\ 2 * i >= threshold \/ i = GridSize - 1
                      /\ \A j \in 0..(i - 1) : 2 * j < threshold
MetricsAtThresholdFromHist(hist, threshold) == MetricsFromHist(hist, ThresholdIndex(threshold))

ChooseThreshold(rows, f) ==
  IF rows = {} THEN MetricsFromCounts(GridSize - 1, 0, 0, 0, 0)
  ELSE Best({MetricsFromScores(rows, f, 2 * i) : i \in Grid})

\* metrics_at_best_tau of the formula search.
MetricsAtBestTau(rows, f) ==
  LET hist == Histogram(rows, f) IN Best({MetricsFromHist(hist, i) : i \in Grid})

-----------------------------------------------------------------------------
Init ==
  /\ ExportInit
  /\ local = [n \in Names |-> NoFile]
  /\ training = NoTraining /\ fitted = {} /\ scores = <<>> /\ result = NoResult

\* The program is gone with all it had in memory.
Gone ==
  /\ training' = NoTraining
  /\ fitted' = {} /\ scores' = <<>> /\ result' = NoResult
  /\ UNCHANGED <<exportVars, local>>

Idle == exporter.pc = "idle" /\ training.pc = "idle"

Begin(record) ==
  /\ Idle /\ FilesIn(drive) # {}
  /\ training' = record
  /\ UNCHANGED <<exportVars, local, fitted, scores, result>>

StartScript ==
  \E script \in Scripts, column \in Columns :
    Begin([pc |-> "reading", script |-> script, column |-> column])

StartNotebook ==
  \E column \in Columns :
    Begin([pc |-> "copying", script |-> "notebook", column |-> column,
           todo |-> FilesIn(drive), open |-> FALSE])

\* A copy that was interrupted has fewer bytes than the file it is of.
CutShort(n) == drive[n].whole /\ local[n] = [drive[n] EXCEPT !.whole = FALSE]

\* Bug: a file that is there is not copied again.
BugMayBeSameSize(n) == local[n].there

\* copy_file_if_needed compares bytes.  A copy that is its file's has as many,
\* unless that file was itself left unfinished and the copy of it cut short;
\* files of two exports, whole or not, may have as many or not.
MayBeSameSize(n) == local[n].there /\ ~CutShort(n)
MayDifferInSize(n) == local[n] # drive[n] \/ ~drive[n].whole

NextToCopy ==
  CHOOSE n \in training.todo : \A m \in training.todo \ {n} : Before(n, m)
Copying == training.pc = "copying" /\ training.todo # {}

SkipCopy ==
  /\ Copying /\ ~training.open /\ MayBeSameSize(NextToCopy)
  /\ training' = [training EXCEPT !.todo = @ \ {NextToCopy}]
  /\ UNCHANGED <<exportVars, local, fitted, scores, result>>

OpenCopy ==
  /\ Copying /\ ~training.open /\ MayDifferInSize(NextToCopy)
  /\ local' = [local EXCEPT ![NextToCopy] = [drive[NextToCopy] EXCEPT !.whole = FALSE]]
  /\ training' = [training EXCEPT !.open = TRUE]
  /\ UNCHANGED <<exportVars, fitted, scores, result>>

WriteCopy ==
  /\ Copying /\ training.open
  /\ local' = [local EXCEPT ![NextToCopy] = drive[NextToCopy]]
  /\ training' = [training EXCEPT !.open = FALSE, !.todo = @ \ {NextToCopy}]
  /\ UNCHANGED <<exportVars, fitted, scores, result>>

CopyEnds ==
  /\ training.pc = "copying" /\ training.todo = {}
  /\ training' = [pc |-> "reading", script |-> "notebook", column |-> training.column]
  /\ UNCHANGED <<exportVars, local, fitted, scores, result>>

-----------------------------------------------------------------------------
(* The passes over the files *)

Readable == \A n \in FilesIn(Read) : Read[n].whole
TrainHasBothClasses ==
  PositivesIn(RowsIn("train")) # {} /\ RowsIn("train") \ PositivesIn(RowsIn("train")) # {}

\* A file that is not whole is not Parquet; a split without rows, or without
\* both classes for those that fit a model, ends the program as well.
CannotLearn ==
  \/ ~Readable
  \/ training.script = "search" /\ (RowsIn("val") = {} \/ RowsIn("test") = {})
  \/ training.script # "search" /\ ~TrainHasBothClasses

ProgramFails ==
  training.pc = "reading" /\ CannotLearn /\ Gone

Fit(script) ==
  /\ training.pc = "reading" /\ training.script = script /\ ~CannotLearn
  /\ \E f \in Scorings : scores' = f
  /\ training' = [training EXCEPT !.pc = "choosing"]
  /\ UNCHANGED <<exportVars, local, result>>

\* Two passes, for the scaler and for the model.
FitAblation == Fit("ablation") /\ fitted' = RowsIn("train")
FitModel == Fit("model") /\ fitted' = RowsIn("train")
FitNotebook == Fit("notebook") /\ fitted' = RowsIn("train")
\* Nothing is fitted: the scores are those of a formula.
LoadSplits == Fit("search") /\ fitted' = {}

Found(validation, test, family) ==
  /\ result' = [threshold |-> validation.threshold, validation |-> validation,
                test |-> test, family |-> family]
  /\ training' = [training EXCEPT !.pc = "writing"]
  /\ UNCHANGED <<exportVars, local, fitted, scores>>

Choosing(script) == training.pc = "choosing" /\ training.script = script

\* One of the formulas that are best on val, at thresholds chosen there; the
\* code takes the first of equals.
FamilyAt(name) == BestThresholdFromHist(Histogram(RowsIn("val"), Families[name]))
BestFamily ==
  CHOOSE name \in DOMAIN Families : \A other \in DOMAIN Families \ {name} :
    ~Worse(FamilyAt(name), FamilyAt(other))

ChooseAblation ==
  /\ Choosing("ablation")
  /\ LET validation == BestThresholdFromHist(Histogram(RowsIn("val"), scores))
     IN Found(validation,
              MetricsAtThresholdFromHist(Histogram(RowsIn("test"), scores), validation.threshold),
              "none")

ChooseModel ==
  /\ Choosing("model")
  /\ LET validation == ChooseThreshold(RowsIn("val"), scores)
     IN Found(validation,
              MetricsFromScores(RowsIn("test"), scores, validation.threshold), BestFamily)

ChooseNotebook ==
  /\ Choosing("notebook")
  /\ LET validation == BestThresholdFromHist(Histogram(RowsIn("val"), scores))
     IN Found(validation,
              MetricsAtThresholdFromHist(Histogram(RowsIn("test"), scores), validation.threshold),
              BestFamily)

\* The test rows are given the threshold that is best for them.
ChooseFormula ==
  /\ Choosing("search")
  /\ Found(MetricsAtBestTau(RowsIn("val"), scores), MetricsAtBestTau(RowsIn("test"), scores),
           "none")

\* The metrics and the model are written, or, when the ablation was run
\* without its primary variant, lost.
ProgramEnds ==
  training.pc = "writing" /\ Gone

Interrupt ==
  training.pc \in {"copying", "reading", "choosing"} /\ Gone

\* An export and a program that learns from it are started by one person and
\* not run at the same time.
Next ==
  \/ (training.pc = "idle" /\ ExportNext /\ UNCHANGED trainingVars)
  \/ StartScript \/ StartNotebook \/ SkipCopy \/ OpenCopy \/ WriteCopy \/ CopyEnds
  \/ ProgramFails \/ FitAblation \/ FitModel \/ FitNotebook \/ LoadSplits
  \/ ChooseAblation \/ ChooseModel \/ ChooseNotebook \/ ChooseFormula
  \/ ProgramEnds \/ Interrupt

Spec == Init /\ [][Next]_vars

-----------------------------------------------------------------------------
Reporting == training.pc = "writing"

\* No row that was fitted is of the day of a row the threshold was chosen on,
\* or of a later one, nor are those against the rows it is reported on, as
\* long as the files that were read are of one export: the cutoffs are those
\* of all its shards (main, 867-884, and split_time, 449-454).  Files of two
\* exports are told apart by nobody.
SplitIsChronological ==
  Reporting /\ training.column = "split_time"
    /\ Cardinality({Read[n].by : n \in FilesIn(Read)}) = 1
  => /\ \A r \in fitted, s \in RowsIn("val") \cup RowsIn("test") : DayOf[r[2]] < DayOf[s[2]]
     /\ \A r \in RowsIn("val"), s \in RowsIn("test") : DayOf[r[2]] < DayOf[s[2]]

\* A full export that came to its end with the block numbers makes good what
\* earlier ones left behind, of whatever shards and interrupted wherever: the
\* scripts read each exported event once, and of this export
\* (enrich_block_numbers, 621-694, and iter_feature_files).
FullExportHeals ==
  Reporting /\ training.script # "notebook"
    /\ manifest.by = exports /\ manifest.selection = NoSelection /\ manifest.enriched
  => /\ \A e \in CountedEvents(WithCounterparties) :
          Cardinality({r \in AllRows : r[2] = e}) = 1
     /\ \A n \in FilesIn(Read) : Read[n].by = exports

\* What is learned at the histogram's threshold is what comparing every score
\* with every threshold gives: no threshold of the grid is better on val, no
\* lower one as good, and the counts reported for test are those of its rows
\* at that very threshold (best_threshold_from_hist and
\* metrics_at_threshold_from_hist against choose_threshold and
\* metrics_from_scores).  The search reports test at a threshold of its own.
ThresholdIsBest ==
  Reporting /\ RowsIn("val") # {} =>
    LET val == RowsIn("val")
        Direct(f) == {MetricsFromScores(val, f, 2 * i) : i \in Grid}
        direct == Direct(scores)
    IN /\ result.validation \in direct
       /\ \A m \in direct : ~Worse(result.validation, m)
       /\ \A m \in direct : m.threshold < result.threshold => Worse(m, result.validation)
       /\ training.script # "search" =>
            result.test = MetricsFromScores(RowsIn("test"), scores, result.threshold)
       /\ result.family # "none" =>
            \E best \in Direct(Families[result.family]) :
              \A name \in DOMAIN Families : \A m \in Direct(Families[name]) : ~Worse(best, m)

\* A copy that an interruption ended, at any byte of any file, is made good by
\* the next run of the cell that comes to its end: every part of the package is
\* there, and one of the same export is the package's and not its beginning
\* (copy_file_if_needed).  A part of another export with as many bytes stays,
\* as do parts the package no longer has.
CopyHeals ==
  training.pc \in {"reading", "choosing", "writing"} /\ training.script = "notebook" =>
    \A n \in FilesIn(drive) :
      local[n].there /\ (local[n].by = drive[n].by => local[n] = drive[n])
=============================================================================
