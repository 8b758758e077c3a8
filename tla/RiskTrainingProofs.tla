------------------------- MODULE RiskTrainingProofs -------------------------
(***************************************************************************)
(* Proofs about RiskTraining and, with it, FeatureExport: for any shards,  *)
(* events, workers, selections, formulas and grid.                         *)
(*                                                                         *)
(* ExportInv follows an export through its files: which parts, and which   *)
(* temporary files, are its own while it exports and enriches (Exports,    *)
(* Enriches), hence what a full export that has written its manifest       *)
(* leaves behind (Healed).  CutoffsInv says that the files of one export,  *)
(* and the notebook's copies of them, were split by the same days.         *)
(* LocalInv says that a copy is of an export that is over, and when that   *)
(* is the export of the part now in the package, that it is the part or    *)
(* its beginning; CopyInv what has been copied so far in this run of the   *)
(* cell.  ChosenInv says that a result is that of the rows and scores at   *)
(* hand; that it is the best one is a matter of arithmetic, of ratios      *)
(* compared by their products and of the sums of a histogram.  There the   *)
(* library's induction cannot be used, so induction is over sets of        *)
(* numbers (NaturalsByInduction), whose least element is that of a         *)
(* well-founded order (LeastNatural).                                      *)
(***************************************************************************)
EXTENDS RiskTraining, FiniteSetTheorems, WellFoundedInduction, TLAPS
-----------------------------------------------------------------------------
(* Least elements, and the cutoffs. *)

\* A set of natural numbers that is not empty has a least one.
LEMMA LeastNatural ==
  ASSUME NEW S \in SUBSET Nat, S # {}
  PROVE  \E m \in S : \A n \in S : m <= n
<1> DEFINE less == OpToRel(<, Nat)
<1>1. \A m, n \in Nat : <<m, n>> \in less <=> m < n
  BY DEF OpToRel
<1>2. IsWellFoundedOn(less, Nat)
  BY NatLessThanWellFounded
<1> HIDE DEF less
<1>3. \E m \in S : \A n \in S : ~(<<n, m>> \in less)
  BY <1>2, WFMin
<1>4. \E m \in S : \A n \in S : ~(n < m)
  BY <1>1, <1>3, Zenon
<1> QED
  BY <1>4

\* The next shard to enrich is one of those that are left.
LEMMA NextIsLeft ==
  ASSUME exporter.todo \subseteq Shards, exporter.todo # {}
  PROVE  NextToEnrich \in exporter.todo
<1>1. exporter.todo \in SUBSET Nat
  BY ExportAssumption
<1>2. \E s \in exporter.todo : \A t \in exporter.todo : s <= t
  BY <1>1, LeastNatural
<1> QED
  BY <1>2 DEF NextToEnrich

\* Up to a day at most all the events are counted.
LEMMA CountsOfEvents ==
  ASSUME NEW shards, NEW day
  PROVE  /\ IsFiniteSet(CountedEvents(shards)) /\ Cardinality(CountedEvents(shards)) \in Nat
         /\ CountUpTo(shards, day) \in Nat
         /\ CountUpTo(shards, day) <= Cardinality(CountedEvents(shards))
<1> DEFINE C == CountedEvents(shards)
           U == {e \in C : DayOf[e] <= day}
<1>1. C \in SUBSET Events /\ U \in SUBSET C
  BY DEF CountedEvents
<1> HIDE DEF U, C
<1>2. IsFiniteSet(C) /\ IsFiniteSet(U) /\ Cardinality(U) <= Cardinality(C)
  BY <1>1, ExportAssumption, FS_Subset
<1>3. Cardinality(C) \in Nat /\ Cardinality(U) \in Nat
  BY <1>2, FS_CardinalityType
<1> QED
  BY <1>2, <1>3 DEF CountUpTo, C, U

\* On the last day of some events all of them have happened.
LEMMA LastDay ==
  ASSUME NEW shards, CountedEvents(shards) # {}
  PROVE  \E e \in CountedEvents(shards) :
           CountUpTo(shards, DayOf[e]) = Cardinality(CountedEvents(shards))
<1> DEFINE C == CountedEvents(shards)
           total == Cardinality(C)
           upTo(day) == CountUpTo(shards, day)
           missing == {total - upTo(DayOf[e]) : e \in C}
<1>1. total \in Nat /\ \A day : upTo(day) \in Nat /\ upTo(day) <= total
  BY CountsOfEvents
<1>2. \A e \in C : DayOf[e] \in Nat
  BY ExportAssumption DEF CountedEvents
<1> HIDE DEF C, total, upTo
<1>3. missing \in SUBSET Nat /\ missing # {}
  BY <1>1 DEF C
<1>4. PICK e \in C : \A f \in C : total - upTo(DayOf[e]) <= total - upTo(DayOf[f])
  <2>1. PICK m \in missing : \A n \in missing : m <= n
    BY <1>3, LeastNatural
  <2> QED
    BY <2>1
<1>5. ASSUME upTo(DayOf[e]) # total
      PROVE  FALSE
  <2> DEFINE early == {f \in C : DayOf[f] <= DayOf[e]}
  <2>1. IsFiniteSet(C) /\ upTo(DayOf[e]) = Cardinality(early)
    BY CountsOfEvents DEF upTo, CountUpTo, C
  <2>2. early # C
    BY <1>5, <2>1 DEF total
  <2>3. PICK f \in C : ~(DayOf[f] <= DayOf[e])
    BY <2>2
  <2> DEFINE later == {g \in C : DayOf[g] <= DayOf[f]}
  <2>4. upTo(DayOf[f]) = Cardinality(later)
    BY DEF upTo, CountUpTo, C
  <2>5. f \notin early /\ early \cup {f} \in SUBSET later
    BY <1>2, <2>3
  <2>6. IsFiniteSet(early) /\ IsFiniteSet(later)
    BY <2>1, FS_Subset
  <2> HIDE DEF early, later
  <2>7. Cardinality(early \cup {f}) = Cardinality(early) + 1
    BY <2>5, <2>6, FS_AddElement
  <2>8. Cardinality(early \cup {f}) <= Cardinality(later)
    BY <2>5, <2>6, FS_Subset
  <2>9. Cardinality(early) \in Nat /\ Cardinality(later) \in Nat
    BY <2>6, FS_CardinalityType
  <2>10. total - upTo(DayOf[e]) <= total - upTo(DayOf[f])
    BY <1>4
  <2> QED
    BY <1>1, <2>1, <2>4, <2>7, <2>8, <2>9, <2>10
<1>6. upTo(DayOf[e]) = total
  BY <1>5
<1> QED
  BY <1>6 DEF upTo, total, C

\* A share of some events is reached on one of their days.
LEMMA FirstDayIsDay ==
  ASSUME NEW shards, CountedEvents(shards) # {}, NEW percent \in 0..100
  PROVE  FirstDay(shards, percent) \in Nat
<1> DEFINE total == Cardinality(CountedEvents(shards))
           reached == {DayOf[e] : e \in {f \in CountedEvents(shards) :
                                    100 * CountUpTo(shards, DayOf[f]) >= percent * total}}
<1>1. total \in Nat
  BY CountsOfEvents
<1>2. PICK e \in CountedEvents(shards) : CountUpTo(shards, DayOf[e]) = total
  BY LastDay
<1>3. 100 * total >= percent * total
  BY <1>1
<1>4. reached # {}
  BY <1>2, <1>3
<1>5. \A f \in CountedEvents(shards) : DayOf[f] \in Nat
  BY ExportAssumption DEF CountedEvents
<1>6. reached \in SUBSET Nat
  BY <1>5
<1>7. \E d \in reached : \A c \in reached : d <= c
  BY <1>4, <1>6, LeastNatural
<1> QED
  BY <1>6, <1>7 DEF FirstDay

LEMMA CutoffsAreDays ==
  ASSUME NEW shards, CountedEvents(shards) # {}
  PROVE  ChooseTimeCutoffs(shards) \in [train : Nat, val : Nat]
BY FirstDayIsDay DEF ChooseTimeCutoffs
-----------------------------------------------------------------------------
(* What the export and the training keep. *)

Cutoffs == [train : Nat, val : Nat]
Files == [there : {TRUE}, by : Nat, whole : BOOLEAN, cutoffs : Cutoffs, enriched : BOOLEAN]

Exporters ==
  [pc : {"counting", "exporting", "enriching", "reporting"}, selection : Selections,
   skip : BOOLEAN, cutoffs : Cutoffs, todo : SUBSET Shards, open : SUBSET Shards,
   written : SUBSET Shards, failed : BOOLEAN]

ExportTypes ==
  /\ drive \in [Names -> {NoFile} \cup Files]
  /\ exporter = NoExport \/ exporter \in Exporters
  /\ exporter.pc # "idle" => exports # 0
  /\ exports \in Nat
  /\ manifest = NoManifest \/ manifest.by \in 1..exports

\* A part, or a temporary file, that the export that runs has written.
Mine(n) == drive[n].there /\ drive[n].by = exports

\* What the export that runs has yet to do, and what it has done.
Counts ==
  exporter.pc = "counting" =>
    /\ exporter.todo = {} /\ exporter.open = {} /\ exporter.written = {} /\ ~exporter.failed
    /\ CountedEvents(Counted(exporter.selection)) # {}

Exports ==
  exporter.pc = "exporting" =>
    /\ exporter.open \subseteq exporter.todo
    /\ exporter.todo \cup exporter.written \subseteq ShardJobs(exporter.selection)
    /\ ~exporter.failed => exporter.todo \cup exporter.written = ShardJobs(exporter.selection)
    /\ \A s \in exporter.open \cup exporter.written : Mine(<<"part", s>>)

Enriches ==
  exporter.pc \in {"enriching", "reporting"} =>
    /\ exporter.written = ShardJobs(exporter.selection)
    /\ \A s \in exporter.written : Mine(<<"part", s>>)
    /\ exporter.pc = "enriching" =>
         /\ ~exporter.skip
         /\ exporter.open \subseteq exporter.todo /\ exporter.todo \subseteq exporter.written
         /\ \A s \in exporter.open : Mine(<<"tmp", s>>)
         /\ \A s \in exporter.written \ exporter.todo : ~drive[<<"tmp", s>>].there
    /\ exporter.pc = "reporting" /\ ~exporter.skip =>
         \A s \in exporter.written : ~drive[<<"tmp", s>>].there

\* A full export that has come to its end is in its directory whole.
Healed ==
  /\ exporter.pc # "idle" => manifest.by # exports
  /\ exporter.pc = "idle" /\ manifest # NoManifest /\ manifest.by = exports
       /\ manifest.selection = NoSelection /\ manifest.enriched =>
     \A s \in WithCounterparties : Mine(<<"part", s>>) /\ ~drive[<<"tmp", s>>].there

\* There are no files of shards that are not exported.
Placed == \A n \in FilesIn(drive) : n[2] \in WithCounterparties

ExportInv == ExportTypes /\ Counts /\ Exports /\ Enriches /\ Healed /\ Placed

Readers ==
  [pc : {"reading", "choosing", "writing"}, script : Scripts \cup {"notebook"}, column : Columns]
Copiers ==
  [pc : {"copying"}, script : {"notebook"}, column : Columns, todo : SUBSET Names, open : BOOLEAN]

TrainingTypes ==
  /\ local \in [Names -> {NoFile} \cup Files]
  /\ training = NoTraining \/ training \in Readers \/ training \in Copiers
  /\ training.pc # "idle" => exporter = NoExport /\ exports # 0

\* A copy of an export that is over: of the part now in the package, if that
\* is of the same export, or of the beginning of it.
LocalInv ==
  \A n \in FilesIn(local) :
    /\ exporter.pc # "idle" => local[n].by < exports
    /\ drive[n].there /\ drive[n].by = local[n].by =>
         local[n] = drive[n] \/ local[n] = [drive[n] EXCEPT !.whole = FALSE]

\* What the notebook has copied is the package's file, or another export's.
Faithful(n) == local[n].there /\ (local[n].by = drive[n].by => local[n] = drive[n])

CopyInv ==
  /\ training.pc = "copying" =>
       /\ training.todo \subseteq FilesIn(drive)
       /\ \A n \in FilesIn(drive) \ training.todo : Faithful(n)
       /\ training.open => training.todo # {}
  /\ training.pc \in {"reading", "choosing", "writing"} /\ training.script = "notebook" =>
       \A n \in FilesIn(drive) : Faithful(n)

\* The files of one export, and their copies, have its cutoffs.
KindsOf(dir) == {<<dir[n].by, dir[n].cutoffs>> : n \in FilesIn(dir)}
Kinds == KindsOf(drive) \cup KindsOf(local)

CutoffsInv ==
  /\ \A k \in Kinds : k[1] \in 1..exports
  /\ \A k, l \in Kinds : k[1] = l[1] => k[2] = l[2]
  /\ exporter.pc # "idle" =>
       \A k \in Kinds : k[1] = exports => exporter.pc # "counting" /\ k[2] = exporter.cutoffs

FittedInv ==
  training.pc \in {"choosing", "writing"} => fitted \subseteq RowsIn("train")
-----------------------------------------------------------------------------
(* The export. *)

LEMMA InitExport == ExportInit => ExportInv
<1> SUFFICES ASSUME ExportInit
             PROVE  ExportInv
  OBVIOUS
<1>1. ExportTypes
  BY DEF ExportInit, ExportTypes, NoExport
<1> USE DEF ExportInit, NoExport, NoManifest
<1>2. Counts /\ Exports /\ Enriches
  BY DEF Counts, Exports, Enriches
<1>3. Healed /\ Placed
  BY DEF Healed, Placed, FilesIn, NoFile
<1> QED
  BY <1>1, <1>2, <1>3 DEF ExportInv

LEMMA JobsAreExported ==
  ASSUME NEW selection \in Selections
  PROVE  /\ ShardJobs(selection) \subseteq WithCounterparties
         /\ ShardJobs(selection) \subseteq Shards
BY ExportAssumption DEF ShardJobs

LEMMA StartExportInv ==
  ASSUME ExportInv, StartExport
  PROVE  ExportInv'
<1>1. PICK selection \in Selections, skip \in BOOLEAN :
        /\ exporter.pc = "idle" /\ CountedEvents(Counted(selection)) # {}
        /\ exports' = exports + 1 /\ UNCHANGED <<drive, manifest>>
        /\ exporter' = [pc |-> "counting", selection |-> selection, skip |-> skip,
                        cutoffs |-> [train |-> 0, val |-> 0], todo |-> {}, open |-> {},
                        written |-> {}, failed |-> FALSE]
  BY DEF StartExport
<1>2. ExportTypes'
  BY <1>1 DEF ExportInv, ExportTypes, Exporters, Cutoffs
<1>3. Counts' /\ Exports' /\ Enriches'
  BY <1>1 DEF Counts, Exports, Enriches, CountedEvents, Counted
<1>4. manifest'.by # exports'
  BY <1>1 DEF ExportInv, ExportTypes, NoManifest
<1>5. Healed' /\ Placed'
  BY <1>1, <1>4 DEF ExportInv, Healed, Placed, FilesIn
<1> QED
  BY <1>2, <1>3, <1>5 DEF ExportInv

LEMMA ChooseSplitInv ==
  ASSUME ExportInv, ChooseSplit
  PROVE  ExportInv'
<1>1. /\ exporter \in Exporters /\ exporter.pc = "counting"
      /\ UNCHANGED <<drive, exports, manifest>>
      /\ exporter' = [exporter EXCEPT !.pc = "exporting",
                        !.cutoffs = ChooseTimeCutoffs(Counted(exporter.selection)),
                        !.todo = ShardJobs(exporter.selection)]
  BY DEF ChooseSplit, ExportInv, ExportTypes, NoExport
<1>2. ChooseTimeCutoffs(Counted(exporter.selection)) \in Cutoffs
  BY <1>1, CutoffsAreDays DEF ExportInv, Counts, Cutoffs
<1>3. ShardJobs(exporter.selection) \subseteq Shards
  BY <1>1, JobsAreExported DEF Exporters
<1>4. exporter' \in Exporters
  BY <1>1, <1>2, <1>3 DEF Exporters
<1>5. ExportTypes' /\ Counts' /\ Enriches' /\ Healed' /\ Placed'
  BY <1>1, <1>4 DEF ExportInv, ExportTypes, Counts, Enriches, Healed, Placed, FilesIn, Exporters
<1>6. Exports'
  BY <1>1 DEF ExportInv, Counts, Exports, ShardJobs, Exporters
<1> QED
  BY <1>5, <1>6 DEF ExportInv

LEMMA OpenPartInv ==
  ASSUME ExportInv, NEW s \in Shards, OpenPart(s)
  PROVE  ExportInv'
<1> DEFINE part == <<"part", s>>
<1>1. /\ exporter \in Exporters /\ exporter.pc = "exporting" /\ s \in exporter.todo \ exporter.open
      /\ UNCHANGED <<exports, manifest>>
      /\ drive' = [drive EXCEPT ![part] = File(exports, FALSE, exporter.cutoffs, FALSE)]
      /\ exporter' = [exporter EXCEPT !.open = @ \cup {s}]
  BY DEF OpenPart, JobCutoffs, ExportInv, ExportTypes, NoExport
<1>2. exporter' \in Exporters
  BY <1>1 DEF Exporters
<1>3. File(exports, FALSE, exporter.cutoffs, FALSE) \in Files
  BY <1>1 DEF File, Files, Exporters, ExportInv, ExportTypes
<1>4. drive \in [Names -> {NoFile} \cup Files] /\ part \in Names
  BY DEF ExportInv, ExportTypes, Names
<1>5. ExportTypes'
  BY <1>1, <1>2, <1>3, <1>4 DEF ExportInv, ExportTypes
<1>6. Mine(part)' /\ \A n \in Names \ {part} : drive'[n] = drive[n]
  BY <1>1, <1>4 DEF Mine, File
<1>7. \A t \in Shards : Mine(<<"part", t>>) => Mine(<<"part", t>>)'
  BY <1>1, <1>6 DEF Mine, Names
<1>8. Exports'
  BY <1>1, <1>6, <1>7 DEF ExportInv, Exports, Exporters
<1>9. s \in WithCounterparties
  BY <1>1, JobsAreExported DEF ExportInv, Exports, Exporters
<1>10. Placed'
  BY <1>4, <1>6, <1>9 DEF ExportInv, Placed, FilesIn
<1>11. Counts' /\ Enriches' /\ Healed'
  BY <1>1 DEF ExportInv, Counts, Enriches, Healed, Exporters
<1> QED
  BY <1>5, <1>8, <1>10, <1>11 DEF ExportInv

LEMMA WritePartInv ==
  ASSUME ExportInv, NEW s \in Shards, WritePart(s)
  PROVE  ExportInv'
<1> DEFINE part == <<"part", s>>
<1>1. /\ exporter \in Exporters /\ exporter.pc = "exporting" /\ s \in exporter.open
      /\ UNCHANGED <<exports, manifest>>
      /\ drive' = [drive EXCEPT ![part].whole = TRUE]
      /\ exporter' = [exporter EXCEPT !.open = @ \ {s}, !.todo = @ \ {s},
                                       !.written = @ \cup {s}]
  BY DEF WritePart, ExportInv, ExportTypes, NoExport
<1>2. exporter' \in Exporters
  BY <1>1 DEF Exporters
<1>3. drive \in [Names -> {NoFile} \cup Files] /\ part \in Names /\ Mine(part)
  BY <1>1 DEF ExportInv, ExportTypes, Names, Exports
<1>4. drive[part] \in Files
  BY <1>3 DEF Mine, NoFile
<1>5. [drive[part] EXCEPT !.whole = TRUE] \in Files
  BY <1>4 DEF Files
<1>6. ExportTypes'
  BY <1>1, <1>2, <1>3, <1>5 DEF ExportInv, ExportTypes
<1>7. Mine(part)' /\ \A n \in Names \ {part} : drive'[n] = drive[n]
  BY <1>1, <1>3, <1>4 DEF Mine, Files
<1>8. \A t \in Shards : Mine(<<"part", t>>) => Mine(<<"part", t>>)'
  BY <1>1, <1>7 DEF Mine, Names
<1>9. Exports'
  BY <1>1, <1>7, <1>8 DEF ExportInv, Exports, Exporters
<1>10. s \in WithCounterparties
  BY <1>1, JobsAreExported DEF ExportInv, Exports, Exporters
<1>11. Placed'
  BY <1>3, <1>7, <1>10 DEF ExportInv, Placed, FilesIn
<1>12. Counts' /\ Enriches' /\ Healed'
  BY <1>1 DEF ExportInv, Counts, Enriches, Healed, Exporters
<1> QED
  BY <1>6, <1>9, <1>11, <1>12 DEF ExportInv

\* Steps that write no file.
LEMMA QuietExportInv ==
  ASSUME ExportInv,
         \/ \E s \in Shards : ShardFails(s)
         \/ PoolEnds \/ NoDatasetCache \/ EnrichEnds \/ WriteManifest \/ ExportCrash
  PROVE  ExportInv'
<1>1. UNCHANGED <<drive, exports>> /\ exporter \in Exporters
  <2>1. exporter.pc # "idle" /\ UNCHANGED <<drive, exports>>
    BY DEF ShardFails, PoolEnds, NoDatasetCache, EnrichEnds, WriteManifest, ExportCrash
  <2> QED
    BY <2>1 DEF ExportInv, ExportTypes, NoExport
<1>2. Placed'
  BY <1>1 DEF ExportInv, Placed, FilesIn
<1>3. \A n : Mine(n)' <=> Mine(n)
  BY <1>1 DEF Mine
<1>4. ASSUME exporter' = NoExport, UNCHANGED manifest
      PROVE  ExportInv'
  <2>1. manifest'.by # exports'
    BY <1>1, <1>4 DEF ExportInv, Healed, Exporters
  <2> QED
    BY <1>1, <1>2, <1>4, <2>1
    DEF ExportInv, ExportTypes, Counts, Exports, Enriches, Healed, NoExport
<1>5. ASSUME NEW s \in Shards, ShardFails(s)
      PROVE  ExportInv'
  <2>1. exporter' \in Exporters
    BY <1>1, <1>5 DEF ShardFails, Exporters
  <2> QED
    BY <1>1, <1>2, <1>3, <1>5, <2>1
    DEF ShardFails, ExportInv, ExportTypes, Counts, Exports, Enriches, Healed, Exporters
<1>6. CASE PoolEnds /\ exporter' # NoExport
  <2>1. /\ exporter.pc = "exporting" /\ exporter.todo = {} /\ ~exporter.failed
        /\ UNCHANGED manifest
        /\ \/ exporter.skip /\ exporter' = [exporter EXCEPT !.pc = "reporting"]
           \/ /\ ~exporter.skip
              /\ exporter' = [exporter EXCEPT !.pc = "enriching", !.todo = exporter.written]
    BY <1>1, <1>6 DEF PoolEnds, Exporters
  <2>2. exporter' \in Exporters
    BY <1>1, <2>1 DEF Exporters
  <2> QED
    BY <1>1, <1>2, <1>3, <2>1, <2>2
    DEF ExportInv, ExportTypes, Counts, Exports, Enriches, Healed, Exporters
<1>7. CASE EnrichEnds
  <2>1. exporter' \in Exporters
    BY <1>1, <1>7 DEF EnrichEnds, Exporters
  <2> QED
    BY <1>1, <1>2, <1>3, <1>7, <2>1
    DEF EnrichEnds, ExportInv, ExportTypes, Counts, Exports, Enriches, Healed, Exporters
<1>8. CASE WriteManifest
  <2>1. /\ exporter.pc = "reporting" /\ exporter' = NoExport
        /\ manifest' = [by |-> exports, selection |-> exporter.selection,
                        enriched |-> ~exporter.skip, shards |-> exporter.written]
    BY <1>8 DEF WriteManifest
  <2>2. exports \in Nat \ {0}
    BY <1>1 DEF ExportInv, ExportTypes, Exporters, NoExport
  <2>3. ExportTypes'
    BY <1>1, <2>1, <2>2 DEF ExportInv, ExportTypes
  <2>4. Counts' /\ Exports' /\ Enriches'
    BY <2>1 DEF Counts, Exports, Enriches, NoExport
  <2>5. ASSUME exporter.selection = NoSelection, ~exporter.skip
        PROVE  \A s \in WithCounterparties : Mine(<<"part", s>>) /\ ~drive[<<"tmp", s>>].there
    <3>1. exporter.written = WithCounterparties
      BY <2>1, <2>5, ExportAssumption DEF ExportInv, Enriches, ShardJobs
    <3> QED
      BY <2>1, <2>5, <3>1 DEF ExportInv, Enriches
  <2>6. Healed'
    BY <1>1, <1>3, <2>1, <2>5 DEF Healed, NoExport
  <2> QED
    BY <1>2, <2>3, <2>4, <2>6 DEF ExportInv
<1>9. CASE NoDatasetCache \/ ExportCrash \/ (PoolEnds /\ exporter' = NoExport)
  BY <1>4, <1>9 DEF NoDatasetCache, ExportCrash, PoolEnds
<1> QED
  BY <1>5, <1>6, <1>7, <1>8, <1>9

LEMMA OpenTmpInv ==
  ASSUME ExportInv, OpenTmp
  PROVE  ExportInv'
<1>1. PICK s : s = NextToEnrich
  OBVIOUS
<1> DEFINE part == <<"part", s>>
           tmp == <<"tmp", s>>
           file == [drive[part] EXCEPT !.whole = FALSE, !.enriched = TRUE]
<1>2. /\ exporter \in Exporters /\ exporter.pc = "enriching"
      /\ exporter.todo # {} /\ exporter.open = {}
      /\ UNCHANGED <<exports, manifest>>
      /\ drive' = [drive EXCEPT ![tmp] = file]
      /\ exporter' = [exporter EXCEPT !.open = {s}]
  BY <1>1 DEF OpenTmp, ExportInv, ExportTypes, NoExport
<1>3. s \in exporter.todo /\ s \in Shards /\ s \in exporter.written
  BY <1>2, <1>1, NextIsLeft DEF Exporters, ExportInv, Enriches
<1>4. exporter' \in Exporters
  BY <1>2, <1>3 DEF Exporters
<1>5. drive \in [Names -> {NoFile} \cup Files] /\ part \in Names /\ tmp \in Names /\ Mine(part)
  BY <1>2, <1>3 DEF ExportInv, ExportTypes, Names, Enriches
<1>6. drive[part] \in Files
  BY <1>5 DEF Mine, NoFile
<1>7. file \in Files /\ file.there /\ file.by = exports
  BY <1>5, <1>6 DEF Files, Mine
<1>8. drive'[tmp] = file /\ \A n \in Names \ {tmp} : drive'[n] = drive[n]
  BY <1>2, <1>5
<1>9. ExportTypes'
  BY <1>2, <1>4, <1>5, <1>7 DEF ExportInv, ExportTypes
<1>10. Mine(tmp)'
  BY <1>2, <1>7, <1>8 DEF Mine
<1>11. \A t \in Shards : Mine(<<"part", t>>) => Mine(<<"part", t>>)'
  BY <1>2, <1>8 DEF Mine, Names
<1>12. \A t \in Shards \ {s} : drive'[<<"tmp", t>>] = drive[<<"tmp", t>>]
  BY <1>8 DEF Names
<1>13. Enriches'
  BY <1>2, <1>3, <1>10, <1>11, <1>12 DEF ExportInv, Enriches, Exporters
<1>14. s \in WithCounterparties
  BY <1>2, <1>3, JobsAreExported DEF ExportInv, Enriches, Exporters
<1>15. Placed'
  BY <1>5, <1>8, <1>14 DEF ExportInv, Placed, FilesIn
<1>16. Counts' /\ Exports' /\ Healed'
  BY <1>2 DEF ExportInv, Counts, Exports, Healed, Exporters
<1> QED
  BY <1>9, <1>13, <1>15, <1>16 DEF ExportInv

LEMMA WriteTmpInv ==
  ASSUME ExportInv, WriteTmp
  PROVE  ExportInv'
<1>1. PICK s \in exporter.open : drive' = [drive EXCEPT ![<<"tmp", s>>].whole = TRUE]
  BY DEF WriteTmp
<1> DEFINE tmp == <<"tmp", s>>
<1>2. /\ exporter \in Exporters /\ exporter.pc = "enriching"
      /\ UNCHANGED <<exporter, exports, manifest>>
  BY DEF WriteTmp, ExportInv, ExportTypes, NoExport
<1>3. drive \in [Names -> {NoFile} \cup Files] /\ tmp \in Names /\ Mine(tmp)
  BY <1>2 DEF ExportInv, ExportTypes, Names, Enriches, Exporters
<1>4. drive[tmp] \in Files
  BY <1>3 DEF Mine, NoFile
<1>5. [drive[tmp] EXCEPT !.whole = TRUE] \in Files
  BY <1>4 DEF Files
<1>6. ExportTypes'
  BY <1>1, <1>2, <1>3, <1>5 DEF ExportInv, ExportTypes
<1>7. \A n \in Names : drive'[n].there = drive[n].there /\ (Mine(n) => Mine(n)')
  BY <1>1, <1>2, <1>3, <1>4 DEF Mine, Files
<1>8. \A t \in Shards : <<"part", t>> \in Names /\ <<"tmp", t>> \in Names
  BY DEF Names
<1>9. Enriches'
  BY <1>2, <1>7, <1>8 DEF ExportInv, Enriches, Exporters
<1>10. Placed'
  BY <1>7 DEF ExportInv, Placed, FilesIn
<1>11. Counts' /\ Exports' /\ Healed'
  BY <1>2 DEF ExportInv, Counts, Exports, Healed, Exporters
<1> QED
  BY <1>6, <1>9, <1>10, <1>11 DEF ExportInv

LEMMA ReplacePartInv ==
  ASSUME ExportInv, ReplacePart
  PROVE  ExportInv'
<1>1. PICK s \in exporter.open :
        /\ drive' = Replaced(s)
        /\ exporter' = [exporter EXCEPT !.open = {}, !.todo = @ \ {s}]
  BY DEF ReplacePart
<1> DEFINE part == <<"part", s>>
           tmp == <<"tmp", s>>
<1>2. /\ exporter \in Exporters /\ exporter.pc = "enriching"
      /\ UNCHANGED <<exports, manifest>>
  BY DEF ReplacePart, ExportInv, ExportTypes, NoExport
<1>3. s \in Shards /\ s \in WithCounterparties /\ Mine(tmp)
  BY <1>2, JobsAreExported DEF ExportInv, Enriches, Exporters
<1>4. /\ drive \in [Names -> {NoFile} \cup Files]
      /\ tmp \in Names /\ part \in Names /\ tmp # part
  BY <1>3 DEF ExportInv, ExportTypes, Names
<1>5. drive' = [drive EXCEPT ![part] = drive[tmp], ![tmp] = NoFile]
  BY <1>1 DEF Replaced
<1>6. /\ drive'[part] = drive[tmp] /\ drive'[tmp] = NoFile
      /\ \A n \in Names \ {part, tmp} : drive'[n] = drive[n]
  BY <1>4, <1>5
<1>7. exporter' \in Exporters
  BY <1>1, <1>2 DEF Exporters
<1>8. ExportTypes'
  BY <1>2, <1>4, <1>5, <1>7 DEF ExportInv, ExportTypes
<1>9. \A t \in Shards : Mine(<<"part", t>>) => Mine(<<"part", t>>)'
  BY <1>2, <1>3, <1>6 DEF Mine, Names
<1>10. ~drive'[tmp].there /\ \A t \in Shards \ {s} : drive'[<<"tmp", t>>] = drive[<<"tmp", t>>]
  BY <1>6 DEF Names, NoFile
<1>11. Enriches'
  BY <1>1, <1>2, <1>9, <1>10 DEF ExportInv, Enriches, Exporters
<1>12. Placed'
  BY <1>3, <1>4, <1>6 DEF ExportInv, Placed, FilesIn, NoFile
<1>13. Counts' /\ Exports' /\ Healed'
  BY <1>1, <1>2 DEF ExportInv, Counts, Exports, Healed, Exporters
<1> QED
  BY <1>8, <1>11, <1>12, <1>13 DEF ExportInv

LEMMA ExportStep ==
  ASSUME ExportInv, ExportNext
  PROVE  ExportInv'
BY StartExportInv, ChooseSplitInv, OpenPartInv, WritePartInv, QuietExportInv, OpenTmpInv,
   WriteTmpInv, ReplacePartInv DEF ExportNext
-----------------------------------------------------------------------------
(* The cutoffs of the files. *)

\* A file that is replaced brings no kind but its own.
LEMMA NewKind ==
  ASSUME NEW S, NEW dir \in [Names -> S], NEW n \in Names, NEW f
  PROVE  KindsOf([dir EXCEPT ![n] = f])
           \subseteq KindsOf(dir) \cup (IF f.there THEN {<<f.by, f.cutoffs>>} ELSE {})
<1> DEFINE new == [dir EXCEPT ![n] = f]
<1> SUFFICES ASSUME NEW k \in KindsOf(new)
             PROVE  k \in KindsOf(dir) \cup (IF f.there THEN {<<f.by, f.cutoffs>>} ELSE {})
  OBVIOUS
<1>1. PICK m \in FilesIn(new) : k = <<new[m].by, new[m].cutoffs>>
  BY DEF KindsOf
<1>2. m \in Names /\ new[m].there
  BY <1>1 DEF FilesIn
<1>3. CASE m = n
  <2>1. new[m] = f
    BY <1>3
  <2> QED
    BY <1>1, <1>2, <2>1
<1>4. CASE m # n
  <2>1. new[m] = dir[m]
    BY <1>2, <1>4
  <2> HIDE DEF new
  <2>2. m \in FilesIn(dir)
    BY <1>2, <2>1 DEF FilesIn
  <2>3. k \in KindsOf(dir)
    BY <1>1, <2>1, <2>2 DEF KindsOf
  <2> QED
    BY <2>3
<1> QED
  BY <1>3, <1>4

\* Nor does one whose rows are those of another file.
LEMMA SameKind ==
  ASSUME NEW S, NEW dir \in [Names -> S], NEW n \in Names, NEW m \in FilesIn(dir), NEW f,
         f.by = dir[m].by, f.cutoffs = dir[m].cutoffs
  PROVE  KindsOf([dir EXCEPT ![n] = f]) \subseteq KindsOf(dir)
<1>1. <<f.by, f.cutoffs>> \in KindsOf(dir)
  BY DEF KindsOf
<1>2. KindsOf([dir EXCEPT ![n] = f])
        \subseteq KindsOf(dir) \cup (IF f.there THEN {<<f.by, f.cutoffs>>} ELSE {})
  BY NewKind
<1> HIDE DEF KindsOf
<1> QED
  BY <1>1, <1>2

\* What leaves the account of the cutoffs as it is.
LEMMA CutoffsKept ==
  ASSUME CutoffsInv, UNCHANGED exports, exports # 0 \/ Kinds' \subseteq Kinds, exports \in Nat,
         \/ Kinds' \subseteq Kinds
         \/ /\ exporter.pc \notin {"idle", "counting"}
            /\ Kinds' \subseteq Kinds \cup {<<exports, exporter.cutoffs>>},
         \/ exporter'.pc = "idle"
         \/ /\ exporter.pc # "idle" /\ exporter'.pc # "counting"
            /\ exporter.pc = "counting" \/ exporter'.cutoffs = exporter.cutoffs
  PROVE  CutoffsInv'
<1>1. \A k \in Kinds' : k[1] \in 1..exports
  BY DEF CutoffsInv
<1>2. \A k, l \in Kinds' : k[1] = l[1] => k[2] = l[2]
  BY DEF CutoffsInv
<1>3. exporter'.pc # "idle" =>
        \A k \in Kinds' : k[1] = exports => exporter'.pc # "counting" /\ k[2] = exporter'.cutoffs
  BY DEF CutoffsInv
<1> QED
  BY <1>1, <1>2, <1>3 DEF CutoffsInv

LEMMA ExportCutoffs ==
  ASSUME ExportInv, CutoffsInv, ExportNext, UNCHANGED local
  PROVE  CutoffsInv'
<1> USE DEF ExportInv
<1>1. exports \in Nat /\ drive \in [Names -> {NoFile} \cup Files]
      /\ (exporter.pc # "idle" => exports # 0 /\ exporter \in Exporters)
  BY DEF ExportTypes, NoExport
<1>2. UNCHANGED drive => Kinds' = Kinds
  BY DEF Kinds, KindsOf, FilesIn
<1>3. KindsOf(drive') \subseteq KindsOf(drive) => Kinds' \subseteq Kinds
  BY DEF Kinds, KindsOf, FilesIn
<1>4. \A k : KindsOf(drive') \subseteq KindsOf(drive) \cup {k} => Kinds' \subseteq Kinds \cup {k}
  BY DEF Kinds, KindsOf, FilesIn
<1>5. CASE StartExport
  BY <1>1, <1>2, <1>5 DEF StartExport, CutoffsInv
<1>6. CASE ChooseSplit
  <2>1. UNCHANGED <<drive, exports>> /\ exporter.pc = "counting" /\ exporter'.pc = "exporting"
    BY <1>1, <1>6 DEF ChooseSplit, Exporters
  <2> QED
    BY <1>1, <1>2, <2>1, CutoffsKept
<1>7. ASSUME NEW s \in Shards, OpenPart(s)
      PROVE  CutoffsInv'
  <2> DEFINE f == File(exports, FALSE, exporter.cutoffs, FALSE)
  <2>1. /\ exporter.pc = "exporting" /\ exporter'.pc = "exporting"
        /\ exporter'.cutoffs = exporter.cutoffs /\ UNCHANGED exports
        /\ drive' = [drive EXCEPT ![<<"part", s>>] = f]
    BY <1>1, <1>7 DEF OpenPart, JobCutoffs, Exporters
  <2>2. f.by = exports /\ f.cutoffs = exporter.cutoffs /\ <<"part", s>> \in Names
    BY DEF File, Names
  <2>3. KindsOf(drive') \subseteq KindsOf(drive) \cup {<<exports, exporter.cutoffs>>}
    BY <1>1, <2>1, <2>2, NewKind
  <2> QED
    BY <1>1, <1>4, <2>1, <2>3, CutoffsKept
<1>8. ASSUME NEW s \in Shards, WritePart(s)
      PROVE  CutoffsInv'
  <2> DEFINE part == <<"part", s>>
             f == [drive[part] EXCEPT !.whole = TRUE]
  <2>1. /\ exporter.pc = "exporting" /\ exporter'.pc = "exporting" /\ s \in exporter.open
        /\ exporter'.cutoffs = exporter.cutoffs /\ UNCHANGED exports
        /\ drive' = [drive EXCEPT ![part] = f]
    BY <1>1, <1>8 DEF WritePart, Exporters
  <2>2. part \in FilesIn(drive) /\ part \in Names
    BY <2>1 DEF Exports, Mine, FilesIn, Names
  <2>3. drive[part] \in Files
    BY <1>1, <2>2 DEF FilesIn, NoFile
  <2>4. f.by = drive[part].by /\ f.cutoffs = drive[part].cutoffs
    BY <2>3 DEF Files
  <2> HIDE DEF f
  <2>5. Kinds' \subseteq Kinds
    BY <1>1, <1>3, <2>1, <2>2, <2>4, SameKind
  <2> QED
    BY <1>1, <2>1, <2>5, CutoffsKept
<1>9. CASE OpenTmp
  <2>1. PICK s : s = NextToEnrich
    OBVIOUS
  <2> DEFINE part == <<"part", s>>
             tmp == <<"tmp", s>>
             f == [drive[part] EXCEPT !.whole = FALSE, !.enriched = TRUE]
  <2>2. /\ exporter.pc = "enriching" /\ exporter'.pc = "enriching" /\ exporter.todo # {}
        /\ exporter'.cutoffs = exporter.cutoffs /\ UNCHANGED exports
        /\ drive' = [drive EXCEPT ![tmp] = f]
    BY <1>1, <1>9, <2>1 DEF OpenTmp, Exporters
  <2>3. s \in exporter.written /\ s \in Shards
    BY <1>1, <2>1, <2>2, NextIsLeft DEF Exporters, Enriches
  <2>4. part \in FilesIn(drive) /\ tmp \in Names
    BY <2>2, <2>3 DEF Enriches, Mine, FilesIn, Names
  <2>5. drive[part] \in Files
    BY <1>1, <2>4 DEF FilesIn, NoFile
  <2>6. f.by = drive[part].by /\ f.cutoffs = drive[part].cutoffs
    BY <2>5 DEF Files
  <2> HIDE DEF f
  <2>7. Kinds' \subseteq Kinds
    BY <1>1, <1>3, <2>2, <2>4, <2>6, SameKind
  <2> QED
    BY <1>1, <2>2, <2>7, CutoffsKept
<1>10. CASE WriteTmp
  <2>1. PICK s \in exporter.open : drive' = [drive EXCEPT ![<<"tmp", s>>].whole = TRUE]
    BY <1>10 DEF WriteTmp
  <2> DEFINE tmp == <<"tmp", s>>
             f == [drive[tmp] EXCEPT !.whole = TRUE]
  <2>2. /\ exporter.pc = "enriching" /\ UNCHANGED <<exporter, exports>>
        /\ drive' = [drive EXCEPT ![tmp] = f]
    BY <1>10, <2>1 DEF WriteTmp
  <2>3. tmp \in FilesIn(drive) /\ tmp \in Names
    BY <1>1, <2>2 DEF Enriches, Mine, FilesIn, Names, Exporters
  <2>4. drive[tmp] \in Files
    BY <1>1, <2>3 DEF FilesIn, NoFile
  <2>5. f.by = drive[tmp].by /\ f.cutoffs = drive[tmp].cutoffs
    BY <2>4 DEF Files
  <2> HIDE DEF f
  <2>6. Kinds' \subseteq Kinds
    BY <1>1, <1>3, <2>2, <2>3, <2>5, SameKind
  <2> QED
    BY <1>1, <2>2, <2>6, CutoffsKept
<1>11. CASE ReplacePart
  <2>1. PICK s \in exporter.open :
          /\ drive' = Replaced(s) /\ exporter' = [exporter EXCEPT !.open = {}, !.todo = @ \ {s}]
    BY <1>11 DEF ReplacePart
  <2> DEFINE tmp == <<"tmp", s>>
             part == <<"part", s>>
             moved == [drive EXCEPT ![part] = drive[tmp]]
  <2>2. exporter.pc = "enriching" /\ UNCHANGED exports
    BY <1>11 DEF ReplacePart
  <2>3. tmp \in FilesIn(drive) /\ tmp \in Names /\ part \in Names
    BY <1>1, <2>2 DEF Enriches, Mine, FilesIn, Names, Exporters
  <2>4. moved \in [Names -> {NoFile} \cup Files]
    BY <1>1, <2>3
  <2>5. drive' = [moved EXCEPT ![tmp] = NoFile]
    BY <1>1, <2>1, <2>3 DEF Replaced
  <2>6. KindsOf(moved) \subseteq KindsOf(drive)
    BY <1>1, <2>3, SameKind
  <2>7. KindsOf(drive') \subseteq KindsOf(moved)
    <3>1. ~NoFile.there
      BY DEF NoFile
    <3> HIDE DEF moved
    <3> QED
      BY <2>3, <2>4, <2>5, <3>1, NewKind
  <2>8. Kinds' \subseteq Kinds
    BY <1>3, <2>6, <2>7
  <2>9. exporter'.pc = "enriching" /\ exporter'.cutoffs = exporter.cutoffs
    BY <1>1, <2>1, <2>2 DEF Exporters
  <2> QED
    BY <1>1, <2>2, <2>8, <2>9, CutoffsKept
<1>12. ASSUME \/ \E s \in Shards : ShardFails(s)
              \/ PoolEnds \/ NoDatasetCache \/ EnrichEnds \/ WriteManifest \/ ExportCrash
       PROVE  CutoffsInv'
  <2>1. UNCHANGED <<drive, exports>>
    BY <1>12 DEF ShardFails, PoolEnds, NoDatasetCache, EnrichEnds, WriteManifest, ExportCrash
  <2>2. exporter.pc # "idle"
    BY <1>12 DEF ShardFails, PoolEnds, NoDatasetCache, EnrichEnds, WriteManifest, ExportCrash
  <2>3. \/ exporter' = NoExport
        \/ exporter'.pc # "counting" /\ exporter'.cutoffs = exporter.cutoffs
    BY <1>1, <1>12, <2>2 DEF ShardFails, PoolEnds, NoDatasetCache, EnrichEnds, WriteManifest,
                             ExportCrash, Exporters
  <2> QED
    BY <1>1, <1>2, <2>1, <2>2, <2>3, CutoffsKept DEF NoExport
<1> QED
  BY <1>5, <1>6, <1>7, <1>8, <1>9, <1>10, <1>11, <1>12 DEF ExportNext
-----------------------------------------------------------------------------
(* The copies, while an export goes on. *)

\* An export changes files into its own, of which there are no copies yet.
LEMMA LocalKept ==
  ASSUME TrainingTypes, LocalInv, UNCHANGED <<local, exports>>, exports \in Nat,
         exporter.pc # "idle",
         \A n \in Names : drive'[n] = drive[n] \/ ~drive'[n].there \/ drive'[n].by = exports
  PROVE  LocalInv'
<1> SUFFICES ASSUME NEW n \in FilesIn(local)
             PROVE  /\ local[n].by < exports
                    /\ drive'[n].there /\ drive'[n].by = local[n].by =>
                         \/ local[n] = drive'[n]
                         \/ local[n] = [drive'[n] EXCEPT !.whole = FALSE]
  BY DEF LocalInv, FilesIn
<1>1. n \in Names /\ local[n].by < exports
  BY DEF LocalInv, FilesIn
<1>2. local[n].by \in Nat
  <2>1. local \in [Names -> {NoFile} \cup Files]
    BY DEF TrainingTypes
  <2>2. local[n] \in {NoFile} \cup Files
    BY <1>1, <2>1
  <2>3. local[n].there /\ ~NoFile.there
    BY DEF FilesIn, NoFile
  <2>4. local[n] \in Files
    BY <2>2, <2>3
  <2> QED
    BY <2>4 DEF Files
<1>3. CASE drive'[n] = drive[n]
  BY <1>1, <1>3 DEF LocalInv
<1>4. CASE ~drive'[n].there \/ drive'[n].by = exports
  BY <1>1, <1>2, <1>4
<1> QED
  BY <1>1, <1>3, <1>4

LEMMA ExportLocal ==
  ASSUME ExportInv, TrainingTypes, CutoffsInv, LocalInv, ExportNext, UNCHANGED local
  PROVE  LocalInv'
<1> USE DEF ExportInv
<1>1. exports \in Nat /\ drive \in [Names -> {NoFile} \cup Files]
      /\ (exporter.pc # "idle" => exporter \in Exporters)
  BY DEF ExportTypes, NoExport
<1>2. ASSUME UNCHANGED <<drive, exports>>, exporter.pc # "idle"
      PROVE  LocalInv'
  BY <1>1, <1>2, LocalKept
<1>3. CASE StartExport
  <2>1. UNCHANGED drive /\ exports' = exports + 1
    BY <1>3 DEF StartExport
  <2>2. \A n \in FilesIn(local) : local[n].by \in 1..exports
    <3>1. \A n \in FilesIn(local) : <<local[n].by, local[n].cutoffs>> \in Kinds
      BY DEF Kinds, KindsOf
    <3> QED
      BY <3>1 DEF CutoffsInv
  <2> QED
    BY <1>1, <2>1, <2>2 DEF LocalInv, FilesIn
<1>4. ASSUME NEW s \in Shards, OpenPart(s)
      PROVE  LocalInv'
  <2> DEFINE f == File(exports, FALSE, exporter.cutoffs, FALSE)
  <2>1. /\ exporter.pc = "exporting" /\ UNCHANGED exports
        /\ drive' = [drive EXCEPT ![<<"part", s>>] = f]
    BY <1>4 DEF OpenPart, JobCutoffs
  <2>2. f.by = exports
    BY DEF File
  <2> HIDE DEF f
  <2>3. \A n \in Names : drive'[n] = drive[n] \/ drive'[n].by = exports
    BY <1>1, <2>1, <2>2
  <2> QED
    BY <1>1, <2>1, <2>3, LocalKept
<1>5. ASSUME NEW s \in Shards, WritePart(s)
      PROVE  LocalInv'
  <2> DEFINE part == <<"part", s>>
             f == [drive[part] EXCEPT !.whole = TRUE]
  <2>1. /\ exporter.pc = "exporting" /\ s \in exporter.open /\ UNCHANGED exports
        /\ drive' = [drive EXCEPT ![part] = f]
    BY <1>5 DEF WritePart
  <2>2. Mine(part) /\ part \in Names
    BY <2>1 DEF Exports, Names
  <2>3. drive[part] \in Files
    BY <1>1, <2>2 DEF Mine, NoFile
  <2>4. f.by = exports
    BY <2>2, <2>3 DEF Mine, Files
  <2> HIDE DEF f
  <2>5. \A n \in Names : drive'[n] = drive[n] \/ drive'[n].by = exports
    BY <1>1, <2>1, <2>4
  <2> QED
    BY <1>1, <2>1, <2>5, LocalKept
<1>6. CASE OpenTmp
  <2>1. PICK s : s = NextToEnrich
    OBVIOUS
  <2> DEFINE part == <<"part", s>>
             f == [drive[part] EXCEPT !.whole = FALSE, !.enriched = TRUE]
  <2>2. /\ exporter.pc = "enriching" /\ exporter.todo # {} /\ UNCHANGED exports
        /\ drive' = [drive EXCEPT ![<<"tmp", s>>] = f]
    BY <1>6, <2>1 DEF OpenTmp
  <2>3. s \in exporter.written /\ s \in Shards
    BY <1>1, <2>1, <2>2, NextIsLeft DEF Exporters, Enriches
  <2>4. Mine(part) /\ part \in Names
    BY <2>2, <2>3 DEF Enriches, Names
  <2>5. drive[part] \in Files
    BY <1>1, <2>4 DEF Mine, NoFile
  <2>6. f.by = exports
    BY <2>4, <2>5 DEF Mine, Files
  <2> HIDE DEF f
  <2>7. \A n \in Names : drive'[n] = drive[n] \/ drive'[n].by = exports
    BY <1>1, <2>2, <2>6
  <2> QED
    BY <1>1, <2>2, <2>7, LocalKept
<1>7. CASE WriteTmp
  <2>1. PICK s \in exporter.open : drive' = [drive EXCEPT ![<<"tmp", s>>].whole = TRUE]
    BY <1>7 DEF WriteTmp
  <2> DEFINE tmp == <<"tmp", s>>
             f == [drive[tmp] EXCEPT !.whole = TRUE]
  <2>2. /\ exporter.pc = "enriching" /\ UNCHANGED exports
        /\ drive' = [drive EXCEPT ![tmp] = f]
    BY <1>7, <2>1 DEF WriteTmp
  <2>3. Mine(tmp) /\ tmp \in Names
    BY <1>1, <2>2 DEF Enriches, Names, Exporters
  <2>4. drive[tmp] \in Files
    BY <1>1, <2>3 DEF Mine, NoFile
  <2>5. f.by = exports
    BY <2>3, <2>4 DEF Mine, Files
  <2> HIDE DEF f
  <2>6. \A n \in Names : drive'[n] = drive[n] \/ drive'[n].by = exports
    BY <1>1, <2>2, <2>5
  <2> QED
    BY <1>1, <2>2, <2>6, LocalKept
<1>8. CASE ReplacePart
  <2>1. PICK s \in exporter.open : drive' = Replaced(s)
    BY <1>8 DEF ReplacePart
  <2> DEFINE tmp == <<"tmp", s>>
             part == <<"part", s>>
  <2>2. exporter.pc = "enriching" /\ UNCHANGED exports
    BY <1>8 DEF ReplacePart
  <2>3. Mine(tmp) /\ tmp \in Names /\ part \in Names
    BY <1>1, <2>2 DEF Enriches, Names, Exporters
  <2>4. /\ drive'[part] = drive[tmp] /\ drive'[tmp] = NoFile
        /\ \A n \in Names \ {part, tmp} : drive'[n] = drive[n]
    BY <1>1, <2>1, <2>3 DEF Replaced
  <2>5. \A n \in Names : drive'[n] = drive[n] \/ ~drive'[n].there \/ drive'[n].by = exports
    BY <2>3, <2>4 DEF Mine, NoFile
  <2> QED
    BY <1>1, <2>2, <2>5, LocalKept
<1>9. ASSUME \/ \E s \in Shards : ShardFails(s)
             \/ ChooseSplit \/ PoolEnds \/ NoDatasetCache \/ EnrichEnds \/ WriteManifest
             \/ ExportCrash
      PROVE  LocalInv'
  <2>1. UNCHANGED <<drive, exports>> /\ exporter.pc # "idle"
    BY <1>9 DEF ShardFails, ChooseSplit, PoolEnds, NoDatasetCache, EnrichEnds, WriteManifest,
                ExportCrash
  <2> QED
    BY <1>2, <2>1
<1> QED
  BY <1>3, <1>4, <1>5, <1>6, <1>7, <1>8, <1>9 DEF ExportNext
-----------------------------------------------------------------------------
(* The training. *)

Inv == ExportInv /\ TrainingTypes /\ LocalInv /\ CopyInv /\ CutoffsInv /\ FittedInv

LEMMA InitInv == Init => Inv
<1> SUFFICES ASSUME Init
             PROVE  Inv
  OBVIOUS
<1>1. ExportInv
  BY InitExport DEF Init
<1> USE DEF Init, ExportInit, NoTraining, NoExport
<1>2. TrainingTypes /\ LocalInv /\ CopyInv /\ FittedInv
  BY DEF TrainingTypes, LocalInv, FilesIn, NoFile, CopyInv, FittedInv
<1>3. Kinds = {}
  BY DEF Kinds, KindsOf, FilesIn, NoFile
<1>4. CutoffsInv
  BY <1>3 DEF CutoffsInv
<1> QED
  BY <1>1, <1>2, <1>4 DEF Inv

\* Names that are left to copy have a first.
LEMMA NextIsToCopy ==
  ASSUME training.todo \subseteq Names, training.todo # {}
  PROVE  NextToCopy \in training.todo
<1> DEFINE todo == training.todo
           numbers == {m[2] : m \in todo}
<1>1. \A m \in todo : m[1] \in {"part", "tmp"} /\ m[2] \in Nat /\ m = <<m[1], m[2]>>
  BY ExportAssumption DEF Names
<1> HIDE DEF todo
<1>2. PICK s \in numbers : \A t \in numbers : s <= t
  <2>1. numbers \in SUBSET Nat /\ numbers # {}
    BY <1>1 DEF todo
  <2> QED
    BY <2>1, LeastNatural
<1>3. \A m \in todo : s <= m[2]
  BY <1>2
<1>4. \E n \in todo : \A m \in todo \ {n} : Before(n, m)
  <2>1. CASE <<"part", s>> \in todo
    <3>1. \A m \in todo \ {<<"part", s>>} : s < m[2] \/ (s = m[2] /\ m[1] = "tmp")
      BY <1>1, <1>3, <2>1
    <3> QED
      BY <2>1, <3>1 DEF Before
  <2>2. CASE <<"part", s>> \notin todo
    <3>1. PICK n \in todo : n[2] = s
      BY <1>2
    <3>2. n = <<"tmp", s>>
      BY <1>1, <2>2, <3>1
    <3>3. \A m \in todo \ {n} : s < m[2]
      BY <1>1, <1>3, <2>2, <3>2
    <3> QED
      BY <3>1, <3>3 DEF Before
  <2> QED
    BY <2>1, <2>2
<1> QED
  BY <1>4 DEF NextToCopy, todo

\* Where the program reads the same files the rows are the same.
LEMMA RowsKept ==
  ASSUME UNCHANGED <<drive, local>>, training'.script = training.script,
         training'.column = training.column
  PROVE  \A split : RowsIn(split)' = RowsIn(split)
<1>1. Read' = Read
  BY DEF Read
<1>2. AllRows' = AllRows
  BY <1>1 DEF AllRows, FilesIn
<1>3. \A file, event : SplitOf(file, event)' = SplitOf(file, event)
  BY <1>1 DEF SplitOf
<1> QED
  BY <1>2, <1>3 DEF RowsIn

\* Steps that write no copy leave the files, and what is said of them, as they are.
LEMMA FilesKept ==
  ASSUME ExportInv, LocalInv, CutoffsInv, UNCHANGED <<exportVars, local>>
  PROVE  ExportInv' /\ LocalInv' /\ CutoffsInv'
<1>1. UNCHANGED <<drive, exporter, exports, manifest, local>>
  BY DEF exportVars
<1>2. Kinds' = Kinds
  BY <1>1 DEF Kinds, KindsOf, FilesIn
<1>3. LocalInv' /\ CutoffsInv'
  BY <1>1, <1>2 DEF LocalInv, FilesIn, CutoffsInv
<1>4. ExportTypes' /\ Counts' /\ Exports' /\ Enriches' /\ Healed' /\ Placed'
  BY <1>1 DEF ExportInv, ExportTypes, Counts, Exports, Enriches, Healed, Placed, Mine, FilesIn
<1> QED
  BY <1>3, <1>4 DEF ExportInv

LEMMA ExportInvStep ==
  ASSUME Inv, training.pc = "idle", ExportNext, UNCHANGED trainingVars
  PROVE  Inv'
<1>1. UNCHANGED <<local, training>>
  BY DEF trainingVars
<1>2. ExportInv' /\ LocalInv' /\ CutoffsInv'
  BY <1>1, ExportStep, ExportLocal, ExportCutoffs DEF Inv
<1>3. TrainingTypes' /\ CopyInv' /\ FittedInv'
  BY <1>1 DEF Inv, TrainingTypes, CopyInv, FittedInv
<1> QED
  BY <1>2, <1>3 DEF Inv

LEMMA BeginInv ==
  ASSUME Inv, StartScript \/ StartNotebook
  PROVE  Inv'
<1>1. /\ Idle /\ FilesIn(drive) # {} /\ UNCHANGED <<exportVars, local>>
      /\ \/ training' \in Readers /\ training'.pc = "reading" /\ training'.script # "notebook"
         \/ training' \in Copiers /\ training'.todo = FilesIn(drive) /\ ~training'.open
  <2>1. CASE StartScript
    <3>1. PICK script \in Scripts, column \in Columns :
            Begin([pc |-> "reading", script |-> script, column |-> column])
      BY <2>1 DEF StartScript
    <3> QED
      BY <3>1 DEF Begin, Readers, Scripts
  <2>2. CASE StartNotebook
    <3>1. FilesIn(drive) \in SUBSET Names
      BY DEF FilesIn
    <3>2. PICK column \in Columns :
            Begin([pc |-> "copying", script |-> "notebook", column |-> column,
                   todo |-> FilesIn(drive), open |-> FALSE])
      BY <2>2 DEF StartNotebook
    <3> QED
      BY <3>1, <3>2 DEF Begin, Copiers
  <2> QED
    BY <2>1, <2>2
<1>2. UNCHANGED <<drive, exporter, exports>>
  BY <1>1 DEF exportVars
<1>3. ExportInv' /\ LocalInv' /\ CutoffsInv'
  BY <1>1, FilesKept DEF Inv
<1>4. exports # 0
  <2>1. PICK n : n \in FilesIn(drive)
    BY <1>1
  <2>2. <<drive[n].by, drive[n].cutoffs>> \in Kinds
    BY <2>1 DEF Kinds, KindsOf
  <2> QED
    BY <2>2 DEF Inv, CutoffsInv
<1>5. exporter = NoExport
  BY <1>1 DEF Idle, Inv, ExportInv, ExportTypes, Exporters
<1>6. TrainingTypes'
  BY <1>1, <1>2, <1>4, <1>5 DEF Inv, TrainingTypes
<1>7. CopyInv' /\ FittedInv'
  BY <1>1, <1>2 DEF CopyInv, FittedInv, FilesIn, Readers, Copiers
<1> QED
  BY <1>3, <1>6, <1>7 DEF Inv

LEMMA GoneInv ==
  ASSUME Inv, Gone
  PROVE  Inv'
<1>1. UNCHANGED <<exportVars, local>> /\ training' = NoTraining
  BY DEF Gone
<1>2. ExportInv' /\ LocalInv' /\ CutoffsInv'
  BY <1>1, FilesKept DEF Inv
<1>3. TrainingTypes' /\ CopyInv' /\ FittedInv'
  BY <1>1 DEF Inv, TrainingTypes, CopyInv, FittedInv, NoTraining
<1> QED
  BY <1>2, <1>3 DEF Inv

LEMMA SkipCopyInv ==
  ASSUME Inv, SkipCopy
  PROVE  Inv'
<1>1. PICK n : n = NextToCopy
  OBVIOUS
<1>2. /\ training \in Copiers /\ training.todo # {} /\ ~training.open /\ MayBeSameSize(n)
      /\ training' = [training EXCEPT !.todo = @ \ {n}]
      /\ UNCHANGED <<exportVars, local>>
  BY <1>1 DEF SkipCopy, Copying, Inv, TrainingTypes, NoTraining, Readers
<1>3. UNCHANGED <<drive, exporter, exports>>
  BY <1>2 DEF exportVars
<1>4. training' \in Copiers
  BY <1>2 DEF Copiers
<1>5. TrainingTypes'
  BY <1>2, <1>3, <1>4 DEF Inv, TrainingTypes, Copiers
<1>6. CopyInv'
  <2>1. n \in training.todo /\ n \in FilesIn(drive)
    BY <1>1, <1>2, NextIsToCopy DEF Copiers, Inv, CopyInv
  <2>2. drive[n] \in Files /\ n \in FilesIn(local)
    BY <1>2, <2>1 DEF Inv, ExportInv, ExportTypes, FilesIn, NoFile, MayBeSameSize
  <2>3. ~drive[n].whole => [drive[n] EXCEPT !.whole = FALSE] = drive[n]
    BY <2>2 DEF Files
  <2>4. Faithful(n)
    BY <1>2, <2>1, <2>2, <2>3 DEF Inv, LocalInv, MayBeSameSize, CutShort, Faithful, FilesIn
  <2> QED
    BY <1>2, <1>3, <2>4 DEF Inv, CopyInv, Copiers, Faithful, FilesIn
<1>7. FittedInv'
  BY <1>4 DEF FittedInv, Copiers
<1>8. ExportInv' /\ LocalInv' /\ CutoffsInv'
  BY <1>2, FilesKept DEF Inv
<1> QED
  BY <1>5, <1>6, <1>7, <1>8 DEF Inv

LEMMA CopyStepInv ==
  ASSUME Inv, OpenCopy \/ WriteCopy
  PROVE  Inv'
<1>1. PICK n : n = NextToCopy
  OBVIOUS
<1>2. /\ training \in Copiers /\ training.todo # {} /\ UNCHANGED exportVars
      /\ \/ /\ local' = [local EXCEPT ![n] = [drive[n] EXCEPT !.whole = FALSE]]
            /\ training' = [training EXCEPT !.open = TRUE]
         \/ /\ local' = [local EXCEPT ![n] = drive[n]]
            /\ training' = [training EXCEPT !.open = FALSE, !.todo = @ \ {n}]
  BY <1>1 DEF OpenCopy, WriteCopy, Copying, Inv, TrainingTypes, NoTraining, Readers
<1>3. UNCHANGED <<drive, exporter, exports, manifest>>
  BY <1>2 DEF exportVars
<1>4. n \in training.todo /\ n \in FilesIn(drive) /\ n \in Names
  BY <1>1, <1>2, NextIsToCopy DEF Copiers, Inv, CopyInv, FilesIn
<1>5. drive[n] \in Files
  BY <1>4 DEF Inv, ExportInv, ExportTypes, FilesIn, NoFile
<1>6. PICK f \in Files :
        /\ f.by = drive[n].by /\ f.cutoffs = drive[n].cutoffs
        /\ f = drive[n] \/ f = [drive[n] EXCEPT !.whole = FALSE]
        /\ local' = [local EXCEPT ![n] = f]
        /\ \/ training' = [training EXCEPT !.open = TRUE]
           \/ training' = [training EXCEPT !.open = FALSE, !.todo = @ \ {n}] /\ f = drive[n]
  BY <1>2, <1>5 DEF Files
<1>7. training' \in Copiers
  BY <1>2, <1>6 DEF Copiers
<1>8. local \in [Names -> {NoFile} \cup Files] /\ local' \in [Names -> {NoFile} \cup Files]
  BY <1>4, <1>6 DEF Inv, TrainingTypes
<1>9. TrainingTypes'
  BY <1>2, <1>3, <1>7, <1>8 DEF Inv, TrainingTypes, Copiers
<1>10. CopyInv'
  <2>1. \A m \in FilesIn(drive) \ training.todo : Faithful(m)
    BY <1>2 DEF Inv, CopyInv, Copiers
  <2>2. \A m \in FilesIn(drive) \ training.todo : Faithful(m)'
    BY <1>3, <1>4, <1>6, <1>8, <2>1 DEF Faithful, FilesIn
  <2>3. f = drive[n] => Faithful(n)'
    BY <1>3, <1>4, <1>6, <1>8 DEF Faithful, Files
  <2>4. \A m \in FilesIn(drive)' \ training'.todo : Faithful(m)'
    BY <1>2, <1>3, <1>6, <2>2, <2>3 DEF Copiers, FilesIn
  <2> QED
    BY <1>2, <1>3, <1>4, <1>6, <1>7, <2>4 DEF Inv, CopyInv, Copiers, FilesIn
<1>11. FittedInv'
  BY <1>7 DEF FittedInv, Copiers
<1>12. CutoffsInv'
  <2>1. <<f.by, f.cutoffs>> \in KindsOf(drive)
    BY <1>4, <1>6 DEF KindsOf
  <2>2. KindsOf(local') \subseteq KindsOf(local) \cup {<<f.by, f.cutoffs>>}
    BY <1>4, <1>6, <1>8, NewKind
  <2>3. KindsOf(drive)' = KindsOf(drive) /\ KindsOf(local)' = KindsOf(local')
    BY <1>3 DEF KindsOf, FilesIn
  <2>4. Kinds' \subseteq Kinds
    BY <2>1, <2>2, <2>3 DEF Kinds
  <2> QED
    BY <1>3, <2>4 DEF Inv, CutoffsInv
<1>13. LocalInv'
  <2>1. /\ local'[n] = f
        /\ \A m \in Names : m = n \/ local'[m] = local[m]
    BY <1>4, <1>6, <1>8
  <2>2. \A m \in FilesIn(local)' : m = n \/ (m \in FilesIn(local) /\ local'[m] = local[m])
    BY <2>1 DEF FilesIn
  <2>3. exporter.pc = "idle"
    BY <1>2 DEF Inv, TrainingTypes, Copiers, NoExport
  <2>4. f = drive[n] \/ f = [drive[n] EXCEPT !.whole = FALSE]
    BY <1>6
  <2>5. \A m \in FilesIn(local) : drive[m].there /\ drive[m].by = local[m].by =>
          local[m] = drive[m] \/ local[m] = [drive[m] EXCEPT !.whole = FALSE]
    BY DEF Inv, LocalInv
  <2>6. \A m \in FilesIn(local)' : drive[m].there /\ drive[m].by = local'[m].by =>
          local'[m] = drive[m] \/ local'[m] = [drive[m] EXCEPT !.whole = FALSE]
    BY <2>1, <2>2, <2>4, <2>5
  <2> QED
    BY <1>3, <2>3, <2>6 DEF LocalInv
<1>14. ExportInv'
  BY <1>3 DEF Inv, ExportInv, ExportTypes, Counts, Exports, Enriches, Healed, Placed, Mine, FilesIn
<1> QED
  BY <1>9, <1>10, <1>11, <1>12, <1>13, <1>14 DEF Inv

LEMMA CopyEndsInv ==
  ASSUME Inv, CopyEnds
  PROVE  Inv'
<1>1. /\ training \in Copiers /\ training.todo = {} /\ UNCHANGED <<exportVars, local>>
      /\ training' = [pc |-> "reading", script |-> "notebook", column |-> training.column]
  BY DEF CopyEnds, Inv, TrainingTypes, NoTraining, Readers
<1>2. UNCHANGED <<drive, exporter, exports>>
  BY <1>1 DEF exportVars
<1>3. training' \in Readers
  BY <1>1 DEF Readers, Copiers
<1>4. TrainingTypes' /\ FittedInv'
  BY <1>1, <1>2, <1>3 DEF Inv, TrainingTypes, Copiers, FittedInv
<1>5. CopyInv'
  BY <1>1, <1>2 DEF Inv, CopyInv, Copiers, Faithful, FilesIn
<1>6. ExportInv' /\ LocalInv' /\ CutoffsInv'
  BY <1>1, FilesKept DEF Inv
<1> QED
  BY <1>4, <1>5, <1>6 DEF Inv

LEMMA LearningInv ==
  ASSUME Inv,
         \/ FitAblation \/ FitModel \/ FitNotebook \/ LoadSplits
         \/ ChooseAblation \/ ChooseModel \/ ChooseNotebook \/ ChooseFormula
  PROVE  Inv'
<1>1. /\ training.pc \in {"reading", "choosing"} /\ UNCHANGED <<exportVars, local>>
      /\ \/ training' = [training EXCEPT !.pc = "choosing"] /\ fitted' \in {{}, RowsIn("train")}
         \/ /\ training' = [training EXCEPT !.pc = "writing"] /\ UNCHANGED fitted
            /\ training.pc = "choosing"
  BY DEF FitAblation, FitModel, FitNotebook, LoadSplits, Fit, ChooseAblation, ChooseModel,
         ChooseNotebook, ChooseFormula, Choosing, Found
<1>2. UNCHANGED <<drive, exporter, exports>>
  BY <1>1 DEF exportVars
<1>3. training \in Readers
  BY <1>1 DEF Inv, TrainingTypes, NoTraining, Copiers
<1>4. /\ training' \in Readers /\ training'.pc \in {"choosing", "writing"}
      /\ training'.script = training.script /\ training'.column = training.column
  BY <1>1, <1>3 DEF Readers
<1>5. TrainingTypes'
  BY <1>1, <1>2, <1>4 DEF Inv, TrainingTypes
<1>6. CopyInv'
  BY <1>1, <1>2, <1>4 DEF Inv, CopyInv, Faithful, FilesIn
<1>7. FittedInv'
  <2>1. RowsIn("train")' = RowsIn("train")
    BY <1>1, <1>2, <1>4, RowsKept
  <2> QED
    BY <1>1, <2>1 DEF Inv, FittedInv
<1>8. ExportInv' /\ LocalInv' /\ CutoffsInv'
  BY <1>1, FilesKept DEF Inv
<1> QED
  BY <1>5, <1>6, <1>7, <1>8 DEF Inv

LEMMA NextInv ==
  ASSUME Inv, [Next]_vars
  PROVE  Inv'
<1>1. CASE Next
  BY <1>1, ExportInvStep, BeginInv, GoneInv, SkipCopyInv, CopyStepInv, CopyEndsInv, LearningInv
  DEF Next, ProgramFails, ProgramEnds, Interrupt
<1>2. CASE UNCHANGED vars
  <2>1. UNCHANGED <<exportVars, local>> /\ UNCHANGED <<drive, training, fitted>>
    BY <1>2 DEF vars, exportVars, trainingVars
  <2>2. ExportInv' /\ LocalInv' /\ CutoffsInv'
    BY <2>1, FilesKept DEF Inv
  <2>3. RowsIn("train")' = RowsIn("train")
    BY <2>1, RowsKept
  <2>4. FittedInv'
    BY <2>1, <2>3 DEF Inv, FittedInv
  <2>5. TrainingTypes' /\ CopyInv'
    BY <1>2 DEF Inv, TrainingTypes, CopyInv, Faithful, FilesIn, vars, exportVars, trainingVars
  <2> QED
    BY <2>2, <2>4, <2>5 DEF Inv
<1> QED
  BY <1>1, <1>2

\* Whatever exports, interrupted wherever, and whatever programs have run, the
\* directory, its copy and what a program has in memory fit one another as Inv
\* says (main and enrich_block_numbers of export_risk_training_dataset.py,
\* copy_file_if_needed of the notebook).
THEOREM InvHolds == Spec => []Inv
<1>1. Init => Inv
  BY InitInv
<1>2. Inv /\ [Next]_vars => Inv'
  BY NextInv
<1> QED
  BY <1>1, <1>2, PTL DEF Spec
-----------------------------------------------------------------------------
(* What is read. *)

LEMMA ReporterReads ==
  ASSUME Inv, Reporting
  PROVE  training \in Readers /\ exporter = NoExport /\ exports # 0
BY DEF Inv, TrainingTypes, Reporting, NoTraining, Copiers

\* A run of the copying cell that comes to its end makes good a copy that an
\* earlier run left short, of every part that is of the package's export
\* (copy_file_if_needed).
THEOREM CopyIsMadeGood == Spec => []CopyHeals
<1>1. ASSUME Inv
      PROVE  CopyHeals
  BY <1>1 DEF Inv, CopyInv, Faithful, CopyHeals
<1> QED
  BY <1>1, InvHolds, PTL

LEMMA FilesAreFinite == \A dir : IsFiniteSet(FilesIn(dir))
<1>1. IsFiniteSet({"part", "tmp"})
  <2>1. IsFiniteSet({"part"}) /\ {"part", "tmp"} = {"part"} \cup {"tmp"}
    BY FS_Singleton
  <2> QED
    BY <2>1, FS_AddElement
<1>2. IsFiniteSet(Names)
  BY <1>1, ExportAssumption, FS_Product DEF Names
<1>3. \A dir : FilesIn(dir) \in SUBSET Names
  BY DEF FilesIn
<1> QED
  BY <1>2, <1>3, FS_Subset

\* Files that one export has written are cut by the same days.
LEMMA OneExportOneSplit ==
  ASSUME Inv, Cardinality({Read[n].by : n \in FilesIn(Read)}) = 1
  PROVE  \E c \in Cutoffs : \A n \in FilesIn(Read) : Read[n].cutoffs = c
<1> DEFINE writers == {Read[n].by : n \in FilesIn(Read)}
<1>1. Read \in [Names -> {NoFile} \cup Files]
  BY DEF Read, Inv, TrainingTypes, ExportInv, ExportTypes
<1>2. \A n \in FilesIn(Read) : Read[n] \in Files /\ n \in Names
  BY <1>1 DEF FilesIn, NoFile
<1>3. IsFiniteSet(FilesIn(Read))
  BY FilesAreFinite
<1>4. IsFiniteSet(writers)
  <2> DEFINE by == [n \in FilesIn(Read) |-> Read[n].by]
  <2>1. by \in Surjection(FilesIn(Read), writers)
    BY DEF Surjection
  <2> HIDE DEF by, writers
  <2> QED
    BY <1>3, <2>1, FS_Surjection
<1>5. PICK by : writers = {by}
  <2> HIDE DEF writers
  <2>1. Cardinality(writers) = 1
    BY DEF writers
  <2> QED
    BY <1>4, <2>1, FS_Singleton
<1>6. PICK n \in FilesIn(Read) : Read[n].by = by
  BY <1>5
<1>7. \A m \in FilesIn(Read) : <<Read[m].by, Read[m].cutoffs>> \in Kinds
  BY DEF Read, Kinds, KindsOf
<1>8. \A m \in FilesIn(Read) : Read[m].by = by
  BY <1>5
<1>9. \A m \in FilesIn(Read) : Read[m].cutoffs = Read[n].cutoffs
  BY <1>6, <1>7, <1>8 DEF Inv, CutoffsInv
<1>10. Read[n].cutoffs \in Cutoffs
  BY <1>2, <1>6 DEF Files
<1> QED
  BY <1>9, <1>10

\* With a split by time and files of one export, every row that was fitted is
\* of an earlier day than those the threshold was chosen on and those it is
\* reported on (choose_time_cutoffs, and split_time).
THEOREM TrainingIsBeforeTesting == Spec => []SplitIsChronological
<1>1. ASSUME Inv
      PROVE  SplitIsChronological
  <2> SUFFICES ASSUME Reporting, training.column = "split_time",
                      Cardinality({Read[n].by : n \in FilesIn(Read)}) = 1
               PROVE  /\ \A r \in fitted, s \in RowsIn("val") \cup RowsIn("test") :
                           DayOf[r[2]] < DayOf[s[2]]
                      /\ \A r \in RowsIn("val"), s \in RowsIn("test") : DayOf[r[2]] < DayOf[s[2]]
    BY DEF SplitIsChronological
  <2>1. PICK c \in Cutoffs : \A n \in FilesIn(Read) : Read[n].cutoffs = c
    BY <1>1, OneExportOneSplit
  <2>2. \A split : \A r \in RowsIn(split) :
          DayOf[r[2]] \in Nat /\ SplitTime(DayOf[r[2]], c) = split
    BY <2>1, ExportAssumption DEF RowsIn, AllRows, SplitOf
  <2>3. \A r \in RowsIn("train") : DayOf[r[2]] <= c.train
    BY <2>2 DEF SplitTime, Cutoffs
  <2>4. \A r \in RowsIn("val") : DayOf[r[2]] > c.train /\ DayOf[r[2]] <= c.val
    BY <2>2 DEF SplitTime, Cutoffs
  <2>5. \A r \in RowsIn("test") : DayOf[r[2]] > c.train /\ DayOf[r[2]] > c.val
    BY <2>2 DEF SplitTime, Cutoffs
  <2>6. fitted \subseteq RowsIn("train")
    BY <1>1 DEF Inv, FittedInv, Reporting
  <2>7. c.train \in Nat /\ c.val \in Nat
    BY DEF Cutoffs
  <2> QED
    BY <2>2, <2>3, <2>4, <2>5, <2>6, <2>7
<1> QED
  BY <1>1, InvHolds, PTL

\* After a full export with the block numbers the scripts read each exported
\* event once, and no file of another export (enrich_block_numbers, main).
THEOREM FullExportIsWhole == Spec => []FullExportHeals
<1>1. ASSUME Inv
      PROVE  FullExportHeals
  <2> SUFFICES ASSUME Reporting, training.script # "notebook", manifest.by = exports,
                      manifest.selection = NoSelection, manifest.enriched
               PROVE  /\ \A e \in CountedEvents(WithCounterparties) :
                           Cardinality({r \in AllRows : r[2] = e}) = 1
                      /\ \A n \in FilesIn(Read) : Read[n].by = exports
    BY DEF FullExportHeals
  <2>1. exporter = NoExport /\ exports # 0 /\ Read = drive
    BY <1>1, ReporterReads DEF Read
  <2>2. \A s \in WithCounterparties : Mine(<<"part", s>>) /\ ~drive[<<"tmp", s>>].there
    <3>1. exporter.pc = "idle" /\ manifest # NoManifest
      BY <2>1 DEF NoManifest, NoExport
    <3>2. Healed
      BY <1>1 DEF Inv, ExportInv
    <3> QED
      BY <3>1, <3>2 DEF Healed
  <2>3. \A n \in FilesIn(drive) : \E s \in WithCounterparties : n = <<"part", s>>
    <3>1. \A n \in FilesIn(drive) :
            n[2] \in WithCounterparties /\ n \in {"part", "tmp"} \X Shards /\ drive[n].there
      BY <1>1 DEF Inv, ExportInv, Placed, FilesIn, Names
    <3>2. \A n \in FilesIn(drive) : n = <<n[1], n[2]>> /\ n[1] \in {"part", "tmp"}
      BY <3>1
    <3>3. \A n \in FilesIn(drive) : drive[n] # drive[<<"tmp", n[2]>>]
      BY <2>2, <3>1
    <3>4. \A n \in FilesIn(drive) : n = <<"part", n[2]>>
      BY <3>2, <3>3
    <3> QED
      BY <3>1, <3>4
  <2>4. \A s \in WithCounterparties : <<"part", s>> \in FilesIn(drive)
    BY <2>2, ExportAssumption DEF Mine, FilesIn, Names
  <2>5. ASSUME NEW e \in CountedEvents(WithCounterparties)
        PROVE  Cardinality({r \in AllRows : r[2] = e}) = 1
    <3> DEFINE part == <<"part", ShardOf[e]>>
    <3>1. e \in Events /\ ShardOf[e] \in WithCounterparties
      BY DEF CountedEvents
    <3>2. <<part, e>> \in AllRows
      BY <2>1, <2>4, <3>1 DEF AllRows
    <3>3. \A r \in AllRows : r[2] = e => r = <<part, e>>
      <4> SUFFICES ASSUME NEW r \in AllRows, r[2] = e
                   PROVE  r = <<part, e>>
        OBVIOUS
      <4>1. r[1] \in FilesIn(drive) /\ r = <<r[1], e>> /\ r[1][2] = ShardOf[e]
        BY <2>1 DEF AllRows
      <4>2. r[1] = part
        BY <2>3, <4>1
      <4> QED
        BY <4>1, <4>2
    <3>4. {r \in AllRows : r[2] = e} = {<<part, e>>}
      BY <3>2, <3>3
    <3> HIDE DEF part
    <3> QED
      BY <3>4, FS_Singleton
  <2>6. \A n \in FilesIn(Read) : Read[n].by = exports
    BY <2>1, <2>2, <2>3 DEF Mine
  <2> QED
    BY <2>5, <2>6
<1> QED
  BY <1>1, InvHolds, PTL
-----------------------------------------------------------------------------
(* The order of the metrics. *)

Ratios == {r \in Nat \X Nat : r[2] > 0}
AtMost(r, s) == r[1] * s[2] <= s[1] * r[2]

\* Fractions are compared by their products, transitively.
LEMMA Fractions ==
  ASSUME NEW a \in Nat, NEW b \in Nat, NEW c \in Nat, NEW d \in Nat, NEW e \in Nat, NEW f \in Nat,
         b > 0, d > 0, f > 0, a * d <= c * b, c * f <= e * d
  PROVE  a * f <= e * b
<1>1. (a * d) * f <= (c * b) * f
  OBVIOUS
<1>2. (c * f) * b <= (e * d) * b
  OBVIOUS
<1>3. d * (a * f) <= d * (e * b)
  BY <1>1, <1>2
<1> QED
  BY <1>3

LEMMA RatiosAreOrdered ==
  /\ \A r, s \in Ratios : AtMost(r, s) \/ AtMost(s, r)
  /\ \A r, s, t \in Ratios : AtMost(r, s) /\ AtMost(s, t) => AtMost(r, t)
  /\ \A r, s \in Ratios : Less(r, s) <=> ~AtMost(s, r)
  /\ \A r, s \in Ratios : Same(r, s) <=> AtMost(r, s) /\ AtMost(s, r)
<1>1. \A r, s \in Ratios : r[1] * s[2] \in Nat /\ s[1] * r[2] \in Nat
  BY DEF Ratios
<1>2. \A r, s, t \in Ratios : AtMost(r, s) /\ AtMost(s, t) => AtMost(r, t)
  BY Fractions DEF Ratios, AtMost
<1> QED
  BY <1>1, <1>2 DEF AtMost, Less, Same

Metrics == [threshold : Int, tp : Nat, fp : Nat, fn : Nat, tn : Nat]

\* Worse is a strict weak order.
LEMMA MetricsAreOrdered ==
  /\ \A m \in Metrics : ~Worse(m, m)
  /\ \A m, n \in Metrics : Worse(m, n) => ~Worse(n, m)
  /\ \A l, m, n \in Metrics : Worse(l, m) /\ ~Worse(n, m) => Worse(l, n)
  /\ \A l, m, n \in Metrics : ~Worse(m, l) /\ Worse(m, n) => Worse(l, n)
<1>1. \A m \in Metrics : F1(m) \in Ratios /\ Precision(m) \in Ratios /\ Recall(m) \in Ratios
  <2> SUFFICES ASSUME NEW m \in Metrics
               PROVE  F1(m) \in Ratios /\ Precision(m) \in Ratios /\ Recall(m) \in Ratios
    OBVIOUS
  <2>1. \A a, b \in Nat : Ratio(a, b) \in Ratios
    BY DEF Ratio, Ratios
  <2>2. 2 * m.tp \in Nat /\ 2 * m.tp + m.fp + m.fn \in Nat /\ m.tp + m.fp \in Nat
        /\ m.tp + m.fn \in Nat /\ m.tp \in Nat
    BY DEF Metrics
  <2> QED
    BY <2>1, <2>2 DEF F1, Precision, Recall
<1>2. \A m, n \in Metrics : Worse(m, n) <=>
        \/ ~AtMost(F1(n), F1(m))
        \/ AtMost(F1(n), F1(m)) /\ AtMost(F1(m), F1(n)) /\ ~AtMost(Precision(n), Precision(m))
        \/ /\ AtMost(F1(n), F1(m)) /\ AtMost(F1(m), F1(n))
           /\ AtMost(Precision(n), Precision(m)) /\ AtMost(Precision(m), Precision(n))
           /\ ~AtMost(Recall(n), Recall(m))
  BY <1>1, RatiosAreOrdered, Zenon DEF Worse
<1>3. \A m, n \in Metrics :
        /\ AtMost(F1(m), F1(n)) \/ AtMost(F1(n), F1(m))
        /\ AtMost(Precision(m), Precision(n)) \/ AtMost(Precision(n), Precision(m))
        /\ AtMost(Recall(m), Recall(n)) \/ AtMost(Recall(n), Recall(m))
  BY <1>1, RatiosAreOrdered
<1>4. \A l, m, n \in Metrics :
        /\ AtMost(F1(l), F1(m)) /\ AtMost(F1(m), F1(n)) => AtMost(F1(l), F1(n))
        /\ AtMost(Precision(l), Precision(m)) /\ AtMost(Precision(m), Precision(n))
             => AtMost(Precision(l), Precision(n))
        /\ AtMost(Recall(l), Recall(m)) /\ AtMost(Recall(m), Recall(n))
             => AtMost(Recall(l), Recall(n))
  BY <1>1, RatiosAreOrdered
<1> HIDE DEF AtMost, F1, Precision, Recall, Metrics
<1>5. \A m \in Metrics : ~Worse(m, m)
  BY <1>2, <1>3
<1>6. \A m, n \in Metrics : Worse(m, n) => ~Worse(n, m)
  BY <1>2, <1>3
<1>7. \A l, m, n \in Metrics : Worse(l, m) /\ ~Worse(n, m) => Worse(l, n)
  BY <1>2, <1>3, <1>4
<1>8. \A l, m, n \in Metrics : ~Worse(m, l) /\ Worse(m, n) => Worse(l, n)
  BY <1>2, <1>3, <1>4
<1> QED
  BY <1>5, <1>6, <1>7, <1>8

\* A transitive relation without loops has a last element in a finite set.
LEMMA FiniteSetsHaveLast ==
  ASSUME NEW S, IsFiniteSet(S), S # {}, NEW R,
         \A m \in S : <<m, m>> \notin R,
         \A l, m, n \in S : <<l, m>> \in R /\ <<m, n>> \in R => <<l, n>> \in R
  PROVE  \E m \in S : \A n \in S : <<m, n>> \notin R
<1> DEFINE under(m) == {n \in S : <<n, m>> \in R}
           above == {Cardinality(S) - Cardinality(under(m)) : m \in S}
<1>1. \A m \in S : IsFiniteSet(under(m)) /\ Cardinality(under(m)) <= Cardinality(S)
  BY FS_Subset
<1>2. Cardinality(S) \in Nat /\ \A m \in S : Cardinality(under(m)) \in Nat
  BY <1>1, FS_CardinalityType
<1>3. \A l, m \in S : <<l, m>> \in R => Cardinality(under(l)) < Cardinality(under(m))
  <2> SUFFICES ASSUME NEW l \in S, NEW m \in S, <<l, m>> \in R
               PROVE  Cardinality(under(l)) < Cardinality(under(m))
    OBVIOUS
  <2>1. under(l) \in SUBSET under(m) /\ l \in under(m) /\ l \notin under(l)
    OBVIOUS
  <2>2. under(l) # under(m)
    BY <2>1
  <2> HIDE DEF under
  <2> QED
    BY <1>1, <1>2, <2>1, <2>2, FS_Subset
<1> HIDE DEF under
<1>4. above \in SUBSET Nat /\ above # {}
  BY <1>1, <1>2
<1>5. PICK k \in above : \A j \in above : k <= j
  BY <1>4, LeastNatural
<1>6. PICK m \in S : k = Cardinality(S) - Cardinality(under(m))
  BY <1>5
<1>7. \A n \in S : k <= Cardinality(S) - Cardinality(under(n))
  BY <1>5
<1> QED
  BY <1>2, <1>3, <1>6, <1>7
-----------------------------------------------------------------------------
(* The histogram. *)

\* Induction over the naturals, of a set of them.
LEMMA NaturalsByInduction ==
  ASSUME NEW T \in SUBSET Nat, 0 \in T, \A n \in T : n + 1 \in T
  PROVE  T = Nat
<1> SUFFICES ASSUME T # Nat
             PROVE  FALSE
  OBVIOUS
<1>1. PICK m \in Nat \ T : \A n \in Nat \ T : m <= n
  BY LeastNatural
<1>2. m # 0 /\ m - 1 \in Nat
  BY <1>1
<1>3. m - 1 \in T
  BY <1>1, <1>2
<1> QED
  BY <1>1, <1>2, <1>3

LEMMA DisjointUnion ==
  ASSUME NEW A, IsFiniteSet(A), NEW B, IsFiniteSet(B), A \cap B = {}
  PROVE  Cardinality(A \cup B) = Cardinality(A) + Cardinality(B)
<1>1. Cardinality(A \cup B) = Cardinality(A) + Cardinality(B) - Cardinality({})
  BY FS_Union
<1> QED
  BY <1>1, FS_EmptySet, FS_CardinalityType

Any(s) == CHOOSE d \in s : TRUE

LEMMA AnyIsMember ==
  ASSUME NEW s, s # {}
  PROVE  Any(s) \in s
BY DEF Any

\* The rows whose bins are among those given.
RowsAt(R, bin, bins) == {r \in R : bin[r] \in bins}

\* Taking one bin after the other, sum adds up how many rows each has.
AddsUp(sum, R, bin, bins) ==
  /\ sum[{}] = 0
  /\ \A s \in (SUBSET bins) \ {{}} :
       sum[s] = Cardinality(RowsAt(R, bin, {Any(s)})) + sum[s \ {Any(s)}]

LEMMA OneBinMore ==
  ASSUME NEW R, IsFiniteSet(R), NEW bin, NEW s, s # {}
  PROVE  Cardinality(RowsAt(R, bin, s)) =
           Cardinality(RowsAt(R, bin, {Any(s)})) + Cardinality(RowsAt(R, bin, s \ {Any(s)}))
<1> DEFINE one == RowsAt(R, bin, {Any(s)})
           others == RowsAt(R, bin, s \ {Any(s)})
<1>1. RowsAt(R, bin, s) = one \cup others /\ one \cap others = {}
  BY AnyIsMember DEF RowsAt
<1>2. IsFiniteSet(one) /\ IsFiniteSet(others)
  BY FS_Subset DEF RowsAt
<1> HIDE DEF one, others
<1>3. Cardinality(one \cup others) = Cardinality(one) + Cardinality(others)
  BY <1>1, <1>2, DisjointUnion
<1> QED
  BY <1>1, <1>3 DEF one, others

LEMMA SumCountsRows ==
  ASSUME NEW R, IsFiniteSet(R), NEW D, IsFiniteSet(D), NEW bin, NEW sum, AddsUp(sum, R, bin, D)
  PROVE  sum[D] = Cardinality(RowsAt(R, bin, D))
<1> DEFINE T == {n \in Nat : \A s \in SUBSET D :
                   Cardinality(s) = n => sum[s] = Cardinality(RowsAt(R, bin, s))}
<1>1. \A s \in SUBSET D : IsFiniteSet(s) /\ Cardinality(s) \in Nat
  BY FS_Subset, FS_CardinalityType
<1>2. 0 \in T
  <2> SUFFICES ASSUME NEW s \in SUBSET D, Cardinality(s) = 0
               PROVE  sum[s] = Cardinality(RowsAt(R, bin, s))
    OBVIOUS
  <2>1. s = {}
    BY <1>1, FS_EmptySet
  <2>2. RowsAt(R, bin, s) = {}
    BY <2>1 DEF RowsAt
  <2> QED
    BY <2>1, <2>2, FS_EmptySet DEF AddsUp
<1>3. ASSUME NEW n \in T
      PROVE  n + 1 \in T
  <2> SUFFICES ASSUME NEW s \in SUBSET D, Cardinality(s) = n + 1
               PROVE  sum[s] = Cardinality(RowsAt(R, bin, s))
    OBVIOUS
  <2>1. s # {} /\ n \in Nat
    BY <1>1, FS_EmptySet
  <2>2. sum[s] = Cardinality(RowsAt(R, bin, {Any(s)})) + sum[s \ {Any(s)}]
    BY <2>1 DEF AddsUp
  <2>3. Cardinality(s \ {Any(s)}) = n
    <3>1. IsFiniteSet(s) /\ Any(s) \in s
      BY <1>1, <2>1, AnyIsMember
    <3>2. Cardinality(s \ {Any(s)}) = Cardinality(s) - 1
      BY <3>1, FS_RemoveElement
    <3> QED
      BY <2>1, <3>2
  <2>4. sum[s \ {Any(s)}] = Cardinality(RowsAt(R, bin, s \ {Any(s)}))
    BY <2>3
  <2> QED
    BY <2>1, <2>2, <2>4, OneBinMore
<1>4. T = Nat
  <2> HIDE DEF T
  <2> QED
    BY <1>2, <1>3, NaturalsByInduction DEF T
<1> QED
  BY <1>1, <1>4

\* The sum of the counts of some bins is the count of the rows in them.
LEMMA SumOfCounts ==
  ASSUME NEW R, IsFiniteSet(R), NEW D, IsFiniteSet(D), NEW bin, NEW count,
         \A d \in D : count[d] = Cardinality(RowsAt(R, bin, {d}))
  PROVE  SumFunctionOnSet(count, D) = Cardinality(RowsAt(R, bin, D))
<1> DEFINE Sums(sum) == sum = [s \in SUBSET D |->
                                 IF s = {} THEN 0 ELSE count[Any(s)] + sum[s \ {Any(s)}]]
           counts == [s \in SUBSET D |-> Cardinality(RowsAt(R, bin, s))]
<1>1. SumFunctionOnSet(count, D) = (CHOOSE sum : Sums(sum))[D]
  BY DEF SumFunctionOnSet, FoldFunctionOnSet, MapThenFoldSet, Any
<1>2. ASSUME NEW s \in SUBSET D
      PROVE  counts[s] = IF s = {} THEN 0 ELSE count[Any(s)] + counts[s \ {Any(s)}]
  <2>1. CASE s = {}
    BY <2>1, FS_EmptySet DEF RowsAt
  <2>2. CASE s # {}
    <3>1. Any(s) \in D /\ s \ {Any(s)} \in SUBSET D
      BY <2>2, AnyIsMember
    <3>2. Cardinality(RowsAt(R, bin, s)) =
            Cardinality(RowsAt(R, bin, {Any(s)})) + Cardinality(RowsAt(R, bin, s \ {Any(s)}))
      BY <2>2, OneBinMore
    <3> QED
      BY <2>2, <3>1, <3>2
  <2> QED
    BY <2>1, <2>2
<1>3. Sums(counts)
  BY <1>2
<1>4. Sums(CHOOSE sum : Sums(sum))
  <2> HIDE DEF Sums
  <2> QED
    BY <1>3, Zenon
<1>5. PICK sum : sum = (CHOOSE j : Sums(j)) /\ Sums(sum)
  BY <1>4
<1>6. AddsUp(sum, R, bin, D)
  <2>1. sum[{}] = 0
    BY <1>5
  <2>2. ASSUME NEW s \in (SUBSET D) \ {{}}
        PROVE  sum[s] = Cardinality(RowsAt(R, bin, {Any(s)})) + sum[s \ {Any(s)}]
    <3>1. s \in SUBSET D /\ s # {}
      OBVIOUS
    <3>2. sum[s] = count[Any(s)] + sum[s \ {Any(s)}]
      BY <1>5, <3>1, Zenon
    <3>3. Any(s) \in D
      BY <3>1, AnyIsMember
    <3> QED
      BY <3>2, <3>3
  <2> QED
    BY <2>1, <2>2, Zenon DEF AddsUp
<1>7. sum[D] = Cardinality(RowsAt(R, bin, D))
  BY <1>6, SumCountsRows
<1> QED
  BY <1>1, <1>5, <1>7

\* A score lies in the bin of the last threshold it reaches.
LEMMA BinIsReached ==
  ASSUME NEW score \in 0..(2 * (GridSize - 1))
  PROVE  Bin(score) \in Grid /\ \A i \in Grid : i <= Bin(score) <=> 2 * i <= score
<1>1. PICK k \in Nat : 2 * k <= score /\ score < 2 * k + 2
  <2> DEFINE beyond == {i \in Nat : score < 2 * i + 2}
  <2>1. beyond \in SUBSET Nat /\ score \in beyond
    OBVIOUS
  <2>2. PICK k \in beyond : \A i \in beyond : k <= i
    BY <2>1, LeastNatural
  <2>3. k # 0 => k - 1 \in Nat /\ ~(score < 2 * (k - 1) + 2)
    BY <2>2
  <2> QED
    BY <2>2, <2>3
<1>2. k \in Grid
  BY <1>1, TrainingAssumption DEF Grid
<1>3. {i \in Grid : 2 * i <= score} = 0..k
  BY <1>1, <1>2, TrainingAssumption DEF Grid
<1>4. Cardinality(0..k) = k + 1
  BY FS_Interval
<1>5. Bin(score) = k
  <2>1. Bin(score) = Cardinality(0..k) - 1
    BY <1>3, Zenon DEF Bin
  <2> QED
    BY <1>4, <2>1
<1> QED
  BY <1>1, <1>2, <1>5 DEF Grid

\* What the histogram of some rows needs of their scores.
Scored(rows, f) == \A r \in rows : f[r[2]] \in 0..(2 * (GridSize - 1))

InBin(R, f, j) == {r \in R : Bin(f[r[2]]) = j}
Reaching(R, f, score) == {r \in R : f[r[2]] >= score}

LEMMA CountFromBin ==
  ASSUME NEW R, IsFiniteSet(R), NEW f, Scored(R, f), NEW i \in Grid, NEW hist,
         \A j \in Grid : hist[j] = Cardinality(InBin(R, f, j))
  PROVE  CountFrom(hist, i) = Cardinality(Reaching(R, f, 2 * i))
<1> DEFINE bin == [r \in R |-> Bin(f[r[2]])]
           D == i..(GridSize - 1)
<1>1. GridSize \in Nat /\ i \in Nat
  BY TrainingAssumption DEF Grid
<1>2. IsFiniteSet(D) /\ D \in SUBSET Grid
  BY <1>1, FS_Interval DEF Grid
<1>3. \A d \in D : hist[d] = Cardinality(RowsAt(R, bin, {d}))
  <2> SUFFICES ASSUME NEW d \in D
               PROVE  hist[d] = Cardinality(RowsAt(R, bin, {d}))
    OBVIOUS
  <2>1. RowsAt(R, bin, {d}) = InBin(R, f, d)
    BY DEF RowsAt, InBin
  <2> QED
    BY <1>2, <2>1
<1>4. RowsAt(R, bin, D) = Reaching(R, f, 2 * i)
  <2>1. \A r \in R : bin[r] \in D <=> f[r[2]] >= 2 * i
    <3> SUFFICES ASSUME NEW r \in R
                 PROVE  bin[r] \in D <=> f[r[2]] >= 2 * i
      OBVIOUS
    <3>1. f[r[2]] \in 0..(2 * (GridSize - 1)) /\ bin[r] = Bin(f[r[2]])
      BY DEF Scored
    <3>2. Bin(f[r[2]]) \in Grid /\ (i <= Bin(f[r[2]]) <=> 2 * i <= f[r[2]])
      BY <3>1, BinIsReached
    <3> QED
      BY <1>1, <3>1, <3>2 DEF Grid
  <2> QED
    BY <2>1 DEF RowsAt, Reaching
<1> HIDE DEF bin, D
<1>5. SumFunctionOnSet(hist, D) = Cardinality(RowsAt(R, bin, D))
  BY <1>2, <1>3, SumOfCounts
<1> QED
  BY <1>4, <1>5 DEF CountFrom, D

LEMMA TwoClasses ==
  ASSUME NEW rows, IsFiniteSet(rows)
  PROVE  /\ IsFiniteSet(PositivesIn(rows)) /\ IsFiniteSet(rows \ PositivesIn(rows))
         /\ Cardinality(PositivesIn(rows)) \in Nat
         /\ Cardinality(rows \ PositivesIn(rows)) \in Nat
         /\ Cardinality(rows) = Cardinality(PositivesIn(rows))
                                  + Cardinality(rows \ PositivesIn(rows))
<1> DEFINE P == PositivesIn(rows)
           N == rows \ P
<1>1. P \in SUBSET rows /\ N \in SUBSET rows /\ rows = P \cup N /\ P \cap N = {}
  BY DEF PositivesIn
<1> HIDE DEF P, N
<1>2. IsFiniteSet(P) /\ IsFiniteSet(N)
  BY <1>1, FS_Subset
<1>3. Cardinality(P \cup N) = Cardinality(P) + Cardinality(N)
  BY <1>1, <1>2, DisjointUnion
<1>4. Cardinality(P) \in Nat /\ Cardinality(N) \in Nat
  BY <1>2, FS_CardinalityType
<1> QED
  BY <1>1, <1>2, <1>3, <1>4 DEF P, N

\* The two ways to measure a threshold agree.
LEMMA HistogramIsExact ==
  ASSUME NEW rows, IsFiniteSet(rows), NEW f, Scored(rows, f), NEW i \in Grid
  PROVE  /\ MetricsFromHist(Histogram(rows, f), i) = MetricsFromScores(rows, f, 2 * i)
         /\ MetricsFromScores(rows, f, 2 * i) \in Metrics
         /\ MetricsFromScores(rows, f, 2 * i).threshold = 2 * i
<1> DEFINE P == PositivesIn(rows)
           N == rows \ P
           alerts == {r \in rows : f[r[2]] >= 2 * i}
           tp == Cardinality(PositivesIn(alerts))
           fp == Cardinality(alerts \ PositivesIn(alerts))
           hist == Histogram(rows, f)
<1>1. /\ IsFiniteSet(P) /\ IsFiniteSet(N) /\ Cardinality(P) \in Nat /\ Cardinality(N) \in Nat
      /\ Cardinality(rows) = Cardinality(P) + Cardinality(N)
  BY TwoClasses
<1>2. /\ tp \in Nat /\ fp \in Nat /\ Cardinality(alerts) = tp + fp
  <2>1. IsFiniteSet(alerts)
    BY FS_Subset
  <2> HIDE DEF alerts
  <2> QED
    BY <2>1, TwoClasses
<1>3. 0 \in Grid /\ i \in Nat
  BY TrainingAssumption DEF Grid
<1>4. Scored(P, f) /\ Scored(N, f)
  BY DEF Scored, PositivesIn
<1>5. /\ \A j \in Grid : hist.pos[j] = Cardinality(InBin(P, f, j))
      /\ \A j \in Grid : hist.neg[j] = Cardinality(InBin(N, f, j))
  BY DEF Histogram, InBin
<1>6. \A k \in Grid : /\ CountFrom(hist.pos, k) = Cardinality(Reaching(P, f, 2 * k))
                      /\ CountFrom(hist.neg, k) = Cardinality(Reaching(N, f, 2 * k))
  <2> HIDE DEF P, N, hist
  <2> QED
    BY <1>1, <1>4, <1>5, CountFromBin
<1>7. Reaching(P, f, 2 * i) = PositivesIn(alerts)
  BY DEF PositivesIn, Reaching
<1>8. Reaching(N, f, 2 * i) = alerts \ PositivesIn(alerts)
  BY DEF PositivesIn, Reaching
<1>9. Reaching(P, f, 2 * 0) = P /\ Reaching(N, f, 2 * 0) = N
  BY <1>4 DEF Scored, Reaching
<1>10. /\ CountFrom(hist.pos, i) = tp /\ CountFrom(hist.neg, i) = fp
       /\ CountFrom(hist.pos, 0) = Cardinality(P) /\ CountFrom(hist.neg, 0) = Cardinality(N)
  BY <1>3, <1>6, <1>7, <1>8, <1>9
<1>11. tp <= Cardinality(P) /\ fp <= Cardinality(N)
  <2>1. PositivesIn(alerts) \in SUBSET P /\ alerts \ PositivesIn(alerts) \in SUBSET N
    BY DEF PositivesIn
  <2> HIDE DEF P, N, alerts
  <2> QED
    BY <1>1, <2>1, FS_Subset
<1> DEFINE p == Cardinality(P)
           n == Cardinality(N)
<1>12. MetricsFromHist(hist, i) = MetricsFromCounts(2 * i, tp, fp, p - tp, n - fp)
  BY <1>10 DEF MetricsFromHist
<1>13. MetricsFromScores(rows, f, 2 * i) =
         MetricsFromCounts(2 * i, tp, Cardinality(alerts) - tp, p - tp,
                           Cardinality(rows) - tp - (Cardinality(alerts) - tp) - (p - tp))
  BY DEF MetricsFromScores
<1> HIDE DEF tp, fp, p, n, alerts
<1>14. /\ tp \in Nat /\ fp \in Nat /\ p \in Nat /\ n \in Nat /\ tp <= p /\ fp <= n
       /\ Cardinality(alerts) = tp + fp /\ Cardinality(rows) = p + n
  BY <1>1, <1>2, <1>11 DEF p, n
<1>15. /\ Cardinality(alerts) - tp = fp
       /\ Cardinality(rows) - tp - (Cardinality(alerts) - tp) - (p - tp) = n - fp
  BY <1>14
<1>16. MetricsFromScores(rows, f, 2 * i) = MetricsFromCounts(2 * i, tp, fp, p - tp, n - fp)
  BY <1>13, <1>15
<1> QED
  BY <1>3, <1>12, <1>14, <1>16 DEF MetricsFromCounts, Metrics

-----------------------------------------------------------------------------
(* The best threshold, and the best formula. *)

BetterThan(m, n) == Worse(n, m) \/ (~Worse(m, n) /\ m.threshold < n.threshold)

\* Among metrics of different thresholds one is the best.
LEMMA BestIsBest ==
  ASSUME NEW metrics \in SUBSET Metrics, IsFiniteSet(metrics), metrics # {},
         \A m, n \in metrics : m.threshold = n.threshold => m = n
  PROVE  /\ Best(metrics) \in metrics
         /\ \A n \in metrics \ {Best(metrics)} : BetterThan(Best(metrics), n)
<1> DEFINE R == {p \in metrics \X metrics : BetterThan(p[2], p[1])}
<1>1. \A m, n \in metrics : <<m, n>> \in R <=> BetterThan(n, m)
  OBVIOUS
<1>2. \A m \in metrics : m.threshold \in Int
  BY DEF Metrics
<1>3. \A m \in metrics : <<m, m>> \notin R
  BY <1>1, <1>2, MetricsAreOrdered DEF BetterThan
<1>4. \A l, m, n \in metrics : BetterThan(m, l) /\ BetterThan(n, m) => BetterThan(n, l)
  BY <1>2, MetricsAreOrdered DEF BetterThan
<1> HIDE DEF R
<1>5. PICK m \in metrics : \A n \in metrics : <<m, n>> \notin R
  <2>1. \A l, m, n \in metrics : <<l, m>> \in R /\ <<m, n>> \in R => <<l, n>> \in R
    BY <1>1, <1>4
  <2> QED
    BY <1>3, <2>1, FiniteSetsHaveLast
<1>6. \A n \in metrics \ {m} : BetterThan(m, n)
  <2> SUFFICES ASSUME NEW n \in metrics \ {m}
               PROVE  BetterThan(m, n)
    OBVIOUS
  <2>1. ~BetterThan(n, m) /\ m.threshold # n.threshold
    BY <1>1, <1>5
  <2> QED
    BY <1>2, <2>1 DEF BetterThan
<1>7. \E b \in metrics : \A n \in metrics \ {b} :
        Worse(n, b) \/ (~Worse(b, n) /\ b.threshold < n.threshold)
  BY <1>6 DEF BetterThan
<1> QED
  BY <1>7 DEF Best, BetterThan

Direct(rows, f) == {MetricsFromScores(rows, f, 2 * i) : i \in Grid}

LEMMA BestOfGrid ==
  ASSUME NEW rows, IsFiniteSet(rows), NEW f, Scored(rows, f)
  PROVE  LET best == Best(Direct(rows, f)) IN
         /\ Direct(rows, f) \subseteq Metrics
         /\ {MetricsFromHist(Histogram(rows, f), i) : i \in Grid} = Direct(rows, f)
         /\ best \in Direct(rows, f)
         /\ \E i \in Grid : best.threshold = 2 * i
         /\ \A m \in Direct(rows, f) : ~Worse(best, m)
         /\ \A m \in Direct(rows, f) : m.threshold < best.threshold => Worse(m, best)
<1> DEFINE D == Direct(rows, f)
<1>1. \A i \in Grid : /\ MetricsFromHist(Histogram(rows, f), i) = MetricsFromScores(rows, f, 2 * i)
                      /\ MetricsFromScores(rows, f, 2 * i) \in Metrics
                      /\ MetricsFromScores(rows, f, 2 * i).threshold = 2 * i
  BY HistogramIsExact
<1>2. {MetricsFromHist(Histogram(rows, f), i) : i \in Grid} = D
  BY <1>1 DEF Direct
<1>3. D \in SUBSET Metrics /\ \A m \in D : \E i \in Grid : m.threshold = 2 * i
  BY <1>1 DEF Direct
<1>4. \A m, n \in D : m.threshold = n.threshold => m = n
  <2> SUFFICES ASSUME NEW m \in D, NEW n \in D, m.threshold = n.threshold
               PROVE  m = n
    OBVIOUS
  <2>1. PICK i \in Grid : m = MetricsFromScores(rows, f, 2 * i)
    BY DEF Direct
  <2>2. PICK j \in Grid : n = MetricsFromScores(rows, f, 2 * j)
    BY DEF Direct
  <2>3. 2 * i = 2 * j
    BY <1>1, <2>1, <2>2
  <2> QED
    BY <2>1, <2>2, <2>3
<1>5. IsFiniteSet(D) /\ D # {}
  <2> DEFINE at == [i \in Grid |-> MetricsFromScores(rows, f, 2 * i)]
  <2>1. at \in Surjection(Grid, D)
    BY DEF Surjection, Direct
  <2>2. IsFiniteSet(Grid) /\ 0 \in Grid
    BY TrainingAssumption, FS_Interval DEF Grid
  <2> HIDE DEF at
  <2>3. IsFiniteSet(D)
    BY <2>1, <2>2, FS_Surjection
  <2> QED
    BY <2>2, <2>3 DEF Direct
<1> HIDE DEF D
<1>6. Best(D) \in D /\ \A n \in D \ {Best(D)} : BetterThan(Best(D), n)
  BY <1>3, <1>4, <1>5, BestIsBest
<1>7. ASSUME NEW m \in D
      PROVE  ~Worse(Best(D), m) /\ (m.threshold < Best(D).threshold => Worse(m, Best(D)))
  <2>1. Best(D) \in Metrics /\ m \in Metrics
    BY <1>3, <1>6
  <2>2. m.threshold \in Int /\ Best(D).threshold \in Int
    BY <2>1 DEF Metrics
  <2> QED
    BY <1>6, <2>1, <2>2, MetricsAreOrdered DEF BetterThan
<1> QED
  BY <1>2, <1>3, <1>6, <1>7 DEF D

\* A threshold of the grid is found again.
LEMMA ThresholdIsFound ==
  ASSUME NEW i \in Grid
  PROVE  ThresholdIndex(2 * i) = i
<1> DEFINE First(k) == /\ 2 * k >= 2 * i \/ k = GridSize - 1
                       /\ \A j \in 0..(k - 1) : 2 * j < 2 * i
<1>1. GridSize \in Nat /\ \A k \in Grid : k \in Nat /\ k <= GridSize - 1
  BY TrainingAssumption DEF Grid
<1>2. First(i)
  BY <1>1
<1>3. ASSUME NEW k \in Grid, First(k)
      PROVE  k = i
  <2>1. k <= i
    <3>1. i \in 0..(k - 1) => 2 * i < 2 * i
      BY <1>3
    <3> QED
      BY <1>1, <3>1
  <2> QED
    BY <1>1, <1>3, <2>1
<1> HIDE DEF First
<1>4. (CHOOSE k \in Grid : First(k)) = i
  BY <1>2, <1>3
<1> QED
  BY <1>4 DEF ThresholdIndex, First

LEMMA RowsAreFinite ==
  ASSUME NEW split
  PROVE  /\ IsFiniteSet(RowsIn(split))
         /\ \A f \in [Events -> 0..(2 * (GridSize - 1))] : Scored(RowsIn(split), f)
<1>1. RowsIn(split) \in SUBSET (FilesIn(Read) \X Events)
  BY DEF RowsIn, AllRows
<1>2. IsFiniteSet(FilesIn(Read) \X Events)
  BY FilesAreFinite, ExportAssumption, FS_Product
<1>3. IsFiniteSet(RowsIn(split))
  BY <1>1, <1>2, FS_Subset
<1> QED
  BY <1>1, <1>3 DEF Scored

\* What a formula can reach on val is what the best of its thresholds reaches,
\* and of the formulas one is not worse than any other.
LEMMA FamiliesHaveBest ==
  ASSUME NEW val, IsFiniteSet(val), val = RowsIn("val")
  PROVE  /\ \A name \in DOMAIN Families :
              /\ FamilyAt(name) \in Direct(val, Families[name])
              /\ Direct(val, Families[name]) \subseteq Metrics
              /\ \A m \in Direct(val, Families[name]) : ~Worse(FamilyAt(name), m)
         /\ DOMAIN Families # {} =>
              /\ BestFamily \in DOMAIN Families
              /\ \A name \in DOMAIN Families : ~Worse(FamilyAt(BestFamily), FamilyAt(name))
<1> DEFINE names == DOMAIN Families
<1>1. ASSUME NEW name \in names
      PROVE  /\ FamilyAt(name) \in Direct(val, Families[name])
             /\ Direct(val, Families[name]) \subseteq Metrics
             /\ \A m \in Direct(val, Families[name]) : ~Worse(FamilyAt(name), m)
  <2>1. Scored(val, Families[name])
    BY TrainingAssumption, RowsAreFinite
  <2>2. FamilyAt(name) = Best(Direct(val, Families[name]))
    <3>1. {MetricsFromHist(Histogram(val, Families[name]), i) : i \in Grid}
            = Direct(val, Families[name])
      BY <2>1, BestOfGrid
    <3> QED
      BY <3>1 DEF FamilyAt, BestThresholdFromHist
  <2> QED
    BY <2>1, <2>2, BestOfGrid
<1>2. ASSUME names # {}
      PROVE  /\ BestFamily \in names
             /\ \A name \in names : ~Worse(FamilyAt(BestFamily), FamilyAt(name))
  <2> DEFINE R == {p \in names \X names : Worse(FamilyAt(p[1]), FamilyAt(p[2]))}
  <2>1. \A m, n \in names : <<m, n>> \in R <=> Worse(FamilyAt(m), FamilyAt(n))
    OBVIOUS
  <2>2. \A m \in names : FamilyAt(m) \in Metrics
    BY <1>1
  <2>3. \A m \in names : <<m, m>> \notin R
    BY <2>1, <2>2, MetricsAreOrdered
  <2>4. \A l, m, n \in names : <<l, m>> \in R /\ <<m, n>> \in R => <<l, n>> \in R
    BY <2>1, <2>2, MetricsAreOrdered
  <2> HIDE DEF R
  <2>5. \E m \in names : \A n \in names : <<m, n>> \notin R
    BY <1>2, <2>3, <2>4, FiniteSetsHaveLast, TrainingAssumption
  <2>6. \E m \in names : \A n \in names \ {m} : ~Worse(FamilyAt(m), FamilyAt(n))
    BY <2>1, <2>5
  <2>7. BestFamily \in names
        /\ \A n \in names \ {BestFamily} : ~Worse(FamilyAt(BestFamily), FamilyAt(n))
    BY <2>6 DEF BestFamily
  <2> QED
    BY <2>2, <2>7, MetricsAreOrdered
<1> QED
  BY <1>1, <1>2

\* What is found is of the rows, scores and formulas that are still at hand.
ScoresInv == training.pc \in {"choosing", "writing"} => scores \in Scorings

ChosenInv ==
  training.pc = "writing" =>
    /\ result.threshold = result.validation.threshold
    /\ training.script \in {"ablation", "notebook"} =>
         /\ result.validation = BestThresholdFromHist(Histogram(RowsIn("val"), scores))
         /\ result.test =
              MetricsAtThresholdFromHist(Histogram(RowsIn("test"), scores), result.threshold)
    /\ training.script = "model" =>
         /\ result.validation = ChooseThreshold(RowsIn("val"), scores)
         /\ result.test = MetricsFromScores(RowsIn("test"), scores, result.threshold)
    /\ training.script = "search" =>
         result.validation = MetricsAtBestTau(RowsIn("val"), scores)
    /\ result.family \in {"none", BestFamily}

LEMMA BestFamilyKept ==
  ASSUME \A split : RowsIn(split)' = RowsIn(split)
  PROVE  BestFamily' = BestFamily
<1>1. \A name : FamilyAt(name)' = FamilyAt(name)
  BY DEF FamilyAt
<1> QED
  BY <1>1 DEF BestFamily

LEMMA ChosenStep ==
  ASSUME Inv, ScoresInv, ChosenInv, [Next]_vars
  PROVE  ScoresInv' /\ ChosenInv'
<1>1. ASSUME UNCHANGED vars
      PROVE  ScoresInv' /\ ChosenInv'
  <2>1. UNCHANGED <<drive, local, training, scores, result>>
    BY <1>1 DEF vars, exportVars, trainingVars
  <2>2. \A split : RowsIn(split)' = RowsIn(split)
    BY <2>1, RowsKept
  <2>3. BestFamily' = BestFamily
    BY <2>2, BestFamilyKept
  <2>4. ScoresInv'
    BY <2>1 DEF ScoresInv
  <2>5. ChosenInv'
    BY <2>1, <2>2, <2>3 DEF ChosenInv
  <2> QED
    BY <2>4, <2>5
<1>2. ASSUME \/ training.pc = "idle" /\ ExportNext /\ UNCHANGED trainingVars
             \/ StartScript \/ StartNotebook \/ SkipCopy \/ OpenCopy \/ WriteCopy \/ CopyEnds
             \/ ProgramFails \/ ProgramEnds \/ Interrupt
      PROVE  ScoresInv' /\ ChosenInv'
  <2>1. training'.pc \in {"idle", "copying", "reading"}
    <3>1. CASE training.pc = "idle" /\ UNCHANGED trainingVars
      BY <3>1 DEF trainingVars
    <3>2. CASE StartScript \/ StartNotebook \/ CopyEnds
      BY <3>2 DEF StartScript, StartNotebook, Begin, CopyEnds
    <3>3. CASE SkipCopy \/ OpenCopy \/ WriteCopy
      <4>1. training \in Copiers
        BY <3>3 DEF SkipCopy, OpenCopy, WriteCopy, Copying, Inv, TrainingTypes, NoTraining, Readers
      <4> QED
        BY <3>3, <4>1 DEF SkipCopy, OpenCopy, WriteCopy, Copiers
    <3>4. CASE ProgramFails \/ ProgramEnds \/ Interrupt
      BY <3>4 DEF ProgramFails, ProgramEnds, Interrupt, Gone, NoTraining
    <3> QED
      BY <1>2, <3>1, <3>2, <3>3, <3>4
  <2> QED
    BY <2>1 DEF ScoresInv, ChosenInv
<1>3. ASSUME FitAblation \/ FitModel \/ FitNotebook \/ LoadSplits
      PROVE  ScoresInv' /\ ChosenInv'
  <2>1. training.pc = "reading" /\ training' = [training EXCEPT !.pc = "choosing"]
        /\ scores' \in Scorings
    BY <1>3 DEF FitAblation, FitModel, FitNotebook, LoadSplits, Fit
  <2>2. training \in Readers
    BY <2>1 DEF Inv, TrainingTypes, NoTraining, Copiers
  <2> QED
    BY <2>1, <2>2 DEF ScoresInv, ChosenInv, Readers
<1>4. ASSUME ChooseAblation \/ ChooseModel \/ ChooseNotebook \/ ChooseFormula
      PROVE  ScoresInv' /\ ChosenInv'
  <2>1. /\ training.pc = "choosing" /\ training' = [training EXCEPT !.pc = "writing"]
        /\ UNCHANGED <<exportVars, local, scores>>
    BY <1>4 DEF ChooseAblation, ChooseModel, ChooseNotebook, ChooseFormula, Choosing, Found
  <2>2. training \in Readers
    BY <2>1 DEF Inv, TrainingTypes, NoTraining, Copiers
  <2>3. /\ training'.pc = "writing" /\ training'.script = training.script
        /\ training'.column = training.column /\ UNCHANGED drive
    BY <2>1, <2>2 DEF Readers, exportVars
  <2>4. \A split : RowsIn(split)' = RowsIn(split)
    BY <2>1, <2>3, RowsKept
  <2>5. BestFamily' = BestFamily
    BY <2>4, BestFamilyKept
  <2>6. ScoresInv'
    BY <2>1, <2>3 DEF ScoresInv
  <2>7. CASE ChooseAblation \/ ChooseNotebook
    <3> DEFINE validation == BestThresholdFromHist(Histogram(RowsIn("val"), scores))
    <3>1. /\ training.script \in {"ablation", "notebook"}
          /\ result'.validation = validation /\ result'.threshold = validation.threshold
          /\ result'.test = MetricsAtThresholdFromHist(Histogram(RowsIn("test"), scores),
                                                       validation.threshold)
          /\ result'.family \in {"none", BestFamily}
      BY <2>7 DEF ChooseAblation, ChooseNotebook, Choosing, Found
    <3> HIDE DEF validation
    <3>2. ChosenInv'
      BY <2>1, <2>3, <2>4, <2>5, <3>1 DEF ChosenInv, validation
    <3> QED
      BY <2>6, <3>2
  <2>8. CASE ChooseModel
    <3> DEFINE validation == ChooseThreshold(RowsIn("val"), scores)
    <3>1. /\ training.script = "model"
          /\ result'.validation = validation /\ result'.threshold = validation.threshold
          /\ result'.test = MetricsFromScores(RowsIn("test"), scores, validation.threshold)
          /\ result'.family \in {"none", BestFamily}
      BY <2>8 DEF ChooseModel, Choosing, Found
    <3> HIDE DEF validation
    <3>2. ChosenInv'
      BY <2>1, <2>3, <2>4, <2>5, <3>1 DEF ChosenInv, validation
    <3> QED
      BY <2>6, <3>2
  <2>9. CASE ChooseFormula
    <3>1. /\ training.script = "search"
          /\ result'.validation = MetricsAtBestTau(RowsIn("val"), scores)
          /\ result'.threshold = result'.validation.threshold /\ result'.family = "none"
      BY <2>9 DEF ChooseFormula, Choosing, Found
    <3>2. ChosenInv'
      BY <2>1, <2>3, <2>4, <3>1 DEF ChosenInv
    <3> QED
      BY <2>6, <3>2
  <2> QED
    BY <1>4, <2>7, <2>8, <2>9
<1> QED
  BY <1>1, <1>2, <1>3, <1>4 DEF Next

\* The threshold found through the histogram is the best of the grid, and the
\* least of the best, when every row is compared with every threshold; the
\* test metrics are those at that threshold, and no formula does better on val
\* than the one reported (best_threshold_from_hist, choose_threshold,
\* metrics_at_threshold_from_hist).
THEOREM BestThresholdIsChosen == Spec => []ThresholdIsBest
<1>1. Init => ScoresInv /\ ChosenInv
  BY DEF Init, ScoresInv, ChosenInv, NoTraining
<1>2. Inv /\ ScoresInv /\ ChosenInv /\ [Next]_vars => ScoresInv' /\ ChosenInv'
  BY ChosenStep
<1>3. ASSUME Inv, ScoresInv, ChosenInv
      PROVE  ThresholdIsBest
  <2> DEFINE val == RowsIn("val")
             test == RowsIn("test")
             D == Direct(val, scores)
  <2> SUFFICES ASSUME Reporting, val # {}
               PROVE  /\ result.validation \in D
                      /\ \A m \in D : ~Worse(result.validation, m)
                      /\ \A m \in D : m.threshold < result.threshold => Worse(m, result.validation)
                      /\ training.script # "search" =>
                           result.test = MetricsFromScores(test, scores, result.threshold)
                      /\ result.family # "none" =>
                           \E best \in Direct(val, Families[result.family]) :
                             \A name \in DOMAIN Families : \A m \in Direct(val, Families[name]) :
                               ~Worse(best, m)
    BY DEF ThresholdIsBest, Direct
  <2>1. training \in Readers /\ training.pc = "writing"
    BY <1>3, ReporterReads DEF Reporting
  <2>2. /\ IsFiniteSet(val) /\ IsFiniteSet(test)
        /\ Scored(val, scores) /\ Scored(test, scores)
    BY <1>3, <2>1, RowsAreFinite, TrainingAssumption DEF ScoresInv
  <2>3. {MetricsFromHist(Histogram(val, scores), i) : i \in Grid} = D
    BY <2>2, BestOfGrid
  <2>4. result.validation = Best(D) /\ result.threshold = Best(D).threshold
    <3>1. BestThresholdFromHist(Histogram(val, scores)) = Best(D)
      BY <2>3 DEF BestThresholdFromHist
    <3>2. MetricsAtBestTau(val, scores) = Best(D)
      BY <2>3 DEF MetricsAtBestTau
    <3>3. ChooseThreshold(val, scores) = Best(D)
      BY DEF ChooseThreshold, Direct
    <3> QED
      BY <1>3, <2>1, <3>1, <3>2, <3>3 DEF ChosenInv, Readers, Scripts
  <2>5. PICK i \in Grid : Best(D).threshold = 2 * i
    BY <2>2, BestOfGrid
  <2>6. training.script # "search" =>
          result.test = MetricsFromScores(test, scores, result.threshold)
    <3>1. MetricsAtThresholdFromHist(Histogram(test, scores), 2 * i) =
            MetricsFromScores(test, scores, 2 * i)
      BY <2>2, HistogramIsExact, ThresholdIsFound DEF MetricsAtThresholdFromHist
    <3> QED
      BY <1>3, <2>1, <2>4, <2>5, <3>1 DEF ChosenInv, Readers, Scripts
  <2>7. result.family # "none" =>
          \E best \in Direct(val, Families[result.family]) :
            \A name \in DOMAIN Families : \A m \in Direct(val, Families[name]) : ~Worse(best, m)
    <3> SUFFICES ASSUME result.family # "none"
                 PROVE  \E best \in Direct(val, Families[BestFamily]) :
                          \A name \in DOMAIN Families :
                            \A m \in Direct(val, Families[name]) : ~Worse(best, m)
      BY <1>3, <2>1 DEF ChosenInv
    <3>1. CASE DOMAIN Families = {}
      <4>1. MetricsFromScores(val, Families[BestFamily], 2 * i)
              \in Direct(val, Families[BestFamily])
        BY DEF Direct
      <4> QED
        BY <3>1, <4>1
    <3>2. CASE DOMAIN Families # {}
      <4>1. /\ BestFamily \in DOMAIN Families
            /\ \A name \in DOMAIN Families : ~Worse(FamilyAt(BestFamily), FamilyAt(name))
        BY <2>2, <3>2, FamiliesHaveBest
      <4>2. \A name \in DOMAIN Families :
              /\ FamilyAt(name) \in Direct(val, Families[name])
              /\ Direct(val, Families[name]) \subseteq Metrics
              /\ \A m \in Direct(val, Families[name]) : ~Worse(FamilyAt(name), m)
        BY <2>2, FamiliesHaveBest
      <4>3. \A name \in DOMAIN Families : \A m \in Direct(val, Families[name]) :
              ~Worse(FamilyAt(BestFamily), m)
        <5> SUFFICES ASSUME NEW name \in DOMAIN Families, NEW m \in Direct(val, Families[name])
                     PROVE  ~Worse(FamilyAt(BestFamily), m)
          OBVIOUS
        <5>1. FamilyAt(BestFamily) \in Metrics /\ FamilyAt(name) \in Metrics /\ m \in Metrics
          BY <4>1, <4>2
        <5> QED
          BY <4>1, <4>2, <5>1, MetricsAreOrdered
      <4> QED
        BY <4>1, <4>2, <4>3
    <3> QED
      BY <3>1, <3>2
  <2> QED
    BY <2>2, <2>4, <2>6, <2>7, BestOfGrid
<1> QED
  BY <1>1, <1>2, <1>3, InvHolds, PTL DEF Spec
=============================================================================
