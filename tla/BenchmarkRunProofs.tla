------------------------- MODULE BenchmarkRunProofs -------------------------
(***************************************************************************)
(* For every dataset, archive, window, limit and delay, and whatever runs  *)
(* came before and were interrupted where: the ordinary run (BenchmarkRun) *)
(* keeps the metadata of tokens (TokenInv), gathers its counterparties     *)
(* from intended and clean transfers alone (HistoryInv, TrustedInv),       *)
(* lets no alert rest on a later block (EventsArePending, TrustedWasSeen), *)
(* and measures days that add up (SummaryInv).                             *)
(*                                                                         *)
(* An induction is over a set: LeastNatural and NaturalsByInduction follow *)
(* from the well-foundedness of < as a relation, and the sum over the days *)
(* of MapThenSumSet is unfolded to the function it chooses.                *)
(***************************************************************************)
EXTENDS BenchmarkRun, FiniteSetTheorems, WellFoundedInduction, TLAPS
-----------------------------------------------------------------------------
(* Numbers and finite sets. *)

\* A set of natural numbers that is not empty has a least one.
LEMMA LeastNatural ==
  ASSUME NEW S \in SUBSET Nat, S # {}
  PROVE  \E m \in S : \A n \in S : m <= n
<1> DEFINE less == OpToRel(<, Nat)
<1>1. \A m, n \in Nat : <<m, n>> \in less <=> m < n
  BY DEF OpToRel
<1>2. IsWellFoundedOn(less, Nat)
  BY NatLessThanWellFounded
<1> HIDE DEF less
<1>3. \E m \in S : \A n \in S : ~(<<n, m>> \in less)
  BY <1>2, WFMin
<1>4. \E m \in S : \A n \in S : ~(n < m)
  BY <1>1, <1>3, Zenon
<1> QED
  BY <1>4

\* Induction over the naturals, of a set of them.
LEMMA NaturalsByInduction ==
  ASSUME NEW T \in SUBSET Nat, 0 \in T, \A n \in T : n + 1 \in T
  PROVE  T = Nat
<1> SUFFICES ASSUME T # Nat
             PROVE  FALSE
  OBVIOUS
<1>1. PICK m \in Nat \ T : \A n \in Nat \ T : m <= n
  BY LeastNatural
<1>2. m # 0 /\ m - 1 \in Nat
  BY <1>1
<1>3. m - 1 \in T
  BY <1>1, <1>2
<1> QED
  BY <1>1, <1>2, <1>3

\* Min of FiniteSetsExt is the least element.
LEMMA MinOfNaturals ==
  ASSUME NEW S \in SUBSET Nat, S # {}
  PROVE  Min(S) \in S /\ \A n \in S : Min(S) <= n
<1>1. \E m \in S : \A n \in S : m <= n
  BY LeastNatural
<1> QED
  BY <1>1 DEF Min

\* Numbered by how many are smaller, the elements of a finite set of numbers
\* take every place.
LEMMA EveryPlaceIsTaken ==
  ASSUME NEW S \in SUBSET Nat, IsFiniteSet(S), NEW n \in Nat, n < Cardinality(S)
  PROVE  \E i \in S : Cardinality({j \in S : j < i}) = n
<1> DEFINE Below(i) == {j \in S : j < i}
           Taken(m) == \E i \in S : Cardinality(Below(i)) = m
           T == {m \in Nat : m < Cardinality(S) => Taken(m)}
<1>1. Cardinality(S) \in Nat
  BY FS_CardinalityType
<1>2. \A i \in S : IsFiniteSet(Below(i)) /\ Cardinality(Below(i)) \in Nat
  BY FS_Subset, FS_CardinalityType
<1>3. 0 \in T
  <2> SUFFICES ASSUME 0 < Cardinality(S)
               PROVE  Taken(0)
    OBVIOUS
  <2>1. S # {}
    BY FS_EmptySet
  <2>2. PICK i \in S : \A j \in S : i <= j
    BY <2>1, LeastNatural
  <2>3. \A j \in S : i \in Nat /\ j \in Nat /\ ~(j < i)
    BY <2>2
  <2>4. Below(i) = {}
    BY <2>3
  <2> QED
    BY <2>4, FS_EmptySet
<1>4. ASSUME NEW m \in T
      PROVE  m + 1 \in T
  <2> SUFFICES ASSUME m + 1 < Cardinality(S)
               PROVE  Taken(m + 1)
    OBVIOUS
  <2>1. PICK i \in S : Cardinality(Below(i)) = m
    BY <1>1
  <2> DEFINE Upto == Below(i) \cup {i}
             Above == S \ Upto
  <2>2. IsFiniteSet(Upto) /\ Cardinality(Upto) = m + 1
    <3>1. i \notin Below(i)
      OBVIOUS
    <3> HIDE DEF Below
    <3> QED
      BY <1>2, <2>1, <3>1, FS_AddElement
  <2>3. Above # {}
    <3>1. Upto \subseteq S
      OBVIOUS
    <3>2. Upto # S
      BY <2>2
    <3> QED
      BY <3>1, <3>2
  <2>4. PICK u \in Above : \A j \in Above : u <= j
    BY <2>3, LeastNatural
  <2>5. u \in S /\ u \in Nat /\ i \in Nat /\ i < u
    BY <2>4
  <2>6. \A j \in S : j \in Nat /\ (j < u <=> j < i \/ j = i)
    BY <2>4, <2>5
  <2>7. Below(u) = Upto
    BY <2>6
  <2> QED
    BY <2>2, <2>5, <2>7
<1>5. T = Nat
  <2> HIDE DEF T
  <2> QED
    BY <1>3, <1>4, NaturalsByInduction DEF T
<1> QED
  BY <1>5
-----------------------------------------------------------------------------
(* Keys of counterparties. *)

\* The token and the block of a counterparty are numbers.
IsKey(k) == k[3] \in Nat /\ k[4] \in Nat

FileStates == {"absent", "torn", "whole"}

Types ==
  /\ rows \subseteq DOMAIN Labels
  /\ \A k \in DOMAIN history : IsKey(k)
  /\ \A k \in DOMAIN trusted : IsKey(k)
  /\ \A k \in DOMAIN historyFile.data : IsKey(k)
  /\ \A k \in DOMAIN trustedFile.data : IsKey(k)

LEMMA EmptyBagHasNoKey == DOMAIN EmptyBag = {}
BY DEF EmptyBag, SetToBag

LEMMA FilesData ==
  /\ DOMAIN OpenFile.data = {} /\ DOMAIN NoFile.data = {}
  /\ \A data : File(data).data = data
BY DEF OpenFile, NoFile, File

LEMMA SumOfBags ==
  ASSUME NEW A, NEW B
  PROVE  DOMAIN (A (+) B) = DOMAIN A \cup DOMAIN B
BY DEF (+)

\* The keys that rows and logs are counted under.
LEMMA LabelKeys ==
  ASSUME NEW set, set \subseteq DOMAIN Labels, NEW k \in DOMAIN LabelCounterparties(set)
  PROVE  /\ \E i \in set : Valid(i) /\ LabelKey(i) = k
         /\ IsKey(k)
<1>1. PICK i \in set : Valid(i) /\ LabelKey(i) = k
  BY DEF LabelCounterparties, Counted
<1>2. IsKey(LabelKey(i))
  BY <1>1, RunAssumption DEF LabelKey, IsKey
<1> QED
  BY <1>1, <1>2

LEMMA FetchedKeys ==
  ASSUME NEW requests, NEW k \in DOMAIN Fetched(requests)
  PROVE  /\ \E request \in requests : \E l \in Answer(request) : LogKey(request[1], l) = k
         /\ IsKey(k)
<1>1. PICK x \in UNION {{r} \X Answer(r) : r \in requests} : LogKey(x[1][1], x[2]) = k
  BY DEF Fetched, Counted
<1>2. x[1] \in requests /\ x[2] \in Answer(x[1])
  BY <1>1
<1>3. x[2] \in DOMAIN Logs
  BY <1>2 DEF Answer
<1>4. IsKey(LogKey(x[1][1], x[2]))
  BY <1>3, RunAssumption DEF LogKey, IsKey
<1> QED
  BY <1>1, <1>2, <1>4

LEMMA Selections ==
  /\ \A pool \in Pools : Selected(pool) \subseteq DOMAIN Labels
  /\ \A n : First(DOMAIN Labels, n) \subseteq DOMAIN Labels
BY DEF Pools, Selected, First

LEMMA InitTypes == Init => Types
BY EmptyBagHasNoKey DEF Init, Types, NoFile

LEMMA EndTypes ==
  ASSUME Types, RunEnds
  PROVE  Types'
BY EmptyBagHasNoKey DEF RunEnds, Types, files

\* What is built has the keys of rows and of the history.
LEMMA BuiltKeys ==
  ASSUME Types, Build, NEW k \in DOMAIN trusted'
  PROVE  \/ k \in DOMAIN history
         \/ \E set \in SUBSET DOMAIN Labels : k \in DOMAIN LabelCounterparties(set)
<1>1. CASE Streams
  <2> DEFINE own == {i \in DOMAIN Labels : Labels[i].victim \in Victims(rows)}
             read == [h \in {h \in DOMAIN history : h[1] \in Victims(rows)} |-> history[h]]
  <2>1. trusted' = LabelCounterparties(own) (+) read
    BY <1>1 DEF Build
  <2>2. own \in SUBSET DOMAIN Labels /\ DOMAIN read \subseteq DOMAIN history
    OBVIOUS
  <2> HIDE DEF own, read
  <2>3. DOMAIN trusted' = DOMAIN LabelCounterparties(own) \cup DOMAIN read
    BY <2>1, SumOfBags
  <2> QED
    BY <2>2, <2>3
<1>2. CASE ~Streams
  <2>1. trusted' = LabelCounterparties(rows) (+) history
    BY <1>2 DEF Build
  <2>2. DOMAIN trusted' = DOMAIN LabelCounterparties(rows) \cup DOMAIN history
    BY <2>1, SumOfBags
  <2> QED
    BY <2>2 DEF Types
<1> QED
  BY <1>1, <1>2

LEMMA BuildTypes ==
  ASSUME Types, Build
  PROVE  Types'
<1>1. UNCHANGED <<rows, history, historyFile, trustedFile>>
  BY DEF Build, files
<1>2. \A k \in DOMAIN trusted' : IsKey(k)
  BY BuiltKeys, LabelKeys DEF Types
<1> QED
  BY <1>1, <1>2 DEF Types

LEMMA StepTypes ==
  ASSUME Types, [Next]_vars
  PROVE  Types'
<1> USE DEF files, gathering, measuring
<1>1. ASSUME NEW c \in Calls, Start(c)
      PROVE  Types'
  BY <1>1 DEF Start, Types
<1>2. ASSUME NEW pool \in Pools, SelectRows(pool)
      PROVE  Types'
  BY <1>2, Selections DEF SelectRows, Types
<1>3. CASE LoadRows
  BY <1>3, Selections DEF LoadRows, Types
<1>4. CASE TakeTrusted
  BY <1>4 DEF TakeTrusted, Types
<1>5. CASE TakeHistory \/ NoHistory
  BY <1>5 DEF TakeHistory, NoHistory, Types
<1>6. ASSUME NEW top, NEW failed, FetchHistory(top, failed)
      PROVE  Types'
  <2>1. /\ history' = Fetched(Requests(top) \ failed) /\ historyFile' = OpenFile
        /\ UNCHANGED <<rows, trusted, trustedFile>>
    BY <1>6 DEF FetchHistory
  <2>2. \A k \in DOMAIN history' : IsKey(k)
    BY <2>1, FetchedKeys
  <2> QED
    BY <2>1, <2>2, FilesData DEF Types
<1>7. CASE WriteHistory \/ WriteTrusted
  BY <1>7, FilesData DEF WriteHistory, WriteTrusted, Types
<1>8. CASE LoadTokens \/ OpenTokens \/ WriteTokens \/ UseTrusted
  BY <1>8 DEF LoadTokens, OpenTokens, WriteTokens, UseTrusted, Types
<1>9. ASSUME NEW answered, AskToken(answered)
      PROVE  Types'
  BY <1>9 DEF AskToken, Types
<1>10. CASE OpenTrusted
  BY <1>10, FilesData DEF OpenTrusted, Types
<1>11. ASSUME NEW sample, NEW lost, BuildReplay(sample, lost)
       PROVE  Types'
  BY <1>11 DEF BuildReplay, Types
<1>12. ASSUME \/ TakeSummary \/ OpenSummary
              \/ \E alerts \in SUBSET Hashes(replay) : WriteSummary(alerts)
       PROVE  Types'
  BY <1>12 DEF TakeSummary, OpenSummary, WriteSummary, Types
<1>13. CASE Measure
  BY <1>13 DEF Measure, Types
<1>14. CASE LoadTokensFails \/ BadSummary \/ DetectFails \/ Stop
  BY <1>14, EndTypes DEF LoadTokensFails, BadSummary, DetectFails, Stop
<1>15. CASE UNCHANGED vars
  BY <1>15 DEF vars, Types
<1> QED
  BY <1>1, <1>2, <1>3, <1>4, <1>5, <1>6, <1>7, <1>8, <1>9, <1>10, <1>11, <1>12, <1>13,
     <1>14, <1>15, BuildTypes DEF Next

\* Every counterparty a run or a file has names a token and a block of the
\* dataset's or the archive's (383-428, 621-678).
THEOREM KeysAreNumbers == Spec => []Types
BY InitTypes, StepTypes, PTL DEF Spec
-----------------------------------------------------------------------------
(* The metadata of tokens. *)

\* While tokens are asked for, the process has the metadata of the file it
\* took over, and there was nothing to take over before the first write.
TokenInv ==
  /\ tokenFile.state \in FileStates
  /\ tokenFile.state = "absent" => known = {}
  /\ MetadataKept
  /\ pc \in {"tokens", "tokens open", "tokens last"} => known \subseteq HasMetadata(cache)

LEMMA InitTokenInv == Init => TokenInv
BY DEF Init, TokenInv, NoFile, FileStates, MetadataKept, PastMetadata

\* The token asked for is one that the process knows nothing of.
LEMMA AskedIsNew ==
  ASSUME Types, Wanted \ DOMAIN cache # {}
  PROVE  Min(Wanted \ DOMAIN cache) \in Wanted \ DOMAIN cache
<1>1. TokensOf(rows) \subseteq Nat
  BY RunAssumption DEF TokensOf, Types
<1>2. {k[3] : k \in DOMAIN trusted} \subseteq Nat
  BY DEF Types, IsKey
<1>3. Wanted \ DOMAIN cache \in SUBSET Nat
  BY <1>1, <1>2 DEF Wanted
<1> QED
  BY <1>3, MinOfNaturals

LEMMA AskKeepsMetadata ==
  ASSUME Types, TokenInv, NEW answered \in BOOLEAN, AskToken(answered)
  PROVE  TokenInv'
<1> DEFINE t == Min(Wanted \ DOMAIN cache)
<1>1. /\ pc = "tokens" /\ UNCHANGED known
      /\ cache' = [u \in DOMAIN cache \cup {t} |-> IF u = t THEN answered ELSE cache[u]]
  BY DEF AskToken
<1>2. t \notin DOMAIN cache
  BY AskedIsNew DEF AskToken
<1> HIDE DEF t
<1>3. HasMetadata(cache) \subseteq HasMetadata(cache')
  BY <1>1, <1>2 DEF HasMetadata
<1>4. \/ tokenFile' = OpenFile
      \/ UNCHANGED <<tokenFile, pc>>
  BY DEF AskToken
<1>5. ~PastMetadata'
  BY DEF AskToken, PastMetadata
<1>6. known' \subseteq HasMetadata(cache')
  BY <1>1, <1>3 DEF TokenInv
<1>7. CASE tokenFile' = OpenFile
  <2>1. tokenFile'.state = "torn"
    BY <1>7 DEF OpenFile
  <2> QED
    BY <2>1, <1>6, <1>5 DEF TokenInv, MetadataKept, FileStates
<1>8. CASE UNCHANGED <<tokenFile, pc>>
  <2>1. MetadataKept'
    BY <1>1, <1>8, <1>5 DEF TokenInv, MetadataKept
  <2> QED
    BY <1>1, <1>6, <1>8, <2>1 DEF TokenInv
<1> QED
  BY <1>4, <1>7, <1>8

LEMMA StepTokenInv ==
  ASSUME Types, TokenInv, [Next]_vars
  PROVE  TokenInv'
<1> USE DEF files, gathering, measuring, TokenInv, MetadataKept, PastMetadata, Streams
<1>1. CASE LoadTokens
  BY <1>1 DEF LoadTokens, FileStates
<1>2. CASE OpenTokens
  BY <1>2 DEF OpenTokens, OpenFile, FileStates
<1>3. CASE WriteTokens
  <2>1. /\ known' = known \cup HasMetadata(cache) /\ known \subseteq HasMetadata(cache)
        /\ tokenFile' = File(cache) /\ UNCHANGED cache
    BY <1>3 DEF WriteTokens
  <2>2. /\ tokenFile'.state = "whole" /\ tokenFile'.data = cache
    BY <2>1 DEF File
  <2> QED
    BY <2>1, <2>2 DEF FileStates
<1>4. ASSUME NEW answered \in BOOLEAN, AskToken(answered)
      PROVE  TokenInv'
  BY <1>4, AskKeepsMetadata
<1>5. CASE LoadTokensFails \/ BadSummary \/ DetectFails \/ Stop
  BY <1>5 DEF LoadTokensFails, BadSummary, DetectFails, Stop, RunEnds
<1>6. CASE UNCHANGED vars
  BY <1>6 DEF vars
<1>7. ASSUME \/ \E c \in Calls : Start(c)
             \/ \E pool \in Pools : SelectRows(pool)
             \/ LoadRows \/ TakeTrusted \/ TakeHistory \/ NoHistory
      PROVE  TokenInv'
  BY <1>7 DEF Start, SelectRows, LoadRows, TakeTrusted, TakeHistory, NoHistory
<1>8. ASSUME \/ \E top \in TopVictims : \E failed \in Failures(top) : FetchHistory(top, failed)
             \/ WriteHistory \/ Build \/ UseTrusted \/ OpenTrusted \/ WriteTrusted
      PROVE  TokenInv'
  BY <1>8 DEF FetchHistory, WriteHistory, Build, UseTrusted, OpenTrusted, WriteTrusted
<1>9. ASSUME \/ \E sample \in Samples, lost \in SUBSET rows : BuildReplay(sample, lost)
             \/ TakeSummary \/ OpenSummary
             \/ \E alerts \in SUBSET Hashes(replay) : WriteSummary(alerts)
             \/ Measure
      PROVE  TokenInv'
  BY <1>9 DEF BuildReplay, TakeSummary, OpenSummary, WriteSummary, Measure
<1> QED
  BY <1>1, <1>2, <1>3, <1>4, <1>5, <1>6, <1>7, <1>8, <1>9 DEF Next

\* No version of the file of tokens that can be read has lost the metadata an
\* earlier one had, and no run goes on past its metadata where the file cannot
\* be read, whatever runs were interrupted between.  The interruption of a
\* rewrite leaves a file that cannot be (569-606).
THEOREM MetadataIsKept == Spec => []MetadataKept
<1>1. Init => Types /\ TokenInv
  BY InitTypes, InitTokenInv
<1>2. Types /\ TokenInv /\ [Next]_vars => (Types /\ TokenInv)'
  BY StepTypes, StepTokenInv
<1>3. TokenInv => MetadataKept
  BY DEF TokenInv
<1> QED
  BY <1>1, <1>2, <1>3, PTL DEF Spec
-----------------------------------------------------------------------------
(* What counts when an event is observed. *)

\* An event is observed before the time of its block.
EventsArePending ==
  \A n \in DOMAIN replay :
    \E i \in DOMAIN Labels :
      /\ replay[n].block = Labels[i].block
      /\ replay[n].at = BlockTime(Labels[i].block) - job.delay

LEMMA RowsAreFinite ==
  ASSUME Types, NEW S \in SUBSET rows
  PROVE  S \in SUBSET Nat /\ IsFiniteSet(S) /\ Cardinality(S) \in Nat
<1>1. S \subseteq 1..Len(Labels)
  BY RunAssumption DEF Types
<1>2. IsFiniteSet(1..Len(Labels))
  BY RunAssumption, FS_Interval
<1>3. S \in SUBSET (1..Len(Labels))
  BY <1>1
<1>4. IsFiniteSet(S)
  BY <1>2, <1>3, FS_Subset
<1> QED
  BY <1>3, <1>4, RunAssumption, FS_CardinalityType

\* Every place of the replay has a row.
LEMMA Places ==
  ASSUME Types, NEW chosen \in SUBSET rows, NEW n \in 1..Cardinality(chosen)
  PROVE  (CHOOSE i \in chosen : Cardinality({j \in chosen : j < i}) = n - 1) \in chosen
<1>1. chosen \in SUBSET Nat /\ IsFiniteSet(chosen) /\ Cardinality(chosen) \in Nat
  BY RowsAreFinite
<1>2. n - 1 \in Nat /\ n - 1 < Cardinality(chosen)
  BY <1>1
<1>3. \E i \in chosen : Cardinality({j \in chosen : j < i}) = n - 1
  BY <1>1, <1>2, EveryPlaceIsTaken
<1> QED
  BY <1>3

LEMMA BuildPending ==
  ASSUME Types, NEW sample \in Samples, NEW lost, BuildReplay(sample, lost)
  PROVE  EventsArePending'
<1> DEFINE chosen == First({i \in rows : Poisoning(i)}, MaxEvents) \cup sample
           at(n) == CHOOSE i \in chosen : Cardinality({j \in chosen : j < i}) = n - 1
<1>1. replay' = [n \in 1..Cardinality(chosen) |-> ReplayEvent(at(n), at(n) \notin lost)]
  BY DEF BuildReplay
<1>2. chosen \in SUBSET rows
  BY DEF First, Samples
<1>3. \A n \in 1..Cardinality(chosen) : at(n) \in chosen
  <2> HIDE DEF chosen
  <2> QED
    BY <1>2, Places
<1> HIDE DEF chosen, at
<1>4. ASSUME NEW n \in DOMAIN replay'
      PROVE  \E i \in DOMAIN Labels :
               /\ replay'[n].block = Labels[i].block
               /\ replay'[n].at = BlockTime(Labels[i].block) - job'.delay
  <2>1. /\ at(n) \in DOMAIN Labels
        /\ replay'[n] = ReplayEvent(at(n), at(n) \notin lost)
    BY <1>1, <1>2, <1>3, <1>4 DEF Types
  <2>2. job' = job
    BY DEF BuildReplay
  <2> QED
    BY <2>1, <2>2 DEF ReplayEvent
<1> QED
  BY <1>4 DEF EventsArePending

LEMMA InitPending == Init => EventsArePending
BY DEF Init, EventsArePending

LEMMA StepPending ==
  ASSUME Types, EventsArePending, [Next]_vars
  PROVE  EventsArePending'
<1> USE DEF files, gathering, measuring
<1>1. ASSUME NEW sample \in Samples, NEW lost, BuildReplay(sample, lost)
      PROVE  EventsArePending'
  BY <1>1, BuildPending
<1>2. CASE RunEnds
  BY <1>2 DEF RunEnds, EventsArePending
<1>3. CASE UNCHANGED <<replay, job>>
  BY <1>3 DEF EventsArePending
<1>4. ASSUME \/ \E c \in Calls : Start(c)
             \/ \E pool \in Pools : SelectRows(pool)
             \/ LoadRows \/ TakeTrusted \/ TakeHistory \/ NoHistory
             \/ \E top \in TopVictims : \E failed \in Failures(top) : FetchHistory(top, failed)
             \/ WriteHistory \/ Build
      PROVE  UNCHANGED <<replay, job>>
  BY <1>4 DEF Start, SelectRows, LoadRows, TakeTrusted, TakeHistory, NoHistory, FetchHistory,
              WriteHistory, Build
<1>5. ASSUME \/ LoadTokens \/ OpenTokens \/ WriteTokens
             \/ \E answered \in BOOLEAN : AskToken(answered)
             \/ UseTrusted \/ OpenTrusted \/ WriteTrusted
             \/ TakeSummary \/ OpenSummary
             \/ \E alerts \in SUBSET Hashes(replay) : WriteSummary(alerts)
             \/ Measure
      PROVE  UNCHANGED <<replay, job>>
  BY <1>5 DEF LoadTokens, OpenTokens, WriteTokens, AskToken, UseTrusted, OpenTrusted,
              WriteTrusted, TakeSummary, OpenSummary, WriteSummary, Measure
<1>6. CASE LoadTokensFails \/ BadSummary \/ DetectFails \/ Stop
  BY <1>2, <1>6 DEF LoadTokensFails, BadSummary, DetectFails, Stop
<1>7. CASE UNCHANGED vars
  BY <1>3, <1>7 DEF vars
<1> QED
  BY <1>1, <1>3, <1>4, <1>5, <1>6, <1>7 DEF Next

-----------------------------------------------------------------------------
(* Where the trusted counterparties come from. *)

IntendedOnce(k) == \E i \in DOMAIN Labels : Valid(i) /\ LabelKey(i) = k

\* A log of a transfer of value that k took part in.
IsLogOf(l, k) ==
  /\ LogKey(k[1], l) = k /\ k[1] \in {Logs[l].from, Logs[l].to}
  /\ Logs[l].value > 0

IsAttack(l) == \E i \in rows : Labels[i].hash = Logs[l].hash /\ (Poisoning(i) \/ Payoff(i))

Transferred(k) == \E l \in DOMAIN Logs : IsLogOf(l, k)
TransferredClean(k) == \E l \in DOMAIN Logs : IsLogOf(l, k) /\ ~IsAttack(l)

\* Where a run has not come to the history, nor to the counterparties.
Unread ==
  \/ pc \in {"idle", "rows", "trusted", "history"}
  \/ pc \in {"metadata", "tokens", "tokens open", "tokens last"} /\ ~Streams

Untrusting == Unread \/ pc \in {"history open", "build"}

HistoryInv ==
  /\ \A k \in DOMAIN historyFile.data : Transferred(k)
  /\ \A k \in DOMAIN history : Transferred(k)
  /\ fetched = rows => \A k \in DOMAIN history : TransferredClean(k)
  /\ Unread => history = EmptyBag /\ fetched = {}

TrustedInv ==
  /\ Untrusting => trusted = EmptyBag
  /\ pc = "trusted" => Streams /\ ReusesTrusted
  /\ ~ReusesTrusted => \A k \in DOMAIN trusted : IntendedOnce(k) \/ k \in DOMAIN history

\* A request returns logs of the victim it asks for.
LEMMA RequestedLogs ==
  ASSUME NEW top, NEW requests \in SUBSET Requests(top), NEW k \in DOMAIN Fetched(requests)
  PROVE  /\ Transferred(k)
         /\ TransferredClean(k)
<1>1. PICK request \in requests : \E l \in Answer(request) : LogKey(request[1], l) = k
  BY FetchedKeys
<1>2. PICK l \in Answer(request) : LogKey(request[1], l) = k
  BY <1>1
<1>3. /\ l \in DOMAIN Logs /\ Logs[l].hash \notin ExcludedHashes /\ Logs[l].value > 0
      /\ Logs[l][request[3]] = request[1]
  BY DEF Answer
<1>4. request[3] \in {"from", "to"}
  BY DEF Requests
<1>5. k[1] = request[1]
  BY <1>2 DEF LogKey
<1>6. IsLogOf(l, k)
  BY <1>2, <1>3, <1>4, <1>5 DEF IsLogOf
<1>7. ~IsAttack(l)
  BY <1>3 DEF IsAttack, ExcludedHashes
<1> QED
  BY <1>3, <1>6, <1>7 DEF Transferred, TransferredClean

LEMMA FetchHistoryInv ==
  ASSUME HistoryInv, NEW top, NEW failed, FetchHistory(top, failed)
  PROVE  HistoryInv'
<1>1. /\ history' = Fetched(Requests(top) \ failed) /\ historyFile' = OpenFile
      /\ pc' = "history open" /\ UNCHANGED rows
  BY DEF FetchHistory
<1>2. \A k \in DOMAIN history' : Transferred(k) /\ TransferredClean(k)
  BY <1>1, RequestedLogs
<1>3. \A k \in DOMAIN history' : Transferred(k)' /\ TransferredClean(k)'
  BY <1>1, <1>2 DEF Transferred, TransferredClean, IsAttack
<1> QED
  BY <1>1, <1>3, FilesData DEF HistoryInv, Unread

\* The history of a file need not be clean of the attacks of this run's rows,
\* unless there are none.
LEMMA TakeHistoryInv ==
  ASSUME HistoryInv, TakeHistory
  PROVE  HistoryInv'
<1>1. /\ history' = historyFile.data /\ pc' = "build" /\ fetched = {}
      /\ UNCHANGED <<historyFile, rows, fetched>>
  BY DEF TakeHistory, files, HistoryInv, Unread
<1>2. \A k \in DOMAIN history' : Transferred(k)
  BY <1>1 DEF HistoryInv
<1>3. rows = {} => \A k \in DOMAIN history' : TransferredClean(k)
  BY <1>2 DEF Transferred, TransferredClean, IsAttack
<1> QED
  BY <1>1, <1>2, <1>3 DEF HistoryInv, Unread, Transferred, TransferredClean, IsAttack

LEMMA HistoryUnmoved ==
  ASSUME HistoryInv, UNCHANGED <<rows, history, fetched, historyFile>>, Unread' => Unread
  PROVE  HistoryInv'
BY DEF HistoryInv, Transferred, TransferredClean, IsAttack

LEMMA NothingRead ==
  ASSUME HistoryInv, UNCHANGED historyFile, history' = EmptyBag, fetched' = {}
  PROVE  HistoryInv'
BY EmptyBagHasNoKey DEF HistoryInv, Transferred

LEMMA StepHistoryInv ==
  ASSUME HistoryInv, [Next]_vars
  PROVE  HistoryInv'
<1> USE DEF files, gathering, measuring
<1>1. ASSUME NEW c \in Calls, Start(c)
      PROVE  HistoryInv'
  BY <1>1, NothingRead DEF Start, HistoryInv, Unread
<1>2. ASSUME \/ \E pool \in Pools : SelectRows(pool)
             \/ LoadRows
      PROVE  HistoryInv'
  <2>1. pc = "rows" /\ UNCHANGED <<history, fetched, historyFile>>
    BY <1>2 DEF SelectRows, LoadRows
  <2>2. history' = EmptyBag /\ fetched' = {}
    BY <2>1 DEF HistoryInv, Unread
  <2> QED
    BY <2>1, <2>2, NothingRead
<1>3. CASE TakeTrusted \/ NoHistory \/ Build
  <2>1. UNCHANGED <<rows, history, fetched, historyFile>>
    BY <1>3 DEF TakeTrusted, NoHistory, Build
  <2>2. CASE TakeTrusted \/ NoHistory
    BY <2>1, <2>2, HistoryUnmoved DEF TakeTrusted, NoHistory, Unread
  <2>3. CASE Build
    <3>1. ~Unread'
      BY <2>3 DEF Build, Unread, Streams
    <3> QED
      BY <2>1, <3>1, HistoryUnmoved
  <2> QED
    BY <1>3, <2>2, <2>3
<1>4. CASE TakeHistory
  BY <1>4, TakeHistoryInv
<1>5. ASSUME NEW top, NEW failed, FetchHistory(top, failed)
      PROVE  HistoryInv'
  BY <1>5, FetchHistoryInv
<1>6. CASE WriteHistory
  BY <1>6, FilesData DEF WriteHistory, HistoryInv, Unread, Transferred, TransferredClean, IsAttack
<1>7. ASSUME \/ LoadTokens \/ OpenTokens \/ WriteTokens
             \/ \E answered \in BOOLEAN : AskToken(answered)
      PROVE  HistoryInv'
  BY <1>7, HistoryUnmoved DEF LoadTokens, OpenTokens, WriteTokens, AskToken, Streams, Unread
<1>8. ASSUME \/ UseTrusted \/ OpenTrusted \/ WriteTrusted \/ Measure
             \/ \E sample \in Samples, lost \in SUBSET rows : BuildReplay(sample, lost)
             \/ TakeSummary \/ OpenSummary
             \/ \E alerts \in SUBSET Hashes(replay) : WriteSummary(alerts)
      PROVE  HistoryInv'
  BY <1>8, HistoryUnmoved DEF UseTrusted, OpenTrusted, WriteTrusted, Measure, BuildReplay,
                              TakeSummary, OpenSummary, WriteSummary, Unread
<1>9. CASE LoadTokensFails \/ BadSummary \/ DetectFails \/ Stop
  BY <1>9, NothingRead DEF LoadTokensFails, BadSummary, DetectFails, Stop, RunEnds
<1>10. CASE UNCHANGED vars
  BY <1>10, HistoryUnmoved DEF vars, Streams, Unread
<1> QED
  BY <1>1, <1>2, <1>3, <1>4, <1>5, <1>6, <1>7, <1>8, <1>9, <1>10 DEF Next

LEMMA TrustedUnmoved ==
  ASSUME TrustedInv, UNCHANGED <<history, trusted>>, Untrusting' => Untrusting,
         pc' = "trusted" => Streams' /\ ReusesTrusted',
         ReusesTrusted => ReusesTrusted'
  PROVE  TrustedInv'
BY DEF TrustedInv, IntendedOnce, Valid, Benign, LabelKey, Poisoning, Payoff

LEMMA NothingTrusted ==
  ASSUME trusted' = EmptyBag, pc' # "trusted"
  PROVE  TrustedInv'
BY EmptyBagHasNoKey DEF TrustedInv

LEMMA BuildTrustedInv ==
  ASSUME Types, Build
  PROVE  TrustedInv'
<1>1. pc' = IF Streams THEN "metadata" ELSE "counterparties"
  BY DEF Build
<1>2. ~Untrusting' /\ pc' # "trusted"
  BY <1>1 DEF Build, Untrusting, Unread, Streams
<1>3. ASSUME NEW k \in DOMAIN trusted'
      PROVE  IntendedOnce(k) \/ k \in DOMAIN history
  BY <1>3, BuiltKeys, LabelKeys DEF IntendedOnce
<1>4. history' = history
  BY DEF Build
<1> QED
  BY <1>2, <1>3, <1>4 DEF TrustedInv, IntendedOnce, Valid, Benign, LabelKey, Poisoning, Payoff

LEMMA StepTrustedInv ==
  ASSUME Types, TrustedInv, [Next]_vars
  PROVE  TrustedInv'
<1> USE DEF files, gathering, measuring
<1>1. ASSUME \/ \E c \in Calls : Start(c)
             \/ LoadRows
             \/ \E top \in TopVictims : \E failed \in Failures(top) : FetchHistory(top, failed)
             \/ TakeHistory
      PROVE  TrustedInv'
  <2>1. pc' # "trusted" /\ Untrusting /\ UNCHANGED trusted
    BY <1>1 DEF Start, LoadRows, FetchHistory, TakeHistory, Untrusting, Unread
  <2> QED
    BY <2>1, NothingTrusted DEF TrustedInv
<1>2. ASSUME NEW pool \in Pools, SelectRows(pool)
      PROVE  TrustedInv'
  BY <1>2, TrustedUnmoved DEF SelectRows, Untrusting, Unread, Streams, ReusesTrusted
<1>3. CASE TakeTrusted
  <2>1. ReusesTrusted' /\ ~Untrusting' /\ pc' # "trusted"
    BY <1>3 DEF TakeTrusted, TrustedInv, ReusesTrusted, Untrusting, Unread, Streams
  <2> QED
    BY <2>1 DEF TrustedInv
<1>4. CASE NoHistory \/ WriteHistory
  BY <1>4, TrustedUnmoved DEF NoHistory, WriteHistory, Untrusting, Unread, ReusesTrusted
<1>5. CASE Build
  BY <1>5, BuildTrustedInv
<1>6. ASSUME \/ LoadTokens \/ OpenTokens \/ WriteTokens
             \/ \E answered \in BOOLEAN : AskToken(answered)
      PROVE  TrustedInv'
  <2>1. pc' # "trusted" /\ UNCHANGED <<call, trustedFile, history, trusted>>
    BY <1>6 DEF LoadTokens, OpenTokens, WriteTokens, AskToken
  <2>2. Untrusting' => Untrusting
    BY <1>6 DEF LoadTokens, OpenTokens, WriteTokens, AskToken, Untrusting, Unread, Streams
  <2> QED
    BY <2>1, <2>2, TrustedUnmoved DEF ReusesTrusted
<1>7. ASSUME \/ UseTrusted \/ OpenTrusted \/ WriteTrusted \/ Measure
             \/ \E sample \in Samples, lost \in SUBSET rows : BuildReplay(sample, lost)
             \/ TakeSummary \/ OpenSummary
             \/ \E alerts \in SUBSET Hashes(replay) : WriteSummary(alerts)
      PROVE  TrustedInv'
  <2>1. /\ pc' \notin {"trusted"} /\ ~Untrusting'
        /\ UNCHANGED <<call, history, trusted>>
    BY <1>7 DEF UseTrusted, OpenTrusted, WriteTrusted, Measure, BuildReplay, TakeSummary,
                OpenSummary, WriteSummary, Untrusting, Unread
  <2>2. ReusesTrusted => ReusesTrusted'
    <3>1. CASE OpenTrusted
      BY <3>1 DEF OpenTrusted, ReusesTrusted
    <3>2. CASE WriteTrusted
      BY <2>1, <3>2 DEF WriteTrusted, ReusesTrusted, File
    <3>3. CASE UNCHANGED trustedFile
      BY <2>1, <3>3 DEF ReusesTrusted
    <3> QED
      BY <1>7, <3>1, <3>2, <3>3 DEF UseTrusted, Measure, BuildReplay, TakeSummary, OpenSummary,
                                    WriteSummary
  <2> QED
    BY <2>1, <2>2, TrustedUnmoved
<1>8. CASE LoadTokensFails \/ BadSummary \/ DetectFails \/ Stop
  BY <1>8, NothingTrusted DEF LoadTokensFails, BadSummary, DetectFails, Stop, RunEnds
<1>9. CASE UNCHANGED vars
  BY <1>9, TrustedUnmoved DEF vars, Untrusting, Unread, Streams, ReusesTrusted, TrustedInv
<1> QED
  BY <1>1, <1>2, <1>3, <1>4, <1>5, <1>6, <1>7, <1>8, <1>9 DEF Next

LEMMA InitClean == Init => HistoryInv /\ TrustedInv
BY EmptyBagHasNoKey, FilesData DEF Init, HistoryInv, TrustedInv, Transferred

\* The counterparties a run has gathered by itself are intended recipients or
\* took part in transfers of value that no attack among its rows stands for,
\* whatever requests failed and whatever the runs before left (383-428,
\* 621-678 and 725-758).
THEOREM OwnCounterpartiesAreClean == Spec => []TrustedIsClean
<1>1. Init => Types /\ HistoryInv /\ TrustedInv
  BY InitTypes, InitClean
<1>2. Types /\ HistoryInv /\ TrustedInv /\ [Next]_vars => (Types /\ HistoryInv /\ TrustedInv)'
  BY StepTypes, StepHistoryInv, StepTrustedInv
<1>3. HistoryInv /\ TrustedInv => TrustedIsClean
  <2> SUFFICES ASSUME HistoryInv, TrustedInv, fetched = rows \/ history = EmptyBag,
                      ~ReusesTrusted, NEW k \in DOMAIN trusted
               PROVE  IntendedOnce(k) \/ TransferredClean(k)
    BY DEF TrustedIsClean, IntendedOnce, TransferredClean, IsLogOf, IsAttack
  <2>1. IntendedOnce(k) \/ k \in DOMAIN history
    BY DEF TrustedInv
  <2>2. k \in DOMAIN history => fetched = rows
    BY EmptyBagHasNoKey
  <2> QED
    BY <2>1, <2>2 DEF HistoryInv
<1> QED
  BY <1>1, <1>2, <1>3, PTL DEF Spec
-----------------------------------------------------------------------------
(* What the alerts of a summary rest on. *)

\* What was trusted, in whatever run, was seen.
TrustedWasSeen ==
  /\ \A k \in DOMAIN trusted : Seen(k)
  /\ \A k \in DOMAIN trustedFile.data : Seen(k)

LEMMA SeenSomewhere ==
  ASSUME NEW k, IntendedOnce(k) \/ Transferred(k)
  PROVE  Seen(k)
BY DEF IntendedOnce, Transferred, IsLogOf, Seen

LEMMA InitSeen == Init => TrustedWasSeen
BY EmptyBagHasNoKey, FilesData DEF Init, TrustedWasSeen

LEMMA BuildSeen ==
  ASSUME Types, HistoryInv, TrustedWasSeen, Build
  PROVE  TrustedWasSeen'
<1>1. \A k \in DOMAIN trusted' : IntendedOnce(k) \/ Transferred(k)
  BY BuiltKeys, LabelKeys DEF IntendedOnce, HistoryInv
<1>2. \A k \in DOMAIN trusted' : Seen(k)
  BY <1>1, SeenSomewhere
<1>3. UNCHANGED trustedFile
  BY DEF Build, files
<1> QED
  BY <1>2, <1>3 DEF TrustedWasSeen, Seen, Valid, Benign, LabelKey, Poisoning, Payoff, LogKey

LEMMA StepSeen ==
  ASSUME Types, HistoryInv, TrustedWasSeen, [Next]_vars
  PROVE  TrustedWasSeen'
<1> USE DEF files, gathering, measuring
<1>1. CASE UNCHANGED <<trusted, trustedFile>>
  BY <1>1 DEF TrustedWasSeen, Seen, Valid, Benign, LabelKey, Poisoning, Payoff, LogKey
<1>2. CASE trusted' = EmptyBag /\ UNCHANGED trustedFile
  BY <1>2, EmptyBagHasNoKey DEF TrustedWasSeen
<1>3. CASE TakeTrusted
  BY <1>3 DEF TakeTrusted, TrustedWasSeen
<1>4. CASE Build
  BY <1>4, BuildSeen
<1>5. CASE OpenTrusted \/ WriteTrusted
  BY <1>5, FilesData DEF OpenTrusted, WriteTrusted, TrustedWasSeen
<1>6. ASSUME \/ \E c \in Calls : Start(c)
             \/ \E pool \in Pools : SelectRows(pool)
             \/ LoadRows \/ TakeHistory \/ NoHistory
             \/ \E top \in TopVictims : \E failed \in Failures(top) : FetchHistory(top, failed)
             \/ WriteHistory \/ LoadTokens \/ OpenTokens \/ WriteTokens
             \/ \E answered \in BOOLEAN : AskToken(answered)
      PROVE  UNCHANGED <<trusted, trustedFile>>
  BY <1>6 DEF Start, SelectRows, LoadRows, TakeHistory, NoHistory, FetchHistory, WriteHistory,
              LoadTokens, OpenTokens, WriteTokens, AskToken
<1>7. ASSUME \/ UseTrusted \/ Measure
             \/ \E sample \in Samples, lost \in SUBSET rows : BuildReplay(sample, lost)
             \/ TakeSummary \/ OpenSummary
             \/ \E alerts \in SUBSET Hashes(replay) : WriteSummary(alerts)
      PROVE  UNCHANGED <<trusted, trustedFile>>
  BY <1>7 DEF UseTrusted, Measure, BuildReplay, TakeSummary, OpenSummary, WriteSummary
<1>8. CASE LoadTokensFails \/ BadSummary \/ DetectFails \/ Stop
  BY <1>2, <1>8 DEF LoadTokensFails, BadSummary, DetectFails, Stop, RunEnds
<1>9. CASE UNCHANGED vars
  BY <1>1, <1>9 DEF vars
<1> QED
  BY <1>1, <1>3, <1>4, <1>5, <1>6, <1>7, <1>8, <1>9 DEF Next

\* A counterparty that is active when an event is observed was seen in a block
\* before the event's own.
LEMMA ActiveIsEarlier ==
  ASSUME Types, job \in Jobs, EventsArePending, NEW n \in DOMAIN replay,
         NEW k \in DOMAIN trustedFile.data, Active(k, replay[n])
  PROVE  k[4] < replay[n].block
<1>1. PICK i \in DOMAIN Labels :
        /\ replay[n].block = Labels[i].block
        /\ replay[n].at = BlockTime(Labels[i].block) - job.delay
  BY DEF EventsArePending
<1>2. k[4] \in Nat /\ Labels[i].block \in Nat /\ job.delay \in Nat \ {0}
  BY RunAssumption DEF Types, IsKey
<1>3. 12 * k[4] <= 12 * Labels[i].block - job.delay
  BY <1>1 DEF Active, BlockTime
<1> QED
  BY <1>1, <1>2, <1>3

LEMMA WrittenAlerts ==
  ASSUME Types, job \in Jobs, EventsArePending, TrustedWasSeen,
         NEW alerts, WriteSummary(alerts)
  PROVE  NoLookahead'
<1> DEFINE past == DOMAIN trustedFile.data
           data == [alerts |-> alerts, metrics |-> Confusion(replay, alerts),
                    replay |-> replay, trusted |-> past]
<1>1. summaryFile' = File(data)
  BY DEF WriteSummary
<1>2. summaryFile'.data = data
  BY <1>1, FilesData
<1>3. ASSUME NEW h \in alerts
      PROVE  \E n \in DOMAIN replay, k \in past :
               /\ replay[n].hash = h
               /\ k[1] \in {replay[n].victim, replay[n].lookalike}
               /\ k[4] < replay[n].block /\ Seen(k)
  <2>1. PICK n \in DOMAIN replay : replay[n].hash = h /\ Suspicious(replay[n], past)
    BY DEF WriteSummary
  <2>2. PICK k \in past, side \in Sides(replay[n]) : k[1] = side[1] /\ Active(k, replay[n])
    BY <2>1 DEF Suspicious
  <2>3. k[1] \in {replay[n].victim, replay[n].lookalike}
    BY <2>2 DEF Sides
  <2>4. k[4] < replay[n].block
    BY <2>2, ActiveIsEarlier
  <2>5. Seen(k)
    BY DEF TrustedWasSeen
  <2> QED
    BY <2>1, <2>3, <2>4, <2>5
<1> HIDE DEF past
<1>4. \A k : Seen(k)' <=> Seen(k)
  BY DEF Seen, Valid, Benign, LabelKey, Poisoning, Payoff, LogKey
<1>5. data.alerts = alerts /\ data.replay = replay /\ data.trusted = past
  OBVIOUS
<1> HIDE DEF data
<1> QED
  BY <1>2, <1>3, <1>4, <1>5 DEF NoLookahead

LEMMA StepAlerts ==
  ASSUME Types, job \in Jobs, EventsArePending, TrustedWasSeen, NoLookahead, [Next]_vars
  PROVE  NoLookahead' /\ job' \in Jobs
<1> USE DEF files, gathering, measuring
<1>1. ASSUME UNCHANGED summaryFile
      PROVE  NoLookahead'
  BY <1>1 DEF NoLookahead, Seen, Valid, Benign, LabelKey, Poisoning, Payoff, LogKey
<1>2. ASSUME \/ \E c \in Calls : Start(c)
             \/ \E pool \in Pools : SelectRows(pool)
             \/ LoadRows \/ TakeTrusted \/ TakeHistory \/ NoHistory
             \/ \E top \in TopVictims : \E failed \in Failures(top) : FetchHistory(top, failed)
             \/ WriteHistory \/ Build
      PROVE  UNCHANGED <<summaryFile, job>>
  BY <1>2 DEF Start, SelectRows, LoadRows, TakeTrusted, TakeHistory, NoHistory, FetchHistory,
              WriteHistory, Build
<1>3. ASSUME \/ LoadTokens \/ OpenTokens \/ WriteTokens
             \/ \E answered \in BOOLEAN : AskToken(answered)
             \/ UseTrusted \/ OpenTrusted \/ WriteTrusted
             \/ \E sample \in Samples, lost \in SUBSET rows : BuildReplay(sample, lost)
             \/ TakeSummary \/ Measure
      PROVE  UNCHANGED <<summaryFile, job>>
  BY <1>3 DEF LoadTokens, OpenTokens, WriteTokens, AskToken, UseTrusted, OpenTrusted,
              WriteTrusted, BuildReplay, TakeSummary, Measure
<1>4. CASE OpenSummary
  BY <1>4 DEF OpenSummary, OpenFile, NoLookahead
<1>5. ASSUME NEW alerts, WriteSummary(alerts)
      PROVE  NoLookahead' /\ job' \in Jobs
  BY <1>5, WrittenAlerts DEF WriteSummary
<1>6. CASE LoadTokensFails \/ BadSummary \/ DetectFails \/ Stop
  BY <1>1, <1>6 DEF LoadTokensFails, BadSummary, DetectFails, Stop, RunEnds
<1>7. CASE UNCHANGED vars
  BY <1>1, <1>7 DEF vars
<1> QED
  BY <1>1, <1>2, <1>3, <1>4, <1>5, <1>6, <1>7 DEF Next

\* Every alert of a summary rests on a counterparty that a row or a transfer
\* names, seen in a block before the event's own, whichever runs gathered the
\* counterparties and wrote the summary, and for every delay, window and
\* method (383-428, 621-702, 725-783; engine.go 762-773).
THEOREM AlertsRestOnThePast == Spec => []NoLookahead
<1> DEFINE IInv == /\ Types /\ HistoryInv /\ TrustedWasSeen /\ EventsArePending
                   /\ job \in Jobs /\ NoLookahead
<1>1. Init => IInv
  BY InitTypes, InitClean, InitSeen, InitPending DEF Init, NoFile, NoLookahead
<1>2. IInv /\ [Next]_vars => IInv'
  BY StepTypes, StepHistoryInv, StepSeen, StepPending, StepAlerts
<1>3. IInv => NoLookahead
  OBVIOUS
<1> QED
  BY <1>1, <1>2, <1>3, PTL DEF Spec
-----------------------------------------------------------------------------
(* The sum of the days. *)

LEMMA DisjointUnion ==
  ASSUME NEW A, IsFiniteSet(A), NEW B, IsFiniteSet(B), A \cap B = {}
  PROVE  Cardinality(A \cup B) = Cardinality(A) + Cardinality(B)
<1>1. Cardinality(A \cup B) = Cardinality(A) + Cardinality(B) - Cardinality({})
  BY FS_Union
<1> QED
  BY <1>1, FS_EmptySet, FS_CardinalityType

Picked(s) == CHOOSE d \in s : TRUE

LEMMA PickedIsMember ==
  ASSUME NEW s, s # {}
  PROVE  Picked(s) \in s
BY DEF Picked

EventsOn(X, day, days) == {x \in X : day[x] \in days}

\* Taking one day after the other, sum adds up how many events each has.
AddsUp(sum, X, D, day) ==
  /\ sum[{}] = 0
  /\ \A s \in (SUBSET D) \ {{}} :
       sum[s] = Cardinality({x \in X : day[x] = Picked(s)}) + sum[s \ {Picked(s)}]

LEMMA SumCountsEvents ==
  ASSUME NEW X, IsFiniteSet(X), NEW D, IsFiniteSet(D), NEW day, NEW sum,
         AddsUp(sum, X, D, day)
  PROVE  sum[D] = Cardinality(EventsOn(X, day, D))
<1> DEFINE Of(s) == EventsOn(X, day, s)
           T == {n \in Nat : \A s \in SUBSET D : Cardinality(s) = n => sum[s] = Cardinality(Of(s))}
<1>1. \A s \in SUBSET D : IsFiniteSet(s) /\ Cardinality(s) \in Nat
  BY FS_Subset, FS_CardinalityType
<1>2. 0 \in T
  <2> SUFFICES ASSUME NEW s \in SUBSET D, Cardinality(s) = 0
               PROVE  sum[s] = Cardinality(Of(s))
    OBVIOUS
  <2>1. s = {}
    BY <1>1, FS_EmptySet
  <2>2. Of(s) = {}
    BY <2>1 DEF EventsOn
  <2> QED
    BY <2>1, <2>2, FS_EmptySet DEF AddsUp
<1>3. ASSUME NEW n \in T
      PROVE  n + 1 \in T
  <2> SUFFICES ASSUME NEW s \in SUBSET D, Cardinality(s) = n + 1
               PROVE  sum[s] = Cardinality(Of(s))
    OBVIOUS
  <2> DEFINE d == Picked(s)
             today == {x \in X : day[x] = d}
  <2>1. s # {} /\ n \in Nat
    BY <1>1, FS_EmptySet
  <2>2. sum[s] = Cardinality(today) + sum[s \ {d}]
    BY <2>1 DEF AddsUp
  <2>3. d \in s
    BY <2>1, PickedIsMember
  <2> HIDE DEF d
  <2>4. Cardinality(s \ {d}) = n
    <3>1. IsFiniteSet(s) /\ Cardinality(s \ {d}) = Cardinality(s) - 1
      BY <1>1, <2>3, FS_RemoveElement
    <3> QED
      BY <2>1, <3>1
  <2>5. sum[s \ {d}] = Cardinality(Of(s \ {d}))
    BY <2>4
  <2>6. Of(s) = today \cup Of(s \ {d}) /\ today \cap Of(s \ {d}) = {}
    BY <2>3 DEF EventsOn
  <2>7. IsFiniteSet(today) /\ IsFiniteSet(Of(s \ {d}))
    BY FS_Subset DEF EventsOn
  <2> HIDE DEF today, Of
  <2>8. Cardinality(Of(s)) = Cardinality(today) + Cardinality(Of(s \ {d}))
    BY <2>6, <2>7, DisjointUnion
  <2> QED
    BY <2>2, <2>5, <2>8
<1>4. T = Nat
  <2> HIDE DEF T
  <2> QED
    BY <1>2, <1>3, NaturalsByInduction DEF T
<1> QED
  BY <1>1, <1>4

\* The total over the days of a count of the daily metrics.
Total(count) == MapThenSumSet(LAMBDA d : daily[d][count], DOMAIN daily)

LEMMA DailyTotal ==
  ASSUME NEW X, IsFiniteSet(X), IsFiniteSet(DOMAIN daily), NEW day, NEW count,
         \A x \in X : day[x] \in DOMAIN daily,
         \A d \in DOMAIN daily : daily[d][count] = Cardinality(EventsOn(X, day, {d}))
  PROVE  Total(count) = Cardinality(X)
<1> DEFINE D == DOMAIN daily
           Sums(sum) == sum = [s \in SUBSET D |->
                                 IF s = {} THEN 0
                                 ELSE daily[Picked(s)][count] + sum[s \ {Picked(s)}]]
           Of(s) == EventsOn(X, day, s)
           counts == [s \in SUBSET D |-> Cardinality(Of(s))]
<1>1. Total(count) = (CHOOSE sum : Sums(sum))[D]
  BY DEF Total, MapThenSumSet, MapThenFoldSet, Picked
<1>2. \A d : EventsOn(X, day, {d}) = {x \in X : day[x] = d}
  BY DEF EventsOn
<1>3. ASSUME NEW s \in SUBSET D
      PROVE  counts[s] = IF s = {} THEN 0
                         ELSE daily[Picked(s)][count] + counts[s \ {Picked(s)}]
  <2>1. CASE s = {}
    BY <2>1, FS_EmptySet DEF EventsOn
  <2>2. CASE s # {}
    <3> DEFINE d == Picked(s)
               today == EventsOn(X, day, {d})
    <3>1. d \in s
      BY <2>2, PickedIsMember
    <3> HIDE DEF d
    <3>2. Of(s) = today \cup Of(s \ {d}) /\ today \cap Of(s \ {d}) = {}
      BY <3>1 DEF EventsOn
    <3>3. IsFiniteSet(today) /\ IsFiniteSet(Of(s \ {d}))
      BY FS_Subset DEF EventsOn
    <3>4. Cardinality(today) = daily[d][count] /\ s \ {d} \in SUBSET D
      BY <3>1
    <3> HIDE DEF today, Of
    <3>5. Cardinality(Of(s)) = Cardinality(today) + Cardinality(Of(s \ {d}))
      BY <3>2, <3>3, DisjointUnion
    <3>6. counts[s] = daily[d][count] + counts[s \ {d}]
      BY <3>4, <3>5
    <3> QED
      BY <2>2, <3>6 DEF d
  <2> QED
    BY <2>1, <2>2
<1>4. Sums(counts)
  <2> HIDE DEF D
  <2> QED
    BY <1>3
<1>5. Sums(CHOOSE sum : Sums(sum))
  <2> HIDE DEF Sums
  <2> QED
    BY <1>4, Zenon
<1>6. PICK sum : sum = (CHOOSE j : Sums(j)) /\ Sums(sum)
  BY <1>5
<1>7. AddsUp(sum, X, D, day)
  <2>1. sum[{}] = 0
    BY <1>6
  <2>2. ASSUME NEW s \in (SUBSET D) \ {{}}
        PROVE  sum[s] = Cardinality({x \in X : day[x] = Picked(s)}) + sum[s \ {Picked(s)}]
    <3>1. s \in SUBSET D /\ s # {}
      OBVIOUS
    <3>2. sum[s] = daily[Picked(s)][count] + sum[s \ {Picked(s)}]
      BY <1>6, <3>1, Zenon
    <3>3. Picked(s) \in DOMAIN daily
      BY <3>1, PickedIsMember
    <3> QED
      BY <1>2, <3>2, <3>3
  <2> QED
    BY <2>1, <2>2, Zenon DEF AddsUp
<1>8. sum[D] = Cardinality(EventsOn(X, day, D))
  <2>1. IsFiniteSet(D)
    OBVIOUS
  <2> HIDE DEF D
  <2> QED
    BY <1>7, <2>1, SumCountsEvents
<1>9. EventsOn(X, day, D) = X
  BY DEF EventsOn
<1> QED
  BY <1>1, <1>6, <1>8, <1>9

\* The summary has the counts of its own replay and of alerts of it, and it is
\* there when the days are measured with it.
SummaryInv ==
  /\ IsFiniteSet(DOMAIN replay) /\ Len(replay) = Cardinality(DOMAIN replay)
  /\ summaryFile.state = "whole" =>
       /\ summaryFile.data.metrics = Confusion(summaryFile.data.replay, summaryFile.data.alerts)
       /\ summaryFile.data.alerts \subseteq Hashes(summaryFile.data.replay)
  /\ pc \in {"measure", "reports"} => summaryFile.state = "whole"
  /\ pc = "reports" =>
       daily = [d \in {Day(replay[n]) : n \in DOMAIN replay} |->
                  DayCounts(replay, summaryFile.data.alerts, d)]

LEMMA InitSummaryInv == Init => SummaryInv
BY FS_EmptySet DEF Init, SummaryInv, NoFile

LEMMA BuildSummaryInv ==
  ASSUME Types, SummaryInv, NEW sample \in Samples, NEW lost, BuildReplay(sample, lost)
  PROVE  SummaryInv'
<1> DEFINE chosen == First({i \in rows : Poisoning(i)}, MaxEvents) \cup sample
           at(n) == CHOOSE i \in chosen : Cardinality({j \in chosen : j < i}) = n - 1
           event(n) == ReplayEvent(at(n), at(n) \notin lost)
           N == Cardinality(chosen)
<1>1. replay' = [n \in 1..N |-> event(n)]
  BY DEF BuildReplay
<1>2. N \in Nat
  <2>1. chosen \in SUBSET rows
    BY DEF First, Samples
  <2> QED
    BY <2>1, RowsAreFinite
<1> HIDE DEF N, event
<1>3. IsFiniteSet(1..N) /\ Cardinality(1..N) = N
  BY <1>2, FS_Interval
<1>4. DOMAIN replay' = 1..N /\ Len(replay') = N
  BY <1>1, <1>2
<1>5. pc' = "detect" /\ summaryFile' = summaryFile
  BY DEF BuildReplay, files
<1> QED
  BY <1>3, <1>4, <1>5 DEF SummaryInv

LEMMA WriteSummaryInv ==
  ASSUME SummaryInv, NEW alerts, WriteSummary(alerts)
  PROVE  SummaryInv'
<1> DEFINE data == [alerts |-> alerts, metrics |-> Confusion(replay, alerts),
                    replay |-> replay, trusted |-> DOMAIN trustedFile.data]
<1>1. pc' = "measure" /\ replay' = replay
  BY DEF WriteSummary, measuring
<1>2. summaryFile' = File(data)
  BY DEF WriteSummary
<1>3. summaryFile'.state = "whole" /\ summaryFile'.data = data
  BY <1>2 DEF File
<1>4. alerts \subseteq Hashes(replay)
  BY DEF WriteSummary, Hashes
<1> QED
  BY <1>1, <1>3, <1>4 DEF SummaryInv

LEMMA StepSummaryInv ==
  ASSUME Types, SummaryInv, [Next]_vars
  PROVE  SummaryInv'
<1> USE DEF files, gathering, measuring
<1>1. ASSUME UNCHANGED <<summaryFile, replay>>, pc' \notin {"measure", "reports"}
      PROVE  SummaryInv'
  BY <1>1 DEF SummaryInv
<1>2. ASSUME \/ \E c \in Calls : Start(c)
             \/ \E pool \in Pools : SelectRows(pool)
             \/ LoadRows \/ TakeTrusted \/ TakeHistory \/ NoHistory
             \/ \E top \in TopVictims : \E failed \in Failures(top) : FetchHistory(top, failed)
             \/ WriteHistory \/ Build
      PROVE  SummaryInv'
  <2>1. UNCHANGED <<summaryFile, replay>>
    BY <1>2 DEF Start, SelectRows, LoadRows, TakeTrusted, TakeHistory, NoHistory, FetchHistory,
                WriteHistory, Build
  <2>2. pc' \notin {"measure", "reports"}
    BY <1>2 DEF Start, SelectRows, LoadRows, TakeTrusted, TakeHistory, NoHistory, FetchHistory,
                WriteHistory, Build
  <2> QED
    BY <1>1, <2>1, <2>2
<1>3. ASSUME \/ LoadTokens \/ OpenTokens \/ WriteTokens
             \/ \E answered \in BOOLEAN : AskToken(answered)
             \/ UseTrusted \/ OpenTrusted \/ WriteTrusted
      PROVE  SummaryInv'
  <2>1. UNCHANGED <<summaryFile, replay>>
    BY <1>3 DEF LoadTokens, OpenTokens, WriteTokens, AskToken, UseTrusted, OpenTrusted,
                WriteTrusted
  <2>2. pc' \notin {"measure", "reports"}
    BY <1>3 DEF LoadTokens, OpenTokens, WriteTokens, AskToken, UseTrusted, OpenTrusted,
                WriteTrusted
  <2> QED
    BY <1>1, <2>1, <2>2
<1>4. ASSUME NEW sample \in Samples, NEW lost, BuildReplay(sample, lost)
      PROVE  SummaryInv'
  BY <1>4, BuildSummaryInv
<1>5. ASSUME NEW alerts, WriteSummary(alerts)
      PROVE  SummaryInv'
  BY <1>5, WriteSummaryInv
<1>6. CASE Measure
  BY <1>6 DEF Measure, SummaryInv
<1>7. CASE LoadTokensFails \/ BadSummary \/ DetectFails \/ Stop
  BY <1>7, FS_EmptySet DEF LoadTokensFails, BadSummary, DetectFails, Stop, RunEnds, SummaryInv
<1>8. CASE TakeSummary \/ OpenSummary
  <2>1. UNCHANGED replay
    BY <1>8 DEF TakeSummary, OpenSummary
  <2>2. CASE TakeSummary
    BY <2>1, <2>2 DEF TakeSummary, SummaryInv
  <2>3. CASE OpenSummary
    <3>1. pc' = "detect open" /\ summaryFile'.state = "torn"
      BY <2>3 DEF OpenSummary, OpenFile
    <3> QED
      BY <2>1, <3>1 DEF SummaryInv
  <2> QED
    BY <1>8, <2>2, <2>3
<1>9. CASE UNCHANGED vars
  BY <1>9 DEF vars, SummaryInv
<1> QED
  BY <1>2, <1>3, <1>4, <1>5, <1>6, <1>7, <1>8, <1>9 DEF Next

\* The events that are counted under each heading on one day or another.
TruePositives(alerts) == {n \in DOMAIN replay : replay[n].hash \in alerts /\ replay[n].poison}
FalsePositives(alerts) == {n \in DOMAIN replay : replay[n].hash \in alerts /\ ~replay[n].poison}
FalseNegatives(alerts) == {n \in DOMAIN replay : replay[n].poison /\ replay[n].hash \notin alerts}

\* The days together have the counts of the events.
LEMMA Totals ==
  ASSUME SummaryInv, pc = "reports", NEW alerts, alerts = summaryFile.data.alerts
  PROVE  /\ Total("tp") = Cardinality(TruePositives(alerts))
         /\ Total("fp") = Cardinality(FalsePositives(alerts))
         /\ Total("fn") = Cardinality(FalseNegatives(alerts))
<1> DEFINE Y == DOMAIN replay
           day == [n \in Y |-> Day(replay[n])]
<1>1. IsFiniteSet(Y)
  BY DEF SummaryInv
<1>2. daily = [d \in {Day(replay[n]) : n \in Y} |-> DayCounts(replay, alerts, d)]
  BY DEF SummaryInv
<1>3. DOMAIN daily = {day[y] : y \in Y}
  BY <1>2
<1>4. \A d \in DOMAIN daily : daily[d] = DayCounts(replay, alerts, d)
  BY <1>2
<1>5. ASSUME NEW d \in DOMAIN daily
      PROVE  /\ daily[d]["tp"] = Cardinality(EventsOn(TruePositives(alerts), day, {d}))
             /\ daily[d]["fp"] = Cardinality(EventsOn(FalsePositives(alerts), day, {d}))
             /\ daily[d]["fn"] = Cardinality(EventsOn(FalseNegatives(alerts), day, {d}))
  <2> DEFINE today == {n \in DOMAIN replay : Day(replay[n]) = d}
             found == {n \in today : replay[n].hash \in alerts}
             poison == {n \in today : replay[n].poison}
  <2>1. /\ daily[d]["tp"] = Cardinality(found \cap poison)
        /\ daily[d]["fp"] = Cardinality(found \ poison)
        /\ daily[d]["fn"] = Cardinality(poison \ found)
    <3>1. DayCounts(replay, alerts, d) = [tp |-> Cardinality(found \cap poison),
                                          fp |-> Cardinality(found \ poison),
                                          fn |-> Cardinality(poison \ found)]
      BY DEF DayCounts
    <3> HIDE DEF found, poison
    <3>2. daily[d] = DayCounts(replay, alerts, d)
      BY <1>4
    <3> QED
      BY <3>1, <3>2
  <2>2. found \cap poison = EventsOn(TruePositives(alerts), day, {d})
    BY DEF TruePositives, EventsOn
  <2>3. found \ poison = EventsOn(FalsePositives(alerts), day, {d})
    BY DEF FalsePositives, EventsOn
  <2>4. poison \ found = EventsOn(FalseNegatives(alerts), day, {d})
    BY DEF FalseNegatives, EventsOn
  <2> QED
    BY <2>1, <2>2, <2>3, <2>4
<1>6. IsFiniteSet(DOMAIN daily)
  <2>1. day \in Surjection(Y, DOMAIN daily)
    BY <1>3 DEF Surjection
  <2> QED
    BY <1>1, <2>1, FS_Surjection
<1>7. ASSUME NEW X \in SUBSET Y
      PROVE  IsFiniteSet(X) /\ \A x \in X : day[x] \in DOMAIN daily
  BY <1>1, <1>3, FS_Subset
<1>8. /\ TruePositives(alerts) \in SUBSET Y /\ FalsePositives(alerts) \in SUBSET Y
      /\ FalseNegatives(alerts) \in SUBSET Y
  BY DEF TruePositives, FalsePositives, FalseNegatives
<1> HIDE DEF Y, day
<1>9. Total("tp") = Cardinality(TruePositives(alerts))
  <2>1. /\ IsFiniteSet(TruePositives(alerts))
        /\ \A x \in TruePositives(alerts) : day[x] \in DOMAIN daily
    BY <1>7, <1>8
  <2>2. \A d \in DOMAIN daily :
          daily[d]["tp"] = Cardinality(EventsOn(TruePositives(alerts), day, {d}))
    BY <1>5
  <2> QED
    BY <1>6, <2>1, <2>2, DailyTotal
<1>10. Total("fp") = Cardinality(FalsePositives(alerts))
  <2>1. /\ IsFiniteSet(FalsePositives(alerts))
        /\ \A x \in FalsePositives(alerts) : day[x] \in DOMAIN daily
    BY <1>7, <1>8
  <2>2. \A d \in DOMAIN daily :
          daily[d]["fp"] = Cardinality(EventsOn(FalsePositives(alerts), day, {d}))
    BY <1>5
  <2> QED
    BY <1>6, <2>1, <2>2, DailyTotal
<1>11. Total("fn") = Cardinality(FalseNegatives(alerts))
  <2>1. /\ IsFiniteSet(FalseNegatives(alerts))
        /\ \A x \in FalseNegatives(alerts) : day[x] \in DOMAIN daily
    BY <1>7, <1>8
  <2>2. \A d \in DOMAIN daily :
          daily[d]["fn"] = Cardinality(EventsOn(FalseNegatives(alerts), day, {d}))
    BY <1>5
  <2> QED
    BY <1>6, <2>1, <2>2, DailyTotal
<1> QED
  BY <1>9, <1>10, <1>11

\* Where no transaction has two events, events are counted as transactions.
LEMMA HashesTellApart ==
  ASSUME SummaryInv, Cardinality(Hashes(replay)) = Len(replay),
         NEW A \in SUBSET DOMAIN replay
  PROVE  /\ \A m, n \in DOMAIN replay : replay[m].hash = replay[n].hash => m = n
         /\ Cardinality({replay[n].hash : n \in A}) = Cardinality(A)
<1> DEFINE S == DOMAIN replay
           hash == [n \in S |-> replay[n].hash]
           part == [n \in A |-> replay[n].hash]
           image == {replay[n].hash : n \in A}
<1>1. IsFiniteSet(S) /\ Cardinality(Hashes(replay)) = Cardinality(S)
  BY DEF SummaryInv
<1>2. hash \in Surjection(S, Hashes(replay))
  BY DEF Surjection, Hashes
<1> HIDE DEF hash
<1>3. hash \in Injection(S, Hashes(replay))
  BY <1>1, <1>2, FS_Surjection
<1> USE DEF hash
<1>4. \A m, n \in S : replay[m].hash = replay[n].hash => m = n
  BY <1>3 DEF Injection, IsInjective
<1>5. part \in Bijection(A, image)
  <2>1. part \in [A -> image] /\ \A y \in image : \E n \in A : part[n] = y
    OBVIOUS
  <2>2. \A m, n \in A : part[m] = part[n] => m = n
    BY <1>4
  <2> QED
    BY <2>1, <2>2 DEF Bijection, Injection, Surjection, IsInjective
<1>6. IsFiniteSet(A)
  BY <1>1, FS_Subset
<1>7. Cardinality(image) = Cardinality(A)
  BY <1>5, <1>6, FS_Bijection DEF ExistsBijection
<1> QED
  BY <1>4, <1>7

LEMMA TotalsAreConfusion ==
  ASSUME SummaryInv, pc = "reports", summaryFile.data.replay = replay,
         Cardinality(Hashes(replay)) = Len(replay), NEW alerts, alerts = summaryFile.data.alerts
  PROVE  Confusion(replay, alerts) = [tp |-> Cardinality(TruePositives(alerts)),
                                      fp |-> Cardinality(FalsePositives(alerts)),
                                      fn |-> Cardinality(FalseNegatives(alerts))]
<1> DEFINE poison == {h \in Hashes(replay) : IsPoison(replay, h)}
           H(A) == {replay[n].hash : n \in A}
<1>1. alerts \subseteq Hashes(replay)
  BY DEF SummaryInv
<1>2. \A m, n \in DOMAIN replay : replay[m].hash = replay[n].hash => m = n
  BY HashesTellApart
<1>3. \A n \in DOMAIN replay :
        /\ replay[n].hash \in Hashes(replay)
        /\ IsPoison(replay, replay[n].hash) <=> replay[n].poison
  BY <1>2 DEF Hashes, IsPoison
<1>4. \A h \in Hashes(replay) : \E n \in DOMAIN replay : h = replay[n].hash
  BY DEF Hashes
<1>5. poison \cap alerts = H(TruePositives(alerts))
  BY <1>3, <1>4 DEF TruePositives
<1>6. alerts \ poison = H(FalsePositives(alerts))
  BY <1>1, <1>3, <1>4 DEF FalsePositives
<1>7. poison \ alerts = H(FalseNegatives(alerts))
  BY <1>3, <1>4 DEF FalseNegatives
<1>8. /\ TruePositives(alerts) \in SUBSET DOMAIN replay
      /\ FalsePositives(alerts) \in SUBSET DOMAIN replay
      /\ FalseNegatives(alerts) \in SUBSET DOMAIN replay
  BY DEF TruePositives, FalsePositives, FalseNegatives
<1>9. /\ Cardinality(H(TruePositives(alerts))) = Cardinality(TruePositives(alerts))
      /\ Cardinality(H(FalsePositives(alerts))) = Cardinality(FalsePositives(alerts))
      /\ Cardinality(H(FalseNegatives(alerts))) = Cardinality(FalseNegatives(alerts))
  BY <1>8, HashesTellApart
<1> QED
  BY <1>5, <1>6, <1>7, <1>9 DEF Confusion

LEMMA PoisonIsFoundOrMissed ==
  ASSUME SummaryInv, NEW alerts
  PROVE  Cardinality(TruePositives(alerts)) + Cardinality(FalseNegatives(alerts))
           = Cardinality({n \in DOMAIN replay : replay[n].poison})
<1>1. IsFiniteSet(TruePositives(alerts)) /\ IsFiniteSet(FalseNegatives(alerts))
  BY FS_Subset DEF SummaryInv, TruePositives, FalseNegatives
<1>2. /\ TruePositives(alerts) \cup FalseNegatives(alerts)
           = {n \in DOMAIN replay : replay[n].poison}
      /\ TruePositives(alerts) \cap FalseNegatives(alerts) = {}
  BY DEF TruePositives, FalseNegatives
<1> QED
  BY <1>1, <1>2, DisjointUnion

\* Where the summary is of the run's own replay, its daily metrics add up: to
\* its poisoning events, and, where no transaction has two events, to the
\* counts of the detector, for every length of a day, every delay and whatever
\* alerts there were (903-942; bench.go 568-600).
THEOREM DaysAddUp == Spec => []DailyAddsUp
<1>1. Init => Types /\ SummaryInv
  BY InitTypes, InitSummaryInv
<1>2. Types /\ SummaryInv /\ [Next]_vars => (Types /\ SummaryInv)'
  BY StepTypes, StepSummaryInv
<1>3. SummaryInv => DailyAddsUp
  <2> SUFFICES ASSUME SummaryInv, pc = "reports", summaryFile.data.replay = replay
               PROVE  DailyAddsUp
    BY DEF DailyAddsUp
  <2> DEFINE alerts == summaryFile.data.alerts
  <2>1. /\ Total("tp") = Cardinality(TruePositives(alerts))
        /\ Total("fp") = Cardinality(FalsePositives(alerts))
        /\ Total("fn") = Cardinality(FalseNegatives(alerts))
    BY Totals
  <2>2. summaryFile.data.metrics = Confusion(replay, alerts)
    BY DEF SummaryInv
  <2>3. Cardinality(Hashes(replay)) = Len(replay) =>
          summaryFile.data.metrics = [tp |-> Cardinality(TruePositives(alerts)),
                                      fp |-> Cardinality(FalsePositives(alerts)),
                                      fn |-> Cardinality(FalseNegatives(alerts))]
    BY <2>2, TotalsAreConfusion
  <2>4. Total("tp") + Total("fn") = Cardinality({n \in DOMAIN replay : replay[n].poison})
    BY <2>1, PoisonIsFoundOrMissed
  <2>5. Cardinality(Hashes(replay)) = Len(replay) =>
          \A count \in {"tp", "fp", "fn"} : Total(count) = summaryFile.data.metrics[count]
    <3> SUFFICES ASSUME Cardinality(Hashes(replay)) = Len(replay),
                        NEW count \in {"tp", "fp", "fn"}
                 PROVE  Total(count) = summaryFile.data.metrics[count]
      OBVIOUS
    <3>1. CASE count = "tp"
      BY <2>1, <2>3, <3>1
    <3>2. CASE count = "fp"
      BY <2>1, <2>3, <3>2
    <3>3. CASE count = "fn"
      BY <2>1, <2>3, <3>3
    <3> QED
      BY <3>1, <3>2, <3>3
  <2> HIDE DEF alerts
  <2> QED
    BY <2>4, <2>5, Zenon DEF DailyAddsUp, Total
<1> QED
  BY <1>1, <1>2, <1>3, PTL DEF Spec
=============================================================================
