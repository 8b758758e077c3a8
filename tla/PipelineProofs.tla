--------------------------- MODULE PipelineProofs ---------------------------
(***************************************************************************)
(* The two parts of benchmark_pipeline.py that keep what they made for the *)
(* runs that come after: the Parquet cache of the labelled dataset         *)
(* (DatasetCache), and the full-label replay with its tau sweep            *)
(* (FullLabelReplay), which reads its rows from there.                     *)
(*                                                                         *)
(* The cache.  For every dump, request, size of a batch and number of      *)
(* runs: a run that goes on with the cache goes on with exactly the rows   *)
(* it asked for, and the file in place is never a part of an answer,       *)
(* wherever the runs before it were interrupted.  Two facts carry the      *)
(* argument.  While the dump is read, the temporary file and the batch     *)
(* together hold the usable rows of the lines read so far, all of them and *)
(* in order (ReadSoFar).  And as long as the metadata is that of the cache *)
(* in place, the request it names is one the cache answers (Vouched); what *)
(* serves a larger request serves a smaller one by its first rows.         *)
(*                                                                         *)
(* The replay.  For every dataset, hash of addresses, detector, set of     *)
(* arguments, number of workers and size of a batch: detector-cli is not   *)
(* started without its replay (but for the one case the property names),   *)
(* and the confusion matrices of a report count each labelled row once per *)
(* run and delay, however often the program was interrupted, failed and    *)
(* was started again in the directory.  The argument has three parts.  A   *)
(* job of a batch that finds no summary waits for a replay that is still   *)
(* to be made or is whole (Scheduling), and one that found no replay keeps *)
(* its batch from ending (BlindFailed).  While all runs in a directory ask *)
(* for the same shards, the shards are the rows of the dataset split by    *)
(* victim, and each replay and summary there is complete or is not used    *)
(* (FaithInv): the results of another run of the program are those this    *)
(* one would make.  What has been added up is then the results of a set of *)
(* jobs, which at the end are all there are (CountInv); and a row of the   *)
(* dataset, a run_id and a delay determine the job that counts it          *)
(* (JobsCount).                                                            *)
(***************************************************************************)
EXTENDS DatasetCache, FullLabelReplay, FiniteSetTheorems, SequenceTheorems,
        WellFoundedInduction, TLAPS
-----------------------------------------------------------------------------
(* The dataset cache. *)

Files == [there : BOOLEAN, rows : Seq(Nat)]

CacheTypes ==
  /\ dump \in Dumps /\ source \in Dumps
  /\ cache \in Files /\ tmp \in Files /\ served \in Files
  /\ meta \in [max_rows : Int, rows : Nat]
  /\ stage \in {"idle", "normalize", "replace", "meta", "meta open", "read"}
  /\ request \in Nat /\ runs \in Nat
  /\ line \in Nat \ {0} /\ inCopy \in BOOLEAN /\ batch \in Seq(Nat)
  /\ unpublished \in BOOLEAN

\* The rows read, written or not.
Got == tmp.rows \o batch

\* The table was opened on a line already read, and not closed since.
OpenedBefore(d, l) ==
  \E c \in 1..(l-1) : /\ d[c] = "copy"
                      /\ \A b \in 1..(c-1) : d[b] # "copy"
                      /\ \A e \in (c+1)..(l-1) : d[e] # "end"

\* rows has what is usable of the lines before l, in order.
ReadsUpTo(rows, d, l) ==
  /\ Leading(rows, d)
  /\ \A i \in DOMAIN rows : rows[i] < l
  /\ \A u \in Usable(d) : u < l => \E i \in DOMAIN rows : rows[i] = u

ReadSoFar ==
  stage = "normalize" =>
    /\ line <= Len(dump) + 1
    /\ inCopy => OpenedBefore(dump, line)
    /\ ~inCopy => \A b \in 1..(line-1) : dump[b] # "copy"
    /\ ReadsUpTo(Got, dump, line)
    /\ request # 0 => Len(Got) <= request
    /\ tmp.rows # <<>> => tmp.there

\* What is moved into place is an answer to the request, and so is what is in
\* place while its metadata is missing.
Published ==
  /\ stage = "replace" => tmp.there /\ Answers(tmp.rows, request, dump)
  /\ stage \in {"meta", "meta open"} =>
       cache.there /\ unpublished /\ Answers(cache.rows, request, source)

\* The metadata names a request that was made, and that the cache answers.
Vouched ==
  cache.there /\ ~unpublished =>
    meta.max_rows \in Requests /\ Answers(cache.rows, meta.max_rows, source)

\* A run that reads the cache asks for no more than that request did.
ReadsCovered ==
  stage = "read" /\ ~unpublished =>
    /\ cache.there
    /\ \/ meta.max_rows = 0
       \/ meta.max_rows = request
       \/ request > 0 /\ meta.max_rows >= request

Served == stage # "idle" => ~served.there /\ request \in Requests

CacheInv ==
  /\ CacheTypes /\ ReadSoFar /\ Published /\ Vouched /\ ReadsCovered /\ Served
  /\ CoveredIsServed /\ CacheIsWhole
-----------------------------------------------------------------------------
(* The usable rows of a dump.                                              *)

\* An open table is closed by its first end, so nothing after it is usable.
LEMMA NothingAfterTheEnd ==
  ASSUME NEW d \in Seq(LineKinds), NEW l \in DOMAIN d,
         OpenedBefore(d, l), d[l] = "end"
  PROVE  \A u \in Usable(d) : u < l
<1>1. PICK c \in 1..(l-1) : /\ d[c] = "copy"
                            /\ \A b \in 1..(c-1) : d[b] # "copy"
                            /\ \A e \in (c+1)..(l-1) : d[e] # "end"
  BY DEF OpenedBefore
<1>2. SUFFICES ASSUME NEW u \in Usable(d), ~(u < l) PROVE FALSE
  OBVIOUS
<1>3. /\ u \in DOMAIN d /\ d[u] = "row"
      /\ \E k \in 1..(u-1) : /\ d[k] = "copy"
                             /\ \A b \in 1..(k-1) : d[b] # "copy"
                             /\ \A e \in (k+1)..(u-1) : d[e] # "end"
  BY DEF Usable
<1>4. PICK k \in 1..(u-1) : /\ d[k] = "copy"
                            /\ \A b \in 1..(k-1) : d[b] # "copy"
                            /\ \A e \in (k+1)..(u-1) : d[e] # "end"
  BY <1>3
<1>5. DOMAIN d = 1..Len(d) /\ Len(d) \in Nat /\ u \in Nat /\ l \in Nat
  BY <1>3
<1>6. k = c
  BY <1>1, <1>4, <1>5
<1>7. u # l
  BY <1>3
<1>8. l \in (k+1)..(u-1)
  BY <1>2, <1>5, <1>6, <1>7
<1> QED
  BY <1>4, <1>8

\* A row is usable exactly when its line is reached with the table open.
LEMMA UsableLine ==
  ASSUME NEW d \in Seq(LineKinds), NEW l \in DOMAIN d, NEW open \in BOOLEAN,
         open => OpenedBefore(d, l),
         ~open => \A b \in 1..(l-1) : d[b] # "copy"
  PROVE  l \in Usable(d) <=> open /\ d[l] = "row"
  BY DEF Usable, OpenedBefore

\* What is open before a line that does not close the table is open after it.
LEMMA OpenedNext ==
  ASSUME NEW d \in Seq(LineKinds), NEW l \in DOMAIN d, NEW open \in BOOLEAN,
         open => OpenedBefore(d, l),
         ~open => \A b \in 1..(l-1) : d[b] # "copy",
         ~(open /\ d[l] = "end")
  PROVE  /\ (open \/ d[l] = "copy") => OpenedBefore(d, l + 1)
         /\ ~(open \/ d[l] = "copy") => \A b \in 1..((l+1)-1) : d[b] # "copy"
<1>0. l \in Nat /\ l >= 1 /\ (l+1)-1 = l
  OBVIOUS
<1>1. CASE open
  <2>1. PICK c \in 1..(l-1) : /\ d[c] = "copy"
                              /\ \A b \in 1..(c-1) : d[b] # "copy"
                              /\ \A e \in (c+1)..(l-1) : d[e] # "end"
    BY <1>1 DEF OpenedBefore
  <2>2. \A e \in (c+1)..l : d[e] # "end"
    BY <1>0, <1>1, <2>1
  <2> QED
    BY <1>0, <1>1, <2>1, <2>2 DEF OpenedBefore
<1>2. CASE ~open /\ d[l] = "copy"
  <2>1. l \in 1..((l+1)-1) /\ \A e \in (l+1)..((l+1)-1) : d[e] # "end"
    BY <1>0
  <2> QED
    BY <1>2, <2>1 DEF OpenedBefore
<1>3. CASE ~open /\ d[l] # "copy"
  BY <1>0, <1>3
<1> QED
  BY <1>1, <1>2, <1>3

-----------------------------------------------------------------------------
(* Leading rows.                                                           *)

\* A row joins the end of a batch as it joins the end of all that was read.
LEMMA AppendLast ==
  ASSUME NEW a \in Seq(Nat), NEW b \in Seq(Nat), NEW x \in Nat
  PROVE  a \o Append(b, x) = Append(a \o b, x)
<1>1. <<x>> \in Seq(Nat) /\ a \o b \in Seq(Nat)
  BY ConcatProperties
<1>2. Append(b, x) = b \o <<x>> /\ Append(a \o b, x) = (a \o b) \o <<x>>
  BY <1>1, AppendIsConcat
<1>3. (a \o b) \o <<x>> = a \o (b \o <<x>>)
  BY <1>1, ConcatAssociative
<1> QED
  BY <1>2, <1>3

\* The next usable row keeps the rows leading.
LEMMA AppendReads ==
  ASSUME NEW d, NEW rows \in Seq(Nat), NEW l \in Nat, Usable(d) \subseteq Nat,
         ReadsUpTo(rows, d, l), l \in Usable(d)
  PROVE  ReadsUpTo(Append(rows, l), d, l + 1)
<1> DEFINE more == Append(rows, l)
<1>1. /\ more \in Seq(Nat) /\ Len(more) = Len(rows) + 1 /\ Len(rows) \in Nat
      /\ DOMAIN more = 1..(Len(rows) + 1) /\ DOMAIN rows = 1..Len(rows)
      /\ \A i \in DOMAIN rows : more[i] = rows[i] /\ rows[i] \in Nat
      /\ more[Len(rows) + 1] = l
  OBVIOUS
<1> HIDE DEF more
<1>2. ASSUME NEW i \in DOMAIN more
      PROVE  more[i] \in Usable(d) /\ more[i] \in Nat /\ more[i] < l + 1
  <2>1. CASE i \in DOMAIN rows
    <3>1. more[i] = rows[i] /\ rows[i] \in Nat /\ rows[i] \in Usable(d) /\ rows[i] < l
      BY <1>1, <2>1 DEF ReadsUpTo, Leading
    <3> QED
      BY <3>1
  <2>2. CASE i = Len(rows) + 1
    BY <1>1, <2>2
  <2> QED
    BY <1>1, <1>2, <2>1, <2>2
<1>3. ASSUME NEW i \in DOMAIN more, NEW j \in DOMAIN more, i < j
      PROVE  more[i] < more[j]
  <2>1. i \in DOMAIN rows /\ more[i] = rows[i]
    BY <1>1, <1>3
  <2>2. CASE j \in DOMAIN rows
    BY <1>1, <1>3, <2>1, <2>2 DEF ReadsUpTo, Leading
  <2>3. CASE j = Len(rows) + 1
    BY <1>1, <2>1, <2>3 DEF ReadsUpTo
  <2> QED
    BY <1>1, <2>2, <2>3
<1>4. \A u \in Usable(d) : u < l + 1 => \E i \in DOMAIN more : more[i] = u
  <2>1. SUFFICES ASSUME NEW u \in Usable(d), u < l + 1
                 PROVE  \E i \in DOMAIN more : more[i] = u
    OBVIOUS
  <2>2. CASE u = l
    BY <1>1, <2>2
  <2>3. CASE u < l
    <3>1. PICK i \in DOMAIN rows : rows[i] = u
      BY <2>3 DEF ReadsUpTo
    <3>2. i \in DOMAIN more /\ more[i] = u
      BY <1>1, <3>1
    <3> QED
      BY <3>2
  <2> QED
    BY <2>1, <2>2, <2>3
<1>5. \A i \in DOMAIN more, u \in Usable(d) :
        u < more[i] => \E j \in DOMAIN more : more[j] = u
  BY <1>2, <1>4, <1>1
<1>6. ReadsUpTo(more, d, l + 1)
  BY <1>2, <1>3, <1>4, <1>5 DEF ReadsUpTo, Leading
<1> QED
  BY <1>6 DEF more

\* A line that is not usable changes nothing.
LEMMA SkipReads ==
  ASSUME NEW d, NEW rows \in Seq(Nat), NEW l \in Nat, Usable(d) \subseteq Nat,
         ReadsUpTo(rows, d, l), l \notin Usable(d)
  PROVE  ReadsUpTo(rows, d, l + 1)
<1>1. \A i \in DOMAIN rows : rows[i] \in Nat /\ rows[i] < l + 1
  BY DEF ReadsUpTo
<1>2. \A u \in Usable(d) : u < l + 1 => u < l
  OBVIOUS
<1> QED
  BY <1>1, <1>2 DEF ReadsUpTo

\* The first rows of leading rows are leading.
LEMMA FirstRows ==
  ASSUME NEW d, NEW rows \in Seq(Nat), Leading(rows, d),
         NEW n \in Nat, n <= Len(rows)
  PROVE  /\ SubSeq(rows, 1, n) \in Seq(Nat) /\ Len(SubSeq(rows, 1, n)) = n
         /\ Leading(SubSeq(rows, 1, n), d)
<1> DEFINE first == SubSeq(rows, 1, n)
<1>1. DOMAIN rows = 1..Len(rows) /\ Len(rows) \in Nat
      /\ \A i \in 1..n : i \in DOMAIN rows /\ rows[i] \in Nat
  OBVIOUS
<1>2. first \in Seq(Nat) /\ Len(first) = n /\ \A i \in 1..n : first[i] = rows[i]
  <2>1. /\ first \in Seq(Nat) /\ Len(first) = IF 1 <= n THEN n - 1 + 1 ELSE 0
        /\ \A i \in 1..(n - 1 + 1) : first[i] = rows[1 + i - 1]
    BY <1>1, SubSeqProperties
  <2> QED
    BY <2>1
<1>3. DOMAIN first = 1..n
  BY <1>2
<1> HIDE DEF first
<1>4. /\ \A i \in DOMAIN first : first[i] \in Usable(d)
      /\ \A i, j \in DOMAIN first : i < j => first[i] < first[j]
  BY <1>1, <1>2, <1>3 DEF Leading
<1>5. ASSUME NEW i \in DOMAIN first, NEW u \in Usable(d), u < first[i]
      PROVE  \E j \in DOMAIN first : first[j] = u
  <2>1. i \in DOMAIN rows /\ first[i] = rows[i] /\ u < rows[i]
    BY <1>1, <1>2, <1>3, <1>5
  <2>2. PICK j \in DOMAIN rows : rows[j] = u
    BY <2>1 DEF Leading
  <2>3. j < i
    <3>1. CASE j = i
      BY <1>1, <2>1, <2>2, <3>1
    <3>2. CASE i < j
      BY <1>1, <2>1, <2>2, <3>2 DEF Leading
    <3> QED
      BY <1>1, <2>1, <2>2, <3>1, <3>2
  <2>4. j \in DOMAIN first /\ first[j] = u
    BY <1>1, <1>2, <1>3, <2>1, <2>2, <2>3
  <2> QED
    BY <2>4
<1>6. Leading(first, d)
  BY <1>4, <1>5 DEF Leading
<1> QED
  BY <1>2, <1>6 DEF first

\* When the loop is left, what was read answers the request.
LEMMA ReadingAnswers ==
  ASSUME NEW d \in Seq(LineKinds), NEW l \in Nat \ {0}, NEW rows \in Seq(Nat),
         NEW r \in Nat, NEW open \in BOOLEAN,
         ReadsUpTo(rows, d, l), l <= Len(d) + 1, open => OpenedBefore(d, l),
         r # 0 => Len(rows) <= r,
         \/ r # 0 /\ Len(rows) >= r
         \/ l \notin DOMAIN d
         \/ l \in DOMAIN d /\ open /\ d[l] = "end"
  PROVE  Answers(rows, r, d)
<1>1. Leading(rows, d) /\ Len(rows) \in Nat
  BY DEF ReadsUpTo
<1>2. CASE r # 0 /\ Len(rows) >= r
  BY <1>1, <1>2 DEF Answers
<1>3. CASE l \notin DOMAIN d \/ (l \in DOMAIN d /\ open /\ d[l] = "end")
  <2>1. \A u \in Usable(d) : u < l
    <3>1. CASE l \notin DOMAIN d
      <4>1. l = Len(d) + 1 /\ \A u \in Usable(d) : u \in 1..Len(d)
        BY <3>1 DEF Usable
      <4> QED
        BY <4>1
    <3>2. CASE l \in DOMAIN d /\ open /\ d[l] = "end"
      BY <3>2, NothingAfterTheEnd
    <3> QED
      BY <1>3, <3>1, <3>2
  <2>2. All(rows, d)
    BY <2>1 DEF ReadsUpTo, All
  <2> QED
    BY <1>1, <2>2 DEF Answers
<1> QED
  BY <1>2, <1>3

\* A cache that answers one request answers, by its first rows, each request
\* for no more.
LEMMA CoveredAnswer ==
  ASSUME NEW d, NEW rows \in Seq(Nat), NEW m \in Nat, NEW r \in Nat,
         Answers(rows, m, d), m = 0 \/ m = r \/ (r > 0 /\ m >= r)
  PROVE  /\ r > 0 /\ Len(rows) > r =>
              SubSeq(rows, 1, r) \in Seq(Nat) /\ Answers(SubSeq(rows, 1, r), r, d)
         /\ ~(r > 0 /\ Len(rows) > r) => Answers(rows, r, d)
<1>1. Len(rows) \in Nat /\ Leading(rows, d)
  BY DEF Answers
<1>2. ASSUME r > 0, Len(rows) > r
      PROVE  SubSeq(rows, 1, r) \in Seq(Nat) /\ Answers(SubSeq(rows, 1, r), r, d)
  <2>1. /\ SubSeq(rows, 1, r) \in Seq(Nat) /\ Len(SubSeq(rows, 1, r)) = r
        /\ Leading(SubSeq(rows, 1, r), d)
    BY <1>1, <1>2, FirstRows
  <2> QED
    BY <1>2, <2>1 DEF Answers
<1>3. ASSUME ~(r > 0 /\ Len(rows) > r) PROVE Answers(rows, r, d)
  BY <1>1, <1>3 DEF Answers
<1> QED
  BY <1>2, <1>3
-----------------------------------------------------------------------------
(* The types of what a step assigns.                                       *)

LEMMA NoFileTypes ==
  /\ NoFile \in Files /\ NoFile.rows = <<>> /\ ~NoFile.there
  /\ <<>> \in Seq(Nat) /\ Len(<<>>) = 0 /\ DOMAIN <<>> = {}
<1>1. <<>> \in Seq(Nat) /\ Len(<<>>) = 0 /\ DOMAIN <<>> = {}
  OBVIOUS
<1> QED
  BY <1>1 DEF NoFile, Files

LEMMA FileTypes ==
  ASSUME NEW rows \in Seq(Nat)
  PROVE  File(rows) \in Files /\ File(rows).rows = rows /\ File(rows).there
BY DEF File, Files

LEMMA MetaTypes ==
  ASSUME NEW r \in Nat, NEW n \in Nat
  PROVE  [max_rows |-> r, rows |-> n] \in [max_rows : Int, rows : Nat]
OBVIOUS

LEMMA NoMetaTypes == NoMeta \in [max_rows : Int, rows : Nat]
BY DEF NoMeta

LEMMA VariableTypes ==
  ASSUME CacheTypes
  PROVE  /\ dump \in Seq(LineKinds) /\ Len(dump) \in Nat /\ line \in Nat \ {0}
         /\ request \in Nat /\ inCopy \in BOOLEAN
         /\ tmp.rows \in Seq(Nat) /\ Len(tmp.rows) \in Nat
         /\ cache.rows \in Seq(Nat) /\ Len(cache.rows) \in Nat
         /\ batch \in Seq(Nat) /\ Len(batch) \in Nat
         /\ Requests \subseteq Nat
<1>1. /\ dump \in Seq(LineKinds) /\ line \in Nat \ {0} /\ request \in Nat
      /\ inCopy \in BOOLEAN /\ batch \in Seq(Nat) /\ tmp \in Files /\ cache \in Files
      /\ Requests \subseteq Nat
  BY CacheAssumption DEF CacheTypes
<1>2. tmp.rows \in Seq(Nat) /\ cache.rows \in Seq(Nat)
  BY <1>1 DEF Files
<1> QED
  BY <1>1, <1>2, LenProperties
-----------------------------------------------------------------------------
(* The invariant.                                                          *)

LEMMA InitCacheInv == CacheInit => CacheInv
<1> SUFFICES ASSUME CacheInit PROVE CacheInv
  OBVIOUS
<1> USE CacheAssumption
<1>1. CacheTypes
  <2>1. inCopy \in BOOLEAN /\ unpublished \in BOOLEAN
    BY DEF CacheInit
  <2>2. cache \in Files /\ tmp \in Files /\ served \in Files /\ batch \in Seq(Nat)
    BY NoFileTypes DEF CacheInit
  <2>3. /\ meta \in [max_rows : Int, rows : Nat] /\ dump \in Dumps /\ source \in Dumps
        /\ request \in Nat /\ runs \in Nat /\ line \in Nat \ {0} /\ stage = "idle"
    BY NoMetaTypes DEF CacheInit
  <2> QED
    BY <2>1, <2>2, <2>3 DEF CacheTypes
<1>2. ReadSoFar /\ Published /\ Vouched /\ ReadsCovered /\ Served
  BY DEF CacheInit, ReadSoFar, Published, Vouched, ReadsCovered, Served, NoFile
<1>3. CoveredIsServed /\ CacheIsWhole
  BY DEF CacheInit, CoveredIsServed, CacheIsWhole, NoFile
<1> QED
  BY <1>1, <1>2, <1>3 DEF CacheInv

\* Starting: the rows of an earlier run are gone, and a run that does not read
\* the dump asks for no more than the cache was made for.
LEMMA StartRunStep ==
  ASSUME CacheInv, NEW maxRows \in Requests, NEW refresh \in BOOLEAN, StartRun(maxRows, refresh)
  PROVE  CacheInv'
<1> USE CacheAssumption
<1>1. maxRows \in Nat /\ dump \in Seq(LineKinds) /\ Len(dump) \in Nat
  BY VariableTypes DEF CacheInv
<1>2. CacheTypes'
  <2>1. /\ tmp' = tmp \/ tmp' = NoFile
        /\ served' = NoFile /\ stage' \in {"normalize", "read"}
        /\ line' = line \/ line' = 1
        /\ batch' = batch \/ batch' = <<>>
        /\ request' = maxRows /\ runs' = runs + 1
        /\ UNCHANGED <<dump, source, cache, meta, unpublished>>
    BY DEF StartRun, reading, history
  <2>2. inCopy' \in BOOLEAN
    BY DEF StartRun, reading, CacheInv, CacheTypes
  <2>3. batch' \in Seq(Nat) /\ tmp' \in Files /\ served' \in Files
    BY <2>1, NoFileTypes DEF CacheInv, CacheTypes
  <2>4. line \in Nat \ {0} /\ runs \in Nat
    BY DEF CacheInv, CacheTypes
  <2>5. line' \in Nat \ {0}
    BY <2>1, <2>4
  <2>6. request' \in Nat /\ runs' \in Nat
    BY <1>1, <2>1, <2>4
  <2> QED
    BY <2>1, <2>2, <2>3, <2>5, <2>6 DEF CacheInv, CacheTypes
<1>3. CASE refresh \/ ~Covers(maxRows)
  <2>1. /\ stage' = "normalize" /\ tmp' = NoFile /\ line' = 1 /\ ~inCopy' /\ batch' = <<>>
        /\ dump' = dump /\ cache' = cache /\ meta' = meta /\ source' = source
        /\ unpublished' = unpublished /\ request' = maxRows /\ served' = NoFile
    BY <1>3 DEF StartRun, history
  <2>2. Got' = <<>>
    BY <2>1 DEF Got, NoFile
  <2>3. ReadsUpTo(<<>>, dump, 1)
    <3>1. \A u \in Usable(dump) : ~(u < 1)
      BY <1>1 DEF Usable
    <3> QED
      BY <3>1, NoFileTypes DEF ReadsUpTo, Leading
  <2>4. ReadSoFar'
    <3>1. line' <= Len(dump') + 1 /\ \A b \in 1..(line'-1) : dump'[b] # "copy"
      BY <1>1, <2>1
    <3>2. ReadsUpTo(Got', dump', line')
      BY <2>1, <2>2, <2>3
    <3>3. Len(Got') = 0 /\ tmp'.rows = <<>> /\ request' \in Nat
      BY <1>1, <2>1, <2>2, NoFileTypes
    <3> QED
      BY <2>1, <3>1, <3>2, <3>3 DEF ReadSoFar
  <2>5. Published' /\ Vouched' /\ ReadsCovered' /\ Served'
    BY <2>1 DEF CacheInv, Published, Vouched, ReadsCovered, Served, NoFile
  <2>6. CoveredIsServed' /\ CacheIsWhole'
    BY <2>1 DEF CacheInv, CoveredIsServed, CacheIsWhole, NoFile
  <2> QED
    BY <1>2, <2>4, <2>5, <2>6 DEF CacheInv
<1>4. CASE ~refresh /\ Covers(maxRows)
  <2>1. /\ stage' = "read" /\ UNCHANGED <<tmp, line, inCopy, batch>>
        /\ dump' = dump /\ cache' = cache /\ meta' = meta /\ source' = source
        /\ unpublished' = unpublished /\ request' = maxRows /\ served' = NoFile
    BY <1>4 DEF StartRun, reading, history
  <2>2. ReadsCovered'
    <3>1. SUFFICES ASSUME ~unpublished
                   PROVE  /\ cache.there
                          /\ \/ meta.max_rows = 0
                             \/ meta.max_rows = maxRows
                             \/ maxRows > 0 /\ meta.max_rows >= maxRows
      BY <2>1 DEF ReadsCovered
    <3>2. cache.there /\ meta.max_rows \in Nat
      BY <1>4, <3>1 DEF Covers, CacheInv, Vouched
    <3> QED
      BY <1>1, <1>4, <3>2 DEF Covers
  <2>3. ReadSoFar' /\ Published' /\ Vouched' /\ Served'
    BY <2>1 DEF CacheInv, ReadSoFar, Published, Vouched, Served, NoFile
  <2>4. CoveredIsServed' /\ CacheIsWhole'
    BY <2>1 DEF CacheInv, CoveredIsServed, CacheIsWhole, NoFile
  <2> QED
    BY <1>2, <2>2, <2>3, <2>4 DEF CacheInv
<1> QED
  BY <1>3, <1>4

\* Reading a line: the row joins the others whether or not its batch is
\* written.
LEMMA ReadLineStep ==
  ASSUME CacheInv, ReadLine
  PROVE  CacheInv'
<1> USE CacheAssumption
<1>1. /\ stage = "normalize" /\ stage' = stage /\ ~DumpEnds /\ line' = line + 1
      /\ inCopy' = (inCopy \/ dump[line] = "copy")
      /\ dump' = dump /\ cache' = cache /\ meta' = meta /\ source' = source
      /\ unpublished' = unpublished /\ request' = request /\ served' = served
      /\ runs' = runs
  BY DEF ReadLine, history
<1>2. /\ dump \in Seq(LineKinds) /\ line \in Nat \ {0} /\ inCopy \in BOOLEAN
      /\ request \in Nat /\ tmp \in Files /\ tmp.rows \in Seq(Nat) /\ batch \in Seq(Nat)
      /\ Len(batch) \in Nat /\ Len(tmp.rows) \in Nat /\ Len(dump) \in Nat
  BY VariableTypes DEF CacheInv, CacheTypes
<1>3. /\ line <= Len(dump) + 1
      /\ inCopy => OpenedBefore(dump, line)
      /\ ~inCopy => \A b \in 1..(line-1) : dump[b] # "copy"
      /\ ReadsUpTo(Got, dump, line)
      /\ request # 0 => Len(Got) <= request
      /\ tmp.rows # <<>> => tmp.there
  BY <1>1 DEF CacheInv, ReadSoFar
<1>4. line \in DOMAIN dump /\ ~(inCopy /\ dump[line] = "end") /\ ~EnoughRows
  BY <1>1, <1>2, <1>3 DEF DumpEnds
<1>5. Got \in Seq(Nat) /\ Len(Got) = Len(tmp.rows) + Len(batch)
  BY <1>2, ConcatProperties DEF Got
<1>6. Usable(dump) \subseteq Nat
  BY <1>2 DEF Usable
<1>7. /\ inCopy' => OpenedBefore(dump, line + 1)
      /\ ~inCopy' => \A b \in 1..((line+1)-1) : dump[b] # "copy"
  BY <1>1, <1>2, <1>3, <1>4, OpenedNext
<1>8. line \in Usable(dump) <=> inCopy /\ dump[line] = "row"
  BY <1>2, <1>3, <1>4, UsableLine
<1>9. /\ tmp' \in Files /\ batch' \in Seq(Nat)
      /\ ReadsUpTo(Got', dump, line + 1)
      /\ request # 0 => Len(Got') <= request
      /\ tmp'.rows # <<>> => tmp'.there
  <2>1. CASE inCopy /\ dump[line] = "row"
    <3>1. /\ Append(batch, line) \in Seq(Nat)
          /\ Append(Got, line) \in Seq(Nat) /\ Len(Append(Got, line)) = Len(Got) + 1
      BY <1>2, <1>5, AppendProperties
    <3>2. tmp.rows \o Append(batch, line) = Append(Got, line)
      BY <1>2, AppendLast DEF Got
    <3>3. /\ Got' = Append(Got, line) /\ tmp' \in Files /\ batch' \in Seq(Nat)
          /\ tmp'.rows # <<>> => tmp'.there
      <4>1. TakeRow
        BY <2>1 DEF ReadLine
      <4>2. CASE Len(batch) + 1 >= BatchSize
        <5>1. tmp' = File(Append(Got, line)) /\ batch' = <<>>
          BY <3>2, <4>1, <4>2 DEF TakeRow, WriteBatch
        <5>2. tmp'.rows = Append(Got, line) /\ tmp'.there /\ tmp' \in Files
          BY <3>1, <5>1, FileTypes
        <5>3. Append(Got, line) \o <<>> = Append(Got, line)
          BY <3>1, ConcatEmptySeq
        <5> QED
          BY <5>1, <5>2, <5>3, EmptySeq DEF Got
      <4>3. CASE ~(Len(batch) + 1 >= BatchSize)
        BY <1>2, <1>3, <3>1, <3>2, <4>1, <4>3 DEF TakeRow, Got
      <4> QED
        BY <4>2, <4>3
    <3>4. ReadsUpTo(Append(Got, line), dump, line + 1)
      BY <1>2, <1>3, <1>5, <1>6, <1>8, <2>1, AppendReads
    <3>5. request # 0 => Len(Got) < request
      BY <1>2, <1>4, <1>5 DEF EnoughRows, Yielded
    <3> QED
      BY <1>2, <1>5, <3>1, <3>3, <3>4, <3>5
  <2>2. CASE ~(inCopy /\ dump[line] = "row")
    <3>1. batch' = batch /\ tmp' = tmp
      BY <2>2 DEF ReadLine
    <3>2. Got' = Got
      BY <3>1 DEF Got
    <3>3. ReadsUpTo(Got, dump, line + 1)
      BY <1>2, <1>3, <1>5, <1>6, <1>8, <2>2, SkipReads
    <3> QED
      BY <1>2, <1>3, <3>1, <3>2, <3>3
  <2> QED
    BY <2>1, <2>2
<1>10. CacheTypes'
  BY <1>1, <1>2, <1>9 DEF CacheInv, CacheTypes
<1>11. line' <= Len(dump') + 1
  BY <1>1, <1>2, <1>4
<1>12. ReadSoFar'
  BY <1>1, <1>7, <1>9, <1>11 DEF ReadSoFar
<1>13. Published' /\ Vouched' /\ ReadsCovered' /\ Served'
  BY <1>1 DEF CacheInv, Published, Vouched, ReadsCovered, Served
<1>14. CoveredIsServed' /\ CacheIsWhole'
  BY <1>1 DEF CacheInv, CoveredIsServed, CacheIsWhole
<1> QED
  BY <1>10, <1>12, <1>13, <1>14 DEF CacheInv

\* The last batch completes an answer, or the run fails.
LEMMA LastBatchStep ==
  ASSUME CacheInv, LastBatch
  PROVE  CacheInv'
<1> USE CacheAssumption
<1>1. /\ stage = "normalize" /\ stage' \in {"idle", "replace"} /\ DumpEnds /\ batch' = <<>>
      /\ dump' = dump /\ cache' = cache /\ meta' = meta /\ source' = source
      /\ unpublished' = unpublished /\ request' = request /\ served' = served
      /\ runs' = runs /\ line' = line /\ inCopy' = inCopy
  BY DEF LastBatch, history
<1>2. /\ dump \in Seq(LineKinds) /\ line \in Nat \ {0} /\ inCopy \in BOOLEAN
      /\ request \in Nat /\ tmp \in Files /\ tmp.rows \in Seq(Nat) /\ batch \in Seq(Nat)
  BY VariableTypes DEF CacheInv, CacheTypes
<1>3. Got \in Seq(Nat) /\ Len(Got) = Len(tmp.rows) + Len(batch)
  BY <1>2, ConcatProperties DEF Got
<1>4. tmp' \in Files /\ tmp'.rows = Got
  <2>1. CASE batch = <<>>
    BY <1>2, <2>1, ConcatEmptySeq DEF LastBatch, Got
  <2>2. CASE batch # <<>>
    BY <1>3, <2>2, FileTypes DEF LastBatch, WriteBatch, Got
  <2> QED
    BY <2>1, <2>2
<1>5. stage' = "replace" => tmp'.there
  <2>1. CASE batch = <<>>
    <3>1. tmp' = tmp /\ Len(batch) = 0 /\ (tmp.rows # <<>> => tmp.there)
      BY <1>1, <2>1 DEF LastBatch, CacheInv, ReadSoFar
    <3>2. stage' = "replace" => Len(tmp.rows) # 0
      BY <1>2, <3>1 DEF LastBatch, Yielded
    <3> QED
      BY <1>2, <3>1, <3>2, EmptySeq
  <2>2. CASE batch # <<>>
    BY <1>3, <2>2, FileTypes DEF LastBatch, WriteBatch, Got
  <2> QED
    BY <2>1, <2>2
<1>6. Answers(Got, request, dump)
  <2>1. /\ line <= Len(dump) + 1
        /\ inCopy => OpenedBefore(dump, line)
        /\ ReadsUpTo(Got, dump, line)
        /\ request # 0 => Len(Got) <= request
    BY <1>1 DEF CacheInv, ReadSoFar
  <2>2. \/ request # 0 /\ Len(Got) >= request
        \/ line \notin DOMAIN dump
        \/ line \in DOMAIN dump /\ inCopy /\ dump[line] = "end"
    BY <1>1, <1>3 DEF DumpEnds, EnoughRows, Yielded
  <2> QED
    BY <1>2, <1>3, <2>1, <2>2, ReadingAnswers
<1>7. CacheTypes'
  BY <1>1, <1>4, EmptySeq DEF CacheInv, CacheTypes
<1>8. ReadSoFar' /\ Published' /\ Vouched' /\ ReadsCovered' /\ Served'
  BY <1>1, <1>4, <1>6, <1>5 DEF CacheInv, ReadSoFar, Published, Vouched, ReadsCovered, Served
<1>9. CoveredIsServed' /\ CacheIsWhole'
  BY <1>1 DEF CacheInv, CoveredIsServed, CacheIsWhole
<1> QED
  BY <1>7, <1>8, <1>9 DEF CacheInv

\* Publishing: the cache is replaced, and vouched for once its metadata is
\* complete.
LEMMA PublishStep ==
  ASSUME CacheInv, Replace \/ OpenMeta \/ WriteMeta
  PROVE  CacheInv'
<1> USE CacheAssumption
<1>1. request \in Requests /\ ~served.there
  BY DEF CacheInv, Served, Replace, OpenMeta, WriteMeta
<1>2. CASE Replace
  <2>1. /\ stage = "replace" /\ stage' = "meta" /\ cache' = tmp /\ tmp' = NoFile
        /\ source' = dump /\ unpublished' = TRUE /\ dump' = dump /\ meta' = meta
        /\ request' = request /\ served' = served /\ runs' = runs
        /\ UNCHANGED <<line, inCopy, batch>>
    BY <1>2 DEF Replace, reading
  <2>2. CacheTypes'
    BY <2>1, NoFileTypes DEF CacheInv, CacheTypes
  <2>3. tmp.there /\ Answers(tmp.rows, request, dump)
    BY <2>1 DEF CacheInv, Published
  <2>4. ReadSoFar' /\ Published' /\ Vouched' /\ ReadsCovered' /\ Served'
    BY <1>1, <2>1, <2>3 DEF ReadSoFar, Published, Vouched, ReadsCovered, Served
  <2>5. CoveredIsServed' /\ CacheIsWhole'
    BY <1>1, <2>1, <2>3 DEF CoveredIsServed, CacheIsWhole
  <2> QED
    BY <2>2, <2>4, <2>5 DEF CacheInv
<1>3. CASE OpenMeta
  <2>1. /\ stage = "meta" /\ stage' = "meta open" /\ meta' = NoMeta
        /\ dump' = dump /\ cache' = cache /\ tmp' = tmp /\ source' = source
        /\ unpublished' = unpublished /\ request' = request /\ served' = served
        /\ runs' = runs /\ UNCHANGED <<line, inCopy, batch>>
    BY <1>3 DEF OpenMeta, reading, history
  <2>2. CacheTypes'
    BY <2>1, NoMetaTypes DEF CacheInv, CacheTypes
  <2>3. cache.there /\ unpublished /\ Answers(cache.rows, request, source)
    BY <2>1 DEF CacheInv, Published
  <2>4. ReadSoFar' /\ Published' /\ Vouched' /\ ReadsCovered' /\ Served'
    BY <1>1, <2>1, <2>3 DEF ReadSoFar, Published, Vouched, ReadsCovered, Served
  <2>5. CoveredIsServed' /\ CacheIsWhole'
    BY <2>1 DEF CacheInv, CoveredIsServed, CacheIsWhole
  <2> QED
    BY <2>2, <2>4, <2>5 DEF CacheInv
<1>4. CASE WriteMeta
  <2>1. /\ stage = "meta open" /\ stage' = "read" /\ unpublished' = FALSE
        /\ meta' = [max_rows |-> request, rows |-> Len(cache.rows)]
        /\ dump' = dump /\ cache' = cache /\ tmp' = tmp /\ source' = source
        /\ request' = request /\ served' = served /\ runs' = runs
        /\ UNCHANGED <<line, inCopy, batch>>
    BY <1>4 DEF WriteMeta, reading
  <2>2. CacheTypes'
    <3>1. Len(cache.rows) \in Nat /\ request \in Nat
      BY VariableTypes DEF CacheInv
    <3> QED
      BY <2>1, <3>1, MetaTypes DEF CacheInv, CacheTypes
  <2>3. cache.there /\ Answers(cache.rows, request, source)
    BY <2>1 DEF CacheInv, Published
  <2>4. meta'.max_rows = request
    BY <2>1
  <2>5. ReadSoFar' /\ Published' /\ Vouched' /\ Served'
    BY <1>1, <2>1, <2>3, <2>4 DEF ReadSoFar, Published, Vouched, Served
  <2>6. ReadsCovered'
    BY <2>1, <2>3, <2>4 DEF ReadsCovered
  <2>7. CoveredIsServed' /\ CacheIsWhole'
    BY <1>1, <2>1 DEF CacheInv, CoveredIsServed, CacheIsWhole
  <2> QED
    BY <2>2, <2>5, <2>6, <2>7 DEF CacheInv
<1> QED
  BY <1>2, <1>3, <1>4

\* Reading the cache: it answers the request the metadata names, and so the
\* smaller one that is read.
LEMMA ReadStep ==
  ASSUME CacheInv, Read
  PROVE  CacheInv'
<1> USE CacheAssumption
<1>1. /\ stage = "read" /\ stage' = "idle"
      /\ dump' = dump /\ cache' = cache /\ tmp' = tmp /\ meta' = meta /\ source' = source
      /\ unpublished' = unpublished /\ request' = request /\ runs' = runs
      /\ UNCHANGED <<line, inCopy, batch>>
  BY DEF Read, cacheFiles, reading, history
<1>2. /\ request \in Nat /\ cache.rows \in Seq(Nat) /\ Len(cache.rows) \in Nat
      /\ Requests \subseteq Nat /\ cache \in Files
  BY VariableTypes DEF CacheInv, CacheTypes
<1>3. served' \in Files
  <2>1. CASE request > 0 /\ Len(cache.rows) > request
    <3>1. SubSeq(cache.rows, 1, request) \in Seq(Nat)
      BY <1>2, <2>1, SubSeqProperties
    <3> QED
      BY <2>1, <3>1, FileTypes DEF Read
  <2>2. CASE ~(request > 0 /\ Len(cache.rows) > request)
    BY <1>2, <2>2 DEF Read
  <2> QED
    BY <2>1, <2>2
<1>4. CacheTypes'
  BY <1>1, <1>3 DEF CacheInv, CacheTypes
<1>5. ReadSoFar' /\ Published' /\ Vouched' /\ ReadsCovered' /\ Served'
  BY <1>1 DEF CacheInv, ReadSoFar, Published, Vouched, ReadsCovered, Served
<1>6. CoveredIsServed'
  <2>1. SUFFICES ASSUME ~unpublished PROVE Answers(served'.rows, request, source)
    BY <1>1 DEF CoveredIsServed
  <2>2. /\ meta.max_rows \in Nat /\ Answers(cache.rows, meta.max_rows, source)
        /\ \/ meta.max_rows = 0
           \/ meta.max_rows = request
           \/ request > 0 /\ meta.max_rows >= request
    BY <1>1, <1>2, <2>1 DEF CacheInv, ReadsCovered, Vouched
  <2>3. CASE request > 0 /\ Len(cache.rows) > request
    <3>1. /\ SubSeq(cache.rows, 1, request) \in Seq(Nat)
          /\ Answers(SubSeq(cache.rows, 1, request), request, source)
      BY <1>2, <2>2, <2>3, CoveredAnswer
    <3>2. served' = File(SubSeq(cache.rows, 1, request))
      BY <2>3 DEF Read
    <3> QED
      BY <3>1, <3>2, FileTypes
  <2>4. CASE ~(request > 0 /\ Len(cache.rows) > request)
    <3>1. served' = cache
      BY <2>4 DEF Read
    <3>2. Answers(cache.rows, request, source)
      BY <1>2, <2>2, <2>4, CoveredAnswer
    <3> QED
      BY <3>1, <3>2
  <2> QED
    BY <2>3, <2>4
<1>7. CacheIsWhole'
  BY <1>1 DEF CacheInv, CacheIsWhole
<1> QED
  BY <1>4, <1>5, <1>6, <1>7 DEF CacheInv

\* Between two steps of a run its process may end: what it had in memory is
\* gone, what is on the disk is what it was.  Between two runs the dump may be
\* replaced; the cache is still that of the older one.
LEMMA OutsideStep ==
  ASSUME CacheInv, Interrupt \/ ReplaceDump
  PROVE  CacheInv'
<1>1. /\ stage' = "idle" /\ cache' = cache /\ tmp' = tmp /\ meta' = meta /\ source' = source
      /\ unpublished' = unpublished /\ request' = request /\ served' = served
      /\ runs' = runs
  BY DEF Interrupt, ReplaceDump, cacheFiles, history
<1>2. CacheTypes'
  <2>1. /\ dump' \in Dumps /\ line' \in Nat \ {0} /\ inCopy' \in BOOLEAN
        /\ batch' \in Seq(Nat)
    <3>1. /\ dump' = dump \/ dump' \in Dumps
          /\ line' = line \/ line' = 1
          /\ batch' = batch \/ batch' = <<>>
      BY DEF Interrupt, ReplaceDump, reading
    <3>2. inCopy' \in BOOLEAN
      BY DEF Interrupt, ReplaceDump, reading, CacheInv, CacheTypes
    <3>3. batch' \in Seq(Nat)
      BY <3>1, NoFileTypes DEF CacheInv, CacheTypes
    <3>4. line \in Nat \ {0}
      BY DEF CacheInv, CacheTypes
    <3>5. line' \in Nat \ {0}
      BY <3>1, <3>4
    <3> QED
      BY <3>1, <3>2, <3>3, <3>5 DEF CacheInv, CacheTypes
  <2> QED
    BY <1>1, <2>1 DEF CacheInv, CacheTypes
<1>3. ReadSoFar' /\ Published' /\ ReadsCovered' /\ Served'
  BY <1>1 DEF ReadSoFar, Published, ReadsCovered, Served
<1>4. Vouched' /\ CoveredIsServed' /\ CacheIsWhole'
  BY <1>1 DEF CacheInv, Vouched, CoveredIsServed, CacheIsWhole
<1> QED
  BY <1>2, <1>3, <1>4 DEF CacheInv

LEMMA CacheInductive == CacheInv /\ [CacheNext]_cacheVars => CacheInv'
<1> SUFFICES ASSUME CacheInv, [CacheNext]_cacheVars PROVE CacheInv'
  OBVIOUS
<1>1. CASE \E maxRows \in Requests, refresh \in BOOLEAN : StartRun(maxRows, refresh)
  BY <1>1, StartRunStep
<1>2. CASE ReadLine
  BY <1>2, ReadLineStep
<1>3. CASE LastBatch
  BY <1>3, LastBatchStep
<1>4. CASE Replace \/ OpenMeta \/ WriteMeta
  BY <1>4, PublishStep
<1>5. CASE Read
  BY <1>5, ReadStep
<1>6. CASE Interrupt \/ ReplaceDump
  BY <1>6, OutsideStep
<1>7. CASE UNCHANGED cacheVars
  BY <1>7 DEF cacheVars, cacheFiles, reading, history, CacheInv, CacheTypes, ReadSoFar, Got, Published,
              Vouched, ReadsCovered, Served, CoveredIsServed, CacheIsWhole
<1> QED
  BY <1>1, <1>2, <1>3, <1>4, <1>5, <1>6, <1>7 DEF CacheNext

LEMMA CacheInvariant == CacheSpec => []CacheInv
BY InitCacheInv, CacheInductive, PTL DEF CacheSpec

\* The cache's variables keep their types for every set of dumps and requests.
THEOREM CacheTypesCorrect == CacheSpec => []CacheTypes
<1>1. CacheInv => CacheTypes
  BY DEF CacheInv
<1> QED
  BY <1>1, CacheInvariant, PTL

\* A run that goes on with the cache, whoever made it and for whatever request,
\* goes on with exactly the rows it asked for, unless a run was interrupted
\* between its cache and its metadata (255-345).
THEOREM CacheServes == CacheSpec => []CoveredIsServed
<1>1. CacheInv => CoveredIsServed
  BY DEF CacheInv
<1> QED
  BY <1>1, CacheInvariant, PTL

\* Wherever the program is interrupted, the file in place is the whole answer
\* to a request that was made (288-320).
THEOREM CacheWhole == CacheSpec => []CacheIsWhole
<1>1. CacheInv => CacheIsWhole
  BY DEF CacheInv
<1> QED
  BY <1>1, CacheInvariant, PTL
-----------------------------------------------------------------------------
(* Numbers, finite sets and sums. *)

LEMMA LeastNatural ==
  ASSUME NEW S \in SUBSET Nat, S # {}
  PROVE  \E m \in S : \A n \in S : m <= n
<1> DEFINE less == OpToRel(<, Nat)
<1>1. \A m, n \in Nat : <<m, n>> \in less <=> m < n
  BY DEF OpToRel
<1>2. IsWellFoundedOn(less, Nat)
  BY NatLessThanWellFounded
<1> HIDE DEF less
<1>3. \E m \in S : \A n \in S : ~(<<n, m>> \in less)
  BY <1>2, WFMin
<1>4. \E m \in S : \A n \in S : ~(n < m)
  BY <1>1, <1>3, Zenon
<1> QED
  BY <1>4

\* Induction over the naturals, of a set of them.
LEMMA NaturalsByInduction ==
  ASSUME NEW T \in SUBSET Nat, 0 \in T, \A n \in T : n + 1 \in T
  PROVE  T = Nat
<1> SUFFICES ASSUME T # Nat
             PROVE  FALSE
  OBVIOUS
<1>1. PICK m \in Nat \ T : \A n \in Nat \ T : m <= n
  BY LeastNatural
<1>2. m # 0 /\ m - 1 \in Nat
  BY <1>1
<1>3. m - 1 \in T
  BY <1>1, <1>2
<1> QED
  BY <1>1, <1>2, <1>3

\* Max of FiniteSetsExt is the greatest element.
LEMMA MaxOfNaturals ==
  ASSUME NEW S \in SUBSET Nat, IsFiniteSet(S), S # {}
  PROVE  Max(S) \in S /\ \A n \in S : n <= Max(S)
<1> DEFINE Bounded(T) == \E m \in T : \A n \in T : n <= m
           U == {k \in Nat : \A T \in SUBSET S : Cardinality(T) = k + 1 => Bounded(T)}
<1>1. \A T \in SUBSET S : IsFiniteSet(T) /\ Cardinality(T) \in Nat
  BY FS_Subset, FS_CardinalityType
<1>2. 0 \in U
  <2> SUFFICES ASSUME NEW T \in SUBSET S, Cardinality(T) = 1 PROVE Bounded(T)
    OBVIOUS
  <2>1. PICK x : T = {x}
    BY <1>1, FS_Singleton
  <2> QED
    BY <2>1
<1>3. ASSUME NEW k \in U PROVE k + 1 \in U
  <2> SUFFICES ASSUME NEW T \in SUBSET S, Cardinality(T) = (k + 1) + 1 PROVE Bounded(T)
    OBVIOUS
  <2>1. k \in Nat
    OBVIOUS
  <2>2. T # {}
    BY <2>1, FS_EmptySet
  <2>3. PICK x \in T : TRUE
    BY <2>2
  <2>4. Cardinality(T \ {x}) = k + 1 /\ T \ {x} \in SUBSET S
    <3>1. IsFiniteSet(T) /\ Cardinality(T \ {x}) = Cardinality(T) - 1
      BY <1>1, FS_RemoveElement
    <3> QED
      BY <2>1, <3>1
  <2>5. PICK m \in T \ {x} : \A n \in T \ {x} : n <= m
    BY <2>4
  <2>6. x \in Nat /\ m \in Nat /\ T \subseteq Nat
    OBVIOUS
  <2>7. CASE x <= m
    BY <2>5, <2>7
  <2>8. CASE m < x
    <3>1. \A n \in T : n <= x
      BY <2>5, <2>6, <2>8
    <3> QED
      BY <3>1
  <2> QED
    BY <2>6, <2>7, <2>8
<1>4. U = Nat
  <2> HIDE DEF U
  <2> QED
    BY <1>2, <1>3, NaturalsByInduction DEF U
<1>5. Cardinality(S) # 0
  BY FS_EmptySet
<1>6. Cardinality(S) - 1 \in Nat /\ Cardinality(S) = (Cardinality(S) - 1) + 1
  BY <1>1, <1>5
<1>7. Bounded(S)
  BY <1>4, <1>6
<1> QED
  BY <1>7 DEF Max

LEMMA DisjointUnion ==
  ASSUME NEW A, IsFiniteSet(A), NEW B, IsFiniteSet(B), A \cap B = {}
  PROVE  /\ IsFiniteSet(A \cup B)
         /\ Cardinality(A \cup B) = Cardinality(A) + Cardinality(B)
<1>1. /\ IsFiniteSet(A \cup B)
      /\ Cardinality(A \cup B) = Cardinality(A) + Cardinality(B) - Cardinality({})
  BY FS_Union
<1> QED
  BY <1>1, FS_EmptySet, FS_CardinalityType

\* The element that a fold takes out of a set next.
Picked(s) == CHOOSE x \in s : TRUE

LEMMA PickedIsMember ==
  ASSUME NEW s, s # {}
  PROVE  Picked(s) \in s
BY DEF Picked

\* The function that the sum of w is read off, from subset to subset.
AddsUp(sum, w) ==
  sum = [s \in SUBSET (DOMAIN w) |->
           IF s = {} THEN 0 ELSE w[Picked(s)] + sum[s \ {Picked(s)}]]

LEMMA SumIsFold == ASSUME NEW w PROVE SumFunction(w) = (CHOOSE sum : AddsUp(sum, w))[DOMAIN w]
BY DEF SumFunction, SumFunctionOnSet, FoldFunctionOnSet, MapThenFoldSet, AddsUp, Picked

\* Those of the things x whose key is among keys.
Keyed(X, key, keys) == {x \in X : key[x] \in keys}

\* A sum of how many things there are of each key is how many things there are.
LEMMA SumIsCount ==
  ASSUME NEW w, IsFiniteSet(DOMAIN w), NEW X, IsFiniteSet(X), NEW key,
         \A x \in X : key[x] \in DOMAIN w,
         \A d \in DOMAIN w : w[d] = Cardinality(Keyed(X, key, {d}))
  PROVE  SumFunction(w) = Cardinality(X)
<1> DEFINE D == DOMAIN w
           Of(s) == Keyed(X, key, s)
           counts == [s \in SUBSET D |-> Cardinality(Of(s))]
<1>1. ASSUME NEW s \in SUBSET D, s # {}
      PROVE  /\ Picked(s) \in s /\ s \ {Picked(s)} \in SUBSET D
             /\ Cardinality(Of(s)) = w[Picked(s)] + Cardinality(Of(s \ {Picked(s)}))
  <2> DEFINE d == Picked(s)
             first == Keyed(X, key, {d})
  <2>1. d \in s
    BY <1>1, PickedIsMember
  <2> HIDE DEF d
  <2>2. Of(s) = first \cup Of(s \ {d}) /\ first \cap Of(s \ {d}) = {}
    BY <2>1 DEF Keyed
  <2>3. IsFiniteSet(first) /\ IsFiniteSet(Of(s \ {d}))
    BY FS_Subset DEF Keyed
  <2>4. Cardinality(first) = w[d] /\ s \ {d} \in SUBSET D
    BY <2>1
  <2> HIDE DEF first, Of
  <2>5. Cardinality(Of(s)) = Cardinality(first) + Cardinality(Of(s \ {d}))
    BY <2>2, <2>3, DisjointUnion
  <2> QED
    BY <2>1, <2>4, <2>5 DEF d
<1>2. Of({}) = {} /\ Cardinality({}) = 0
  BY FS_EmptySet DEF Keyed
<1>3. AddsUp(counts, w)
  <2>1. \A s \in SUBSET D : counts[s] = IF s = {} THEN 0
                                        ELSE w[Picked(s)] + counts[s \ {Picked(s)}]
    BY <1>1, <1>2
  <2> QED
    BY <2>1 DEF AddsUp
<1>4. PICK sum : sum = (CHOOSE f : AddsUp(f, w)) /\ AddsUp(sum, w)
  BY <1>3
<1>5. \A s \in SUBSET D : IsFiniteSet(s) /\ Cardinality(s) \in Nat
  BY FS_Subset, FS_CardinalityType
<1>6. sum[{}] = 0 /\ \A s \in (SUBSET D) \ {{}} : sum[s] = w[Picked(s)] + sum[s \ {Picked(s)}]
  BY <1>4 DEF AddsUp
<1> DEFINE U == {n \in Nat : \A s \in SUBSET D : Cardinality(s) = n =>
                               sum[s] = Cardinality(Of(s))}
<1> HIDE DEF Of
<1>7. 0 \in U
  BY <1>2, <1>5, <1>6, FS_EmptySet
<1>8. ASSUME NEW n \in U PROVE n + 1 \in U
  <2> SUFFICES ASSUME NEW s \in SUBSET D, Cardinality(s) = n + 1
               PROVE  sum[s] = Cardinality(Of(s))
    OBVIOUS
  <2>1. s # {} /\ n \in Nat
    BY <1>5, FS_EmptySet
  <2>2. Picked(s) \in s /\ s \ {Picked(s)} \in SUBSET D
    BY <1>1, <2>1
  <2>3. Cardinality(s \ {Picked(s)}) = n
    <3>1. IsFiniteSet(s) /\ Cardinality(s \ {Picked(s)}) = Cardinality(s) - 1
      BY <1>5, <2>2, FS_RemoveElement
    <3> QED
      BY <2>1, <3>1
  <2>4. sum[s \ {Picked(s)}] = Cardinality(Of(s \ {Picked(s)}))
    BY <2>2, <2>3
  <2> QED
    BY <1>1, <1>6, <2>1, <2>4
<1>9. U = Nat
  <2> HIDE DEF U
  <2> QED
    BY <1>7, <1>8, NaturalsByInduction DEF U
<1>10. sum[D] = Cardinality(Of(D))
  BY <1>5, <1>9
<1>11. Of(D) = X
  BY DEF Of, Keyed
<1> QED
  BY <1>4, <1>10, <1>11, SumIsFold

\* The pairs of an index and a member of its set.
Pairs(J, A, N) == {x \in J \X N : x[2] \in A[x[1]]}

LEMMA PairsOfOne ==
  ASSUME NEW j, NEW S, IsFiniteSet(S)
  PROVE  IsFiniteSet({j} \X S) /\ Cardinality({j} \X S) = Cardinality(S)
<1>1. IsFiniteSet({j}) /\ Cardinality({j}) = 1
  BY FS_Singleton
<1>2. IsFiniteSet({j} \X S) /\ Cardinality({j} \X S) = 1 * Cardinality(S)
  BY <1>1, FS_Product
<1>3. Cardinality(S) \in Nat
  BY FS_CardinalityType
<1> QED
  BY <1>2, <1>3

LEMMA PairsAreFinite ==
  ASSUME NEW J, IsFiniteSet(J), NEW N, IsFiniteSet(N), NEW A
  PROVE  IsFiniteSet(Pairs(J, A, N))
<1>1. IsFiniteSet(J \X N)
  BY FS_Product
<1> QED
  BY <1>1, FS_Subset DEF Pairs

LEMMA PairsGrow ==
  ASSUME NEW J, IsFiniteSet(J), NEW N, IsFiniteSet(N), NEW A, NEW j, j \notin J,
         A[j] \subseteq N
  PROVE  Cardinality(Pairs(J \cup {j}, A, N)) = Cardinality(Pairs(J, A, N)) + Cardinality(A[j])
<1>1. IsFiniteSet(A[j])
  BY FS_Subset
<1>2. IsFiniteSet({j} \X A[j]) /\ Cardinality({j} \X A[j]) = Cardinality(A[j])
  BY <1>1, PairsOfOne
<1>3. IsFiniteSet(Pairs(J, A, N))
  BY PairsAreFinite
<1>4. /\ Pairs(J \cup {j}, A, N) = Pairs(J, A, N) \cup ({j} \X A[j])
      /\ Pairs(J, A, N) \cap ({j} \X A[j]) = {}
  BY DEF Pairs
<1> QED
  BY <1>2, <1>3, <1>4, DisjointUnion

LEMMA SumOfCards ==
  ASSUME NEW w, IsFiniteSet(DOMAIN w), NEW N, IsFiniteSet(N), NEW A,
         \A j \in DOMAIN w : A[j] \subseteq N /\ w[j] = Cardinality(A[j])
  PROVE  SumFunction(w) = Cardinality(Pairs(DOMAIN w, A, N))
<1> DEFINE X == Pairs(DOMAIN w, A, N)
           key == [x \in X |-> x[1]]
<1>1. IsFiniteSet(X) /\ \A x \in X : key[x] \in DOMAIN w
  <2>1. \A x \in X : x[1] \in DOMAIN w
    BY DEF Pairs
  <2> QED
    BY <2>1, PairsAreFinite
<1>2. ASSUME NEW d \in DOMAIN w PROVE w[d] = Cardinality(Keyed(X, key, {d}))
  <2>1. Keyed(X, key, {d}) = {d} \X A[d]
    BY DEF Keyed, Pairs
  <2>2. IsFiniteSet(A[d])
    BY FS_Subset
  <2>3. Cardinality({d} \X A[d]) = Cardinality(A[d])
    BY <2>2, PairsOfOne
  <2> QED
    BY <2>1, <2>3
<1> HIDE DEF X, key
<1> QED
  BY <1>1, <1>2, SumIsCount DEF X
-----------------------------------------------------------------------------
(* The jobs of a batch. *)

Positions == {"idle", "shard", "manifest", "batch", "replays", "jobs", "failing", "done"}
Progress == {"queued", "cli", "writing", "ok", "collected", "failed"}

Types ==
  /\ pc \in Positions /\ args \in Args /\ run \in RunIds /\ todo \subseteq Shards
  /\ DOMAIN replay = ReplayPaths /\ DOMAIN summary = Paths
  /\ DOMAIN jobs \subseteq Paths
  /\ \A j \in DOMAIN jobs : jobs[j] \in Progress
  /\ toWrite \subseteq ReplayPaths

\* The jobs of a batch, and the replays they wait for.  A job that finds no
\* summary finds its replay, or the replay is still to be made.
Scheduling ==
  /\ pc \notin {"replays", "jobs", "failing"} => DOMAIN jobs = {}
  /\ pc # "replays" => toWrite = {}
  /\ pc = "replays" => \A j \in DOMAIN jobs : jobs[j] = "queued"
  /\ \A j \in DOMAIN jobs :
       /\ jobs[j] = "queued" /\ summary[j] = NoSummary =>
            ReplayOf(j) \in toWrite \/ replay[ReplayOf(j)].whole
       /\ jobs[j] \in {"cli", "writing"} => replay[ReplayOf(j)].whole

\* A job that found no replay stays as it is until the program is started
\* again, and nothing writes its summary or its daily metrics meanwhile.
BlindFailed ==
  \A j \in blind :
    /\ DaysAdded(j)
    /\ \/ pc = "idle"
       \/ pc \in {"jobs", "failing"} /\ j \in DOMAIN jobs /\ jobs[j] = "failed"

BatchInv == Types /\ Scheduling /\ BlindFailed
-----------------------------------------------------------------------------
LEMMA RunZero == 0 \in RunIds
BY FullLabelAssumption DEF RunIds

LEMMA Batched == Types => BatchShardsThere \subseteq Shards
BY DEF Types, BatchShardsThere, Batch

LEMMA InitBatchInv == Init => BatchInv
<1> SUFFICES ASSUME Init PROVE BatchInv
  OBVIOUS
<1>1. DOMAIN jobs = {}
  BY DEF Init
<1>2. Types
  BY <1>1, RunZero DEF Init, Types, Positions
<1>3. Scheduling /\ BlindFailed
  BY <1>1 DEF Init, Scheduling, BlindFailed
<1> QED
  BY <1>2, <1>3 DEF BatchInv

\* What a batch does not depend on may change.
LEMMA BatchUnmoved ==
  ASSUME BatchInv, pc' \in Positions \ {"replays", "jobs", "failing"},
         pc \notin {"replays", "jobs", "failing"}, pc # "idle" \/ blind' = {},
         args' \in Args, run' \in RunIds, todo' \subseteq Shards,
         blind' \in {blind, {}},
         UNCHANGED <<replay, summary, daily, toWrite, jobs>>
  PROVE  BatchInv'
<1>1. Types'
  BY DEF BatchInv, Types
<1>2. Scheduling'
  BY DEF BatchInv, Types, Scheduling
<1>3. blind' = {}
  BY DEF BatchInv, BlindFailed
<1>4. BlindFailed'
  BY <1>3 DEF BlindFailed
<1> QED
  BY <1>1, <1>2, <1>4 DEF BatchInv

LEMMA StartStep == ASSUME BatchInv, NEW a \in Args, Start(a) PROVE BatchInv'
<1>1. /\ Begin(a)
      /\ pc' \in {"idle", "batch", "shard"} /\ todo' \subseteq Shards
  BY DEF Start, StartReplay, StartSweep, UseSource, UseOrMakeShards
<1>2. /\ pc \in {"idle", "done"} /\ args' = a /\ blind' = {} /\ run' = 0
      /\ UNCHANGED <<replay, summary, daily, toWrite, jobs>>
  BY <1>1 DEF Begin
<1> QED
  BY <1>1, <1>2, RunZero, BatchUnmoved DEF Positions

LEMMA ShardStep == ASSUME BatchInv, ShardRow \/ OpenManifest \/ WriteManifest PROVE BatchInv'
<1>1. /\ pc \in {"shard", "manifest"} /\ pc' \in {"shard", "manifest", "batch"}
      /\ todo' \subseteq Shards
      /\ UNCHANGED <<replay, summary, daily, args, run, toWrite, jobs, blind>>
  BY DEF ShardRow, OpenManifest, WriteManifest, batchVars, results, BatchInv, Types
<1> QED
  BY <1>1, BatchUnmoved DEF Positions, BatchInv, Types

LEMMA RunIdStep == ASSUME BatchInv, RunIdEnds PROVE BatchInv'
<1>1. /\ pc = "batch" /\ pc' \in {"batch", "done"}
      /\ todo' \subseteq Shards
      /\ UNCHANGED <<replay, summary, daily, args, toWrite, jobs, blind>>
  BY DEF RunIdEnds, disk, results, BatchInv, Types
<1>2. run' \in RunIds
  BY FullLabelAssumption DEF RunIdEnds, RunIds, BatchInv, Types
<1> QED
  BY <1>1, <1>2, BatchUnmoved DEF Positions, BatchInv, Types

\* Each job of a batch is one of the paths, and its replay one of theirs.
LEMMA JobsArePaths ==
  ASSUME NEW a \in Args, NEW r \in RunIds, NEW l \in a.losses, NEW d \in Delays,
         NEW s \in Shards, NEW j \in JobsOn(a, r, l, d, s)
  PROVE  /\ j \in Paths
         /\ ReplayOf(j) = ReplayPath(a.program, r, l, d, s)
         /\ ReplayPath(a.program, r, l, d, s) \in ReplayPaths
<1>1. PICK m \in Scheduled(a, l) : j = Path(a.program, r, l, d, s, m)
  BY DEF JobsOn
<1>2. m \in Methods
  <2>1. m \in a.methods \/ m = Production
    BY DEF Scheduled, ReplayMethods
  <2>2. a.methods \in {b.methods : b \in Args}
    OBVIOUS
  <2>3. m \in a.methods => m \in UNION {b.methods : b \in Args}
    BY <2>2
  <2> QED
    BY <2>1, <2>3 DEF Methods
<1>3. l \in Losses /\ a.program \in Programs
  BY DEF Losses, Programs
<1> QED
  BY <1>1, <1>2, <1>3 DEF Paths, ReplayPaths, Path, ReplayPath, ReplayOf

LEMMA ScheduleStep == ASSUME BatchInv, ScheduleBatch PROVE BatchInv'
<1> DEFINE settings == args.losses \X Delays \X BatchShardsThere
           on(x) == JobsOn(args, run, x[1], x[2], x[3])
           all == UNION {on(x) : x \in settings}
           new == {x \in settings : NeedsReplay(args, run, x[1], x[2], x[3])}
           path(x) == ReplayPath(args.program, run, x[1], x[2], x[3])
<1>1. /\ pc = "batch" /\ pc' = "replays"
      /\ jobs' = [j \in all |-> "queued"] /\ toWrite' = {path(x) : x \in new}
      /\ UNCHANGED <<replay, summary, daily, args, run, todo, blind>>
  BY DEF ScheduleBatch, disk, results
<1>2. ASSUME NEW j \in all
      PROVE  \E x \in settings : /\ j \in on(x) /\ j \in Paths
                                 /\ ReplayOf(j) = path(x) /\ path(x) \in ReplayPaths
  <2>1. PICK x \in settings : j \in on(x)
    OBVIOUS
  <2>2. /\ args \in Args /\ run \in RunIds /\ x[1] \in args.losses /\ x[2] \in Delays
        /\ x[3] \in Shards
    BY Batched DEF BatchInv, Types
  <2> QED
    BY <2>1, <2>2, JobsArePaths
<1>3. ASSUME NEW x \in settings PROVE path(x) \in ReplayPaths
  <2>1. x[1] \in Losses /\ args.program \in Programs /\ x[3] \in Shards /\ run \in RunIds
    BY Batched DEF BatchInv, Types, Losses, Programs
  <2> QED
    BY <2>1 DEF ReplayPaths
<1>4. DOMAIN jobs' = all /\ \A j \in all : jobs'[j] = "queued" /\ j \in Paths
  BY <1>1, <1>2
<1>5. Types'
  BY <1>1, <1>3, <1>4 DEF BatchInv, Types, Positions, Progress
<1>6. ASSUME NEW j \in all, summary[j] = NoSummary PROVE ReplayOf(j) \in toWrite'
  <2>1. PICK x \in settings : j \in on(x) /\ ReplayOf(j) = path(x)
    BY <1>2
  <2>2. x \in new
    BY <1>6, <2>1 DEF NeedsReplay
  <2> QED
    BY <1>1, <2>1, <2>2
<1>7. Scheduling'
  BY <1>1, <1>4, <1>6 DEF Scheduling
<1>8. BlindFailed'
  BY <1>1 DEF BatchInv, BlindFailed
<1> QED
  BY <1>5, <1>7, <1>8 DEF BatchInv

\* A replay that is opened is still to be written; one that is written is whole.
LEMMA ReplayStep == ASSUME BatchInv, OpenReplay \/ WriteReplay \/ BeginJobs PROVE BatchInv'
<1>1. CASE OpenReplay \/ WriteReplay
  <2>1. /\ pc = "replays"
        /\ UNCHANGED <<pc, summary, daily, args, run, todo, jobs, blind>>
        /\ \E p \in toWrite :
             /\ DOMAIN replay' = ReplayPaths
             /\ \A q \in ReplayPaths \ {p} : replay'[q] = replay[q]
             /\ \/ toWrite' = toWrite
                \/ toWrite' = toWrite \ {p} /\ replay'[p].whole
    BY <1>1 DEF OpenReplay, WriteReplay, batchVars, results, BatchInv, Types
  <2>2. Types'
    BY <2>1 DEF BatchInv, Types
  <2>3. \A j \in DOMAIN jobs : ReplayOf(j) \in ReplayPaths
    BY DEF BatchInv, Types, Paths, ReplayPaths, Path, ReplayPath, ReplayOf
  <2>4. Scheduling'
    BY <2>1, <2>3 DEF BatchInv, Scheduling
  <2>5. BlindFailed'
    BY <2>1 DEF BatchInv, BlindFailed
  <2> QED
    BY <2>2, <2>4, <2>5 DEF BatchInv
<1>2. CASE BeginJobs
  BY <1>2 DEF BeginJobs, disk, batchVars, results, BatchInv, Types, Positions, Scheduling,
              BlindFailed, DaysAdded
<1> QED
  BY <1>1, <1>2

\* A worker takes a job.
LEMMA TakeStep ==
  ASSUME BatchInv, NEW j \in DOMAIN jobs, TakeReplayJob(j) \/ TakeSweepJob(j)
  PROVE  BatchInv'
<1>1. PICK answered \in BOOLEAN :
        /\ TakeJob(j, answered)
        /\ ~answered => summary[j] = NoSummary \/ DaysAdded(j)
  <2>1. CASE TakeReplayJob(j)
    <3> DEFINE answered == summary[j] # NoSummary /\ (args.days => j \in daily)
    <3>1. TakeJob(j, answered) /\ (~answered => summary[j] = NoSummary \/ DaysAdded(j))
      BY <2>1 DEF TakeReplayJob, DaysAdded
    <3> QED
      BY <3>1
  <2>2. CASE TakeSweepJob(j)
    <3> DEFINE answered == summary[j] # NoSummary
    <3>1. TakeJob(j, answered) /\ (~answered => summary[j] = NoSummary \/ DaysAdded(j))
      BY <2>2 DEF TakeSweepJob
    <3> QED
      BY <3>1
  <2> QED
    BY <2>1, <2>2
<1> DEFINE found == replay[ReplayOf(j)].whole
<1>2. /\ pc \in {"jobs", "failing"} /\ jobs[j] = "queued"
      /\ UNCHANGED <<pc, replay, summary, daily, args, run, todo, toWrite>>
      /\ \/ jobs' = [jobs EXCEPT ![j] = "ok"] /\ blind' = blind
         \/ jobs' = [jobs EXCEPT ![j] = "failed"] /\ blind' = blind
         \/ found /\ jobs' = [jobs EXCEPT ![j] = "cli"] /\ blind' = blind
         \/ ~answered /\ ~found /\ jobs' = [jobs EXCEPT ![j] = "failed"]
            /\ blind' = blind \cup {j}
  BY <1>1 DEF TakeJob, disk, results
<1>3. Types'
  BY <1>2 DEF BatchInv, Types, Progress
<1>4. Scheduling'
  BY <1>2 DEF BatchInv, Types, Scheduling
<1>5. BlindFailed'
  <2>1. ~answered /\ ~found => DaysAdded(j)
    BY <1>1, <1>2 DEF BatchInv, Scheduling
  <2>2. \A i \in blind' : DaysAdded(i)'
    BY <1>2, <2>1 DEF BatchInv, BlindFailed, DaysAdded
  <2>3. \A i \in blind' : i \in DOMAIN jobs' /\ jobs'[i] = "failed"
    BY <1>2 DEF BatchInv, BlindFailed
  <2> QED
    BY <1>2, <2>2, <2>3 DEF BlindFailed
<1> QED
  BY <1>3, <1>4, <1>5 DEF BatchInv

\* detector-cli is at work on a job, which therefore has not failed.
LEMMA CliStep ==
  ASSUME BatchInv, NEW j \in DOMAIN jobs, CliReports(j) \/ CliEnds(j) \/ CliFails(j)
  PROVE  BatchInv'
<1>1. /\ jobs[j] \in {"cli", "writing"}
      /\ UNCHANGED <<pc, replay, args, run, todo, toWrite, blind>>
      /\ DOMAIN summary' = DOMAIN summary
      /\ \A i \in Paths \ {j} : summary'[i] = summary[i]
      /\ daily' \subseteq daily \cup {j}
      /\ \E to \in {"writing", "ok", "failed"} : jobs' = [jobs EXCEPT ![j] = to]
  BY DEF CliReports, CliEnds, CliFails, disk, results, BatchInv, Types
<1>2. j \notin blind /\ pc # "idle" /\ blind \subseteq DOMAIN jobs
  BY <1>1 DEF BatchInv, BlindFailed, Scheduling
<1>3. Types'
  BY <1>1 DEF BatchInv, Types, Progress
<1>4. Scheduling'
  BY <1>1 DEF BatchInv, Types, Scheduling
<1>5. BlindFailed'
  <2>1. \A i \in blind : i \in Paths \ {j}
    BY <1>2 DEF BatchInv, Types
  <2>2. \A i \in blind : DaysAdded(i)'
    BY <1>1, <2>1 DEF BatchInv, BlindFailed, DaysAdded
  <2> QED
    BY <1>1, <1>2, <2>1, <2>2 DEF BatchInv, BlindFailed
<1> QED
  BY <1>3, <1>4, <1>5 DEF BatchInv

LEMMA CollectStep ==
  ASSUME BatchInv, NEW j \in DOMAIN jobs, CollectRow(j) \/ AddRows(j)
  PROVE  BatchInv'
<1>1. /\ jobs[j] = "ok" /\ jobs' = [jobs EXCEPT ![j] = "collected"] /\ pc = "jobs"
      /\ UNCHANGED <<pc, replay, summary, daily, args, run, todo, toWrite, blind>>
  BY DEF CollectRow, AddRows, Collect, disk
<1>2. Types'
  BY <1>1 DEF BatchInv, Types, Progress
<1>3. Scheduling'
  BY <1>1 DEF BatchInv, Types, Scheduling
<1>4. BlindFailed'
  BY <1>1 DEF BatchInv, BlindFailed, DaysAdded
<1> QED
  BY <1>2, <1>3, <1>4 DEF BatchInv

\* The ends of a batch and of a run.
LEMMA EndStep ==
  ASSUME BatchInv, CollectFailure \/ RunFails \/ BatchEnds \/ Crash
  PROVE  BatchInv'
<1>1. CASE CollectFailure
  BY <1>1 DEF CollectFailure, disk, batchVars, results, BatchInv, Types, Positions,
              Scheduling, BlindFailed, DaysAdded
<1>2. CASE RunFails \/ BatchEnds \/ Crash
  <2>1. /\ DOMAIN jobs' = {} /\ pc' \in {"idle", "batch"} /\ toWrite' = {}
        /\ DOMAIN replay' = ReplayPaths
        /\ UNCHANGED <<summary, daily, args, run, blind>> /\ todo' \subseteq Shards
    BY <1>2 DEF RunFails, BatchEnds, Crash, disk, results, BatchInv, Types, Scheduling
  <2>2. pc' = "idle" \/ blind = {}
    <3>1. CASE BatchEnds
      BY <3>1 DEF BatchEnds, BatchInv, BlindFailed
    <3> QED
      BY <1>2, <3>1 DEF RunFails, Crash
  <2>3. Types' /\ Scheduling'
    BY <2>1 DEF BatchInv, Types, Positions, Scheduling
  <2>4. BlindFailed'
    BY <2>1, <2>2 DEF BatchInv, BlindFailed, DaysAdded
  <2> QED
    BY <2>3, <2>4 DEF BatchInv
<1> QED
  BY <1>1, <1>2

LEMMA NextBatchInv == BatchInv /\ [Next]_vars => BatchInv'
<1> SUFFICES ASSUME BatchInv, [Next]_vars PROVE BatchInv'
  OBVIOUS
<1>1. CASE \E a \in Args : Start(a)
  BY <1>1, StartStep
<1>2. CASE ShardRow \/ OpenManifest \/ WriteManifest
  BY <1>2, ShardStep
<1>3. CASE ScheduleBatch
  BY <1>3, ScheduleStep
<1>4. CASE OpenReplay \/ WriteReplay \/ BeginJobs
  BY <1>4, ReplayStep
<1>5. CASE \E j \in DOMAIN jobs : JobStep(j) \/ CliFails(j)
  BY <1>5, TakeStep, CliStep, CollectStep DEF JobStep
<1>6. CASE CollectFailure \/ RunFails \/ BatchEnds \/ Crash
  BY <1>6, EndStep
<1>7. CASE RunIdEnds
  BY <1>7, RunIdStep
<1>8. CASE UNCHANGED vars
  BY <1>8 DEF vars, disk, batchVars, results, bounds, BatchInv, Types, Scheduling,
              BlindFailed, DaysAdded
<1> QED
  BY <1>1, <1>2, <1>3, <1>4, <1>5, <1>6, <1>7, <1>8 DEF Next, Proceed

LEMMA SpecBatchInv == Spec => []BatchInv
BY InitBatchInv, NextBatchInv, PTL DEF Spec

\* detector-cli finds a whole replay unless a run with day boundaries goes on
\* with the summaries of one without (benchmark_pipeline.py 836 and 2343-2344).
THEOREM ReplaysAreThere == Spec => []JobsFindReplays
<1>1. BatchInv => JobsFindReplays
  BY DEF BatchInv, BlindFailed, JobsFindReplays
<1> QED
  BY <1>1, SpecBatchInv, PTL
-----------------------------------------------------------------------------
(* The files. *)

ShapeOf(a) == <<a.shard_count, a.max_rows>>

\* The rows of a shard, and those that name trusted counterparties.
EventsIn(a, s) == {i \in EventRows(a) : ShardFor(Rows[i], a.shard_count) = s}
TrustedIn(a, s) == {i \in Trusted(a) : ShardFor(Rows[i], a.shard_count) = s}

CompleteManifest(a) ==
  [status |-> "complete", shard_count |-> a.shard_count, max_rows |-> a.max_rows,
   events |-> [s \in Shards |-> Cardinality(EventsIn(a, s))]]

\* The shards have all their rows, or those below n.
Written(a) ==
  /\ events = [s \in Shards |-> EventsIn(a, s)]
  /\ cps = [s \in Shards |-> TrustedIn(a, s)]
WrittenTo(a, n) ==
  /\ events = [s \in Shards |-> {i \in EventsIn(a, s) : i < n}]
  /\ cps = [s \in Shards |-> {i \in TrustedIn(a, s) : i < n}]

\* A manifest is that of the shards there are.
Sharded == {"batch", "replays", "jobs", "failing", "done"}
ShardsFaithful(a) ==
  /\ manifest \in {NoManifest, TornManifest, CompleteManifest(a)}
  /\ manifest = CompleteManifest(a) => Written(a)
  /\ pc = "shard" => /\ manifest # CompleteManifest(a)
                     /\ nextRow \in 1..(RowsRead(a) + 1)
                     /\ WrittenTo(a, nextRow)
  /\ pc = "manifest" => Written(a)
  /\ pc \in Sharded => manifest = CompleteManifest(a)

\* What a replay has in it, and what detector-cli finds there.
ReplayRows(a, p) ==
  {<<i, <<i, p.run, LossOf(p.loss)>> \notin Hidden>> : i \in EventsIn(a, p.shard)}
SeenIn(a, j) ==
  {i \in EventsIn(a, j.shard) :
     <<i, j.run, LossOf(j.loss)>> \notin Hidden \/ j.method = "confirmed_chain"}
FoundIn(a, j, tau) ==
  {i \in SeenIn(a, j) : Alerted(j.method, i, TrustedIn(a, j.shard), tau)}
MeasureOf(a, j) ==
  [tau \in Taus(j.program) |-> Confusion(EventsIn(a, j.shard), FoundIn(a, j, tau))]
WholeSummary(a, j) == [state |-> "whole", metrics |-> MeasureOf(a, j)]

FilesFaithful(a) ==
  /\ \A p \in ReplayPaths : replay[p].whole => replay[p].rows = ReplayRows(a, p)
  /\ \A j \in Paths : summary[j] \in {NoSummary, TornSummary, WholeSummary(a, j)}
  /\ \A j \in DOMAIN jobs : jobs[j] \in {"ok", "collected"} => summary[j] = WholeSummary(a, j)

\* While all runs in the directory ask for the same shards, its files are
\* those of any of them.
FaithInv ==
  /\ pc # "idle" => ShapeOf(args) \in shapes
  /\ \A a \in Args : shapes \subseteq {ShapeOf(a)} => ShardsFaithful(a) /\ FilesFaithful(a)
-----------------------------------------------------------------------------
LEMMA RowsReadAreRows ==
  ASSUME NEW a \in Args
  PROVE  RowsRead(a) \in Nat /\ RowsRead(a) <= Len(Rows)
<1>1. a.max_rows \in Nat /\ Len(Rows) \in Nat
  BY FullLabelAssumption
<1>2. CASE a.max_rows > 0
  <2>1. /\ {a.max_rows, Len(Rows)} \in SUBSET Nat
        /\ {a.max_rows, Len(Rows)} # {}
    BY <1>1
  <2>2. \E m \in {a.max_rows, Len(Rows)} : \A n \in {a.max_rows, Len(Rows)} : m <= n
    BY <1>1
  <2>3. /\ Min({a.max_rows, Len(Rows)}) \in {a.max_rows, Len(Rows)}
        /\ \A n \in {a.max_rows, Len(Rows)} : Min({a.max_rows, Len(Rows)}) <= n
    BY <2>2 DEF Min
  <2> QED
    BY <1>1, <1>2, <2>3 DEF RowsRead
<1> QED
  BY <1>1, <1>2 DEF RowsRead

\* A row with parties is in one of the shards.
LEMMA ShardsAreThere ==
  ASSUME NEW a \in Args, NEW i \in Row, HasParties(Rows[i])
  PROVE  ShardFor(Rows[i], a.shard_count) \in Shards
<1>1. HashOf[Rows[i].victim] \in Nat
  BY FullLabelAssumption DEF HasParties
<1>2. a.shard_count \in ShardCounts /\ ShardCounts \subseteq Nat \ {0} /\ IsFiniteSet(ShardCounts)
  BY FullLabelAssumption DEF ShardCounts
<1>3. Max(ShardCounts) \in Nat /\ a.shard_count <= Max(ShardCounts)
  BY <1>2, MaxOfNaturals
<1>4. \A h \in Nat, n \in Nat \ {0} : h % n \in 0..(n - 1)
  OBVIOUS
<1>5. HashOf[Rows[i].victim] % a.shard_count \in 0..(a.shard_count - 1)
  BY <1>1, <1>2, <1>4
<1>6. \A m, n \in Nat : m <= n => 0..(m - 1) \subseteq 0..(n - 1)
  OBVIOUS
<1>7. 0..(a.shard_count - 1) \subseteq 0..(Max(ShardCounts) - 1)
  BY <1>2, <1>3, <1>6
<1> QED
  BY <1>5, <1>7 DEF ShardFor, Shards

LEMMA RowsOfShards ==
  ASSUME NEW a \in Args, NEW s
  PROVE  EventsIn(a, s) \subseteq 1..RowsRead(a) /\ TrustedIn(a, s) \subseteq 1..RowsRead(a)
BY DEF EventsIn, TrustedIn, EventRows, Trusted, Used

\* Runs that ask for the same shards have the same of them.
LEMMA SameShape ==
  ASSUME FaithInv, pc # "idle", NEW a \in Args, shapes \subseteq {ShapeOf(a)}
  PROVE  args.shard_count = a.shard_count /\ args.max_rows = a.max_rows
<1>1. ShapeOf(args) = ShapeOf(a)
  BY DEF FaithInv
<1> QED
  BY <1>1 DEF ShapeOf

\* The shards stay as they are.
LEMMA ShardsUnmoved ==
  ASSUME NEW a \in Args, ShardsFaithful(a), UNCHANGED <<manifest, events, cps>>,
         pc' \notin {"shard", "manifest"}, pc' \in Sharded => pc \in Sharded
  PROVE  ShardsFaithful(a)'
<1>1. CompleteManifest(a)' = CompleteManifest(a)
  BY DEF CompleteManifest
<1>2. Written(a)' <=> Written(a)
  BY DEF Written, EventsIn, TrustedIn
<1> QED
  BY <1>1, <1>2 DEF ShardsFaithful

LEMMA StartShards ==
  ASSUME BatchInv, NEW a \in Args, ShardsFaithful(a), NEW b \in Args, Start(b),
         ShapeOf(b) = ShapeOf(a)
  PROVE  ShardsFaithful(a)'
<1>1. b.shard_count = a.shard_count /\ b.max_rows = a.max_rows
  BY DEF ShapeOf
<1>2. pc \in {"idle", "done"} /\ manifest' = manifest /\ nextRow' = 1
  BY DEF Start, StartReplay, StartSweep, Begin
<1>3. manifest \in {NoManifest, TornManifest, CompleteManifest(a)}
  BY DEF ShardsFaithful
<1>4. ManifestFits(b) <=> manifest = CompleteManifest(a)
  BY <1>1, <1>3 DEF ManifestFits, CompleteManifest, NoManifest, TornManifest
<1>5. \/ pc' = "idle" /\ UNCHANGED <<events, cps>>
      \/ pc' = "batch" /\ UNCHANGED <<events, cps>> /\ manifest = CompleteManifest(a)
      \/ /\ pc' = "shard" /\ manifest # CompleteManifest(a)
         /\ events' = [s \in Shards |-> {}] /\ cps' = [s \in Shards |-> {}]
  BY <1>3, <1>4 DEF Start, StartReplay, StartSweep, UseSource, UseOrMakeShards, RemoveShards
<1>6. CASE UNCHANGED <<events, cps>>
  <2>1. Written(a)' <=> Written(a)
    BY <1>6 DEF Written
  <2>2. pc' \in {"idle", "batch"} \/ pc' = "shard"
    BY <1>5
  <2>3. CompleteManifest(a)' = CompleteManifest(a)
    BY DEF CompleteManifest
  <2>4. CASE pc' = "shard"
    <3>1. manifest # CompleteManifest(a)
      BY <1>5, <2>4
    <3>2. events' = [s \in Shards |-> {}] /\ cps' = [s \in Shards |-> {}]
      BY <1>5, <2>4
    <3>3. WrittenTo(a, 1)'
      <4>1. \A s \in Shards : /\ {i \in EventsIn(a, s) : i < 1} = {}
                              /\ {i \in TrustedIn(a, s) : i < 1} = {}
        BY RowsOfShards, RowsReadAreRows
      <4> QED
        BY <3>2, <4>1 DEF WrittenTo
    <3>4. 1 \in 1..(RowsRead(a) + 1)
      BY RowsReadAreRows
    <3> QED
      BY <1>2, <1>3, <2>3, <2>4, <3>1, <3>3, <3>4 DEF ShardsFaithful, Sharded
  <2> QED
    BY <1>2, <1>5, <2>1, <2>2, <2>3, <2>4 DEF ShardsFaithful, Sharded
<1>7. CASE pc' = "shard"
  <2>1. /\ manifest # CompleteManifest(a)
        /\ events' = [s \in Shards |-> {}] /\ cps' = [s \in Shards |-> {}]
    BY <1>5, <1>7
  <2>2. WrittenTo(a, 1)'
    <3>1. \A s \in Shards : /\ {i \in EventsIn(a, s) : i < 1} = {}
                            /\ {i \in TrustedIn(a, s) : i < 1} = {}
      BY RowsOfShards, RowsReadAreRows
    <3> QED
      BY <2>1, <3>1 DEF WrittenTo
  <2>3. 1 \in 1..(RowsRead(a) + 1)
    BY RowsReadAreRows
  <2>4. CompleteManifest(a)' = CompleteManifest(a)
    BY DEF CompleteManifest
  <2> QED
    BY <1>2, <1>3, <1>7, <2>1, <2>2, <2>3, <2>4 DEF ShardsFaithful, Sharded
<1> QED
  BY <1>5, <1>6, <1>7

\* One row goes into one shard, and into none if it has no parties.
LEMMA RowIsWritten ==
  ASSUME NEW a \in Args, NEW n \in 1..RowsRead(a), WrittenTo(a, n),
         pc = "shard", nextRow = n, ShardRow,
         args.shard_count = a.shard_count, args.max_rows = a.max_rows
  PROVE  WrittenTo(a, n + 1)'
<1> DEFINE row == Rows[n]
           shard == ShardFor(row, a.shard_count)
<1>1. n \in Row /\ n \in Nat
  BY RowsReadAreRows DEF Row
<1>2. RowsRead(args) = RowsRead(a)
  BY DEF RowsRead
<1>3. ASSUME NEW s \in Shards
      PROVE  {i \in EventsIn(a, s) : i < n + 1} =
               {i \in EventsIn(a, s) : i < n} \cup
                 (IF HasParties(row) /\ Labelled(row) /\ shard = s THEN {n} ELSE {})
  <2>1. \A i \in EventsIn(a, s) : i \in Nat
    BY RowsOfShards, RowsReadAreRows
  <2>2. n \in EventsIn(a, s) <=> HasParties(row) /\ Labelled(row) /\ shard = s
    BY DEF EventsIn, EventRows, Used
  <2>3. \A i \in EventsIn(a, s) : i < n + 1 <=> i < n \/ i = n
    BY <1>1, <2>1
  <2> HIDE DEF row, shard
  <2> QED
    BY <1>1, <2>1, <2>2, <2>3
<1>4. ASSUME NEW s \in Shards
      PROVE  {i \in TrustedIn(a, s) : i < n + 1} =
               {i \in TrustedIn(a, s) : i < n} \cup
                 (IF HasParties(row) /\ IsNegative(row) /\ row.intended # NoAddress /\ shard = s
                    THEN {n} ELSE {})
  <2>1. \A i \in TrustedIn(a, s) : i \in Nat
    BY RowsOfShards, RowsReadAreRows
  <2>2. n \in TrustedIn(a, s) <=>
          HasParties(row) /\ IsNegative(row) /\ row.intended # NoAddress /\ shard = s
    BY DEF TrustedIn, Trusted, Used
  <2>3. \A i \in TrustedIn(a, s) : i < n + 1 <=> i < n \/ i = n
    BY <1>1, <2>1
  <2> HIDE DEF row, shard
  <2> QED
    BY <1>1, <2>1, <2>2, <2>3
<1>5. HasParties(row) => shard \in Shards
  BY <1>1, ShardsAreThere
<1> DEFINE add(files, cond) == IF cond THEN [files EXCEPT ![shard] = @ \cup {n}] ELSE files
<1>6. IF HasParties(row)
        THEN /\ cps' = add(cps, IsNegative(row) /\ row.intended # NoAddress)
             /\ events' = add(events, Labelled(row))
        ELSE UNCHANGED <<events, cps>>
  BY DEF ShardRow
<1> HIDE DEF row, shard
<1>7. events' = [s \in Shards |-> {i \in EventsIn(a, s) : i < n + 1}]
  <2>1. events' = [s \in Shards |-> events[s] \cup
                     (IF HasParties(row) /\ Labelled(row) /\ shard = s THEN {n} ELSE {})]
    BY <1>5, <1>6 DEF WrittenTo
  <2> QED
    BY <1>3, <2>1 DEF WrittenTo
<1>8. cps' = [s \in Shards |-> {i \in TrustedIn(a, s) : i < n + 1}]
  <2>1. cps' = [s \in Shards |-> cps[s] \cup
                  (IF HasParties(row) /\ IsNegative(row) /\ row.intended # NoAddress /\ shard = s
                     THEN {n} ELSE {})]
    BY <1>5, <1>6 DEF WrittenTo
  <2> QED
    BY <1>4, <2>1 DEF WrittenTo
<1> QED
  BY <1>7, <1>8 DEF WrittenTo

LEMMA WriteShards ==
  ASSUME NEW a \in Args, ShardsFaithful(a), ShardRow \/ OpenManifest \/ WriteManifest,
         args.shard_count = a.shard_count, args.max_rows = a.max_rows
  PROVE  ShardsFaithful(a)'
<1>1. RowsRead(args) = RowsRead(a) /\ RowsRead(a) \in Nat
  BY RowsReadAreRows DEF RowsRead
<1>2. CompleteManifest(a)' = CompleteManifest(a)
  BY DEF CompleteManifest
<1>3. CASE ShardRow
  <2>1. /\ pc = "shard" /\ pc' = "shard" /\ nextRow \in 1..RowsRead(a)
        /\ nextRow' = nextRow + 1 /\ manifest' = manifest
    BY <1>1, <1>3 DEF ShardRow, ShardsFaithful
  <2>2. PICK n \in 1..RowsRead(a) : n = nextRow
    BY <2>1
  <2>3. WrittenTo(a, n + 1)'
    BY <1>3, <2>1, <2>2, RowIsWritten DEF ShardsFaithful
  <2>4. nextRow' = n + 1 /\ n + 1 \in 1..(RowsRead(a) + 1)
    BY <1>1, <2>1, <2>2
  <2>5. WrittenTo(a, nextRow)'
    BY <2>3, <2>4 DEF WrittenTo
  <2>6. nextRow' \in 1..(RowsRead(a) + 1)
    BY <2>4
  <2> QED
    BY <1>2, <2>1, <2>5, <2>6 DEF ShardsFaithful, Sharded
<1>4. CASE OpenManifest
  <2>1. /\ pc = "shard" /\ pc' = "manifest" /\ nextRow > RowsRead(a)
        /\ manifest' = TornManifest /\ UNCHANGED <<events, cps>>
        /\ WrittenTo(a, nextRow) /\ nextRow \in Nat
    BY <1>1, <1>4 DEF OpenManifest, ShardsFaithful
  <2>2. ASSUME NEW s PROVE /\ {i \in EventsIn(a, s) : i < nextRow} = EventsIn(a, s)
                           /\ {i \in TrustedIn(a, s) : i < nextRow} = TrustedIn(a, s)
    <3>1. /\ \A i \in EventsIn(a, s) : i \in 1..RowsRead(a)
          /\ \A i \in TrustedIn(a, s) : i \in 1..RowsRead(a)
      BY RowsOfShards
    <3>2. \A i \in 1..RowsRead(a) : i < nextRow
      BY <1>1, <2>1
    <3> QED
      BY <3>1, <3>2
  <2>3. Written(a)'
    BY <2>1, <2>2 DEF WrittenTo, Written
  <2>4. TornManifest # CompleteManifest(a)
    BY DEF TornManifest, CompleteManifest
  <2> QED
    BY <1>2, <2>1, <2>3, <2>4 DEF ShardsFaithful, Sharded
<1>5. CASE WriteManifest
  <2>1. /\ pc = "manifest" /\ pc' = "batch" /\ manifest' = ManifestOf(args)
        /\ UNCHANGED <<events, cps>> /\ Written(a)
    BY <1>5 DEF WriteManifest, ShardsFaithful
  <2>2. manifest' = CompleteManifest(a)
    BY <2>1 DEF ManifestOf, CompleteManifest, Written
  <2>3. Written(a)'
    BY <2>1 DEF Written
  <2> QED
    BY <1>2, <2>1, <2>2, <2>3 DEF ShardsFaithful, Sharded
<1> QED
  BY <1>3, <1>4, <1>5

\* What detector-cli reports of a replay that is whole.
LEMMA MeasureIsExact ==
  ASSUME BatchInv, NEW a \in Args, ShardsFaithful(a), FilesFaithful(a), pc \in Sharded,
         NEW j \in Paths, replay[ReplayOf(j)].whole
  PROVE  Measure(j) = MeasureOf(a, j)
<1> DEFINE file == replay[ReplayOf(j)]
           rows == {x[1] : x \in file.rows}
           seen == {x[1] : x \in {y \in file.rows : y[2] \/ j.method = "confirmed_chain"}}
<1>1. ReplayOf(j) \in ReplayPaths /\ j.shard \in Shards
  BY DEF Paths, ReplayPaths, Path, ReplayPath, ReplayOf
<1>2. file.rows = {<<i, <<i, j.run, LossOf(j.loss)>> \notin Hidden>> : i \in EventsIn(a, j.shard)}
  <2>1. file.rows = ReplayRows(a, ReplayOf(j))
    BY <1>1 DEF FilesFaithful
  <2> QED
    BY <2>1 DEF ReplayRows, ReplayOf
<1>3. cps[j.shard] = TrustedIn(a, j.shard)
  BY <1>1 DEF ShardsFaithful, Written
<1> HIDE DEF file
<1> DEFINE E == EventsIn(a, j.shard)
           visible == [i \in E |-> <<i, j.run, LossOf(j.loss)>> \notin Hidden]
           late == j.method = "confirmed_chain"
<1>4. file.rows = {<<i, visible[i]>> : i \in E}
  BY <1>2
<1>5. SeenIn(a, j) = {i \in E : visible[i] \/ late}
  BY DEF SeenIn
<1> HIDE DEF visible, E, late
<1>7. /\ \A x \in file.rows : x[1] \in E /\ x[2] = visible[x[1]]
      /\ \A i \in E : <<i, visible[i]>> \in file.rows
  BY <1>4
<1>8. \A i \in E : \E x \in file.rows : x[1] = i /\ x[2] = visible[i]
  <2>1. TAKE i \in E
  <2>2. <<i, visible[i]>> \in file.rows
    BY <1>7
  <2> QED
    BY <2>2
<1>9. rows = EventsIn(a, j.shard)
  BY <1>7, <1>8 DEF E
<1>10. seen = SeenIn(a, j)
  <2>1. ASSUME NEW x \in file.rows, x[2] \/ late PROVE x[1] \in SeenIn(a, j)
    BY <1>5, <1>7, <2>1
  <2>2. ASSUME NEW i \in SeenIn(a, j)
        PROVE  \E x \in file.rows : (x[2] \/ late) /\ x[1] = i
    <3>1. i \in E /\ (visible[i] \/ late)
      BY <1>5
    <3>2. PICK x \in file.rows : x[1] = i /\ x[2] = visible[i]
      BY <1>8, <3>1
    <3> QED
      BY <3>1, <3>2
  <2> QED
    BY <2>1, <2>2 DEF late
<1>6. Measure(j) = [tau \in Taus(j.program) |->
                      Confusion(rows, {i \in seen : Alerted(j.method, i, cps[j.shard], tau)})]
  BY DEF Measure, file
<1> HIDE DEF rows, seen
<1> QED
  BY <1>3, <1>6, <1>9, <1>10 DEF MeasureOf, FoundIn

\* The files, where no replay becomes whole, no summary is written, and no job
\* comes to its end.
LEMMA FilesUnmoved ==
  ASSUME NEW a \in Args, FilesFaithful(a), summary' = summary,
         \A p \in ReplayPaths : replay'[p] = replay[p] \/ ~replay'[p].whole,
         \A j \in DOMAIN jobs' : jobs'[j] \in {"ok", "collected"} =>
           j \in DOMAIN jobs /\ jobs[j] \in {"ok", "collected"}
  PROVE  FilesFaithful(a)'
<1>1. \A p \in ReplayPaths : replay'[p].whole => replay'[p].rows = ReplayRows(a, p)
  BY DEF FilesFaithful
<1>2. \A j \in Paths : summary'[j] \in {NoSummary, TornSummary, WholeSummary(a, j)}
  BY DEF FilesFaithful
<1>3. \A j \in DOMAIN jobs' : jobs'[j] \in {"ok", "collected"} =>
                                summary'[j] = WholeSummary(a, j)
  BY DEF FilesFaithful
<1> QED
  BY <1>1, <1>2, <1>3 DEF FilesFaithful

LEMMA WriteReplayFiles ==
  ASSUME BatchInv, NEW a \in Args, ShardsFaithful(a), FilesFaithful(a), WriteReplay
  PROVE  FilesFaithful(a)'
<1>1. PICK p \in toWrite :
        replay' = [replay EXCEPT ![p] =
                     [there |-> TRUE, whole |-> TRUE,
                      rows |-> {<<i, <<i, p.run, LossOf(p.loss)>> \notin Hidden>>
                                  : i \in events[p.shard]}]]
  BY DEF WriteReplay
<1>2. p \in ReplayPaths /\ DOMAIN replay = ReplayPaths /\ p.shard \in Shards
  BY DEF BatchInv, Types, ReplayPaths, ReplayPath
<1>3. events[p.shard] = EventsIn(a, p.shard)
  BY <1>2 DEF WriteReplay, ShardsFaithful, Sharded, Written
<1>4. replay'[p].rows = ReplayRows(a, p)
  BY <1>1, <1>2, <1>3 DEF ReplayRows
<1>5. \A q \in ReplayPaths : replay'[q].whole => replay'[q].rows = ReplayRows(a, q)
  BY <1>1, <1>2, <1>4 DEF FilesFaithful
<1>6. UNCHANGED <<summary, jobs>>
  BY DEF WriteReplay
<1> QED
  BY <1>5, <1>6 DEF FilesFaithful

LEMMA ReplayFiles ==
  ASSUME BatchInv, NEW a \in Args, ShardsFaithful(a), FilesFaithful(a),
         OpenReplay \/ WriteReplay \/ BatchEnds
  PROVE  FilesFaithful(a)'
<1>1. CASE OpenReplay
  <2>1. PICK p \in toWrite :
          replay' = [replay EXCEPT ![p] = [there |-> TRUE, whole |-> FALSE, rows |-> {}]]
    BY <1>1 DEF OpenReplay
  <2>2. UNCHANGED <<summary, jobs>> /\ DOMAIN replay = ReplayPaths
    BY <1>1 DEF OpenReplay, batchVars, BatchInv, Types
  <2>3. \A q \in ReplayPaths : replay'[q] = replay[q] \/ ~replay'[q].whole
    BY <2>1, <2>2
  <2> QED
    BY <2>2, <2>3, FilesUnmoved
<1>2. CASE WriteReplay
  BY <1>2, WriteReplayFiles
<1>3. CASE BatchEnds
  <2>1. /\ summary' = summary /\ DOMAIN jobs' = {}
        /\ replay' = [p \in ReplayPaths |-> IF p \in replayPaths THEN NoReplay ELSE replay[p]]
    BY <1>3 DEF BatchEnds
  <2>2. \A q \in ReplayPaths : replay'[q] = replay[q] \/ ~replay'[q].whole
    BY <2>1 DEF NoReplay
  <2> QED
    BY <2>1, <2>2, FilesUnmoved
<1> QED
  BY <1>1, <1>2, <1>3

LEMMA JobFiles ==
  ASSUME BatchInv, NEW a \in Args, ShardsFaithful(a), FilesFaithful(a),
         NEW j \in DOMAIN jobs, JobStep(j) \/ CliFails(j)
  PROVE  FilesFaithful(a)'
<1>1. j \in Paths /\ DOMAIN summary = Paths /\ DOMAIN jobs \subseteq Paths
  BY DEF BatchInv, Types
<1>2. CASE TakeReplayJob(j) \/ TakeSweepJob(j)
  <2>1. PICK answered \in BOOLEAN :
          TakeJob(j, answered) /\ (answered => summary[j] # NoSummary)
    <3>1. CASE TakeReplayJob(j)
      <4> DEFINE answered == summary[j] # NoSummary /\ (args.days => j \in daily)
      <4>1. TakeJob(j, answered) /\ (answered => summary[j] # NoSummary)
        BY <3>1 DEF TakeReplayJob
      <4> QED
        BY <4>1
    <3>2. CASE TakeSweepJob(j)
      <4> DEFINE answered == summary[j] # NoSummary
      <4>1. TakeJob(j, answered) /\ (answered => summary[j] # NoSummary)
        BY <3>2 DEF TakeSweepJob
      <4> QED
        BY <4>1
    <3> QED
      BY <1>2, <3>1, <3>2
  <2>2. /\ UNCHANGED <<replay, summary>> /\ DOMAIN jobs' = DOMAIN jobs
        /\ \A i \in DOMAIN jobs \ {j} : jobs'[i] = jobs[i]
        /\ jobs'[j] \in {"ok", "collected"} => summary[j] \notin {NoSummary, TornSummary}
    BY <2>1 DEF TakeJob, disk
  <2>3. \A i \in DOMAIN jobs : jobs'[i] \in {"ok", "collected"} => summary[i] = WholeSummary(a, i)
    BY <1>1, <2>2 DEF FilesFaithful
  <2> QED
    BY <2>2, <2>3 DEF FilesFaithful
<1>3. CASE CliReports(j)
  <2>1. /\ jobs[j] = "cli" /\ jobs' = [jobs EXCEPT ![j] = "writing"]
        /\ summary' = [summary EXCEPT ![j] = TornSummary] /\ replay' = replay
    BY <1>3 DEF CliReports
  <2>2. \A i \in Paths : summary'[i] \in {NoSummary, TornSummary, WholeSummary(a, i)}
    BY <1>1, <2>1 DEF FilesFaithful
  <2>3. \A i \in DOMAIN jobs' : jobs'[i] \in {"ok", "collected"} =>
                                  summary'[i] = WholeSummary(a, i)
    BY <1>1, <2>1 DEF FilesFaithful
  <2> QED
    BY <2>1, <2>2, <2>3 DEF FilesFaithful
<1>4. CASE CliEnds(j)
  <2>1. /\ jobs[j] = "writing" /\ jobs' = [jobs EXCEPT ![j] = "ok"] /\ replay' = replay
        /\ summary' = [summary EXCEPT ![j] = [state |-> "whole", metrics |-> Measure(j)]]
    BY <1>4 DEF CliEnds
  <2>2. replay[ReplayOf(j)].whole /\ pc \in Sharded
    BY <2>1 DEF BatchInv, Scheduling, Sharded
  <2>3. Measure(j) = MeasureOf(a, j)
    BY <1>1, <2>2, MeasureIsExact
  <2>4. summary' = [summary EXCEPT ![j] = WholeSummary(a, j)]
    BY <2>1, <2>3 DEF WholeSummary
  <2>5. \A i \in Paths : summary'[i] \in {NoSummary, TornSummary, WholeSummary(a, i)}
    BY <1>1, <2>4 DEF FilesFaithful
  <2>6. \A i \in DOMAIN jobs' : jobs'[i] \in {"ok", "collected"} =>
                                  summary'[i] = WholeSummary(a, i)
    BY <1>1, <2>1, <2>4 DEF FilesFaithful
  <2> QED
    BY <2>1, <2>5, <2>6 DEF FilesFaithful
<1>5. CASE CollectRow(j) \/ AddRows(j) \/ CliFails(j)
  <2>1. /\ UNCHANGED <<replay, summary>>
        /\ \/ jobs[j] = "ok" /\ jobs' = [jobs EXCEPT ![j] = "collected"]
           \/ jobs' = [jobs EXCEPT ![j] = "failed"]
    BY <1>5 DEF CollectRow, AddRows, Collect, CliFails, disk
  <2>2. \A i \in DOMAIN jobs' : jobs'[i] \in {"ok", "collected"} =>
           i \in DOMAIN jobs /\ jobs[i] \in {"ok", "collected"}
    BY <2>1
  <2> QED
    BY <2>1, <2>2, FilesUnmoved
<1> QED
  BY <1>2, <1>3, <1>4, <1>5 DEF JobStep

LEMMA FaithStep ==
  ASSUME BatchInv, FaithInv, [Next]_vars,
         NEW a \in Args, shapes' \subseteq {ShapeOf(a)}
  PROVE  ShardsFaithful(a)' /\ FilesFaithful(a)'
<1>1. shapes \subseteq shapes'
  BY DEF Next, Proceed, Start, StartReplay, StartSweep, Begin, ShardRow, OpenManifest,
         WriteManifest, ScheduleBatch, OpenReplay, WriteReplay, BeginJobs, JobStep,
         TakeReplayJob, TakeSweepJob, TakeJob, CliReports, CliEnds, CollectRow, AddRows,
         Collect, CollectFailure, RunFails, BatchEnds, RunIdEnds, CliFails, Crash, vars, bounds
<1>2. ShardsFaithful(a) /\ FilesFaithful(a)
  BY <1>1 DEF FaithInv
<1>3. pc # "idle" => args.shard_count = a.shard_count /\ args.max_rows = a.max_rows
  BY <1>1, SameShape
<1>4. ASSUME NEW b \in Args, Start(b)
      PROVE  ShardsFaithful(a)' /\ FilesFaithful(a)'
  <2>1. /\ UNCHANGED <<replay, summary, jobs>> /\ shapes' = shapes \cup {ShapeOf(b)}
    BY <1>4 DEF Start, StartReplay, StartSweep, Begin, ShapeOf
  <2>2. ShapeOf(b) = ShapeOf(a)
    BY <2>1
  <2> QED
    BY <1>2, <1>4, <2>1, <2>2, StartShards, FilesUnmoved
<1>5. CASE ShardRow \/ OpenManifest \/ WriteManifest
  <2>1. UNCHANGED <<replay, summary, jobs>> /\ pc # "idle"
    BY <1>5 DEF ShardRow, OpenManifest, WriteManifest, batchVars
  <2> QED
    BY <1>2, <1>3, <1>5, <2>1, WriteShards, FilesUnmoved
<1>6. CASE \/ ScheduleBatch \/ OpenReplay \/ WriteReplay \/ BeginJobs \/ CollectFailure
           \/ RunFails \/ BatchEnds \/ RunIdEnds \/ Crash
           \/ UNCHANGED vars
           \/ \E j \in DOMAIN jobs : JobStep(j) \/ CliFails(j)
  <2>1. /\ UNCHANGED <<manifest, events, cps>>
        /\ \/ pc' = "idle"
           \/ pc \in Sharded /\ pc' \in Sharded
           \/ UNCHANGED <<pc, nextRow>>
    BY <1>6 DEF ScheduleBatch, OpenReplay, WriteReplay, BeginJobs, JobStep, TakeReplayJob,
         TakeSweepJob, TakeJob, CliReports, CliEnds, CollectRow, AddRows, Collect,
         CollectFailure, RunFails, BatchEnds, RunIdEnds, CliFails, Crash, vars, disk, Sharded
  <2>2. ShardsFaithful(a)'
    <3>1. CASE pc' = "idle" \/ (pc \in Sharded /\ pc' \in Sharded)
      BY <1>2, <2>1, <3>1, ShardsUnmoved DEF Sharded
    <3>2. CASE UNCHANGED <<pc, nextRow>>
      <4>1. CompleteManifest(a)' = CompleteManifest(a) /\ (Written(a)' <=> Written(a))
            /\ WrittenTo(a, nextRow)' = WrittenTo(a, nextRow)
        BY <2>1, <3>2 DEF CompleteManifest, Written, WrittenTo
      <4> QED
        BY <1>2, <2>1, <3>2, <4>1 DEF ShardsFaithful
    <3> QED
      BY <2>1, <3>1, <3>2
  <2>3. FilesFaithful(a)'
    <3>1. CASE OpenReplay \/ WriteReplay \/ BatchEnds
      BY <1>2, <3>1, ReplayFiles
    <3>2. CASE \E j \in DOMAIN jobs : JobStep(j) \/ CliFails(j)
      BY <1>2, <3>2, JobFiles
    <3>3. CASE BeginJobs \/ CollectFailure \/ RunIdEnds \/ UNCHANGED vars
      <4>1. UNCHANGED <<replay, summary, jobs>>
        BY <3>3 DEF BeginJobs, CollectFailure, RunIdEnds, vars, disk, batchVars
      <4> QED
        BY <1>2, <4>1, FilesUnmoved
    <3>4. CASE RunFails \/ Crash
      <4>1. UNCHANGED <<replay, summary>> /\ DOMAIN jobs' = {}
        BY <3>4 DEF RunFails, Crash, disk
      <4> QED
        BY <1>2, <4>1, FilesUnmoved
    <3>5. CASE ScheduleBatch
      <4>1. UNCHANGED <<replay, summary>> /\ \A j \in DOMAIN jobs' : jobs'[j] = "queued"
        BY <3>5 DEF ScheduleBatch, disk
      <4> QED
        BY <1>2, <4>1, FilesUnmoved
    <3> QED
      BY <1>6, <3>1, <3>2, <3>3, <3>4, <3>5
  <2> QED
    BY <2>2, <2>3
<1> QED
  BY <1>4, <1>5, <1>6 DEF Next, Proceed

LEMMA NextFaithInv == BatchInv /\ FaithInv /\ [Next]_vars => FaithInv'
<1> SUFFICES ASSUME BatchInv, FaithInv, [Next]_vars PROVE FaithInv'
  OBVIOUS
<1>1. pc' # "idle" => ShapeOf(args)' \in shapes'
  <2>1. CASE \E a \in Args : Start(a)
    BY <2>1 DEF Start, StartReplay, StartSweep, Begin, ShapeOf
  <2>2. CASE ~ \E a \in Args : Start(a)
    <3>1. UNCHANGED <<args, shapes>> /\ (pc = "idle" => pc' = "idle")
      BY <2>2 DEF Next, Proceed, ShardRow, OpenManifest,
         WriteManifest, ScheduleBatch, OpenReplay, WriteReplay, BeginJobs, JobStep,
         TakeReplayJob, TakeSweepJob, TakeJob, CliReports, CliEnds, CollectRow, AddRows,
         Collect, CollectFailure, RunFails, BatchEnds, RunIdEnds, CliFails, Crash, vars, bounds
    <3> QED
      BY <3>1 DEF FaithInv, ShapeOf
  <2> QED
    BY <2>1, <2>2
<1>2. ASSUME NEW a \in Args, shapes' \subseteq {ShapeOf(a)}
      PROVE  ShardsFaithful(a)' /\ FilesFaithful(a)'
  BY <1>2, FaithStep
<1> QED
  BY <1>1, <1>2 DEF FaithInv, ShapeOf

LEMMA InitFaithInv == Init => FaithInv
<1> SUFFICES ASSUME Init PROVE FaithInv
  OBVIOUS
<1>1. ASSUME NEW a \in Args PROVE ShardsFaithful(a) /\ FilesFaithful(a)
  <2>1. NoManifest # CompleteManifest(a)
    BY DEF NoManifest, CompleteManifest
  <2>2. ShardsFaithful(a)
    BY <2>1 DEF Init, ShardsFaithful, Sharded
  <2>3. DOMAIN jobs = {} /\ ~NoReplay.whole
    BY DEF Init, NoReplay
  <2>4. FilesFaithful(a)
    BY <2>3 DEF Init, FilesFaithful
  <2> QED
    BY <2>2, <2>4
<1> QED
  BY <1>1 DEF Init, FaithInv

LEMMA SpecFaithInv == Spec => [](BatchInv /\ FaithInv)
BY InitBatchInv, NextBatchInv, InitFaithInv, NextFaithInv, PTL DEF Spec
-----------------------------------------------------------------------------
(* The counts. *)

\* The shards that have events, and the jobs on them.
Full(a) == {s \in Shards : EventsIn(a, s) # {}}
AllJobs(a) ==
  {j \in Paths : \E r \in RunIds, l \in a.losses, d \in Delays, s \in Full(a) :
                   j \in JobsOn(a, r, l, d, s)}

\* The jobs whose results have been taken: all those of an earlier run_id or
\* batch, and those of this batch that were yielded.
Past(a, r, t) == {j \in AllJobs(a) : j.run < r \/ (j.run = r /\ j.shard \notin t)}
Ended == {j \in DOMAIN jobs : jobs[j] = "collected"}
Collected == IF pc = "done" THEN AllJobs(args) ELSE Past(args, run, todo) \cup Ended

\* The rows that a confusion matrix counts in a cell.
CellSet(rows, found, c) ==
  {i \in rows : /\ IsPositive(Rows[i]) <=> c \in {"tp", "fn"}
                /\ i \in found <=> c \in {"tp", "fp"}}
CellOf(a, j, tau, c) == CellSet(EventsIn(a, j.shard), FoundIn(a, j, tau), c)
IsFor(j, method, loss) == j.method = method /\ j.loss = LossLabel(loss)
CellsFor(a, x, c) ==
  [j \in Paths |-> IF IsFor(j, x[1], x[2]) THEN CellOf(a, j, x[3], c) ELSE {}]

\* The results are those of the jobs J.
Counted(J) ==
  IF args.program = "replay"
    THEN metrics = {<<j, MeasureOf(args, j)>> : j \in J}
    ELSE \A x \in Methods \X Losses \X TauGrid, c \in Cells :
           aggregates[x][c] = Cardinality(Pairs(J, CellsFor(args, x, c), Row))

CountsFaithful ==
  /\ pc \in {"shard", "manifest"} => run = 0 /\ metrics = {} /\ aggregates = NoRows
  /\ pc \in {"batch", "replays", "jobs"} => todo \subseteq Full(args)
  /\ pc \in {"replays", "jobs"} =>
       DOMAIN jobs = {j \in AllJobs(args) : j.run = run /\ j.shard \in Batch}
  /\ pc \in {"batch", "replays", "jobs", "done"} => Counted(Collected)

CountInv ==
  /\ IsFiniteSet(shapes)
  /\ DOMAIN aggregates = Methods \X Losses \X TauGrid
  /\ pc # "idle" /\ shapes \subseteq {ShapeOf(args)} => CountsFaithful
-----------------------------------------------------------------------------
LEMMA RowsAreFinite == IsFiniteSet(Row) /\ Row \subseteq Nat
<1>1. Len(Rows) \in Nat
  BY FullLabelAssumption
<1> QED
  BY <1>1, FS_Interval DEF Row

LEMMA ShardsAreFinite ==
  ASSUME NEW a \in Args
  PROVE  IsFiniteSet(Shards) /\ IsFiniteSet(RunIds) /\ RunIds \subseteq Nat
<1>1. a.shard_count \in ShardCounts /\ ShardCounts \subseteq Nat \ {0} /\ IsFiniteSet(ShardCounts)
  BY FullLabelAssumption DEF ShardCounts
<1>2. Max(ShardCounts) \in Nat
  BY <1>1, MaxOfNaturals
<1>3. BenchmarkRuns \in Nat
  BY FullLabelAssumption
<1> QED
  BY <1>2, <1>3, FS_Interval DEF Shards, RunIds

LEMMA EventsAreRows ==
  ASSUME NEW a \in Args, NEW s
  PROVE  /\ EventsIn(a, s) \subseteq Row /\ IsFiniteSet(EventsIn(a, s))
         /\ \A i \in EventsIn(a, s) : ShardFor(Rows[i], a.shard_count) \in Shards
<1>1. EventsIn(a, s) \subseteq Row
  BY RowsOfShards, RowsReadAreRows DEF Row
<1>2. IsFiniteSet(EventsIn(a, s))
  BY <1>1, RowsAreFinite, FS_Subset
<1>3. \A i \in EventsIn(a, s) : HasParties(Rows[i])
  BY DEF EventsIn, EventRows, Used
<1> QED
  BY <1>1, <1>2, <1>3, ShardsAreThere

LEMMA JobsAreFinite == ASSUME NEW a \in Args PROVE IsFiniteSet(AllJobs(a))
<1> DEFINE methods == a.methods \cup {Production}
           X == RunIds \X (Delays \X (Shards \X (a.losses \X methods)))
           path(x) == Path(a.program, x[1], x[2][2][2][1], x[2][1], x[2][2][1], x[2][2][2][2])
           T == {path(x) : x \in X}
           f == [x \in X |-> path(x)]
<1>1. IsFiniteSet(Delays) /\ IsFiniteSet(a.losses) /\ IsFiniteSet(a.methods)
  BY FullLabelAssumption
<1>2. IsFiniteSet(methods)
  BY <1>1, FS_AddElement
<1>3. IsFiniteSet(X)
  <2>1. IsFiniteSet(a.losses \X methods)
    BY <1>1, <1>2, FS_Product
  <2>2. IsFiniteSet(Shards \X (a.losses \X methods))
    BY <2>1, ShardsAreFinite, FS_Product
  <2>3. IsFiniteSet(Delays \X (Shards \X (a.losses \X methods)))
    BY <1>1, <2>2, FS_Product
  <2> QED
    BY <2>3, ShardsAreFinite, FS_Product
<1>4. f \in Surjection(X, T)
  <2>1. f \in [X -> T] /\ \A t \in T : \E x \in X : f[x] = t
    OBVIOUS
  <2> HIDE DEF f, X, T
  <2> QED
    BY <2>1 DEF Surjection
<1>5. AllJobs(a) \subseteq T
  <2>1. ASSUME NEW r \in RunIds, NEW l \in a.losses, NEW d \in Delays, NEW s \in Shards,
               NEW j \in JobsOn(a, r, l, d, s)
        PROVE  j \in T
    <3>1. PICK m \in Scheduled(a, l) : j = Path(a.program, r, l, d, s, m)
      BY DEF JobsOn
    <3>2. m \in methods
      BY DEF Scheduled, ReplayMethods
    <3>3. <<r, <<d, <<s, <<l, m>>>>>>>> \in X
      BY <3>2
    <3>4. j = path(<<r, <<d, <<s, <<l, m>>>>>>>>)
      BY <3>1
    <3> QED
      BY <3>3, <3>4
  <2> QED
    BY <2>1 DEF AllJobs, Full
<1> HIDE DEF X, T, f
<1>6. IsFiniteSet(T)
  BY <1>3, <1>4, FS_Surjection
<1> QED
  BY <1>5, <1>6, FS_Subset

\* What a job is named after.
LEMMA JobFields ==
  ASSUME NEW a \in Args, NEW j \in AllJobs(a)
  PROVE  /\ j \in Paths /\ j.program = a.program /\ j.run \in RunIds /\ j.shard \in Full(a)
         /\ j.delay \in Delays /\ j.shard \in Shards /\ j.run \in Nat
BY ShardsAreFinite DEF AllJobs, JobsOn, Path, Full

LEMMA JobsOnAreJobs ==
  ASSUME NEW a \in Args, NEW r \in RunIds, NEW l \in a.losses, NEW d \in Delays,
         NEW s \in Full(a), NEW j \in JobsOn(a, r, l, d, s)
  PROVE  j \in AllJobs(a) /\ j.run = r /\ j.shard = s
<1>1. s \in Shards
  BY DEF Full
<1>2. j \in Paths
  BY <1>1, JobsArePaths
<1> QED
  BY <1>2 DEF AllJobs, JobsOn, Path

LEMMA ConfusionCounts ==
  ASSUME NEW rows, NEW found, NEW c \in Cells
  PROVE  Confusion(rows, found)[c] = Cardinality(CellSet(rows, found, c))
<1>1. CASE c = "tp"
  <2>1. CellSet(rows, found, c) = {i \in rows : IsPositive(Rows[i]) /\ i \in found}
    BY <1>1 DEF CellSet
  <2> QED
    BY <1>1, <2>1 DEF Confusion
<1>2. CASE c = "fp"
  <2>1. CellSet(rows, found, c) = {i \in rows : ~IsPositive(Rows[i]) /\ i \in found}
    BY <1>2 DEF CellSet
  <2> QED
    BY <1>2, <2>1 DEF Confusion
<1>3. CASE c = "fn"
  <2>1. CellSet(rows, found, c) = {i \in rows : IsPositive(Rows[i]) /\ i \notin found}
    BY <1>3 DEF CellSet
  <2> QED
    BY <1>3, <2>1 DEF Confusion
<1>4. CASE c = "tn"
  <2>1. CellSet(rows, found, c) = {i \in rows : ~IsPositive(Rows[i]) /\ i \notin found}
    BY <1>4 DEF CellSet
  <2> QED
    BY <1>4, <2>1 DEF Confusion
<1> QED
  BY <1>1, <1>2, <1>3, <1>4 DEF Cells

LEMMA CellsAreRows ==
  ASSUME NEW a \in Args, NEW x, NEW c, NEW j \in Paths
  PROVE  CellsFor(a, x, c)[j] \subseteq Row
<1>1. CellOf(a, j, x[3], c) \subseteq EventsIn(a, j.shard)
  BY DEF CellOf, CellSet
<1> QED
  BY <1>1, EventsAreRows DEF CellsFor

\* No results yet.
LEMMA NothingCounted ==
  ASSUME metrics' = {}, aggregates' = NoRows
  PROVE  Counted({})'
<1>1. \A x, c : Pairs({}, CellsFor(args', x, c), Row) = {}
  BY DEF Pairs
<1>2. \A x \in Methods \X Losses \X TauGrid, c \in Cells : NoRows[x][c] = 0
  BY DEF NoRows
<1> QED
  BY <1>1, <1>2, FS_EmptySet DEF Counted

\* The shards with events are those that the manifest has events of.
LEMMA FullShards ==
  ASSUME NEW a \in Args
  PROVE  /\ manifest = CompleteManifest(a) => {s \in Shards : manifest.events[s] > 0} = Full(a)
         /\ Written(a) => {s \in Shards : events[s] # {}} = Full(a)
<1>1. ASSUME NEW s \in Shards
      PROVE  Cardinality(EventsIn(a, s)) > 0 <=> EventsIn(a, s) # {}
  BY EventsAreRows, FS_EmptySet, FS_CardinalityType
<1>2. manifest = CompleteManifest(a) =>
        \A s \in Shards : manifest.events[s] = Cardinality(EventsIn(a, s))
  BY DEF CompleteManifest
<1>3. Written(a) => \A s \in Shards : events[s] = EventsIn(a, s)
  BY DEF Written
<1> QED
  BY <1>1, <1>2, <1>3 DEF Full

LEMMA PastJobsThere ==
  ASSUME BatchInv, CountsFaithful, pc \in {"replays", "jobs"}
  PROVE  /\ DOMAIN jobs \subseteq AllJobs(args)
         /\ \A j \in DOMAIN jobs : j \notin Past(args, run, todo)
<1>1. \A j \in DOMAIN jobs : j \in AllJobs(args) /\ j.run = run /\ j.shard \in Batch
  BY DEF CountsFaithful
<1>2. run \in Nat /\ Batch \subseteq todo
  BY ShardsAreFinite DEF BatchInv, Types, Batch
<1> QED
  BY <1>1, <1>2 DEF Past

\* The steps of a batch that take no result.
LEMMA SameCount ==
  ASSUME BatchInv, CountsFaithful,
         pc \in {"replays", "jobs", "failing"}, pc' \in {"replays", "jobs", "failing"},
         pc = "failing" => pc' = "failing",
         UNCHANGED <<args, run, todo, metrics, aggregates>>,
         DOMAIN jobs' = DOMAIN jobs,
         \A j \in DOMAIN jobs : jobs'[j] = "collected" <=> jobs[j] = "collected"
  PROVE  CountsFaithful'
<1> SUFFICES ASSUME pc \in {"replays", "jobs"}, pc' \in {"replays", "jobs"}
             PROVE  CountsFaithful'
  BY DEF CountsFaithful
<1>1. Batch' = Batch /\ Ended' = Ended
  BY DEF Batch, Ended
<1>2. Past(args, run, todo)' = Past(args, run, todo)
  BY DEF Past
<1>3. Collected' = Collected
  BY <1>1, <1>2 DEF Collected
<1>4. Counted(Collected)'
  <2>1. Counted(Collected)
    BY DEF CountsFaithful
  <2> QED
    BY <1>3, <2>1 DEF Counted
<1> QED
  BY <1>1, <1>4 DEF CountsFaithful

\* A result is taken.
LEMMA CollectCount ==
  ASSUME BatchInv, FilesFaithful(args), CountsFaithful,
         DOMAIN aggregates = Methods \X Losses \X TauGrid,
         NEW j \in DOMAIN jobs, CollectRow(j) \/ AddRows(j)
  PROVE  CountsFaithful'
<1>1. /\ pc = "jobs" /\ pc' = "jobs" /\ jobs[j] = "ok"
      /\ jobs' = [jobs EXCEPT ![j] = "collected"]
      /\ UNCHANGED <<args, run, todo>>
  BY DEF CollectRow, AddRows, Collect
<1>2. args \in Args /\ summary[j] = WholeSummary(args, j)
  BY <1>1 DEF BatchInv, Types, FilesFaithful
<1>3. j \in AllJobs(args) /\ j \notin Past(args, run, todo) /\ j.program = args.program
  BY <1>1, <1>2, PastJobsThere, JobFields
<1>4. Ended' = Ended \cup {j} /\ j \notin Ended /\ Batch' = Batch
  BY <1>1 DEF Ended, Batch
<1>5. Past(args, run, todo)' = Past(args, run, todo)
  BY <1>1 DEF Past
<1>6. Collected' = Collected \cup {j} /\ j \notin Collected /\ Counted(Collected)
  BY <1>1, <1>3, <1>4, <1>5 DEF Collected, CountsFaithful
<1>7. Collected \subseteq AllJobs(args)
  BY <1>1, PastJobsThere DEF Collected, Past, Ended
<1>8. IsFiniteSet(Collected) /\ j \in Paths
  BY <1>2, <1>3, <1>7, JobsAreFinite, JobFields, FS_Subset
<1>9. Counted(Collected)'
  <2>1. CASE CollectRow(j)
    <3>1. args.program = "replay" /\ metrics' = metrics \cup {<<j, MeasureOf(args, j)>>}
      BY <1>2, <1>3, <2>1 DEF CollectRow, WholeSummary
    <3>2. metrics = {<<i, MeasureOf(args, i)>> : i \in Collected}
      BY <1>6, <3>1 DEF Counted
    <3>3. metrics' = {<<i, MeasureOf(args, i)>> : i \in Collected \cup {j}}
      BY <3>1, <3>2
    <3> QED
      BY <1>1, <1>6, <3>1, <3>3 DEF Counted
  <2>2. CASE AddRows(j)
    <3>1. args.program = "sweep" /\ args.program # "replay"
      BY <1>3, <2>2 DEF AddRows
    <3>2. ASSUME NEW x \in Methods \X Losses \X TauGrid, NEW c \in Cells
          PROVE  aggregates'[x][c] =
                   Cardinality(Pairs(Collected \cup {j}, CellsFor(args, x, c), Row))
      <4> DEFINE A == CellsFor(args, x, c)
      <4>1. aggregates[x][c] = Cardinality(Pairs(Collected, A, Row))
        BY <1>6, <3>1 DEF Counted
      <4>2. A[j] \subseteq Row
        BY <1>2, <1>8, CellsAreRows
      <4>3. Cardinality(Pairs(Collected \cup {j}, A, Row)) =
              Cardinality(Pairs(Collected, A, Row)) + Cardinality(A[j])
        <5> HIDE DEF A
        <5> QED
          BY <1>6, <1>8, <4>2, RowsAreFinite, PairsGrow
      <4>4. aggregates'[x] = IF IsFor(j, x[1], x[2])
                               THEN [k \in Cells |-> aggregates[x][k] + summary[j].metrics[x[3]][k]]
                               ELSE aggregates[x]
        BY <2>2 DEF AddRows, IsFor
      <4>5. CASE IsFor(j, x[1], x[2])
        <5>1. aggregates'[x][c] = aggregates[x][c] + summary[j].metrics[x[3]][c]
          BY <4>4, <4>5
        <5>2. x[3] \in Taus(j.program)
          BY <1>3, <3>1 DEF Taus
        <5>3. summary[j].metrics[x[3]] =
                Confusion(EventsIn(args, j.shard), FoundIn(args, j, x[3]))
          BY <1>2, <5>2 DEF WholeSummary, MeasureOf
        <5>4. summary[j].metrics[x[3]][c] = Cardinality(CellOf(args, j, x[3], c))
          BY <5>3, ConfusionCounts DEF CellOf
        <5>5. A[j] = CellOf(args, j, x[3], c)
          BY <1>8, <4>5 DEF CellsFor
        <5> QED
          BY <4>1, <4>3, <5>1, <5>4, <5>5
      <4>6. CASE ~IsFor(j, x[1], x[2])
        <5>1. A[j] = {}
          BY <1>8, <4>6 DEF CellsFor
        <5>2. IsFiniteSet(Pairs(Collected, A, Row))
          BY <1>8, RowsAreFinite, PairsAreFinite
        <5>3. Cardinality(Pairs(Collected, A, Row)) \in Nat
          BY <5>2, FS_CardinalityType
        <5> QED
          BY <4>1, <4>3, <4>4, <4>6, <5>1, <5>3, FS_EmptySet
      <4> QED
        BY <4>5, <4>6
    <3> QED
      BY <1>1, <1>6, <3>1, <3>2 DEF Counted
  <2> QED
    BY <2>1, <2>2
<1> QED
  BY <1>1, <1>4, <1>9 DEF CountsFaithful

LEMMA StartCount ==
  ASSUME BatchInv, FaithInv, FaithInv', NEW a \in Args, Start(a),
         pc' # "idle", shapes' \subseteq {ShapeOf(args)'}
  PROVE  CountsFaithful'
<1>1. /\ args' = a /\ run' = 0 /\ metrics' = {} /\ aggregates' = NoRows /\ jobs' = jobs
      /\ DOMAIN jobs = {} /\ manifest' = manifest
      /\ \/ pc' = "shard"
         \/ pc' = "batch" /\ todo' = {s \in Shards : manifest.events[s] > 0}
  BY DEF Start, StartReplay, StartSweep, Begin, UseSource, UseOrMakeShards, BatchInv, Scheduling
<1>2. CASE pc' = "shard"
  BY <1>1, <1>2 DEF CountsFaithful
<1>3. CASE pc' = "batch"
  <2>1. ShardsFaithful(a)'
    BY <1>1 DEF FaithInv
  <2>2. manifest' = CompleteManifest(a)
    BY <1>3, <2>1 DEF ShardsFaithful, Sharded, CompleteManifest
  <2>3. todo' = Full(a)
    BY <1>1, <1>3, <2>2, FullShards
  <2>4. Past(a, 0, Full(a)) = {}
    BY JobFields DEF Past
  <2>5. Collected' = {}
    BY <1>1, <1>3, <2>3, <2>4 DEF Collected, Ended
  <2>6. Counted({})'
    BY <1>1, NothingCounted
  <2> QED
    BY <1>1, <1>3, <2>3, <2>5, <2>6 DEF CountsFaithful
<1> QED
  BY <1>1, <1>2, <1>3

LEMMA ShardCount ==
  ASSUME BatchInv, ShardsFaithful(args), CountsFaithful, ShardRow \/ OpenManifest \/ WriteManifest
  PROVE  CountsFaithful'
<1>1. CASE ShardRow \/ OpenManifest
  BY <1>1 DEF ShardRow, OpenManifest, batchVars, results, CountsFaithful
<1>2. CASE WriteManifest
  <2>1. /\ pc = "manifest" /\ pc' = "batch" /\ todo' = {s \in Shards : events[s] # {}}
        /\ UNCHANGED <<args, run, metrics, aggregates, jobs>>
        /\ run = 0 /\ metrics = {} /\ aggregates = NoRows /\ DOMAIN jobs = {} /\ args \in Args
    BY <1>2 DEF WriteManifest, results, CountsFaithful, BatchInv, Scheduling, Types
  <2>2. Written(args)
    BY <2>1 DEF ShardsFaithful
  <2>3. todo' = Full(args)
    BY <2>1, <2>2, FullShards
  <2>4. Past(args, 0, Full(args)) = {}
    BY <2>1, JobFields DEF Past
  <2>5. Collected' = {}
    BY <2>1, <2>3, <2>4 DEF Collected, Ended
  <2>6. Counted({})'
    BY <2>1, NothingCounted
  <2> QED
    BY <2>1, <2>3, <2>5, <2>6 DEF CountsFaithful
<1> QED
  BY <1>1, <1>2

LEMMA ScheduleCount ==
  ASSUME BatchInv, ShardsFaithful(args), CountsFaithful, ScheduleBatch
  PROVE  CountsFaithful'
<1>1. /\ pc = "batch" /\ pc' = "replays" /\ todo \subseteq Full(args)
      /\ UNCHANGED <<args, run, todo, metrics, aggregates>>
      /\ DOMAIN jobs = {} /\ args \in Args /\ run \in RunIds
  BY DEF ScheduleBatch, results, CountsFaithful, BatchInv, Scheduling, Types
<1>2. Written(args)
  BY <1>1 DEF ShardsFaithful, Sharded
<1>3. BatchShardsThere = Batch /\ Batch \subseteq Full(args) /\ Batch' = Batch
  BY <1>1, <1>2 DEF BatchShardsThere, Batch, Written, Full
<1> DEFINE settings == args.losses \X Delays \X BatchShardsThere
           all == UNION {JobsOn(args, run, x[1], x[2], x[3]) : x \in settings}
<1>4. jobs' = [j \in all |-> "queued"]
  BY DEF ScheduleBatch
<1>5. all = {j \in AllJobs(args) : j.run = run /\ j.shard \in Batch}
  <2>1. ASSUME NEW j \in all PROVE j \in AllJobs(args) /\ j.run = run /\ j.shard \in Batch
    <3>1. PICK x \in settings : j \in JobsOn(args, run, x[1], x[2], x[3])
      OBVIOUS
    <3>2. x[1] \in args.losses /\ x[2] \in Delays /\ x[3] \in Full(args) /\ x[3] \in Batch
      BY <1>3
    <3> QED
      BY <1>1, <3>1, <3>2, JobsOnAreJobs
  <2>2. ASSUME NEW j \in AllJobs(args), j.run = run, j.shard \in Batch PROVE j \in all
    <3>1. PICK r \in RunIds, l \in args.losses, d \in Delays, s \in Full(args) :
            j \in JobsOn(args, r, l, d, s)
      BY DEF AllJobs
    <3>2. r = run /\ s \in Batch
      BY <1>1, <2>2, <3>1, JobsOnAreJobs
    <3>3. <<l, d, s>> \in settings
      BY <1>3, <3>2
    <3> QED
      BY <3>1, <3>2, <3>3
  <2> QED
    BY <2>1, <2>2
<1>6. DOMAIN jobs' = all /\ Ended' = {} /\ Ended = {}
  BY <1>1, <1>4 DEF Ended
<1>7. Collected' = Collected /\ Counted(Collected)
  BY <1>1, <1>6 DEF Collected, CountsFaithful, Past
<1> HIDE DEF all
<1> QED
  BY <1>1, <1>3, <1>5, <1>6, <1>7 DEF CountsFaithful, Counted

\* The jobs of a batch that ends are those of its shards.
LEMMA BatchCount ==
  ASSUME BatchInv, CountsFaithful, BatchEnds
  PROVE  CountsFaithful'
<1>1. /\ pc = "jobs" /\ pc' = "batch" /\ todo' = todo \ Batch
      /\ UNCHANGED <<args, run, metrics, aggregates>>
      /\ Ended = DOMAIN jobs /\ DOMAIN jobs' = {}
  <2>1. jobs' = <<>> /\ \A j \in DOMAIN jobs : jobs[j] = "collected"
    BY DEF BatchEnds
  <2>2. Ended = DOMAIN jobs
    BY <2>1 DEF Ended
  <2>3. DOMAIN jobs' = {}
    BY <2>1
  <2> QED
    BY <2>2, <2>3 DEF BatchEnds, results
<1>2. /\ todo \subseteq Full(args)
      /\ DOMAIN jobs = {j \in AllJobs(args) : j.run = run /\ j.shard \in Batch}
      /\ Counted(Collected)
  BY <1>1 DEF CountsFaithful
<1>3. args \in Args /\ run \in Nat
  BY ShardsAreFinite DEF BatchInv, Types
<1>4. Past(args, run, todo \ Batch) = Past(args, run, todo) \cup DOMAIN jobs
  BY <1>2, <1>3, JobFields DEF Past
<1>5. Collected' = Collected
  BY <1>1, <1>4 DEF Collected, Ended
<1> QED
  BY <1>1, <1>2, <1>5 DEF CountsFaithful, Counted

LEMMA RunCount ==
  ASSUME BatchInv, ShardsFaithful(args), CountsFaithful, RunIdEnds
  PROVE  CountsFaithful'
<1>1. /\ pc = "batch" /\ todo = {} /\ UNCHANGED <<args, metrics, aggregates, jobs>>
      /\ DOMAIN jobs = {} /\ args \in Args /\ run \in Nat /\ BenchmarkRuns \in Nat
      /\ run \in 0..(BenchmarkRuns - 1)
  BY ShardsAreFinite, FullLabelAssumption
     DEF RunIdEnds, results, BatchInv, Scheduling, Types, RunIds
<1>2. manifest = CompleteManifest(args)
  BY <1>1 DEF ShardsFaithful, Sharded
<1>3. Ended = {} /\ Ended' = {}
  BY <1>1 DEF Ended
<1>4. Collected = Past(args, run, {}) /\ Counted(Collected)
  BY <1>1, <1>3 DEF Collected, CountsFaithful
<1>5. \A j \in AllJobs(args) : j.run \in 0..(BenchmarkRuns - 1) /\ j.shard \in Full(args)
  BY <1>1, JobFields DEF RunIds
<1>6. CASE run + 1 < BenchmarkRuns
  <2>1. pc' = "batch" /\ run' = run + 1 /\ todo' = Full(args)
    BY <1>1, <1>2, <1>6, FullShards DEF RunIdEnds
  <2>2. Past(args, run + 1, Full(args)) = Past(args, run, {})
    BY <1>1, <1>5 DEF Past
  <2>3. Collected' = Collected
    BY <1>1, <1>3, <1>4, <2>1, <2>2 DEF Collected
  <2> QED
    BY <1>1, <1>4, <2>1, <2>3 DEF CountsFaithful, Counted
<1>7. CASE ~(run + 1 < BenchmarkRuns)
  <2>1. pc' = "done"
    BY <1>7 DEF RunIdEnds
  <2>2. Past(args, run, {}) = AllJobs(args)
    BY <1>1, <1>5, <1>7 DEF Past
  <2>3. Collected' = Collected
    BY <1>1, <1>4, <2>1, <2>2 DEF Collected
  <2> QED
    BY <1>1, <1>4, <2>1, <2>3 DEF CountsFaithful, Counted
<1> QED
  BY <1>6, <1>7

\* While the program runs.
LEMMA CountStep ==
  ASSUME BatchInv, FaithInv, CountInv, Next, ~ \E a \in Args : Start(a),
         pc' # "idle", shapes' \subseteq {ShapeOf(args)'}
  PROVE  CountsFaithful'
<1>1. /\ pc # "idle" /\ UNCHANGED <<args, shapes>>
      BY DEF Next, Proceed, ShardRow, OpenManifest,
         WriteManifest, ScheduleBatch, OpenReplay, WriteReplay, BeginJobs, JobStep,
         TakeReplayJob, TakeSweepJob, TakeJob, CliReports, CliEnds, CollectRow, AddRows,
         Collect, CollectFailure, RunFails, BatchEnds, RunIdEnds, CliFails, Crash, vars, bounds,
         BatchInv, Scheduling
<1>2. args \in Args /\ shapes \subseteq {ShapeOf(args)}
  BY <1>1 DEF BatchInv, Types, ShapeOf
<1>3. /\ CountsFaithful /\ ShardsFaithful(args) /\ FilesFaithful(args)
      /\ DOMAIN aggregates = Methods \X Losses \X TauGrid
  BY <1>1, <1>2 DEF CountInv, FaithInv
<1>4. CASE ShardRow \/ OpenManifest \/ WriteManifest
  BY <1>3, <1>4, ShardCount
<1>5. CASE ScheduleBatch
  BY <1>3, <1>5, ScheduleCount
<1>6. CASE OpenReplay \/ WriteReplay \/ BeginJobs \/ CollectFailure
  <2>1. /\ pc \in {"replays", "jobs"} /\ pc' \in {"replays", "jobs", "failing"}
        /\ UNCHANGED <<args, run, todo, metrics, aggregates, jobs>>
    BY <1>6 DEF OpenReplay, WriteReplay, BeginJobs, CollectFailure, batchVars, results
  <2> QED
    BY <1>3, <2>1, SameCount
<1>7. ASSUME NEW j \in DOMAIN jobs, JobStep(j) \/ CliFails(j)
      PROVE  CountsFaithful'
  <2>1. CASE CollectRow(j) \/ AddRows(j)
    BY <1>3, <2>1, CollectCount
  <2>2. CASE TakeReplayJob(j) \/ TakeSweepJob(j) \/ CliReports(j) \/ CliEnds(j) \/ CliFails(j)
    <3>1. /\ UNCHANGED <<pc, args, run, todo, metrics, aggregates>>
          /\ \E to \in {"ok", "cli", "writing", "failed"} : jobs' = [jobs EXCEPT ![j] = to]
          /\ jobs[j] # "collected"
      BY <2>2 DEF TakeReplayJob, TakeSweepJob, TakeJob, CliReports, CliEnds, CliFails, results
    <3>2. pc \in {"replays", "jobs", "failing"}
      BY DEF BatchInv, Scheduling
    <3> QED
      BY <1>3, <3>1, <3>2, SameCount
  <2> QED
    BY <1>7, <2>1, <2>2 DEF JobStep
<1>8. CASE BatchEnds
  BY <1>3, <1>8, BatchCount
<1>9. CASE RunIdEnds
  BY <1>3, <1>9, RunCount
<1> QED
  BY <1>4, <1>5, <1>6, <1>7, <1>8, <1>9 DEF Next, Proceed, RunFails, Crash

LEMMA NextCountInv == BatchInv /\ FaithInv /\ FaithInv' /\ CountInv /\ [Next]_vars => CountInv'
<1> SUFFICES ASSUME BatchInv, FaithInv, FaithInv', CountInv, [Next]_vars PROVE CountInv'
  OBVIOUS
<1>1. CASE UNCHANGED vars
  <2>1. Collected' = Collected /\ Batch' = Batch
    BY <1>1 DEF vars, batchVars, Collected, Past, Ended, Batch
  <2>2. UNCHANGED <<pc, args, run, todo, jobs, metrics, aggregates, shapes>>
    BY <1>1 DEF vars, batchVars, results, bounds
  <2>3. Counted(Collected)' = Counted(Collected)
    BY <2>1, <2>2 DEF Counted
  <2> QED
    BY <2>1, <2>2, <2>3 DEF CountInv, CountsFaithful, ShapeOf
<1>2. CASE \E a \in Args : Start(a)
  <2>1. PICK a \in Args : Start(a)
    BY <1>2
  <2>2. /\ shapes' = shapes \cup {<<a.shard_count, a.max_rows>>} /\ aggregates' = NoRows
    BY <2>1 DEF Start, StartReplay, StartSweep, Begin
  <2>3. IsFiniteSet(shapes')
    BY <2>2, FS_AddElement DEF CountInv
  <2>4. pc' # "idle" /\ shapes' \subseteq {ShapeOf(args)'} => CountsFaithful'
    BY <2>1, StartCount
  <2> QED
    BY <2>2, <2>3, <2>4 DEF CountInv, NoRows
<1>3. CASE Next /\ ~ \E a \in Args : Start(a)
  <2>1. /\ shapes' = shapes
        /\ DOMAIN aggregates' \in {DOMAIN aggregates, Methods \X Losses \X TauGrid}
    <3>1. shapes' = shapes /\ \/ aggregates' \in {aggregates, NoRows}
                              \/ \E j \in DOMAIN jobs : AddRows(j)
      BY <1>3 DEF Next, Proceed, ShardRow, OpenManifest,
         WriteManifest, ScheduleBatch, OpenReplay, WriteReplay, BeginJobs, JobStep,
         TakeReplayJob, TakeSweepJob, TakeJob, CliReports, CliEnds, CollectRow,
         AddRows, Collect, CollectFailure, RunFails, BatchEnds, RunIdEnds, CliFails, Crash, vars,
         bounds, batchVars, results
    <3> QED
      BY <3>1 DEF AddRows, NoRows
  <2>2. pc' # "idle" /\ shapes' \subseteq {ShapeOf(args)'} => CountsFaithful'
    BY <1>3, CountStep
  <2> QED
    BY <2>1, <2>2 DEF CountInv
<1> QED
  BY <1>1, <1>2, <1>3

LEMMA InitCountInv == Init => CountInv
BY FS_EmptySet DEF Init, CountInv, NoRows

FullInv == BatchInv /\ FaithInv /\ CountInv

LEMMA SpecFullInv == Spec => []FullInv
<1>1. Init => FullInv
  BY InitBatchInv, InitFaithInv, InitCountInv DEF FullInv
<1>2. FullInv /\ [Next]_vars => FullInv'
  BY NextBatchInv, NextFaithInv, NextCountInv DEF FullInv
<1> QED
  BY <1>1, <1>2, PTL DEF Spec
-----------------------------------------------------------------------------
(* The totals of a report. *)

RowsOverRuns(rows) == Delays \X Pairs(RunIds, rows, Row)

LEMMA OverRunsIsCount ==
  ASSUME args \in Args, NEW rows, \A r \in RunIds : rows[r] \subseteq Row
  PROVE  /\ IsFiniteSet(RowsOverRuns(rows))
         /\ OverRuns(rows) = Cardinality(RowsOverRuns(rows))
         /\ OverRuns(rows) \in Nat
<1> DEFINE w == [r \in RunIds |-> Cardinality(rows[r])]
<1>1. IsFiniteSet(RunIds) /\ IsFiniteSet(Delays) /\ IsFiniteSet(Row)
  BY ShardsAreFinite, RowsAreFinite, FullLabelAssumption
<1>2. SumFunction(w) = Cardinality(Pairs(RunIds, rows, Row))
  <2>1. DOMAIN w = RunIds /\ \A r \in DOMAIN w : rows[r] \subseteq Row /\ w[r] = Cardinality(rows[r])
    OBVIOUS
  <2> HIDE DEF w
  <2> QED
    BY <1>1, <2>1, SumOfCards
<1>3. IsFiniteSet(Pairs(RunIds, rows, Row))
  BY <1>1, PairsAreFinite
<1>4. /\ IsFiniteSet(RowsOverRuns(rows))
      /\ Cardinality(RowsOverRuns(rows)) =
           Cardinality(Delays) * Cardinality(Pairs(RunIds, rows, Row))
  BY <1>1, <1>3, FS_Product DEF RowsOverRuns
<1> QED
  BY <1>2, <1>4, FS_CardinalityType DEF OverRuns

LEMMA OverRunsGrow ==
  ASSUME args \in Args, NEW rows, NEW more,
         \A r \in RunIds : rows[r] \subseteq more[r] /\ more[r] \subseteq Row
  PROVE  OverRuns(rows) <= OverRuns(more)
<1>1. RowsOverRuns(rows) \subseteq RowsOverRuns(more)
  BY DEF RowsOverRuns, Pairs
<1>2. \A r \in RunIds : rows[r] \subseteq Row
  OBVIOUS
<1> QED
  BY <1>1, <1>2, OverRunsIsCount, FS_Subset

LEMMA OverRunsAdd ==
  ASSUME args \in Args, NEW rows, NEW others, NEW both,
         \A r \in RunIds : /\ both[r] = rows[r] \cup others[r] /\ rows[r] \cap others[r] = {}
                           /\ both[r] \subseteq Row
  PROVE  OverRuns(both) = OverRuns(rows) + OverRuns(others)
<1>1. /\ RowsOverRuns(both) = RowsOverRuns(rows) \cup RowsOverRuns(others)
      /\ RowsOverRuns(rows) \cap RowsOverRuns(others) = {}
  BY DEF RowsOverRuns, Pairs
<1>2. \A r \in RunIds : rows[r] \subseteq Row /\ others[r] \subseteq Row
  OBVIOUS
<1> QED
  BY <1>1, <1>2, OverRunsIsCount, DisjointUnion

\* The alerts of a run, against the counterparties that are in the same shard,
\* and the rows in a cell of its confusion matrix.
ShardAlerts(method, loss, tau, r) ==
  {i \in Seen(method, loss, r) :
     Alerted(method, i, TrustedIn(args, ShardFor(Rows[i], args.shard_count)), tau)}
CellAt(method, loss, tau, c) ==
  [r \in RunIds |-> CellSet(EventRows(args), ShardAlerts(method, loss, tau, r), c)]

LEMMA LabelledAreRows == ASSUME args \in Args PROVE EventRows(args) \subseteq Row
BY RowsReadAreRows DEF EventRows, Used, Row

\* The rows that a job counts are those of its run that are in its shard.
LEMMA CellsOfJobs ==
  ASSUME args \in Args, NEW loss \in args.losses, NEW method, NEW tau, NEW c,
         NEW j \in AllJobs(args), IsFor(j, method, loss)
  PROVE  CellsFor(args, <<method, loss, tau>>, c)[j] =
           {i \in CellAt(method, loss, tau, c)[j.run] :
              ShardFor(Rows[i], args.shard_count) = j.shard}
<1>1. j \in Paths /\ j.run \in RunIds
  BY JobFields
<1>2. LossOf(j.loss) = loss
  <2>1. loss \in Losses
    BY DEF Losses
  <2> QED
    BY <2>1, FullLabelAssumption DEF LossOf, IsFor
<1>3. CellsFor(args, <<method, loss, tau>>, c)[j] = CellOf(args, j, tau, c)
  BY <1>1 DEF CellsFor
<1>4. j.method = method
  BY DEF IsFor
<1>5. \A i \in EventsIn(args, j.shard) :
        i \in FoundIn(args, j, tau) <=> i \in ShardAlerts(method, loss, tau, j.run)
  BY <1>2, <1>4 DEF FoundIn, SeenIn, ShardAlerts, Seen, EventsIn
<1>6. CellAt(method, loss, tau, c)[j.run] =
        CellSet(EventRows(args), ShardAlerts(method, loss, tau, j.run), c)
  BY <1>1 DEF CellAt
<1> QED
  BY <1>3, <1>5, <1>6 DEF CellOf, CellSet, EventsIn

\* Each row of a run is counted by one job for each delay.
LEMMA JobsCount ==
  ASSUME args \in Args, NEW loss \in args.losses, NEW method \in Scheduled(args, loss),
         NEW tau, NEW c
  PROVE  Cardinality(Pairs(AllJobs(args), CellsFor(args, <<method, loss, tau>>, c), Row)) =
           OverRuns(CellAt(method, loss, tau, c))
<1> DEFINE A == CellsFor(args, <<method, loss, tau>>, c)
           rows == CellAt(method, loss, tau, c)
           X == Pairs(AllJobs(args), A, Row)
           Y == RowsOverRuns(rows)
           f == [x \in X |-> <<x[1].delay, <<x[1].run, x[2]>>>>]
           shard(i) == ShardFor(Rows[i], args.shard_count)
<1>1. \A r \in RunIds : rows[r] \subseteq EventRows(args)
  BY DEF CellAt, CellSet
<1>2. ASSUME NEW x \in X
      PROVE  /\ x = <<x[1], x[2]>> /\ x[1] \in AllJobs(args) /\ x[2] \in Row
             /\ x[1].run \in RunIds /\ x[1].delay \in Delays /\ x[2] \in rows[x[1].run]
             /\ IsFor(x[1], method, loss) /\ shard(x[2]) = x[1].shard
             /\ x[1].program = args.program /\ x[1] \in Paths
  <2>1. x = <<x[1], x[2]>> /\ x[1] \in AllJobs(args) /\ x[2] \in Row /\ x[2] \in A[x[1]]
    BY DEF Pairs
  <2>2. /\ x[1].run \in RunIds /\ x[1].delay \in Delays /\ x[1] \in Paths
        /\ x[1].program = args.program
    BY <2>1, JobFields
  <2>3. IsFor(x[1], method, loss)
    BY <2>1, <2>2 DEF CellsFor
  <2>4. x[2] \in rows[x[1].run] /\ shard(x[2]) = x[1].shard
    BY <2>1, <2>3, CellsOfJobs
  <2> QED
    BY <2>1, <2>2, <2>3, <2>4
<1>3. f \in [X -> Y]
  <2>1. ASSUME NEW x \in X PROVE <<x[1].delay, <<x[1].run, x[2]>>>> \in Y
    BY <1>2 DEF RowsOverRuns, Pairs
  <2> QED
    BY <2>1
<1>4. ASSUME NEW x \in X, NEW y \in X, f[x] = f[y]
      PROVE  x = y
  <2>1. x[1].delay = y[1].delay /\ x[1].run = y[1].run /\ x[2] = y[2]
    BY <1>4
  <2>2. /\ x[1].method = y[1].method /\ x[1].loss = y[1].loss
        /\ x[1].shard = y[1].shard /\ x[1].program = y[1].program
    BY <1>2, <2>1 DEF IsFor
  <2>3. \A j, k \in Paths : /\ j.delay = k.delay /\ j.run = k.run /\ j.method = k.method
                            /\ j.loss = k.loss /\ j.shard = k.shard /\ j.program = k.program
                            => j = k
    BY DEF Paths, Path
  <2>4. x[1] = y[1]
    BY <1>2, <2>1, <2>2, <2>3
  <2> QED
    BY <1>2, <2>1, <2>4
<1>5. ASSUME NEW y \in Y
      PROVE  \E x \in X : f[x] = y
  <2>1. PICK d \in Delays, r \in RunIds, i \in Row : y = <<d, <<r, i>>>> /\ i \in rows[r]
    BY DEF RowsOverRuns, Pairs
  <2>2. i \in EventRows(args) /\ i \in EventsIn(args, shard(i))
    BY <1>1, <2>1 DEF EventsIn
  <2>3. shard(i) \in Full(args)
    BY <2>2, EventsAreRows DEF Full
  <2> DEFINE j == Path(args.program, r, loss, d, shard(i), method)
  <2>4. j \in AllJobs(args)
    <3>1. j \in JobsOn(args, r, loss, d, shard(i))
      BY DEF JobsOn
    <3> HIDE DEF j
    <3> QED
      BY <2>3, <3>1, JobsOnAreJobs
  <2>5. j.run = r /\ j.delay = d /\ j.shard = shard(i) /\ IsFor(j, method, loss)
    BY DEF Path, IsFor
  <2> HIDE DEF j
  <2>6. i \in A[j]
    BY <2>1, <2>4, <2>5, CellsOfJobs
  <2>7. <<j, i>> \in X
    BY <2>1, <2>4, <2>6 DEF Pairs
  <2> QED
    BY <2>1, <2>5, <2>7
<1>6. IsFiniteSet(X)
  BY JobsAreFinite, RowsAreFinite, PairsAreFinite
<1> HIDE DEF X, Y, f
<1>7. f \in Bijection(X, Y)
  <2>1. DOMAIN f = X
    BY <1>3
  <2> QED
    BY <1>3, <1>4, <1>5, <2>1 DEF Bijection, Injection, Surjection, IsInjective
<1>8. Cardinality(Y) = Cardinality(X)
  BY <1>6, <1>7, FS_Bijection DEF ExistsBijection
<1>9. OverRuns(rows) = Cardinality(RowsOverRuns(rows))
  <2>1. \A r \in RunIds : rows[r] \subseteq Row
    BY <1>1, LabelledAreRows
  <2> QED
    BY <2>1, OverRunsIsCount
<1> QED
  BY <1>8, <1>9 DEF X, Y

\* The sum over the results of a replay.
LEMMA ReplayTotal ==
  ASSUME args \in Args, args.program = "replay", Counted(AllJobs(args)),
         NEW loss \in args.losses, NEW method \in Scheduled(args, loss), NEW c \in Cells
  PROVE  AggregateBy(method, loss, c) = OverRuns(CellAt(method, loss, FixedTau, c))
<1> DEFINE of(j) == CellsFor(args, <<method, loss, FixedTau>>, c)[j]
           D == {y \in metrics : y[1].method = method /\ y[1].loss = LossLabel(loss)}
           w == [y \in D |-> y[2][FixedTau][c]]
           A == [y \in D |-> of(y[1])]
           X == Pairs(D, A, Row)
           Y == Pairs(AllJobs(args), CellsFor(args, <<method, loss, FixedTau>>, c), Row)
           f == [x \in X |-> <<x[1][1], x[2]>>]
<1>1. metrics = {<<j, MeasureOf(args, j)>> : j \in AllJobs(args)}
  BY DEF Counted
<1>2. ASSUME NEW y \in D
      PROVE  /\ y = <<y[1], MeasureOf(args, y[1])>> /\ y[1] \in AllJobs(args)
             /\ IsFor(y[1], method, loss)
             /\ A[y] \subseteq Row /\ w[y] = Cardinality(A[y])
  <2>1. y = <<y[1], MeasureOf(args, y[1])>> /\ y[1] \in AllJobs(args)
    BY <1>1
  <2>2. IsFor(y[1], method, loss)
    BY DEF IsFor
  <2>3. y[1] \in Paths /\ y[1].program = "replay"
    BY <2>1, JobFields
  <2>4. of(y[1]) = CellOf(args, y[1], FixedTau, c)
    BY <2>2, <2>3 DEF CellsFor
  <2>5. y[2][FixedTau] = Confusion(EventsIn(args, y[1].shard), FoundIn(args, y[1], FixedTau))
    <3>1. FixedTau \in Taus(y[1].program)
      BY <2>3 DEF Taus
    <3>2. y[2] = MeasureOf(args, y[1])
      BY <2>1
    <3> QED
      BY <3>1, <3>2 DEF MeasureOf
  <2>6. y[2][FixedTau][c] = Cardinality(of(y[1]))
    BY <2>4, <2>5, ConfusionCounts DEF CellOf
  <2>7. of(y[1]) \subseteq Row
    BY <2>3, CellsAreRows
  <2> QED
    BY <2>1, <2>2, <2>6, <2>7
<1>3. IsFiniteSet(D)
  <2> DEFINE g == [y \in D |-> y[1]]
  <2>1. g \in [D -> AllJobs(args)] /\ \A y, z \in D : g[y] = g[z] => y = z
    BY <1>2
  <2>2. DOMAIN g = D
    OBVIOUS
  <2> HIDE DEF g, D
  <2>3. g \in Injection(D, AllJobs(args))
    BY <2>1, <2>2 DEF Injection, IsInjective
  <2> QED
    BY <2>3, JobsAreFinite, FS_Injection
<1>4. SumFunction(w) = Cardinality(X)
  <2>1. DOMAIN w = D /\ \A y \in DOMAIN w : A[y] \subseteq Row /\ w[y] = Cardinality(A[y])
    BY <1>2
  <2> HIDE DEF w, A, D
  <2> QED
    BY <1>3, <2>1, RowsAreFinite, SumOfCards
<1>5. f \in [X -> Y]
  <2>1. ASSUME NEW x \in X PROVE <<x[1][1], x[2]>> \in Y
    <3>1. x[1] \in D /\ x[2] \in Row /\ x[2] \in A[x[1]]
      BY DEF Pairs
    <3>2. x[1][1] \in AllJobs(args) /\ x[2] \in of(x[1][1])
      BY <1>2, <3>1
    <3> QED
      BY <3>1, <3>2 DEF Pairs
  <2> QED
    BY <2>1
<1>6. ASSUME NEW x \in X, NEW y \in X, f[x] = f[y] PROVE x = y
  <2>1. x = <<x[1], x[2]>> /\ y = <<y[1], y[2]>> /\ x[1] \in D /\ y[1] \in D
    BY DEF Pairs
  <2>2. x[1][1] = y[1][1] /\ x[2] = y[2]
    BY <1>6
  <2>3. \A y1, y2 \in D : y1[1] = y2[1] => y1 = y2
    BY <1>2
  <2>4. x[1] = y[1]
    <3> HIDE DEF D
    <3> QED
      BY <2>1, <2>2, <2>3
  <2> QED
    BY <2>1, <2>2, <2>4
<1>7. ASSUME NEW y \in Y PROVE \E x \in X : f[x] = y
  <2>1. PICK j \in AllJobs(args), i \in Row : y = <<j, i>> /\ i \in of(j)
    BY DEF Pairs
  <2>2. IsFor(j, method, loss)
    BY <2>1, JobFields DEF CellsFor
  <2> DEFINE z == <<j, MeasureOf(args, j)>>
  <2>3. z \in D /\ z[1] = j
    BY <1>1, <2>2 DEF IsFor
  <2> HIDE DEF z
  <2>4. <<z, i>> \in X
    BY <2>1, <2>3 DEF Pairs
  <2> QED
    BY <2>1, <2>3, <2>4
<1>8. Cardinality(Y) = Cardinality(X)
  <2>1. IsFiniteSet(X)
    BY <1>3, RowsAreFinite, PairsAreFinite
  <2>2. DOMAIN f = X
    OBVIOUS
  <2> HIDE DEF X, Y, f
  <2>3. f \in Bijection(X, Y)
    BY <1>5, <1>6, <1>7, <2>2 DEF Bijection, Injection, Surjection, IsInjective
  <2> QED
    BY <2>1, <2>3, FS_Bijection DEF ExistsBijection
<1>9. AggregateBy(method, loss, c) = SumFunction(w)
  BY DEF AggregateBy
<1> QED
  BY <1>4, <1>8, <1>9, JobsCount

LEMMA TotalIsCount ==
  ASSUME args \in Args, Counted(AllJobs(args)), NEW loss \in args.losses,
         NEW method \in Scheduled(args, loss), NEW tau \in Taus(args.program), NEW c \in Cells
  PROVE  Total(method, loss, tau, c) = OverRuns(CellAt(method, loss, tau, c))
<1>1. CASE args.program = "replay"
  BY <1>1, ReplayTotal DEF Total, Taus
<1>2. CASE args.program # "replay"
  <2>1. <<method, loss, tau>> \in Methods \X Losses \X TauGrid
    <3>1. method \in Methods
      <4>1. args.methods \in {b.methods : b \in Args}
        OBVIOUS
      <4>2. args.methods \subseteq Methods
        BY <4>1 DEF Methods
      <4>3. Production \in Methods
        BY DEF Methods
      <4> QED
        BY <4>2, <4>3 DEF Scheduled, ReplayMethods
    <3>2. loss \in Losses /\ tau \in TauGrid
      BY <1>2 DEF Losses, Taus
    <3> QED
      BY <3>1, <3>2
  <2>2. Total(method, loss, tau, c) =
          Cardinality(Pairs(AllJobs(args), CellsFor(args, <<method, loss, tau>>, c), Row))
    BY <1>2, <2>1 DEF Total, Counted
  <2> QED
    BY <2>2, JobsCount
<1> QED
  BY <1>1, <1>2

\* The alerts of a shard lie between those against the victim's own
\* counterparties, which are in its shard, and those against all.
LEMMA AlertsBetween ==
  ASSUME args \in Args, NEW method, NEW loss, NEW tau, NEW r
  PROVE  /\ OwnAlerts(method, loss, tau, r) \subseteq ShardAlerts(method, loss, tau, r)
         /\ ShardAlerts(method, loss, tau, r) \subseteq AllAlerts(method, loss, tau, r)
         /\ AllAlerts(method, loss, tau, r) \subseteq EventRows(args)
<1>1. ASSUME NEW i
      PROVE  {t \in Trusted(args) : Rows[t].victim = Rows[i].victim}
               \subseteq TrustedIn(args, ShardFor(Rows[i], args.shard_count))
  BY DEF TrustedIn, ShardFor
<1>2. ASSUME NEW i, NEW S, NEW T, S \subseteq T, Alerted(method, i, S, tau)
      PROVE  Alerted(method, i, T, tau)
  BY <1>2 DEF Alerted, Alike
<1>3. \A s : TrustedIn(args, s) \subseteq Trusted(args)
  BY DEF TrustedIn
<1>4. OwnAlerts(method, loss, tau, r) \subseteq ShardAlerts(method, loss, tau, r)
  BY <1>1, <1>2 DEF OwnAlerts, ShardAlerts
<1>5. ShardAlerts(method, loss, tau, r) \subseteq AllAlerts(method, loss, tau, r)
  BY <1>2, <1>3 DEF AllAlerts, ShardAlerts
<1> QED
  BY <1>4, <1>5 DEF AllAlerts, Seen

LEMMA TotalsAreExact ==
  ASSUME args \in Args, Counted(AllJobs(args))
  PROVE  \A loss \in args.losses : \A method \in Scheduled(args, loss) :
         \A tau \in Taus(args.program) :
           LET cell(c) == Total(method, loss, tau, c)
               pos == Positives(EventRows(args))
               own == [r \in RunIds |-> OwnAlerts(method, loss, tau, r)]
               all == [r \in RunIds |-> AllAlerts(method, loss, tau, r)]
               among(S, alerts) == [r \in RunIds |-> S \cap alerts[r]]
           IN /\ cell("tp") + cell("fn") = OverRuns([r \in RunIds |-> pos])
              /\ cell("fp") + cell("tn") = OverRuns([r \in RunIds |-> EventRows(args) \ pos])
              /\ OverRuns(among(pos, own)) <= cell("tp")
              /\ cell("tp") <= OverRuns(among(pos, all))
              /\ OverRuns(own) <= cell("tp") + cell("fp")
              /\ cell("tp") + cell("fp") <= OverRuns(all)
<1> TAKE loss \in args.losses
<1> TAKE method \in Scheduled(args, loss)
<1> TAKE tau \in Taus(args.program)
<1> DEFINE cell(c) == Total(method, loss, tau, c)
           at(c) == CellAt(method, loss, tau, c)
           pos == Positives(EventRows(args))
           own == [r \in RunIds |-> OwnAlerts(method, loss, tau, r)]
           all == [r \in RunIds |-> AllAlerts(method, loss, tau, r)]
           found == [r \in RunIds |-> ShardAlerts(method, loss, tau, r)]
           among(S, alerts) == [r \in RunIds |-> S \cap alerts[r]]
           each(S) == [r \in RunIds |-> S]
<1>1. \A c \in Cells : cell(c) = OverRuns(at(c))
  BY TotalIsCount
<1>2. /\ pos \subseteq EventRows(args) /\ EventRows(args) \subseteq Row
      /\ \A i \in EventRows(args) : i \in pos <=> IsPositive(Rows[i])
  BY LabelledAreRows DEF Positives
<1>3. ASSUME NEW r \in RunIds
      PROVE  /\ own[r] \subseteq found[r] /\ found[r] \subseteq all[r]
             /\ all[r] \subseteq EventRows(args)
  BY AlertsBetween
<1>4. ASSUME NEW r \in RunIds
      PROVE  /\ at("tp")[r] = pos \cap found[r]
             /\ at("fp")[r] = found[r] \ pos
             /\ at("fn")[r] = pos \ found[r]
             /\ at("tn")[r] = (EventRows(args) \ pos) \ found[r]
  BY <1>2, <1>3 DEF CellAt, CellSet
<1>5. {"tp", "fp", "fn", "tn"} = Cells
  BY DEF Cells
<1> HIDE DEF cell, at, pos, own, all, found
<1>6. OverRuns(each(pos)) = OverRuns(at("tp")) + OverRuns(at("fn"))
  BY <1>2, <1>4, OverRunsAdd
<1>7. OverRuns(each(EventRows(args) \ pos)) = OverRuns(at("fp")) + OverRuns(at("tn"))
  <2>1. \A r \in RunIds : /\ EventRows(args) \ pos = at("fp")[r] \cup at("tn")[r]
                          /\ at("fp")[r] \cap at("tn")[r] = {}
    BY <1>3, <1>4
  <2> QED
    BY <1>2, <2>1, OverRunsAdd
<1>8. OverRuns(found) = OverRuns(at("tp")) + OverRuns(at("fp"))
  <2>1. \A r \in RunIds : /\ found[r] = at("tp")[r] \cup at("fp")[r]
                          /\ at("tp")[r] \cap at("fp")[r] = {} /\ found[r] \subseteq Row
    BY <1>2, <1>3, <1>4
  <2> QED
    BY <2>1, OverRunsAdd
<1>9. /\ OverRuns(among(pos, own)) <= OverRuns(at("tp"))
      /\ OverRuns(at("tp")) <= OverRuns(among(pos, all))
  <2>1. \A r \in RunIds : /\ among(pos, own)[r] \subseteq at("tp")[r] /\ at("tp")[r] \subseteq Row
                          /\ at("tp")[r] \subseteq among(pos, all)[r]
                          /\ among(pos, all)[r] \subseteq Row
    BY <1>2, <1>3, <1>4
  <2> HIDE DEF among
  <2> QED
    BY <2>1, OverRunsGrow
<1>10. OverRuns(own) <= OverRuns(found) /\ OverRuns(found) <= OverRuns(all)
  <2>1. \A r \in RunIds : /\ own[r] \subseteq found[r] /\ found[r] \subseteq Row
                          /\ found[r] \subseteq all[r] /\ all[r] \subseteq Row
    BY <1>2, <1>3
  <2> QED
    BY <2>1, OverRunsGrow
<1>11. /\ cell("tp") = OverRuns(at("tp")) /\ cell("fp") = OverRuns(at("fp"))
       /\ cell("fn") = OverRuns(at("fn")) /\ cell("tn") = OverRuns(at("tn"))
  BY <1>1, <1>5
<1>12. /\ cell("tp") + cell("fn") = OverRuns(each(pos))
       /\ cell("fp") + cell("tn") = OverRuns(each(EventRows(args) \ pos))
       /\ OverRuns(among(pos, own)) <= cell("tp")
       /\ cell("tp") <= OverRuns(among(pos, all))
       /\ OverRuns(own) <= cell("tp") + cell("fp")
       /\ cell("tp") + cell("fp") <= OverRuns(all)
  BY <1>6, <1>7, <1>8, <1>9, <1>10, <1>11
<1> QED
  BY <1>12 DEF cell, pos, own, all

\* The report of a directory whose runs all asked for the same shards counts
\* each labelled row once per run and delay, and takes it for an alert by the
\* counterparties in its shard (benchmark_pipeline.py 1673-1806, 2315-2398).
THEOREM ReportsAreExact == Spec => []CountsAreExact
<1>1. ASSUME FullInv, pc = "done", Cardinality(shapes) = 1
      PROVE  args \in Args /\ Counted(AllJobs(args))
  <2>1. args \in Args /\ ShapeOf(args) \in shapes /\ IsFiniteSet(shapes)
    BY <1>1 DEF FullInv, BatchInv, Types, FaithInv, CountInv
  <2>2. shapes \subseteq {ShapeOf(args)}
    BY <1>1, <2>1, FS_Singleton
  <2>3. Counted(Collected)
    BY <1>1, <2>2 DEF FullInv, CountInv, CountsFaithful
  <2> QED
    BY <1>1, <2>1, <2>3 DEF Collected
<1>2. FullInv => CountsAreExact
  BY <1>1, TotalsAreExact DEF CountsAreExact
<1> QED
  BY <1>2, SpecFullInv, PTL
=============================================================================
