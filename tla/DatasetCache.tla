---------------------------- MODULE DatasetCache ----------------------------
(***************************************************************************)
(* The Parquet cache of the labelled dataset (python/benchmark_pipeline.py *)
(* 173-345 and 470-528): a run that finds no cache for its request reads   *)
(* the rows of the SQL dump batch by batch into a temporary file, moves    *)
(* the file into place and then writes a second file that says how many    *)
(* rows were asked for; a later run trusts that second file.               *)
(*                                                                         *)
(* The dump, the cache, its metadata and the temporary file survive a      *)
(* crash, the rest is the memory of the process.  A row is the number of   *)
(* its line in the dump.                                                   *)
(***************************************************************************)
EXTENDS Integers, Sequences

CONSTANTS
  Dumps,       \* the dumps that may be in place: sequences of kinds of lines
  Requests,    \* values of --max-rows that ask for rows; 0 asks for all
  BatchSize,   \* rows of a batch, 100000
  MaxStarts    \* bound on the runs of the program

\* "copy" opens the table and "end" closes it; a "row" has all its columns
\* and a victim, a lookalike and a token, a "bad" line has not.
LineKinds == {"other", "copy", "row", "bad", "end"}

ASSUME CacheAssumption ==
  /\ Dumps \subseteq Seq(LineKinds) /\ Dumps # {}
  /\ Requests \subseteq Nat
  /\ BatchSize \in Nat \ {0}
  /\ MaxStarts \in Nat

VARIABLES
  dump,         \* the SQL dump
  cache,        \* the Parquet file
  meta,         \* the file beside it, as it reads
  tmp,          \* the temporary file
  stage,        \* where the process is
  request,      \* max_rows of the run
  line,         \* the next line iter_sql_rows reads
  inCopy,       \* in_copy
  batch,        \* rows read and not yet written
  served,       \* the rows the run goes on with
  runs,         \* runs started
  source,       \* history: the dump the cache was made from
  unpublished   \* history: the cache is newer than its metadata

cacheFiles == <<cache, meta, tmp>>
reading == <<line, inCopy, batch>>
history == <<source, unpublished>>
cacheVars == <<dump, cacheFiles, stage, request, reading, served, runs, history>>

NoFile == [there |-> FALSE, rows |-> <<>>]
File(rows) == [there |-> TRUE, rows |-> rows]

\* A metadata file that is missing or is no JSON reads as an empty record,
\* whose max_rows defaults to -1 and rows to 0.
NoMeta == [max_rows |-> -1, rows |-> 0]

CacheInit ==
  /\ dump \in Dumps
  /\ cache = NoFile /\ meta = NoMeta /\ tmp = NoFile
  /\ stage = "idle"
  /\ request = 0
  /\ line = 1 /\ inCopy = FALSE /\ batch = <<>>
  /\ served = NoFile
  /\ runs = 0
  /\ source = dump
  /\ unpublished = FALSE
-----------------------------------------------------------------------------
\* Bug: a cache made for another number of rows will do.
BugCoversAny(maxRows) == cache.there

\* dataset_cache_covers_request.  Its last condition, that the rows written
\* are at least the lesser of max_rows and themselves, always holds.
Covers(maxRows) ==
  /\ cache.there
  /\ \/ meta.max_rows = 0 /\ meta.rows > 0
     \/ meta.max_rows < 0 /\ maxRows > 0
     \/ meta.max_rows > 0 /\ maxRows > 0 /\ meta.max_rows >= maxRows

\* The dump is replaced by another one between two runs.  The metadata has
\* its size and time, which nobody compares.
ReplaceDump ==
  /\ stage = "idle"
  /\ dump' \in Dumps \ {dump}
  /\ UNCHANGED <<cacheFiles, stage, request, reading, served, runs, history>>

\* A run asks for rows, with or without --refresh-dataset-cache.  Before the
\* first batch is written a temporary file of an earlier run is removed.
StartRun(maxRows, refresh) ==
  /\ stage = "idle"
  /\ runs < MaxStarts
  /\ runs' = runs + 1
  /\ request' = maxRows
  /\ served' = NoFile
  /\ IF refresh \/ ~Covers(maxRows)
       THEN /\ stage' = "normalize"
            /\ tmp' = NoFile
            /\ line' = 1 /\ inCopy' = FALSE /\ batch' = <<>>
       ELSE /\ stage' = "read"
            /\ UNCHANGED <<tmp, reading>>
  /\ UNCHANGED <<dump, cache, meta, history>>
-----------------------------------------------------------------------------
(* write_parquet_dataset_cache over iter_sql_rows. *)

Yielded == Len(tmp.rows) + Len(batch)
EnoughRows == request # 0 /\ Yielded >= request

\* The loop is left at the end of the table, of the dump, or of the request.
DumpEnds ==
  \/ EnoughRows
  \/ line \notin DOMAIN dump
  \/ line \in DOMAIN dump /\ inCopy /\ dump[line] = "end"

WriteBatch(rows) == tmp' = File(tmp.rows \o rows)

\* The row of the line joins the batch, and a full batch is written.
TakeRow ==
  IF Len(batch) + 1 >= BatchSize
    THEN WriteBatch(Append(batch, line)) /\ batch' = <<>>
    ELSE batch' = Append(batch, line) /\ UNCHANGED tmp

ReadLine ==
  /\ stage = "normalize"
  /\ ~DumpEnds
  /\ line' = line + 1
  /\ inCopy' = (inCopy \/ dump[line] = "copy")
  /\ IF inCopy /\ dump[line] = "row" THEN TakeRow ELSE UNCHANGED <<batch, tmp>>
  /\ UNCHANGED <<dump, cache, meta, stage, request, served, runs, history>>

\* Bug: the last batch, which is not full, is left behind.
BugLastBatch ==
  /\ stage = "normalize"
  /\ DumpEnds
  /\ stage' = IF tmp.there THEN "replace" ELSE "idle"
  /\ batch' = <<>>
  /\ UNCHANGED <<dump, cacheFiles, request, line, inCopy, served, runs, history>>

\* The last batch is written.  A dump without rows is an error, which ends
\* the run and leaves the disk as it was.
LastBatch ==
  /\ stage = "normalize"
  /\ DumpEnds
  /\ IF batch = <<>> THEN UNCHANGED tmp ELSE WriteBatch(batch)
  /\ stage' = IF Yielded = 0 THEN "idle" ELSE "replace"
  /\ batch' = <<>>
  /\ UNCHANGED <<dump, cache, meta, request, line, inCopy, served, runs, history>>

\* tmp_path.replace(cache_path)
Replace ==
  /\ stage = "replace"
  /\ cache' = tmp
  /\ tmp' = NoFile
  /\ stage' = "meta"
  /\ source' = dump
  /\ unpublished' = TRUE
  /\ UNCHANGED <<dump, meta, request, reading, served, runs>>

\* write_text opens the file, which empties it, and then writes it.
OpenMeta ==
  /\ stage = "meta"
  /\ meta' = NoMeta
  /\ stage' = "meta open"
  /\ UNCHANGED <<dump, cache, tmp, request, reading, served, runs, history>>

WriteMeta ==
  /\ stage = "meta open"
  /\ meta' = [max_rows |-> request, rows |-> Len(cache.rows)]
  /\ stage' = "read"
  /\ unpublished' = FALSE
  /\ UNCHANGED <<dump, cache, tmp, request, reading, served, runs, source>>

\* read_parquet_dataset_cache, or the same rows one by one in
\* iter_parquet_label_rows.
Read ==
  /\ stage = "read"
  /\ served' = IF request > 0 /\ Len(cache.rows) > request
                 THEN File(SubSeq(cache.rows, 1, request))
                 ELSE cache
  /\ stage' = "idle"
  /\ UNCHANGED <<dump, cacheFiles, request, reading, runs, history>>

\* The process ends where it is, and its memory with it: interrupted, killed,
\* or by an exception of the reader or the writer.
Interrupt ==
  /\ stage # "idle"
  /\ stage' = "idle"
  /\ line' = 1 /\ inCopy' = FALSE /\ batch' = <<>>
  /\ UNCHANGED <<dump, cacheFiles, request, served, runs, history>>

CacheNext ==
  \/ ReplaceDump
  \/ \E maxRows \in Requests, refresh \in BOOLEAN : StartRun(maxRows, refresh)
  \/ ReadLine \/ LastBatch \/ Replace \/ OpenMeta \/ WriteMeta
  \/ Read \/ Interrupt

CacheSpec == CacheInit /\ [][CacheNext]_cacheVars
-----------------------------------------------------------------------------
(* Properties. *)

\* The rows of a dump, said of the dump alone: the lines of that kind after
\* one that opens the table and with no end of the table in between.
Usable(d) ==
  {i \in DOMAIN d :
     /\ d[i] = "row"
     /\ \E c \in 1..(i-1) : /\ d[c] = "copy"
                            /\ \A b \in 1..(c-1) : d[b] # "copy"
                            /\ \A e \in (c+1)..(i-1) : d[e] # "end"}

\* Rows of d in the order of the dump, from the first on, with no gap.
Leading(rows, d) ==
  /\ \A i \in DOMAIN rows : rows[i] \in Usable(d)
  /\ \A i, j \in DOMAIN rows : i < j => rows[i] < rows[j]
  /\ \A i \in DOMAIN rows, u \in Usable(d) :
       u < rows[i] => \E j \in DOMAIN rows : rows[j] = u

All(rows, d) == \A u \in Usable(d) : \E i \in DOMAIN rows : rows[i] = u

\* As many leading rows as were asked for, or all when there are fewer.
Answers(rows, maxRows, d) ==
  /\ Leading(rows, d)
  /\ maxRows > 0 => Len(rows) <= maxRows
  /\ (maxRows = 0 \/ Len(rows) < maxRows) => All(rows, d)

\* A run that goes on with the cache, whoever made it and for whatever
\* request, goes on with exactly the rows it asked for, of the dump the cache
\* was made from.  The exception is a run that was interrupted after it had
\* moved its cache into place and before its metadata was complete: older
\* metadata, or none, then vouches for the new cache (284-321 and 255-267).
CoveredIsServed ==
  served.there /\ ~unpublished => Answers(served.rows, request, source)

\* Whenever the program is interrupted, the file in place is whole: it has
\* the answer to a request that was made, and is never the half of one
\* (288-320).
CacheIsWhole ==
  cache.there => \E maxRows \in Requests : Answers(cache.rows, maxRows, source)
=============================================================================
