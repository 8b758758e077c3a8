------------------------------ MODULE DBIndex ------------------------------
(***************************************************************************)
(* The SQLite baseline of the detector (internal/detector/db_index.go): a  *)
(* table of the trusted recipients of a loaded engine with columns for     *)
(* their first and last nibbles, and a query per depth, deepest first,     *)
(* until a side is full.  It is compared with the retrieval of the tries,  *)
(* which it is to replace in the benchmark.                                *)
(***************************************************************************)
EXTENDS Detector

CONSTANTS
  DisplayNibbles,   \* displayPrefixNibbles and displaySuffixNibbles, both 6
  DefaultLimit      \* the limit of a side when none is configured, 4096

ASSUME DBAssumption ==
  /\ DisplayNibbles \in 1..AddrLen
  /\ DefaultLimit \in Nat \ {0}

SideLimit == IF MaxCandidatesPerSide = 0 THEN DefaultLimit ELSE MaxCandidatesPerSide

DBDepth(depth) == ClampDepth(depth, DisplayNibbles)
\* Bug: the loop over the depths stops before the least one.
BugStopEarly(minDepth, depth) == Least(DBDepth(minDepth) + 1, DBDepth(depth))

DBMinDepth(minDepth, depth) == Least(DBDepth(minDepth), DBDepth(depth))

\* The rows with the nibbles of key up to a depth: WHERE victim = ? AND
\* prefix<depth> = ?, or suffix<depth> = ?.
Matches(victim, key, columns, depth) ==
  {r \in Trusted(victim) : \A i \in 1..depth : columns[r][i] = key[i]}

FirstByRecipient(rows, limit) ==
  {r \in rows : Cardinality({q \in rows : Lexicographic(q, r)}) < limit}

\* querySideInto: ORDER BY recipient LIMIT the places that are left.  The
\* rows that come may be in the side already.
QuerySide(side, rows, limit) == side \cup FirstByRecipient(rows, limit)

FillSide(victim, key, columns, maxDepth, minDepth) ==
  LET side[d \in minDepth..(maxDepth + 1)] ==
        IF d = maxDepth + 1 THEN {}
        ELSE IF Cardinality(side[d + 1]) >= SideLimit THEN side[d + 1]
        ELSE QuerySide(side[d + 1], Matches(victim, key, columns, d),
                       SideLimit - Cardinality(side[d + 1]))
  IN  side[minDepth]

\* The columns hold nibbles of the whole address, whatever KP and KS are.
Forward(address) == address
Backward(address) == [i \in 1..AddrLen |-> address[AddrLen + 1 - i]]

PrefixColumns == [r \in Recipients |-> Forward(r)]
SuffixColumns == [r \in Recipients |-> Backward(r)]

DBPrefixSide(victim, lookalike) ==
  FillSide(victim, Forward(lookalike), PrefixColumns,
           DBDepth(KP), DBMinDepth(MinPrefixDepth, KP))

DBSuffixSide(victim, lookalike) ==
  FillSide(victim, Backward(lookalike), SuffixColumns,
           DBDepth(KS), DBMinDepth(MinSuffixDepth, KS))

DBCandidateIDs(victim, lookalike) ==
  DBPrefixSide(victim, lookalike) \cup DBSuffixSide(victim, lookalike)

DetectDBIndex(p) ==
  UNION {{Alert(pair, r) :
            r \in {c \in DBCandidateIDs(pair[1], pair[2]) :
                     Scores(p, pair[1], pair[2], c)}} : pair \in Pairs(p)}
-----------------------------------------------------------------------------
(* Properties.  The index is built from an engine that has been loaded.     *)

\* A side that has room for the rows of its last query twice where they also
\* match one level deeper: the deeper rows take up places of the query.
Roomy(victim, key, columns, maxDepth, minDepth) ==
  LET last == Cardinality(Matches(victim, key, columns, minDepth))
      deeper == IF minDepth = maxDepth THEN 0
                ELSE Cardinality(Matches(victim, key, columns, minDepth + 1))
  IN  last + deeper <= SideLimit

\* A crowded side never exceeds its limit, and it holds the closest
\* recipients: all those at the deepest depth with any, or the first of them
\* when they alone fill it (db_index.go 252-262 and 264-289).
DBDeepestFirst ==
  loading = "loaded" =>
    \A v \in Victims, p \in Pendings :
      LET key == Forward(p.to)
          side == DBPrefixSide(v, p.to)
          depths == {d \in DBMinDepth(MinPrefixDepth, KP)..DBDepth(KP) :
                       Matches(v, key, PrefixColumns, d) # {}}
          closest == Matches(v, key, PrefixColumns, Max(depths))
      IN  /\ Cardinality(side) <= SideLimit
          /\ depths # {} =>
               IF Cardinality(closest) >= SideLimit
                 THEN side = FirstByRecipient(closest, SideLimit)
                 ELSE closest \subseteq side

\* No side is short of room, and all depths have a column.  That the
\* candidates of a side are within its limit is not enough: a query returns
\* rows found deeper once more, and they count against what is left.
SidesRoomy(p) ==
  /\ ClampDepth(MinPrefixDepth, KP) <= DisplayNibbles
  /\ ClampDepth(MinSuffixDepth, KS) <= DisplayNibbles
  /\ \A pair \in Pairs(p) :
       /\ Uncrowded(pair[1], pair[2])
       /\ Roomy(pair[1], Forward(pair[2]), PrefixColumns,
                DBDepth(KP), DBMinDepth(MinPrefixDepth, KP))
       /\ Roomy(pair[1], Backward(pair[2]), SuffixColumns,
                DBDepth(KS), DBMinDepth(MinSuffixDepth, KS))

\* The two ways to retrieve raise the same alerts as long as no side is
\* short of room, and a side that is short of room keeps the deepest
\* (db_index.go 238-289 against engine.go 531-571).
DBAgreesWithTrie ==
  /\ DBDeepestFirst
  /\ loading = "loaded" =>
       \A p \in Pendings : SidesRoomy(p) => DetectDBIndex(p) = Detect(p, "union", TRUE)
=============================================================================
