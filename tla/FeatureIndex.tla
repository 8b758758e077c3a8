---------------------------- MODULE FeatureIndex ----------------------------
(***************************************************************************)
(* The index of scripts/export_risk_training_dataset.py.  The weights the  *)
(* detector scores with are learned from features that this script writes  *)
(* for every labelled transfer: those of the counterparties it retrieves,  *)
(* prunes and finds active by code of its own, in Python.  What it sees    *)
(* has to be what the detector sees; they are compared over the rows that  *)
(* the detector has loaded.                                                *)
(***************************************************************************)
EXTENDS Detector

\* is_active.  Other than for the detector no day is unknown; the day 0 of
\* 1970 is long ago.
IsActive(p, row) ==
  row.seen <= p.at /\ (WindowDays <= 0 \/ p.at - row.seen <= WindowDays)

\* token_context_score and transfer_type_score, in hundredths.
TokenScore(p, row) ==
  CASE p.token = NoToken \/ row.token = NoToken -> 40
    [] p.token = row.token -> 20
    [] <<p.token, row.token>> \in Counterfeits -> 100
    [] OTHER -> 70

\* The keys of the postings: the first kp nibbles, the last ks in reverse.
PrefixKeys == [r \in Recipients |-> [i \in 1..Least(KP, AddrLen) |-> r[i]]]
SuffixKeys == [r \in Recipients |-> [i \in 1..Least(KS, AddrLen) |-> r[AddrLen + 1 - i]]]

\* Bug: the postings of the last depth are not asked.
BugDepths(key, minDepth) == {d \in DOMAIN key : d >= minDepth /\ d < Len(key)}

\* The depths that are asked.  Other than in the detector a least depth out
\* of range is taken as it is.
Depths(key, minDepth) == {d \in DOMAIN key : d >= minDepth}

\* The depths at which the postings of a key have a recipient; its count at
\* each is the number of its rows.
Posted(victim, r, keys, key, minDepth) ==
  {d \in Depths(key, minDepth) : /\ recipients[victim][r] # <<>>
                                 /\ \A j \in 1..d : keys[r][j] = key[j]}

Postings(victim, keys, key, minDepth) ==
  LET frequency == [r \in Recipients |-> Len(recipients[victim][r])
                                         * Cardinality(Posted(victim, r, keys, key, minDepth))]
  IN  [r \in {q \in Recipients : frequency[q] > 0} |-> frequency[r]]

ActiveRows(p, victim, r) ==
  {i \in DOMAIN recipients[victim][r] : IsActive(p, recipients[victim][r][i])}

\* The rank and the frequency prune sorts by, scaled as in Detector; it
\* passes over the rows that are not active.
PruneKey(p, victim, r, freq) ==
  LET row(i) == recipients[victim][r][i]
      bonus(i) == CASE p.token # NoToken /\ row(i).token = p.token -> 60000000
                    [] TokenScore(p, row(i)) = 100 -> 30000000
                    [] OTHER -> 0
      active == ActiveRows(p, victim, r)
  IN  <<60 * freq
          + MapThenSumSet(LAMBDA i : bonus(i) + 600000 \div (1 + p.at - row(i).seen), active),
        Max({freq} \cup {row(i).freq : i \in active})>>

\* (-score, -frequency, recipient)
SortedBefore(a, b, keyA, keyB) ==
  \/ keyA[1] > keyB[1]
  \/ keyA[1] = keyB[1] /\ keyA[2] > keyB[2]
  \/ keyA = keyB /\ Lexicographic(a, b)

Prune(p, victim, candidates) ==
  LET key == [r \in DOMAIN candidates |-> PruneKey(p, victim, r, candidates[r])]
      before(r) == {q \in DOMAIN candidates : SortedBefore(q, r, key[q], key[r])}
  IN  IF MaxCandidatesPerSide = 0 \/ Cardinality(DOMAIN candidates) <= MaxCandidatesPerSide
        THEN DOMAIN candidates
        ELSE {r \in DOMAIN candidates : Cardinality(before(r)) < MaxCandidatesPerSide}

\* candidate_ids
ExportCandidates(p, victim, lookalike) ==
  Prune(p, victim, Postings(victim, PrefixKeys, PrefixKey(lookalike), MinPrefixDepth))
  \cup
  Prune(p, victim, Postings(victim, SuffixKeys, SuffixKey(lookalike), MinSuffixDepth))

\* The rows best_features takes the best of; their number is
\* candidates_scored, and found_candidate says whether there is one.
ScoredRows(p, victim, lookalike) ==
  UNION {{r} \X ActiveRows(p, victim, r) :
           r \in ExportCandidates(p, victim, lookalike) \ {lookalike}}
-----------------------------------------------------------------------------
(* Properties. *)

\* The two implementations differ by design or by accident in what follows;
\* elsewhere they are to agree.
Comparable(p, victim, lookalike) ==
  /\ p.at # 0
  /\ MinPrefixDepth \in 1..KP /\ MinSuffixDepth \in 1..KS
  /\ \/ Uncrowded(victim, lookalike)
     \/ \A r \in Recipients : ActiveRows(p, victim, r) = DOMAIN recipients[victim][r]

\* The features are those of the recipients the detector scores: the
\* exporter retrieves the same candidates, also of a crowded side as long as
\* no row has expired; so a transfer that is exported as one without a
\* candidate raises no alert, with whatever weights are learned from it
\* (export_risk_training_dataset.py 247-342 against engine.go 531-621).
ExportSeesCandidates ==
  \A p \in Pendings : \A pair \in Pairs(p) :
    Comparable(p, pair[1], pair[2]) =>
      /\ ExportCandidates(p, pair[1], pair[2]) = CandidateIDs(p, pair[1], pair[2], "union", TRUE)
      /\ \A a \in Detect(p, "union", TRUE) :
           a.victim = pair[1] /\ a.lookalike = pair[2] =>
             \/ ScoredRows(p, pair[1], pair[2]) # {}
             \/ \E i \in DOMAIN recipients[a.victim][a.matched] :
                  recipients[a.victim][a.matched][i].seen = 0
=============================================================================
