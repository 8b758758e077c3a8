------------------------------ MODULE Detector ------------------------------
(***************************************************************************)
(* The retrieval core of the detector (internal/detector: trie.go,         *)
(* engine.go, engine_linear.go, score.go).  LoadCounterparties indexes the *)
(* trusted counterparties of every protected account in a trie over their  *)
(* first nibbles and a trie over their last ones.  A pending transfer is   *)
(* then compared only with the recipients these tries retrieve, pruned to  *)
(* a number per side.  The linear scan, which compares it with all of      *)
(* them, is the reference.                                                 *)
(*                                                                         *)
(* An address is a sequence of AddrLen nibbles (40 in the code).  Tokens   *)
(* are compared by identity, so they are model values; time is counted in  *)
(* days since 1970.  Scores are those of the mode logistic_lr, the         *)
(* default, over scaled integers: its sigmoid is monotonic, so the total   *)
(* is compared with the threshold before the sigmoid is applied.           *)
(***************************************************************************)
EXTENDS Integers, Sequences, FiniteSets, FiniteSetsExt

CONSTANTS
  AddrLen,               \* nibbles of an address
  KP, KS,                \* cfg.KP, cfg.KS: depth of the tries
  MinPrefixDepth,        \* cfg.MinPrefixDepth, cfg.MinSuffixDepth
  MinSuffixDepth,
  MaxCandidatesPerSide,  \* 0: unlimited
  WindowDays,            \* 0: unlimited
  AddressWeight,         \* cfg.LogisticWeights, scaled
  TypeWeight,
  TokenWeight,
  Cut,                   \* the logit of cfg.Tau less the intercept, scaled
  NoToken,               \* a row or a transfer without a token
  Counterfeits,          \* pairs <<pending, trusted>> whose known names or
                         \* symbols are the same; a row names its token's
  Rows,                  \* the valid rows of a counterparties file
  Pendings,              \* pending transfers
  MaxRows                \* bound on the rows of a file

Addresses == [1..AddrLen -> 0..15]

\* AddrLen is 40 in the code; config.go requires KP and KS to be positive.
ASSUME DetectorAssumption ==
  /\ AddrLen \in Nat
  /\ KP \in Nat \ {0} /\ KS \in Nat \ {0}
  /\ MinPrefixDepth \in Int /\ MinSuffixDepth \in Int
  /\ MaxCandidatesPerSide \in Nat /\ WindowDays \in Int
  /\ MaxRows \in Nat
  /\ IsFiniteSet(Rows)
  /\ \A row \in Rows : /\ row.victim \in Addresses /\ row.recipient \in Addresses
                       /\ row.seen \in Int /\ row.freq \in Int
  /\ \A p \in Pendings : p.from \in Addresses /\ p.to \in Addresses /\ p.at \in Int

VARIABLES
  prefixTrie,   \* victim -> node -> recipient -> times inserted
  suffixTrie,   \* the same over the reversed address
  recipients,   \* victim -> recipient -> the rows loaded for them, in order
  loading       \* "rows", "loaded" or "failed"

vars == <<prefixTrie, suffixTrie, recipients, loading>>
-----------------------------------------------------------------------------
Least(a, b) == IF a < b THEN a ELSE b

Victims == {row.victim : row \in Rows}
Recipients == {row.recipient : row \in Rows}

PrefixKey(address) == [i \in 1..Least(KP, AddrLen) |-> address[i]]
SuffixKey(address) == [i \in 1..Least(KS, AddrLen) |-> address[AddrLen + 1 - i]]

\* A node is named by the path that leads to it.
Node(key, depth) == [i \in 1..depth |-> key[i]]
PrefixNodes == {Node(PrefixKey(r), d) : r \in Recipients, d \in 1..Least(KP, AddrLen)}
SuffixNodes == {Node(SuffixKey(r), d) : r \in Recipients, d \in 1..Least(KS, AddrLen)}

\* The nodes are all there from the start, without recipients; in the code
\* a node is made when its first recipient is entered.
EmptyTrie(nodes) == [n \in nodes |-> [r \in Recipients |-> 0]]

\* Bug: enters the recipient at the last node only.
BugInsertLeaf(trie, key, id) ==
  [n \in DOMAIN trie |->
     IF n = Node(key, Len(key)) THEN [trie[n] EXCEPT ![id] = @ + 1] ELSE trie[n]]

Insert(trie, key, id) ==
  [n \in DOMAIN trie |->
     IF \E d \in DOMAIN key : n = Node(key, d)
       THEN [trie[n] EXCEPT ![id] = @ + 1]
       ELSE trie[n]]

IdsAt(trie, n) == IF n \in DOMAIN trie THEN {r \in Recipients : trie[n][r] > 0} ELSE {}

\* The depths a walk along key gets to before a child is missing.
Reached(trie, key) ==
  {d \in DOMAIN key : \A j \in 1..d : IdsAt(trie, Node(key, j)) # {}}

\* Bug: leaves out the minimum depth itself.
BugDeeperOnly(trie, key, minDepth) == {d \in Reached(trie, key) : d > minDepth}

\* What CandidateIDsByDepthRange and CandidateIDsByPrefix collect from.
DepthRange(trie, key, minDepth) == {d \in Reached(trie, key) : d >= minDepth}
Deepest(trie, key) == {d \in Reached(trie, key) : d + 1 \notin Reached(trie, key)}

Retrieved(trie, key, depths) == UNION {IdsAt(trie, Node(key, d)) : d \in depths}

TrieFreq(trie, key, depths, id) ==
  MapThenSumSet(LAMBDA d : trie[Node(key, d)][id], depths)

ClampDepth(depth, maxDepth) ==
  IF depth <= 0 \/ depth > maxDepth THEN maxDepth ELSE depth

Protected(v) == v \in Victims /\ \E r \in Recipients : recipients[v][r] # <<>>
-----------------------------------------------------------------------------
(* Scoring. *)

Matching(a, b) == {i \in 1..AddrLen : \A j \in 1..i : a[j] = b[j]}
MatchingBack(a, b) ==
  {i \in 1..AddrLen : \A j \in 1..i : a[AddrLen + 1 - j] = b[AddrLen + 1 - j]}

PrefixMatchNibbles(a, b) == Cardinality(Matching(a, b))
SuffixMatchNibbles(a, b) == Cardinality(MatchingBack(a, b))

TransferTypeScore(p) == CASE p.value = "zero" -> 100
                          [] p.value = "tiny" -> 80
                          [] OTHER -> 25

TokenContextScore(p, row) ==
  CASE p.token = NoToken \/ row.token = NoToken -> 40
    [] p.token = row.token -> 20
    [] <<p.token, row.token>> \in Counterfeits -> 100
    [] OTHER -> 70

\* Both sides of score.Total >= cfg.Tau, multiplied by KP + KS.
OverThreshold(p, row, lookalike) ==
  LET address == Least(PrefixMatchNibbles(lookalike, row.recipient), KP)
                 + Least(SuffixMatchNibbles(lookalike, row.recipient), KS)
  IN  address * (100 * AddressWeight + TypeWeight * TransferTypeScore(p)
                 + TokenWeight * TokenContextScore(p, row)) >= Cut * (KP + KS)

\* Day 0 is an unknown day.
CounterpartyActive(p, row) ==
  \/ p.at = 0
  \/ row.seen = 0
  \/ row.seen <= p.at /\ (WindowDays <= 0 \/ p.at - row.seen <= WindowDays)

\* bestScoringCounterparty takes the best of the active rows, and the best
\* is over the threshold if and only if one of them is.
Scores(p, victim, lookalike, r) ==
  /\ r # lookalike
  /\ \E i \in DOMAIN recipients[victim][r] :
       LET row == recipients[victim][r][i]
       IN  CounterpartyActive(p, row) /\ OverThreshold(p, row, lookalike)
-----------------------------------------------------------------------------
(* Pruning.  Ranks are scaled by 60, which keeps 10000 / (1 + days) whole  *)
(* for the days near the present.                                          *)

RowRank(p, row) ==
  (CASE p.token # NoToken /\ row.token = p.token -> 60000000
     [] TokenContextScore(p, row) = 100 -> 30000000
     [] OTHER -> 0)
  + (IF p.at # 0 /\ row.seen <= p.at THEN 600000 \div (1 + p.at - row.seen) ELSE 0)

Rank(p, victim, r, freq) ==
  LET rows == recipients[victim][r]
  IN  60 * freq + MapThenSumSet(LAMBDA i : RowRank(p, rows[i]), DOMAIN rows)

ObservedFreq(victim, r, freq) ==
  LET rows == recipients[victim][r]
  IN  CHOOSE f \in {freq} \cup {rows[i].freq : i \in DOMAIN rows} :
        f >= freq /\ \A i \in DOMAIN rows : f >= rows[i].freq

\* The order of strings of one length.
Lexicographic(a, b) == \E i \in DOMAIN a : a[i] < b[i] /\ \A j \in 1..(i-1) : a[j] = b[j]

\* Bug: leaves recipients of equal score and frequency unordered.
BugNoTieBreak(p, victim, freq, a, b) ==
  LET rankA == Rank(p, victim, a, freq[a])
      rankB == Rank(p, victim, b, freq[b])
  IN  \/ rankA > rankB
      \/ /\ rankA = rankB
         /\ ObservedFreq(victim, a, freq[a]) > ObservedFreq(victim, b, freq[b])

\* less of sort.Slice: freq gives the frequency of a candidate in the trie.
RankedBefore(p, victim, freq, a, b) ==
  LET rankA == Rank(p, victim, a, freq[a])
      rankB == Rank(p, victim, b, freq[b])
      freqA == ObservedFreq(victim, a, freq[a])
      freqB == ObservedFreq(victim, b, freq[b])
  IN  \/ rankA > rankB
      \/ rankA = rankB /\ freqA > freqB
      \/ rankA = rankB /\ freqA = freqB /\ Lexicographic(a, b)

PruneCandidates(p, victim, ids, freq) ==
  IF MaxCandidatesPerSide = 0 \/ Cardinality(ids) <= MaxCandidatesPerSide
    THEN ids
    ELSE {a \in ids : Cardinality({b \in ids : RankedBefore(p, victim, freq, b, a)})
                        < MaxCandidatesPerSide}
-----------------------------------------------------------------------------
(* Retrieval and detection. *)

Modes == {"union", "intersection", "prefix", "suffix"}

Side(p, victim, trie, key, depths) ==
  LET ids == Retrieved(trie, key, depths)
  IN  PruneCandidates(p, victim, ids, [r \in ids |-> TrieFreq(trie, key, depths, r)])

\* The depths a side is retrieved from: cumulative for Detect, the deepest
\* node for DetectLegacy.
SideDepths(trie, key, minDepth, cumulative) ==
  IF cumulative THEN DepthRange(trie, key, minDepth) ELSE Deepest(trie, key)

PrefixSide(p, victim, lookalike, cumulative) ==
  LET key == PrefixKey(lookalike)
  IN  Side(p, victim, prefixTrie[victim], key,
           SideDepths(prefixTrie[victim], key, ClampDepth(MinPrefixDepth, KP), cumulative))

SuffixSide(p, victim, lookalike, cumulative) ==
  LET key == SuffixKey(lookalike)
  IN  Side(p, victim, suffixTrie[victim], key,
           SideDepths(suffixTrie[victim], key, ClampDepth(MinSuffixDepth, KS), cumulative))

Combine(mode, prefixSide, suffixSide) ==
  CASE mode = "union" -> prefixSide \cup suffixSide
    [] mode = "prefix" -> prefixSide
    [] mode = "suffix" -> suffixSide
    [] OTHER -> prefixSide \cap suffixSide

CandidateIDs(p, victim, lookalike, mode, cumulative) ==
  Combine(mode, PrefixSide(p, victim, lookalike, cumulative),
                SuffixSide(p, victim, lookalike, cumulative))

\* Either end of a transfer may be protected; the other is the lookalike.
Pairs(p) == {pair \in {<<p.from, p.to>>, <<p.to, p.from>>} : Protected(pair[1])}

\* An alert names the victim, the lookalike and the recipient it resembles.
Alert(pair, r) == [victim |-> pair[1], lookalike |-> pair[2], matched |-> r]

Detect(p, mode, cumulative) ==
  UNION {{Alert(pair, r) :
            r \in {c \in CandidateIDs(p, pair[1], pair[2], mode, cumulative) :
                     Scores(p, pair[1], pair[2], c)}} : pair \in Pairs(p)}

Trusted(victim) == {r \in Recipients : recipients[victim][r] # <<>>}

DetectLinear(p) ==
  UNION {{Alert(pair, r) :
            r \in {c \in Trusted(pair[1]) : Scores(p, pair[1], pair[2], c)}} :
         pair \in Pairs(p)}
-----------------------------------------------------------------------------
(* LoadCounterparties, on an engine that has just been made. *)

Init ==
  /\ prefixTrie = [v \in Victims |-> EmptyTrie(PrefixNodes)]
  /\ suffixTrie = [v \in Victims |-> EmptyTrie(SuffixNodes)]
  /\ recipients = [v \in Victims |-> [r \in Recipients |-> <<>>]]
  /\ loading = "rows"

RowsLoaded ==
  MapThenSumSet(LAMBDA vr : Len(recipients[vr[1]][vr[2]]), Victims \X Recipients)

LoadRow(row) ==
  /\ loading = "rows"
  /\ RowsLoaded < MaxRows
  /\ recipients' = [recipients EXCEPT ![row.victim][row.recipient] = Append(@, row)]
  /\ prefixTrie' = [prefixTrie EXCEPT
       ![row.victim] = Insert(@, PrefixKey(row.recipient), row.recipient)]
  /\ suffixTrie' = [suffixTrie EXCEPT
       ![row.victim] = Insert(@, SuffixKey(row.recipient), row.recipient)]
  /\ UNCHANGED loading

\* A row whose victim or recipient is no address ends the load half-way; the
\* callers discard the engine.
LoadInvalidRow ==
  /\ loading = "rows"
  /\ loading' = "failed"
  /\ UNCHANGED <<prefixTrie, suffixTrie, recipients>>

LoadEnds ==
  /\ loading = "rows"
  /\ loading' = "loaded"
  /\ UNCHANGED <<prefixTrie, suffixTrie, recipients>>

Next ==
  \/ \E row \in Rows : LoadRow(row)
  \/ LoadInvalidRow
  \/ LoadEnds

Spec == Init /\ [][Next]_vars
-----------------------------------------------------------------------------
(* Properties. *)

\* Types of the engine's state.
TypeOK ==
  /\ prefixTrie \in [Victims -> [PrefixNodes -> [Recipients -> Nat]]]
  /\ suffixTrie \in [Victims -> [SuffixNodes -> [Recipients -> Nat]]]
  /\ recipients \in [Victims -> [Recipients -> Seq(Rows)]]
  /\ loading \in {"rows", "loaded", "failed"}

OnPath(n, key) == \E d \in DOMAIN key : n = Node(key, d)

\* Both tries hold, at every node on the way of a recipient's key and at no
\* other, the number of rows loaded for that recipient: the tries and the
\* map of recipients, filled by separate statements of LoadCounterparties,
\* never disagree (engine.go 101-105, trie.go 17-29).
TrieIndexes ==
  \A v \in Victims, r \in Recipients :
    /\ \A n \in PrefixNodes :
         prefixTrie[v][n][r] = IF OnPath(n, PrefixKey(r)) THEN Len(recipients[v][r]) ELSE 0
    /\ \A n \in SuffixNodes :
         suffixTrie[v][n][r] = IF OnPath(n, SuffixKey(r)) THEN Len(recipients[v][r]) ELSE 0

\* The first (last) MinPrefixDepth (MinSuffixDepth) nibbles agree, said of
\* the addresses alone.
NearPrefix(a, b) ==
  LET n == ClampDepth(MinPrefixDepth, KP)
  IN  n <= AddrLen /\ \A i \in 1..n : a[i] = b[i]

NearSuffix(a, b) ==
  LET n == ClampDepth(MinSuffixDepth, KS)
  IN  n <= AddrLen /\ \A i \in 1..n : a[AddrLen + 1 - i] = b[AddrLen + 1 - i]

Near(mode, a, b) ==
  CASE mode = "union" -> NearPrefix(a, b) \/ NearSuffix(a, b)
    [] mode = "prefix" -> NearPrefix(a, b)
    [] mode = "suffix" -> NearSuffix(a, b)
    [] OTHER -> NearPrefix(a, b) /\ NearSuffix(a, b)

NearPrefixes(victim, lookalike) == {r \in Trusted(victim) : NearPrefix(lookalike, r)}
NearSuffixes(victim, lookalike) == {r \in Trusted(victim) : NearSuffix(lookalike, r)}

WithinLimit(ids) ==
  MaxCandidatesPerSide = 0 \/ Cardinality(ids) <= MaxCandidatesPerSide

Uncrowded(victim, lookalike) ==
  /\ WithinLimit(NearPrefixes(victim, lookalike))
  /\ WithinLimit(NearSuffixes(victim, lookalike))

\* The tries are an optimisation of the scan: whatever is loaded and however
\* a side is pruned, every alert of Detect is an alert of DetectLinear; and
\* where no side has more recipients than it may keep, Detect raises all
\* alerts of the scan whose recipient is near the lookalike in the sense of
\* the mode, and no other (engine.go 247-310 and 531-571, engine_linear.go).
TrieIsScanCut ==
  \A p \in Pendings, mode \in Modes :
    /\ Detect(p, mode, TRUE) \subseteq DetectLinear(p)
    /\ (\A pair \in Pairs(p) : Uncrowded(pair[1], pair[2])) =>
         Detect(p, mode, TRUE)
           = {a \in DetectLinear(p) : Near(mode, a.lookalike, a.matched)}

\* The trusted recipients that agree with the lookalike over more nibbles of
\* a key than any other, if there is one that agrees at all.
Nearest(victim, key, keyOf(_)) ==
  LET agree(r) == {d \in DOMAIN key : \A j \in 1..d : key[j] = keyOf(r)[j]}
  IN  {r \in Trusted(victim) :
         agree(r) # {} /\ \A q \in Trusted(victim) : agree(q) \subseteq agree(r)}

\* The deepest-node retrieval of DetectLegacy and of the prior rule returns
\* on each side exactly the nearest recipients, all of them (trie.go 31-45).
DeepestIsNearest ==
  \A v \in Victims, p \in Pendings :
    LET prefixKey == PrefixKey(p.to)
        suffixKey == SuffixKey(p.to)
    IN  /\ Retrieved(prefixTrie[v], prefixKey, Deepest(prefixTrie[v], prefixKey))
             = Nearest(v, prefixKey, PrefixKey)
        /\ Retrieved(suffixTrie[v], suffixKey, Deepest(suffixTrie[v], suffixKey))
             = Nearest(v, suffixKey, SuffixKey)

\* Pruning fills its side and has one outcome.  The candidates come out of a
\* map in random order and the sort is not stable, so this needs an order
\* without ties: exactly the limit is kept, and everyone kept ranks before
\* everyone dropped (engine.go 573-621).
PruneKeepsBest ==
  \A v \in Victims, p \in Pendings :
    LET key == PrefixKey(p.to)
        depths == DepthRange(prefixTrie[v], key, ClampDepth(MinPrefixDepth, KP))
        ids == Retrieved(prefixTrie[v], key, depths)
        freq == [r \in ids |-> TrieFreq(prefixTrie[v], key, depths, r)]
        kept == PruneCandidates(p, v, ids, freq)
    IN  \/ WithinLimit(ids) /\ kept = ids
        \/ /\ Cardinality(kept) = MaxCandidatesPerSide
           /\ \A a \in kept, b \in ids \ kept : RankedBefore(p, v, freq, a, b)

\* What a side of the retrieval hands on, deepest or pruned, is exact.
SidesAreExact == DeepestIsNearest /\ PruneKeepsBest
=============================================================================
