--------------------------- MODULE DetectorProofs ---------------------------
(***************************************************************************)
(* Proofs about Detector, DBIndex and FeatureIndex, for all address        *)
(* lengths, depths, limits, files and pending transfers: the tries index   *)
(* the rows loaded; retrieval through them is a cut of the linear scan;    *)
(* a side hands on the nearest, or the best as many as its limit; and the  *)
(* SQLite index and the exporter's postings retrieve what the tries do.    *)
(*                                                                         *)
(* Everything follows from what the tries count (TrieIndexes), which is    *)
(* inductive.  The rest is about operators of one state: who agrees with a *)
(* key at a depth (HoldersAgree), that an order without ties has its first *)
(* k (FirstsAreFirst), what a sum is (SumOfAny), and what a loop over the  *)
(* depths leaves (SideGrows).                                              *)
(***************************************************************************)
EXTENDS DBIndex, FeatureIndex, FiniteSetTheorems, WellFoundedInduction, TLAPS

-----------------------------------------------------------------------------
(* Lemmas about keys, nodes and tries. *)

\* The least of two numbers (min of engine.go) is one of them and bounds both.
LEMMA LeastIsLeast ==
  ASSUME NEW a \in Nat, NEW b \in Nat
  PROVE  Least(a, b) \in Nat /\ Least(a, b) <= a /\ Least(a, b) <= b
         /\ (Least(a, b) = a \/ Least(a, b) = b)
  BY DEF Least

\* clampDepth of engine.go returns a depth from 1 to the depth of the trie.
LEMMA ClampRange ==
  ASSUME NEW depth \in Int, NEW maxDepth \in Nat \ {0}
  PROVE  ClampDepth(depth, maxDepth) \in 1..maxDepth
  BY DEF ClampDepth

\* Nodes of two keys are one node if and only if they are of one depth and
\* the keys agree up to it.
LEMMA NodesEqual ==
  ASSUME NEW k, NEW l, NEW d \in Nat \ {0}, NEW e \in Nat \ {0}
  PROVE  Node(k, d) = Node(l, e) <=> d = e /\ \A i \in 1..d : k[i] = l[i]
<1>1. ASSUME Node(k, d) = Node(l, e)
      PROVE  d = e /\ \A i \in 1..d : k[i] = l[i]
  <2>1. DOMAIN Node(k, d) = 1..d /\ DOMAIN Node(l, e) = 1..e
    BY DEF Node
  <2>2. 1..d = 1..e
    BY <1>1, <2>1
  <2>3. d \in 1..e /\ e \in 1..d
    BY <2>2
  <2>4. d = e
    BY <2>3
  <2>5. \A i \in 1..d : Node(k, d)[i] = k[i] /\ Node(l, e)[i] = l[i]
    BY <2>4 DEF Node
  <2>. QED
    BY <1>1, <2>4, <2>5
<1>2. ASSUME d = e, \A i \in 1..d : k[i] = l[i]
      PROVE  Node(k, d) = Node(l, e)
  BY <1>2 DEF Node
<1>. QED
  BY <1>1, <1>2

\* Insert of trie.go adds one to the recipient's count at every node on the
\* way of its key and changes no other count.
LEMMA InsertCounts ==
  ASSUME NEW nodes, NEW trie \in [nodes -> [Recipients -> Nat]],
         NEW key, NEW id \in Recipients
  PROVE  /\ Insert(trie, key, id) \in [nodes -> [Recipients -> Nat]]
         /\ \A n \in nodes, r \in Recipients :
              Insert(trie, key, id)[n][r]
                = IF r = id /\ OnPath(n, key) THEN trie[n][r] + 1 ELSE trie[n][r]
<1>1. DOMAIN trie = nodes
  OBVIOUS
<1>2. ASSUME NEW n \in nodes
      PROVE  Insert(trie, key, id)[n]
               = IF OnPath(n, key) THEN [trie[n] EXCEPT ![id] = trie[n][id] + 1] ELSE trie[n]
  BY <1>1 DEF Insert, OnPath
<1>3. ASSUME NEW n \in nodes
      PROVE  /\ Insert(trie, key, id)[n] \in [Recipients -> Nat]
             /\ \A r \in Recipients :
                  Insert(trie, key, id)[n][r]
                    = IF r = id /\ OnPath(n, key) THEN trie[n][r] + 1 ELSE trie[n][r]
  <2>1. trie[n] \in [Recipients -> Nat]
    OBVIOUS
  <2>2. CASE OnPath(n, key)
    <3>. DEFINE before == trie[n]
                after == [before EXCEPT ![id] = before[id] + 1]
    <3>1. Insert(trie, key, id)[n] = after
      BY <1>2, <2>2
    <3>2. before \in [Recipients -> Nat]
      BY <2>1
    <3>. HIDE DEF before
    <3>3. after \in [Recipients -> Nat]
      BY <3>2
    <3>4. \A r \in Recipients : after[r] = IF r = id THEN before[r] + 1 ELSE before[r]
      BY <3>2
    <3>. QED
      BY <2>2, <3>1, <3>3, <3>4 DEF before
  <2>3. CASE ~OnPath(n, key)
    BY <1>2, <2>1, <2>3
  <2>. QED
    BY <2>2, <2>3
<1>4. Insert(trie, key, id) = [n \in nodes |-> Insert(trie, key, id)[n]]
  BY <1>1 DEF Insert
<1>. QED
  BY <1>3, <1>4

\* The trie counts rows[r] for each recipient r at the nodes of the key of r,
\* which has L nibbles.
Indexes(trie, keys, rows, L) ==
  /\ \A r \in Recipients : DOMAIN keys[r] = 1..L /\ rows[r] \in Nat
  /\ DOMAIN trie = {Node(keys[r], d) : r \in Recipients, d \in 1..L}
  /\ \A r \in Recipients, n \in DOMAIN trie :
       trie[n][r] = IF OnPath(n, keys[r]) THEN rows[r] ELSE 0

\* The recipients with rows whose key agrees with key over m nibbles.
Agreeing(keys, rows, L, key, m) ==
  {r \in Recipients : /\ rows[r] > 0
                      /\ m <= L
                      /\ \A i \in 1..m : key[i] = keys[r][i]}

\* In a trie that indexes rows, the node of a key at a depth holds the
\* recipients with rows that agree with the key up to it.
LEMMA HoldersAgree ==
  ASSUME NEW L \in Nat, NEW keys, NEW key, NEW trie, NEW rows,
         DOMAIN key = 1..L, Indexes(trie, keys, rows, L), NEW r \in Recipients, NEW d \in 1..L
  PROVE  /\ r \in IdsAt(trie, Node(key, d)) <=> rows[r] > 0 /\ \A i \in 1..d : key[i] = keys[r][i]
         /\ r \in IdsAt(trie, Node(key, d)) =>
              Node(key, d) \in DOMAIN trie /\ trie[Node(key, d)][r] = rows[r]
<1>. DEFINE Agree == \A i \in 1..d : key[i] = keys[r][i]
<1>1. ASSUME r \in IdsAt(trie, Node(key, d))
      PROVE  /\ rows[r] > 0 /\ Agree
             /\ Node(key, d) \in DOMAIN trie /\ trie[Node(key, d)][r] = rows[r]
  <2>1. Node(key, d) \in DOMAIN trie /\ trie[Node(key, d)][r] > 0
    BY <1>1 DEF IdsAt
  <2>2. OnPath(Node(key, d), keys[r]) /\ rows[r] > 0 /\ trie[Node(key, d)][r] = rows[r]
    BY <2>1 DEF Indexes
  <2>3. PICK e \in 1..L : Node(key, d) = Node(keys[r], e)
    BY <2>2 DEF OnPath, Indexes
  <2>. QED
    BY <2>1, <2>2, <2>3, NodesEqual
<1>2. ASSUME rows[r] > 0, Agree
      PROVE  r \in IdsAt(trie, Node(key, d))
  <2>1. Node(key, d) = Node(keys[r], d)
    BY <1>2, NodesEqual
  <2>2. Node(key, d) \in DOMAIN trie /\ OnPath(Node(key, d), keys[r])
    BY <2>1 DEF OnPath, Indexes
  <2>. QED
    BY <1>2, <2>2 DEF IdsAt, Indexes
<1>. QED
  BY <1>1, <1>2

\* What a walk from depth m on collects, in a trie that indexes rows by the
\* keys of their recipients: those that agree over m nibbles, and no other.
\* The early end of the walk at a missing child loses none.
LEMMA RetrievalByDepth ==
  ASSUME NEW L \in Nat, NEW keys, NEW key, NEW trie, NEW rows, NEW m \in Nat \ {0},
         DOMAIN key = 1..L, Indexes(trie, keys, rows, L)
  PROVE  Retrieved(trie, key, DepthRange(trie, key, m)) = Agreeing(keys, rows, L, key, m)
<1>. DEFINE Agree(r, d) == \A i \in 1..d : key[i] = keys[r][i]
<1>1. ASSUME NEW r \in Recipients, NEW d \in 1..L
      PROVE  r \in IdsAt(trie, Node(key, d)) <=> rows[r] > 0 /\ Agree(r, d)
  BY HoldersAgree
<1>2. ASSUME NEW d \in 1..L PROVE IdsAt(trie, Node(key, d)) \subseteq Recipients
  BY DEF IdsAt
<1>3. ASSUME NEW r \in Retrieved(trie, key, DepthRange(trie, key, m))
      PROVE  r \in Recipients /\ rows[r] > 0 /\ m <= L /\ Agree(r, m)
  <2>1. PICK d \in DepthRange(trie, key, m) : r \in IdsAt(trie, Node(key, d))
    BY <1>3 DEF Retrieved
  <2>2. d \in 1..L /\ d >= m
    BY DEF DepthRange, Reached
  <2>3. r \in Recipients /\ rows[r] > 0 /\ Agree(r, d)
    BY <1>1, <1>2, <2>1, <2>2
  <2>. QED
    BY <2>2, <2>3
<1>4. ASSUME NEW r \in Recipients, rows[r] > 0, m <= L, Agree(r, m)
      PROVE  r \in Retrieved(trie, key, DepthRange(trie, key, m))
  <2>1. \A j \in 1..m : j \in 1..L /\ Agree(r, j)
    BY <1>4
  <2>2. \A j \in 1..m : r \in IdsAt(trie, Node(key, j))
    BY <1>1, <1>4, <2>1
  <2>3. m \in DepthRange(trie, key, m)
    BY <1>4, <2>2 DEF DepthRange, Reached
  <2>. QED
    BY <2>2, <2>3 DEF Retrieved
<1>. QED
  BY <1>3, <1>4 DEF Agreeing
-----------------------------------------------------------------------------
(* The invariants of loading. *)

\* The state of the engine keeps its types, whatever is loaded.
THEOREM TypeCorrect == Spec => []TypeOK
<1>1. Init => TypeOK
  BY DEF Init, TypeOK, EmptyTrie
<1>2. TypeOK /\ [Next]_vars => TypeOK'
  <2>. SUFFICES ASSUME TypeOK, [Next]_vars PROVE TypeOK'
    OBVIOUS
  <2>1. ASSUME NEW row \in Rows, LoadRow(row) PROVE TypeOK'
    <3>1. row.victim \in Victims /\ row.recipient \in Recipients
      BY DEF Victims, Recipients
    <3>2. prefixTrie' \in [Victims -> [PrefixNodes -> [Recipients -> Nat]]]
      <4>1. Insert(prefixTrie[row.victim], PrefixKey(row.recipient), row.recipient)
              \in [PrefixNodes -> [Recipients -> Nat]]
        BY <3>1, InsertCounts DEF TypeOK
      <4>. QED
        BY <2>1, <4>1 DEF LoadRow, TypeOK
    <3>3. suffixTrie' \in [Victims -> [SuffixNodes -> [Recipients -> Nat]]]
      <4>1. Insert(suffixTrie[row.victim], SuffixKey(row.recipient), row.recipient)
              \in [SuffixNodes -> [Recipients -> Nat]]
        BY <3>1, InsertCounts DEF TypeOK
      <4>. QED
        BY <2>1, <4>1 DEF LoadRow, TypeOK
    <3>4. recipients' \in [Victims -> [Recipients -> Seq(Rows)]]
      BY <2>1, <3>1 DEF LoadRow, TypeOK
    <3>5. loading' \in {"rows", "loaded", "failed"}
      BY <2>1 DEF LoadRow, TypeOK
    <3>. QED
      BY <3>2, <3>3, <3>4, <3>5 DEF TypeOK
  <2>2. CASE LoadInvalidRow
    BY <2>2 DEF LoadInvalidRow, TypeOK
  <2>3. CASE LoadEnds
    BY <2>3 DEF LoadEnds, TypeOK
  <2>4. CASE UNCHANGED vars
    BY <2>4 DEF vars, TypeOK
  <2>. QED
    BY <2>1, <2>2, <2>3, <2>4 DEF Next
<1>. QED
  BY <1>1, <1>2, PTL DEF Spec

\* The tries count the rows loaded, at every node of a recipient's key and
\* nowhere else: the inductive step is that Insert and the append to the
\* map of recipients go together.
THEOREM TriesIndexRows == Spec => []TrieIndexes
<1>1. Init => TrieIndexes
  BY DEF Init, TrieIndexes, EmptyTrie
<1>2. TypeOK /\ TrieIndexes /\ [Next]_vars => TrieIndexes'
  <2>. SUFFICES ASSUME TypeOK, TrieIndexes, [Next]_vars PROVE TrieIndexes'
    OBVIOUS
  <2>1. ASSUME NEW row \in Rows, LoadRow(row) PROVE TrieIndexes'
    <3>. DEFINE rv == row.victim
                rr == row.recipient
    <3>1. rv \in Victims /\ rr \in Recipients
      BY DEF Victims, Recipients
    <3>2. ASSUME NEW v \in Victims, NEW r \in Recipients
          PROVE  /\ Len(recipients[v][r]) \in Nat
                 /\ v = rv /\ r = rr => Len(recipients'[v][r]) = Len(recipients[v][r]) + 1
                 /\ ~(v = rv /\ r = rr) => recipients'[v][r] = recipients[v][r]
      <4>1. recipients[v][r] \in Seq(Rows)
        BY DEF TypeOK
      <4>2. /\ Len(recipients[v][r]) \in Nat
            /\ Len(Append(recipients[v][r], row)) = Len(recipients[v][r]) + 1
        BY <4>1
      <4>3. v = rv /\ r = rr => recipients'[v][r] = Append(recipients[v][r], row)
        BY <2>1, <3>1 DEF LoadRow, TypeOK
      <4>4. ~(v = rv /\ r = rr) => recipients'[v][r] = recipients[v][r]
        BY <2>1, <3>1 DEF LoadRow, TypeOK
      <4>. QED
        BY <4>2, <4>3, <4>4
    <3>3. ASSUME NEW v \in Victims, NEW r \in Recipients, NEW n \in PrefixNodes
          PROVE  prefixTrie'[v][n][r]
                   = IF OnPath(n, PrefixKey(r)) THEN Len(recipients'[v][r]) ELSE 0
      <4>1. prefixTrie[v][n][r] = IF OnPath(n, PrefixKey(r)) THEN Len(recipients[v][r]) ELSE 0
        BY DEF TrieIndexes
      <4>2. prefixTrie'[v]
              = IF v = rv THEN Insert(prefixTrie[v], PrefixKey(rr), rr) ELSE prefixTrie[v]
        BY <2>1, <3>1 DEF LoadRow, TypeOK
      <4>3. prefixTrie[v] \in [PrefixNodes -> [Recipients -> Nat]]
        BY DEF TypeOK
      <4>4. Insert(prefixTrie[v], PrefixKey(rr), rr)[n][r]
              = IF r = rr /\ OnPath(n, PrefixKey(rr))
                  THEN prefixTrie[v][n][r] + 1 ELSE prefixTrie[v][n][r]
        BY <3>1, <4>3, InsertCounts
      <4>5. CASE v = rv /\ r = rr
        BY <3>2, <4>1, <4>2, <4>4, <4>5
      <4>6. CASE v = rv /\ r # rr
        BY <3>2, <4>1, <4>2, <4>4, <4>6
      <4>7. CASE v # rv
        BY <3>2, <4>1, <4>2, <4>7
      <4>. QED
        BY <4>5, <4>6, <4>7
    <3>4. ASSUME NEW v \in Victims, NEW r \in Recipients, NEW n \in SuffixNodes
          PROVE  suffixTrie'[v][n][r]
                   = IF OnPath(n, SuffixKey(r)) THEN Len(recipients'[v][r]) ELSE 0
      <4>1. suffixTrie[v][n][r] = IF OnPath(n, SuffixKey(r)) THEN Len(recipients[v][r]) ELSE 0
        BY DEF TrieIndexes
      <4>2. suffixTrie'[v]
              = IF v = rv THEN Insert(suffixTrie[v], SuffixKey(rr), rr) ELSE suffixTrie[v]
        BY <2>1, <3>1 DEF LoadRow, TypeOK
      <4>3. suffixTrie[v] \in [SuffixNodes -> [Recipients -> Nat]]
        BY DEF TypeOK
      <4>4. Insert(suffixTrie[v], SuffixKey(rr), rr)[n][r]
              = IF r = rr /\ OnPath(n, SuffixKey(rr))
                  THEN suffixTrie[v][n][r] + 1 ELSE suffixTrie[v][n][r]
        BY <3>1, <4>3, InsertCounts
      <4>5. CASE v = rv /\ r = rr
        BY <3>2, <4>1, <4>2, <4>4, <4>5
      <4>6. CASE v = rv /\ r # rr
        BY <3>2, <4>1, <4>2, <4>4, <4>6
      <4>7. CASE v # rv
        BY <3>2, <4>1, <4>2, <4>7
      <4>. QED
        BY <4>5, <4>6, <4>7
    <3>. QED
      BY <3>3, <3>4 DEF TrieIndexes
  <2>2. CASE LoadInvalidRow
    BY <2>2 DEF LoadInvalidRow, TrieIndexes
  <2>3. CASE LoadEnds
    BY <2>3 DEF LoadEnds, TrieIndexes
  <2>4. CASE UNCHANGED vars
    BY <2>4 DEF vars, TrieIndexes
  <2>. QED
    BY <2>1, <2>2, <2>3, <2>4 DEF Next
<1>. QED
  BY <1>1, <1>2, TypeCorrect, PTL DEF Spec
-----------------------------------------------------------------------------
(* Retrieval through the tries against the linear scan. *)

\* The prefix trie of a victim indexes the rows loaded for its recipients.
LEMMA PrefixTrieIndexes ==
  ASSUME TypeOK, TrieIndexes, NEW v \in Victims
  PROVE  LET rows == [r \in Recipients |-> Len(recipients[v][r])]
         IN  /\ Indexes(prefixTrie[v], PrefixKeys, rows, Least(KP, AddrLen))
             /\ \A r \in Recipients : rows[r] > 0 <=> recipients[v][r] # <<>>
<1>. DEFINE L == Least(KP, AddrLen)
            rows == [r \in Recipients |-> Len(recipients[v][r])]
            trie == prefixTrie[v]
<1>1. \A r \in Recipients : /\ recipients[v][r] \in Seq(Rows)
                            /\ rows[r] \in Nat
                            /\ rows[r] > 0 <=> recipients[v][r] # <<>>
  BY DEF TypeOK
<1>2. \A r \in Recipients : PrefixKeys[r] = PrefixKey(r) /\ DOMAIN PrefixKeys[r] = 1..L
  BY DEF PrefixKeys, PrefixKey
<1>3. DOMAIN trie = PrefixNodes
  BY DEF TypeOK
<1>4. PrefixNodes = {Node(PrefixKeys[r], d) : r \in Recipients, d \in 1..L}
  BY <1>2 DEF PrefixNodes
<1>5. \A r \in Recipients, n \in DOMAIN trie :
        trie[n][r] = IF OnPath(n, PrefixKeys[r]) THEN rows[r] ELSE 0
  BY <1>2, <1>3 DEF TrieIndexes
<1>. HIDE DEF L, rows, trie
<1>6. Indexes(trie, PrefixKeys, rows, L)
  BY <1>1, <1>2, <1>3, <1>4, <1>5 DEF Indexes
<1>. QED
  BY <1>1, <1>6 DEF L, rows, trie

\* The suffix trie of a victim indexes the rows loaded for its recipients.
LEMMA SuffixTrieIndexes ==
  ASSUME TypeOK, TrieIndexes, NEW v \in Victims
  PROVE  LET rows == [r \in Recipients |-> Len(recipients[v][r])]
         IN  /\ Indexes(suffixTrie[v], SuffixKeys, rows, Least(KS, AddrLen))
             /\ \A r \in Recipients : rows[r] > 0 <=> recipients[v][r] # <<>>
<1>. DEFINE L == Least(KS, AddrLen)
            rows == [r \in Recipients |-> Len(recipients[v][r])]
            trie == suffixTrie[v]
<1>1. \A r \in Recipients : /\ recipients[v][r] \in Seq(Rows)
                            /\ rows[r] \in Nat
                            /\ rows[r] > 0 <=> recipients[v][r] # <<>>
  BY DEF TypeOK
<1>2. \A r \in Recipients : SuffixKeys[r] = SuffixKey(r) /\ DOMAIN SuffixKeys[r] = 1..L
  BY DEF SuffixKeys, SuffixKey
<1>3. DOMAIN trie = SuffixNodes
  BY DEF TypeOK
<1>4. SuffixNodes = {Node(SuffixKeys[r], d) : r \in Recipients, d \in 1..L}
  BY <1>2 DEF SuffixNodes
<1>5. \A r \in Recipients, n \in DOMAIN trie :
        trie[n][r] = IF OnPath(n, SuffixKeys[r]) THEN rows[r] ELSE 0
  BY <1>2, <1>3 DEF TrieIndexes
<1>. HIDE DEF L, rows, trie
<1>6. Indexes(trie, SuffixKeys, rows, L)
  BY <1>1, <1>2, <1>3, <1>4, <1>5 DEF Indexes
<1>. QED
  BY <1>1, <1>6 DEF L, rows, trie

\* The prefix side, before it is pruned, is the set of trusted recipients near
\* the lookalike.
LEMMA PrefixRetrieval ==
  ASSUME TypeOK, TrieIndexes, NEW v \in Victims, NEW lookalike
  PROVE  Retrieved(prefixTrie[v], PrefixKey(lookalike),
                   DepthRange(prefixTrie[v], PrefixKey(lookalike), ClampDepth(MinPrefixDepth, KP)))
           = NearPrefixes(v, lookalike)
<1>. DEFINE L == Least(KP, AddrLen)
            m == ClampDepth(MinPrefixDepth, KP)
            rows == [r \in Recipients |-> Len(recipients[v][r])]
            trie == prefixTrie[v]
            key == PrefixKey(lookalike)
<1>1. L \in Nat /\ L <= AddrLen /\ L <= KP /\ (L = AddrLen \/ L = KP)
  BY DetectorAssumption, LeastIsLeast
<1>2. m \in 1..KP /\ m \in Nat \ {0}
  BY DetectorAssumption, ClampRange
<1>3. DOMAIN key = 1..L
  BY DEF PrefixKey
<1>4. \A r \in Recipients, i \in 1..L : /\ key[i] = lookalike[i]
                                       /\ PrefixKeys[r][i] = r[i]
  BY DEF PrefixKey, PrefixKeys
<1>5. \A r \in Recipients : (m <= L /\ \A i \in 1..m : key[i] = PrefixKeys[r][i])
                             <=> NearPrefix(lookalike, r)
  BY <1>1, <1>2, <1>4, DetectorAssumption DEF NearPrefix
<1>6. Retrieved(trie, key, DepthRange(trie, key, m)) = Agreeing(PrefixKeys, rows, L, key, m)
  <2>1. Indexes(trie, PrefixKeys, rows, L)
    BY PrefixTrieIndexes
  <2>. HIDE DEF L, m, rows, trie, key
  <2>. QED
    BY <1>1, <1>2, <1>3, <2>1, RetrievalByDepth
<1>7. NearPrefixes(v, lookalike)
        = {r \in Recipients : rows[r] > 0 /\ NearPrefix(lookalike, r)}
  BY PrefixTrieIndexes DEF NearPrefixes, Trusted
<1>8. Agreeing(PrefixKeys, rows, L, key, m)
        = {r \in Recipients : rows[r] > 0 /\ (m <= L /\ \A i \in 1..m : key[i] = PrefixKeys[r][i])}
  BY DEF Agreeing
<1>. HIDE DEF L, rows, m
<1>. QED
  BY <1>5, <1>6, <1>7, <1>8 DEF m

\* The suffix side, before it is pruned, is the set of trusted recipients near
\* the lookalike.
LEMMA SuffixRetrieval ==
  ASSUME TypeOK, TrieIndexes, NEW v \in Victims, NEW lookalike
  PROVE  Retrieved(suffixTrie[v], SuffixKey(lookalike),
                   DepthRange(suffixTrie[v], SuffixKey(lookalike), ClampDepth(MinSuffixDepth, KS)))
           = NearSuffixes(v, lookalike)
<1>. DEFINE L == Least(KS, AddrLen)
            m == ClampDepth(MinSuffixDepth, KS)
            rows == [r \in Recipients |-> Len(recipients[v][r])]
            trie == suffixTrie[v]
            key == SuffixKey(lookalike)
<1>1. L \in Nat /\ L <= AddrLen /\ L <= KS /\ (L = AddrLen \/ L = KS)
  BY DetectorAssumption, LeastIsLeast
<1>2. m \in 1..KS /\ m \in Nat \ {0}
  BY DetectorAssumption, ClampRange
<1>3. DOMAIN key = 1..L
  BY DEF SuffixKey
<1>4. \A r \in Recipients, i \in 1..L : /\ key[i] = lookalike[AddrLen + 1 - i]
                                       /\ SuffixKeys[r][i] = r[AddrLen + 1 - i]
  BY DEF SuffixKey, SuffixKeys
<1>5. \A r \in Recipients : (m <= L /\ \A i \in 1..m : key[i] = SuffixKeys[r][i])
                             <=> NearSuffix(lookalike, r)
  BY <1>1, <1>2, <1>4, DetectorAssumption DEF NearSuffix
<1>6. Retrieved(trie, key, DepthRange(trie, key, m)) = Agreeing(SuffixKeys, rows, L, key, m)
  <2>1. Indexes(trie, SuffixKeys, rows, L)
    BY SuffixTrieIndexes
  <2>. HIDE DEF L, m, rows, trie, key
  <2>. QED
    BY <1>1, <1>2, <1>3, <2>1, RetrievalByDepth
<1>7. NearSuffixes(v, lookalike)
        = {r \in Recipients : rows[r] > 0 /\ NearSuffix(lookalike, r)}
  BY SuffixTrieIndexes DEF NearSuffixes, Trusted
<1>8. Agreeing(SuffixKeys, rows, L, key, m)
        = {r \in Recipients : rows[r] > 0 /\ (m <= L /\ \A i \in 1..m : key[i] = SuffixKeys[r][i])}
  BY DEF Agreeing
<1>. HIDE DEF L, rows, m
<1>. QED
  BY <1>5, <1>6, <1>7, <1>8 DEF m

\* Each side that is used is a part of the near recipients, and all of them
\* within the limit.
LEMMA SidesAreNear ==
  ASSUME TypeOK, TrieIndexes, NEW v \in Victims, NEW lookalike, NEW p
  PROVE  /\ PrefixSide(p, v, lookalike, TRUE) \subseteq NearPrefixes(v, lookalike)
         /\ SuffixSide(p, v, lookalike, TRUE) \subseteq NearSuffixes(v, lookalike)
         /\ WithinLimit(NearPrefixes(v, lookalike)) =>
              PrefixSide(p, v, lookalike, TRUE) = NearPrefixes(v, lookalike)
         /\ WithinLimit(NearSuffixes(v, lookalike)) =>
              SuffixSide(p, v, lookalike, TRUE) = NearSuffixes(v, lookalike)
<1>1. ASSUME NEW ids, NEW freq
      PROVE  /\ PruneCandidates(p, v, ids, freq) \subseteq ids
             /\ WithinLimit(ids) => PruneCandidates(p, v, ids, freq) = ids
  BY DEF PruneCandidates, WithinLimit
<1>2. PICK freq : PrefixSide(p, v, lookalike, TRUE)
                    = PruneCandidates(p, v, NearPrefixes(v, lookalike), freq)
  BY PrefixRetrieval DEF PrefixSide, Side, SideDepths
<1>3. PICK counts : SuffixSide(p, v, lookalike, TRUE)
                    = PruneCandidates(p, v, NearSuffixes(v, lookalike), counts)
  BY SuffixRetrieval DEF SuffixSide, Side, SideDepths
<1>. QED
  BY <1>1, <1>2, <1>3

\* The candidates of every mode are trusted recipients, and within the limit
\* exactly those the mode calls near.
LEMMA CandidatesAreNear ==
  ASSUME TypeOK, TrieIndexes, NEW v \in Victims, NEW lookalike, NEW p, NEW mode \in Modes
  PROVE  /\ CandidateIDs(p, v, lookalike, mode, TRUE) \subseteq Trusted(v)
         /\ Uncrowded(v, lookalike) =>
              CandidateIDs(p, v, lookalike, mode, TRUE)
                = {r \in Trusted(v) : Near(mode, lookalike, r)}
<1>. DEFINE P == PrefixSide(p, v, lookalike, TRUE)
            S == SuffixSide(p, v, lookalike, TRUE)
<1>1. NearPrefixes(v, lookalike) = {r \in Trusted(v) : NearPrefix(lookalike, r)}
      /\ NearSuffixes(v, lookalike) = {r \in Trusted(v) : NearSuffix(lookalike, r)}
  BY DEF NearPrefixes, NearSuffixes
<1>2. P \subseteq NearPrefixes(v, lookalike) /\ S \subseteq NearSuffixes(v, lookalike)
  BY SidesAreNear
<1>3. Uncrowded(v, lookalike) => P = NearPrefixes(v, lookalike) /\ S = NearSuffixes(v, lookalike)
  BY SidesAreNear DEF Uncrowded
<1>4. CandidateIDs(p, v, lookalike, mode, TRUE) = Combine(mode, P, S)
  BY DEF CandidateIDs
<1>. HIDE DEF P, S
<1>5. CASE mode = "union"
  BY <1>1, <1>2, <1>3, <1>4, <1>5 DEF Combine, Near
<1>6. CASE mode = "prefix"
  BY <1>1, <1>2, <1>3, <1>4, <1>6 DEF Combine, Near
<1>7. CASE mode = "suffix"
  BY <1>1, <1>2, <1>3, <1>4, <1>7 DEF Combine, Near
<1>8. CASE mode = "intersection"
  BY <1>1, <1>2, <1>3, <1>4, <1>8 DEF Combine, Near
<1>. QED
  BY <1>5, <1>6, <1>7, <1>8 DEF Modes

\* Detect raises no alert the scan does not raise, and within the limits
\* exactly those of near recipients: for every file, transfer and mode.
THEOREM TriesCutTheScan == Spec => []TrieIsScanCut
<1>1. TypeOK /\ TrieIndexes => TrieIsScanCut
  <2>. SUFFICES ASSUME TypeOK, TrieIndexes, NEW p \in Pendings, NEW mode \in Modes
                PROVE  /\ Detect(p, mode, TRUE) \subseteq DetectLinear(p)
                       /\ (\A pair \in Pairs(p) : Uncrowded(pair[1], pair[2])) =>
                            Detect(p, mode, TRUE)
                              = {a \in DetectLinear(p) : Near(mode, a.lookalike, a.matched)}
    BY DEF TrieIsScanCut
  <2>1. \A pair \in Pairs(p) : pair[1] \in Victims
    BY DEF Pairs, Protected
  <2>. DEFINE candidates(pair) == CandidateIDs(p, pair[1], pair[2], mode, TRUE)
  <2>2. ASSUME NEW pair \in Pairs(p)
        PROVE  /\ candidates(pair) \subseteq Trusted(pair[1])
               /\ Uncrowded(pair[1], pair[2]) =>
                    candidates(pair) = {r \in Trusted(pair[1]) : Near(mode, pair[2], r)}
    <3>. DEFINE v == pair[1]
                lookalike == pair[2]
    <3>1. v \in Victims
      BY <2>1
    <3>. HIDE DEF v, lookalike
    <3>2. /\ CandidateIDs(p, v, lookalike, mode, TRUE) \subseteq Trusted(v)
          /\ Uncrowded(v, lookalike) =>
               CandidateIDs(p, v, lookalike, mode, TRUE)
                 = {r \in Trusted(v) : Near(mode, lookalike, r)}
      BY <3>1, CandidatesAreNear
    <3>. QED
      BY <3>2 DEF v, lookalike
  <2>3. \A a : a \in Detect(p, mode, TRUE) <=>
          \E pair \in Pairs(p) :
            \E r \in candidates(pair) : Scores(p, pair[1], pair[2], r) /\ a = Alert(pair, r)
    <3>. DEFINE raised(pair) == {Alert(pair, r) :
                  r \in {c \in candidates(pair) : Scores(p, pair[1], pair[2], c)}}
    <3>1. Detect(p, mode, TRUE) = UNION {raised(pair) : pair \in Pairs(p)}
      BY DEF Detect
    <3>2. \A a, pair : a \in raised(pair) <=>
            \E r \in candidates(pair) : Scores(p, pair[1], pair[2], r) /\ a = Alert(pair, r)
      OBVIOUS
    <3>3. \A a : a \in UNION {raised(pair) : pair \in Pairs(p)} <=>
            \E pair \in Pairs(p) : a \in raised(pair)
      <4>. HIDE DEF raised
      <4>. QED
        OBVIOUS
    <3>. HIDE DEF raised, candidates
    <3>. QED
      BY <3>1, <3>2, <3>3
  <2>4. \A a : a \in DetectLinear(p) <=>
          \E pair \in Pairs(p) :
            \E r \in Trusted(pair[1]) : Scores(p, pair[1], pair[2], r) /\ a = Alert(pair, r)
    BY DEF DetectLinear
  <2>. HIDE DEF candidates
  <2>5. Detect(p, mode, TRUE) \subseteq DetectLinear(p)
    BY <2>2, <2>3, <2>4
  <2>6. ASSUME \A pair \in Pairs(p) : Uncrowded(pair[1], pair[2]), NEW a
        PROVE  a \in Detect(p, mode, TRUE)
                 <=> a \in DetectLinear(p) /\ Near(mode, a.lookalike, a.matched)
    <3>1. \A pair, r : /\ Alert(pair, r).lookalike = pair[2]
                       /\ Alert(pair, r).matched = r
      BY DEF Alert
    <3>2. ASSUME a \in Detect(p, mode, TRUE)
          PROVE  a \in DetectLinear(p) /\ Near(mode, a.lookalike, a.matched)
      <4>1. PICK pair \in Pairs(p) :
              \E r \in candidates(pair) : a = Alert(pair, r)
        BY <2>3, <3>2
      <4>2. PICK r \in candidates(pair) : a = Alert(pair, r)
        BY <4>1
      <4>3. Near(mode, pair[2], r)
        BY <2>2, <2>6
      <4>4. a.lookalike = pair[2] /\ a.matched = r
        BY <3>1, <4>2
      <4>. QED
        BY <2>5, <3>2, <4>3, <4>4
    <3>3. ASSUME a \in DetectLinear(p), Near(mode, a.lookalike, a.matched)
          PROVE  a \in Detect(p, mode, TRUE)
      <4>1. PICK pair \in Pairs(p) :
              \E r \in Trusted(pair[1]) : Scores(p, pair[1], pair[2], r) /\ a = Alert(pair, r)
        BY <2>4, <3>3
      <4>2. PICK r \in Trusted(pair[1]) : Scores(p, pair[1], pair[2], r) /\ a = Alert(pair, r)
        BY <4>1
      <4>3. a.lookalike = pair[2] /\ a.matched = r
        BY <3>1, <4>2
      <4>4. r \in candidates(pair)
        BY <2>2, <2>6, <3>3, <4>3
      <4>. QED
        BY <2>3, <4>2, <4>4
    <3>. QED
      BY <3>2, <3>3
  <2>. QED
    BY <2>5, <2>6
<1>. QED
  BY <1>1, TypeCorrect, TriesIndexRows, PTL
-----------------------------------------------------------------------------
(* The first of a finite set. *)

\* A set of natural numbers that is not empty has a least one.
LEMMA LeastNatural ==
  ASSUME NEW S \in SUBSET Nat, S # {}
  PROVE  \E m \in S : \A n \in S : m <= n
<1>. DEFINE less == OpToRel(<, Nat)
<1>1. \A m, n \in Nat : <<m, n>> \in less <=> m < n
  BY DEF OpToRel
<1>2. IsWellFoundedOn(less, Nat)
  BY NatLessThanWellFounded
<1>. HIDE DEF less
<1>3. \E m \in S : \A n \in S : ~(<<n, m>> \in less)
  BY <1>2, WFMin
<1>4. \E m \in S : \A n \in S : ~(n < m)
  BY <1>1, <1>3, Zenon
<1>. QED
  BY <1>4

\* Induction over the naturals, of a set of them.
LEMMA NaturalsByInduction ==
  ASSUME NEW T \in SUBSET Nat, 0 \in T, \A n \in T : n + 1 \in T
  PROVE  T = Nat
<1>. SUFFICES ASSUME T # Nat
              PROVE  FALSE
  OBVIOUS
<1>1. PICK m \in Nat \ T : \A n \in Nat \ T : m <= n
  BY LeastNatural
<1>2. m # 0 /\ m - 1 \in Nat
  BY <1>1
<1>3. m - 1 \in T
  BY <1>1, <1>2
<1>. QED
  BY <1>1, <1>2, <1>3

\* R orders S, as a sort without ties does.
Orders(R, S) ==
  /\ \A a \in S : <<a, a>> \notin R
  /\ \A a, b, c \in S : <<a, b>> \in R /\ <<b, c>> \in R => <<a, c>> \in R
  /\ \A a, b \in S : a # b => <<a, b>> \in R \/ <<b, a>> \in R

Ahead(R, S, a) == {b \in S : <<b, a>> \in R}
FirstOf(R, S, k) == {a \in S : Cardinality(Ahead(R, S, a)) < k}

\* The first k are k, if there are as many, and are before the others.
LEMMA FirstsAreFirst ==
  ASSUME NEW S, IsFiniteSet(S), NEW R, Orders(R, S), NEW k \in Nat
  PROVE  /\ FirstOf(R, S, k) \subseteq S
         /\ k <= Cardinality(S) => Cardinality(FirstOf(R, S, k)) = k
         /\ Cardinality(S) <= k => FirstOf(R, S, k) = S
         /\ \A a \in FirstOf(R, S, k), b \in S \ FirstOf(R, S, k) : <<a, b>> \in R
<1>. DEFINE n == Cardinality(S)
            rank == [a \in S |-> Cardinality(Ahead(R, S, a))]
<1>1. n \in Nat
  BY FS_CardinalityType
<1>2. ASSUME NEW a \in S
      PROVE  /\ IsFiniteSet(Ahead(R, S, a)) /\ Cardinality(Ahead(R, S, a)) \in Nat
             /\ Cardinality(Ahead(R, S, a)) < n
  <2>1. Ahead(R, S, a) \in SUBSET S /\ a \notin Ahead(R, S, a)
    BY DEF Ahead, Orders
  <2>2. Ahead(R, S, a) # S
    BY <2>1
  <2>3. IsFiniteSet(Ahead(R, S, a)) /\ Cardinality(Ahead(R, S, a)) <= n
        /\ Cardinality(Ahead(R, S, a)) # n
    BY <2>1, <2>2, FS_Subset
  <2>4. Cardinality(Ahead(R, S, a)) \in Nat
    BY <2>3, FS_CardinalityType
  <2>. QED
    BY <1>1, <2>3, <2>4
<1>3. ASSUME NEW a \in S, NEW b \in S, <<a, b>> \in R
      PROVE  Cardinality(Ahead(R, S, a)) < Cardinality(Ahead(R, S, b))
  <2>1. Ahead(R, S, a) \in SUBSET Ahead(R, S, b) /\ a \in Ahead(R, S, b) /\ a \notin Ahead(R, S, a)
    BY <1>3 DEF Ahead, Orders
  <2>2. Ahead(R, S, a) # Ahead(R, S, b)
    BY <2>1
  <2>3. /\ Cardinality(Ahead(R, S, a)) <= Cardinality(Ahead(R, S, b))
        /\ Cardinality(Ahead(R, S, a)) # Cardinality(Ahead(R, S, b))
    BY <1>2, <2>1, <2>2, FS_Subset
  <2>. QED
    BY <1>2, <2>3
<1>4. IsFiniteSet(0..(n - 1)) /\ Cardinality(0..(n - 1)) = n
  BY <1>1, FS_Interval
<1>5. rank \in [S -> 0..(n - 1)] /\ \A a \in S : rank[a] = Cardinality(Ahead(R, S, a))
  BY <1>1, <1>2
<1>6. rank \in Injection(S, 0..(n - 1))
  <2>1. \A a, b \in S : rank[a] = rank[b] => a = b
    <3>. SUFFICES ASSUME NEW a \in S, NEW b \in S, rank[a] = rank[b], a # b
                  PROVE  FALSE
      OBVIOUS
    <3>1. Cardinality(Ahead(R, S, a)) = Cardinality(Ahead(R, S, b))
      BY <1>5
    <3>2. <<a, b>> \in R \/ <<b, a>> \in R
      BY DEF Orders
    <3>. QED
      BY <1>2, <1>3, <3>1, <3>2
  <2>. QED
    BY <1>5, <2>1 DEF Injection, IsInjective
<1>7. rank \in Surjection(S, 0..(n - 1))
  BY <1>4, <1>6, FS_Injection
<1>8. \A m \in 0..(n - 1) : \E a \in S : rank[a] = m
  BY <1>7 DEF Surjection
<1>. HIDE DEF rank, n
<1>. DEFINE firsts == FirstOf(R, S, k)
<1>9. firsts \subseteq S /\ \A a \in S : a \in firsts <=> rank[a] < k
  BY <1>5 DEF FirstOf
<1>10. ASSUME k <= n
       PROVE  Cardinality(firsts) = k
  <2>. DEFINE place == [a \in firsts |-> rank[a]]
  <2>. HIDE DEF firsts
  <2>1. place \in [firsts -> 0..(k - 1)]
    BY <1>1, <1>5, <1>9
  <2>2. \A a, b \in firsts : place[a] = place[b] => a = b
    BY <1>6, <1>9 DEF Injection, IsInjective
  <2>3. \A m \in 0..(k - 1) : \E a \in firsts : place[a] = m
    BY <1>1, <1>8, <1>9, <1>10
  <2>4. place \in Bijection(firsts, 0..(k - 1))
    BY <2>1, <2>2, <2>3 DEF Bijection, Injection, Surjection, IsInjective
  <2>5. IsFiniteSet(firsts)
    BY <1>9, FS_Subset
  <2>6. Cardinality(0..(k - 1)) = Cardinality(firsts)
    BY <2>4, <2>5, FS_Bijection DEF ExistsBijection
  <2>7. Cardinality(0..(k - 1)) = k
    BY FS_Interval
  <2>. QED
    BY <2>6, <2>7
<1>11. n <= k => firsts = S
  BY <1>1, <1>5, <1>9
<1>12. \A a \in firsts, b \in S \ firsts : <<a, b>> \in R
  <2>. SUFFICES ASSUME NEW a \in firsts, NEW b \in S \ firsts
                PROVE  <<a, b>> \in R
    OBVIOUS
  <2>1. rank[a] < k /\ ~(rank[b] < k) /\ rank[a] \in Nat /\ rank[b] \in Nat
    BY <1>1, <1>5, <1>9
  <2>2. a # b /\ a \in S /\ b \in S
    BY <1>9
  <2>3. <<b, a>> \notin R
    BY <1>3, <1>5, <2>1, <2>2
  <2>. QED
    BY <2>2, <2>3 DEF Orders
<1>. QED
  BY <1>9, <1>10, <1>11, <1>12 DEF n

\* A finite set of integers has a greatest.
LEMMA GreatestInteger ==
  ASSUME NEW S \in SUBSET Int, IsFiniteSet(S), S # {}
  PROVE  \E m \in S : \A n \in S : n <= m
<1>. DEFINE R == {p \in S \X S : p[1] > p[2]}
<1>1. \A a, b \in S : <<a, b>> \in R <=> a > b
  OBVIOUS
<1>. HIDE DEF R
<1>2. Orders(R, S)
  BY <1>1 DEF Orders
<1>3. Cardinality(S) \in Nat /\ Cardinality(S) # 0
  BY FS_CardinalityType, FS_EmptySet
<1>4. Cardinality(FirstOf(R, S, 1)) = 1 /\ FirstOf(R, S, 1) \subseteq S
      /\ \A a \in FirstOf(R, S, 1), b \in S \ FirstOf(R, S, 1) : <<a, b>> \in R
  BY <1>2, <1>3, FirstsAreFirst
<1>5. IsFiniteSet(FirstOf(R, S, 1))
  BY <1>4, FS_Subset
<1>6. PICK m : FirstOf(R, S, 1) = {m}
  BY <1>4, <1>5, FS_Singleton
<1>7. m \in S /\ \A n \in S \ {m} : <<m, n>> \in R
  BY <1>4, <1>6
<1>8. \A n \in S \ {m} : m > n
  BY <1>1, <1>7
<1>9. \A n \in S : n \in Int
  OBVIOUS
<1>. QED
  BY <1>7, <1>8, <1>9
-----------------------------------------------------------------------------
(* Sums over finite sets. *)

Any(s) == CHOOSE x \in s : TRUE

LEMMA AnyIsMember ==
  ASSUME NEW s, s # {}
  PROVE  Any(s) \in s
  BY DEF Any

\* The function MapThenSumSet is defined by: it takes f[x] for one element
\* after the other.
Sums(g, f, S) ==
  g = [s \in SUBSET S |-> IF s = {} THEN 0 ELSE f[Any(s)] + g[s \ {Any(s)}]]

SumOf(f, S) == (CHOOSE g : Sums(g, f, S))[S]

SumsUpTo(g, f, S, n) ==
  /\ g \in [{s \in SUBSET S : Cardinality(s) <= n} -> Int]
  /\ \A s \in SUBSET S : Cardinality(s) <= n =>
       g[s] = IF s = {} THEN 0 ELSE f[Any(s)] + g[s \ {Any(s)}]

LEMMA OneLess ==
  ASSUME NEW S, IsFiniteSet(S), NEW s \in SUBSET S
  PROVE  /\ IsFiniteSet(s) /\ Cardinality(s) \in Nat /\ (Cardinality(s) = 0 <=> s = {})
         /\ s # {} => /\ Any(s) \in s /\ Any(s) \in S /\ s \ {Any(s)} \in SUBSET S
                      /\ Cardinality(s \ {Any(s)}) = Cardinality(s) - 1
<1>1. IsFiniteSet(s) /\ Cardinality(s) \in Nat /\ (Cardinality(s) = 0 <=> s = {})
  BY FS_Subset, FS_CardinalityType, FS_EmptySet
<1>2. ASSUME s # {}
      PROVE  /\ Any(s) \in s /\ Any(s) \in S /\ s \ {Any(s)} \in SUBSET S
             /\ Cardinality(s \ {Any(s)}) = Cardinality(s) - 1
  BY <1>1, <1>2, AnyIsMember, FS_RemoveElement
<1>. QED
  BY <1>1, <1>2

\* The sum is there.
LEMMA SumExists ==
  ASSUME NEW S, IsFiniteSet(S), NEW f, \A x \in S : f[x] \in Int
  PROVE  \E g \in [SUBSET S -> Int] : Sums(g, f, S)
<1>. DEFINE T == {n \in Nat : \E g : SumsUpTo(g, f, S, n)}
<1>1. 0 \in T
  <2>. DEFINE g == [s \in {t \in SUBSET S : Cardinality(t) <= 0} |-> 0]
  <2>1. \A s \in SUBSET S : Cardinality(s) <= 0 => s = {}
    <3>. SUFFICES ASSUME NEW s \in SUBSET S, Cardinality(s) <= 0
                  PROVE  s = {}
      OBVIOUS
    <3>1. Cardinality(s) \in Nat /\ (Cardinality(s) = 0 => s = {})
      BY OneLess
    <3>. QED
      BY <3>1
  <2>2. SumsUpTo(g, f, S, 0)
    BY <2>1 DEF SumsUpTo
  <2>. QED
    BY <2>2
<1>2. ASSUME NEW n \in T
      PROVE  n + 1 \in T
  <2>1. PICK g : SumsUpTo(g, f, S, n)
    OBVIOUS
  <2>2. n \in Nat
    OBVIOUS
  <2>. DEFINE D(m) == {s \in SUBSET S : Cardinality(s) <= m}
              term(s) == IF s = {} THEN 0 ELSE f[Any(s)] + g[s \ {Any(s)}]
              h == [s \in D(n + 1) |-> IF Cardinality(s) <= n THEN g[s] ELSE term(s)]
  <2>3. \A s \in D(n + 1) : s # {} => s \ {Any(s)} \in D(n)
    BY <2>2, OneLess
  <2>4. \A s \in D(n + 1) : term(s) \in Int
    BY <2>1, <2>3, OneLess DEF SumsUpTo
  <2>5. \A s \in D(n) : g[s] \in Int /\ g[s] = term(s)
    BY <2>1 DEF SumsUpTo
  <2>6. \A s \in D(n) : s \in D(n + 1) /\ h[s] = g[s]
    <3>. SUFFICES ASSUME NEW s \in D(n)
                  PROVE  s \in D(n + 1) /\ h[s] = g[s]
      OBVIOUS
    <3>1. Cardinality(s) \in Nat /\ Cardinality(s) <= n
      BY OneLess
    <3>2. s \in D(n + 1)
      BY <2>2, <3>1
    <3>. QED
      BY <3>1, <3>2
  <2>7. \A s \in D(n + 1) : h[s] = term(s) /\ h[s] \in Int
    BY <2>4, <2>5
  <2>8. h \in [D(n + 1) -> Int]
    BY <2>7
  <2>. HIDE DEF h
  <2>9. \A s \in D(n + 1) : h[s] = IF s = {} THEN 0 ELSE f[Any(s)] + h[s \ {Any(s)}]
    BY <2>3, <2>6, <2>7
  <2>10. SumsUpTo(h, f, S, n + 1)
    BY <2>8, <2>9 DEF SumsUpTo
  <2>. QED
    BY <2>2, <2>10
<1>3. T = Nat
  <2>. HIDE DEF T
  <2>. QED
    BY <1>1, <1>2, NaturalsByInduction DEF T
<1>4. Cardinality(S) \in Nat
  BY FS_CardinalityType
<1>5. PICK g : SumsUpTo(g, f, S, Cardinality(S))
  BY <1>3, <1>4
<1>6. \A s \in SUBSET S : Cardinality(s) <= Cardinality(S)
  BY FS_Subset
<1>7. {s \in SUBSET S : Cardinality(s) <= Cardinality(S)} = SUBSET S
  BY <1>6
<1>8. g \in [SUBSET S -> Int]
  BY <1>5, <1>7 DEF SumsUpTo
<1>9. \A s \in SUBSET S : g[s] = IF s = {} THEN 0 ELSE f[Any(s)] + g[s \ {Any(s)}]
  BY <1>5, <1>6 DEF SumsUpTo
<1>10. Sums(g, f, S)
  BY <1>8, <1>9 DEF Sums
<1>. QED
  BY <1>8, <1>10

\* There is but one.
LEMMA SumIsUnique ==
  ASSUME NEW S, IsFiniteSet(S), NEW f, NEW g, Sums(g, f, S), NEW h, Sums(h, f, S)
  PROVE  g[S] = h[S]
<1>. DEFINE T == {n \in Nat : \A s \in SUBSET S : Cardinality(s) = n => g[s] = h[s]}
<1>1. \A s \in SUBSET S : /\ g[s] = IF s = {} THEN 0 ELSE f[Any(s)] + g[s \ {Any(s)}]
                          /\ h[s] = IF s = {} THEN 0 ELSE f[Any(s)] + h[s \ {Any(s)}]
  <2>. SUFFICES ASSUME NEW s \in SUBSET S
                PROVE  /\ g[s] = IF s = {} THEN 0 ELSE f[Any(s)] + g[s \ {Any(s)}]
                       /\ h[s] = IF s = {} THEN 0 ELSE f[Any(s)] + h[s \ {Any(s)}]
    OBVIOUS
  <2>. QED
    BY Zenon DEF Sums
<1>2. 0 \in T
  BY <1>1, OneLess
<1>3. ASSUME NEW n \in T
      PROVE  n + 1 \in T
  <2>. SUFFICES ASSUME NEW s \in SUBSET S, Cardinality(s) = n + 1
                PROVE  g[s] = h[s]
    OBVIOUS
  <2>1. s # {} /\ Cardinality(s \ {Any(s)}) = n /\ s \ {Any(s)} \in SUBSET S
    BY OneLess
  <2>2. g[s \ {Any(s)}] = h[s \ {Any(s)}]
    BY <2>1
  <2>. QED
    BY <1>1, <2>1, <2>2
<1>4. T = Nat
  <2>. HIDE DEF T
  <2>. QED
    BY <1>2, <1>3, NaturalsByInduction DEF T
<1>5. Cardinality(S) \in Nat
  BY FS_CardinalityType
<1>. QED
  BY <1>4, <1>5

LEMMA SumOfAny ==
  ASSUME NEW S, IsFiniteSet(S), NEW f, \A x \in S : f[x] \in Int
  PROVE  /\ SumOf(f, S) \in Int
         /\ \A g : Sums(g, f, S) => g[S] = SumOf(f, S)
<1>1. PICK g \in [SUBSET S -> Int] : Sums(g, f, S)
  BY SumExists
<1>2. PICK h : h = (CHOOSE k : Sums(k, f, S)) /\ Sums(h, f, S)
  BY <1>1, Zenon
<1>3. SumOf(f, S) = h[S]
  BY <1>2 DEF SumOf
<1>. QED
  BY <1>1, <1>2, <1>3, SumIsUnique

\* Equal terms have an equal sum.
LEMMA SumOfSame ==
  ASSUME NEW S, IsFiniteSet(S), NEW f, NEW h, \A x \in S : f[x] \in Int /\ f[x] = h[x]
  PROVE  SumOf(f, S) = SumOf(h, S)
<1>1. PICK g \in [SUBSET S -> Int] : Sums(g, f, S)
  BY SumExists
<1>2. \A s \in SUBSET S : g[s] = IF s = {} THEN 0 ELSE f[Any(s)] + g[s \ {Any(s)}]
  <2>. SUFFICES ASSUME NEW s \in SUBSET S
                PROVE  g[s] = IF s = {} THEN 0 ELSE f[Any(s)] + g[s \ {Any(s)}]
    OBVIOUS
  <2>. QED
    BY <1>1, Zenon DEF Sums
<1>3. \A s \in SUBSET S : g[s] = IF s = {} THEN 0 ELSE h[Any(s)] + g[s \ {Any(s)}]
  BY <1>2, AnyIsMember
<1>4. Sums(g, h, S)
  BY <1>3 DEF Sums
<1>. QED
  BY <1>1, <1>4, SumOfAny

\* A sum of one number, and of zeros, counts the times it is there.
LEMMA SumOfConstant ==
  ASSUME NEW S, IsFiniteSet(S), NEW A, NEW c \in Nat, NEW f,
         \A x \in S : f[x] = IF x \in A THEN c ELSE 0
  PROVE  SumOf(f, S) = c * Cardinality(S \cap A)
<1>. DEFINE g == [s \in SUBSET S |-> c * Cardinality(s \cap A)]
<1>1. ASSUME NEW s \in SUBSET S
      PROVE  g[s] = IF s = {} THEN 0 ELSE f[Any(s)] + g[s \ {Any(s)}]
  <2>1. CASE s = {}
    <3>1. Cardinality(s \cap A) = 0
      BY <2>1, FS_EmptySet
    <3>. QED
      BY <2>1, <3>1
  <2>2. CASE s # {}
    <3>. DEFINE x == Any(s)
                rest == (s \ {x}) \cap A
    <3>1. x \in s /\ x \in S /\ s \ {x} \in SUBSET S
      BY <2>2, OneLess
    <3>. HIDE DEF x
    <3>2. IsFiniteSet(rest) /\ Cardinality(rest) \in Nat /\ x \notin rest
      BY FS_Subset, FS_CardinalityType
    <3>3. x \in A => s \cap A = rest \cup {x}
      BY <3>1
    <3>4. x \notin A => s \cap A = rest
      BY <3>1
    <3>. HIDE DEF rest
    <3>5. x \in A => Cardinality(s \cap A) = Cardinality(rest) + 1
      BY <3>2, <3>3, FS_AddElement
    <3>6. c * (Cardinality(rest) + 1) = c + c * Cardinality(rest)
      BY <3>2
    <3>7. c * Cardinality(s \cap A) = f[x] + c * Cardinality(rest)
      <4>1. CASE x \in A
        <5>1. f[x] = c
          BY <3>1, <4>1
        <5>. QED
          BY <3>5, <3>6, <4>1, <5>1
      <4>2. CASE x \notin A
        <5>1. f[x] = 0 /\ s \cap A = rest
          BY <3>1, <3>4, <4>2
        <5>2. c * Cardinality(rest) \in Int
          BY <3>2
        <5>3. c * Cardinality(s \cap A) = c * Cardinality(rest)
          BY <5>1, Zenon
        <5>4. c * Cardinality(rest) = 0 + c * Cardinality(rest)
          BY <5>2
        <5>. QED
          BY <5>1, <5>3, <5>4, Zenon
      <4>. QED
        BY <4>1, <4>2
    <3>. QED
      BY <2>2, <3>1, <3>7 DEF rest, x
  <2>. QED
    BY <2>1, <2>2
<1>2. Sums(g, f, S)
  BY <1>1 DEF Sums
<1>3. \A x \in S : f[x] \in Int
  OBVIOUS
<1>. HIDE DEF g
<1>4. g[S] = SumOf(f, S)
  BY <1>2, <1>3, SumOfAny
<1>. QED
  BY <1>4 DEF g
-----------------------------------------------------------------------------
(* Scores by which candidates are pruned. *)

\* The sum in Rank is a sum over the rows of the recipient.
LEMMA RankIsSum ==
  ASSUME TypeOK, NEW v \in Victims, NEW r \in Recipients, NEW p \in Pendings, NEW freq \in Int
  PROVE  LET rows == recipients[v][r]
             f == [i \in DOMAIN rows |-> RowRank(p, rows[i])]
         IN  /\ IsFiniteSet(DOMAIN rows)
             /\ \A i \in DOMAIN rows : rows[i] \in Rows /\ f[i] \in Int
             /\ Rank(p, v, r, freq) = 60 * freq + SumOf(f, DOMAIN rows)
             /\ Rank(p, v, r, freq) \in Int
<1>. DEFINE rows == recipients[v][r]
            S == DOMAIN rows
            f == [i \in S |-> RowRank(p, rows[i])]
            P(g) == g = [s \in SUBSET S |->
                           IF s = {} THEN 0
                           ELSE RowRank(p, rows[CHOOSE x \in s : TRUE])
                                + g[s \ {CHOOSE x \in s : TRUE}]]
<1>1. rows \in Seq(Rows)
  BY DEF TypeOK
<1>2. Len(rows) \in Nat /\ S = 1..Len(rows) /\ \A i \in S : rows[i] \in Rows
  BY <1>1
<1>3. IsFiniteSet(S)
  BY <1>2, FS_Interval
<1>4. ASSUME NEW i \in S
      PROVE  f[i] \in Int
  <2>1. rows[i].seen \in Int /\ p.at \in Int
    BY <1>2, DetectorAssumption
  <2>. DEFINE row == rows[i]
              days == 1 + p.at - row.seen
  <2>2. row.seen <= p.at => 600000 \div days \in Int
    <3>1. row.seen <= p.at => days \in Nat \ {0}
      BY <2>1
    <3>. HIDE DEF days
    <3>. QED
      BY <3>1
  <2>3. f[i] = RowRank(p, row)
    OBVIOUS
  <2>. HIDE DEF row, f
  <2>. QED
    BY <2>2, <2>3 DEF RowRank
<1>5. \A g : P(g) <=> Sums(g, f, S)
  <2>. SUFFICES ASSUME NEW g
                PROVE  P(g) <=> Sums(g, f, S)
    OBVIOUS
  <2>1. \A s \in SUBSET S : s # {} => Any(s) \in S /\ f[Any(s)] = RowRank(p, rows[Any(s)])
    BY AnyIsMember
  <2>2. [s \in SUBSET S |-> IF s = {} THEN 0 ELSE f[Any(s)] + g[s \ {Any(s)}]]
          = [s \in SUBSET S |-> IF s = {} THEN 0
                                ELSE RowRank(p, rows[Any(s)]) + g[s \ {Any(s)}]]
    BY <2>1
  <2>. QED
    BY <2>2 DEF Sums, Any
<1>6. Rank(p, v, r, freq) = 60 * freq + (CHOOSE g : P(g))[S]
  BY DEF Rank, MapThenSumSet, MapThenFoldSet
<1>7. SumOf(f, S) \in Int /\ \A g : Sums(g, f, S) => g[S] = SumOf(f, S)
  BY <1>3, <1>4, SumOfAny
<1>8. PICK g : Sums(g, f, S)
  BY <1>3, <1>4, SumExists
<1>. HIDE DEF P, f, S
<1>9. Sums(CHOOSE h : P(h), f, S)
  BY <1>5, <1>8, Zenon
<1>10. (CHOOSE h : P(h))[S] = SumOf(f, S)
  BY <1>7, <1>9
<1>11. Rank(p, v, r, freq) = 60 * freq + SumOf(f, S)
  BY <1>6, <1>10, Zenon
<1>12. Rank(p, v, r, freq) \in Int
  BY <1>7, <1>11
<1>13. \A i \in S : rows[i] \in Rows /\ f[i] \in Int
  BY <1>2, <1>4
<1>. QED
  BY <1>3, <1>11, <1>12, <1>13, Zenon DEF S, f

\* The frequency of a candidate is a number, and no less than any it is the
\* greatest of.
LEMMA ObservedIsGreatest ==
  ASSUME TypeOK, NEW v \in Victims, NEW r \in Recipients, NEW freq \in Int
  PROVE  LET rows == recipients[v][r]
             all == {freq} \cup {rows[i].freq : i \in DOMAIN rows}
         IN  /\ ObservedFreq(v, r, freq) \in all
             /\ \A f \in all : f \in Int /\ f <= ObservedFreq(v, r, freq)
<1>. DEFINE rows == recipients[v][r]
            S == DOMAIN rows
            values == {rows[i].freq : i \in S}
            all == {freq} \cup values
            value == [i \in S |-> rows[i].freq]
<1>1. rows \in Seq(Rows)
  BY DEF TypeOK
<1>2. Len(rows) \in Nat /\ S = 1..Len(rows) /\ \A i \in S : rows[i] \in Rows
  BY <1>1
<1>3. IsFiniteSet(S)
  BY <1>2, FS_Interval
<1>4. value \in Surjection(S, values)
  BY DEF Surjection
<1>5. IsFiniteSet(values)
  BY <1>3, <1>4, FS_Surjection
<1>6. \A f \in all : f \in Int
  BY <1>2, DetectorAssumption
<1>7. IsFiniteSet(all) /\ all # {}
  BY <1>5, FS_AddElement
<1>8. PICK m \in all : \A f \in all : f <= m
  <2>. HIDE DEF all
  <2>. QED
    BY <1>6, <1>7, GreatestInteger
<1>9. \E m1 \in all : m1 >= freq /\ \A i \in S : m1 >= rows[i].freq
  BY <1>6, <1>8
<1>10. /\ ObservedFreq(v, r, freq) \in all
       /\ ObservedFreq(v, r, freq) >= freq
       /\ \A i \in S : ObservedFreq(v, r, freq) >= rows[i].freq
  BY <1>9, Zenon DEF ObservedFreq
<1>. QED
  BY <1>6, <1>10

\* Addresses are in the order of strings of one length, without ties.
LEMMA AddressesAreOrdered ==
  ASSUME NEW a \in Addresses, NEW b \in Addresses
  PROVE  /\ ~Lexicographic(a, a)
         /\ \A c \in Addresses : Lexicographic(a, b) /\ Lexicographic(b, c) => Lexicographic(a, c)
         /\ a # b => Lexicographic(a, b) \/ Lexicographic(b, a)
<1>1. \A c \in Addresses, i \in 1..AddrLen : c[i] \in Int
  BY DEF Addresses
<1>2. \A c \in Addresses : DOMAIN c = 1..AddrLen
  BY DEF Addresses
<1>3. AddrLen \in Nat
  BY DetectorAssumption
<1>4. ~Lexicographic(a, a)
  <2>. SUFFICES ASSUME NEW i \in DOMAIN a, a[i] < a[i]
                PROVE  FALSE
    BY DEF Lexicographic
  <2>1. a[i] \in Int
    BY <1>1, <1>2
  <2>. QED
    BY <2>1
<1>5. ASSUME NEW c \in Addresses, Lexicographic(a, b), Lexicographic(b, c)
      PROVE  Lexicographic(a, c)
  <2>1. PICK i \in 1..AddrLen : a[i] < b[i] /\ \A j \in 1..(i-1) : a[j] = b[j]
    BY <1>2, <1>5 DEF Lexicographic
  <2>2. PICK k \in 1..AddrLen : b[k] < c[k] /\ \A j \in 1..(k-1) : b[j] = c[j]
    BY <1>2, <1>5 DEF Lexicographic
  <2>3. CASE i <= k
    <3>1. a[i] < c[i]
      BY <1>1, <1>3, <2>1, <2>2, <2>3
    <3>2. \A j \in 1..(i-1) : a[j] = c[j]
      BY <1>3, <2>1, <2>2, <2>3
    <3>. QED
      BY <1>2, <3>1, <3>2 DEF Lexicographic
  <2>4. CASE i > k
    <3>1. a[k] < c[k]
      BY <1>1, <1>3, <2>1, <2>2, <2>4
    <3>2. \A j \in 1..(k-1) : a[j] = c[j]
      BY <1>3, <2>1, <2>2, <2>4
    <3>. QED
      BY <1>2, <3>1, <3>2 DEF Lexicographic
  <2>. QED
    BY <1>3, <2>3, <2>4
<1>6. ASSUME a # b
      PROVE  Lexicographic(a, b) \/ Lexicographic(b, a)
  <2>. DEFINE differ == {i \in 1..AddrLen : a[i] # b[i]}
  <2>1. differ \in SUBSET Nat /\ differ # {}
    BY <1>3, <1>6 DEF Addresses
  <2>2. PICK i \in differ : \A j \in differ : i <= j
    BY <2>1, LeastNatural
  <2>3. i \in 1..AddrLen /\ a[i] # b[i] /\ \A j \in 1..(i-1) : a[j] = b[j]
    BY <1>3, <2>2
  <2>4. a[i] < b[i] \/ b[i] < a[i]
    BY <1>1, <2>3
  <2>. QED
    BY <1>2, <2>3, <2>4 DEF Lexicographic
<1>. QED
  BY <1>4, <1>5, <1>6

\* Addresses by a score, then a frequency, then their own order.
ByScore(S, score, freq) ==
  {x \in S \X S :
     \/ score[x[1]] > score[x[2]]
     \/ score[x[1]] = score[x[2]] /\ freq[x[1]] > freq[x[2]]
     \/ /\ score[x[1]] = score[x[2]] /\ freq[x[1]] = freq[x[2]]
        /\ Lexicographic(x[1], x[2])}

LEMMA ScoresOrder ==
  ASSUME NEW S \in SUBSET Addresses, NEW score, NEW freq,
         \A a \in S : score[a] \in Int /\ freq[a] \in Int
  PROVE  Orders(ByScore(S, score, freq), S)
<1>. DEFINE R == ByScore(S, score, freq)
<1>1. \A a, b \in S : <<a, b>> \in R <=>
        \/ score[a] > score[b]
        \/ score[a] = score[b] /\ freq[a] > freq[b]
        \/ score[a] = score[b] /\ freq[a] = freq[b] /\ Lexicographic(a, b)
  BY DEF ByScore
<1>2. \A a \in S : ~Lexicographic(a, a)
  BY AddressesAreOrdered
<1>3. \A a, b, c \in S : Lexicographic(a, b) /\ Lexicographic(b, c) => Lexicographic(a, c)
  BY AddressesAreOrdered
<1>4. \A a, b \in S : a # b => Lexicographic(a, b) \/ Lexicographic(b, a)
  BY AddressesAreOrdered
<1>. HIDE DEF R
<1>5. \A a \in S : <<a, a>> \notin R
  BY <1>1, <1>2
<1>6. ASSUME NEW a \in S, NEW b \in S, NEW c \in S, <<a, b>> \in R, <<b, c>> \in R
      PROVE  <<a, c>> \in R
  <2>1. score[a] \in Int /\ score[b] \in Int /\ score[c] \in Int
        /\ freq[a] \in Int /\ freq[b] \in Int /\ freq[c] \in Int
    OBVIOUS
  <2>2. score[a] >= score[b] /\ score[b] >= score[c]
    BY <1>1, <1>6, <2>1
  <2>3. CASE score[a] > score[b] \/ score[b] > score[c]
    BY <1>1, <2>1, <2>2, <2>3
  <2>4. CASE score[a] = score[b] /\ score[b] = score[c]
    <3>1. freq[a] >= freq[b] /\ freq[b] >= freq[c]
      BY <1>1, <1>6, <2>1, <2>4
    <3>2. CASE freq[a] > freq[b] \/ freq[b] > freq[c]
      BY <1>1, <2>1, <2>4, <3>1, <3>2
    <3>3. CASE freq[a] = freq[b] /\ freq[b] = freq[c]
      <4>1. Lexicographic(a, b) /\ Lexicographic(b, c)
        BY <1>1, <1>6, <2>1, <2>4, <3>3
      <4>. QED
        BY <1>1, <1>3, <2>4, <3>3, <4>1
    <3>. QED
      BY <2>1, <3>1, <3>2, <3>3
  <2>. QED
    BY <2>1, <2>2, <2>3, <2>4
<1>7. ASSUME NEW a \in S, NEW b \in S, a # b
      PROVE  <<a, b>> \in R \/ <<b, a>> \in R
  BY <1>1, <1>4, <1>7
<1>. QED
  BY <1>5, <1>6, <1>7 DEF Orders, R

\* There are finitely many recipients, and they are addresses.
LEMMA RecipientsAreFinite == IsFiniteSet(Recipients) /\ Recipients \in SUBSET Addresses
<1>. DEFINE recipient == [row \in Rows |-> row.recipient]
<1>1. recipient \in Surjection(Rows, Recipients)
  BY DEF Surjection, Recipients
<1>2. IsFiniteSet(Recipients)
  BY <1>1, DetectorAssumption, FS_Surjection
<1>. QED
  BY <1>2, DetectorAssumption DEF Recipients

\* Pruning by numbers keeps as many as the limit, and the best of them.
LEMMA PruneIsExact ==
  ASSUME TypeOK, NEW v \in Victims, NEW p \in Pendings, NEW ids \in SUBSET Recipients,
         NEW freq, \A r \in ids : freq[r] \in Int
  PROVE  LET score == [r \in ids |-> Rank(p, v, r, freq[r])]
             seen == [r \in ids |-> ObservedFreq(v, r, freq[r])]
         IN  /\ IsFiniteSet(ids) /\ Cardinality(ids) \in Nat
             /\ \A r \in ids : score[r] \in Int /\ seen[r] \in Int
             /\ Orders(ByScore(ids, score, seen), ids)
             /\ \A a, b \in ids : <<a, b>> \in ByScore(ids, score, seen)
                                  <=> RankedBefore(p, v, freq, a, b)
             /\ PruneCandidates(p, v, ids, freq)
                  = IF WithinLimit(ids) THEN ids
                    ELSE FirstOf(ByScore(ids, score, seen), ids, MaxCandidatesPerSide)
<1>. DEFINE score == [r \in ids |-> Rank(p, v, r, freq[r])]
            seen == [r \in ids |-> ObservedFreq(v, r, freq[r])]
            R == ByScore(ids, score, seen)
<1>1. IsFiniteSet(ids) /\ Cardinality(ids) \in Nat
  BY RecipientsAreFinite, FS_Subset, FS_CardinalityType
<1>2. ASSUME NEW r \in ids
      PROVE  score[r] \in Int /\ seen[r] \in Int
  <2>1. Rank(p, v, r, freq[r]) \in Int
    BY RankIsSum
  <2>2. ObservedFreq(v, r, freq[r]) \in Int
    BY ObservedIsGreatest
  <2>. QED
    BY <2>1, <2>2
<1>3. ids \in SUBSET Addresses
  BY RecipientsAreFinite
<1>4. ASSUME NEW a \in ids, NEW b \in ids
      PROVE  <<a, b>> \in R <=> RankedBefore(p, v, freq, a, b)
  BY DEF ByScore, RankedBefore
<1>5. Orders(R, ids)
  <2>. HIDE DEF score, seen
  <2>. QED
    BY <1>2, <1>3, ScoresOrder
<1>. HIDE DEF R
<1>6. \A a \in ids : {b \in ids : RankedBefore(p, v, freq, b, a)} = Ahead(R, ids, a)
  BY <1>4 DEF Ahead
<1>7. {a \in ids : Cardinality({b \in ids : RankedBefore(p, v, freq, b, a)}) < MaxCandidatesPerSide}
        = FirstOf(R, ids, MaxCandidatesPerSide)
  BY <1>6 DEF FirstOf
<1>8. PruneCandidates(p, v, ids, freq)
        = IF WithinLimit(ids) THEN ids ELSE FirstOf(R, ids, MaxCandidatesPerSide)
  BY <1>7, Zenon DEF PruneCandidates, WithinLimit
<1>. QED
  BY <1>1, <1>2, <1>4, <1>5, <1>8 DEF R
-----------------------------------------------------------------------------
(* What the sides hand on. *)

\* The depths over which a recipient's key agrees with the key of a walk.
AgreeDepths(keys, L, key, r) == {d \in 1..L : \A j \in 1..d : key[j] = keys[r][j]}

\* TrieFreq counts the rows of a recipient once for every depth that is asked
\* and over which its key agrees.
LEMMA FrequencyIsCount ==
  ASSUME NEW L \in Nat, NEW keys, NEW key, NEW trie, NEW rows,
         DOMAIN key = 1..L, Indexes(trie, keys, rows, L), NEW id \in Recipients,
         NEW depths \in SUBSET (1..L),
         \A d \in depths : Node(key, d) \in DOMAIN trie
  PROVE  LET frequency == rows[id] * Cardinality(depths \cap AgreeDepths(keys, L, key, id))
         IN  TrieFreq(trie, key, depths, id) = frequency /\ frequency \in Nat
<1>. DEFINE A == AgreeDepths(keys, L, key, id)
            f == [d \in depths |-> trie[Node(key, d)][id]]
            P(g) == g = [s \in SUBSET depths |->
                           IF s = {} THEN 0
                           ELSE trie[Node(key, CHOOSE x \in s : TRUE)][id]
                                + g[s \ {CHOOSE x \in s : TRUE}]]
<1>1. rows[id] \in Nat
  BY DEF Indexes
<1>2. IsFiniteSet(depths)
  <2>1. IsFiniteSet(1..L)
    BY FS_Interval
  <2>. QED
    BY <2>1, FS_Subset
<1>3. ASSUME NEW d \in depths
      PROVE  f[d] = IF d \in A THEN rows[id] ELSE 0
  <2>1. f[d] = IF OnPath(Node(key, d), keys[id]) THEN rows[id] ELSE 0
    BY DEF Indexes
  <2>2. OnPath(Node(key, d), keys[id]) <=> d \in A
    <3>1. ASSUME OnPath(Node(key, d), keys[id])
          PROVE  d \in A
      <4>1. PICK e \in 1..L : Node(key, d) = Node(keys[id], e)
        BY <3>1 DEF OnPath, Indexes
      <4>. QED
        BY <4>1, NodesEqual DEF AgreeDepths
    <3>2. ASSUME d \in A
          PROVE  OnPath(Node(key, d), keys[id])
      <4>1. Node(key, d) = Node(keys[id], d)
        BY <3>2, NodesEqual DEF AgreeDepths
      <4>. QED
        BY <4>1 DEF OnPath, Indexes
    <3>. QED
      BY <3>1, <3>2
  <2>. QED
    BY <2>1, <2>2
<1>4. \A g : P(g) <=> Sums(g, f, depths)
  <2>. SUFFICES ASSUME NEW g
                PROVE  P(g) <=> Sums(g, f, depths)
    OBVIOUS
  <2>1. \A s \in SUBSET depths : s # {} =>
          Any(s) \in depths /\ f[Any(s)] = trie[Node(key, Any(s))][id]
    BY AnyIsMember
  <2>2. [s \in SUBSET depths |-> IF s = {} THEN 0 ELSE f[Any(s)] + g[s \ {Any(s)}]]
          = [s \in SUBSET depths |-> IF s = {} THEN 0
                                     ELSE trie[Node(key, Any(s))][id] + g[s \ {Any(s)}]]
    BY <2>1
  <2>. QED
    BY <2>2 DEF Sums, Any
<1>5. TrieFreq(trie, key, depths, id) = (CHOOSE g : P(g))[depths]
  BY DEF TrieFreq, MapThenSumSet, MapThenFoldSet
<1>6. \A d \in depths : f[d] \in Int
  BY <1>1, <1>3
<1>. HIDE DEF P, f, A
<1>7. PICK g : Sums(g, f, depths)
  BY <1>2, <1>6, SumExists
<1>8. Sums(CHOOSE h : P(h), f, depths)
  BY <1>4, <1>7, Zenon
<1>9. (CHOOSE h : P(h))[depths] = SumOf(f, depths)
  BY <1>2, <1>6, <1>8, SumOfAny
<1>10. SumOf(f, depths) = rows[id] * Cardinality(depths \cap A)
  BY <1>1, <1>2, <1>3, SumOfConstant
<1>11. Cardinality(depths \cap A) \in Nat
  BY <1>2, FS_Subset, FS_CardinalityType
<1>12. rows[id] * Cardinality(depths \cap A) \in Nat
  BY <1>1, <1>11
<1>. QED
  BY <1>5, <1>9, <1>10, <1>12 DEF A

\* The nodes of a walk are in the trie.
LEMMA ReachedAreNodes ==
  ASSUME NEW L \in Nat, NEW key, NEW trie, DOMAIN key = 1..L, NEW d \in Reached(trie, key)
  PROVE  d \in 1..L /\ Node(key, d) \in DOMAIN trie
<1>1. d \in 1..L /\ IdsAt(trie, Node(key, d)) # {}
  BY DEF Reached
<1>. QED
  BY <1>1 DEF IdsAt

\* The recipients with rows that agree deepest, in terms of functions.
NearestBy(keys, rows, L, key) ==
  {r \in Recipients :
     /\ rows[r] > 0
     /\ AgreeDepths(keys, L, key, r) # {}
     /\ \A q \in Recipients :
          rows[q] > 0 => AgreeDepths(keys, L, key, q) \subseteq AgreeDepths(keys, L, key, r)}

\* The end of a walk is the greatest depth over which anyone agrees.
LEMMA DeepestHoldsNearest ==
  ASSUME NEW L \in Nat, NEW keys, NEW key, NEW trie, NEW rows,
         DOMAIN key = 1..L, Indexes(trie, keys, rows, L)
  PROVE  Retrieved(trie, key, Deepest(trie, key)) = NearestBy(keys, rows, L, key)
<1>. DEFINE A(r) == AgreeDepths(keys, L, key, r)
<1>1. ASSUME NEW r \in Recipients, NEW d \in 1..L
      PROVE  r \in IdsAt(trie, Node(key, d)) <=> rows[r] > 0 /\ d \in A(r)
  BY HoldersAgree DEF AgreeDepths
<1>2. ASSUME NEW d \in 1..L
      PROVE  d \in Reached(trie, key) <=> \E r \in Recipients : rows[r] > 0 /\ d \in A(r)
  <2>1. ASSUME d \in Reached(trie, key)
        PROVE  \E r \in Recipients : rows[r] > 0 /\ d \in A(r)
    <3>1. PICK r : r \in IdsAt(trie, Node(key, d))
      BY <2>1 DEF Reached
    <3>2. r \in Recipients
      BY <3>1 DEF IdsAt
    <3>. QED
      BY <1>1, <3>1, <3>2
  <2>2. ASSUME NEW r \in Recipients, rows[r] > 0, d \in A(r)
        PROVE  d \in Reached(trie, key)
    <3>1. \A j \in 1..d : j \in 1..L /\ j \in A(r)
      BY <2>2 DEF AgreeDepths
    <3>2. \A j \in 1..d : IdsAt(trie, Node(key, j)) # {}
      BY <1>1, <2>2, <3>1
    <3>. QED
      BY <3>2 DEF Reached
  <2>. QED
    BY <2>1, <2>2
<1>3. ASSUME NEW r \in Retrieved(trie, key, Deepest(trie, key))
      PROVE  r \in NearestBy(keys, rows, L, key)
  <2>1. PICK d \in Deepest(trie, key) : r \in IdsAt(trie, Node(key, d))
    BY <1>3 DEF Retrieved
  <2>2. d \in 1..L /\ d + 1 \notin Reached(trie, key) /\ r \in Recipients
    BY <2>1 DEF Deepest, Reached, IdsAt
  <2>3. rows[r] > 0 /\ d \in A(r)
    BY <1>1, <2>1, <2>2
  <2>4. ASSUME NEW q \in Recipients, rows[q] > 0, NEW e \in A(q)
        PROVE  e \in A(r)
    <3>1. e \in 1..L
      BY DEF AgreeDepths
    <3>2. CASE e <= d
      BY <2>3, <3>1, <3>2 DEF AgreeDepths
    <3>3. CASE e > d
      <4>1. d + 1 \in 1..L /\ d + 1 \in A(q)
        BY <2>2, <3>1, <3>3 DEF AgreeDepths
      <4>. QED
        BY <1>2, <2>2, <2>4, <4>1
    <3>. QED
      BY <2>2, <3>1, <3>2, <3>3
  <2>. QED
    BY <2>2, <2>3, <2>4 DEF NearestBy
<1>4. ASSUME NEW r \in NearestBy(keys, rows, L, key)
      PROVE  r \in Retrieved(trie, key, Deepest(trie, key))
  <2>1. r \in Recipients /\ rows[r] > 0 /\ A(r) # {}
        /\ \A q \in Recipients : rows[q] > 0 => A(q) \subseteq A(r)
    BY DEF NearestBy
  <2>2. A(r) \in SUBSET (1..L) /\ A(r) \in SUBSET Int
    BY DEF AgreeDepths
  <2>3. IsFiniteSet(A(r))
    BY <2>2, FS_Interval, FS_Subset
  <2>4. PICK m \in A(r) : \A d \in A(r) : d <= m
    <3>. HIDE DEF A
    <3>. QED
      BY <2>1, <2>2, <2>3, GreatestInteger
  <2>5. m \in 1..L /\ m \in Reached(trie, key)
    BY <1>2, <2>1, <2>2
  <2>6. m + 1 \notin Reached(trie, key)
    <3>. SUFFICES ASSUME m + 1 \in Reached(trie, key)
                  PROVE  FALSE
      OBVIOUS
    <3>1. m + 1 \in 1..L
      BY DEF Reached
    <3>2. m + 1 \in A(r)
      BY <1>2, <2>1, <3>1
    <3>3. m + 1 <= m
      BY <2>4, <3>2
    <3>. QED
      BY <2>5, <3>3
  <2>7. m \in Deepest(trie, key)
    BY <2>5, <2>6 DEF Deepest
  <2>. QED
    BY <1>1, <2>1, <2>5, <2>7 DEF Retrieved
<1>5. Retrieved(trie, key, Deepest(trie, key)) \subseteq Recipients
  BY DEF Retrieved, IdsAt
<1>. QED
  BY <1>3, <1>4

\* The prefix side of DetectLegacy has the nearest recipients.
LEMMA DeepestPrefix ==
  ASSUME TypeOK, TrieIndexes, NEW v \in Victims, NEW lookalike
  PROVE  LET key == PrefixKey(lookalike)
         IN  Retrieved(prefixTrie[v], key, Deepest(prefixTrie[v], key)) = Nearest(v, key, PrefixKey)
<1>. DEFINE L == Least(KP, AddrLen)
            rows == [r \in Recipients |-> Len(recipients[v][r])]
            trie == prefixTrie[v]
            key == PrefixKey(lookalike)
<1>1. L \in Nat /\ DOMAIN key = 1..L
  BY DetectorAssumption, LeastIsLeast DEF PrefixKey
<1>2. Retrieved(trie, key, Deepest(trie, key)) = NearestBy(PrefixKeys, rows, L, key)
  <2>1. Indexes(trie, PrefixKeys, rows, L)
    BY PrefixTrieIndexes
  <2>. HIDE DEF L, rows, trie, key
  <2>. QED
    BY <1>1, <2>1, DeepestHoldsNearest
<1>3. \A r \in Recipients : rows[r] > 0 <=> r \in Trusted(v)
  BY PrefixTrieIndexes DEF Trusted
<1>4. \A r \in Recipients :
        AgreeDepths(PrefixKeys, L, key, r)
          = {d \in DOMAIN key : \A j \in 1..d : key[j] = PrefixKey(r)[j]}
  <2>1. \A r \in Recipients : PrefixKeys[r] = PrefixKey(r)
    BY DEF PrefixKeys, PrefixKey
  <2>. QED
    BY <1>1, <2>1 DEF AgreeDepths
<1>5. Trusted(v) \subseteq Recipients
  BY DEF Trusted
<1>. HIDE DEF rows, key, L, trie
<1>6. NearestBy(PrefixKeys, rows, L, key) = Nearest(v, key, PrefixKey)
  BY <1>3, <1>4, <1>5 DEF NearestBy, Nearest
<1>. QED
  BY <1>2, <1>6 DEF key, trie

\* The suffix side of DetectLegacy has the nearest recipients.
LEMMA DeepestSuffix ==
  ASSUME TypeOK, TrieIndexes, NEW v \in Victims, NEW lookalike
  PROVE  LET key == SuffixKey(lookalike)
         IN  Retrieved(suffixTrie[v], key, Deepest(suffixTrie[v], key)) = Nearest(v, key, SuffixKey)
<1>. DEFINE L == Least(KS, AddrLen)
            rows == [r \in Recipients |-> Len(recipients[v][r])]
            trie == suffixTrie[v]
            key == SuffixKey(lookalike)
<1>1. L \in Nat /\ DOMAIN key = 1..L
  BY DetectorAssumption, LeastIsLeast DEF SuffixKey
<1>2. Retrieved(trie, key, Deepest(trie, key)) = NearestBy(SuffixKeys, rows, L, key)
  <2>1. Indexes(trie, SuffixKeys, rows, L)
    BY SuffixTrieIndexes
  <2>. HIDE DEF L, rows, trie, key
  <2>. QED
    BY <1>1, <2>1, DeepestHoldsNearest
<1>3. \A r \in Recipients : rows[r] > 0 <=> r \in Trusted(v)
  BY SuffixTrieIndexes DEF Trusted
<1>4. \A r \in Recipients :
        AgreeDepths(SuffixKeys, L, key, r)
          = {d \in DOMAIN key : \A j \in 1..d : key[j] = SuffixKey(r)[j]}
  <2>1. \A r \in Recipients : SuffixKeys[r] = SuffixKey(r)
    BY DEF SuffixKeys, SuffixKey
  <2>. QED
    BY <1>1, <2>1 DEF AgreeDepths
<1>5. Trusted(v) \subseteq Recipients
  BY DEF Trusted
<1>. HIDE DEF rows, key, L, trie
<1>6. NearestBy(SuffixKeys, rows, L, key) = Nearest(v, key, SuffixKey)
  BY <1>3, <1>4, <1>5 DEF NearestBy, Nearest
<1>. QED
  BY <1>2, <1>6 DEF key, trie

\* The depths a side is retrieved from have nodes, so the trie frequencies of
\* its candidates are numbers.
LEMMA FrequencyOverDepths ==
  ASSUME NEW L \in Nat, NEW keys, NEW key, NEW trie, NEW rows, NEW r \in Recipients, NEW m,
         DOMAIN key = 1..L, Indexes(trie, keys, rows, L)
  PROVE  LET depths == DepthRange(trie, key, m)
             frequency == rows[r] * Cardinality(depths \cap AgreeDepths(keys, L, key, r))
         IN  TrieFreq(trie, key, depths, r) = frequency /\ frequency \in Nat
<1>. DEFINE depths == DepthRange(trie, key, m)
<1>1. depths \subseteq Reached(trie, key)
  BY DEF DepthRange
<1>2. depths \in SUBSET (1..L) /\ \A d \in depths : Node(key, d) \in DOMAIN trie
  BY <1>1, ReachedAreNodes
<1>. HIDE DEF depths
<1>3. TrieFreq(trie, key, depths, r)
        = rows[r] * Cardinality(depths \cap AgreeDepths(keys, L, key, r))
      /\ rows[r] * Cardinality(depths \cap AgreeDepths(keys, L, key, r)) \in Nat
  BY <1>2, FrequencyIsCount
<1>. QED
  BY <1>3 DEF depths

LEMMA PrefixFrequency ==
  ASSUME TypeOK, TrieIndexes, NEW v \in Victims, NEW lookalike, NEW r \in Recipients, NEW m
  PROVE  LET key == PrefixKey(lookalike)
             depths == DepthRange(prefixTrie[v], key, m)
             agree == AgreeDepths(PrefixKeys, Least(KP, AddrLen), key, r)
         IN  /\ TrieFreq(prefixTrie[v], key, depths, r)
                  = Len(recipients[v][r]) * Cardinality(depths \cap agree)
             /\ TrieFreq(prefixTrie[v], key, depths, r) \in Nat
<1>. DEFINE rows == [q \in Recipients |-> Len(recipients[v][q])]
            key == PrefixKey(lookalike)
            L == Least(KP, AddrLen)
            trie == prefixTrie[v]
            depths == DepthRange(trie, key, m)
            frequency == rows[r] * Cardinality(depths \cap AgreeDepths(PrefixKeys, L, key, r))
<1>1. L \in Nat /\ DOMAIN key = 1..L
  BY DetectorAssumption, LeastIsLeast DEF PrefixKey
<1>2. Indexes(trie, PrefixKeys, rows, L)
  BY PrefixTrieIndexes
<1>3. rows[r] = Len(recipients[v][r])
  OBVIOUS
<1>. HIDE DEF rows, key, L, trie
<1>4. TrieFreq(trie, key, depths, r) = frequency /\ frequency \in Nat
  BY <1>1, <1>2, FrequencyOverDepths
<1>. QED
  BY <1>3, <1>4, Zenon DEF key, L, trie

LEMMA SuffixFrequency ==
  ASSUME TypeOK, TrieIndexes, NEW v \in Victims, NEW lookalike, NEW r \in Recipients, NEW m
  PROVE  LET key == SuffixKey(lookalike)
             depths == DepthRange(suffixTrie[v], key, m)
             agree == AgreeDepths(SuffixKeys, Least(KS, AddrLen), key, r)
         IN  /\ TrieFreq(suffixTrie[v], key, depths, r)
                  = Len(recipients[v][r]) * Cardinality(depths \cap agree)
             /\ TrieFreq(suffixTrie[v], key, depths, r) \in Nat
<1>. DEFINE rows == [q \in Recipients |-> Len(recipients[v][q])]
            key == SuffixKey(lookalike)
            L == Least(KS, AddrLen)
            trie == suffixTrie[v]
            depths == DepthRange(trie, key, m)
            frequency == rows[r] * Cardinality(depths \cap AgreeDepths(SuffixKeys, L, key, r))
<1>1. L \in Nat /\ DOMAIN key = 1..L
  BY DetectorAssumption, LeastIsLeast DEF SuffixKey
<1>2. Indexes(trie, SuffixKeys, rows, L)
  BY SuffixTrieIndexes
<1>3. rows[r] = Len(recipients[v][r])
  OBVIOUS
<1>. HIDE DEF rows, key, L, trie
<1>4. TrieFreq(trie, key, depths, r) = frequency /\ frequency \in Nat
  BY <1>1, <1>2, FrequencyOverDepths
<1>. QED
  BY <1>3, <1>4, Zenon DEF key, L, trie

\* A pruned side has as many as its limit and the best of those retrieved.
LEMMA PrunedSideIsBest ==
  ASSUME TypeOK, TrieIndexes, NEW v \in Victims, NEW p \in Pendings
  PROVE  LET key == PrefixKey(p.to)
             depths == DepthRange(prefixTrie[v], key, ClampDepth(MinPrefixDepth, KP))
             ids == Retrieved(prefixTrie[v], key, depths)
             freq == [r \in ids |-> TrieFreq(prefixTrie[v], key, depths, r)]
             kept == PruneCandidates(p, v, ids, freq)
         IN  \/ WithinLimit(ids) /\ kept = ids
             \/ /\ Cardinality(kept) = MaxCandidatesPerSide
                /\ \A a \in kept, b \in ids \ kept : RankedBefore(p, v, freq, a, b)
<1>. DEFINE key == PrefixKey(p.to)
            depths == DepthRange(prefixTrie[v], key, ClampDepth(MinPrefixDepth, KP))
            ids == Retrieved(prefixTrie[v], key, depths)
            freq == [r \in ids |-> TrieFreq(prefixTrie[v], key, depths, r)]
            kept == PruneCandidates(p, v, ids, freq)
            score == [r \in ids |-> Rank(p, v, r, freq[r])]
            seen == [r \in ids |-> ObservedFreq(v, r, freq[r])]
            R == ByScore(ids, score, seen)
<1>1. ids \in SUBSET Recipients
  BY DEF Retrieved, IdsAt
<1>2. ASSUME NEW r \in ids
      PROVE  freq[r] \in Int
  <2>1. r \in Recipients
    BY <1>1
  <2>2. TrieFreq(prefixTrie[v], key, depths, r) \in Nat
    BY <2>1, PrefixFrequency
  <2>. QED
    BY <2>2
<1>. HIDE DEF ids, freq
<1>3. /\ IsFiniteSet(ids) /\ Cardinality(ids) \in Nat
      /\ Orders(R, ids)
      /\ \A a, b \in ids : <<a, b>> \in R <=> RankedBefore(p, v, freq, a, b)
      /\ kept = IF WithinLimit(ids) THEN ids ELSE FirstOf(R, ids, MaxCandidatesPerSide)
  BY <1>1, <1>2, PruneIsExact
<1>. HIDE DEF R, kept
<1>4. CASE WithinLimit(ids)
  BY <1>3, <1>4 DEF kept, ids, freq
<1>5. CASE ~WithinLimit(ids)
  <2>1. MaxCandidatesPerSide \in Nat /\ MaxCandidatesPerSide <= Cardinality(ids)
    BY <1>3, <1>5, DetectorAssumption DEF WithinLimit
  <2>2. kept = FirstOf(R, ids, MaxCandidatesPerSide)
    BY <1>3, <1>5
  <2>3. kept \subseteq ids /\ Cardinality(kept) = MaxCandidatesPerSide
        /\ \A a \in kept, b \in ids \ kept : <<a, b>> \in R
    BY <1>3, <2>1, <2>2, FirstsAreFirst
  <2>4. \A a \in kept, b \in ids \ kept : RankedBefore(p, v, freq, a, b)
    BY <1>3, <2>3
  <2>. QED
    BY <2>3, <2>4 DEF kept, ids, freq
<1>. QED
  BY <1>4, <1>5

\* What a side of the retrieval hands on is exact in every state: the deepest
\* node has all of the nearest recipients and no other, and a side that is
\* pruned has the number it may have, all of them ranked before those that
\* are dropped; the order has no ties, whatever the ranks.
THEOREM SidesHandOnTheBest == Spec => []SidesAreExact
<1>1. TypeOK /\ TrieIndexes => SidesAreExact
  <2>. SUFFICES ASSUME TypeOK, TrieIndexes
                PROVE  SidesAreExact
    OBVIOUS
  <2>1. DeepestIsNearest
    BY DeepestPrefix, DeepestSuffix DEF DeepestIsNearest
  <2>2. PruneKeepsBest
    BY PrunedSideIsBest DEF PruneKeepsBest
  <2>. QED
    BY <2>1, <2>2 DEF SidesAreExact
<1>. QED
  BY <1>1, TypeCorrect, TriesIndexRows, PTL
-----------------------------------------------------------------------------
(* The index of the exporter against the tries. *)

\* The postings have the recipients that agree, each with its frequency in
\* the trie.
LEMMA PostingsCount ==
  ASSUME TypeOK, NEW v \in Victims, NEW L \in Nat, NEW keys, NEW key, NEW trie, NEW rows,
         rows = [r \in Recipients |-> Len(recipients[v][r])],
         DOMAIN key = 1..L, Indexes(trie, keys, rows, L), NEW m \in Nat \ {0}
  PROVE  /\ DOMAIN Postings(v, keys, key, m) = Agreeing(keys, rows, L, key, m)
         /\ \A r \in Agreeing(keys, rows, L, key, m) :
              Postings(v, keys, key, m)[r]
                = rows[r] * Cardinality(DepthRange(trie, key, m) \cap AgreeDepths(keys, L, key, r))
<1>. DEFINE asked(r) == {d \in AgreeDepths(keys, L, key, r) : d >= m}
            near == Agreeing(keys, rows, L, key, m)
            frequency == [r \in Recipients |-> Len(recipients[v][r])
                                               * Cardinality(Posted(v, r, keys, key, m))]
<1>1. ASSUME NEW r \in Recipients
      PROVE  /\ rows[r] = Len(recipients[v][r]) /\ rows[r] \in Nat
             /\ rows[r] > 0 <=> recipients[v][r] # <<>>
  BY DEF TypeOK
<1>2. ASSUME NEW r \in Recipients, rows[r] > 0
      PROVE  Posted(v, r, keys, key, m) = asked(r)
  BY <1>1, <1>2 DEF Posted, Depths, AgreeDepths
<1>3. ASSUME NEW r \in Recipients
      PROVE  /\ IsFiniteSet(asked(r)) /\ Cardinality(asked(r)) \in Nat
             /\ Cardinality(asked(r)) = 0 <=> asked(r) = {}
             /\ asked(r) # {} <=> m <= L /\ \A i \in 1..m : key[i] = keys[r][i]
  <2>1. IsFiniteSet(1..L)
    BY FS_Interval
  <2>2. asked(r) \in SUBSET (1..L)
    BY DEF AgreeDepths
  <2>3. IsFiniteSet(asked(r))
    BY <2>1, <2>2, FS_Subset
  <2>4. ASSUME asked(r) # {}
        PROVE  m <= L /\ \A i \in 1..m : key[i] = keys[r][i]
    <3>1. PICK d \in 1..L : d >= m /\ \A j \in 1..d : key[j] = keys[r][j]
      BY <2>4 DEF AgreeDepths
    <3>. QED
      BY <3>1
  <2>5. ASSUME m <= L, \A i \in 1..m : key[i] = keys[r][i]
        PROVE  m \in asked(r)
    BY <2>5 DEF AgreeDepths
  <2>. HIDE DEF asked
  <2>6. Cardinality(asked(r)) \in Nat /\ (Cardinality(asked(r)) = 0 <=> asked(r) = {})
    BY <2>3, FS_CardinalityType, FS_EmptySet
  <2>. QED
    BY <2>3, <2>4, <2>5, <2>6
<1>4. ASSUME NEW r \in Recipients
      PROVE  frequency[r] > 0 <=> r \in near
  <2>1. CASE rows[r] > 0
    <3>. DEFINE c == Cardinality(asked(r))
                n == rows[r]
    <3>1. frequency[r] = n * c
      BY <1>1, <1>2, <2>1
    <3>2. n \in Nat \ {0} /\ c \in Nat
      <4>. HIDE DEF asked
      <4>1. c \in Nat
        BY <1>3
      <4>2. n \in Nat
        BY <1>1
      <4>. QED
        BY <2>1, <4>1, <4>2
    <3>3. n * c > 0 <=> c # 0
      <4>. HIDE DEF n, c
      <4>1. CASE c = 0
        <5>1. n * c = 0
          BY <3>2, <4>1
        <5>. QED
          BY <4>1, <5>1
      <4>2. CASE c # 0
        <5>1. c >= 1 /\ n >= 1
          BY <3>2, <4>2
        <5>2. n * c >= 1
          BY <3>2, <5>1
        <5>. QED
          BY <3>2, <4>2, <5>2
      <4>. QED
        BY <4>1, <4>2
    <3>. QED
      BY <1>3, <2>1, <3>1, <3>3 DEF Agreeing
  <2>2. CASE ~(rows[r] > 0)
    <3>1. Posted(v, r, keys, key, m) = {}
      BY <1>1, <2>2 DEF Posted
    <3>2. Cardinality(Posted(v, r, keys, key, m)) = 0 /\ Len(recipients[v][r]) \in Nat
      BY <1>1, <3>1, FS_EmptySet
    <3>3. frequency[r] = Len(recipients[v][r]) * 0
      BY <3>2
    <3>4. frequency[r] = 0
      BY <3>2, <3>3
    <3>. QED
      BY <2>2, <3>4 DEF Agreeing
  <2>. QED
    BY <2>1, <2>2
<1>5. ASSUME NEW r \in near
      PROVE  asked(r) = DepthRange(trie, key, m) \cap AgreeDepths(keys, L, key, r)
  <2>1. r \in Recipients /\ rows[r] > 0
    BY DEF Agreeing
  <2>2. ASSUME NEW d \in AgreeDepths(keys, L, key, r)
        PROVE  d \in Reached(trie, key)
    <3>1. d \in 1..L /\ \A j \in 1..d : j \in 1..L /\ \A i \in 1..j : key[i] = keys[r][i]
      BY DEF AgreeDepths
    <3>2. ASSUME NEW j \in 1..d
          PROVE  r \in IdsAt(trie, Node(key, j))
      <4>1. j \in 1..L /\ \A i \in 1..j : key[i] = keys[r][i]
        BY <3>1
      <4>. QED
        BY <2>1, <4>1, HoldersAgree
    <3>. QED
      BY <3>1, <3>2 DEF Reached
  <2>. QED
    BY <2>2 DEF DepthRange
<1>6. Postings(v, keys, key, m) = [r \in {q \in Recipients : frequency[q] > 0} |-> frequency[r]]
  BY DEF Postings
<1>7. {q \in Recipients : frequency[q] > 0} = near
  BY <1>4 DEF Agreeing
<1>8. \A r \in near : r \in Recipients /\ rows[r] > 0
  BY DEF Agreeing
<1>9. \A r \in near : frequency[r]
        = rows[r] * Cardinality(DepthRange(trie, key, m) \cap AgreeDepths(keys, L, key, r))
  <2>. SUFFICES ASSUME NEW r \in near
                PROVE  frequency[r] = rows[r] * Cardinality(
                         DepthRange(trie, key, m) \cap AgreeDepths(keys, L, key, r))
    OBVIOUS
  <2>1. r \in Recipients /\ rows[r] > 0
    BY <1>8
  <2>2. Posted(v, r, keys, key, m)
          = DepthRange(trie, key, m) \cap AgreeDepths(keys, L, key, r)
    BY <1>2, <1>5, <2>1
  <2>. QED
    BY <1>1, <2>1, <2>2
<1>. HIDE DEF frequency, near
<1>. QED
  BY <1>6, <1>7, <1>9 DEF near

\* The postings of the prefix are those the trie retrieves, and as often.
LEMMA PrefixPostingsAgree ==
  ASSUME TypeOK, TrieIndexes, NEW v \in Victims, NEW lookalike, MinPrefixDepth \in 1..KP
  PROVE  LET key == PrefixKey(lookalike)
             posted == Postings(v, PrefixKeys, key, MinPrefixDepth)
         IN  /\ DOMAIN posted = NearPrefixes(v, lookalike)
             /\ \A r \in NearPrefixes(v, lookalike) :
                  posted[r]
                    = TrieFreq(prefixTrie[v], key, DepthRange(prefixTrie[v], key, MinPrefixDepth), r)
<1>. DEFINE L == Least(KP, AddrLen)
            m == MinPrefixDepth
            rows == [r \in Recipients |-> Len(recipients[v][r])]
            trie == prefixTrie[v]
            key == PrefixKey(lookalike)
            posted == Postings(v, PrefixKeys, key, m)
<1>1. L \in Nat /\ DOMAIN key = 1..L
  BY DetectorAssumption, LeastIsLeast DEF PrefixKey
<1>2. m \in Nat \ {0} /\ ClampDepth(m, KP) = m
  BY DetectorAssumption DEF ClampDepth
<1>3. Indexes(trie, PrefixKeys, rows, L)
  BY PrefixTrieIndexes
<1>4. Retrieved(trie, key, DepthRange(trie, key, m)) = NearPrefixes(v, lookalike)
  BY <1>2, PrefixRetrieval
<1>5. \A r \in Recipients :
        TrieFreq(trie, key, DepthRange(trie, key, m), r)
          = rows[r] * Cardinality(DepthRange(trie, key, m) \cap AgreeDepths(PrefixKeys, L, key, r))
  <2>. SUFFICES ASSUME NEW r \in Recipients
                PROVE  TrieFreq(trie, key, DepthRange(trie, key, m), r)
                         = rows[r] * Cardinality(DepthRange(trie, key, m)
                                                 \cap AgreeDepths(PrefixKeys, L, key, r))
    OBVIOUS
  <2>1. rows[r] = Len(recipients[v][r])
    OBVIOUS
  <2>2. TrieFreq(trie, key, DepthRange(trie, key, m), r)
          = Len(recipients[v][r])
            * Cardinality(DepthRange(trie, key, m) \cap AgreeDepths(PrefixKeys, L, key, r))
    BY PrefixFrequency
  <2>. HIDE DEF rows
  <2>. QED
    BY <2>1, <2>2, Zenon
<1>6. /\ DOMAIN posted = Agreeing(PrefixKeys, rows, L, key, m)
      /\ \A r \in Agreeing(PrefixKeys, rows, L, key, m) :
           posted[r] = rows[r] * Cardinality(DepthRange(trie, key, m)
                                             \cap AgreeDepths(PrefixKeys, L, key, r))
  <2>1. rows = [r \in Recipients |-> Len(recipients[v][r])]
    OBVIOUS
  <2>. HIDE DEF rows, L, m, key, trie
  <2>. QED
    BY <1>1, <1>2, <1>3, <2>1, PostingsCount
<1>7. Retrieved(trie, key, DepthRange(trie, key, m)) = Agreeing(PrefixKeys, rows, L, key, m)
  <2>. HIDE DEF rows, L, m, key, trie
  <2>. QED
    BY <1>1, <1>2, <1>3, RetrievalByDepth
<1>8. NearPrefixes(v, lookalike) \subseteq Recipients
  BY DEF NearPrefixes, Trusted
<1>. HIDE DEF rows, L
<1>. QED
  BY <1>4, <1>5, <1>6, <1>7, <1>8

\* The postings of the suffix are those the trie retrieves, and as often.
LEMMA SuffixPostingsAgree ==
  ASSUME TypeOK, TrieIndexes, NEW v \in Victims, NEW lookalike, MinSuffixDepth \in 1..KS
  PROVE  LET key == SuffixKey(lookalike)
             posted == Postings(v, SuffixKeys, key, MinSuffixDepth)
         IN  /\ DOMAIN posted = NearSuffixes(v, lookalike)
             /\ \A r \in NearSuffixes(v, lookalike) :
                  posted[r]
                    = TrieFreq(suffixTrie[v], key, DepthRange(suffixTrie[v], key, MinSuffixDepth), r)
<1>. DEFINE L == Least(KS, AddrLen)
            m == MinSuffixDepth
            rows == [r \in Recipients |-> Len(recipients[v][r])]
            trie == suffixTrie[v]
            key == SuffixKey(lookalike)
            posted == Postings(v, SuffixKeys, key, m)
<1>1. L \in Nat /\ DOMAIN key = 1..L
  BY DetectorAssumption, LeastIsLeast DEF SuffixKey
<1>2. m \in Nat \ {0} /\ ClampDepth(m, KS) = m
  BY DetectorAssumption DEF ClampDepth
<1>3. Indexes(trie, SuffixKeys, rows, L)
  BY SuffixTrieIndexes
<1>4. Retrieved(trie, key, DepthRange(trie, key, m)) = NearSuffixes(v, lookalike)
  BY <1>2, SuffixRetrieval
<1>5. \A r \in Recipients :
        TrieFreq(trie, key, DepthRange(trie, key, m), r)
          = rows[r] * Cardinality(DepthRange(trie, key, m) \cap AgreeDepths(SuffixKeys, L, key, r))
  <2>. SUFFICES ASSUME NEW r \in Recipients
                PROVE  TrieFreq(trie, key, DepthRange(trie, key, m), r)
                         = rows[r] * Cardinality(DepthRange(trie, key, m)
                                                 \cap AgreeDepths(SuffixKeys, L, key, r))
    OBVIOUS
  <2>1. rows[r] = Len(recipients[v][r])
    OBVIOUS
  <2>2. TrieFreq(trie, key, DepthRange(trie, key, m), r)
          = Len(recipients[v][r])
            * Cardinality(DepthRange(trie, key, m) \cap AgreeDepths(SuffixKeys, L, key, r))
    BY SuffixFrequency
  <2>. HIDE DEF rows
  <2>. QED
    BY <2>1, <2>2, Zenon
<1>6. /\ DOMAIN posted = Agreeing(SuffixKeys, rows, L, key, m)
      /\ \A r \in Agreeing(SuffixKeys, rows, L, key, m) :
           posted[r] = rows[r] * Cardinality(DepthRange(trie, key, m)
                                             \cap AgreeDepths(SuffixKeys, L, key, r))
  <2>1. rows = [r \in Recipients |-> Len(recipients[v][r])]
    OBVIOUS
  <2>. HIDE DEF rows, L, m, key, trie
  <2>. QED
    BY <1>1, <1>2, <1>3, <2>1, PostingsCount
<1>7. Retrieved(trie, key, DepthRange(trie, key, m)) = Agreeing(SuffixKeys, rows, L, key, m)
  <2>. HIDE DEF rows, L, m, key, trie
  <2>. QED
    BY <1>1, <1>2, <1>3, RetrievalByDepth
<1>8. NearSuffixes(v, lookalike) \subseteq Recipients
  BY DEF NearSuffixes, Trusted
<1>. HIDE DEF rows, L
<1>. QED
  BY <1>4, <1>5, <1>6, <1>7, <1>8

\* Where no row of a candidate has expired, prune of the exporter sorts it by
\* what the detector ranks it by.
LEMMA PruneKeyIsRank ==
  ASSUME TypeOK, NEW v \in Victims, NEW r \in Recipients, NEW p \in Pendings, NEW freq \in Int,
         p.at # 0, ActiveRows(p, v, r) = DOMAIN recipients[v][r]
  PROVE  PruneKey(p, v, r, freq) = <<Rank(p, v, r, freq), ObservedFreq(v, r, freq)>>
<1>. DEFINE rows == recipients[v][r]
            S == DOMAIN rows
            f == [i \in S |-> RowRank(p, rows[i])]
            bonus(i) == CASE p.token # NoToken /\ rows[i].token = p.token -> 60000000
                          [] TokenScore(p, rows[i]) = 100 -> 30000000
                          [] OTHER -> 0
            term(i) == bonus(i) + 600000 \div (1 + p.at - rows[i].seen)
            h == [i \in S |-> term(i)]
            P(g) == g = [s \in SUBSET S |->
                           IF s = {} THEN 0
                           ELSE term(CHOOSE x \in s : TRUE) + g[s \ {CHOOSE x \in s : TRUE}]]
            all == {freq} \cup {rows[i].freq : i \in S}
<1>1. /\ IsFiniteSet(S)
      /\ \A i \in S : rows[i] \in Rows /\ f[i] \in Int
      /\ Rank(p, v, r, freq) = 60 * freq + SumOf(f, S)
  BY RankIsSum
<1>2. ASSUME NEW i \in S
      PROVE  h[i] = f[i]
  <2>1. rows[i].seen <= p.at
    BY DEF ActiveRows, IsActive
  <2>2. TokenScore(p, rows[i]) = TokenContextScore(p, rows[i])
    BY DEF TokenScore, TokenContextScore
  <2>3. f[i] = RowRank(p, rows[i]) /\ h[i] = term(i)
    OBVIOUS
  <2>. HIDE DEF f, h, rows
  <2>. QED
    BY <2>1, <2>2, <2>3 DEF RowRank
<1>3. \A g : P(g) <=> Sums(g, h, S)
  <2>. HIDE DEF term
  <2>. SUFFICES ASSUME NEW g
                PROVE  P(g) <=> Sums(g, h, S)
    OBVIOUS
  <2>1. \A s \in SUBSET S : s # {} => Any(s) \in S /\ h[Any(s)] = term(Any(s))
    BY AnyIsMember
  <2>2. [s \in SUBSET S |-> IF s = {} THEN 0 ELSE h[Any(s)] + g[s \ {Any(s)}]]
          = [s \in SUBSET S |-> IF s = {} THEN 0 ELSE term(Any(s)) + g[s \ {Any(s)}]]
    BY <2>1
  <2>. QED
    BY <2>2 DEF Sums, Any
<1>4. PruneKey(p, v, r, freq) = <<60 * freq + (CHOOSE g : P(g))[S], Max(all)>>
  BY DEF PruneKey, MapThenSumSet, MapThenFoldSet
<1>5. (CHOOSE g : P(g))[S] = SumOf(f, S)
  <2>. HIDE DEF P, f, h, S
  <2>1. \A i \in S : h[i] \in Int /\ h[i] = f[i]
    BY <1>1, <1>2
  <2>2. PICK g : Sums(g, h, S)
    BY <1>1, <2>1, SumExists
  <2>3. Sums(CHOOSE g1 : P(g1), h, S)
    BY <1>3, <2>2, Zenon
  <2>4. (CHOOSE g1 : P(g1))[S] = SumOf(h, S)
    BY <1>1, <2>1, <2>3, SumOfAny
  <2>5. SumOf(h, S) = SumOf(f, S)
    BY <1>1, <2>1, SumOfSame
  <2>. QED
    BY <2>4, <2>5
<1>6. Max(all) = ObservedFreq(v, r, freq)
  <2>1. /\ ObservedFreq(v, r, freq) \in all
        /\ \A x \in all : x \in Int /\ x <= ObservedFreq(v, r, freq)
    BY ObservedIsGreatest
  <2>. HIDE DEF all
  <2>2. \A y \in all : ObservedFreq(v, r, freq) >= y
    BY <2>1
  <2>3. Max(all) \in all /\ \A y \in all : Max(all) >= y
    BY <2>1, <2>2, Zenon DEF Max
  <2>. QED
    BY <2>1, <2>2, <2>3
<1>. HIDE DEF P, f, S, all
<1>. QED
  BY <1>1, <1>4, <1>5, <1>6

\* Over the same candidates with the same frequencies, and with all rows of
\* all recipients active unless the side is within its limit, the exporter
\* keeps those the detector keeps.
LEMMA PrunesAgree ==
  ASSUME TypeOK, NEW v \in Victims, NEW p \in Pendings, p.at # 0,
         NEW ids \in SUBSET Recipients, NEW freq, \A r \in ids : freq[r] \in Int,
         NEW candidates, DOMAIN candidates = ids, \A r \in ids : candidates[r] = freq[r],
         WithinLimit(ids) \/ \A r \in Recipients : ActiveRows(p, v, r) = DOMAIN recipients[v][r]
  PROVE  Prune(p, v, candidates) = PruneCandidates(p, v, ids, freq)
<1>. DEFINE key == [r \in ids |-> PruneKey(p, v, r, candidates[r])]
            before(r) == {q \in ids : SortedBefore(q, r, key[q], key[r])}
<1>1. Prune(p, v, candidates)
        = IF WithinLimit(ids) THEN ids
          ELSE {r \in ids : Cardinality(before(r)) < MaxCandidatesPerSide}
  BY DEF Prune, WithinLimit
<1>2. CASE WithinLimit(ids)
  BY <1>1, <1>2 DEF PruneCandidates, WithinLimit
<1>3. CASE ~WithinLimit(ids)
  <2>1. ASSUME NEW r \in ids
        PROVE  key[r] = <<Rank(p, v, r, freq[r]), ObservedFreq(v, r, freq[r])>>
    <3>1. r \in Recipients /\ freq[r] \in Int /\ ActiveRows(p, v, r) = DOMAIN recipients[v][r]
      BY <1>3
    <3>2. PruneKey(p, v, r, freq[r]) = <<Rank(p, v, r, freq[r]), ObservedFreq(v, r, freq[r])>>
      BY <3>1, PruneKeyIsRank
    <3>. QED
      BY <3>2
  <2>2. ASSUME NEW q \in ids, NEW r \in ids
        PROVE  SortedBefore(q, r, key[q], key[r]) <=> RankedBefore(p, v, freq, q, r)
    <3>1. /\ key[q] = <<Rank(p, v, q, freq[q]), ObservedFreq(v, q, freq[q])>>
          /\ key[r] = <<Rank(p, v, r, freq[r]), ObservedFreq(v, r, freq[r])>>
      BY <2>1
    <3>. HIDE DEF key
    <3>. QED
      BY <3>1 DEF SortedBefore, RankedBefore
  <2>. HIDE DEF key
  <2>3. \A r \in ids : before(r) = {q \in ids : RankedBefore(p, v, freq, q, r)}
    BY <2>2
  <2>4. PruneCandidates(p, v, ids, freq)
          = {r \in ids : Cardinality({q \in ids : RankedBefore(p, v, freq, q, r)})
                           < MaxCandidatesPerSide}
    BY <1>3 DEF PruneCandidates, WithinLimit
  <2>. QED
    BY <1>1, <1>3, <2>3, <2>4
<1>. QED
  BY <1>2, <1>3

\* The exporter and the detector keep the same of the prefix side.
LEMMA PrefixSidesAgree ==
  ASSUME TypeOK, TrieIndexes, NEW v \in Victims, NEW lookalike, NEW p \in Pendings, p.at # 0,
         MinPrefixDepth \in 1..KP,
         \/ WithinLimit(NearPrefixes(v, lookalike))
         \/ \A r \in Recipients : ActiveRows(p, v, r) = DOMAIN recipients[v][r]
  PROVE  Prune(p, v, Postings(v, PrefixKeys, PrefixKey(lookalike), MinPrefixDepth))
           = PrefixSide(p, v, lookalike, TRUE)
<1>. DEFINE key == PrefixKey(lookalike)
            depths == DepthRange(prefixTrie[v], key, MinPrefixDepth)
            ids == NearPrefixes(v, lookalike)
            freq == [r \in ids |-> TrieFreq(prefixTrie[v], key, depths, r)]
            posted == Postings(v, PrefixKeys, key, MinPrefixDepth)
<1>1. ClampDepth(MinPrefixDepth, KP) = MinPrefixDepth
  BY DetectorAssumption DEF ClampDepth
<1>2. PrefixSide(p, v, lookalike, TRUE) = PruneCandidates(p, v, ids, freq)
  BY <1>1, PrefixRetrieval DEF PrefixSide, Side, SideDepths
<1>3. ids \in SUBSET Recipients
  BY DEF NearPrefixes, Trusted
<1>4. ASSUME NEW r \in ids
      PROVE  freq[r] \in Int
  <2>1. r \in Recipients
    BY <1>3
  <2>2. TrieFreq(prefixTrie[v], key, depths, r) \in Nat
    BY <2>1, PrefixFrequency
  <2>. QED
    BY <2>2
<1>5. DOMAIN posted = ids /\ \A r \in ids : posted[r] = TrieFreq(prefixTrie[v], key, depths, r)
  BY PrefixPostingsAgree
<1>6. \A r \in ids : posted[r] = freq[r]
  BY <1>5
<1>. HIDE DEF posted, freq, ids
<1>7. WithinLimit(ids) \/ \A r \in Recipients : ActiveRows(p, v, r) = DOMAIN recipients[v][r]
  BY DEF ids
<1>8. Prune(p, v, posted) = PruneCandidates(p, v, ids, freq)
  BY <1>3, <1>4, <1>5, <1>6, <1>7, PrunesAgree
<1>. QED
  BY <1>2, <1>8 DEF posted

\* The exporter and the detector keep the same of the suffix side.
LEMMA SuffixSidesAgree ==
  ASSUME TypeOK, TrieIndexes, NEW v \in Victims, NEW lookalike, NEW p \in Pendings, p.at # 0,
         MinSuffixDepth \in 1..KS,
         \/ WithinLimit(NearSuffixes(v, lookalike))
         \/ \A r \in Recipients : ActiveRows(p, v, r) = DOMAIN recipients[v][r]
  PROVE  Prune(p, v, Postings(v, SuffixKeys, SuffixKey(lookalike), MinSuffixDepth))
           = SuffixSide(p, v, lookalike, TRUE)
<1>. DEFINE key == SuffixKey(lookalike)
            depths == DepthRange(suffixTrie[v], key, MinSuffixDepth)
            ids == NearSuffixes(v, lookalike)
            freq == [r \in ids |-> TrieFreq(suffixTrie[v], key, depths, r)]
            posted == Postings(v, SuffixKeys, key, MinSuffixDepth)
<1>1. ClampDepth(MinSuffixDepth, KS) = MinSuffixDepth
  BY DetectorAssumption DEF ClampDepth
<1>2. SuffixSide(p, v, lookalike, TRUE) = PruneCandidates(p, v, ids, freq)
  BY <1>1, SuffixRetrieval DEF SuffixSide, Side, SideDepths
<1>3. ids \in SUBSET Recipients
  BY DEF NearSuffixes, Trusted
<1>4. ASSUME NEW r \in ids
      PROVE  freq[r] \in Int
  <2>1. r \in Recipients
    BY <1>3
  <2>2. TrieFreq(suffixTrie[v], key, depths, r) \in Nat
    BY <2>1, SuffixFrequency
  <2>. QED
    BY <2>2
<1>5. DOMAIN posted = ids /\ \A r \in ids : posted[r] = TrieFreq(suffixTrie[v], key, depths, r)
  BY SuffixPostingsAgree
<1>6. \A r \in ids : posted[r] = freq[r]
  BY <1>5
<1>. HIDE DEF posted, freq, ids
<1>7. WithinLimit(ids) \/ \A r \in Recipients : ActiveRows(p, v, r) = DOMAIN recipients[v][r]
  BY DEF ids
<1>8. Prune(p, v, posted) = PruneCandidates(p, v, ids, freq)
  BY <1>3, <1>4, <1>5, <1>6, <1>7, PrunesAgree
<1>. QED
  BY <1>2, <1>8 DEF posted

\* The exporter sees the candidates of the detector, for every file, transfer
\* and configuration it can be compared in: its postings are those of the
\* tries and as frequent, and what it prunes by is what the detector prunes
\* by as long as no row has expired.
THEOREM ExporterSeesTheSame == Spec => []ExportSeesCandidates
<1>1. TypeOK /\ TrieIndexes => ExportSeesCandidates
  <2>. SUFFICES ASSUME TypeOK, TrieIndexes, NEW p \in Pendings, NEW pair \in Pairs(p),
                       Comparable(p, pair[1], pair[2])
                PROVE  /\ ExportCandidates(p, pair[1], pair[2])
                            = CandidateIDs(p, pair[1], pair[2], "union", TRUE)
                       /\ \A a \in Detect(p, "union", TRUE) :
                            a.victim = pair[1] /\ a.lookalike = pair[2] =>
                              \/ ScoredRows(p, pair[1], pair[2]) # {}
                              \/ \E i \in DOMAIN recipients[a.victim][a.matched] :
                                   recipients[a.victim][a.matched][i].seen = 0
    BY DEF ExportSeesCandidates
  <2>1. PICK v, lookalike : v = pair[1] /\ lookalike = pair[2]
    OBVIOUS
  <2>2. v \in Victims
    BY <2>1 DEF Pairs, Protected
  <2>3. /\ p.at # 0 /\ MinPrefixDepth \in 1..KP /\ MinSuffixDepth \in 1..KS
        /\ \/ WithinLimit(NearPrefixes(v, lookalike)) /\ WithinLimit(NearSuffixes(v, lookalike))
           \/ \A r \in Recipients : ActiveRows(p, v, r) = DOMAIN recipients[v][r]
    BY <2>1 DEF Comparable, Uncrowded
  <2>4. ExportCandidates(p, v, lookalike) = CandidateIDs(p, v, lookalike, "union", TRUE)
    <3>1. Prune(p, v, Postings(v, PrefixKeys, PrefixKey(lookalike), MinPrefixDepth))
            = PrefixSide(p, v, lookalike, TRUE)
      BY <2>2, <2>3, PrefixSidesAgree
    <3>2. Prune(p, v, Postings(v, SuffixKeys, SuffixKey(lookalike), MinSuffixDepth))
            = SuffixSide(p, v, lookalike, TRUE)
      BY <2>2, <2>3, SuffixSidesAgree
    <3>. QED
      BY <3>1, <3>2 DEF ExportCandidates, CandidateIDs, Combine
  <2>5. ASSUME NEW a \in Detect(p, "union", TRUE), a.victim = v, a.lookalike = lookalike
        PROVE  \/ ScoredRows(p, v, lookalike) # {}
               \/ \E i \in DOMAIN recipients[a.victim][a.matched] :
                    recipients[a.victim][a.matched][i].seen = 0
    <3>1. PICK other \in Pairs(p) :
            \E r \in CandidateIDs(p, other[1], other[2], "union", TRUE) :
              a = Alert(other, r) /\ Scores(p, other[1], other[2], r)
      BY DEF Detect
    <3>2. PICK r \in CandidateIDs(p, v, lookalike, "union", TRUE) :
            a.matched = r /\ Scores(p, v, lookalike, r)
      <4>1. PICK r : /\ r \in CandidateIDs(p, other[1], other[2], "union", TRUE)
                     /\ a = Alert(other, r) /\ Scores(p, other[1], other[2], r)
        BY <3>1
      <4>2. other[1] = v /\ other[2] = lookalike /\ a.matched = r
        BY <2>5, <4>1 DEF Alert
      <4>. QED
        BY <4>1, <4>2
    <3>3. r \in ExportCandidates(p, v, lookalike) \ {lookalike}
      BY <2>4, <3>2 DEF Scores
    <3>4. PICK i \in DOMAIN recipients[v][r] : CounterpartyActive(p, recipients[v][r][i])
      BY <3>2 DEF Scores
    <3>5. CASE recipients[v][r][i].seen = 0
      BY <2>5, <3>2, <3>5
    <3>6. CASE recipients[v][r][i].seen # 0
      <4>1. IsActive(p, recipients[v][r][i])
        BY <2>3, <3>4, <3>6 DEF CounterpartyActive, IsActive
      <4>2. <<r, i>> \in {r} \X ActiveRows(p, v, r)
        BY <4>1 DEF ActiveRows
      <4>. QED
        BY <3>3, <4>2 DEF ScoredRows
    <3>. QED
      BY <3>5, <3>6
  <2>. QED
    BY <2>1, <2>4, <2>5
<1>. QED
  BY <1>1, TypeCorrect, TriesIndexRows, PTL
-----------------------------------------------------------------------------
(* The SQLite index against the tries. *)

\* Induction from the greatest of an interval down.
LEMMA Downwards ==
  ASSUME NEW lo \in Int, NEW top \in Int, NEW S, top \in S,
         \A d \in lo..(top - 1) : d + 1 \in S => d \in S
  PROVE  \A d \in lo..top : d \in S
<1>. DEFINE T == {n \in Nat : top - n >= lo => top - n \in S}
<1>1. 0 \in T
  OBVIOUS
<1>2. ASSUME NEW n \in T
      PROVE  n + 1 \in T
  <2>. SUFFICES ASSUME top - (n + 1) >= lo
                PROVE  top - (n + 1) \in S
    OBVIOUS
  <2>1. n \in Nat /\ top - n \in S
    OBVIOUS
  <2>2. top - (n + 1) \in lo..(top - 1) /\ (top - (n + 1)) + 1 = top - n
    BY <2>1
  <2>. QED
    BY <2>1, <2>2
<1>3. T = Nat
  <2>. HIDE DEF T
  <2>. QED
    BY <1>1, <1>2, NaturalsByInduction DEF T
<1>. SUFFICES ASSUME NEW d \in lo..top
              PROVE  d \in S
  OBVIOUS
<1>4. top - d \in T
  <2>1. top - d \in Nat
    OBVIOUS
  <2>. HIDE DEF T
  <2>. QED
    BY <1>3, <2>1
<1>5. top - (top - d) = d
  OBVIOUS
<1>. QED
  BY <1>4, <1>5

\* The configured limit of a side is positive.
LEMMA LimitIsPositive == SideLimit \in Nat \ {0}
  BY DetectorAssumption, DBAssumption DEF SideLimit

\* A query returns the first of its rows, as many as its limit allows.
LEMMA QueryReturnsFirst ==
  ASSUME NEW rows \in SUBSET Recipients, NEW limit \in Nat
  PROVE  /\ FirstByRecipient(rows, limit) \subseteq rows
         /\ IsFiniteSet(rows) /\ Cardinality(rows) \in Nat
         /\ Cardinality(rows) <= limit => FirstByRecipient(rows, limit) = rows
         /\ limit <= Cardinality(rows) => Cardinality(FirstByRecipient(rows, limit)) = limit
         /\ Cardinality(FirstByRecipient(rows, limit)) <= limit
<1>. DEFINE R == {x \in rows \X rows : Lexicographic(x[1], x[2])}
<1>1. \A a, b \in rows : <<a, b>> \in R <=> Lexicographic(a, b)
  OBVIOUS
<1>2. IsFiniteSet(rows) /\ Cardinality(rows) \in Nat /\ rows \in SUBSET Addresses
  BY RecipientsAreFinite, FS_Subset, FS_CardinalityType
<1>. HIDE DEF R
<1>3. Orders(R, rows)
  <2>1. \A a \in rows : ~Lexicographic(a, a)
    BY <1>2, AddressesAreOrdered
  <2>2. \A a, b, c \in rows : Lexicographic(a, b) /\ Lexicographic(b, c) => Lexicographic(a, c)
    BY <1>2, AddressesAreOrdered
  <2>3. \A a, b \in rows : a # b => Lexicographic(a, b) \/ Lexicographic(b, a)
    BY <1>2, AddressesAreOrdered
  <2>. QED
    BY <1>1, <2>1, <2>2, <2>3 DEF Orders
<1>4. \A a \in rows : {q \in rows : Lexicographic(q, a)} = Ahead(R, rows, a)
  BY <1>1 DEF Ahead
<1>5. FirstByRecipient(rows, limit) = FirstOf(R, rows, limit)
  BY <1>4 DEF FirstByRecipient, FirstOf
<1>6. /\ FirstOf(R, rows, limit) \subseteq rows
      /\ limit <= Cardinality(rows) => Cardinality(FirstOf(R, rows, limit)) = limit
      /\ Cardinality(rows) <= limit => FirstOf(R, rows, limit) = rows
  BY <1>2, <1>3, FirstsAreFirst
<1>. QED
  BY <1>2, <1>5, <1>6

\* One turn of the loop of querySide over the depths.
FillStep(victim, key, columns, d, deeper) ==
  IF Cardinality(deeper) >= SideLimit THEN deeper
  ELSE QuerySide(deeper, Matches(victim, key, columns, d), SideLimit - Cardinality(deeper))

Fills(side, victim, key, columns, maxDepth, minDepth) ==
  side = [d \in minDepth..(maxDepth + 1) |->
            IF d = maxDepth + 1 THEN {}
            ELSE FillStep(victim, key, columns, d, side[d + 1])]

\* The loop ends: there is a side for every depth.
LEMMA FillExists ==
  ASSUME NEW v, NEW key, NEW columns, NEW hi \in Nat, NEW lo \in 1..hi
  PROVE  /\ \E side : Fills(side, v, key, columns, hi, lo)
         /\ \E side : /\ Fills(side, v, key, columns, hi, lo)
                      /\ FillSide(v, key, columns, hi, lo) = side[lo]
<1>. DEFINE T == {m \in lo..(hi + 1) : \E side : Fills(side, v, key, columns, hi, m)}
<1>1. hi + 1 \in T
  <2>. DEFINE g == [d \in (hi + 1)..(hi + 1) |-> {}]
  <2>1. Fills(g, v, key, columns, hi, hi + 1)
    BY DEF Fills
  <2>. QED
    BY <2>1
<1>2. ASSUME NEW m \in lo..hi, m + 1 \in T
      PROVE  m \in T
  <2>1. PICK g : Fills(g, v, key, columns, hi, m + 1)
    BY <1>2
  <2>. DEFINE term(d, side) == IF d = hi + 1 THEN {} ELSE FillStep(v, key, columns, d, side[d + 1])
              h == [d \in m..(hi + 1) |-> IF d = m THEN FillStep(v, key, columns, m, g[m + 1])
                                                   ELSE g[d]]
  <2>2. \A d \in (m + 1)..(hi + 1) : g[d] = term(d, g) /\ h[d] = g[d]
    <3>1. \A d \in (m + 1)..(hi + 1) : g[d] = term(d, g)
      <4>. HIDE DEF term
      <4>1. g = [d \in (m + 1)..(hi + 1) |-> term(d, g)]
        BY <2>1 DEF Fills, term
      <4>. QED
        BY <4>1
    <3>2. \A d \in (m + 1)..(hi + 1) : d \in m..(hi + 1) /\ d # m
      OBVIOUS
    <3>. HIDE DEF term
    <3>. QED
      BY <3>1, <3>2
  <2>3. h[m] = FillStep(v, key, columns, m, g[m + 1]) /\ h[m + 1] = g[m + 1]
    BY <2>2
  <2>4. ASSUME NEW d \in m..(hi + 1)
        PROVE  h[d] = term(d, h)
    <3>1. CASE d = m
      BY <2>3, <3>1
    <3>2. CASE d # m
      <4>1. d \in (m + 1)..(hi + 1) /\ (d # hi + 1 => d + 1 \in (m + 1)..(hi + 1))
        BY <3>2
      <4>2. h[d] = term(d, g)
        BY <2>2, <4>1
      <4>3. d # hi + 1 => h[d + 1] = g[d + 1]
        BY <2>2, <4>1
      <4>. HIDE DEF h
      <4>. QED
        BY <4>2, <4>3
    <3>. QED
      BY <3>1, <3>2
  <2>5. Fills(h, v, key, columns, hi, m)
    <3>1. h = [d \in m..(hi + 1) |-> h[d]]
      OBVIOUS
    <3>. HIDE DEF h
    <3>2. h = [d \in m..(hi + 1) |-> term(d, h)]
      BY <2>4, <3>1
    <3>. QED
      BY <3>2 DEF Fills
  <2>. QED
    BY <2>5
<1>3. lo \in T
  <2>1. lo \in Int /\ hi + 1 \in Int /\ lo \in lo..(hi + 1)
    OBVIOUS
  <2>2. \A d \in lo..((hi + 1) - 1) : d + 1 \in T => d \in T
    BY <1>2
  <2>. HIDE DEF T
  <2>. QED
    BY <1>1, <2>1, <2>2, Downwards
<1>4. PICK side : Fills(side, v, key, columns, hi, lo)
  BY <1>3
<1>5. PICK chosen : /\ chosen = (CHOOSE g : Fills(g, v, key, columns, hi, lo))
                    /\ Fills(chosen, v, key, columns, hi, lo)
  BY <1>4, Zenon
<1>6. FillSide(v, key, columns, hi, lo) = chosen[lo]
  BY <1>5 DEF FillSide, Fills, FillStep
<1>. QED
  BY <1>5, <1>6

\* What a turn of the loop does to the side it has so far.
LEMMA StepsGrow ==
  ASSUME NEW v, NEW key, NEW columns, NEW d, NEW deeper \in SUBSET Recipients,
         Cardinality(deeper) <= SideLimit
  PROVE  LET rows == Matches(v, key, columns, d)
             step == FillStep(v, key, columns, d, deeper)
         IN  /\ step \in SUBSET Recipients /\ Cardinality(step) <= SideLimit
             /\ deeper \subseteq step /\ step \subseteq deeper \cup rows
             /\ Cardinality(deeper) >= SideLimit => step = deeper
             /\ Cardinality(deeper) + Cardinality(rows) <= SideLimit => step = deeper \cup rows
             /\ deeper = {} => step = FirstByRecipient(rows, SideLimit)
<1>. DEFINE rows == Matches(v, key, columns, d)
            step == FillStep(v, key, columns, d, deeper)
            left == SideLimit - Cardinality(deeper)
            first == FirstByRecipient(rows, left)
<1>1. rows \in SUBSET Recipients
  BY DEF Matches, Trusted
<1>2. IsFiniteSet(deeper) /\ Cardinality(deeper) \in Nat
      /\ IsFiniteSet(rows) /\ Cardinality(rows) \in Nat
      /\ (Cardinality(rows) = 0 <=> rows = {}) /\ (deeper = {} => Cardinality(deeper) = 0)
  BY <1>1, RecipientsAreFinite, FS_Subset, FS_CardinalityType, FS_EmptySet
<1>3. SideLimit \in Nat \ {0} /\ left \in Nat
  BY <1>2, LimitIsPositive
<1>4. step = IF Cardinality(deeper) >= SideLimit THEN deeper ELSE deeper \cup first
  BY DEF FillStep, QuerySide
<1>. HIDE DEF rows, step
<1>5. /\ first \subseteq rows /\ Cardinality(first) <= left
      /\ Cardinality(rows) <= left => first = rows
  <2>. HIDE DEF left
  <2>. QED
    BY <1>1, <1>3, QueryReturnsFirst
<1>6. IsFiniteSet(first) /\ Cardinality(first) \in Nat
  BY <1>2, <1>5, FS_Subset, FS_CardinalityType
<1>7. deeper \cup first \in SUBSET Recipients /\ Cardinality(deeper \cup first) <= SideLimit
  <2>1. IsFiniteSet(deeper \cap first) /\ Cardinality(deeper \cap first) \in Nat
    BY <1>2, FS_Intersection, FS_CardinalityType
  <2>2. Cardinality(deeper \cup first)
          = Cardinality(deeper) + Cardinality(first) - Cardinality(deeper \cap first)
    BY <1>2, <1>6, FS_Union
  <2>3. Cardinality(deeper \cup first) <= SideLimit
    <3>. HIDE DEF first
    <3>. QED
      BY <1>2, <1>3, <1>5, <1>6, <2>1, <2>2
  <2>. QED
    BY <1>1, <1>5, <2>3
<1>8. step \in SUBSET Recipients /\ Cardinality(step) <= SideLimit
      /\ deeper \subseteq step /\ step \subseteq deeper \cup rows
  BY <1>4, <1>5, <1>7
<1>9. Cardinality(deeper) >= SideLimit => step = deeper
  BY <1>4
<1>10. ASSUME Cardinality(deeper) + Cardinality(rows) <= SideLimit
       PROVE  step = deeper \cup rows
  <2>1. Cardinality(rows) <= left
    BY <1>2, <1>3, <1>10
  <2>2. CASE Cardinality(deeper) >= SideLimit
    <3>1. rows = {}
      BY <1>2, <1>3, <1>10, <2>2
    <3>. QED
      BY <1>4, <2>2, <3>1
  <2>3. CASE ~(Cardinality(deeper) >= SideLimit)
    BY <1>4, <1>5, <2>1, <2>3
  <2>. QED
    BY <2>2, <2>3
<1>11. ASSUME deeper = {}
       PROVE  step = FirstByRecipient(rows, SideLimit)
  <2>1. Cardinality(deeper) = 0 /\ left = SideLimit
    BY <1>2, <1>3, <1>11
  <2>2. first = FirstByRecipient(rows, SideLimit)
    BY <2>1
  <2>. HIDE DEF first
  <2>. QED
    BY <1>3, <1>4, <1>11, <2>1, <2>2
<1>. QED
  BY <1>8, <1>9, <1>10, <1>11 DEF rows, step

\* The sides of the loop never exceed the limit, hold rows of the depths
\* asked so far, and only grow.
LEMMA SideGrows ==
  ASSUME NEW v, NEW key, NEW columns, NEW hi \in Nat, NEW lo \in 1..hi,
         NEW side, Fills(side, v, key, columns, hi, lo)
  PROVE  /\ side[hi + 1] = {}
         /\ \A d \in lo..hi : side[d] = FillStep(v, key, columns, d, side[d + 1])
         /\ \A d \in lo..(hi + 1) :
              side[d] \in SUBSET Recipients /\ Cardinality(side[d]) <= SideLimit
         /\ \A d \in lo..hi : side[d + 1] \subseteq side[d]
         /\ \A d \in lo..hi : side[d] \subseteq Matches(v, key, columns, d)
<1>. DEFINE S == {d \in lo..(hi + 1) : side[d] \in SUBSET Recipients
                                       /\ Cardinality(side[d]) <= SideLimit}
<1>1. side[hi + 1] = {} /\ \A d \in lo..hi : side[d] = FillStep(v, key, columns, d, side[d + 1])
  <2>. DEFINE term(d) == IF d = hi + 1 THEN {} ELSE FillStep(v, key, columns, d, side[d + 1])
  <2>1. side = [d \in lo..(hi + 1) |-> term(d)]
    BY DEF Fills
  <2>2. hi + 1 \in lo..(hi + 1) /\ \A d \in lo..hi : d \in lo..(hi + 1) /\ d # hi + 1
    OBVIOUS
  <2>3. term(hi + 1) = {} /\ \A d \in lo..hi : term(d) = FillStep(v, key, columns, d, side[d + 1])
    BY <2>2
  <2>. HIDE DEF term
  <2>. QED
    BY <2>1, <2>2, <2>3
<1>2. \A d \in lo..(hi + 1) : d \in S
  <2>1. hi + 1 \in S
    <3>1. Cardinality(side[hi + 1]) = 0
      BY <1>1, FS_EmptySet
    <3>2. side[hi + 1] \in SUBSET Recipients
      BY <1>1
    <3>. QED
      BY <3>1, <3>2, LimitIsPositive
  <2>2. ASSUME NEW d \in lo..((hi + 1) - 1), d + 1 \in S
        PROVE  d \in S
    <3>1. d \in lo..hi /\ side[d] = FillStep(v, key, columns, d, side[d + 1])
      BY <1>1
    <3>2. side[d + 1] \in SUBSET Recipients /\ Cardinality(side[d + 1]) <= SideLimit
      BY <2>2
    <3>3. side[d] \in SUBSET Recipients /\ Cardinality(side[d]) <= SideLimit
      BY <3>1, <3>2, StepsGrow
    <3>. QED
      BY <3>1, <3>3
  <2>3. lo \in Int /\ hi + 1 \in Int
    OBVIOUS
  <2>. HIDE DEF S
  <2>. QED
    BY <2>1, <2>2, <2>3, Downwards
<1>3. ASSUME NEW d \in lo..hi
      PROVE  /\ side[d + 1] \subseteq side[d]
             /\ side[d] \subseteq side[d + 1] \cup Matches(v, key, columns, d)
  <2>1. d + 1 \in S
    BY <1>2
  <2>2. side[d + 1] \in SUBSET Recipients /\ Cardinality(side[d + 1]) <= SideLimit
    BY <2>1
  <2>. QED
    BY <1>1, <2>2, StepsGrow
<1>4. \A d \in lo..hi : side[d] \subseteq Matches(v, key, columns, d)
  <2>. DEFINE M(d) == Matches(v, key, columns, d)
              U == {d \in lo..hi : side[d] \subseteq M(d)}
  <2>1. hi \in U
    BY <1>1, <1>3
  <2>2. ASSUME NEW d \in lo..(hi - 1), d + 1 \in U
        PROVE  d \in U
    <3>1. d \in lo..hi /\ side[d + 1] \subseteq M(d + 1)
      BY <2>2
    <3>2. M(d + 1) \subseteq M(d)
      BY DEF Matches
    <3>. QED
      BY <1>3, <3>1, <3>2
  <2>3. lo \in Int /\ hi \in Int
    OBVIOUS
  <2>4. \A d \in lo..hi : d \in U
    <3>. HIDE DEF U
    <3>. QED
      BY <2>1, <2>2, <2>3, Downwards
  <2>. QED
    BY <2>4
<1>5. \A d \in lo..(hi + 1) : side[d] \in SUBSET Recipients /\ Cardinality(side[d]) <= SideLimit
  BY <1>2
<1>. QED
  BY <1>1, <1>3, <1>4, <1>5

\* With room for the last two depths a side is what matches at the least one.
LEMMA RoomySideIsWhole ==
  ASSUME NEW v, NEW key, NEW columns, NEW hi \in Nat, NEW lo \in 1..hi,
         Roomy(v, key, columns, hi, lo)
  PROVE  FillSide(v, key, columns, hi, lo) = Matches(v, key, columns, lo)
<1>. DEFINE M(d) == Matches(v, key, columns, d)
<1>1. PICK side : /\ Fills(side, v, key, columns, hi, lo)
                  /\ FillSide(v, key, columns, hi, lo) = side[lo]
  BY FillExists
<1>2. /\ side[hi + 1] = {}
      /\ \A d \in lo..hi : side[d] = FillStep(v, key, columns, d, side[d + 1])
      /\ \A d \in lo..(hi + 1) : side[d] \in SUBSET Recipients /\ Cardinality(side[d]) <= SideLimit
      /\ \A d \in lo..hi : side[d] \subseteq M(d)
  BY <1>1, SideGrows
<1>3. \A d : IsFiniteSet(M(d)) /\ Cardinality(M(d)) \in Nat
  <2>1. \A d : M(d) \in SUBSET Recipients
    BY DEF Matches, Trusted
  <2>. HIDE DEF M
  <2>. QED
    BY <2>1, RecipientsAreFinite, FS_Subset, FS_CardinalityType
<1>4. side[lo + 1] \subseteq M(lo) /\ Cardinality(side[lo + 1]) + Cardinality(M(lo)) <= SideLimit
  <2>1. CASE lo = hi
    <3>1. side[lo + 1] = {} /\ Cardinality(side[lo + 1]) = 0
      BY <1>2, <2>1, FS_EmptySet
    <3>2. Cardinality(M(lo)) + 0 <= SideLimit
      BY <2>1 DEF Roomy
    <3>3. Cardinality(M(lo)) \in Nat
      BY <1>3
    <3>. QED
      BY <3>1, <3>2, <3>3
  <2>2. CASE lo # hi
    <3>1. side[lo + 1] \subseteq M(lo + 1)
      BY <1>2, <2>2
    <3>2. M(lo + 1) \subseteq M(lo)
      BY DEF Matches
    <3>3. Cardinality(M(lo)) + Cardinality(M(lo + 1)) <= SideLimit
      BY <2>2 DEF Roomy
    <3>. HIDE DEF M
    <3>4. IsFiniteSet(M(lo + 1)) /\ Cardinality(M(lo + 1)) \in Nat /\ Cardinality(M(lo)) \in Nat
      BY <1>3
    <3>5. Cardinality(side[lo + 1]) <= Cardinality(M(lo + 1)) /\ Cardinality(side[lo + 1]) \in Nat
      BY <3>1, <3>4, FS_Subset, FS_CardinalityType
    <3>. QED
      BY <3>1, <3>2, <3>3, <3>4, <3>5, LimitIsPositive
  <2>. QED
    BY <2>1, <2>2
<1>5. lo \in lo..hi /\ lo + 1 \in lo..(hi + 1)
  OBVIOUS
<1>6. side[lo + 1] \in SUBSET Recipients /\ Cardinality(side[lo + 1]) <= SideLimit
      /\ side[lo] = FillStep(v, key, columns, lo, side[lo + 1])
  BY <1>2, <1>5
<1>7. side[lo] = side[lo + 1] \cup M(lo)
  BY <1>4, <1>6, StepsGrow
<1>. QED
  BY <1>1, <1>4, <1>7

\* The depths of the queries have columns, and where every depth of the tries
\* has one the least of them is that of the tries.
LEMMA DepthsHaveColumns ==
  ASSUME NEW depth \in Int, NEW maxDepth \in Nat \ {0}
  PROVE  LET hi == DBDepth(maxDepth)
             lo == DBMinDepth(depth, maxDepth)
         IN  /\ hi \in Nat /\ hi \in 1..AddrLen /\ lo \in 1..hi
             /\ ClampDepth(depth, maxDepth) <= DisplayNibbles => lo = ClampDepth(depth, maxDepth)
<1>1. DisplayNibbles \in Nat \ {0} /\ DisplayNibbles <= AddrLen /\ AddrLen \in Nat
  BY DetectorAssumption, DBAssumption
<1>2. DBDepth(maxDepth) \in 1..DisplayNibbles /\ DBDepth(depth) \in 1..DisplayNibbles
  BY <1>1, ClampRange DEF DBDepth
<1>3. /\ DBDepth(maxDepth) = IF maxDepth > DisplayNibbles THEN DisplayNibbles ELSE maxDepth
      /\ DBDepth(depth) = IF depth <= 0 \/ depth > DisplayNibbles THEN DisplayNibbles ELSE depth
      /\ ClampDepth(depth, maxDepth) = IF depth <= 0 \/ depth > maxDepth THEN maxDepth ELSE depth
  BY DEF DBDepth, ClampDepth
<1>4. DBMinDepth(depth, maxDepth)
        = IF DBDepth(depth) < DBDepth(maxDepth) THEN DBDepth(depth) ELSE DBDepth(maxDepth)
  BY DEF DBMinDepth, Least
<1>5. DBDepth(maxDepth) \in Nat /\ DBDepth(maxDepth) \in 1..AddrLen
      /\ DBMinDepth(depth, maxDepth) \in 1..DBDepth(maxDepth)
  BY <1>1, <1>2, <1>4
<1>6. ASSUME ClampDepth(depth, maxDepth) <= DisplayNibbles
      PROVE  DBMinDepth(depth, maxDepth) = ClampDepth(depth, maxDepth)
  BY <1>1, <1>3, <1>4, <1>6
<1>. QED
  BY <1>5, <1>6

\* A crowded side holds the recipients at the deepest depth there are any.
LEMMA DeepestFillFirst ==
  ASSUME NEW v, NEW key, NEW columns, NEW hi \in Nat, NEW lo \in 1..hi
  PROVE  LET side == FillSide(v, key, columns, hi, lo)
             depths == {d \in lo..hi : Matches(v, key, columns, d) # {}}
             closest == Matches(v, key, columns, Max(depths))
         IN  /\ Cardinality(side) <= SideLimit
             /\ depths # {} =>
                  IF Cardinality(closest) >= SideLimit
                    THEN side = FirstByRecipient(closest, SideLimit)
                    ELSE closest \subseteq side
<1>. DEFINE M(d) == Matches(v, key, columns, d)
            depths == {d \in lo..hi : M(d) # {}}
            m == Max(depths)
            first == FirstByRecipient(M(m), SideLimit)
<1>1. PICK side : /\ Fills(side, v, key, columns, hi, lo)
                  /\ FillSide(v, key, columns, hi, lo) = side[lo]
  BY FillExists
<1>2. /\ side[hi + 1] = {}
      /\ \A d \in lo..hi : side[d] = FillStep(v, key, columns, d, side[d + 1])
      /\ \A d \in lo..(hi + 1) : side[d] \in SUBSET Recipients /\ Cardinality(side[d]) <= SideLimit
      /\ \A d \in lo..hi : side[d + 1] \subseteq side[d]
      /\ \A d \in lo..hi : side[d] \subseteq M(d)
  BY <1>1, SideGrows
<1>3. Cardinality(side[lo]) <= SideLimit
  BY <1>2
<1>4. ASSUME depths # {}
      PROVE  IF Cardinality(M(m)) >= SideLimit THEN side[lo] = first ELSE M(m) \subseteq side[lo]
  <2>1. m \in depths /\ \A d \in depths : d <= m
    <3>1. depths \in SUBSET Int /\ depths \in SUBSET (lo..hi) /\ IsFiniteSet(lo..hi)
      BY FS_Interval
    <3>2. IsFiniteSet(depths)
      BY <3>1, FS_Subset
    <3>. HIDE DEF depths
    <3>3. \E x \in depths : \A y \in depths : y <= x
      BY <1>4, <3>1, <3>2, GreatestInteger
    <3>4. \E x \in depths : \A y \in depths : x >= y
      BY <3>1, <3>3
    <3>5. m \in depths /\ \A y \in depths : m >= y
      BY <3>4, Zenon DEF Max
    <3>. QED
      BY <3>1, <3>5
  <2>2. m \in lo..hi
    BY <2>1
  <2>. HIDE DEF m
  <2>3. side[m + 1] = {}
    <3>1. CASE m = hi
      BY <1>2, <3>1
    <3>2. CASE m # hi
      <4>1. m + 1 \in lo..hi
        BY <2>2, <3>2
      <4>2. m + 1 \notin depths
        BY <2>1, <2>2
      <4>3. M(m + 1) = {}
        BY <4>1, <4>2
      <4>. QED
        BY <1>2, <4>1, <4>3
    <3>. QED
      BY <3>1, <3>2
  <2>4. side[m] = first
    <3>1. Cardinality(side[m + 1]) <= SideLimit /\ side[m + 1] \in SUBSET Recipients
      BY <1>2, <2>2
    <3>2. side[m] = FillStep(v, key, columns, m, side[m + 1])
      BY <1>2, <2>2
    <3>. QED
      BY <2>3, <3>1, <3>2, StepsGrow
  <2>5. M(m) \in SUBSET Recipients
    BY DEF Matches, Trusted
  <2>6. /\ Cardinality(M(m)) \in Nat
        /\ Cardinality(M(m)) <= SideLimit => first = M(m)
        /\ SideLimit <= Cardinality(M(m)) => Cardinality(first) = SideLimit
    <3>. HIDE DEF M
    <3>. QED
      BY <2>5, LimitIsPositive, QueryReturnsFirst
  <2>7. lo \in Int /\ m \in Int
    BY <2>2
  <2>8. CASE Cardinality(M(m)) >= SideLimit
    <3>. DEFINE S == {d \in lo..m : side[d] = first}
    <3>1. m \in S
      BY <2>2, <2>4
    <3>2. ASSUME NEW d \in lo..(m - 1), d + 1 \in S
          PROVE  d \in S
      <4>1. d \in lo..hi /\ d \in lo..m /\ d + 1 \in lo..(hi + 1)
        BY <2>2
      <4>2. side[d + 1] = first /\ Cardinality(side[d + 1]) >= SideLimit
        BY <2>6, <2>8, <3>2, LimitIsPositive
      <4>3. side[d + 1] \in SUBSET Recipients /\ Cardinality(side[d + 1]) <= SideLimit
            /\ side[d] = FillStep(v, key, columns, d, side[d + 1])
        BY <1>2, <4>1
      <4>4. side[d] = side[d + 1]
        BY <4>2, <4>3, StepsGrow
      <4>. QED
        BY <4>1, <4>2, <4>4
    <3>3. \A d \in lo..m : d \in S
      <4>. HIDE DEF S
      <4>. QED
        BY <2>7, <3>1, <3>2, Downwards
    <3>4. side[lo] = first
      BY <2>2, <3>3
    <3>. QED
      BY <2>8, <3>4
  <2>9. CASE ~(Cardinality(M(m)) >= SideLimit)
    <3>. DEFINE S == {d \in lo..m : M(m) \subseteq side[d]}
    <3>1. m \in S
      <4>1. side[m] = M(m)
        BY <2>4, <2>6, <2>9, LimitIsPositive
      <4>. QED
        BY <2>2, <4>1
    <3>2. ASSUME NEW d \in lo..(m - 1), d + 1 \in S
          PROVE  d \in S
      <4>1. d \in lo..hi /\ d \in lo..m /\ M(m) \subseteq side[d + 1]
        BY <2>2, <3>2
      <4>2. side[d + 1] \subseteq side[d]
        BY <1>2, <4>1
      <4>. QED
        BY <4>1, <4>2
    <3>3. \A d \in lo..m : d \in S
      <4>. HIDE DEF S
      <4>. QED
        BY <2>7, <3>1, <3>2, Downwards
    <3>4. M(m) \subseteq side[lo]
      BY <2>2, <3>3
    <3>. QED
      BY <2>9, <3>4
  <2>. QED
    BY <2>8, <2>9
<1>. QED
  BY <1>1, <1>3, <1>4

\* With room, the queries return the recipients that are near.
LEMMA QueriesAreNear ==
  ASSUME NEW v, NEW lookalike
  PROVE  /\ /\ ClampDepth(MinPrefixDepth, KP) <= DisplayNibbles
            /\ Roomy(v, Forward(lookalike), PrefixColumns,
                     DBDepth(KP), DBMinDepth(MinPrefixDepth, KP))
            => DBPrefixSide(v, lookalike) = NearPrefixes(v, lookalike)
         /\ /\ ClampDepth(MinSuffixDepth, KS) <= DisplayNibbles
            /\ Roomy(v, Backward(lookalike), SuffixColumns,
                     DBDepth(KS), DBMinDepth(MinSuffixDepth, KS))
            => DBSuffixSide(v, lookalike) = NearSuffixes(v, lookalike)
<1>1. Trusted(v) \subseteq Recipients
  BY DEF Trusted
<1>2. ASSUME ClampDepth(MinPrefixDepth, KP) <= DisplayNibbles,
             Roomy(v, Forward(lookalike), PrefixColumns,
                   DBDepth(KP), DBMinDepth(MinPrefixDepth, KP))
      PROVE  DBPrefixSide(v, lookalike) = NearPrefixes(v, lookalike)
  <2>. DEFINE hi == DBDepth(KP)
              lo == DBMinDepth(MinPrefixDepth, KP)
  <2>1. hi \in Nat /\ hi \in 1..AddrLen /\ lo \in 1..hi /\ lo = ClampDepth(MinPrefixDepth, KP)
    BY <1>2, DetectorAssumption, DepthsHaveColumns
  <2>2. DBPrefixSide(v, lookalike) = Matches(v, Forward(lookalike), PrefixColumns, lo)
    BY <1>2, <2>1, RoomySideIsWhole DEF DBPrefixSide
  <2>3. lo \in Nat /\ lo <= AddrLen
    BY <2>1, DetectorAssumption
  <2>. HIDE DEF lo
  <2>4. Matches(v, Forward(lookalike), PrefixColumns, lo) = NearPrefixes(v, lookalike)
    BY <1>1, <2>1, <2>3 DEF Matches, Forward, PrefixColumns, NearPrefixes, NearPrefix
  <2>. QED
    BY <2>2, <2>4
<1>3. ASSUME ClampDepth(MinSuffixDepth, KS) <= DisplayNibbles,
             Roomy(v, Backward(lookalike), SuffixColumns,
                   DBDepth(KS), DBMinDepth(MinSuffixDepth, KS))
      PROVE  DBSuffixSide(v, lookalike) = NearSuffixes(v, lookalike)
  <2>. DEFINE hi == DBDepth(KS)
              lo == DBMinDepth(MinSuffixDepth, KS)
  <2>1. hi \in Nat /\ hi \in 1..AddrLen /\ lo \in 1..hi /\ lo = ClampDepth(MinSuffixDepth, KS)
    BY <1>3, DetectorAssumption, DepthsHaveColumns
  <2>2. DBSuffixSide(v, lookalike) = Matches(v, Backward(lookalike), SuffixColumns, lo)
    BY <1>3, <2>1, RoomySideIsWhole DEF DBSuffixSide
  <2>3. lo \in Nat /\ lo <= AddrLen /\ \A i \in 1..lo : i \in 1..AddrLen
    BY <2>1, DetectorAssumption
  <2>. HIDE DEF lo
  <2>4. \A r \in Trusted(v), i \in 1..lo :
          SuffixColumns[r][i] = r[AddrLen + 1 - i]
          /\ Backward(lookalike)[i] = lookalike[AddrLen + 1 - i]
    BY <1>1, <2>3 DEF Backward, SuffixColumns
  <2>5. Matches(v, Backward(lookalike), SuffixColumns, lo) = NearSuffixes(v, lookalike)
    BY <2>1, <2>3, <2>4 DEF Matches, NearSuffixes, NearSuffix
  <2>. QED
    BY <2>2, <2>5
<1>. QED
  BY <1>2, <1>3

\* The SQLite index raises the alerts of the tries where no side is short of
\* room, and a side that is short of it holds the closest recipients: for
\* every file, transfer, depth and limit.
THEOREM IndexAgreesWithTries == Spec => []DBAgreesWithTrie
<1>1. TypeOK /\ TrieIndexes => DBAgreesWithTrie
  <2>. SUFFICES ASSUME TypeOK, TrieIndexes
                PROVE  DBAgreesWithTrie
    OBVIOUS
  <2>1. DBDeepestFirst
    <3>1. /\ DBDepth(KP) \in Nat
          /\ DBMinDepth(MinPrefixDepth, KP) \in 1..DBDepth(KP)
      BY DetectorAssumption, DepthsHaveColumns
    <3>. QED
      BY <3>1, DeepestFillFirst DEF DBDeepestFirst, DBPrefixSide
  <2>2. ASSUME NEW p \in Pendings, SidesRoomy(p)
        PROVE  DetectDBIndex(p) = Detect(p, "union", TRUE)
    <3>1. ASSUME NEW pair \in Pairs(p)
          PROVE  DBCandidateIDs(pair[1], pair[2]) = CandidateIDs(p, pair[1], pair[2], "union", TRUE)
      <4>1. PICK v, lookalike : v = pair[1] /\ lookalike = pair[2]
        OBVIOUS
      <4>2. v \in Victims /\ WithinLimit(NearPrefixes(v, lookalike))
            /\ WithinLimit(NearSuffixes(v, lookalike))
        BY <2>2, <4>1 DEF Pairs, Protected, SidesRoomy, Uncrowded
      <4>3. /\ DBPrefixSide(v, lookalike) = NearPrefixes(v, lookalike)
            /\ DBSuffixSide(v, lookalike) = NearSuffixes(v, lookalike)
        BY <2>2, <4>1, QueriesAreNear DEF SidesRoomy
      <4>4. /\ PrefixSide(p, v, lookalike, TRUE) = NearPrefixes(v, lookalike)
            /\ SuffixSide(p, v, lookalike, TRUE) = NearSuffixes(v, lookalike)
        BY <4>2, SidesAreNear
      <4>. QED
        BY <4>1, <4>3, <4>4 DEF DBCandidateIDs, CandidateIDs, Combine
    <3>. DEFINE raised(pair, candidates) ==
                  {Alert(pair, r) : r \in {c \in candidates : Scores(p, pair[1], pair[2], c)}}
    <3>2. /\ DetectDBIndex(p) = UNION {raised(pair, DBCandidateIDs(pair[1], pair[2])) :
                                         pair \in Pairs(p)}
          /\ Detect(p, "union", TRUE)
               = UNION {raised(pair, CandidateIDs(p, pair[1], pair[2], "union", TRUE)) :
                          pair \in Pairs(p)}
      BY DEF DetectDBIndex, Detect
    <3>. HIDE DEF raised
    <3>. QED
      BY <3>1, <3>2
  <2>. QED
    BY <2>1, <2>2 DEF DBAgreesWithTrie
<1>. QED
  BY <1>1, TypeCorrect, TriesIndexRows, PTL
=============================================================================
