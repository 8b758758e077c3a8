--------------------------- MODULE MCRiskTraining ---------------------------
(* TLC instance of RiskTraining: seven events, one on each of seven days,  *)
(* over two shards that part at different days when each is cut alone, and *)
(* a third shard without counterparties.                                   *)
EXTENDS RiskTraining

MCShardOf == [e \in Events |-> IF e \in {1, 3, 4, 6} THEN 1 ELSE IF e = 2 THEN 3 ELSE 0]
MCDayOf == [e \in Events |-> e]
MCBucket == [e \in Events |-> IF e < 4 THEN 69 ELSE IF e < 7 THEN 70 ELSE 85]
MCSelections == {NoSelection, {1}}

\* Scores on and between the thresholds, apart, equal and at both ends, for
\* two poisoning events, one other event, and the rest.
MCScorings ==
  {[e \in Events |-> IF e \in {4, 7} THEN s[1] ELSE IF e = 6 THEN s[2] ELSE s[3]] :
     s \in {<<4, 4, 4>>, <<3, 2, 1>>, <<1, 2, 0>>, <<2, 2, 3>>}}

MCFamilies == [address_only |-> [e \in Events |-> e % 5],
               manual_full_score |-> [e \in Events |-> (e * 2) % 5]]
MCColumns == {"split_time", "split_victim"}
=============================================================================
