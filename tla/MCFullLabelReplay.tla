------------------------- MODULE MCFullLabelReplay -------------------------
(* TLC instance of FullLabelReplay: two victims in two shards with a trusted *)
(* counterparty each, one of which is the lookalike of the other's transfer. *)
EXTENDS FullLabelReplay

CONSTANTS v1, v2, r1, r2, look, none

Intended(v, to) == [victim |-> v, lookalike |-> to, flags |-> {"intended"},
                    intended |-> to, risk |-> 0]
Poison(v, l, flags, risk) == [victim |-> v, lookalike |-> l, flags |-> flags,
                              intended |-> none, risk |-> risk]

MCRows ==
  << Intended(v1, r1),
     Poison(v1, look, {"zero_value"}, 2),
     Intended(v2, r2),
     Poison(v2, v1, {"tiny", "intended"}, 1),
     Poison(none, look, {"counterfeit"}, 2),
     Poison(v1, look, {"intended", "payoff"}, 2) >>

MCHashOf == [a \in {v1, v2, r1, r2, look} |->
               IF a = v1 THEN 4 ELSE IF a = look THEN 6 ELSE 7]
Both == {"mempool_trieguard", "prefix_only"}
MCResembles ==
  [m \in Both \cup {"confirmed_chain"} |->
     IF m = "prefix_only" THEN {<<look, r1>>} ELSE {<<look, r1>>, <<v2, r1>>}]
MCHidden == {<<2, 0, 250>>}

\* A replay of one method, of both, and of both with day boundaries, one with
\* a single shard, and a sweep.
Replay(methods, days) ==
  [program |-> "replay", shard_count |-> 2, max_rows |-> 0, source |-> FALSE,
   days |-> days, losses |-> {0, 250}, methods |-> methods]
MCArgs ==
  {Replay({"mempool_trieguard"}, FALSE), Replay(Both, FALSE), Replay(Both, TRUE),
   [Replay({"mempool_trieguard"}, FALSE) EXCEPT !.shard_count = 1],
   [program |-> "sweep", shard_count |-> 2, max_rows |-> 0, source |-> TRUE,
    days |-> FALSE, losses |-> {250}, methods |-> {"confirmed_chain"}]}
MCTauGrid == {1, 2}
MCDelays == {15}
=============================================================================
