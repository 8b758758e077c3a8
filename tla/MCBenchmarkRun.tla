--------------------------- MODULE MCBenchmarkRun ---------------------------
(* TLC instance of BenchmarkRun: two victims, one poisoned twice by one      *)
(* transaction, a payoff, and a poisoning transfer of value that a run may   *)
(* leave out; intended and other transfers before and after the attacks.     *)
(* Days are as long as blocks, so that events of different blocks fall on    *)
(* different days and a counterparty can be too old to count.                *)
EXTENDS BenchmarkRun

CONSTANTS V, W, Attacker, Friend, Shop, H1, H2, H3, H4, H5, H6

Label(hash, block, victim, intended, kind) ==
  [hash |-> hash, block |-> block, victim |-> victim, token |-> 1,
   lookalike |-> IF kind = "intended" THEN intended ELSE Attacker,
   intended_addr |-> intended, intended |-> kind \in {"intended", "payoff"},
   poison |-> kind = "poison", payoff |-> kind = "payoff"]

MCLabels ==
  <<Label(H1, 11, V, Friend, "poison"), Label(H2, 12, V, Friend, "intended"),
    Label(H1, 11, W, NoAddress, "poison"), Label(H3, 12, V, Attacker, "payoff"),
    [Label(H4, 12, V, Friend, "poison") EXCEPT !.token = 2],
    Label(H6, 10, V, Shop, "intended")>>

Log(hash, block, from, to, token, value) ==
  [hash |-> hash, block |-> block, from |-> from, to |-> to, token |-> token, value |-> value]

MCLogs ==
  <<Log(H2, 12, V, Friend, 1, 3), Log(H1, 11, Attacker, W, 1, 0),
    Log(H3, 12, V, Attacker, 1, 9), Log(H4, 12, Attacker, V, 2, 1),
    Log(H5, 10, Shop, V, 2, 4)>>

MCCall(maxRows, refresh, url, reuse) ==
  [max_rows |-> maxRows, refresh |-> refresh, url |-> url, reuse |-> reuse]

MCCalls == {MCCall(0, FALSE, TRUE, FALSE), MCCall(0, FALSE, FALSE, TRUE),
            MCCall(4, TRUE, TRUE, TRUE), MCCall(4, FALSE, FALSE, FALSE)}

Job(method, delay, loss) == [method |-> method, delay |-> delay, loss |-> loss]

MCJobs == {Job("mempool_trieguard", 5, TRUE), Job("confirmed_chain", 5, TRUE),
           Job("mempool_trieguard", 15, FALSE)}
=============================================================================
