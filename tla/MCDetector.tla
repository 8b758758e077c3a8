----------------------------- MODULE MCDetector -----------------------------
(* TLC instance of Detector and of the two indexes that are compared with   *)
(* it: addresses of five nibbles with overlapping keys, one victim with     *)
(* four recipients that crowd one prefix and part on the suffix, and a      *)
(* recipient that is protected itself.                                      *)
EXTENDS DBIndex, FeatureIndex

CONSTANTS Dai, DaiFake, Usdc

Victim == <<1, 1, 1, 1, 1>>
A == <<0, 0, 0, 0, 0>>
B == <<0, 0, 0, 0, 1>>
C == <<0, 0, 1, 0, 1>>
D == <<0, 1, 0, 0, 0>>

Row(victim, recipient, token, seen, freq) ==
  [victim |-> victim, recipient |-> recipient, token |-> token,
   seen |-> seen, freq |-> freq]

\* Recent, long ago, in the future, and on an unknown day.
MCRows == {Row(Victim, A, Dai, 20603, 1), Row(Victim, A, NoToken, 20100, 3),
           Row(Victim, B, Usdc, 0, 1),    Row(Victim, B, Dai, 20602, 1),
           Row(Victim, C, Dai, 20603, 1), Row(Victim, C, Usdc, 20900, 2),
           Row(Victim, D, Dai, 20603, 1), Row(A, <<1, 1, 1, 1, 0>>, Dai, 20603, 1)}

MCPendings ==
  [from : {Victim, A}, to : {<<0, 0, 0, 1, 0>>, <<0, 0, 1, 1, 1>>, A},
   token : {DaiFake, Dai}, value : {"zero", "large"}, at : {20604}]
    \cup [from : {<<1, 1, 1, 1, 0>>}, to : {A}, token : {NoToken}, value : {"tiny"}, at : {0}]

\* The weights of the default configuration in thousandths.
MCAddressWeight == -8127
MCCounterfeits == {<<DaiFake, Dai>>}
=============================================================================
