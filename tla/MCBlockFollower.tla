--------------------------- MODULE MCBlockFollower ---------------------------
(* TLC instance of BlockFollower: four blocks on any fork, one of them in   *)
(* the warm-up, and two requests that fail.                                *)
EXTENDS BlockFollower
=============================================================================
