--------------------------- MODULE MCSubscription ---------------------------
(* TLC instance of Subscription: two places in the channel, four payloads. *)
EXTENDS Subscription
=============================================================================
