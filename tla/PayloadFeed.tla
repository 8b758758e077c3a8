---------------------------- MODULE PayloadFeed ----------------------------
(***************************************************************************)
(* What a websocket subscription promises to the loop that consumes it     *)
(* (internal/rpc/drpc.go): a consumer is handed a gap-free prefix of the   *)
(* payloads the provider published, each of them once and in order, and    *)
(* after the end of the feed it is handed nothing.  How long the prefix is *)
(* is not promised: a feed that is closed may drop its tail.               *)
(*                                                                         *)
(* Payloads are numbered by their position in the provider's stream.       *)
(***************************************************************************)
EXTENDS Naturals, Sequences

VARIABLES
  published,   \* number of payloads taken from the provider
  delivered,   \* payloads handed to the consumer, oldest first
  ended        \* the consumer has been told that the feed is over

feedVars == <<published, delivered, ended>>

Init ==
  /\ published = 0
  /\ delivered = <<>>
  /\ ended = FALSE

Publish ==
  /\ ~ended
  /\ published' = published + 1
  /\ UNCHANGED <<delivered, ended>>

Deliver ==
  /\ ~ended
  /\ Len(delivered) < published
  /\ delivered' = Append(delivered, Len(delivered) + 1)
  /\ UNCHANGED <<published, ended>>

End ==
  /\ ended' = TRUE
  /\ UNCHANGED <<published, delivered>>

Next == Publish \/ Deliver \/ End

Spec == Init /\ [][Next]_feedVars
=============================================================================
