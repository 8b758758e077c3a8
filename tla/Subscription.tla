---------------------------- MODULE Subscription ----------------------------
(***************************************************************************)
(* One eth_subscribe subscription of internal/rpc/drpc.go: the goroutine   *)
(* readLoop moves payloads from the websocket into the bounded channel     *)
(* RawMessages, a failed read goes to the channel Errors, and Close, called *)
(* by the consumer, cancels the context before it closes the socket.  The  *)
(* consumer (the live service or the micro-benchmark) is any client of the *)
(* two channels.                                                           *)
(*                                                                         *)
(* A payload is the number of its position in the provider's stream, so    *)
(* what is lost, doubled or reordered can be read off the numbers.         *)
(***************************************************************************)
EXTENDS Naturals, Sequences

CONSTANTS
  BufferSize,    \* capacity of RawMessages (subscriptionRawMessageBuffer)
  ErrorsSize,    \* capacity of Errors
  MaxPayloads,   \* bound of the model: payloads the provider publishes
  MaxWire        \* bound of the model: frames received and not yet read

ASSUME SubscriptionAssumption ==
  /\ BufferSize \in Nat \ {0}
  /\ ErrorsSize \in Nat \ {0}
  /\ MaxPayloads \in Nat
  /\ MaxWire \in Nat \ {0}

VARIABLES
  \* the websocket
  conn,          \* "up", "broken" (the peer failed) or "closed" (Conn.Close)
  wire,          \* number of frames received by the host and not yet read
  \* readLoop
  reader,        \* where the goroutine is
  raw,           \* the payload it is about to enqueue
  nread,         \* payloads read so far
  \* the Subscription value
  rawMessages,   \* the channel RawMessages
  errors,        \* number of errors in the channel Errors
  done,          \* ctxRun is cancelled
  closer,        \* progress of the one execution of Close
  \* what the consumer has seen
  taken,         \* payloads received
  failures,      \* errors received
  ended          \* a receive returned ok = false

sockVars     == <<conn, wire>>
readerVars   == <<reader, raw, nread>>
chanVars     == <<rawMessages, errors>>
closeVars    == <<done, closer>>
consumerVars == <<taken, failures, ended>>
vars == <<conn, wire, reader, raw, nread, rawMessages, errors, done, closer,
          taken, failures, ended>>

\* readLoop's position: at the top of its loop, in ReadMessage, at the first
\* and at the second select of enqueueRawMessage, or returned.
ReaderPC == {"check", "read", "enqueue", "send", "exited"}

\* "defer close(s.RawMessages)": the channel is closed when readLoop returns.
RawClosed == reader = "exited"

\* The payload in the hands of the reader, if any.
Holding == IF reader \in {"enqueue", "send"} THEN 1 ELSE 0

TypeOK ==
  /\ conn \in {"up", "broken", "closed"}
  /\ wire \in 0..MaxWire
  /\ reader \in ReaderPC
  /\ raw \in Nat
  /\ nread \in 0..MaxPayloads
  /\ rawMessages \in Seq(Nat)
  /\ Len(rawMessages) <= BufferSize
  /\ errors \in 0..ErrorsSize
  /\ done \in BOOLEAN
  /\ closer \in {"idle", "cancelled", "closed"}
  /\ taken \in Seq(Nat)
  /\ failures \in Nat
  /\ ended \in BOOLEAN

\* Subscribe has received the acknowledgement and spawned readLoop.
Init ==
  /\ conn = "up" /\ wire = 0
  /\ reader = "check" /\ raw = 0 /\ nread = 0
  /\ rawMessages = <<>> /\ errors = 0
  /\ done = FALSE /\ closer = "idle"
  /\ taken = <<>> /\ failures = 0 /\ ended = FALSE

-----------------------------------------------------------------------------
(* Plausible bugs of readLoop, enqueueRawMessage and their clients.  They   *)
(* are no part of the specification: each replaces one action, to show that *)
(* a property below can fail.                                               *)

\* The error of the read is logged instead of sent.
BugSilentError ==
  /\ reader = "read" /\ conn # "up"
  /\ reader' = "exited"
  /\ UNCHANGED <<sockVars, raw, nread, chanVars, closeVars, consumerVars>>

\* A full channel makes room by evicting its oldest payload.
BugEvictOldest ==
  /\ reader = "send"
  /\ rawMessages' = Append(IF Len(rawMessages) < BufferSize
                              THEN rawMessages ELSE Tail(rawMessages), raw)
  /\ reader' = "check"
  /\ UNCHANGED <<sockVars, raw, nread, errors, closeVars, consumerVars>>

\* "default:" where the second select has "case <-s.done:".
BugDropWhenFull ==
  /\ reader = "send" /\ Len(rawMessages) = BufferSize
  /\ reader' = "check"
  /\ UNCHANGED <<sockVars, raw, nread, chanVars, closeVars, consumerVars>>

\* The send has no "case <-s.done:" beside it.
BugBlindSend == FALSE /\ UNCHANGED vars

\* The consumer takes the close of the channel for an empty channel.
BugEarlyEnd ==
  /\ RawClosed /\ ~ended
  /\ ended' = TRUE
  /\ UNCHANGED <<sockVars, readerVars, chanVars, closeVars, taken, failures>>

-----------------------------------------------------------------------------
(* The peer and the network. *)

Arrive ==
  /\ conn = "up"
  /\ wire < MaxWire
  /\ wire' = wire + 1
  /\ UNCHANGED <<conn, readerVars, chanVars, closeVars, consumerVars>>

Break ==
  /\ conn = "up"
  /\ conn' = "broken"
  /\ UNCHANGED <<wire, readerVars, chanVars, closeVars, consumerVars>>

-----------------------------------------------------------------------------
(* readLoop. *)

CheckDone ==
  /\ reader = "check"
  /\ reader' = IF done THEN "exited" ELSE "read"
  /\ UNCHANGED <<sockVars, raw, nread, chanVars, closeVars, consumerVars>>

\* Frames the host already holds can still be read after the peer or Close
\* has ended the connection.
ReadPayload ==
  /\ reader = "read"
  /\ wire > 0 /\ nread < MaxPayloads
  /\ wire' = wire - 1
  /\ nread' = nread + 1
  /\ raw' = nread + 1
  /\ reader' = "enqueue"
  /\ UNCHANGED <<conn, chanVars, closeVars, consumerVars>>

\* A frame that does not parse, or is not an eth_subscription notification.
ReadOther ==
  /\ reader = "read"
  /\ wire > 0
  /\ wire' = wire - 1
  /\ reader' = "check"
  /\ UNCHANGED <<conn, raw, nread, chanVars, closeVars, consumerVars>>

ReadError ==
  /\ reader = "read"
  /\ conn # "up"
  /\ errors' = IF errors < ErrorsSize THEN errors + 1 ELSE errors
  /\ reader' = "exited"
  /\ UNCHANGED <<sockVars, raw, nread, rawMessages, closeVars, consumerVars>>

EnqueueCheck ==
  /\ reader = "enqueue"
  /\ reader' = IF done THEN "check" ELSE "send"
  /\ UNCHANGED <<sockVars, raw, nread, chanVars, closeVars, consumerVars>>

EnqueueSend ==
  /\ reader = "send"
  /\ Len(rawMessages) < BufferSize
  /\ rawMessages' = Append(rawMessages, raw)
  /\ reader' = "check"
  /\ UNCHANGED <<sockVars, raw, nread, errors, closeVars, consumerVars>>

EnqueueAbandon ==
  /\ reader = "send"
  /\ done
  /\ reader' = "check"
  /\ UNCHANGED <<sockVars, raw, nread, chanVars, closeVars, consumerVars>>

ReaderStep ==
  \/ CheckDone \/ ReadPayload \/ ReadOther \/ ReadError
  \/ EnqueueCheck \/ EnqueueSend \/ EnqueueAbandon

-----------------------------------------------------------------------------
(* The consumer. *)

\* The context given to Subscribe ends: ctxRun ends with it.
ParentCancel ==
  /\ ~done
  /\ done' = TRUE
  /\ UNCHANGED <<sockVars, readerVars, chanVars, closer, consumerVars>>

CloseCancel ==
  /\ closer = "idle"
  /\ closer' = "cancelled"
  /\ done' = TRUE
  /\ UNCHANGED <<sockVars, readerVars, chanVars, consumerVars>>

CloseConn ==
  /\ closer = "cancelled"
  /\ closer' = "closed"
  /\ conn' = "closed"
  /\ UNCHANGED <<wire, readerVars, chanVars, done, consumerVars>>

Receive ==
  /\ rawMessages # <<>>
  /\ taken' = Append(taken, Head(rawMessages))
  /\ rawMessages' = Tail(rawMessages)
  /\ UNCHANGED <<sockVars, readerVars, errors, closeVars, failures, ended>>

ReceiveClosed ==
  /\ RawClosed /\ rawMessages = <<>> /\ ~ended
  /\ ended' = TRUE
  /\ UNCHANGED <<sockVars, readerVars, chanVars, closeVars, taken, failures>>

ReceiveError ==
  /\ errors > 0
  /\ errors' = errors - 1
  /\ failures' = failures + 1
  /\ UNCHANGED <<sockVars, readerVars, rawMessages, closeVars, taken, ended>>

ConsumerStep ==
  \/ ParentCancel \/ CloseCancel \/ CloseConn
  \/ Receive \/ ReceiveClosed \/ ReceiveError

Next == Arrive \/ Break \/ ReaderStep \/ ConsumerStep

\* The goroutine is scheduled, and a Close that has begun runs to its end.
Spec == Init /\ [][Next]_vars /\ WF_vars(ReaderStep) /\ WF_vars(CloseConn)

-----------------------------------------------------------------------------
(* Properties. *)

\* What the consumer received, and after it what waits in RawMessages, is the
\* provider's stream from its first payload on: nothing is missing in the
\* middle, doubled or reordered, whatever select chose when the subscription
\* was being closed (readLoop and enqueueRawMessage).
DeliveredInOrder ==
  /\ \A i \in 1..Len(taken) : taken[i] = i
  /\ \A i \in 1..Len(rawMessages) : rawMessages[i] = Len(taken) + i

\* While nobody has cancelled the subscription, every payload that was read is
\* with the consumer, in the channel or in the reader's hands: a full channel
\* blocks the reader and drops nothing.
NoLossWhileOpen ==
  ~done => nread = Len(taken) + Len(rawMessages) + Holding

\* However Close races with the reader, one payload at most was read and then
\* dropped.
LossAtMostOne ==
  nread <= Len(taken) + Len(rawMessages) + Holding + 1

\* The end of the feed always has a cause the consumer can find: if RawMessages
\* is closed and nobody cancelled, the error of the failed read is in Errors or
\* was received from it; the non-blocking send never threw it away.
EndHasCause ==
  (RawClosed /\ ~done) => errors + failures = 1

\* A closed subscription leaves no goroutine behind, even if its channel is
\* full and the consumer never receives again.
CloseStopsReader == (closer = "cancelled") ~> RawClosed

\* If the consumer keeps receiving, a failure of the peer ends readLoop, so
\* that the consumer can notice.
FailureEndsFeed == WF_vars(Receive) => ((conn = "broken") ~> RawClosed)

\* readLoop returns in either case, and closes the channel as it does.
ReaderEnds == CloseStopsReader /\ FailureEndsFeed

\* The subscription implements the feed its consumers rely on.
Feed == INSTANCE PayloadFeed WITH published <- nread, delivered <- taken
ImplementsFeed == Feed!Spec
=============================================================================
