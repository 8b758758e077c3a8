------------------------- MODULE MicroSessionProofs -------------------------
(***************************************************************************)
(* For every capacity of the two channels, every length of the feed and    *)
(* every number of connections the provider breaks.                        *)
(*                                                                         *)
(* A subscription (Subscription) hands its consumer a gap-free prefix of   *)
(* the provider's stream, loses nothing while it is open and one payload   *)
(* at most when it is closed, and never ends without a cause.  The         *)
(* accounting of payloads is not inductive by itself: what may be missing  *)
(* depends on where the reader stands.  In ReadMessage and with a payload  *)
(* in its hands nothing has been lost; only a reader that is back at the   *)
(* top of its loop, with the subscription cancelled, can have dropped one, *)
(* and from there it can only return.                                      *)
(*                                                                         *)
(* A run of the micro-benchmark (MicroSession) counts no more reconnects   *)
(* than the provider broke connections, but for the one of its own making, *)
(* and a subscription made by a reconnect lives until the run ends.  The   *)
(* argument is an account.  A reconnect is paid for by the connection that *)
(* broke, and the first one by the subscription that was made under the    *)
(* set-up context.  Whoever sees a subscription fail, by an error or by    *)
(* the closed channel, sees that one of the two is there to pay            *)
(* (SignsHaveCause); both are gone once the new subscription is made, and  *)
(* with them what the old one had left in its channels, so that the other  *)
(* sign of the same failure is never seen (Paid).                          *)
(***************************************************************************)
EXTENDS MicroSession, TLAPS

\* Every payload read is with the consumer or in the channel.
Accounted == nread = Len(taken) + Len(rawMessages)

\* What is accounted for at each position of readLoop.
ReaderInv ==
  /\ reader = "read" => Accounted
  /\ reader \in {"enqueue", "send"} =>
       nread = Len(taken) + Len(rawMessages) + 1 /\ raw = nread
  /\ reader \in {"check", "exited"} =>
       Accounted \/ (done /\ nread = Len(taken) + Len(rawMessages) + 1)

\* Whether the reader has left an error, and what the consumer was told.
EndInv ==
  /\ reader # "exited" => errors = 0 /\ failures = 0
  /\ reader = "exited" =>
       errors + failures = 1 \/ (done /\ errors = 0 /\ failures = 0)
  /\ ended => reader = "exited" /\ rawMessages = <<>>

FeedInv == TypeOK /\ DeliveredInOrder /\ ReaderInv /\ EndInv
-----------------------------------------------------------------------------
(* Receiving from a channel whose contents follow what was received before  *)
(* keeps both in order.                                                    *)
LEMMA ReceiveKeepsOrder ==
  ASSUME NEW t \in Seq(Nat), NEW q \in Seq(Nat), q # <<>>,
         \A i \in 1..Len(t) : t[i] = i,
         \A i \in 1..Len(q) : q[i] = Len(t) + i
  PROVE  /\ Append(t, Head(q)) \in Seq(Nat)
         /\ Tail(q) \in Seq(Nat)
         /\ Len(Append(t, Head(q))) = Len(t) + 1
         /\ Len(Tail(q)) = Len(q) - 1
         /\ \A i \in 1..Len(Append(t, Head(q))) : Append(t, Head(q))[i] = i
         /\ \A i \in 1..Len(Tail(q)) :
              Tail(q)[i] = Len(Append(t, Head(q))) + i
<1>1. Len(q) \in Nat \ {0} /\ Len(t) \in Nat /\ Head(q) = q[1] /\ Head(q) \in Nat
  OBVIOUS
<1>2. /\ Tail(q) \in Seq(Nat) /\ Len(Tail(q)) = Len(q) - 1
      /\ \A i \in 1..Len(Tail(q)) : Tail(q)[i] = q[i+1]
  BY <1>1
<1>3. /\ Append(t, Head(q)) \in Seq(Nat)
      /\ Len(Append(t, Head(q))) = Len(t) + 1
      /\ \A i \in 1..Len(t) : Append(t, Head(q))[i] = t[i]
      /\ Append(t, Head(q))[Len(t) + 1] = Head(q)
  BY <1>1
<1>4. Head(q) = Len(t) + 1
  BY <1>1
<1>5. \A i \in 1..(Len(t) + 1) : Append(t, Head(q))[i] = i
  <2>1. TAKE i \in 1..(Len(t) + 1)
  <2>2. CASE i = Len(t) + 1
    BY <1>3, <1>4, <2>2
  <2>3. CASE i # Len(t) + 1
    <3>1. i \in 1..Len(t)
      BY <1>1, <2>3
    <3>2. QED
      BY <3>1, <1>3
  <2>4. QED
    BY <2>2, <2>3
<1>6. \A i \in 1..Len(Tail(q)) : Tail(q)[i] = (Len(t) + 1) + i
  <2>1. TAKE i \in 1..Len(Tail(q))
  <2>2. i + 1 \in 1..Len(q) /\ Tail(q)[i] = q[i+1]
    BY <1>1, <1>2
  <2>3. QED
    BY <2>2, <1>1
<1>7. QED
  BY <1>2, <1>3, <1>5, <1>6

(* A send of the next payload keeps the channel in order.                  *)
LEMMA SendKeepsOrder ==
  ASSUME NEW n \in Nat, NEW q \in Seq(Nat), NEW r \in Nat,
         r = n + (Len(q) + 1),
         \A i \in 1..Len(q) : q[i] = n + i
  PROVE  /\ Append(q, r) \in Seq(Nat)
         /\ Len(Append(q, r)) = Len(q) + 1
         /\ \A i \in 1..Len(Append(q, r)) : Append(q, r)[i] = n + i
<1>1. /\ Append(q, r) \in Seq(Nat) /\ Len(Append(q, r)) = Len(q) + 1
      /\ \A i \in 1..Len(q) : Append(q, r)[i] = q[i]
      /\ Append(q, r)[Len(q) + 1] = r
  OBVIOUS
<1>2. \A i \in 1..(Len(q) + 1) : i = Len(q) + 1 \/ i \in 1..Len(q)
  OBVIOUS
<1>3. QED
  BY <1>1, <1>2

LEMMA InitFeedInv == Init => FeedInv
<1> SUFFICES ASSUME Init PROVE FeedInv
  OBVIOUS
<1>1. <<>> \in Seq(Nat) /\ Len(<<>>) = 0
  OBVIOUS
<1>2. TypeOK
  <2>1. rawMessages \in Seq(Nat) /\ taken \in Seq(Nat) /\ Len(rawMessages) = 0
    BY <1>1 DEF Init
  <2>2. 0 <= BufferSize /\ 0 \in 0..ErrorsSize /\ 0 \in 0..MaxPayloads /\ 0 \in 0..MaxWire
    BY SubscriptionAssumption
  <2>3. QED
    BY <2>1, <2>2 DEF Init, TypeOK, ReaderPC
<1>3. DeliveredInOrder
  BY <1>1 DEF Init, DeliveredInOrder
<1>4. ReaderInv /\ EndInv
  BY <1>1 DEF Init, ReaderInv, Accounted, EndInv
<1>5. QED
  BY <1>2, <1>3, <1>4 DEF FeedInv

(* Each step of readLoop, of the peer and of the consumer keeps the        *)
(* invariant.                                                              *)
LEMMA NextFeedInv == FeedInv /\ [Next]_vars => FeedInv'
<1> SUFFICES ASSUME FeedInv, [Next]_vars
             PROVE  FeedInv'
  OBVIOUS
<1> USE SubscriptionAssumption
    DEF FeedInv, TypeOK, DeliveredInOrder, ReaderInv, Accounted, EndInv,
        ReaderPC, RawClosed, sockVars, readerVars, chanVars, closeVars,
        consumerVars
<1>1. CASE Arrive
  BY <1>1 DEF Arrive
<1>2. CASE Break
  BY <1>2 DEF Break
<1>3. CASE CheckDone
  BY <1>3 DEF CheckDone
<1>4. CASE ReadPayload
  BY <1>4 DEF ReadPayload
<1>5. CASE ReadOther
  BY <1>5 DEF ReadOther
<1>6. CASE ReadError
  BY <1>6 DEF ReadError
<1>7. CASE EnqueueCheck
  BY <1>7 DEF EnqueueCheck
<1>8. CASE EnqueueSend
  <2>1. /\ rawMessages' = Append(rawMessages, raw)
        /\ raw = Len(taken) + (Len(rawMessages) + 1)
        /\ Len(rawMessages) < BufferSize
    BY <1>8 DEF EnqueueSend
  <2>2. /\ rawMessages' \in Seq(Nat)
        /\ Len(rawMessages') = Len(rawMessages) + 1
        /\ Len(rawMessages') <= BufferSize
        /\ \A i \in 1..Len(rawMessages') : rawMessages'[i] = Len(taken) + i
    <3>1. Len(taken) \in Nat /\ raw \in Nat /\ rawMessages \in Seq(Nat)
      OBVIOUS
    <3>2. \A i \in 1..Len(rawMessages) : rawMessages[i] = Len(taken) + i
      OBVIOUS
    <3>3. /\ Append(rawMessages, raw) \in Seq(Nat)
          /\ Len(Append(rawMessages, raw)) = Len(rawMessages) + 1
          /\ \A i \in 1..Len(Append(rawMessages, raw)) :
               Append(rawMessages, raw)[i] = Len(taken) + i
      BY ONLY <3>1, <3>2, <2>1, SendKeepsOrder
    <3>4. QED
      BY <3>3, <2>1
  <2>3. QED
    BY <2>2, <1>8 DEF EnqueueSend
<1>9. CASE EnqueueAbandon
  BY <1>9 DEF EnqueueAbandon
<1>10. CASE ParentCancel
  BY <1>10 DEF ParentCancel
<1>11. CASE CloseCancel
  BY <1>11 DEF CloseCancel
<1>12. CASE CloseConn
  BY <1>12 DEF CloseConn
<1>13. CASE Receive
  <2>1. /\ taken' \in Seq(Nat) /\ rawMessages' \in Seq(Nat)
        /\ Len(taken') = Len(taken) + 1
        /\ Len(rawMessages') = Len(rawMessages) - 1
        /\ \A i \in 1..Len(taken') : taken'[i] = i
        /\ \A i \in 1..Len(rawMessages') : rawMessages'[i] = Len(taken') + i
    BY <1>13, ReceiveKeepsOrder DEF Receive
  <2>2. Len(rawMessages) \in Nat \ {0} /\ Len(taken) \in Nat /\ ~ ended
    BY <1>13 DEF Receive
  <2>3. TypeOK' /\ DeliveredInOrder'
    BY <2>1, <2>2, <1>13 DEF Receive
  <2>4. ReaderInv'
    <3>1. UNCHANGED <<reader, raw, nread, done>> /\ nread \in Nat
      BY <1>13 DEF Receive
    <3>2. Len(taken') + Len(rawMessages') = Len(taken) + Len(rawMessages)
      BY ONLY <2>1, <2>2
    <3>3. QED
      BY ONLY <3>1, <3>2, ReaderInv DEF ReaderInv, Accounted
  <2>5. EndInv'
    BY <2>2, <1>13 DEF Receive
  <2>6. QED
    BY <2>3, <2>4, <2>5
<1>14. CASE ReceiveClosed
  BY <1>14 DEF ReceiveClosed
<1>15. CASE ReceiveError
  BY <1>15 DEF ReceiveError
<1>16. CASE UNCHANGED vars
  BY <1>16 DEF vars
<1>17. QED
  BY <1>1, <1>2, <1>3, <1>4, <1>5, <1>6, <1>7, <1>8, <1>9, <1>10, <1>11,
     <1>12, <1>13, <1>14, <1>15, <1>16 DEF Next, ReaderStep, ConsumerStep

LEMMA SpecFeedInv == Spec => []FeedInv
BY InitFeedInv, NextFeedInv, PTL DEF Spec

(* The channel never holds more than its capacity, and every variable      *)
(* keeps its type.                                                         *)
THEOREM TypeCorrect == Spec => []TypeOK
<1>1. FeedInv => TypeOK
  BY DEF FeedInv
<1>2. QED
  BY <1>1, SpecFeedInv, PTL

(* The consumer of a subscription sees the provider's stream from its first *)
(* payload on, without a gap, a repetition or a change of order.            *)
THEOREM InOrder == Spec => []DeliveredInOrder
<1>1. FeedInv => DeliveredInOrder
  BY DEF FeedInv
<1>2. QED
  BY <1>1, SpecFeedInv, PTL

(* A full channel blocks readLoop and drops nothing, and a Close that races *)
(* with it costs one payload at most.                                      *)
THEOREM NoLoss == Spec => [](NoLossWhileOpen /\ LossAtMostOne)
<1>1. FeedInv => NoLossWhileOpen /\ LossAtMostOne
  <2>1. SUFFICES ASSUME FeedInv PROVE NoLossWhileOpen /\ LossAtMostOne
    OBVIOUS
  <2>2. Len(taken) \in Nat /\ Len(rawMessages) \in Nat /\ nread \in Nat
    BY <2>1 DEF FeedInv, TypeOK
  <2>3. QED
    BY <2>1, <2>2 DEF FeedInv, TypeOK, ReaderPC, ReaderInv, Accounted,
                      NoLossWhileOpen, LossAtMostOne, Holding
<1>2. QED
  BY <1>1, SpecFeedInv, PTL

(* A feed that ends without having been cancelled has left its error where *)
(* the consumer finds it.                                                  *)
THEOREM EndCause == Spec => []EndHasCause
<1>1. FeedInv => EndHasCause
  BY DEF FeedInv, TypeOK, EndInv, EndHasCause, RawClosed
<1>2. QED
  BY <1>1, SpecFeedInv, PTL

-----------------------------------------------------------------------------
(* Every step of a subscription is a step of the feed it promises, or       *)
(* changes nothing the feed speaks of.                                      *)
LEMMA StepImplementsFeed ==
  FeedInv /\ [Next]_vars => [Feed!Next]_(Feed!feedVars)
<1> SUFFICES ASSUME FeedInv, [Next]_vars
             PROVE  [Feed!Next]_(Feed!feedVars)
  OBVIOUS
<1> USE DEF Feed!feedVars, readerVars, consumerVars
<1>1. CASE Arrive \/ Break
  BY <1>1 DEF Arrive, Break
<1>2. CASE CheckDone \/ ReadOther \/ ReadError
  BY <1>2 DEF CheckDone, ReadOther, ReadError
<1>3. CASE ReadPayload
  <2>1. ~ ended
    BY <1>3 DEF ReadPayload, FeedInv, EndInv
  <2>2. Feed!Publish
    BY <2>1, <1>3 DEF ReadPayload, Feed!Publish
  <2>3. QED
    BY <2>2 DEF Feed!Next
<1>4. CASE EnqueueCheck \/ EnqueueSend \/ EnqueueAbandon
  BY <1>4 DEF EnqueueCheck, EnqueueSend, EnqueueAbandon
<1>5. CASE ParentCancel \/ CloseCancel \/ CloseConn
  BY <1>5 DEF ParentCancel, CloseCancel, CloseConn
<1>6. CASE Receive
  <2>1. ~ ended
    BY <1>6 DEF Receive, FeedInv, EndInv
  <2>2. Len(rawMessages) \in Nat \ {0} /\ Head(rawMessages) = rawMessages[1]
    BY <1>6 DEF Receive, FeedInv, TypeOK
  <2>3. Head(rawMessages) = Len(taken) + 1
    BY <2>2 DEF FeedInv, DeliveredInOrder, TypeOK
  <2>4. Len(taken) < nread
    BY <2>2 DEF FeedInv, TypeOK, ReaderInv, Accounted, ReaderPC
  <2>5. Feed!Deliver
    BY <2>1, <2>3, <2>4, <1>6 DEF Receive, Feed!Deliver
  <2>6. QED
    BY <2>5 DEF Feed!Next
<1>7. CASE ReceiveClosed
  BY <1>7 DEF ReceiveClosed, Feed!End, Feed!Next
<1>8. CASE ReceiveError
  BY <1>8 DEF ReceiveError
<1>9. CASE UNCHANGED vars
  BY <1>9 DEF vars
<1>10. QED
  BY <1>1, <1>2, <1>3, <1>4, <1>5, <1>6, <1>7, <1>8, <1>9
     DEF Next, ReaderStep, ConsumerStep

(* The subscription implements PayloadFeed, the feed its consumers rely on. *)
THEOREM Implementation == Spec => ImplementsFeed
<1>1. Init => Feed!Init
  BY DEF Init, Feed!Init
<1>2. QED
  BY <1>1, SpecFeedInv, StepImplementsFeed, PTL DEF Spec, ImplementsFeed, Feed!Spec

-----------------------------------------------------------------------------
(* The run. *)

Types ==
  /\ loop \in {"setup", "select", "close", "dial", "returned"}
  /\ parent \in {"setup", "run"}
  /\ conn \in {"up", "broken", "closed"}
  /\ subscriptionErrors \in Nat /\ subscriptionReconnects \in Nat
  /\ subscriptionIDs \in Nat /\ brokenConns \in Nat
  /\ errors \in Nat

\* Only the return of a failed reconnect leaves a failure without reconnect.
Counted ==
  /\ CountersAgree
  /\ loop # "returned" => result = "none"

\* The loop closes nothing before a failure, and the first subscription is
\* that of the set-up.
Tidy ==
  /\ loop = "setup" => parent = "setup"
  /\ loop \in {"setup", "select"} => closer = "idle"
  /\ conn = "closed" => closer = "closed"

\* What a consumer can see of the end of a subscription.
Signs == errors > 0 \/ reader = "exited" \/ ended

SignsHaveCause == Signs => conn # "up" \/ done

\* The first subscription, and a connection that broke, each pay for one
\* reconnect.
Due == (IF conn = "broken" THEN 1 ELSE 0) + (IF parent = "setup" THEN 1 ELSE 0)

Paid ==
  /\ loop \in {"setup", "select"} => subscriptionReconnects + Due <= brokenConns + 1
  /\ loop \in {"close", "dial"} => subscriptionReconnects <= brokenConns
  /\ subscriptionReconnects <= brokenConns + 1

IInv ==
  /\ Types /\ Counted /\ Tidy /\ SignsHaveCause /\ Paid
  /\ ReconnectedFeedLives
-----------------------------------------------------------------------------
LEMMA InitIInv == SessionInit => IInv
BY DEF SessionInit, Init, IInv, Types, Counted, CountersAgree, Tidy, Signs, SignsHaveCause,
       Due, Paid, ReconnectedFeedLives

\* A failure that is seen while the run has time left has its price at hand.
LEMMA FailureIsPaid ==
  ASSUME IInv, loop = "select", phase = "running", Signs
  PROVE  subscriptionReconnects <= brokenConns
<1>1. closer = "idle" /\ conn # "closed"
  BY DEF IInv, Tidy
<1>2. conn # "up" \/ done
  BY DEF IInv, SignsHaveCause
<1>3. parent = "run" => ~done
  BY <1>1 DEF IInv, ReconnectedFeedLives
<1>4. subscriptionReconnects + Due <= brokenConns + 1
  BY DEF IInv, Paid
<1>5. /\ subscriptionReconnects \in Nat /\ brokenConns \in Nat
      /\ parent \in {"setup", "run"} /\ conn \in {"up", "broken", "closed"}
  BY DEF IInv, Types
<1> QED
  BY <1>1, <1>2, <1>3, <1>4, <1>5 DEF Due

\* What the account does not depend on may change.
LEMMA Unmoved ==
  ASSUME IInv, UNCHANGED <<sessionVars, conn, reader, errors, done, closer, ended>>
  PROVE  IInv'
<1>1. Types' /\ Counted' /\ Tidy'
  BY DEF sessionVars, summaryVars, IInv, Types, Counted, CountersAgree, Tidy
<1>2. SignsHaveCause' /\ Paid' /\ ReconnectedFeedLives'
  BY DEF sessionVars, summaryVars, IInv, Signs, SignsHaveCause, Due, Paid,
         ReconnectedFeedLives
<1> QED
  BY <1>1, <1>2 DEF IInv

\* The provider, the clock and the reader: a connection that breaks pays for
\* the reconnect it will cause, and a reader ends for a cause.
LEMMA OutsideStep ==
  ASSUME IInv, \/ ProviderSends \/ ProviderBreaks \/ ReadLoopStep
               \/ DeadlineNears \/ DeadlinePasses \/ Interrupt
  PROVE  IInv'
<1> USE SubscriptionAssumption, SessionAssumption DEF sessionVars, summaryVars, consumerVars, readerVars,
        chanVars, closeVars, sockVars
<1>1. CASE ProviderSends
  <2>1. UNCHANGED <<sessionVars, conn, reader, errors, done, closer, ended>>
    BY <1>1 DEF ProviderSends, Arrive
  <2> QED
    BY <2>1, Unmoved
<1>2. CASE ProviderBreaks
  <2>1. /\ conn = "up" /\ conn' = "broken" /\ brokenConns' = brokenConns + 1
        /\ UNCHANGED <<loop, parent, phase, result, summaryVars, reader, errors, done,
                       closer, ended>>
    BY <1>2 DEF ProviderBreaks, Break
  <2>2. Types'
    BY <2>1 DEF IInv, Types
  <2>3. Counted' /\ Tidy'
    BY <2>1 DEF IInv, Counted, CountersAgree, Tidy
  <2>4. SignsHaveCause' /\ ReconnectedFeedLives'
    BY <2>1 DEF IInv, Signs, SignsHaveCause, ReconnectedFeedLives
  <2>5. Paid'
    BY <2>1 DEF IInv, Types, Due, Paid
  <2> QED
    BY <2>2, <2>3, <2>4, <2>5 DEF IInv
<1>3. CASE ReadLoopStep
  <2>1. /\ UNCHANGED <<loop, parent, phase, result, subscriptionErrors,
                       subscriptionReconnects, subscriptionIDs, brokenConns, conn, done,
                       closer, ended>>
        /\ errors' \in Nat
        /\ Signs' => Signs \/ conn # "up" \/ done
    BY <1>3 DEF ReadLoopStep, ReaderStep, CheckDone, ReadPayload, ReadOther,
                ReadError, EnqueueCheck, EnqueueSend, EnqueueAbandon,
                Signs, IInv, Types
  <2> QED
    BY <2>1 DEF IInv, Types, Counted, CountersAgree, Tidy, SignsHaveCause, Due, Paid,
                ReconnectedFeedLives
<1>4. CASE DeadlineNears
  BY <1>4 DEF DeadlineNears, vars, IInv, Types, Counted, CountersAgree, Tidy, Signs,
              SignsHaveCause, Due, Paid, ReconnectedFeedLives
<1>5. CASE DeadlinePasses \/ Interrupt
  BY <1>5 DEF DeadlinePasses, Interrupt, EndRunCtx, IInv, Types, Counted, CountersAgree,
              Tidy, Signs, SignsHaveCause, Due, Paid, ReconnectedFeedLives
<1> QED
  BY <1>1, <1>2, <1>3, <1>4, <1>5

\* The cases of select and the two ends of the function.
LEMMA LoopStep ==
  ASSUME IInv, \/ Prepare \/ PendingCase \/ FailureCase
               \/ DoneCase \/ FlushFails \/ DeferredClose
  PROVE  IInv'
<1> USE SubscriptionAssumption, SessionAssumption DEF sessionVars, summaryVars, vars, consumerVars,
        readerVars, chanVars, closeVars, sockVars
<1>1. CASE Prepare
  BY <1>1 DEF Prepare, IInv, Types, Counted, CountersAgree, Tidy, Signs, SignsHaveCause,
              Due, Paid, ReconnectedFeedLives
<1>2. CASE PendingCase
  BY <1>2 DEF PendingCase, Receive, IInv, Types, Counted, CountersAgree, Tidy, Signs,
              SignsHaveCause, Due, Paid, ReconnectedFeedLives
<1>3. CASE FailureCase
  <2>1. /\ Signs /\ loop = "select"
        /\ loop' = IF phase = "running" THEN "close" ELSE "select"
        /\ errors' \in Nat /\ (Signs' => Signs)
        /\ UNCHANGED <<parent, phase, result, subscriptionErrors, subscriptionReconnects,
                       subscriptionIDs, brokenConns, conn, done, closer>>
    BY <1>3 DEF FailureCase, ReceiveError, ReceiveClosed, RawClosed, Signs,
                IInv, Types
  <2>2. phase = "running" => subscriptionReconnects <= brokenConns
    BY <2>1, FailureIsPaid
  <2> QED
    BY <2>1, <2>2 DEF IInv, Types, Counted, CountersAgree, Tidy, SignsHaveCause, Due, Paid,
                      ReconnectedFeedLives
<1>4. CASE DoneCase \/ FlushFails
  <2>1. /\ loop = "select" /\ loop' = "returned" /\ result = "none"
        /\ result' # "subscribe failed"
        /\ UNCHANGED <<parent, phase, summaryVars, brokenConns,
                       conn, reader, errors, done, closer, ended>>
    BY <1>4 DEF DoneCase, FlushFails, IInv, Counted
  <2>2. Types' /\ Counted' /\ Tidy'
    BY <2>1 DEF IInv, Types, Counted, CountersAgree, Tidy
  <2>3. SignsHaveCause' /\ Paid' /\ ReconnectedFeedLives'
    BY <2>1 DEF IInv, Signs, SignsHaveCause, Paid, ReconnectedFeedLives
  <2> QED
    BY <2>2, <2>3 DEF IInv
<1>5. CASE DeferredClose
  BY <1>5 DEF DeferredClose, CloseCancel, CloseConn, IInv, Types, Counted,
              CountersAgree, Tidy, Signs, SignsHaveCause, Due, Paid, ReconnectedFeedLives
<1> QED
  BY <1>1, <1>2, <1>3, <1>4, <1>5

\* A reconnect: the old subscription is closed, and a new one made that owes
\* nothing, unless the provider refuses it.
LEMMA ReconnectStep ==
  ASSUME IInv, Reconnect
  PROVE  IInv'
<1> USE SubscriptionAssumption, SessionAssumption DEF sessionVars, summaryVars, vars, consumerVars,
        readerVars, chanVars, closeVars, sockVars
<1>1. CASE CloseCurrent
  <2>1. /\ loop = "close" /\ loop' \in {"close", "dial"}
        /\ \/ UNCHANGED <<conn, done, closer>>
           \/ closer = "idle" /\ closer' = "cancelled" /\ done' = TRUE /\ conn' = conn
           \/ closer = "cancelled" /\ closer' = "closed" /\ conn' = "closed" /\ done' = done
        /\ UNCHANGED <<parent, phase, result, summaryVars, brokenConns,
                       reader, errors, ended>>
    BY <1>1 DEF CloseCurrent, CloseCancel, CloseConn
  <2>2. Types' /\ Counted' /\ Tidy'
    BY <2>1 DEF IInv, Types, Counted, CountersAgree, Tidy
  <2>3. SignsHaveCause' /\ ReconnectedFeedLives'
    BY <2>1 DEF IInv, Signs, SignsHaveCause, ReconnectedFeedLives
  <2>4. Paid'
    BY <2>1 DEF IInv, Paid
  <2> QED
    BY <2>2, <2>3, <2>4 DEF IInv
<1>2. CASE DialSucceeds
  <2>1. /\ loop = "dial" /\ loop' = "select" /\ result' = result /\ phase' = phase
        /\ parent' = "run" /\ conn' = "up" /\ closer' = "idle"
        /\ reader' = "check" /\ errors' = 0 /\ ended' = FALSE
        /\ subscriptionErrors' = subscriptionErrors + 1
        /\ subscriptionReconnects' = subscriptionReconnects + 1
        /\ subscriptionIDs' = subscriptionIDs + 1
        /\ brokenConns' = brokenConns
    BY <1>2 DEF DialSucceeds, NewSubscription
  <2>2. Types' /\ Counted' /\ Tidy'
    BY <2>1 DEF IInv, Types, Counted, CountersAgree, Tidy
  <2>3. ~Signs'
    BY <2>1 DEF Signs
  <2>4. phase' # "over" => ~done'
    BY <1>2 DEF DialSucceeds, NewSubscription, DoneAtBirth
  <2>5. SignsHaveCause' /\ ReconnectedFeedLives'
    BY <2>1, <2>3, <2>4 DEF SignsHaveCause, ReconnectedFeedLives
  <2>6. Paid'
    BY <2>1 DEF IInv, Types, Due, Paid
  <2> QED
    BY <2>2, <2>5, <2>6 DEF IInv
<1>3. CASE DialFails
  <2>1. /\ loop = "dial" /\ loop' = "returned" /\ result = "none"
        /\ result' = "subscribe failed" /\ subscriptionErrors' = subscriptionErrors + 1
        /\ UNCHANGED <<parent, phase, subscriptionReconnects, subscriptionIDs, brokenConns,
                       conn, reader, errors, done, closer, ended>>
    BY <1>3 DEF DialFails, IInv, Counted
  <2>2. Types' /\ Counted' /\ Tidy'
    <3>1. Types /\ CountersAgree
      BY DEF IInv, Counted
    <3>2. subscriptionErrors \in Nat /\ subscriptionErrors' = subscriptionErrors + 1
      BY <2>1, <3>1 DEF Types
    <3>3. subscriptionErrors' \in Nat
      BY <3>2
    <3>4. Types'
      BY <2>1, <3>1, <3>3 DEF Types
    <3>5. Tidy'
      BY <2>1 DEF IInv, Tidy
    <3>6. /\ subscriptionErrors = subscriptionReconnects
          /\ subscriptionIDs = subscriptionReconnects + 1
          /\ subscriptionReconnects \in Nat
      <4>1. result = "none" /\ result # "subscribe failed"
        BY <2>1
      <4> QED
        BY <3>1, <4>1 DEF Types, CountersAgree
    <3>7. /\ subscriptionErrors' = subscriptionReconnects' + 1
          /\ subscriptionIDs' = subscriptionReconnects' + 1
      BY <2>1, <3>6
    <3>8. CountersAgree'
      <4>1. result' = "subscribe failed" /\ subscriptionReconnects' \in Nat
        BY <2>1, <3>6
      <4> QED
        BY <3>7, <4>1 DEF CountersAgree
    <3> QED
      BY <2>1, <3>4, <3>5, <3>8 DEF Counted
  <2>3. SignsHaveCause' /\ Paid' /\ ReconnectedFeedLives'
    BY <2>1 DEF IInv, Signs, SignsHaveCause, Paid, ReconnectedFeedLives
  <2> QED
    BY <2>2, <2>3 DEF IInv
<1> QED
  BY <1>1, <1>2, <1>3 DEF Reconnect

LEMMA Inductive == IInv /\ [SessionNext]_allVars => IInv'
<1> SUFFICES ASSUME IInv, [SessionNext]_allVars PROVE IInv'
  OBVIOUS
<1>1. CASE \/ ProviderSends \/ ProviderBreaks \/ ReadLoopStep
           \/ DeadlineNears \/ DeadlinePasses \/ Interrupt
  BY <1>1, OutsideStep
<1>2. CASE \/ Prepare \/ PendingCase \/ FailureCase
           \/ DoneCase \/ FlushFails \/ DeferredClose
  BY <1>2, LoopStep
<1>3. CASE Reconnect
  BY <1>3, ReconnectStep
<1>4. CASE UNCHANGED allVars
  BY <1>4 DEF allVars, vars, sessionVars, summaryVars, IInv, Types, Counted, CountersAgree,
              Tidy, Signs, SignsHaveCause, Due, Paid, ReconnectedFeedLives
<1> QED
  BY <1>1, <1>2, <1>3, <1>4 DEF SessionNext

LEMMA Invariant == SessionSpec => []IInv
BY InitIInv, Inductive, PTL DEF SessionSpec

\* The counters of the summary agree, and a failure that announces itself twice
\* is followed by one reconnect: there are no more of them than connections the
\* provider broke, and one (benchmark.go 367-397).
THEOREM ReconnectsPaid == SessionSpec => []ReconnectsExplained
<1>1. IInv => ReconnectsExplained
  BY DEF IInv, Counted, Paid, ReconnectsExplained
<1> QED
  BY <1>1, Invariant, PTL

\* Nothing but the end of the run or its own Close cancels a subscription that
\* a reconnect made.
THEOREM FeedLives == SessionSpec => []ReconnectedFeedLives
<1>1. IInv => ReconnectedFeedLives
  BY DEF IInv
<1> QED
  BY <1>1, Invariant, PTL

\* What a run does to its subscription is a step of the subscription, but for
\* the end of the context and for the reconnect, which starts another one.
LEMMA RunKeepsFeedInv == FeedInv /\ [SessionNext]_allVars => FeedInv'
<1> SUFFICES ASSUME FeedInv, [SessionNext]_allVars PROVE FeedInv'
  OBVIOUS
<1>1. CASE [Next]_vars
  BY <1>1, NextFeedInv
<1>2. CASE Prepare \/ DeadlinePasses \/ Interrupt
  <2>1. /\ done' = TRUE
        /\ UNCHANGED <<conn, wire, reader, raw, nread, rawMessages, errors, closer, taken,
                       failures, ended>>
    BY <1>2 DEF Prepare, DeadlinePasses, Interrupt, EndRunCtx
  <2> QED
    BY <2>1 DEF FeedInv, TypeOK, DeliveredInOrder, ReaderInv, Accounted, EndInv
<1>3. CASE DialSucceeds
  <2>1. /\ conn' = "up" /\ wire' = 0 /\ reader' = "check" /\ raw' = 0 /\ nread' = 0
        /\ rawMessages' = <<>> /\ errors' = 0 /\ closer' = "idle"
        /\ done' \in BOOLEAN /\ taken' = <<>> /\ failures' = 0 /\ ended' = FALSE
    BY <1>3 DEF DialSucceeds, NewSubscription, DoneAtBirth
  <2>2. <<>> \in Seq(Nat) /\ Len(<<>>) = 0
    OBVIOUS
  <2>3. TypeOK'
    <3>1. 0 \in 0..MaxWire /\ 0 \in 0..MaxPayloads /\ 0 \in 0..ErrorsSize /\ 0 <= BufferSize
      BY SubscriptionAssumption
    <3> QED
      BY <2>1, <2>2, <3>1 DEF TypeOK, ReaderPC
  <2>4. DeliveredInOrder' /\ ReaderInv' /\ EndInv'
    BY <2>1, <2>2 DEF DeliveredInOrder, ReaderInv, Accounted, EndInv
  <2> QED
    BY <2>3, <2>4 DEF FeedInv
<1>4. CASE ProviderSends \/ ProviderBreaks \/ ReadLoopStep
  BY <1>1, <1>4 DEF ProviderSends, ProviderBreaks, ReadLoopStep, Next
<1>5. CASE PendingCase \/ FailureCase \/ CloseCurrent \/ DeferredClose
  BY <1>1, <1>5 DEF PendingCase, FailureCase, CloseCurrent, DeferredClose, Next, ConsumerStep
<1>6. CASE DeadlineNears \/ DialFails \/ DoneCase \/ FlushFails
  BY <1>1, <1>6 DEF DeadlineNears, DialFails, DoneCase, FlushFails
<1>7. CASE UNCHANGED allVars
  BY <1>1, <1>7 DEF allVars
<1> QED
  BY <1>2, <1>3, <1>4, <1>5, <1>6, <1>7 DEF SessionNext, Reconnect

\* Every subscription a run makes, the first and those that replace it, hands
\* the run a gap-free prefix of its stream, and none ends without a cause.
THEOREM RunFeedInOrder == SessionSpec => [](DeliveredInOrder /\ EndHasCause)
<1>1. SessionInit => FeedInv
  BY InitFeedInv DEF SessionInit
<1>2. FeedInv => DeliveredInOrder /\ EndHasCause
  BY DEF FeedInv, TypeOK, EndInv, EndHasCause, RawClosed
<1> QED
  BY <1>1, <1>2, RunKeepsFeedInv, PTL DEF SessionSpec
=============================================================================
