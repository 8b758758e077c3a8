---------------------------- MODULE MicroSession ----------------------------
(***************************************************************************)
(* The life of one run of RunMicroBenchmark (internal/live/benchmark.go):  *)
(* it subscribes under a set-up context, then runs an event loop under a   *)
(* context with the run's deadline, replaces a subscription that fails,    *)
(* and writes its artifacts when the deadline passes or a signal arrives.  *)
(*                                                                         *)
(* Extends Subscription: the variables of that module are those of the      *)
(* current subscription, and the steps of the run are composed with its     *)
(* own.  A subscription that was replaced has been closed, and              *)
(* by ReaderEnds of Subscription its reader ends by itself; nothing         *)
(* receives from its channels any more, so it is dropped from the state.   *)
(***************************************************************************)
EXTENDS Subscription

CONSTANTS
  MaxFailures    \* bound of the model: connections the provider breaks

ASSUME SessionAssumption == MaxFailures \in Nat

VARIABLES
  \* the run
  loop,       \* where RunMicroBenchmark is
  parent,     \* the context the current subscription was given
  phase,      \* runCtx: "running", "ending" (two seconds left) or "over"
  result,     \* how the function returned
  \* the summary
  subscriptionErrors, subscriptionReconnects,
  subscriptionIDs,     \* number of ids collected
  \* the provider
  brokenConns          \* connections it has broken so far

summaryVars == <<subscriptionErrors, subscriptionReconnects, subscriptionIDs>>
sessionVars == <<loop, parent, phase, result, summaryVars, brokenConns>>
allVars == <<vars, sessionVars>>

SessionTypeOK ==
  /\ TypeOK
  /\ loop \in {"setup", "select", "close", "dial", "returned"}
  /\ parent \in {"setup", "run"}
  /\ phase \in {"running", "ending", "over"}
  /\ result \in {"none", "complete", "file error", "subscribe failed"}
  /\ subscriptionErrors \in Nat /\ subscriptionReconnects \in Nat
  /\ subscriptionIDs \in Nat
  /\ brokenConns \in 0..MaxFailures

\* Subscribe(setupCtx) has succeeded; setupCancel() is the next statement.
SessionInit ==
  /\ Init
  /\ loop = "setup" /\ parent = "setup" /\ phase = "running"
  /\ result = "none"
  /\ subscriptionErrors = 0 /\ subscriptionReconnects = 0
  /\ subscriptionIDs = 1
  /\ brokenConns = 0

-----------------------------------------------------------------------------
(* Plausible bugs, each in the place of one definition below.              *)

\* The new subscription is given a context that lasts for the dial only.
BugDoneAtBirth == TRUE

\* A reconnect keeps the channels of the subscription it replaces.
BugKeepErrors ==
  /\ conn' = "up" /\ wire' = 0 /\ reader' = "check" /\ raw' = 0 /\ nread' = 0
  /\ rawMessages' = <<>> /\ closer' = "idle"
  /\ done' = (phase = "over")
  /\ UNCHANGED errors
  /\ taken' = <<>> /\ failures' = 0 /\ ended' = FALSE

\* The subscription is not closed when the function returns.
BugNoDeferredClose == FALSE /\ UNCHANGED allVars

\* The loop has no case for runCtx.Done.
BugNoDoneCase == FALSE /\ UNCHANGED allVars

-----------------------------------------------------------------------------
(* The provider, the clock and readLoop.                                   *)

ProviderSends == Arrive /\ UNCHANGED sessionVars

ProviderBreaks ==
  /\ brokenConns < MaxFailures
  /\ Break
  /\ brokenConns' = brokenConns + 1
  /\ UNCHANGED <<loop, parent, phase, result, summaryVars>>

ReadLoopStep == ReaderStep /\ UNCHANGED sessionVars

\* Two seconds before the deadline contextEndingSoon becomes true.
DeadlineNears ==
  /\ loop # "setup" /\ phase = "running"
  /\ phase' = "ending"
  /\ UNCHANGED <<vars, loop, parent, result, summaryVars, brokenConns>>

\* runCtx ends, at its deadline or by a signal, and with it the context of
\* every subscription made under it.
EndRunCtx ==
  /\ phase' = "over"
  /\ done' = TRUE
  /\ UNCHANGED <<conn, wire, reader, raw, nread, rawMessages, errors, closer,
                 taken, failures, ended, loop, parent, result, summaryVars,
                 brokenConns>>

DeadlinePasses == phase = "ending" /\ EndRunCtx
Interrupt == phase = "running" /\ EndRunCtx

-----------------------------------------------------------------------------
(* RunMicroBenchmark.                                                      *)

\* setupCancel(): the context of the subscription ends with setupCtx.  Then the
\* artifact files are created, and one that cannot be created ends the run.
Prepare ==
  /\ loop = "setup"
  /\ done' = TRUE
  /\ \/ loop' = "select" /\ UNCHANGED result
     \/ loop' = "returned" /\ result' = "file error"
  /\ UNCHANGED <<conn, wire, reader, raw, nread, rawMessages, errors, closer,
                 taken, failures, ended, parent, phase, summaryVars,
                 brokenConns>>

\* case raw, ok := <-sub.RawMessages, with ok: the payload is processed.
PendingCase == loop = "select" /\ Receive /\ UNCHANGED sessionVars

\* The subscription has failed: replace it unless the run is about to end.
\* A closed channel stays ready, so this case can be chosen again and again
\* until the deadline.
FailureCase ==
  /\ loop = "select"
  /\ \/ ReceiveError
     \/ ReceiveClosed
     \/ ended /\ UNCHANGED vars
  /\ loop' = IF phase = "running" THEN "close" ELSE "select"
  /\ UNCHANGED <<parent, phase, result, summaryVars, brokenConns>>

\* current.Close() in reconnectMicroSubscription.
CloseCurrent ==
  /\ loop = "close"
  /\ \/ closer # "closed" /\ (CloseCancel \/ CloseConn)
        /\ UNCHANGED loop
     \/ closer = "closed" /\ loop' = "dial" /\ UNCHANGED vars
  /\ UNCHANGED <<parent, phase, result, summaryVars, brokenConns>>

\* Whether the context of a subscription that was just made has ended.
DoneAtBirth == phase = "over"

NewSubscription ==
  /\ conn' = "up" /\ wire' = 0 /\ reader' = "check" /\ raw' = 0 /\ nread' = 0
  /\ rawMessages' = <<>> /\ errors' = 0 /\ closer' = "idle"
  /\ done' = DoneAtBirth
  /\ taken' = <<>> /\ failures' = 0 /\ ended' = FALSE

DialSucceeds ==
  /\ loop = "dial"
  /\ NewSubscription
  /\ parent' = "run"
  /\ subscriptionErrors' = subscriptionErrors + 1
  /\ subscriptionReconnects' = subscriptionReconnects + 1
  /\ subscriptionIDs' = subscriptionIDs + 1
  /\ loop' = "select"
  /\ UNCHANGED <<phase, result, brokenConns>>

\* "return summary, err": the run ends without manifest, metrics or run row.
DialFails ==
  /\ loop = "dial"
  /\ subscriptionErrors' = subscriptionErrors + 1
  /\ result' = "subscribe failed"
  /\ loop' = "returned"
  /\ UNCHANGED <<vars, parent, phase, brokenConns, subscriptionReconnects,
                 subscriptionIDs>>

\* case <-runCtx.Done(): finalize, flush, write manifest and metrics, save the
\* run; the first write that fails returns its error.
DoneCase ==
  /\ loop = "select" /\ phase = "over"
  /\ result' \in {"complete", "file error"}
  /\ loop' = "returned"
  /\ UNCHANGED <<vars, parent, phase, summaryVars, brokenConns>>

\* case <-flushTicker.C: a failed flush ends the run.  (A flush that succeeds,
\* and case <-blockTicker.C, change nothing this module speaks of.)
FlushFails ==
  /\ loop = "select"
  /\ result' = "file error"
  /\ loop' = "returned"
  /\ UNCHANGED <<vars, parent, phase, summaryVars, brokenConns>>

\* The deferred sub.Close().
DeferredClose ==
  /\ loop = "returned"
  /\ CloseCancel \/ CloseConn
  /\ UNCHANGED sessionVars

Reconnect == CloseCurrent \/ DialSucceeds \/ DialFails

SessionNext ==
  \/ ProviderSends \/ ProviderBreaks \/ ReadLoopStep
  \/ DeadlineNears \/ DeadlinePasses \/ Interrupt
  \/ Prepare \/ PendingCase \/ FailureCase \/ Reconnect
  \/ DoneCase \/ FlushFails \/ DeferredClose

\* Time passes, goroutines are scheduled, and select, which chooses at random
\* among the ready cases, does not pass over runCtx.Done for ever.  Nothing is
\* assumed of a dial: Subscribe reads the acknowledgement without a deadline.
SessionSpec ==
  /\ SessionInit /\ [][SessionNext]_allVars
  /\ WF_allVars(ReadLoopStep) /\ WF_allVars(DeadlineNears) /\ WF_allVars(DeadlinePasses)
  /\ WF_allVars(Prepare) /\ WF_allVars(CloseCurrent) /\ WF_allVars(DoneCase)
  /\ WF_allVars(DeferredClose)

-----------------------------------------------------------------------------
(* Properties.                                                             *)

\* The three operational counters of the summary agree with each other and
\* with the way the run ended: each failure that was acted upon was followed by
\* a reconnect, but for the one whose reconnect ended the run.
CountersAgree ==
  /\ subscriptionErrors =
       subscriptionReconnects + (IF result = "subscribe failed" THEN 1 ELSE 0)
  /\ subscriptionIDs = subscriptionReconnects + 1

\* A failure announces itself twice, by an error and by the closed channel, and
\* select may see either first; it is still followed by one reconnect only.
\* The first reconnect needs no failure of the provider: the initial
\* subscription is made under setupCtx, which setupCancel ends.
ReconnectsExplained == CountersAgree /\ subscriptionReconnects <= brokenConns + 1

\* A subscription made by a reconnect is cancelled only by the end of the run
\* or by its own Close.
ReconnectedFeedLives ==
  (parent = "run" /\ phase # "over" /\ closer = "idle") => ~done

\* The run returns: neither a dead subscription nor the closed channel that
\* keeps select busy holds it past its deadline, provided that every dial ends:
\* a provider that accepts the connection and never acknowledges
\* eth_subscribe does hold it.
RunEnds ==
  WF_allVars(DialSucceeds \/ DialFails) => <>(loop = "returned")

\* No reader outlives the run, whichever way it returned.
LastReaderEnds == (loop = "returned") ~> (reader = "exited")

\* What the artifacts of the published run say of the counter: "Provider
\* WebSocket reconnects".
ReconnectsAreTheProviders == subscriptionReconnects <= brokenConns
=============================================================================
