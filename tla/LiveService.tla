----------------------------- MODULE LiveService -----------------------------
(***************************************************************************)
(* The live service of internal/live/service.go: Start and Stop, called by *)
(* the handlers of the web server and by main, the run loops they start,   *)
(* and what a run loop does with a payload, down to the notification.      *)
(*                                                                         *)
(* A run is the number of the Start that began it.  Start unlocks the      *)
(* mutex before it dials, Stop unlocks it before it cancels, and neither   *)
(* waits for the run loop: several runs may be alive at once, and all of   *)
(* them write the one Status.                                              *)
(*                                                                         *)
(* The subscription of a run is seen through its two channels only; what   *)
(* it promises is shown in Subscription.  An alert is its number, in the   *)
(* order of detection.                                                     *)
(*                                                                         *)
(* All of it lives in the server process: when that exits, whatever is     *)
(* under way, a notification for one, is lost with it.                     *)
(***************************************************************************)
EXTENDS Naturals, Sequences

CONSTANTS
  MaxAlertsInMemory,   \* cfg.MaxAlertsInMemory
  FetchAttempts,       \* attempts of getPendingTransactionWithRetry
  MaxFound,            \* bound of the model: alerts one payload raises
  MaxStarts,           \* bound of the model: runs
  MaxReceived          \* bound of the model: payloads received by all the runs

ASSUME ServiceAssumption ==
  /\ MaxAlertsInMemory \in Nat \ {0}
  /\ FetchAttempts \in Nat \ {0}
  /\ MaxFound \in Nat /\ MaxStarts \in Nat /\ MaxReceived \in Nat

VARIABLES
  \* the server process
  up,            \* it has not exited
  notify,        \* s.notify # nil: the environment configures Telegram
  \* the Service
  running, connected, totalMessages, totalAlerts,    \* of its Status
  alerts,        \* in memory, the newest first
  cancelFn,      \* the run that s.cancel ends, 0 for nil
  \* the calls of Stop that have not cancelled yet, by the run they end
  stopping,
  \* the runs
  last,          \* the newest
  phase,         \* where each is
  cancelled,     \* those whose context has ended
  feed,          \* the channels of their subscriptions
  attempt,       \* attempts made to fetch the transaction
  found,         \* the alerts of the payload in hand
  \* outside the service
  received, detected,    \* numbers of payloads and alerts so far
  notifying,     \* batches of the notification goroutines
  sent,          \* alerts whose message was attempted
  \* history
  recorded,      \* alerts that were shown, in order
  clobbered      \* a run wrote Running = false although a newer one was running

statusVars == <<running, connected>>
countVars  == <<totalMessages, totalAlerts, alerts, recorded>>
startVars  == <<cancelFn, stopping, last, cancelled>>
handVars   == <<attempt, found>>
worldVars  == <<received, detected>>
noteVars   == <<notifying, sent>>
procVars   == <<up, notify>>
vars == <<procVars, statusVars, countVars, startVars, phase, feed, handVars, worldVars,
          noteVars, clobbered>>

Runs == 1..MaxStarts
Handling == {"fetch", "detect", "save", "record", "error"}
Looping == {"select"} \cup Handling
Alive == {"dialing"} \cup Looping

TypeOK ==
  /\ up \in BOOLEAN /\ notify \in BOOLEAN
  /\ running \in BOOLEAN /\ connected \in BOOLEAN /\ clobbered \in BOOLEAN
  /\ totalMessages \in Nat /\ totalAlerts \in Nat
  /\ received \in Nat /\ detected \in Nat
  /\ alerts \in Seq(Nat) /\ recorded \in Seq(Nat)
  /\ last \in 0..MaxStarts /\ cancelFn \in 0..last
  /\ stopping \subseteq 1..last /\ cancelled \subseteq 1..last
  /\ phase \in [Runs -> {"none", "exited"} \cup Alive]
  /\ \A r \in Runs : r > last <=> phase[r] = "none"
  /\ feed \in [Runs -> {"open", "ended"}]
  /\ attempt \in [Runs -> 0..(FetchAttempts - 1)]
  /\ found \in [Runs -> Seq(Nat)]
  /\ sent \subseteq Nat /\ notifying \subseteq Seq(Nat) \ {<<>>}

Init ==
  /\ up = TRUE /\ notify \in BOOLEAN
  /\ running = FALSE /\ connected = FALSE
  /\ totalMessages = 0 /\ totalAlerts = 0 /\ alerts = <<>> /\ recorded = <<>>
  /\ cancelFn = 0 /\ stopping = {} /\ last = 0 /\ cancelled = {}
  /\ phase = [r \in Runs |-> "none"] /\ feed = [r \in Runs |-> "open"]
  /\ attempt = [r \in Runs |-> 0] /\ found = [r \in Runs |-> <<>>]
  /\ received = 0 /\ detected = 0
  /\ notifying = {} /\ sent = {}
  /\ clobbered = FALSE

\* What happens within the process; s.notify is set by NewService only.
InProcess == up /\ UNCHANGED procVars

Goto(r, p) == phase' = [phase EXCEPT ![r] = p]

-----------------------------------------------------------------------------
(* Plausible bugs, each in the place of one definition below.              *)

\* A failed Start leaves Running set.
BugDialFails(r) ==
  /\ InProcess
  /\ phase[r] = "dialing"
  /\ Goto(r, "exited")
  /\ UNCHANGED <<running, connected, countVars, startVars, feed, handVars,
                 worldVars, noteVars, clobbered>>

\* Start looks at Connected instead of Running.
BugStart ==
  /\ InProcess
  /\ last < MaxStarts
  /\ ~connected
  /\ last' = last + 1 /\ cancelFn' = last + 1
  /\ Goto(last + 1, "dialing")
  /\ running' = TRUE
  /\ UNCHANGED <<connected, countVars, stopping, cancelled, feed, handVars,
                 worldVars, noteVars, clobbered>>

\* The run loop has no case for ctx.Done.
BugSeeDone(r) == FALSE /\ UNCHANGED <<vars, r>>

\* A failed save is returned instead of ignored.
BugSave(r) ==
  /\ InProcess
  /\ phase[r] = "save"
  /\ Goto(r, "record") \/ Goto(r, "select")
  /\ UNCHANGED <<statusVars, countVars, startVars, feed, handVars, worldVars,
                 noteVars, clobbered>>

-----------------------------------------------------------------------------
(* Start and Stop.                                                         *)

\* The locked part of Start, for a service that is not Running.
Start ==
  /\ InProcess
  /\ last < MaxStarts
  /\ ~running
  /\ last' = last + 1 /\ cancelFn' = last + 1
  /\ Goto(last + 1, "dialing")
  /\ running' = TRUE
  /\ UNCHANGED <<connected, countVars, stopping, cancelled, feed, handVars,
                 worldVars, noteVars, clobbered>>

\* Running = false, whoever is running now.
NotRunning(r) ==
  /\ running' = FALSE
  /\ clobbered' = (clobbered \/ (running /\ r # last))
  /\ Goto(r, "exited")

\* Subscribe returns an error, its own or that of the cancelled context.
DialFails(r) ==
  /\ InProcess
  /\ phase[r] = "dialing"
  /\ NotRunning(r)
  /\ UNCHANGED <<connected, countVars, startVars, feed, handVars, worldVars,
                 noteVars>>

\* Subscribe succeeds, which a cancelled context need not prevent, and runLoop
\* makes its entry.
DialSucceeds(r) ==
  /\ InProcess
  /\ phase[r] = "dialing"
  /\ Goto(r, "select")
  /\ connected' = TRUE
  /\ UNCHANGED <<running, countVars, startVars, feed, handVars,
                 worldVars, noteVars, clobbered>>

\* The locked part of Stop.
Stop ==
  /\ InProcess
  /\ running' = FALSE /\ connected' = FALSE
  /\ cancelFn' = 0
  /\ stopping' = stopping \cup ({cancelFn} \ {0})
  /\ UNCHANGED <<countVars, last, phase, cancelled, feed, handVars,
                 worldVars, noteVars, clobbered>>

\* cancel()
StopCancels(r) ==
  /\ InProcess
  /\ r \in stopping
  /\ stopping' = stopping \ {r}
  /\ cancelled' = cancelled \cup {r}
  /\ UNCHANGED <<statusVars, countVars, cancelFn, last, phase, feed, handVars,
                 worldVars, noteVars, clobbered>>

-----------------------------------------------------------------------------
(* The subscription of a run.                                              *)

\* The connection fails, or readLoop notices the cancelled context: there is an
\* error to read, or RawMessages is closed, or both.
FeedEnds(r) ==
  /\ InProcess
  /\ phase[r] \in Looping /\ feed[r] = "open"
  /\ feed' = [feed EXCEPT ![r] = "ended"]
  /\ UNCHANGED <<statusVars, countVars, startVars, phase, handVars, worldVars,
                 noteVars, clobbered>>

-----------------------------------------------------------------------------
(* runLoop.                                                                *)

\* The run loop returns and closes its subscription; what waits in RawMessages
\* is lost.
LoopReturns(r) ==
  /\ InProcess
  /\ NotRunning(r)
  /\ connected' = FALSE
  /\ feed' = [feed EXCEPT ![r] = "ended"]
  /\ UNCHANGED <<countVars, startVars, handVars, worldVars, noteVars>>

\* case <-ctx.Done()
SeeDone(r) ==
  /\ phase[r] = "select" /\ r \in cancelled
  /\ LoopReturns(r)

\* case err := <-sub.Errors, or the closed RawMessages: when both are ready the
\* error may stay unread.
SeeFeedEnd(r) ==
  /\ phase[r] = "select" /\ feed[r] = "ended"
  /\ LoopReturns(r)

\* A payload, buffered or new: a transaction, a hash, or neither.
Receive(r) ==
  /\ InProcess
  /\ phase[r] = "select"
  /\ received < MaxReceived
  /\ received' = received + 1
  /\ \E p \in {"detect", "fetch", "error"} : Goto(r, p)
  /\ UNCHANGED <<statusVars, countVars, startVars, feed, handVars, detected,
                 noteVars, clobbered>>

-----------------------------------------------------------------------------
(* processPendingRaw.                                                      *)

FetchSucceeds(r) ==
  /\ InProcess
  /\ phase[r] = "fetch"
  /\ attempt' = [attempt EXCEPT ![r] = 0]
  /\ Goto(r, "detect")
  /\ UNCHANGED <<statusVars, countVars, startVars, feed, found, worldVars,
                 noteVars, clobbered>>

\* One failed attempt: the last one, and the end of the context, give up.  The
\* wait between two attempts is a select, which may see the end or miss it.
FetchFails(r) ==
  /\ InProcess
  /\ phase[r] = "fetch"
  /\ \/ /\ attempt[r] < FetchAttempts - 1
        /\ attempt' = [attempt EXCEPT ![r] = @ + 1]
        /\ UNCHANGED phase
     \/ /\ attempt[r] = FetchAttempts - 1 \/ r \in cancelled
        /\ attempt' = [attempt EXCEPT ![r] = 0]
        /\ Goto(r, "error")
  /\ UNCHANGED <<statusVars, countVars, startVars, feed, found, worldVars,
                 noteVars, clobbered>>

\* setError: the payload is not counted.
SetError(r) ==
  /\ InProcess
  /\ phase[r] = "error"
  /\ Goto(r, "select")
  /\ UNCHANGED <<running, connected, countVars, startVars, feed, handVars,
                 worldVars, noteVars, clobbered>>

\* s.engine.Detect
Detect(r) ==
  /\ InProcess
  /\ phase[r] = "detect"
  /\ \E n \in 0..MaxFound :
       /\ found' = [found EXCEPT ![r] = [i \in 1..n |-> detected + i]]
       /\ detected' = detected + n
       /\ Goto(r, IF n = 0 THEN "record" ELSE "save")
  /\ UNCHANGED <<statusVars, countVars, startVars, feed, attempt, received,
                 noteVars, clobbered>>

\* SaveAlerts; whether the database takes the alerts or not, its error is
\* ignored.
Save(r) ==
  /\ InProcess
  /\ phase[r] = "save"
  /\ Goto(r, "record")
  /\ UNCHANGED <<statusVars, countVars, startVars, feed, handVars, worldVars,
                 noteVars, clobbered>>

Truncate(list) ==
  IF Len(list) > MaxAlertsInMemory THEN SubSeq(list, 1, MaxAlertsInMemory) ELSE list

\* The newest alert comes first, that of one payload as well.
NewestFirst(list) == [i \in 1..Len(list) |-> list[Len(list) + 1 - i]]

\* The locked part at the end; a notification goroutine follows it if there is
\* a notifier.
Record(r) ==
  /\ InProcess
  /\ phase[r] = "record"
  /\ totalMessages' = totalMessages + 1
  /\ totalAlerts' = totalAlerts + Len(found[r])
  /\ recorded' = recorded \o found[r]
  /\ alerts' = IF found[r] = <<>> THEN alerts
               ELSE Truncate(NewestFirst(found[r]) \o alerts)
  /\ notifying' = IF notify /\ found[r] # <<>> THEN notifying \cup {found[r]}
                  ELSE notifying
  /\ found' = [found EXCEPT ![r] = <<>>]
  /\ Goto(r, "select")
  /\ UNCHANGED <<statusVars, startVars, feed, attempt, worldVars, sent, clobbered>>

\* One message of NotifyAlerts; its outcome is dropped.
Notify ==
  /\ InProcess
  /\ \E batch \in notifying :
       /\ sent' = sent \cup {Head(batch)}
       /\ notifying' = (notifying \ {batch}) \cup ({Tail(batch)} \ {<<>>})
  /\ UNCHANGED <<statusVars, countVars, startVars, phase, feed, handVars,
                 worldVars, clobbered>>

-----------------------------------------------------------------------------
\* The process exits: main returns after its Stop and Shutdown, which wait for
\* no run and no notification, or the listener fails, or it is killed.
Exit ==
  /\ up /\ up' = FALSE
  /\ UNCHANGED <<notify, statusVars, countVars, startVars, phase, feed, handVars,
                 worldVars, noteVars, clobbered>>

DialEnds(r) == DialSucceeds(r) \/ DialFails(r)
LoopEnds(r) == SeeDone(r) \/ SeeFeedEnd(r)
Process(r) ==
  \/ FetchSucceeds(r) \/ FetchFails(r) \/ SetError(r)
  \/ Detect(r) \/ Save(r) \/ Record(r)

Next ==
  \/ Exit
  \/ Start \/ Stop \/ Notify
  \/ \E r \in Runs :
       \/ StopCancels(r) \/ DialEnds(r)
       \/ FeedEnds(r) \/ LoopEnds(r) \/ Receive(r) \/ Process(r)

\* Goroutines are scheduled, calls over HTTP and to the database time out, and
\* select does not pass over ctx.Done for ever.
Fairness ==
  /\ WF_vars(Notify)
  /\ \A r \in Runs :
       /\ WF_vars(StopCancels(r)) /\ WF_vars(Process(r))
       /\ SF_vars(SeeDone(r))

Spec == Init /\ [][Next]_vars /\ Fairness

-----------------------------------------------------------------------------
(* Properties.                                                             *)

\* A run that Stop cannot end: alive, and neither cancelled nor in s.cancel.
Orphan(r) == phase[r] \in Alive /\ r \notin cancelled \cup stopping \cup {cancelFn}

\* As long as no run has reported its own end over that of a newer one, every
\* run that is alive has been stopped or is the one Stop will end, and Status
\* says Running for it: there are never two runs that process payloads for good.
\* (Once a late report has cleared Running, the next Start replaces s.cancel and
\* the run it belonged to can no longer be stopped.)
StopReaches ==
  ~clobbered =>
    \A r \in Runs :
      /\ ~Orphan(r)
      /\ phase[r] \in Alive /\ r = cancelFn => running

\* However the runs overlap, Status never claims a life that is not there: if
\* it says Running some run is dialing or in its loop, and if it says Connected
\* some run is in its loop.
StatusHasARun ==
  /\ running => \E r \in Runs : phase[r] \in Alive
  /\ connected => \E r \in Runs : phase[r] \in Looping

\* The alerts in memory are the newest of those that were shown, the newest
\* first, although several runs may add to them and only so many are kept.
RecentAlerts ==
  /\ totalAlerts = Len(recorded)
  /\ Len(alerts) = IF totalAlerts < MaxAlertsInMemory THEN totalAlerts
                   ELSE MaxAlertsInMemory
  /\ \A i \in 1..Len(alerts) : alerts[i] = recorded[totalAlerts + 1 - i]

\* Every run that was stopped ends, in the middle of a payload or of a retry as
\* well, provided that its dial ends and unless the process exits before it.
\* (Runs and payloads are bounded here, so that what is true of all of them
\* again and again becomes true of each.)
StoppedRunEnds ==
  (\A r \in Runs : WF_vars(DialEnds(r))) =>
     []<>(~up \/ \A r \in stopping \cup cancelled : phase[r] = "exited")

\* Every alert that was detected is shown, and sent when there is a notifier,
\* even if its run is stopped before it is saved or the database refuses it.
\* Only the exit of the process, which waits for neither, can lose it.
DetectedIsDelivered ==
  []<>(~up \/ \A a \in 1..detected :
                /\ \E i \in 1..Len(recorded) : recorded[i] = a
                /\ notify => a \in sent)
=============================================================================
