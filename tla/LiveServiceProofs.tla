--------------------------- MODULE LiveServiceProofs ---------------------------
(***************************************************************************)
(* Theorems of LiveService, for any number of runs and of payloads.  The   *)
(* invariant that carries the two properties of Status is inductive once   *)
(* two facts are added: s.cancel belongs to the newest run or is nil, and  *)
(* Running is only ever true of the newest run.                            *)
(***************************************************************************)
EXTENDS LiveService, TLAPS

\* Running speaks of the newest run, which is alive; s.cancel is its own.
NewestInv ==
  /\ cancelFn \in {0, last}
  /\ running => last \in Runs /\ phase[last] \in Alive

StatusInv == NewestInv /\ StatusHasARun /\ StopReaches

\* The initial state is well typed.
LEMMA InitTypeOK == Init => TypeOK
<1> SUFFICES ASSUME Init PROVE TypeOK
  OBVIOUS
<1>1. <<>> \in Seq(Nat) /\ 0 \in 0..(FetchAttempts - 1) /\ 0 \in 0..MaxStarts
  BY ServiceAssumption
<1>2. \A r \in Runs : r > last <=> phase[r] = "none"
  BY ServiceAssumption DEF Init, Runs
<1>3. /\ cancelFn \in 0..last /\ stopping \subseteq 1..last
      /\ cancelled \subseteq 1..last
  BY DEF Init
<1>4. /\ phase \in [Runs -> {"none", "exited"} \cup Alive]
      /\ feed \in [Runs -> {"open", "ended"}]
      /\ attempt \in [Runs -> 0..(FetchAttempts - 1)]
      /\ found \in [Runs -> Seq(Nat)]
  BY <1>1 DEF Init
<1> QED
  BY <1>1, <1>2, <1>3, <1>4 DEF Init, TypeOK

\* A function keeps its type when one value is replaced.
LEMMA GotoKeepsType ==
  ASSUME TypeOK, NEW r \in Runs, NEW p \in {"exited"} \cup Alive,
         r <= last, phase' = [phase EXCEPT ![r] = p]
  PROVE  /\ phase' \in [Runs -> {"none", "exited"} \cup Alive]
         /\ \A q \in Runs : q > last <=> phase'[q] = "none"
  BY DEF TypeOK, Runs, Alive, Looping, Handling

\* Every step keeps the types.
LEMMA NextTypeOK == TypeOK /\ [Next]_vars => TypeOK'
<1> SUFFICES ASSUME TypeOK, [Next]_vars PROVE TypeOK'
  OBVIOUS
<1> USE ServiceAssumption DEF InProcess, procVars, statusVars, countVars,
        startVars, handVars, worldVars, noteVars
<1>0. CASE Exit
  BY <1>0 DEF Exit, TypeOK
<1>1. CASE Start
  BY <1>1 DEF Start, TypeOK, Goto, Runs, Alive, Looping, Handling
<1>2. CASE Stop
  <2>1. cancelFn' \in 0..last' /\ stopping' \subseteq 1..last'
    BY <1>2 DEF Stop, TypeOK
  <2> QED
    BY <2>1, <1>2 DEF Stop, TypeOK
<1>3. CASE Notify
  <2>1. PICK batch \in notifying :
          /\ sent' = sent \cup {Head(batch)}
          /\ notifying' = (notifying \ {batch}) \cup ({Tail(batch)} \ {<<>>})
    BY <1>3 DEF Notify
  <2>2. /\ Head(batch) \in Nat /\ Tail(batch) \in Seq(Nat)
    BY DEF TypeOK
  <2>3. sent' \subseteq Nat /\ notifying' \subseteq Seq(Nat) \ {<<>>}
    BY <2>1, <2>2 DEF TypeOK
  <2> QED
    BY <2>3, <1>3 DEF Notify, TypeOK
<1>4. ASSUME NEW r \in Runs, StopCancels(r) PROVE TypeOK'
  BY <1>4 DEF StopCancels, TypeOK
<1>5. ASSUME NEW r \in Runs, DialEnds(r) \/ LoopEnds(r) PROVE TypeOK'
  <2>1. r <= last
    BY <1>5 DEF TypeOK, DialEnds, DialSucceeds, DialFails, LoopEnds, SeeDone, SeeFeedEnd, Runs
  <2>2. \E p \in {"exited", "select"} : phase' = [phase EXCEPT ![r] = p]
    BY <1>5 DEF DialEnds, DialSucceeds, DialFails, LoopEnds, SeeDone,
                SeeFeedEnd, LoopReturns, NotRunning, Goto
  <2>3. /\ phase' \in [Runs -> {"none", "exited"} \cup Alive]
        /\ \A q \in Runs : q > last <=> phase'[q] = "none"
    BY <2>1, <2>2, GotoKeepsType DEF Alive, Looping
  <2> QED
    BY <2>3, <1>5 DEF TypeOK, DialEnds, DialSucceeds, DialFails, LoopEnds,
                      SeeDone, SeeFeedEnd, LoopReturns, NotRunning
<1>6. ASSUME NEW r \in Runs, FeedEnds(r) PROVE TypeOK'
  BY <1>6 DEF FeedEnds, TypeOK
<1>7. ASSUME NEW r \in Runs, Receive(r) \/ Process(r) PROVE TypeOK'
  <2>1. r <= last
    BY <1>7 DEF TypeOK, Receive, Process, FetchSucceeds, FetchFails, SetError,
                Detect, Save, Record, Runs
  <2>2. \E p \in Looping : phase' = [phase EXCEPT ![r] = p]
    BY <1>7 DEF Receive, Process, FetchSucceeds, FetchFails, SetError,
                Detect, Save, Record, Goto, Looping, Handling, TypeOK
  <2>3. /\ phase' \in [Runs -> {"none", "exited"} \cup Alive]
        /\ \A q \in Runs : q > last <=> phase'[q] = "none"
    BY <2>1, <2>2, GotoKeepsType DEF Alive
  <2>4. CASE Receive(r)
    BY <2>3, <2>4 DEF Receive, TypeOK
  <2>5. CASE FetchSucceeds(r) \/ FetchFails(r)
    <3>1. attempt' \in [Runs -> 0..(FetchAttempts - 1)]
      <4>1. attempt[r] \in 0..(FetchAttempts - 1)
        BY DEF TypeOK
      <4>2. PICK n \in 0..(FetchAttempts - 1) : attempt' = [attempt EXCEPT ![r] = n]
        BY <4>1, <2>5 DEF FetchSucceeds, FetchFails
      <4> QED
        BY <4>2 DEF TypeOK
    <3> QED
      BY <2>3, <2>5, <3>1 DEF FetchSucceeds, FetchFails, TypeOK
  <2>6. CASE SetError(r) \/ Save(r)
    BY <2>3, <2>6 DEF SetError, Save, TypeOK
  <2>7. CASE Detect(r)
    <3>1. PICK n \in 0..MaxFound :
            /\ found' = [found EXCEPT ![r] = [i \in 1..n |-> detected + i]]
            /\ detected' = detected + n
      BY <2>7 DEF Detect
    <3>2. [i \in 1..n |-> detected + i] \in Seq(Nat)
      BY DEF TypeOK
    <3> QED
      BY <2>3, <2>7, <3>1, <3>2 DEF Detect, TypeOK
  <2>8. CASE Record(r)
    <3>1. found[r] \in Seq(Nat) /\ Len(found[r]) \in Nat /\ alerts \in Seq(Nat)
      BY DEF TypeOK
    <3>2. NewestFirst(found[r]) \in Seq(Nat)
      BY <3>1 DEF NewestFirst
    <3>3. ASSUME NEW list \in Seq(Nat) PROVE Truncate(list) \in Seq(Nat)
      BY DEF Truncate
    <3>4. Truncate(NewestFirst(found[r]) \o alerts) \in Seq(Nat)
      <4>1. NewestFirst(found[r]) \o alerts \in Seq(Nat)
        BY <3>1, <3>2
      <4> QED
        BY <4>1, <3>3
    <3>5. alerts' \in Seq(Nat)
      BY <2>8, <3>1, <3>4 DEF Record
    <3>6. recorded' \in Seq(Nat) /\ totalAlerts' \in Nat /\ totalMessages' \in Nat
      BY <2>8, <3>1 DEF Record, TypeOK
    <3>7. notifying' \subseteq Seq(Nat) \ {<<>>} /\ found' \in [Runs -> Seq(Nat)]
      BY <2>8, <3>1 DEF Record, TypeOK
    <3> QED
      BY <2>3, <2>8, <3>5, <3>6, <3>7 DEF Record, TypeOK
  <2> QED
    BY <1>7, <2>4, <2>5, <2>6, <2>7, <2>8 DEF Process
<1>8. CASE UNCHANGED vars
  BY <1>8 DEF vars, TypeOK
<1> QED
  BY <1>0, <1>1, <1>2, <1>3, <1>4, <1>5, <1>6, <1>7, <1>8 DEF Next

\* The types hold in every run of the service, whatever the bounds.
THEOREM TypeCorrect == Spec => []TypeOK
  BY InitTypeOK, NextTypeOK, PTL DEF Spec
-----------------------------------------------------------------------------
(* What Status says of the runs.                                           *)

\* Nothing runs at first.
LEMMA InitStatus == Init => StatusInv
<1> SUFFICES ASSUME Init PROVE StatusInv
  OBVIOUS
<1>1. \A r \in Runs : phase[r] = "none"
  BY DEF Init
<1> QED
  BY <1>1 DEF Init, StatusInv, NewestInv, StatusHasARun, StopReaches, Orphan,
              Alive, Looping, Handling

\* A step of a run that stays alive, or none at all, keeps the invariant, for
\* it leaves the rest of the state that Status speaks of alone.
LEMMA QuietStep ==
  ASSUME TypeOK, StatusInv, UNCHANGED <<running, startVars, clobbered>>,
         phase' = phase \/ (\E r \in Runs, p \in Looping :
                              phase[r] \in Alive /\ phase' = [phase EXCEPT ![r] = p]),
         connected' => connected \/ \E r \in Runs : phase'[r] \in Looping
  PROVE  StatusInv'
<1>1. \A r \in Runs : phase'[r] \in Alive <=> phase[r] \in Alive
  BY DEF TypeOK, Alive
<1>2. \A r \in Runs : phase[r] \in Looping => phase'[r] \in Looping
  BY DEF TypeOK
<1>3. NewestInv'
  BY <1>1 DEF StatusInv, NewestInv, startVars
<1>4. StatusHasARun'
  BY <1>1, <1>2 DEF StatusInv, StatusHasARun
<1>5. StopReaches'
  BY <1>1 DEF StatusInv, StopReaches, Orphan, startVars
<1> QED
  BY <1>3, <1>4, <1>5 DEF StatusInv

\* The end of a run clears Running; over a newer run that is the report which
\* clobbered remembers.
LEMMA EndOfRun ==
  ASSUME TypeOK, StatusInv, NEW r \in Runs, phase[r] \in Alive, NotRunning(r),
         UNCHANGED startVars,
         ~connected' \/ (connected' = connected /\ phase[r] = "dialing")
  PROVE  StatusInv'
<1>1. /\ ~running' /\ cancelFn' = cancelFn /\ last' = last
      /\ stopping' = stopping /\ cancelled' = cancelled
  BY DEF NotRunning, startVars
<1>2. /\ \A q \in Runs \ {r} : phase'[q] = phase[q]
      /\ phase'[r] = "exited"
  BY DEF NotRunning, Goto, TypeOK
<1>3. phase'[r] \notin Alive /\ "dialing" \notin Looping
  BY <1>2 DEF Alive, Looping, Handling
<1>4. NewestInv'
  BY <1>1 DEF StatusInv, NewestInv
<1>5. StatusHasARun'
  BY <1>1, <1>2, <1>3 DEF StatusInv, StatusHasARun
<1>6. ASSUME ~clobbered', NEW q \in Runs
      PROVE  ~Orphan(q)' /\ ~(phase'[q] \in Alive /\ q = cancelFn')
  <2>1. ~clobbered /\ (running => r = last)
    BY <1>6 DEF NotRunning, TypeOK
  <2>2. ~Orphan(q)'
    BY <2>1, <1>1, <1>2, <1>3 DEF StatusInv, StopReaches, Orphan
  <2>3. CASE running
    BY <2>1, <2>3, <1>1, <1>2, <1>3, <2>2 DEF StatusInv, NewestInv, TypeOK, Runs
  <2>4. CASE ~running
    BY <2>1, <2>4, <1>1, <1>2, <1>3, <2>2 DEF StatusInv, StopReaches
  <2> QED
    BY <2>3, <2>4 DEF TypeOK
<1>7. StopReaches'
  BY <1>6 DEF StopReaches
<1> QED
  BY <1>4, <1>5, <1>7 DEF StatusInv

\* Every step keeps the invariant.
LEMMA NextStatus == TypeOK /\ StatusInv /\ [Next]_vars => StatusInv'
<1> SUFFICES ASSUME TypeOK, StatusInv, [Next]_vars PROVE StatusInv'
  OBVIOUS
<1> USE DEF statusVars
<1>0. CASE Exit
  BY <1>0, QuietStep DEF Exit
<1>1. CASE Start
  <2> last + 1 \in Runs
    BY <1>1, ServiceAssumption DEF Start, TypeOK, Runs
  <2>1. /\ last' = last + 1 /\ cancelFn' = last + 1
        /\ running' /\ connected' = connected /\ clobbered' = clobbered
        /\ stopping' = stopping /\ cancelled' = cancelled
    BY <1>1 DEF Start
  <2>2. /\ \A q \in Runs \ {last + 1} : phase'[q] = phase[q]
        /\ phase'[last + 1] = "dialing" /\ phase[last + 1] = "none"
    BY <1>1, <2>1 DEF Start, Goto, TypeOK, Runs
  <2>3. "dialing" \in Alive /\ "none" \notin Looping
    BY DEF Alive, Looping, Handling
  <2>4. NewestInv'
    BY <2>1, <2>2, <2>3 DEF NewestInv
  <2>5. StatusHasARun'
    BY <2>1, <2>2, <2>3 DEF StatusInv, StatusHasARun
  <2>6. ASSUME ~clobbered', NEW q \in Runs PROVE ~Orphan(q)'
    <3>1. ~running /\ ~clobbered
      BY <1>1, <2>1, <2>6 DEF Start
    <3>2. CASE q = last + 1
      BY <3>2, <2>1 DEF Orphan
    <3>3. CASE q # last + 1
      <4>1. phase[q] \in Alive => q \in cancelled \cup stopping
        BY <3>1 DEF StatusInv, StopReaches, Orphan
      <4> QED
        BY <4>1, <3>3, <2>1, <2>2 DEF Orphan
    <3> QED
      BY <3>2, <3>3
  <2>7. StopReaches'
    BY <2>1, <2>6 DEF StopReaches
  <2> QED
    BY <2>4, <2>5, <2>7 DEF StatusInv
<1>2. CASE Stop
  <2>1. /\ ~running' /\ ~connected' /\ cancelFn' = 0 /\ phase' = phase
        /\ last' = last /\ clobbered' = clobbered /\ cancelled' = cancelled
        /\ stopping' = stopping \cup ({cancelFn} \ {0})
    BY <1>2 DEF Stop
  <2>2. NewestInv' /\ StatusHasARun'
    BY <2>1 DEF NewestInv, StatusHasARun
  <2>3. 0 \notin Runs
    BY DEF Runs
  <2>4. StopReaches'
    BY <2>1, <2>3 DEF StatusInv, StopReaches, Orphan
  <2> QED
    BY <2>2, <2>4 DEF StatusInv
<1>3. CASE Notify
  BY <1>3, QuietStep DEF Notify
<1>4. ASSUME NEW r \in Runs, StopCancels(r) PROVE StatusInv'
  <2>1. /\ running' = running /\ connected' = connected /\ cancelFn' = cancelFn
        /\ phase' = phase /\ last' = last /\ clobbered' = clobbered
        /\ stopping' \cup cancelled' = stopping \cup cancelled
    BY <1>4 DEF StopCancels
  <2>2. NewestInv' /\ StatusHasARun'
    BY <2>1 DEF StatusInv, NewestInv, StatusHasARun
  <2>3. StopReaches'
    BY <2>1 DEF StatusInv, StopReaches, Orphan
  <2> QED
    BY <2>2, <2>3 DEF StatusInv
<1>5. ASSUME NEW r \in Runs, DialSucceeds(r) PROVE StatusInv'
  <2>1. phase[r] \in Alive /\ "select" \in Looping
    BY <1>5 DEF DialSucceeds, Alive, Looping
  <2>2. phase' = [phase EXCEPT ![r] = "select"] /\ phase'[r] \in Looping
    BY <1>5, <2>1 DEF DialSucceeds, Goto, TypeOK
  <2> QED
    BY <1>5, <2>1, <2>2, QuietStep DEF DialSucceeds
<1>6. ASSUME NEW r \in Runs, DialFails(r) \/ LoopEnds(r) PROVE StatusInv'
  BY <1>6, EndOfRun DEF DialFails, LoopEnds, SeeDone, SeeFeedEnd, LoopReturns,
                        Alive, Looping
<1>7. ASSUME NEW r \in Runs, FeedEnds(r) PROVE StatusInv'
  BY <1>7, QuietStep DEF FeedEnds
<1>8. ASSUME NEW r \in Runs, Receive(r) \/ Process(r) PROVE StatusInv'
  <2>1. phase[r] \in Alive
    BY <1>8 DEF Receive, Process, FetchSucceeds, FetchFails, SetError, Detect,
                Save, Record, Alive, Looping, Handling
  <2>2. phase' = phase \/ \E p \in Looping : phase' = [phase EXCEPT ![r] = p]
    BY <1>8 DEF Receive, Process, FetchSucceeds, FetchFails, SetError, Detect,
                Save, Record, Goto, Looping, Handling
  <2>3. UNCHANGED <<running, connected, startVars, clobbered>>
    BY <1>8 DEF Receive, Process, FetchSucceeds, FetchFails, SetError, Detect,
                Save, Record
  <2> QED
    BY <2>1, <2>2, <2>3, QuietStep
<1>9. CASE UNCHANGED vars
  BY <1>9, QuietStep DEF vars
<1> QED
  BY <1>0, <1>1, <1>2, <1>3, <1>4, <1>5, <1>6, <1>7, <1>8, <1>9
     DEF Next, DialEnds

\* Status has a run behind what it says, for any number of overlapping runs.
THEOREM StatusTruth == Spec => []StatusHasARun
<1>1. StatusInv => StatusHasARun
  BY DEF StatusInv
<1> QED
  BY <1>1, InitStatus, NextStatus, TypeCorrect, PTL DEF Spec

\* Unless a late report of a stopped run cleared Running over a newer one, no
\* run escapes Stop.
THEOREM NoOrphan == Spec => []StopReaches
<1>1. StatusInv => StopReaches
  BY DEF StatusInv
<1> QED
  BY <1>1, InitStatus, NextStatus, TypeCorrect, PTL DEF Spec

-----------------------------------------------------------------------------
(* The list of recent alerts.                                              *)

\* The elements of a concatenation.
LEMMA Concatenation ==
  ASSUME NEW s \in Seq(Nat), NEW t \in Seq(Nat)
  PROVE  /\ s \o t \in Seq(Nat) /\ Len(s \o t) = Len(s) + Len(t)
         /\ \A i \in 1..Len(s) : (s \o t)[i] = s[i]
         /\ \A i \in 1..Len(t) : (s \o t)[Len(s) + i] = t[i]
<1>1. s \o t \in Seq(Nat) /\ Len(s \o t) = Len(s) + Len(t)
  OBVIOUS
<1>2. \A i \in 1..Len(s) : (s \o t)[i] = s[i]
  OBVIOUS
<1>3. ASSUME NEW i \in 1..Len(t) PROVE (s \o t)[Len(s) + i] = t[i]
  <2>1. /\ Len(s) + i \in 1..(Len(s) + Len(t)) /\ ~(Len(s) + i <= Len(s))
        /\ (Len(s) + i) - Len(s) = i
    OBVIOUS
  <2> QED
    BY <2>1
<1> QED
  BY <1>1, <1>2, <1>3

\* Putting the new alerts in front, newest first, and cutting the list to its
\* bound leaves the newest alerts, the newest first.
LEMMA RecordKeepsRecent ==
  ASSUME NEW rec \in Seq(Nat), NEW new \in Seq(Nat), NEW list \in Seq(Nat),
         Len(list) = IF Len(rec) < MaxAlertsInMemory THEN Len(rec)
                     ELSE MaxAlertsInMemory,
         \A i \in 1..Len(list) : list[i] = rec[Len(rec) + 1 - i],
         NEW next \in {Truncate(NewestFirst(new) \o list)},
         NEW all \in {rec \o new}
  PROVE  /\ Len(next) = IF Len(all) < MaxAlertsInMemory THEN Len(all)
                        ELSE MaxAlertsInMemory
         /\ \A i \in 1..Len(next) : next[i] = all[Len(all) + 1 - i]
<1> DEFINE front == NewestFirst(new)
           whole == front \o list
<1>1. /\ Len(rec) \in Nat /\ Len(new) \in Nat /\ Len(list) \in Nat
      /\ MaxAlertsInMemory \in Nat \ {0} /\ Len(list) <= Len(rec)
  BY ServiceAssumption
<1>2. /\ front \in Seq(Nat) /\ Len(front) = Len(new)
      /\ \A i \in 1..Len(new) : front[i] = new[Len(new) + 1 - i]
  BY <1>1 DEF NewestFirst
<1>3. /\ all \in Seq(Nat) /\ Len(all) = Len(rec) + Len(new)
      /\ \A i \in 1..Len(rec) : all[i] = rec[i]
      /\ \A i \in 1..Len(new) : all[Len(rec) + i] = new[i]
  <2>1. all = rec \o new
    OBVIOUS
  <2> QED
    BY <2>1, Concatenation, Zenon
<1> HIDE DEF front
<1>4. /\ whole \in Seq(Nat) /\ Len(whole) = Len(new) + Len(list)
      /\ \A i \in 1..Len(new) : whole[i] = front[i]
      /\ \A i \in 1..Len(list) : whole[Len(new) + i] = list[i]
  <2>1. /\ whole \in Seq(Nat) /\ Len(whole) = Len(front) + Len(list)
        /\ \A i \in 1..Len(front) : whole[i] = front[i]
        /\ \A i \in 1..Len(list) : whole[Len(front) + i] = list[i]
    BY <1>2, Concatenation, Zenon
  <2> QED
    BY <1>2, <2>1, Zenon
<1> HIDE DEF whole
<1>5. ASSUME NEW i \in 1..Len(whole) PROVE whole[i] = all[Len(all) + 1 - i]
  <2>1. CASE i <= Len(new)
    <3>1. whole[i] = new[Len(new) + 1 - i]
      BY <2>1, <1>1, <1>2, <1>4
    <3>2. Len(new) + 1 - i \in 1..Len(new)
      BY <2>1, <1>1
    <3>3. all[Len(rec) + (Len(new) + 1 - i)] = new[Len(new) + 1 - i]
      BY <3>2, <1>3
    <3>4. Len(rec) + (Len(new) + 1 - i) = Len(all) + 1 - i
      BY <1>1, <1>3
    <3> QED
      BY <3>1, <3>3, <3>4
  <2>2. CASE i > Len(new)
    <3>1. i - Len(new) \in 1..Len(list) /\ i = Len(new) + (i - Len(new))
      <4>1. i \in Nat /\ i <= Len(new) + Len(list)
        BY <1>1, <1>4
      <4> QED
        BY <4>1, <2>2, <1>1
    <3>2. whole[i] = list[i - Len(new)]
      BY <3>1, <1>4
    <3>5. whole[i] = rec[Len(rec) + 1 - (i - Len(new))]
      BY <3>1, <3>2
    <3>3. Len(rec) + 1 - (i - Len(new)) \in 1..Len(rec)
      BY <3>1, <1>1
    <3>4. Len(rec) + 1 - (i - Len(new)) = Len(all) + 1 - i
      BY <1>1, <1>3
    <3> QED
      BY <3>5, <3>3, <3>4, <1>3
  <2>3. i \in Nat
    BY <1>4
  <2> QED
    BY <2>1, <2>2, <2>3, <1>1
<1>6. /\ Len(next) = IF Len(whole) > MaxAlertsInMemory THEN MaxAlertsInMemory
                     ELSE Len(whole)
      /\ \A i \in 1..Len(next) : i \in 1..Len(whole) /\ next[i] = whole[i]
  <2>1. next = IF Len(whole) > MaxAlertsInMemory
                 THEN SubSeq(whole, 1, MaxAlertsInMemory) ELSE whole
    BY DEF Truncate, whole, front
  <2>2. CASE Len(whole) > MaxAlertsInMemory
    <3>1. /\ next = SubSeq(whole, 1, MaxAlertsInMemory)
          /\ MaxAlertsInMemory \in 1..Len(whole)
      BY <2>1, <2>2, <1>1, <1>4
    <3>2. /\ Len(next) = MaxAlertsInMemory
          /\ \A i \in 1..MaxAlertsInMemory : next[i] = whole[i]
      BY <3>1, <1>1, <1>4
    <3> QED
      BY <3>1, <3>2, <2>2
  <2>3. CASE ~(Len(whole) > MaxAlertsInMemory)
    BY <2>1, <2>3, <1>4
  <2> QED
    BY <2>2, <2>3
<1>7. Len(next) = IF Len(all) < MaxAlertsInMemory THEN Len(all)
                  ELSE MaxAlertsInMemory
  <2>1. CASE Len(rec) < MaxAlertsInMemory
    <3>1. Len(list) = Len(rec) /\ Len(whole) = Len(all)
      BY <2>1, <1>1, <1>3, <1>4
    <3> QED
      BY <3>1, <1>1, <1>4, <1>6
  <2>2. CASE ~(Len(rec) < MaxAlertsInMemory)
    <3>1. Len(list) = MaxAlertsInMemory
      BY <2>2
    <3>2. ~(Len(all) < MaxAlertsInMemory)
      BY <2>2, <1>1, <1>3
    <3>3. Len(next) = MaxAlertsInMemory
      BY <3>1, <1>1, <1>4, <1>6
    <3> QED
      BY <3>2, <3>3
  <2> QED
    BY <2>1, <2>2
<1> QED
  BY <1>5, <1>6, <1>7

\* Only Record touches the list or what was shown.
LEMMA NextRecent == TypeOK /\ RecentAlerts /\ [Next]_vars => RecentAlerts'
<1> SUFFICES ASSUME TypeOK, RecentAlerts, [Next]_vars PROVE RecentAlerts'
  OBVIOUS
<1>1. CASE UNCHANGED countVars
  BY <1>1 DEF countVars, RecentAlerts
<1>2. ASSUME NEW r \in Runs, Record(r) PROVE RecentAlerts'
  <2>1. /\ found[r] \in Seq(Nat) /\ alerts \in Seq(Nat) /\ recorded \in Seq(Nat)
        /\ totalAlerts = Len(recorded)
    BY DEF TypeOK, RecentAlerts
  <2>2. /\ recorded' = recorded \o found[r]
        /\ totalAlerts' = totalAlerts + Len(found[r])
    BY <1>2 DEF Record
  <2>3. totalAlerts' = Len(recorded')
    BY <2>1, <2>2
  <2>4. CASE found[r] = <<>>
    <3>1. alerts' = alerts /\ recorded' = recorded /\ totalAlerts' = totalAlerts
      BY <1>2, <2>1, <2>2, <2>4 DEF Record
    <3> QED
      BY <3>1 DEF RecentAlerts
  <2>5. CASE found[r] # <<>>
    <3>1. alerts' = Truncate(NewestFirst(found[r]) \o alerts)
      BY <1>2, <2>5 DEF Record
    <3>2. /\ Len(alerts) = IF Len(recorded) < MaxAlertsInMemory THEN Len(recorded)
                           ELSE MaxAlertsInMemory
          /\ \A i \in 1..Len(alerts) : alerts[i] = recorded[Len(recorded) + 1 - i]
      BY <2>1 DEF RecentAlerts
    <3>3. /\ Len(alerts') = IF Len(recorded') < MaxAlertsInMemory
                              THEN Len(recorded') ELSE MaxAlertsInMemory
          /\ \A i \in 1..Len(alerts') :
               alerts'[i] = recorded'[Len(recorded') + 1 - i]
      <4>1. /\ alerts' \in {Truncate(NewestFirst(found[r]) \o alerts)}
            /\ recorded' \in {recorded \o found[r]}
        BY <3>1, <2>2
      <4> HIDE DEF Truncate, NewestFirst
      <4> QED
        BY ONLY <2>1, <3>2, <4>1, RecordKeepsRecent
    <3> QED
      BY <2>3, <3>3 DEF RecentAlerts
  <2> QED
    BY <2>4, <2>5
<1>3. UNCHANGED countVars \/ \E r \in Runs : Record(r)
  BY DEF Next, vars, Exit, Start, Stop, Notify, StopCancels, DialEnds, DialSucceeds,
         DialFails, FeedEnds, LoopEnds, SeeDone, SeeFeedEnd, LoopReturns,
         Receive, Process, FetchSucceeds, FetchFails, SetError, Detect, Save
<1> QED
  BY <1>1, <1>2, <1>3

\* The dashboard shows the newest alerts, the newest first, for any capacity of
\* the list and any number of runs that add to it.
THEOREM Recent == Spec => []RecentAlerts
<1>1. Init => RecentAlerts
  BY ServiceAssumption DEF Init, RecentAlerts
<1> QED
  BY <1>1, NextRecent, TypeCorrect, PTL DEF Spec
=============================================================================
