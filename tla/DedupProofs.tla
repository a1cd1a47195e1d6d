---------------------------- MODULE DedupProofs ----------------------------
(***************************************************************************)
(* One open incident per workload: DedupInv is inductive as long as no     *)
(* worker needs longer than the cooldown to insert its row.                *)
(***************************************************************************)
EXTENDS ApprovalProofs

LEMMA DedupInit == Init => DedupInv
<1>. SUFFICES ASSUME Init PROVE DedupInv
  OBVIOUS
<1>1. ApprovalInv
  BY ApprovalInit
<1>. QED
  BY <1>1 DEF Init, StoreInit, WorkerInit, ObserverInit, Watching, DedupInv,
       RowsAreInsertedByWorkers, DecidingIsCooling, DecidingIsAlone, SecondQuestionIsSafe,
       OneOpenIncident, IsOpen, OpenStatuses, Deciding, BetweenQuestions

\* DedupInv survives a step after which fewer rows are open, fewer workers are
\* deciding and the observer is no further, and which leaves the cooldowns.
LEMMA DedupFrame ==
  ASSUME DedupInv, ApprovalInv',
         \A i \in Ids : IsOpen(i)' => IsOpen(i),
         \A i \in Ids : wpc'[i] \in Deciding => wpc[i] \in Deciding,
         \A i \in Ids : wpc'[i] \in {"unborn"} \cup Deciding => status'[i] = status[i],
         \A i \in Ids : wpc'[i] = "unborn" => wpc[i] = "unborn",
         obs'.pc = "should_alert" => obs' = obs,
         UNCHANGED <<workload, cooling>>
  PROVE  DedupInv'
BY DEF DedupInv, RowsAreInsertedByWorkers, DecidingIsCooling, DecidingIsAlone,
       SecondQuestionIsSafe, OneOpenIncident, BetweenQuestions

\* A worker inserts its row for a workload that is cooling and that no other
\* open row and no other worker before its insert is about.
LEMMA DedupWorker ==
  ASSUME DedupInv, ApprovalInv', NEW i \in Ids, WorkerProgress(i) \/ WorkerDies(i),
         UNCHANGED <<observerVars, handlerVars, reminderVars>>
  PROVE  DedupInv'
<1>. USE DEF ApprovalInv, TypeInv, TypeOK, StoreTypeOK, WorkerTypeOK
<1>1. CASE Create(i)
  <2>1. /\ wpc[i] = "create" /\ status[i] = "none"
        /\ wpc' = [wpc EXCEPT ![i] = "audit"]
        /\ UNCHANGED <<workload, cooling, obs>>
        /\ \A j \in Ids : j # i => (IsOpen(j)' <=> IsOpen(j)) /\ status'[j] = status[j]
    BY <1>1 DEF Create, create_row, Goto, IsOpen, observerVars, DedupInv
  <2>. QED
    BY <2>1 DEF DedupInv, RowsAreInsertedByWorkers, DecidingIsCooling, DecidingIsAlone,
         SecondQuestionIsSafe, OneOpenIncident, BetweenQuestions, Deciding
<1>2. CASE ~Create(i)
  <2>. /\ \A j \in Ids : wpc'[j] \in Deciding => wpc[j] \in Deciding
       /\ \A j \in Ids : wpc'[j] = "unborn" => wpc[j] = "unborn"
       /\ UNCHANGED <<status, workload, cooling, obs>>
    BY <1>2 DEF WorkerProgress, WorkerDies, AssessDecides, AssessFallsThrough, Diagnose, Decide,
         AuditProposal, record, PostAlert, SetRef, set_slack_ref, Goto, Deciding, Reporting,
         storeVars, observerVars, DedupInv
  <2>. QED  BY DedupFrame DEF IsOpen
<1>. QED  BY <1>1, <1>2

\* The observer starts a worker only for a workload that is not cooling, hence
\* one without an open row or a worker before its insert.
LEMMA DedupObserver ==
  ASSUME DedupInv, ApprovalInv', ObserverStep, UNCHANGED <<handlerVars, reminderVars>>
  PROVE  DedupInv'
<1>. USE DEF ApprovalInv, TypeInv, TypeOK, StoreTypeOK, WorkerTypeOK, ObserverTypeOK
<1>1. ASSUME NEW i \in Ids, Alert(i) PROVE DedupInv'
  <2>1. /\ obs.pc = "should_alert" /\ obs.w \notin cooling
        /\ wpc[i] = "unborn" /\ status[i] = "none"
        /\ ~IsOpen(i)
        /\ wpc' = [wpc EXCEPT ![i] = "assess"]
        /\ workload' = [workload EXCEPT ![i] = obs.w]
        /\ cooling' = cooling \cup {obs.w}
        /\ obs'.pc = "watch"
        /\ UNCHANGED status
    BY <1>1 DEF Alert, Goto, Watching, DedupInv, RowsAreInsertedByWorkers, IsOpen, OpenStatuses
  <2>2. \A j \in Ids : (wpc[j] \in Deciding \/ IsOpen(j)) => workload[j] # obs.w
    BY <2>1 DEF DedupInv, DecidingIsCooling, SecondQuestionIsSafe, BetweenQuestions
  <2>3. \A j \in Ids : IsOpen(j)' <=> IsOpen(j)
    BY <2>1 DEF IsOpen
  <2>4. \A j \in Ids : wpc'[j] \in Deciding => j = i \/ wpc[j] \in Deciding
    BY <2>1 DEF DedupInv
  <2>5. \A j \in Ids : j # i => workload'[j] = workload[j]
    BY <2>1 DEF DedupInv
  <2>6. workload'[i] = obs.w
    BY <2>1 DEF DedupInv
  <2>7. RowsAreInsertedByWorkers'
    BY <2>1 DEF DedupInv, RowsAreInsertedByWorkers, Deciding
  <2>8. DecidingIsCooling' /\ DecidingIsAlone'
    BY <2>1, <2>2, <2>3, <2>4, <2>5, <2>6 DEF DedupInv, DecidingIsCooling, DecidingIsAlone
  <2>9. SecondQuestionIsSafe' /\ OneOpenIncident'
    BY <2>1, <2>3, <2>5 DEF DedupInv, SecondQuestionIsSafe, OneOpenIncident, BetweenQuestions
  <2>. QED  BY <2>7, <2>8, <2>9 DEF DedupInv
<1>2. CASE CheckOpen
  <2>1. UNCHANGED <<status, workload, cooling, wpc>>
    BY <1>2 DEF CheckOpen, storeVars, workerVars
  <2>2. obs'.pc = "should_alert" => \A j \in Ids : IsOpen(j) => workload[j] # obs'.w
    BY <1>2 DEF CheckOpen, has_open_incident, Watching, DedupInv
  <2>3. \A j \in Ids : IsOpen(j)' <=> IsOpen(j)
    BY <2>1 DEF IsOpen
  <2>. QED
    BY <2>1, <2>2, <2>3 DEF DedupInv, RowsAreInsertedByWorkers, DecidingIsCooling,
         DecidingIsAlone, SecondQuestionIsSafe, OneOpenIncident, BetweenQuestions
<1>3. CASE Suppressed \/ ObserverDies \/ \E w \in Workloads : WatchEvent(w)
  <2>. /\ obs'.pc # "should_alert"
       /\ UNCHANGED <<status, workload, cooling, wpc>>
    BY <1>3 DEF Suppressed, ObserverDies, WatchEvent, Watching, storeVars, workerVars
  <2>. QED  BY DedupFrame DEF IsOpen
<1>. QED  BY <1>1, <1>2, <1>3 DEF ObserverStep, ObserverProgress

\* A listener never opens a row.
LEMMA DedupListener ==
  ASSUME DedupInv, ApprovalInv', HandlerStep, UNCHANGED <<observerVars, reminderVars>>
  PROVE  DedupInv'
<1>. USE DEF ApprovalInv, TypeInv, TypeOK, StoreTypeOK, WorkerTypeOK, HandlersTypeOK
<1>1. UNCHANGED <<wpc, workload, cooling, obs>>
  BY DEF HandlerStep, Click, HandlerProgress, HandlerDies, Read, Mark, AuditDecision, Notify,
       DryRun, Apply, Verify, Undo, Settle, AuditResult, NotifyResult, Conclude,
       update_status, record, storeVars, workerVars, observerVars
<1>2. ASSUME NEW h \in Threads, Mark(h) \/ Settle(h) PROVE DedupInv'
  <2>1. PICK s \in ApprovalStatus \ OpenStatuses : update_status(hid[h], s)
    <3>1. Marked(op[h]) \in ApprovalStatus \ OpenStatuses
      BY DEF Marked, ButtonIds, ApprovalStatus, OpenStatuses, SettledStatuses, DedupInv
    <3>2. result[h] \in ApprovalStatus \ OpenStatuses
      BY DEF ApprovalStatus, OpenStatuses, SettledStatuses, DedupInv
    <3>. QED  BY <1>2, <3>1, <3>2 DEF Mark, Settle
  <2>2. Announced(hid[h]) /\ hid[h] \in Ids
    BY <1>2 DEF Mark, Settle, DedupInv, ListenersActOnAlerts, ListenersHaveAnIncident
  <2>3. \A j \in Ids : IsOpen(j)' => IsOpen(j)
    BY <2>1 DEF update_status, IsOpen, DedupInv
  <2>4. \A j \in Ids : wpc'[j] \in {"unborn"} \cup Deciding => status'[j] = status[j]
    BY <1>1, <2>1, <2>2 DEF update_status, Announced, Deciding, DedupInv
  <2>. QED  BY <1>1, <2>3, <2>4, DedupFrame
<1>3. CASE ~\E h \in Threads : Mark(h) \/ Settle(h)
  <2>. UNCHANGED status
    BY <1>3 DEF HandlerStep, Click, HandlerProgress, HandlerDies, Read, AuditDecision, Notify,
         DryRun, Apply, Verify, Undo, AuditResult, NotifyResult, Conclude, record, storeVars
  <2>. QED  BY <1>1, DedupFrame DEF IsOpen
<1>. QED  BY <1>2, <1>3

\* The clock does not end a cooldown on which an alert still relies.
LEMMA DedupEnvironment ==
  ASSUME "slow_diagnosis" \notin Faults, DedupInv, ApprovalInv', Environment
  PROVE  DedupInv'
<1>1. ASSUME NEW w \in Workloads, CooldownExpires(w) PROVE DedupInv'
  <2>1. /\ ~AlertInTheMaking(w)
        /\ ~BetweenQuestions(w)
        /\ cooling' = cooling \ {w}
        /\ UNCHANGED <<status, workload, wpc, obs>>
    BY <1>1 DEF CooldownExpires, workerVars, observerVars
  <2>2. \A j \in Ids : IsOpen(j)' <=> IsOpen(j)
    BY <2>1 DEF IsOpen
  <2>. QED
    BY <1>1, <2>1, <2>2 DEF DedupInv, RowsAreInsertedByWorkers, DecidingIsCooling,
         DecidingIsAlone, SecondQuestionIsSafe, OneOpenIncident, BetweenQuestions,
         AlertInTheMaking
<1>2. CASE ~\E w \in Workloads : CooldownExpires(w)
  <2>. UNCHANGED <<status, workload, cooling, wpc, obs>>
    BY <1>2 DEF Environment, HealthChanges, FallsDue, ReminderFallsDue, storeVars, workerVars,
         observerVars
  <2>. QED  BY DedupFrame DEF IsOpen
<1>. QED  BY <1>1, <1>2

THEOREM DedupInvHolds ==
  ASSUME "slow_diagnosis" \notin Faults
  PROVE  Spec => []DedupInv
<1>1. ASSUME DedupInv, ApprovalInv', Next PROVE DedupInv'
  <2>1. CASE WorkerStep /\ UNCHANGED <<observerVars, handlerVars, reminderVars>>
    BY <1>1, <2>1, DedupWorker DEF WorkerStep
  <2>2. CASE ObserverStep /\ UNCHANGED <<handlerVars, reminderVars>>
    BY <1>1, <2>2, DedupObserver
  <2>3. CASE HandlerStep /\ UNCHANGED <<observerVars, reminderVars>>
    BY <1>1, <2>3, DedupListener
  <2>4. CASE ReminderStep /\ UNCHANGED <<observerVars, handlerVars>>
    <3>. UNCHANGED <<status, workload, cooling, wpc, obs>>
      BY <2>4 DEF ReminderStep, ReminderProgress, ListDue, PostReminder, MarkReminded,
           mark_reminded, ReminderFails, storeVars, workerVars, observerVars
    <3>. QED  BY <1>1, DedupFrame DEF IsOpen
  <2>5. CASE Environment
    BY <1>1, <2>5, DedupEnvironment
  <2>6. CASE Crash
    <3>. /\ obs'.pc = "watch"
         /\ UNCHANGED <<status, workload, cooling>>
         /\ \A i \in Ids : wpc'[i] = IF wpc[i] = "unborn" THEN "unborn" ELSE "done"
      BY <2>6 DEF Crash, Watching, storeVars
    <3>. QED  BY <1>1, DedupFrame DEF IsOpen, Deciding
  <2>. QED  BY <1>1, <2>1, <2>2, <2>3, <2>4, <2>5, <2>6 DEF Next
<1>2. ASSUME DedupInv, ApprovalInv', UNCHANGED vars PROVE DedupInv'
  BY <1>2, DedupFrame DEF IsOpen, vars, storeVars, workerVars, observerVars
<1>. QED  BY <1>1, <1>2, DedupInit, ApprovalInvHolds, PTL DEF Spec

\* A workload never has two incidents open, for any number of incidents,
\* workloads and listener threads, with exceptions, restarts and racing clicks.
THEOREM NoDuplicateIncidents ==
  ASSUME "slow_diagnosis" \notin Faults
  PROVE  Spec => []OneOpenIncident
<1>1. DedupInv => OneOpenIncident
  BY DEF DedupInv
<1>. QED  BY <1>1, DedupInvHolds, PTL
=============================================================================
