--------------------------- MODULE ApprovalProofs ---------------------------
(***************************************************************************)
(* No write without a recorded human approval, and no outcome without what *)
(* it tells of: ApprovalInv and OutcomeInv are inductive, whatever the     *)
(* faults and however clicks race.                                         *)
(***************************************************************************)
EXTENDS TypeProofs

LEMMA ApprovalInit == Init => ApprovalInv
<1>. SUFFICES ASSUME Init PROVE ApprovalInv
  OBVIOUS
<1>1. TypeInv
  BY TypeInit
<1>. QED
  BY <1>1 DEF Init, StoreInit, SlackInit, WorkerInit, HandlersInit, ApprovalInv,
       PostsAreFinal, ListenersActOnAlerts, ApprovalsAreAuditedFirst, WritesFollowAlerts,
       ApprovedByHuman, Announced, Remediating

\* ApprovalInv does not read the rest of the state.
LEMMA ApprovalFrame ==
  ASSUME ApprovalInv, TypeInv',
         UNCHANGED <<audit, plan, posted, wpc, hpc, op, hid, applies>>
  PROVE  ApprovalInv'
BY DEF ApprovalInv, PostsAreFinal, ListenersActOnAlerts, ApprovalsAreAuditedFirst,
       WritesFollowAlerts, ApprovedByHuman, Announced

\* A worker decides on a plan before its alert is announced, and never after.
LEMMA ApprovalWorker ==
  ASSUME ApprovalInv, TypeInv', NEW i \in Ids, WorkerProgress(i) \/ WorkerDies(i),
         UNCHANGED <<observerVars, handlerVars, reminderVars>>
  PROVE  ApprovalInv'
<1>. USE DEF ApprovalInv, PostsAreFinal, ListenersActOnAlerts, ApprovalsAreAuditedFirst,
      WritesFollowAlerts, ApprovedByHuman, Announced, TypeInv, TypeOK, StoreTypeOK, SlackTypeOK,
      WorkerTypeOK, HandlersTypeOK, ListenersHaveAnIncident, storeVars, slackVars, handlerVars,
      Goto, Deciding, Reporting
<1>1. CASE AssessDecides(i)
  BY <1>1 DEF AssessDecides, Decide
<1>2. CASE AssessFallsThrough(i)
  BY <1>2 DEF AssessFallsThrough
<1>3. CASE Diagnose(i)
  BY <1>3 DEF Diagnose, Decide
<1>4. CASE Create(i)
  BY <1>4 DEF Create, create_row
<1>5. CASE AuditProposal(i)
  BY <1>5 DEF AuditProposal, record
<1>6. CASE PostAlert(i)
  BY <1>6 DEF PostAlert, chat_postMessage, AlertButtons, ApproveOrReject
<1>7. CASE SetRef(i)
  BY <1>7 DEF SetRef, set_slack_ref
<1>8. CASE WorkerDies(i)
  BY <1>8 DEF WorkerDies
<1>. QED  BY <1>1, <1>2, <1>3, <1>4, <1>5, <1>6, <1>7, <1>8 DEF WorkerProgress

\* A listener gets to the remediation through Mark and AuditDecision only.
LEMMA ApprovalListener ==
  ASSUME ApprovalInv, TypeInv', HandlerStep, UNCHANGED <<observerVars, reminderVars>>
  PROVE  ApprovalInv'
<1>. USE DEF ApprovalInv, PostsAreFinal, ListenersActOnAlerts, ApprovalsAreAuditedFirst,
      WritesFollowAlerts, ApprovedByHuman, Announced, TypeInv, TypeOK, StoreTypeOK, SlackTypeOK,
      HandlersTypeOK, ListenersHaveAnIncident, storeVars, slackVars, workerVars,
      At, Return, Remediating
<1>1. ASSUME NEW h \in Threads, NEW o \in ButtonIds, NEW i \in Ids, Click(h, o, i)
      PROVE  ApprovalInv'
  BY <1>1 DEF Click, Clicks, AlertButtons
<1>2. ASSUME NEW h \in Threads, HandlerProgress(h) \/ HandlerDies(h) PROVE ApprovalInv'
  <2>1. CASE Read(h)
    BY <2>1 DEF Read
  <2>2. CASE Mark(h)
    BY <2>2 DEF Mark, update_status
  <2>3. CASE AuditDecision(h)
    BY <2>3 DEF AuditDecision, record, Marked
  <2>4. CASE Notify(h)
    BY <2>4 DEF Notify, chat_update
  <2>5. CASE DryRun(h)
    BY <2>5 DEF DryRun, Conclude
  <2>6. CASE Apply(h)
    BY <2>6 DEF Apply, Conclude
  <2>7. CASE Verify(h)
    BY <2>7 DEF Verify, Conclude
  <2>8. CASE Undo(h)
    BY <2>8 DEF Undo, Conclude
  <2>9. CASE Settle(h)
    BY <2>9 DEF Settle, update_status
  <2>10. CASE AuditResult(h)
    BY <2>10 DEF AuditResult, record
  <2>11. CASE NotifyResult(h)
    BY <2>11 DEF NotifyResult, chat_update
  <2>12. CASE HandlerDies(h)
    BY <2>12 DEF HandlerDies
  <2>. QED  BY <1>2, <2>1, <2>2, <2>3, <2>4, <2>5, <2>6, <2>7, <2>8, <2>9, <2>10, <2>11, <2>12
            DEF HandlerProgress
<1>. QED  BY <1>1, <1>2 DEF HandlerStep

\* The observer touches none of it, but for the start of a worker.
LEMMA ApprovalObserver ==
  ASSUME ApprovalInv, TypeInv', ObserverStep, UNCHANGED <<handlerVars, reminderVars>>
  PROVE  ApprovalInv'
<1>1. ASSUME NEW i \in Ids, Alert(i) PROVE ApprovalInv'
  BY <1>1 DEF Alert, Goto, ApprovalInv, PostsAreFinal, ListenersActOnAlerts,
       ApprovalsAreAuditedFirst, WritesFollowAlerts, ApprovedByHuman, Announced, TypeInv, TypeOK,
       WorkerTypeOK, ListenersHaveAnIncident, slackVars, handlerVars
<1>2. CASE ~\E i \in Ids : Alert(i)
  <2>. UNCHANGED <<audit, plan, posted, wpc, hpc, op, hid, applies>>
    BY <1>2 DEF ObserverStep, ObserverProgress, WatchEvent, CheckOpen, Suppressed, ObserverDies,
         storeVars, slackVars, workerVars, handlerVars
  <2>. QED  BY ApprovalFrame
<1>. QED  BY <1>1, <1>2

\* Threads that lose their place at a crash lose it on the safe side.
LEMMA ApprovalCrash ==
  ASSUME ApprovalInv, TypeInv', Crash
  PROVE  ApprovalInv'
BY DEF Crash, ApprovalInv, PostsAreFinal, ListenersActOnAlerts, ApprovalsAreAuditedFirst,
       WritesFollowAlerts, ApprovedByHuman, Announced, TypeInv, TypeOK, WorkerTypeOK,
       SlackTypeOK, HandlersTypeOK, storeVars, slackVars, Remediating

THEOREM ApprovalInvHolds == Spec => []ApprovalInv
<1>1. ASSUME ApprovalInv, TypeInv', Next PROVE ApprovalInv'
  <2>1. CASE WorkerStep /\ UNCHANGED <<observerVars, handlerVars, reminderVars>>
    BY <1>1, <2>1, ApprovalWorker DEF WorkerStep
  <2>2. CASE ObserverStep /\ UNCHANGED <<handlerVars, reminderVars>>
    BY <1>1, <2>2, ApprovalObserver
  <2>3. CASE HandlerStep /\ UNCHANGED <<observerVars, reminderVars>>
    BY <1>1, <2>3, ApprovalListener
  <2>4. CASE ReminderStep /\ UNCHANGED <<observerVars, handlerVars>>
    <3>. UNCHANGED <<audit, plan, posted, wpc, hpc, op, hid, applies>>
      BY <2>4 DEF ReminderStep, ReminderProgress, ListDue, PostReminder, MarkReminded,
           mark_reminded, ReminderFails, storeVars, slackVars, workerVars, handlerVars
    <3>. QED  BY <1>1, ApprovalFrame
  <2>5. CASE Environment
    <3>. UNCHANGED <<audit, plan, posted, wpc, hpc, op, hid, applies>>
      BY <2>5 DEF Environment, HealthChanges, CooldownExpires, FallsDue, ReminderFallsDue,
           storeVars, slackVars, workerVars, handlerVars
    <3>. QED  BY <1>1, ApprovalFrame
  <2>6. CASE Crash
    BY <1>1, <2>6, ApprovalCrash
  <2>. QED  BY <1>1, <2>1, <2>2, <2>3, <2>4, <2>5, <2>6 DEF Next
<1>2. ASSUME ApprovalInv, TypeInv', UNCHANGED vars PROVE ApprovalInv'
  BY <1>2, ApprovalFrame DEF vars, storeVars, slackVars, workerVars, handlerVars
<1>. QED  BY <1>1, <1>2, ApprovalInit, TypeInvHolds, PTL DEF Spec

\* A change reaches the cluster only for a proposal whose approval by a human
\* is in the audit log, and never for a needs-a-human notice: for any number of
\* incidents and listener threads, with racing clicks, exceptions and restarts.
THEOREM EveryWriteIsApproved == Spec => []ApprovedByHuman
<1>1. ApprovalInv => ApprovedByHuman
  BY DEF ApprovalInv
<1>. QED  BY <1>1, ApprovalInvHolds, PTL

-----------------------------------------------------------------------------
(* OutcomesAreBacked.                                                      *)

\* The parts of OutcomeInv that a step has to preserve.
Outcomes == DecisionsFollowAlerts /\ ListenersBackTheirResults /\ OutcomesAreBacked

LEMMA OutcomesInit == Init => Outcomes
BY DEF Init, StoreInit, HandlersInit, Outcomes, DecisionsFollowAlerts,
       ListenersBackTheirResults, OutcomesAreBacked, Decided, SettledStatuses

\* Outcomes does not read the rest of the state.
LEMMA OutcomesFrame ==
  ASSUME Outcomes, UNCHANGED <<status, plan, audit, wpc, hpc, hid, result, applies>>
  PROVE  Outcomes'
BY DEF Outcomes, DecisionsFollowAlerts, ListenersBackTheirResults, OutcomesAreBacked,
       Decided, Announced, Backed

\* The plan of a decided row, or of one a listener works on, does not change.
LEMMA OutcomesWorker ==
  ASSUME OutcomeInv, NEW i \in Ids, WorkerProgress(i) \/ WorkerDies(i),
         UNCHANGED <<observerVars, handlerVars, reminderVars>>
  PROVE  Outcomes'
<1>. USE DEF OutcomeInv, Outcomes, DecisionsFollowAlerts, ListenersBackTheirResults,
      OutcomesAreBacked, Decided, Announced, Backed, ApprovalInv, ListenersActOnAlerts, TypeInv,
      TypeOK, StoreTypeOK, WorkerTypeOK, HandlersTypeOK, ListenersHaveAnIncident, storeVars,
      handlerVars, Goto, SettledStatuses, OpenStatuses
<1>1. CASE AssessDecides(i)
  BY <1>1 DEF AssessDecides, Decide
<1>2. CASE AssessFallsThrough(i)
  BY <1>2 DEF AssessFallsThrough
<1>3. CASE Diagnose(i)
  BY <1>3 DEF Diagnose, Decide
<1>4. CASE Create(i)
  BY <1>4 DEF Create, create_row, InitialStatus
<1>5. CASE AuditProposal(i)
  BY <1>5 DEF AuditProposal, record
<1>6. CASE PostAlert(i)
  BY <1>6 DEF PostAlert
<1>7. CASE SetRef(i)
  BY <1>7 DEF SetRef, set_slack_ref
<1>8. CASE WorkerDies(i)
  BY <1>8 DEF WorkerDies
<1>. QED  BY <1>1, <1>2, <1>3, <1>4, <1>5, <1>6, <1>7, <1>8 DEF WorkerProgress

\* A listener settles on what it has seen: it gets to Verify with a write, and
\* to Undo with a patch.
LEMMA OutcomesListener ==
  ASSUME OutcomeInv, HandlerStep, UNCHANGED <<observerVars, reminderVars>>
  PROVE  Outcomes'
<1>. USE DEF OutcomeInv, Outcomes, DecisionsFollowAlerts, ListenersBackTheirResults,
      OutcomesAreBacked, Decided, Announced, Backed, ApprovalInv, ListenersActOnAlerts,
      ApprovalsAreAuditedFirst, Remediating, TypeInv, TypeOK, StoreTypeOK, HandlersTypeOK,
      ListenersHaveAnIncident, storeVars, workerVars, At, Return, SettledStatuses
<1>1. ASSUME NEW h \in Threads, NEW o \in ButtonIds, NEW i \in Ids, Click(h, o, i)
      PROVE  Outcomes'
  BY <1>1 DEF Click
<1>2. ASSUME NEW h \in Threads, HandlerProgress(h) \/ HandlerDies(h) PROVE Outcomes'
  <2>1. CASE Read(h)
    BY <2>1 DEF Read
  <2>2. CASE Mark(h)
    BY <2>2 DEF Mark, update_status, Marked, ButtonIds
  <2>3. CASE AuditDecision(h)
    BY <2>3 DEF AuditDecision, record
  <2>4. CASE Notify(h)
    BY <2>4 DEF Notify
  <2>5. CASE DryRun(h)
    BY <2>5 DEF DryRun, Conclude
  <2>6. CASE Apply(h)
    BY <2>6 DEF Apply, Conclude
  <2>7. CASE Verify(h)
    BY <2>7 DEF Verify, Conclude
  <2>8. CASE Undo(h)
    BY <2>8 DEF Undo, Conclude
  <2>9. CASE Settle(h)
    BY <2>9 DEF Settle, update_status
  <2>10. CASE AuditResult(h)
    BY <2>10 DEF AuditResult, record
  <2>11. CASE NotifyResult(h)
    BY <2>11 DEF NotifyResult
  <2>12. CASE HandlerDies(h)
    BY <2>12 DEF HandlerDies
  <2>. QED  BY <1>2, <2>1, <2>2, <2>3, <2>4, <2>5, <2>6, <2>7, <2>8, <2>9, <2>10, <2>11, <2>12
            DEF HandlerProgress
<1>. QED  BY <1>1, <1>2 DEF HandlerStep

\* The observer starts workers of incidents that nobody has decided.
LEMMA OutcomesObserver ==
  ASSUME OutcomeInv, ObserverStep, UNCHANGED <<handlerVars, reminderVars>>
  PROVE  Outcomes'
<1>1. ASSUME NEW i \in Ids, Alert(i) PROVE Outcomes'
  BY <1>1 DEF Alert, Goto, OutcomeInv, Outcomes, DecisionsFollowAlerts,
       ListenersBackTheirResults, OutcomesAreBacked, Decided, Announced, Backed, ApprovalInv,
       TypeInv, TypeOK, WorkerTypeOK, handlerVars
<1>2. CASE ~\E i \in Ids : Alert(i)
  <2>. UNCHANGED <<status, plan, audit, wpc, hpc, hid, result, applies>>
    BY <1>2 DEF ObserverStep, ObserverProgress, WatchEvent, CheckOpen, Suppressed, ObserverDies,
         storeVars, workerVars, handlerVars
  <2>. QED  BY OutcomesFrame DEF OutcomeInv, Outcomes
<1>. QED  BY <1>1, <1>2

LEMMA OutcomesCrash ==
  ASSUME OutcomeInv, Crash
  PROVE  Outcomes'
BY DEF Crash, OutcomeInv, Outcomes, DecisionsFollowAlerts, ListenersBackTheirResults,
       OutcomesAreBacked, Decided, Announced, Backed, ApprovalInv, TypeInv, TypeOK,
       WorkerTypeOK, HandlersTypeOK, storeVars

THEOREM OutcomeInvHolds == Spec => []OutcomeInv
<1>1. ASSUME OutcomeInv, Next PROVE Outcomes'
  <2>1. CASE WorkerStep /\ UNCHANGED <<observerVars, handlerVars, reminderVars>>
    BY <1>1, <2>1, OutcomesWorker DEF WorkerStep
  <2>2. CASE ObserverStep /\ UNCHANGED <<handlerVars, reminderVars>>
    BY <1>1, <2>2, OutcomesObserver
  <2>3. CASE HandlerStep /\ UNCHANGED <<observerVars, reminderVars>>
    BY <1>1, <2>3, OutcomesListener
  <2>4. CASE \/ ReminderStep /\ UNCHANGED <<observerVars, handlerVars>>
             \/ Environment
    <3>. UNCHANGED <<status, plan, audit, wpc, hpc, hid, result, applies>>
      BY <2>4 DEF ReminderStep, ReminderProgress, ListDue, PostReminder, MarkReminded,
           mark_reminded, ReminderFails, Environment, HealthChanges, CooldownExpires, FallsDue,
           ReminderFallsDue, storeVars, workerVars, handlerVars
    <3>. QED  BY <1>1, OutcomesFrame DEF OutcomeInv, Outcomes
  <2>5. CASE Crash
    BY <1>1, <2>5, OutcomesCrash
  <2>. QED  BY <1>1, <2>1, <2>2, <2>3, <2>4, <2>5 DEF Next
<1>2. ASSUME OutcomeInv, UNCHANGED vars PROVE Outcomes'
  BY <1>2, OutcomesFrame DEF OutcomeInv, Outcomes, vars, storeVars, workerVars, handlerVars
<1>3. OutcomeInv <=> ApprovalInv /\ Outcomes
  BY DEF OutcomeInv, Outcomes
<1>. QED  BY <1>1, <1>2, <1>3, OutcomesInit, ApprovalInvHolds, PTL DEF Spec

\* A settled row tells what happened, in whatever order the listeners that
\* settled it came: it was approved, "applied" and "rolled_back" stand for a
\* change that was written, and only a patch is ever undone.
THEOREM OutcomesAreTrue == Spec => []OutcomesAreBacked
<1>1. OutcomeInv => OutcomesAreBacked
  BY DEF OutcomeInv
<1>. QED  BY <1>1, OutcomeInvHolds, PTL
=============================================================================
