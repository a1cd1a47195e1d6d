----------------------------- MODULE TypeProofs -----------------------------
(***************************************************************************)
(* Type correctness of the composed process: TypeInv is inductive.  There  *)
(* is one lemma per thread, with one step per action.                      *)
(***************************************************************************)
EXTENDS Invariants, TLAPS

\* The initial states are typed.
LEMMA TypeInit == Init => TypeInv
BY StoreAssumption
   DEF Init, StoreInit, SlackInit, WorkerInit, ObserverInit, HandlersInit, ReminderInit,
       Watching, TypeInv, TypeOK, ListenersHaveAnIncident, WorkersHaveAPlan,
       ObserverHasAWorkload, StoreTypeOK, SlackTypeOK, WorkerTypeOK, ObserverTypeOK, HandlersTypeOK, ReminderTypeOK,
       ButtonIds, SettledStatuses, HandlerPCs, Reporting

\* Nothing happens to the types when nothing changes.
LEMMA TypeStutter == TypeInv /\ UNCHANGED vars => TypeInv'
BY DEF vars, storeVars, slackVars, workerVars, observerVars, handlerVars, reminderVars,
       TypeInv, TypeOK, ListenersHaveAnIncident, WorkersHaveAPlan, ObserverHasAWorkload,
       StoreTypeOK, SlackTypeOK, WorkerTypeOK, ObserverTypeOK, HandlersTypeOK, ReminderTypeOK

\* main.process.
LEMMA TypeWorker ==
  ASSUME TypeInv, NEW i \in Ids, WorkerProgress(i) \/ WorkerDies(i),
         UNCHANGED <<observerVars, handlerVars, reminderVars>>
  PROVE  TypeInv'
<1>. USE DEF TypeInv, TypeOK, StoreTypeOK, SlackTypeOK, WorkerTypeOK, ObserverTypeOK,
      HandlersTypeOK, ReminderTypeOK, ListenersHaveAnIncident, WorkersHaveAPlan,
      ObserverHasAWorkload,
      storeVars, slackVars, observerVars, handlerVars, reminderVars,
      Goto, Deciding, Reporting, Plans
<1>1. CASE AssessDecides(i)
  BY <1>1 DEF AssessDecides, Decide
<1>2. CASE AssessFallsThrough(i)
  BY <1>2 DEF AssessFallsThrough
<1>3. CASE Diagnose(i)
  BY <1>3 DEF Diagnose, Decide
<1>4. CASE Create(i)
  BY <1>4 DEF Create, create_row, InitialStatus, ApprovalStatus, OpenStatuses
<1>5. CASE AuditProposal(i)
  BY <1>5 DEF AuditProposal, record, ProposalEvent, AuditEvents, ApprovalStatus, OpenStatuses
<1>6. CASE PostAlert(i)
  BY <1>6 DEF PostAlert, chat_postMessage, AlertButtons, ApproveOrReject, ButtonIds
<1>7. CASE SetRef(i)
  BY <1>7 DEF SetRef, set_slack_ref
<1>8. CASE WorkerDies(i)
  BY <1>8 DEF WorkerDies
<1>. QED  BY <1>1, <1>2, <1>3, <1>4, <1>5, <1>6, <1>7, <1>8 DEF WorkerProgress

\* observer.run.
LEMMA TypeObserver ==
  ASSUME TypeInv, ObserverStep, UNCHANGED <<handlerVars, reminderVars>>
  PROVE  TypeInv'
<1>. USE DEF TypeInv, TypeOK, StoreTypeOK, SlackTypeOK, WorkerTypeOK, ObserverTypeOK,
      HandlersTypeOK, ReminderTypeOK, ListenersHaveAnIncident, WorkersHaveAPlan,
      ObserverHasAWorkload,
      storeVars, slackVars, workerVars, handlerVars, reminderVars, Watching
<1>1. ASSUME NEW w \in Workloads, WatchEvent(w) PROVE TypeInv'
  BY <1>1 DEF WatchEvent
<1>2. CASE CheckOpen
  BY <1>2 DEF CheckOpen
<1>3. CASE Suppressed
  BY <1>3 DEF Suppressed
<1>4. ASSUME NEW i \in Ids, Alert(i) PROVE TypeInv'
  BY <1>4 DEF Alert, Goto, Deciding, Reporting
<1>5. CASE ObserverDies
  BY <1>5 DEF ObserverDies
<1>. QED  BY <1>1, <1>2, <1>3, <1>4, <1>5 DEF ObserverStep, ObserverProgress

\* A click, and the listener it starts.
LEMMA TypeListener ==
  ASSUME TypeInv, HandlerStep, UNCHANGED <<observerVars, reminderVars>>
  PROVE  TypeInv'
<1>. USE DEF TypeInv, TypeOK, StoreTypeOK, SlackTypeOK, WorkerTypeOK, ObserverTypeOK,
      HandlersTypeOK, ReminderTypeOK, ListenersHaveAnIncident, WorkersHaveAPlan,
      ObserverHasAWorkload,
      storeVars, slackVars, workerVars, observerVars, reminderVars,
      At, Return, HandlerPCs, ButtonIds, SettledStatuses
<1>1. ASSUME NEW h \in Threads, NEW o \in ButtonIds, NEW i \in Ids, Click(h, o, i)
      PROVE  TypeInv'
  BY <1>1 DEF Click
<1>2. ASSUME NEW h \in Threads, HandlerProgress(h) \/ HandlerDies(h) PROVE TypeInv'
  <2>1. CASE Read(h)
    BY <2>1 DEF Read
  <2>2. CASE Mark(h)
    BY <2>2 DEF Mark, update_status, Marked, ApprovalStatus, OpenStatuses
  <2>3. CASE AuditDecision(h)
    BY <2>3 DEF AuditDecision, record, Marked, AuditEvents, ApprovalStatus, OpenStatuses
  <2>4. CASE Notify(h)
    BY <2>4 DEF Notify, chat_update
  <2>5. CASE DryRun(h)
    BY <2>5 DEF DryRun, Conclude
  <2>6. CASE Apply(h)
    BY <2>6 DEF Apply, Conclude
  <2>7. CASE Verify(h)
    BY <2>7 DEF Verify, Conclude
  <2>8. CASE Undo(h)
    BY <2>8 DEF Undo, Conclude
  <2>9. CASE Settle(h)
    BY <2>9 DEF Settle, update_status, ApprovalStatus
  <2>10. CASE AuditResult(h)
    BY <2>10 DEF AuditResult, record, AuditEvents, ApprovalStatus
  <2>11. CASE NotifyResult(h)
    BY <2>11 DEF NotifyResult, chat_update
  <2>12. CASE HandlerDies(h)
    BY <2>12 DEF HandlerDies
  <2>. QED  BY <1>2, <2>1, <2>2, <2>3, <2>4, <2>5, <2>6, <2>7, <2>8, <2>9, <2>10, <2>11, <2>12
            DEF HandlerProgress
<1>. QED  BY <1>1, <1>2 DEF HandlerStep

\* main.reminder_loop.
LEMMA TypeReminder ==
  ASSUME TypeInv, ReminderStep, UNCHANGED <<observerVars, handlerVars>>
  PROVE  TypeInv'
<1>. USE DEF TypeInv, TypeOK, StoreTypeOK, SlackTypeOK, WorkerTypeOK, ObserverTypeOK,
      HandlersTypeOK, ReminderTypeOK, ListenersHaveAnIncident, WorkersHaveAPlan,
      ObserverHasAWorkload,
      storeVars, slackVars, workerVars, observerVars, handlerVars
<1>1. CASE ListDue
  BY <1>1 DEF ListDue, list_due_reminders
<1>2. ASSUME NEW i \in Ids, PostReminder(i) PROVE TypeInv'
  BY <1>2 DEF PostReminder
<1>3. ASSUME NEW i \in Ids, MarkReminded(i) PROVE TypeInv'
  BY <1>3 DEF MarkReminded, mark_reminded
<1>4. CASE ReminderFails
  BY <1>4 DEF ReminderFails
<1>. QED  BY <1>1, <1>2, <1>3, <1>4 DEF ReminderStep, ReminderProgress

\* The cluster and the clock.
LEMMA TypeEnvironment == TypeInv /\ Environment => TypeInv'
<1>. SUFFICES ASSUME TypeInv, Environment PROVE TypeInv'
  OBVIOUS
<1>. USE DEF TypeInv, TypeOK, StoreTypeOK, SlackTypeOK, WorkerTypeOK, ObserverTypeOK,
      HandlersTypeOK, ReminderTypeOK, ListenersHaveAnIncident, WorkersHaveAPlan,
      ObserverHasAWorkload,
      storeVars, slackVars, workerVars, observerVars, handlerVars, reminderVars
<1>1. ASSUME NEW w \in Workloads, HealthChanges(w), UNCHANGED <<handlerVars, reminderVars>>
      PROVE  TypeInv'
  BY <1>1 DEF HealthChanges
<1>2. ASSUME NEW w \in Workloads, CooldownExpires(w), UNCHANGED <<handlerVars, reminderVars>>
      PROVE  TypeInv'
  BY <1>2 DEF CooldownExpires
<1>3. ASSUME NEW i \in Ids, FallsDue(i), UNCHANGED <<observerVars, handlerVars>>
      PROVE  TypeInv'
  BY <1>3 DEF FallsDue, ReminderFallsDue
<1>. QED  BY <1>1, <1>2, <1>3 DEF Environment

\* A restart leaves every thread with typed locals.
LEMMA TypeCrash == TypeInv /\ Crash => TypeInv'
BY DEF Crash, TypeInv, TypeOK, ListenersHaveAnIncident, WorkersHaveAPlan,
       ObserverHasAWorkload, StoreTypeOK, SlackTypeOK, WorkerTypeOK, ObserverTypeOK, HandlersTypeOK, ReminderTypeOK,
       storeVars, slackVars, Watching, HandlerPCs, ButtonIds, SettledStatuses,
       Deciding, Reporting

\* TypeInv holds in every reachable state.
THEOREM TypeInvHolds == Spec => []TypeInv
<1>1. ASSUME TypeInv, Next PROVE TypeInv'
  <2>1. CASE WorkerStep /\ UNCHANGED <<observerVars, handlerVars, reminderVars>>
    BY <1>1, <2>1, TypeWorker DEF WorkerStep
  <2>2. CASE ObserverStep /\ UNCHANGED <<handlerVars, reminderVars>>
    BY <1>1, <2>2, TypeObserver
  <2>3. CASE HandlerStep /\ UNCHANGED <<observerVars, reminderVars>>
    BY <1>1, <2>3, TypeListener
  <2>4. CASE ReminderStep /\ UNCHANGED <<observerVars, handlerVars>>
    BY <1>1, <2>4, TypeReminder
  <2>5. CASE Environment
    BY <1>1, <2>5, TypeEnvironment
  <2>6. CASE Crash
    BY <1>1, <2>6, TypeCrash
  <2>. QED  BY <1>1, <2>1, <2>2, <2>3, <2>4, <2>5, <2>6 DEF Next
<1>. QED  BY <1>1, TypeInit, TypeStutter, PTL DEF Spec

\* Every variable of the process, of the store and of the channel keeps to its
\* type, for any number of incidents, workloads and listener threads and under
\* every fault.
THEOREM TypeCorrect == Spec => []TypeOK
<1>1. TypeInv => TypeOK
  BY DEF TypeInv
<1>. QED  BY <1>1, TypeInvHolds, PTL
=============================================================================
