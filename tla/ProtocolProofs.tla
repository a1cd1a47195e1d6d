--------------------------- MODULE ProtocolProofs ---------------------------
(***************************************************************************)
(* The approval workflow implements ApprovalProtocol as long as two clicks *)
(* on one alert are not handled at once: ProtocolInv is inductive, and     *)
(* every step is a step of the protocol or leaves its variables alone.     *)
(***************************************************************************)
EXTENDS ApprovalProofs

LEMMA ProtocolInit == Init => ProtocolInv
<1>. SUFFICES ASSUME Init PROVE ProtocolInv
  OBVIOUS
<1>1. ApprovalInv
  BY ApprovalInit
<1>. QED
  BY <1>1 DEF Init, StoreInit, HandlersInit, ProtocolInv, OneListenerPerIncident,
       ListenersKnowTheStatus, ListenersKnowTheWrites, UnapprovedIsUnwritten,
       WrittenOnceIfApproved, Remediating

\* ProtocolInv does not read the rest of the state.
LEMMA ProtocolFrame ==
  ASSUME ProtocolInv, ApprovalInv', UNCHANGED <<status, hpc, op, hid, result, applies>>
  PROVE  ProtocolInv'
BY DEF ProtocolInv, OneListenerPerIncident, ListenersKnowTheStatus, ListenersKnowTheWrites,
       UnapprovedIsUnwritten, WrittenOnceIfApproved

\* No listener works on an incident that has no row yet.
LEMMA ProtocolCreate ==
  ASSUME ProtocolInv, ApprovalInv', NEW i \in Ids, Create(i), UNCHANGED handlerVars
  PROVE  ProtocolInv'
<1>1. \A h \in Threads : hpc[h] # "idle" => hid[h] # i
  BY DEF Create, ProtocolInv, ApprovalInv, ListenersActOnAlerts, Announced
<1>2. /\ status[i] = "none"
      /\ status' = [status EXCEPT ![i] = InitialStatus(plan[i])]
      /\ UNCHANGED <<hpc, op, hid, result, applies>>
  BY DEF Create, create_row, handlerVars
<1>3. InitialStatus(plan[i]) \in OpenStatuses
  BY DEF InitialStatus, OpenStatuses
<1>. QED
  BY <1>1, <1>2, <1>3
     DEF ProtocolInv, OneListenerPerIncident, ListenersKnowTheStatus, ListenersKnowTheWrites,
       UnapprovedIsUnwritten, WrittenOnceIfApproved, ApprovalInv, TypeInv, TypeOK, StoreTypeOK,
       OpenStatuses, SettledStatuses, Remediating

\* A listener that is alone on its incident can rely on what it read, although
\* it holds no lock.
LEMMA ProtocolListener ==
  ASSUME "concurrent_clicks" \notin Faults,
         ProtocolInv, ApprovalInv', HandlerStep, UNCHANGED <<observerVars, reminderVars>>
  PROVE  ProtocolInv'
<1>. USE DEF ProtocolInv, OneListenerPerIncident, ListenersKnowTheStatus,
      ListenersKnowTheWrites, UnapprovedIsUnwritten, WrittenOnceIfApproved, ApprovalInv,
      ApprovalsAreAuditedFirst, TypeInv, TypeOK, StoreTypeOK, HandlersTypeOK,
      ListenersHaveAnIncident, storeVars, At, Return, Remediating
<1>1. ASSUME NEW h \in Threads, NEW o \in ButtonIds, NEW i \in Ids, Click(h, o, i)
      PROVE  ProtocolInv'
  BY <1>1 DEF Click, Busy
<1>2. ASSUME NEW h \in Threads, HandlerProgress(h) \/ HandlerDies(h) PROVE ProtocolInv'
  <2>1. CASE Read(h)
    BY <2>1 DEF Read
  <2>2. CASE Mark(h)
    BY <2>2 DEF Mark, update_status, Marked, Expected, SettledStatuses, ButtonIds
  <2>3. CASE AuditDecision(h)
    BY <2>3 DEF AuditDecision, record
  <2>4. CASE Notify(h)
    <3>1. Marked("approve") = "approved"
      BY DEF Marked
    <3>. QED  BY <2>4, <3>1 DEF Notify
  <2>5. CASE DryRun(h)
    BY <2>5 DEF DryRun, Conclude
  <2>6. CASE Apply(h)
    BY <2>6 DEF Apply, Conclude
  <2>7. CASE Verify(h)
    BY <2>7 DEF Verify, Conclude
  <2>8. CASE Undo(h)
    BY <2>8 DEF Undo, Conclude
  <2>9. CASE Settle(h)
    BY <2>9 DEF Settle, update_status, SettledStatuses
  <2>10. CASE AuditResult(h)
    BY <2>10 DEF AuditResult, record
  <2>11. CASE NotifyResult(h)
    BY <2>11 DEF NotifyResult
  <2>12. CASE HandlerDies(h)
    BY <2>12 DEF HandlerDies
  <2>. QED  BY <1>2, <2>1, <2>2, <2>3, <2>4, <2>5, <2>6, <2>7, <2>8, <2>9, <2>10, <2>11, <2>12
            DEF HandlerProgress
<1>. QED  BY <1>1, <1>2 DEF HandlerStep

\* The steps of the other threads, of the cluster and of the clock, but for the
\* insert of a row.
ElsewhereStep ==
  \/ /\ \E i \in Ids : ~Create(i) /\ (WorkerProgress(i) \/ WorkerDies(i))
     /\ UNCHANGED handlerVars
  \/ ObserverStep /\ UNCHANGED handlerVars
  \/ ReminderStep /\ UNCHANGED handlerVars
  \/ Environment

LEMMA ElsewhereFrame ==
  ASSUME ElsewhereStep
  PROVE  UNCHANGED <<status, hpc, op, hid, result, applies>>
<1>. USE DEF storeVars, handlerVars
<1>1. ASSUME NEW i \in Ids, ~Create(i), WorkerProgress(i) \/ WorkerDies(i)
      PROVE  UNCHANGED status
  BY <1>1 DEF WorkerProgress, WorkerDies, AssessDecides, AssessFallsThrough, Diagnose, Decide,
       AuditProposal, record, PostAlert, SetRef, set_slack_ref
<1>2. ASSUME ObserverStep PROVE UNCHANGED status
  BY <1>2 DEF ObserverStep, ObserverProgress, WatchEvent, CheckOpen, Suppressed, Alert,
       ObserverDies
<1>3. ASSUME ReminderStep PROVE UNCHANGED status
  BY <1>3 DEF ReminderStep, ReminderProgress, ListDue, PostReminder, MarkReminded,
       mark_reminded, ReminderFails
<1>4. ASSUME Environment PROVE UNCHANGED <<status, handlerVars>>
  BY <1>4 DEF Environment, HealthChanges, CooldownExpires, FallsDue, ReminderFallsDue
<1>. QED  BY <1>1, <1>2, <1>3, <1>4 DEF ElsewhereStep

\* Next, seen from the protocol.
LEMMA NextCases ==
  ASSUME Next
  PROVE  \/ \E i \in Ids : Create(i) /\ UNCHANGED handlerVars
         \/ HandlerStep /\ UNCHANGED <<observerVars, reminderVars>>
         \/ ElsewhereStep
         \/ Crash
BY DEF Next, WorkerStep, ElsewhereStep

LEMMA ProtocolStep ==
  ASSUME "concurrent_clicks" \notin Faults, ProtocolInv, ApprovalInv', [Next]_vars
  PROVE  ProtocolInv'
<1>1. CASE UNCHANGED vars
  BY <1>1, ProtocolFrame DEF vars, storeVars, handlerVars
<1>2. CASE \E i \in Ids : Create(i) /\ UNCHANGED handlerVars
  BY <1>2, ProtocolCreate
<1>3. CASE HandlerStep /\ UNCHANGED <<observerVars, reminderVars>>
  BY <1>3, ProtocolListener
<1>4. CASE ElsewhereStep
  BY <1>4, ElsewhereFrame, ProtocolFrame
<1>5. CASE Crash
  BY <1>5 DEF Crash, ProtocolInv, OneListenerPerIncident, ListenersKnowTheStatus,
       ListenersKnowTheWrites, UnapprovedIsUnwritten, WrittenOnceIfApproved, Remediating,
       storeVars
<1>. QED  BY <1>1, <1>2, <1>3, <1>4, <1>5, NextCases

THEOREM ProtocolInvHolds ==
  ASSUME "concurrent_clicks" \notin Faults
  PROVE  Spec => []ProtocolInv
BY ProtocolInit, ProtocolStep, ApprovalInvHolds, PTL DEF Spec

\* A proposal is written at most once, never after a rejection, and a row that
\* claims a write had one: for any number of incidents and listener threads,
\* with exceptions and restarts, when clicks on one alert do not race.
THEOREM AtMostOneWrite ==
  ASSUME "concurrent_clicks" \notin Faults
  PROVE  Spec => []WrittenOnceIfApproved
<1>1. ProtocolInv => WrittenOnceIfApproved
  BY DEF ProtocolInv
<1>. QED  BY <1>1, ProtocolInvHolds, PTL

-----------------------------------------------------------------------------
(* The refinement.                                                         *)

LEMMA ProtocolSimulationInit == Init => Protocol!Init
BY DEF Init, StoreInit, HandlersInit, Protocol!Init

\* Insert of the row: Propose.
LEMMA CreateProposes ==
  ASSUME ProtocolInv, NEW i \in Ids, Create(i), UNCHANGED handlerVars
  PROVE  Protocol!Next
<1>1. Protocol!Propose(i)
  BY DEF Create, create_row, InitialStatus, Protocol!Propose, Protocol!Open, handlerVars
<1>. QED  BY <1>1 DEF Protocol!Next

\* Mark is Decide, the write of Apply is Write, Settle is Settle, and all else
\* that listeners do is invisible to the protocol.
LEMMA ListenerSimulation ==
  ASSUME ProtocolInv, HandlerStep
  PROVE  [Protocol!Next]_(Protocol!vars)
<1>. USE DEF ProtocolInv, ApprovalInv, TypeInv, TypeOK, StoreTypeOK, HandlersTypeOK,
      ListenersHaveAnIncident, storeVars
<1>1. ASSUME NEW h \in Threads, Mark(h) PROVE Protocol!Next
  <2>1. /\ hid[h] \in Ids
        /\ status[hid[h]] = Expected(op[h])
        /\ status' = [status EXCEPT ![hid[h]] = Marked(op[h])]
        /\ UNCHANGED applies
    BY <1>1 DEF Mark, update_status, ListenersKnowTheStatus
  <2>2. Marked(op[h]) \in Protocol!Decisions(Expected(op[h]))
    BY DEF Marked, Expected, Protocol!Decisions, ButtonIds
  <2>3. Expected(op[h]) \in Protocol!Open
    BY DEF Expected, Protocol!Open
  <2>4. Protocol!Decide(hid[h])
    BY <2>1, <2>2, <2>3 DEF Protocol!Decide
  <2>. QED  BY <2>1, <2>4 DEF Protocol!Next
<1>2. ASSUME NEW h \in Threads, Apply(h) PROVE [Protocol!Next]_(Protocol!vars)
  <2>1. /\ hid[h] \in Ids
        /\ status[hid[h]] = "approved"
        /\ applies[hid[h]] = 0
        /\ UNCHANGED status
    BY <1>2 DEF Apply, Conclude, ListenersKnowTheStatus, ListenersKnowTheWrites, Remediating
  <2>2. \/ UNCHANGED applies
        \/ applies' = [applies EXCEPT ![hid[h]] = 1]
    BY <1>2, <2>1 DEF Apply
  <2>3. UNCHANGED applies \/ Protocol!Write(hid[h])
    BY <2>1, <2>2 DEF Protocol!Write
  <2>. QED  BY <2>1, <2>3 DEF Protocol!Next, Protocol!vars
<1>3. ASSUME NEW h \in Threads, Settle(h) PROVE Protocol!Next
  <2>1. /\ hid[h] \in Ids
        /\ status[hid[h]] = "approved"
        /\ result[h] # "failed" => applies[hid[h]] = 1
        /\ status' = [status EXCEPT ![hid[h]] = result[h]]
        /\ UNCHANGED applies
    BY <1>3 DEF Settle, update_status, ListenersKnowTheStatus, ListenersKnowTheWrites,
         Remediating
  <2>2. result[h] \in {"applied", "failed", "rolled_back"}
    BY DEF SettledStatuses
  <2>3. Protocol!Settle(hid[h])
    BY <2>1, <2>2 DEF Protocol!Settle
  <2>. QED  BY <2>1, <2>3 DEF Protocol!Next
<1>4. CASE ~\E h \in Threads : Mark(h) \/ Apply(h) \/ Settle(h)
  <2>. UNCHANGED <<status, applies>>
    BY <1>4 DEF HandlerStep, Click, HandlerProgress, HandlerDies, Read, AuditDecision, Notify,
         DryRun, Verify, Undo, AuditResult, NotifyResult, Conclude, record
  <2>. QED  BY DEF Protocol!vars
<1>. QED  BY <1>1, <1>2, <1>3, <1>4

\* Every step of the process is a step of the protocol, or invisible to it.
LEMMA ProtocolSimulation ==
  ASSUME ProtocolInv, [Next]_vars
  PROVE  [Protocol!Next]_(Protocol!vars)
<1>1. CASE UNCHANGED vars
  BY <1>1 DEF vars, storeVars, handlerVars, Protocol!vars
<1>2. CASE \E i \in Ids : Create(i) /\ UNCHANGED handlerVars
  BY <1>2, CreateProposes
<1>3. CASE HandlerStep /\ UNCHANGED <<observerVars, reminderVars>>
  BY <1>3, ListenerSimulation
<1>4. CASE ElsewhereStep
  BY <1>4, ElsewhereFrame DEF Protocol!vars
<1>5. CASE Crash
  BY <1>5 DEF Crash, storeVars, Protocol!vars
<1>. QED  BY <1>1, <1>2, <1>3, <1>4, <1>5, NextCases

\* The rows and the cluster writes of KubeHeal follow ApprovalProtocol: with
\* exceptions and restarts, when clicks on one alert do not race.
THEOREM KubeHealImplementsProtocol ==
  ASSUME "concurrent_clicks" \notin Faults
  PROVE  Spec => ImplementsProtocol
<1>1. Spec => Protocol!Spec
  BY ProtocolInvHolds, ProtocolSimulationInit, ProtocolSimulation, PTL
     DEF Spec, Protocol!Spec
<1>. QED  BY <1>1 DEF ImplementsProtocol
=============================================================================
