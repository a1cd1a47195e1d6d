---------------------------- MODULE RecordProofs ----------------------------
(***************************************************************************)
(* The row, the alert and the audit log agree.  Whatever the faults, an    *)
(* open row can be answered on its alert (ActionableInv is inductive), a   *)
(* decided one gets no further writes, answers or reminders than those     *)
(* that were under way (RaceInv is, and two properties of the steps).  If  *)
(* no thread is lost half-way, every open row is on the channel (SeenInv)  *)
(* and every decision is closed (ClosingInv).                              *)
(***************************************************************************)
EXTENDS ApprovalProofs, FiniteSetTheorems

-----------------------------------------------------------------------------
(* OpenStaysActionable.                                                    *)

LEMMA ActionableInit == Init => ActionableInv
<1>. SUFFICES ASSUME Init PROVE ActionableInv
  OBVIOUS
<1>1. ApprovalInv
  BY ApprovalInit
<1>. QED
  BY <1>1 DEF Init, StoreInit, SlackInit, WorkerInit, HandlersInit, ActionableInv,
       RowsAreInsertedByWorkers, RefsFollowPosts, MarkedIsDecided, OpenIsAsPosted,
       OpenStaysActionable, IsOpen, OpenStatuses

\* An alert with the buttons it was posted with has one for its open row.
LEMMA ButtonsFit ==
  ASSUME NEW p \in Plans
  PROVE  \E o \in AlertButtons(p) : Expected(o) = InitialStatus(p)
<1>1. CASE p = "needs_human"
  BY <1>1 DEF AlertButtons, InitialStatus, Expected
<1>2. CASE p # "needs_human"
  BY <1>2 DEF AlertButtons, ApproveOrReject, InitialStatus, Expected
<1>. QED  BY <1>1, <1>2

\* So OpenStaysActionable follows from the other parts.
LEMMA ActionableFollows ==
  ASSUME RefsFollowPosts, OpenIsAsPosted, slackRef \subseteq Ids
  PROVE  OpenStaysActionable
<1>. SUFFICES ASSUME NEW i \in slackRef, IsOpen(i)
              PROVE  \E o \in buttons[i] : Expected(o) = status[i]
  BY DEF OpenStaysActionable
<1>1. plan[i] \in Plans /\ status[i] = InitialStatus(plan[i]) /\ buttons[i] = AlertButtons(plan[i])
  BY DEF RefsFollowPosts, OpenIsAsPosted
<1>. QED  BY <1>1, ButtonsFit

\* The parts of ActionableInv that a step has to preserve.
Parts == RowsAreInsertedByWorkers /\ RefsFollowPosts /\ MarkedIsDecided /\ OpenIsAsPosted

LEMMA PartsSuffice ==
  ASSUME ApprovalInv', Parts'
  PROVE  ActionableInv'
<1>1. (slackRef \subseteq Ids)'
  BY DEF ApprovalInv, TypeInv, TypeOK, StoreTypeOK
<1>2. OpenStaysActionable'
  BY <1>1, ActionableFollows, PTL DEF Parts
<1>. QED  BY <1>2 DEF ActionableInv, Parts

\* Parts does not read the rest of the state.
LEMMA PartsFrame ==
  ASSUME Parts, UNCHANGED <<status, plan, slackRef, buttons, posted, wpc, hpc, hid>>
  PROVE  Parts'
BY DEF Parts, RowsAreInsertedByWorkers, RefsFollowPosts, MarkedIsDecided, OpenIsAsPosted,
       Decided, IsOpen

\* A worker has no row before it inserts one, and no listener before it posts.
LEMMA PartsWorker ==
  ASSUME ActionableInv, ApprovalInv', NEW i \in Ids, WorkerProgress(i) \/ WorkerDies(i),
         UNCHANGED <<observerVars, handlerVars, reminderVars>>
  PROVE  Parts'
<1>. USE DEF ActionableInv, Parts, RowsAreInsertedByWorkers, RefsFollowPosts, MarkedIsDecided,
      OpenIsAsPosted, Decided, IsOpen, OpenStatuses, ApprovalInv, TypeInv, TypeOK, StoreTypeOK,
      SlackTypeOK, WorkerTypeOK, storeVars, slackVars, handlerVars, Goto, Deciding
<1>1. CASE AssessDecides(i)
  BY <1>1 DEF AssessDecides, Decide
<1>2. CASE AssessFallsThrough(i)
  BY <1>2 DEF AssessFallsThrough
<1>3. CASE Diagnose(i)
  BY <1>3 DEF Diagnose, Decide
<1>4. CASE Create(i)
  <2>1. plan[i] \in Plans /\ i \notin posted
    BY <1>4 DEF Create, WorkersHaveAPlan, PostsAreFinal, Announced
  <2>2. /\ status[i] = "none" /\ status' = [status EXCEPT ![i] = InitialStatus(plan[i])]
        /\ UNCHANGED <<plan, slackRef, buttons, posted, hpc, hid>>
        /\ wpc' = [wpc EXCEPT ![i] = "audit"]
    BY <1>4 DEF Create, create_row
  <2>3. \A h \in Threads : hpc[h] # "idle" => hid[h] # i
    BY <1>4 DEF Create, ListenersActOnAlerts, Announced
  <2>. QED  BY <2>1, <2>2, <2>3
<1>5. CASE AuditProposal(i)
  BY <1>5 DEF AuditProposal, record
<1>6. CASE PostAlert(i)
  BY <1>6 DEF PostAlert, chat_postMessage
<1>7. CASE SetRef(i)
  BY <1>7 DEF SetRef, set_slack_ref
<1>8. CASE WorkerDies(i)
  BY <1>8 DEF WorkerDies
<1>. QED  BY <1>1, <1>2, <1>3, <1>4, <1>5, <1>6, <1>7, <1>8 DEF WorkerProgress

\* A listener takes the buttons away, and writes a status, only of a row that
\* is decided already or by that write.
LEMMA PartsListener ==
  ASSUME ActionableInv, ApprovalInv', HandlerStep, UNCHANGED <<observerVars, reminderVars>>
  PROVE  Parts'
<1>. USE DEF ActionableInv, Parts, RowsAreInsertedByWorkers, RefsFollowPosts, MarkedIsDecided,
      OpenIsAsPosted, Decided, IsOpen, OpenStatuses, SettledStatuses, ApprovalInv, TypeInv,
      TypeOK, StoreTypeOK, SlackTypeOK, HandlersTypeOK, ListenersHaveAnIncident,
      ListenersActOnAlerts, Announced, storeVars, slackVars, workerVars, At, Return, Deciding
<1>1. ASSUME NEW h \in Threads, NEW o \in ButtonIds, NEW i \in Ids, Click(h, o, i)
      PROVE  Parts'
  BY <1>1 DEF Click
<1>2. ASSUME NEW h \in Threads, HandlerProgress(h) \/ HandlerDies(h) PROVE Parts'
  <2>1. CASE Read(h)
    BY <2>1 DEF Read
  <2>2. CASE Mark(h)
    <3>1. /\ h \in Threads /\ hid[h] \in Ids /\ op[h] \in ButtonIds /\ hpc[h] = "mark"
          /\ status' = [status EXCEPT ![hid[h]] = Marked(op[h])]
          /\ hpc' = [hpc EXCEPT ![h] = "audit"]
          /\ UNCHANGED <<plan, slackRef, buttons, posted, wpc, hid>>
      BY <2>2 DEF Mark, update_status
    <3>2. Marked(op[h]) \in {"approved", "rejected", "acknowledged"}
      BY <3>1 DEF Marked, ButtonIds
    <3>3. wpc[hid[h]] \in {"ref", "done"}
      BY <3>1
    <3>. QED  BY <3>1, <3>2, <3>3
  <2>3. CASE AuditDecision(h)
    BY <2>3 DEF AuditDecision, record
  <2>4. CASE Notify(h)
    BY <2>4 DEF Notify, chat_update
  <2>5. CASE DryRun(h)
    BY <2>5 DEF DryRun, Conclude
  <2>6. CASE Apply(h)
    BY <2>6 DEF Apply, Conclude
  <2>7. CASE Verify(h)
    BY <2>7 DEF Verify, Conclude
  <2>8. CASE Undo(h)
    BY <2>8 DEF Undo, Conclude
  <2>9. CASE Settle(h)
    BY <2>9 DEF Settle, update_status
  <2>10. CASE AuditResult(h)
    BY <2>10 DEF AuditResult, record
  <2>11. CASE NotifyResult(h)
    BY <2>11 DEF NotifyResult, chat_update
  <2>12. CASE HandlerDies(h)
    BY <2>12 DEF HandlerDies
  <2>. QED  BY <1>2, <2>1, <2>2, <2>3, <2>4, <2>5, <2>6, <2>7, <2>8, <2>9, <2>10, <2>11, <2>12
            DEF HandlerProgress
<1>. QED  BY <1>1, <1>2 DEF HandlerStep

\* The observer only starts a worker, for an incident that has no row.
LEMMA PartsObserver ==
  ASSUME ActionableInv, ApprovalInv', ObserverStep, UNCHANGED <<handlerVars, reminderVars>>
  PROVE  Parts'
<1>1. ASSUME NEW i \in Ids, Alert(i) PROVE Parts'
  BY <1>1 DEF Alert, Goto, ActionableInv, Parts, RowsAreInsertedByWorkers, RefsFollowPosts,
       MarkedIsDecided, OpenIsAsPosted, Decided, IsOpen, ApprovalInv, TypeInv, TypeOK,
       WorkerTypeOK, Deciding, slackVars, handlerVars
<1>2. CASE ~\E i \in Ids : Alert(i)
  <2>. UNCHANGED <<status, plan, slackRef, buttons, posted, wpc, hpc, hid>>
    BY <1>2 DEF ObserverStep, ObserverProgress, WatchEvent, CheckOpen, Suppressed, ObserverDies,
         storeVars, slackVars, workerVars, handlerVars
  <2>. QED  BY PartsFrame DEF ActionableInv, Parts
<1>. QED  BY <1>1, <1>2

LEMMA PartsCrash ==
  ASSUME ActionableInv, ApprovalInv', Crash
  PROVE  Parts'
BY DEF Crash, ActionableInv, Parts, RowsAreInsertedByWorkers, RefsFollowPosts, MarkedIsDecided,
       OpenIsAsPosted, Decided, IsOpen, ApprovalInv, TypeInv, TypeOK, WorkerTypeOK,
       HandlersTypeOK, Deciding, storeVars, slackVars

THEOREM ActionableInvHolds == Spec => []ActionableInv
<1>1. ASSUME ActionableInv, ApprovalInv', Next PROVE Parts'
  <2>1. CASE WorkerStep /\ UNCHANGED <<observerVars, handlerVars, reminderVars>>
    BY <1>1, <2>1, PartsWorker DEF WorkerStep
  <2>2. CASE ObserverStep /\ UNCHANGED <<handlerVars, reminderVars>>
    BY <1>1, <2>2, PartsObserver
  <2>3. CASE HandlerStep /\ UNCHANGED <<observerVars, reminderVars>>
    BY <1>1, <2>3, PartsListener
  <2>4. CASE ReminderStep /\ UNCHANGED <<observerVars, handlerVars>>
    <3>. UNCHANGED <<status, plan, slackRef, buttons, posted, wpc, hpc, hid>>
      BY <2>4 DEF ReminderStep, ReminderProgress, ListDue, PostReminder, MarkReminded,
           mark_reminded, ReminderFails, storeVars, slackVars, workerVars, handlerVars
    <3>. QED  BY <1>1, PartsFrame DEF ActionableInv, Parts
  <2>5. CASE Environment
    <3>. UNCHANGED <<status, plan, slackRef, buttons, posted, wpc, hpc, hid>>
      BY <2>5 DEF Environment, HealthChanges, CooldownExpires, FallsDue, ReminderFallsDue,
           storeVars, slackVars, workerVars, handlerVars
    <3>. QED  BY <1>1, PartsFrame DEF ActionableInv, Parts
  <2>6. CASE Crash
    BY <1>1, <2>6, PartsCrash
  <2>. QED  BY <1>1, <2>1, <2>2, <2>3, <2>4, <2>5, <2>6 DEF Next
<1>2. ASSUME ActionableInv, UNCHANGED vars PROVE Parts'
  BY <1>2, PartsFrame
     DEF ActionableInv, Parts, vars, storeVars, slackVars, workerVars, handlerVars
<1>3. ASSUME ActionableInv, ApprovalInv', [Next]_vars PROVE ActionableInv'
  BY <1>1, <1>2, <1>3, PartsSuffice
<1>. QED  BY <1>3, ActionableInit, ApprovalInvHolds, PTL DEF Spec

\* An open row whose alert the reminders point to can be answered there: for
\* any number of incidents and listeners, with racing clicks, exceptions,
\* restarts and diagnoses of any length.
THEOREM OpenRowsCanBeAnswered == Spec => []OpenStaysActionable
<1>1. ActionableInv => OpenStaysActionable
  BY DEF ActionableInv
<1>. QED  BY <1>1, ActionableInvHolds, PTL

-----------------------------------------------------------------------------
(* RacesAreBounded.                                                        *)

\* The parts of RaceInv that a step has to preserve.
Races == UndecidedIsUnwritten /\ WritesAreLimited

LEMMA RacesInit == Init => Races
BY DEF Init, StoreInit, HandlersInit, Races, UndecidedIsUnwritten, WritesAreLimited, Decided

\* RacesAreBounded follows from the other parts.
LEMMA RacesFollow ==
  ASSUME IsFiniteSet(Threads), TypeInv, Races
  PROVE  RacesAreBounded
<1>. SUFFICES ASSUME NEW i \in Ids PROVE applies[i] <= Cardinality(Threads)
  BY DEF RacesAreBounded
<1>1. applies[i] \in Nat
  BY DEF TypeInv, TypeOK, HandlersTypeOK
<1>2. IsFiniteSet(MayWrite(i)) /\ Cardinality(MayWrite(i)) \in Nat /\ Cardinality(Threads) \in Nat
  BY FS_Subset, FS_CardinalityType DEF MayWrite
<1>3. CASE Decided(i)
  BY <1>1, <1>2, <1>3 DEF Races, WritesAreLimited
<1>4. CASE ~Decided(i)
  BY <1>1, <1>2, <1>4 DEF Races, UndecidedIsUnwritten
<1>. QED  BY <1>3, <1>4

\* A step that neither decides i nor writes for it, and after which nobody may
\* write for it who might not before, keeps the limit of i ...
LEMMA LimitShrinks ==
  ASSUME IsFiniteSet(Threads), TypeInv, TypeInv', NEW i \in Ids,
         applies[i] + Cardinality(MayWrite(i)) <= Cardinality(Threads),
         applies'[i] = applies[i],
         MayWrite(i)' \subseteq MayWrite(i)
  PROVE  applies'[i] + Cardinality(MayWrite(i)') <= Cardinality(Threads)
<1>1. applies[i] \in Nat
  BY DEF TypeInv, TypeOK, HandlersTypeOK
<1>2. IsFiniteSet(MayWrite(i))
  BY FS_Subset DEF MayWrite
<1>3. /\ Cardinality(MayWrite(i)') <= Cardinality(MayWrite(i))
      /\ Cardinality(MayWrite(i)) \in Nat /\ Cardinality(MayWrite(i)') \in Nat
  BY <1>2, FS_Subset, FS_CardinalityType
<1>4. Cardinality(Threads) \in Nat
  BY FS_CardinalityType
<1>. QED  BY <1>1, <1>3, <1>4

\* ... and so all limits, if this is true of every row that is decided after it.
LEMMA RacesFrame ==
  ASSUME IsFiniteSet(Threads), TypeInv, TypeInv', Races,
         \A i \in Ids :
           /\ Decided(i)' <=> Decided(i)
           /\ applies'[i] = applies[i]
           /\ Decided(i) => MayWrite(i)' \subseteq MayWrite(i)
  PROVE  Races'
<1>1. UndecidedIsUnwritten'
  BY DEF Races, UndecidedIsUnwritten
<1>2. ASSUME NEW i \in Ids, Decided(i)'
      PROVE  applies'[i] + Cardinality(MayWrite(i)') <= Cardinality(Threads)
  <2>1. applies[i] + Cardinality(MayWrite(i)) <= Cardinality(Threads)
    BY <1>2 DEF Races, WritesAreLimited
  <2>. QED  BY <1>2, <2>1, LimitShrinks
<1>3. WritesAreLimited'
  BY <1>2 DEF WritesAreLimited
<1>. QED  BY <1>1, <1>3 DEF Races

\* The first decision: nothing is written yet, and at most all threads may.
LEMMA RacesMark ==
  ASSUME IsFiniteSet(Threads), TypeInv, TypeInv', Races, NEW h \in Threads,
         NEW i \in Ids, hid[h] = i, Mark(h)
  PROVE  Races'
<1>1. /\ hpc[h] = "mark"
      /\ status' = [status EXCEPT ![i] = Marked(op[h])]
      /\ hpc' = [hpc EXCEPT ![h] = "audit"]
      /\ UNCHANGED <<hid, applies>>
  BY DEF Mark, update_status, At
<1>2. Marked(op[h]) \notin OpenStatuses \cup {"none"}
  BY DEF Marked, OpenStatuses, ButtonIds, TypeInv, TypeOK, HandlersTypeOK
<1>3. Decided(i)' /\ \A j \in Ids \ {i} : Decided(j)' <=> Decided(j)
  BY <1>1, <1>2 DEF Decided, TypeInv, TypeOK, StoreTypeOK
<1>4. \A j \in Ids : MayWrite(j)' \subseteq MayWrite(j)
  BY <1>1 DEF MayWrite, TypeInv, TypeOK, HandlersTypeOK
<1>5. CASE Decided(i)
  BY <1>1, <1>3, <1>4, <1>5, RacesFrame
<1>6. CASE ~Decided(i)
  <2>1. UndecidedIsUnwritten'
    BY <1>1, <1>3 DEF Races, UndecidedIsUnwritten
  <2>2. applies'[i] + Cardinality(MayWrite(i)') <= Cardinality(Threads)
    <3>1. applies'[i] = 0
      BY <1>1, <1>6 DEF Races, UndecidedIsUnwritten
    <3>2. MayWrite(i)' \subseteq Threads
      BY DEF MayWrite
    <3>3. /\ Cardinality(MayWrite(i)') <= Cardinality(Threads)
          /\ Cardinality(MayWrite(i)') \in Nat /\ Cardinality(Threads) \in Nat
      BY <3>2, FS_Subset, FS_CardinalityType
    <3>. QED  BY <3>1, <3>3
  <2>3. ASSUME NEW j \in Ids \ {i}, Decided(j)'
        PROVE  applies'[j] + Cardinality(MayWrite(j)') <= Cardinality(Threads)
    <3>1. applies[j] + Cardinality(MayWrite(j)) <= Cardinality(Threads)
      BY <1>3, <2>3 DEF Races, WritesAreLimited
    <3>. QED  BY <1>1, <1>4, <3>1, LimitShrinks
  <2>4. WritesAreLimited'
    BY <2>2, <2>3 DEF WritesAreLimited
  <2>. QED  BY <2>1, <2>4 DEF Races
<1>. QED  BY <1>5, <1>6

\* A listener that writes is one less that may.
LEMMA RacesApply ==
  ASSUME IsFiniteSet(Threads), TypeInv, TypeInv', MarkedIsDecided, Races,
         NEW h \in Threads, NEW i \in Ids, hid[h] = i, Apply(h)
  PROVE  Races'
<1>1. /\ hpc[h] = "apply"
      /\ applies' = applies \/ applies' = [applies EXCEPT ![i] = @ + 1]
      /\ hpc' = [hpc EXCEPT ![h] = "verify"] \/ hpc' = [hpc EXCEPT ![h] = "settle"]
      /\ UNCHANGED <<hid, status>>
  BY DEF Apply, Conclude, At, storeVars
<1>2. \A j \in Ids : Decided(j)' <=> Decided(j)
  BY <1>1 DEF Decided
<1>3. MayWrite(i)' = MayWrite(i) \ {h} /\ h \in MayWrite(i)
  BY <1>1 DEF MayWrite, TypeInv, TypeOK, HandlersTypeOK
<1>4. \A j \in Ids \ {i} : MayWrite(j)' \subseteq MayWrite(j) /\ applies'[j] = applies[j]
  BY <1>1 DEF MayWrite, TypeInv, TypeOK, HandlersTypeOK
<1>5. Decided(i)
  BY <1>1 DEF MarkedIsDecided
<1>6. UndecidedIsUnwritten'
  BY <1>2, <1>4, <1>5 DEF Races, UndecidedIsUnwritten
<1>7. applies'[i] + Cardinality(MayWrite(i)') <= Cardinality(Threads)
  <2>1. applies[i] \in Nat /\ (applies'[i] = applies[i] \/ applies'[i] = applies[i] + 1)
    BY <1>1 DEF TypeInv, TypeOK, HandlersTypeOK
  <2>2. IsFiniteSet(MayWrite(i))
    BY FS_Subset DEF MayWrite
  <2>3. Cardinality(MayWrite(i)') = Cardinality(MayWrite(i)) - 1
    BY <1>3, <2>2, FS_RemoveElement
  <2>4. Cardinality(MayWrite(i)) \in Nat /\ Cardinality(Threads) \in Nat
    BY <2>2, FS_CardinalityType
  <2>5. applies[i] + Cardinality(MayWrite(i)) <= Cardinality(Threads)
    BY <1>1, <1>5 DEF Races, WritesAreLimited
  <2>. QED  BY <2>1, <2>3, <2>4, <2>5
<1>8. ASSUME NEW j \in Ids \ {i}, Decided(j)'
      PROVE  applies'[j] + Cardinality(MayWrite(j)') <= Cardinality(Threads)
  <2>1. applies[j] + Cardinality(MayWrite(j)) <= Cardinality(Threads)
    BY <1>2, <1>8 DEF Races, WritesAreLimited
  <2>. QED  BY <1>4, <2>1, LimitShrinks
<1>9. WritesAreLimited'
  BY <1>7, <1>8 DEF WritesAreLimited
<1>. QED  BY <1>6, <1>9 DEF Races

\* Any other listener step: only Read lets a listener join, and only of a row
\* that is open.
LEMMA RacesListener ==
  ASSUME IsFiniteSet(Threads), ActionableInv, TypeInv', Races, HandlerStep
  PROVE  Races'
<1>1. TypeInv /\ MarkedIsDecided
  BY DEF ActionableInv, ApprovalInv
<1>. USE DEF Decided, MayWrite, TypeInv, TypeOK, StoreTypeOK, HandlersTypeOK,
      ListenersHaveAnIncident, storeVars, At, Return
<1>2. ASSUME NEW h \in Threads, NEW o \in ButtonIds, NEW i \in Ids, Click(h, o, i)
      PROVE  Races'
  <2>1. \A j \in Ids : /\ Decided(j)' <=> Decided(j)
                       /\ applies'[j] = applies[j]
                       /\ MayWrite(j)' \subseteq MayWrite(j)
    BY <1>1, <1>2 DEF Click
  <2>. QED  BY <1>1, <2>1, RacesFrame
<1>3. ASSUME NEW h \in Threads, HandlerProgress(h) \/ HandlerDies(h),
             ~Mark(h), ~Apply(h)
      PROVE  Races'
  <2>. SUFFICES \A j \in Ids : /\ Decided(j)' <=> Decided(j)
                               /\ applies'[j] = applies[j]
                               /\ Decided(j) => MayWrite(j)' \subseteq MayWrite(j)
    BY <1>1, RacesFrame
  <2>1. CASE Read(h)
    BY <1>1, <2>1 DEF Read, Expected, OpenStatuses
  <2>2. CASE AuditDecision(h)
    BY <1>1, <2>2 DEF AuditDecision, record
  <2>3. CASE Notify(h)
    BY <1>1, <2>3 DEF Notify
  <2>4. CASE DryRun(h)
    BY <1>1, <2>4 DEF DryRun, Conclude
  <2>5. CASE Verify(h)
    BY <1>1, <2>5 DEF Verify, Conclude
  <2>6. CASE Undo(h)
    BY <1>1, <2>6 DEF Undo, Conclude
  <2>7. CASE Settle(h)
    BY <1>1, <2>7 DEF Settle, update_status, MarkedIsDecided, SettledStatuses, OpenStatuses
  <2>8. CASE AuditResult(h)
    BY <1>1, <2>8 DEF AuditResult, record
  <2>9. CASE NotifyResult(h)
    BY <1>1, <2>9 DEF NotifyResult
  <2>10. CASE HandlerDies(h)
    BY <1>1, <2>10 DEF HandlerDies
  <2>. QED  BY <1>3, <2>1, <2>2, <2>3, <2>4, <2>5, <2>6, <2>7, <2>8, <2>9, <2>10
            DEF HandlerProgress
<1>4. \A h \in Threads : Mark(h) \/ Apply(h) => hid[h] \in Ids
  BY <1>1 DEF Mark, Apply
<1>. QED  BY <1>1, <1>2, <1>3, <1>4, RacesMark, RacesApply DEF HandlerStep

\* Nobody else decides, or writes to the cluster.
LEMMA RacesElsewhere ==
  ASSUME IsFiniteSet(Threads), ActionableInv, TypeInv', Races, Next, ~HandlerStep
  PROVE  Races'
<1>1. TypeInv
  BY DEF ActionableInv, ApprovalInv
<1>. SUFFICES \A j \in Ids : /\ Decided(j)' <=> Decided(j)
                             /\ applies'[j] = applies[j]
                             /\ Decided(j) => MayWrite(j)' \subseteq MayWrite(j)
  BY <1>1, RacesFrame
<1>2. ASSUME NEW i \in Ids, Create(i), UNCHANGED handlerVars
      PROVE  \A j \in Ids : /\ Decided(j)' <=> Decided(j)
                            /\ applies'[j] = applies[j]
                            /\ MayWrite(j)' = MayWrite(j)
  BY <1>1, <1>2 DEF Create, create_row, InitialStatus, Decided, OpenStatuses, MayWrite,
       handlerVars, TypeInv, TypeOK, StoreTypeOK
<1>3. CASE Crash
  BY <1>3 DEF Crash, Decided, MayWrite, storeVars
<1>4. CASE ~Crash /\ ~\E i \in Ids : Create(i)
  <2>. UNCHANGED <<status, hpc, hid, applies>>
    BY <1>4 DEF Next, WorkerStep, WorkerProgress, AssessDecides, AssessFallsThrough, Diagnose,
         Decide, AuditProposal, record, PostAlert, SetRef, set_slack_ref, WorkerDies,
         ObserverStep, ObserverProgress, WatchEvent, CheckOpen, Alert, Suppressed, ObserverDies,
         ReminderStep, ReminderProgress, ListDue, PostReminder, MarkReminded, mark_reminded,
         ReminderFails, Environment, HealthChanges, CooldownExpires, FallsDue,
         ReminderFallsDue, storeVars, handlerVars
  <2>. QED  BY DEF Decided, MayWrite
<1>5. CASE ~Crash /\ \E i \in Ids : Create(i)
  <2>. UNCHANGED handlerVars
    BY <1>5 DEF Next, ObserverStep, ReminderStep, Environment
  <2>. QED  BY <1>2, <1>5
<1>. QED  BY <1>3, <1>4, <1>5

THEOREM RaceInvHolds ==
  ASSUME IsFiniteSet(Threads)
  PROVE  Spec => []RaceInv
<1>1. ASSUME ActionableInv, TypeInv', Races, Next PROVE Races'
  BY <1>1, RacesListener, RacesElsewhere
<1>2. ASSUME Races, UNCHANGED vars PROVE Races'
  BY <1>2 DEF Races, UndecidedIsUnwritten, WritesAreLimited, Decided, MayWrite, vars, storeVars,
       handlerVars
<1>3. ActionableInv /\ TypeInv /\ Races => RaceInv
  BY RacesFollow DEF ActionableInv, Races, RaceInv
<1>. QED  BY <1>1, <1>2, <1>3, RacesInit, TypeInvHolds, ActionableInvHolds, PTL DEF Spec

\* A proposal is written to the cluster at most once by each listener thread:
\* only clicks that looked at the row before the first decision get through.
\* (Bolt's pool is finite.)
THEOREM RacesAreLimited ==
  ASSUME IsFiniteSet(Threads)
  PROVE  Spec => []RacesAreBounded
<1>1. RaceInv => RacesAreBounded
  BY DEF RaceInv
<1>. QED  BY <1>1, RaceInvHolds, PTL

-----------------------------------------------------------------------------
(* NoIncidentGoesUnseen.                                                   *)

\* A worker that no fault stops ends with its reference stored.
LEMMA RefsAreStored ==
  ASSUME "exception" \notin Faults, "crash" \notin Faults,
         ActionableInv, WorkersStoreTheRef, Next
  PROVE  WorkersStoreTheRef'
<1>. USE DEF WorkersStoreTheRef, ActionableInv, ApprovalInv, TypeInv, TypeOK, WorkerTypeOK,
      storeVars, workerVars
<1>1. ASSUME NEW i \in Ids, SetRef(i) PROVE WorkersStoreTheRef'
  BY <1>1 DEF SetRef, set_slack_ref, Goto
<1>2. ASSUME NEW i \in Ids, WorkerProgress(i), ~SetRef(i) PROVE WorkersStoreTheRef'
  BY <1>2 DEF WorkerProgress, AssessDecides, AssessFallsThrough, Diagnose, Decide, Create,
       create_row, AuditProposal, record, PostAlert, Goto
<1>3. ASSUME NEW i \in Ids, Alert(i) PROVE WorkersStoreTheRef'
  BY <1>3 DEF Alert, Goto
<1>4. CASE ~\E i \in Ids : WorkerProgress(i) \/ Alert(i)
  <2>. UNCHANGED <<wpc, slackRef>>
    BY <1>4 DEF Next, WorkerStep, WorkerDies, ObserverStep, ObserverProgress, WatchEvent,
         CheckOpen, Suppressed, ObserverDies, HandlerStep, Click, HandlerProgress, Read, Mark,
         update_status, AuditDecision, record, Notify, DryRun, Apply, Verify, Undo, Conclude,
         Settle, AuditResult, NotifyResult, HandlerDies, ReminderStep, ReminderProgress, ListDue,
         PostReminder, MarkReminded, mark_reminded, ReminderFails, Environment, HealthChanges,
         CooldownExpires, FallsDue, ReminderFallsDue, Crash
  <2>. QED  OBVIOUS
<1>. QED  BY <1>1, <1>2, <1>3, <1>4

THEOREM SeenInvHolds ==
  ASSUME "exception" \notin Faults, "crash" \notin Faults
  PROVE  Spec => []SeenInv
<1>1. ASSUME ActionableInv, WorkersStoreTheRef, Next PROVE WorkersStoreTheRef'
  BY <1>1, RefsAreStored
<1>2. ASSUME WorkersStoreTheRef, UNCHANGED vars PROVE WorkersStoreTheRef'
  BY <1>2 DEF WorkersStoreTheRef, vars, storeVars, workerVars
<1>3. Init => WorkersStoreTheRef
  BY DEF Init, WorkerInit, WorkersStoreTheRef
<1>4. ActionableInv /\ WorkersStoreTheRef => SeenInv
  BY DEF SeenInv, ActionableInv, WorkersStoreTheRef, NoIncidentGoesUnseen, OpenStaysActionable
<1>. QED  BY <1>1, <1>2, <1>3, <1>4, ActionableInvHolds, PTL DEF Spec

\* Every incident that a worker has finished and nobody has decided is on the
\* channel, with a button that works and a reference for its reminders, if
\* threads are not lost to exceptions or crashes.
THEOREM IncidentsAreSeen ==
  ASSUME "exception" \notin Faults, "crash" \notin Faults
  PROVE  Spec => []NoIncidentGoesUnseen
<1>1. SeenInv => NoIncidentGoesUnseen
  BY DEF SeenInv
<1>. QED  BY <1>1, SeenInvHolds, PTL

-----------------------------------------------------------------------------
(* DecisionsAreClosed.                                                     *)

\* The parts of ClosingInv that a step has to preserve.
Closing == LastWriterAudits /\ ApprovedIsHandled /\ DecidedLosesButtons

LEMMA ClosingInit == Init => Closing
BY DEF Init, StoreInit, Closing, LastWriterAudits, ApprovedIsHandled, DecidedLosesButtons,
       Decided

\* The last writer of a status is busy until it is in the audit log, whoever
\* settles an approval and whoever removes the buttons until that is done.
LEMMA ClosingFollows ==
  ASSUME StoreTypeOK, Closing
  PROVE  DecisionsAreClosed
<1>. SUFFICES ASSUME NEW i \in Ids, Decided(i), ~Busy(i) PROVE Closed(i)
  BY DEF DecisionsAreClosed
<1>1. <<i, status[i]>> \in audit
  BY DEF Closing, LastWriterAudits, Busy
<1>2. status[i] # "approved"
  BY DEF Closing, ApprovedIsHandled, Busy
<1>3. buttons[i] = {}
  BY DEF Closing, DecidedLosesButtons, Busy
<1>4. status[i] \in SettledStatuses \cup {"rejected", "acknowledged"}
  BY <1>2 DEF StoreTypeOK, ApprovalStatus, Decided
<1>. QED  BY <1>1, <1>3, <1>4 DEF Closed

\* Closing does not read the rest of the state.
LEMMA ClosingFrame ==
  ASSUME Closing, UNCHANGED <<status, audit, buttons, hpc, op, hid, result>>
  PROVE  Closing'
BY DEF Closing, LastWriterAudits, ApprovedIsHandled, DecidedLosesButtons, Decided

\* A worker inserts an open row, posts before the row can be decided, and only
\* adds to the audit log.
LEMMA ClosingWorker ==
  ASSUME OutcomeInv, Closing, NEW i \in Ids, WorkerProgress(i) \/ WorkerDies(i),
         UNCHANGED <<observerVars, handlerVars, reminderVars>>
  PROVE  Closing'
<1>. USE DEF Closing, LastWriterAudits, ApprovedIsHandled, DecidedLosesButtons, Decided,
      OutcomeInv, ApprovalInv, TypeInv, TypeOK, StoreTypeOK, SlackTypeOK, storeVars, slackVars,
      handlerVars
<1>1. CASE Create(i)
  <2>1. /\ status' = [status EXCEPT ![i] = InitialStatus(plan[i])]
        /\ UNCHANGED <<audit, buttons, hpc, op, hid, result>>
    BY <1>1 DEF Create, create_row
  <2>2. InitialStatus(plan[i]) \in OpenStatuses
    BY DEF InitialStatus, OpenStatuses
  <2>. QED  BY <2>1, <2>2 DEF OpenStatuses
<1>2. CASE AuditProposal(i)
  BY <1>2 DEF AuditProposal, record
<1>3. CASE PostAlert(i)
  <2>1. ~Decided(i)
    BY <1>3 DEF PostAlert, DecisionsFollowAlerts, Announced
  <2>. QED  BY <1>3, <2>1 DEF PostAlert, chat_postMessage
<1>4. CASE ~Create(i) /\ ~AuditProposal(i) /\ ~PostAlert(i)
  <2>. UNCHANGED <<status, audit, buttons, hpc, op, hid, result>>
    BY <1>4 DEF WorkerProgress, AssessDecides, AssessFallsThrough, Diagnose, Decide,
         SetRef, set_slack_ref, WorkerDies
  <2>. QED  BY ClosingFrame
<1>. QED  BY <1>1, <1>2, <1>3, <1>4

\* Whoever overwrites a status is the one to audit it, and nobody who has
\* something to audit, to settle or to take away returns before.
LEMMA ClosingListener ==
  ASSUME "exception" \notin Faults,
         OutcomeInv, MarkedIsDecided, Closing, HandlerStep, UNCHANGED <<observerVars, reminderVars>>
  PROVE  Closing'
<1>. USE DEF Closing, LastWriterAudits, ApprovedIsHandled, DecidedLosesButtons, Decided,
      OutcomeInv, ApprovalInv, TypeInv, TypeOK, StoreTypeOK, SlackTypeOK, HandlersTypeOK,
      ListenersHaveAnIncident, storeVars, slackVars, At, Return
<1>1. ASSUME NEW h \in Threads, NEW o \in ButtonIds, NEW i \in Ids, Click(h, o, i)
      PROVE  Closing'
  BY <1>1 DEF Click
<1>2. ASSUME NEW h \in Threads, HandlerProgress(h) \/ HandlerDies(h) PROVE Closing'
  <2>1. CASE Read(h)
    BY <2>1 DEF Read
  <2>2. CASE Mark(h)
    BY <2>2 DEF Mark, update_status, Marked, ButtonIds
  <2>3. CASE AuditDecision(h)
    BY <2>3 DEF AuditDecision, record
  <2>4. CASE Notify(h)
    BY <2>4 DEF Notify, chat_update
  <2>5. CASE DryRun(h)
    BY <2>5 DEF DryRun, Conclude
  <2>6. CASE Apply(h)
    BY <2>6 DEF Apply, Conclude
  <2>7. CASE Verify(h)
    BY <2>7 DEF Verify, Conclude
  <2>8. CASE Undo(h)
    BY <2>8 DEF Undo, Conclude
  <2>9. CASE Settle(h)
    <3>1. /\ hid[h] \in Ids /\ hpc[h] = "settle" /\ result[h] \in SettledStatuses
          /\ status' = [status EXCEPT ![hid[h]] = result[h]]
          /\ hpc' = [hpc EXCEPT ![h] = "settle_audit"]
          /\ UNCHANGED <<audit, buttons, op, hid, result>>
      BY <2>9 DEF Settle, update_status
    <3>2. LastWriterAudits'
      BY <3>1
    <3>3. result[h] # "approved"
      BY <3>1 DEF SettledStatuses
    <3>4. ApprovedIsHandled'
      BY <3>1, <3>3
    <3>5. DecidedLosesButtons'
      BY <3>1 DEF MarkedIsDecided
    <3>. QED  BY <3>2, <3>4, <3>5
  <2>10. CASE AuditResult(h)
    BY <2>10 DEF AuditResult, record
  <2>11. CASE NotifyResult(h)
    BY <2>11 DEF NotifyResult, chat_update
  <2>. QED  BY <1>2, <2>1, <2>2, <2>3, <2>4, <2>5, <2>6, <2>7, <2>8, <2>9, <2>10, <2>11
            DEF HandlerProgress, HandlerDies
<1>. QED  BY <1>1, <1>2 DEF HandlerStep

THEOREM ClosingInvHolds ==
  ASSUME "exception" \notin Faults, "crash" \notin Faults
  PROVE  Spec => []ClosingInv
<1>1. ASSUME OutcomeInv, ActionableInv, Closing, Next PROVE Closing'
  <2>1. CASE WorkerStep /\ UNCHANGED <<observerVars, handlerVars, reminderVars>>
    BY <1>1, <2>1, ClosingWorker DEF WorkerStep
  <2>2. CASE HandlerStep /\ UNCHANGED <<observerVars, reminderVars>>
    BY <1>1, <2>2, ClosingListener DEF ActionableInv
  <2>3. CASE \/ ObserverStep /\ UNCHANGED <<handlerVars, reminderVars>>
             \/ ReminderStep /\ UNCHANGED <<observerVars, handlerVars>>
             \/ Environment
    <3>. UNCHANGED <<status, audit, buttons, hpc, op, hid, result>>
      BY <2>3 DEF ObserverStep, ObserverProgress, WatchEvent, CheckOpen, Alert, Suppressed,
           ObserverDies, ReminderStep, ReminderProgress, ListDue, PostReminder, MarkReminded,
           mark_reminded, ReminderFails, Environment, HealthChanges, CooldownExpires, FallsDue,
           ReminderFallsDue, storeVars, slackVars, handlerVars
    <3>. QED  BY <1>1, ClosingFrame
  <2>. QED  BY <1>1, <2>1, <2>2, <2>3 DEF Next, Crash
<1>2. ASSUME Closing, UNCHANGED vars PROVE Closing'
  BY <1>2, ClosingFrame DEF vars, storeVars, slackVars, handlerVars
<1>3. OutcomeInv /\ ActionableInv /\ Closing => ClosingInv
  BY ClosingFollows DEF ActionableInv, ClosingInv, Closing, OutcomeInv, ApprovalInv, TypeInv, TypeOK
<1>. QED  BY <1>1, <1>2, <1>3, ClosingInit, OutcomeInvHolds, ActionableInvHolds,
          PTL DEF Spec

\* Once no listener works on a decided row, its status is final, the audit log
\* says why it has it, and its alert has no buttons: also when clicks race and
\* overwrite each other, if threads are not lost to exceptions or crashes.
THEOREM DecisionsGetClosed ==
  ASSUME "exception" \notin Faults, "crash" \notin Faults
  PROVE  Spec => []DecisionsAreClosed
<1>1. ClosingInv => DecisionsAreClosed
  BY DEF ClosingInv
<1>. QED  BY <1>1, ClosingInvHolds, PTL

-----------------------------------------------------------------------------
(* LateClicksDoNothing and RemindersStop.                                  *)

\* What a step may not do to the incident i once nobody works on its decision.
StaysQuiet(i) ==
  Quiet(i) => Quiet(i)' /\ UNCHANGED <<status[i], plan[i], applies[i], buttons[i]>>

\* A worker of a decided incident has at most its reference left to store.
LEMMA QuietWorker ==
  ASSUME OutcomeInv, NEW j \in Ids, NEW i \in Ids, WorkerProgress(i) \/ WorkerDies(i),
         UNCHANGED <<observerVars, handlerVars, reminderVars>>
  PROVE  StaysQuiet(j)
<1>. SUFFICES ASSUME Quiet(j)
              PROVE  Quiet(j)' /\ UNCHANGED <<status[j], plan[j], applies[j], buttons[j]>>
  BY DEF StaysQuiet
<1>. USE DEF Quiet, Decided, OutcomeInv, DecisionsFollowAlerts, Announced, ApprovalInv, TypeInv,
      TypeOK, StoreTypeOK, SlackTypeOK, storeVars, slackVars, handlerVars
<1>1. CASE AssessDecides(i)
  BY <1>1 DEF AssessDecides, Decide
<1>2. CASE Diagnose(i)
  BY <1>2 DEF Diagnose, Decide
<1>3. CASE Create(i)
  BY <1>3 DEF Create, create_row
<1>4. CASE PostAlert(i)
  BY <1>4 DEF PostAlert, chat_postMessage
<1>5. CASE \/ AssessFallsThrough(i) \/ AuditProposal(i) \/ SetRef(i) \/ WorkerDies(i)
  BY <1>5 DEF AssessFallsThrough, AuditProposal, record, SetRef, set_slack_ref, WorkerDies
<1>. QED  BY <1>1, <1>2, <1>3, <1>4, <1>5 DEF WorkerProgress

\* A listener that has yet to read the row of a decided incident returns.
LEMMA QuietListener ==
  ASSUME OutcomeInv, NEW j \in Ids, HandlerStep, UNCHANGED <<observerVars, reminderVars>>
  PROVE  StaysQuiet(j)
<1>. SUFFICES ASSUME Quiet(j)
              PROVE  Quiet(j)' /\ UNCHANGED <<status[j], plan[j], applies[j], buttons[j]>>
  BY DEF StaysQuiet
<1>. USE DEF Quiet, Decided, OutcomeInv, ApprovalInv, TypeInv, TypeOK, StoreTypeOK, SlackTypeOK,
      HandlersTypeOK, ListenersHaveAnIncident, storeVars, slackVars, At, Return
<1>1. ASSUME NEW h \in Threads, NEW o \in ButtonIds, NEW i \in Ids, Click(h, o, i)
      PROVE  Quiet(j)' /\ UNCHANGED <<status[j], plan[j], applies[j], buttons[j]>>
  BY <1>1 DEF Click
<1>2. ASSUME NEW h \in Threads, HandlerProgress(h) \/ HandlerDies(h)
      PROVE  Quiet(j)' /\ UNCHANGED <<status[j], plan[j], applies[j], buttons[j]>>
  <2>1. CASE Read(h)
    BY <2>1 DEF Read, Expected, OpenStatuses
  <2>2. CASE Mark(h)
    BY <2>2 DEF Mark, update_status
  <2>3. CASE AuditDecision(h)
    BY <2>3 DEF AuditDecision, record
  <2>4. CASE Notify(h)
    BY <2>4 DEF Notify, chat_update
  <2>5. CASE DryRun(h)
    BY <2>5 DEF DryRun, Conclude
  <2>6. CASE Apply(h)
    BY <2>6 DEF Apply, Conclude
  <2>7. CASE Verify(h)
    BY <2>7 DEF Verify, Conclude
  <2>8. CASE Undo(h)
    BY <2>8 DEF Undo, Conclude
  <2>9. CASE Settle(h)
    BY <2>9 DEF Settle, update_status
  <2>10. CASE AuditResult(h)
    BY <2>10 DEF AuditResult, record
  <2>11. CASE NotifyResult(h)
    BY <2>11 DEF NotifyResult, chat_update
  <2>12. CASE HandlerDies(h)
    BY <2>12 DEF HandlerDies
  <2>. QED  BY <1>2, <2>1, <2>2, <2>3, <2>4, <2>5, <2>6, <2>7, <2>8, <2>9, <2>10, <2>11, <2>12
            DEF HandlerProgress
<1>. QED  BY <1>1, <1>2 DEF HandlerStep

LEMMA QuietElsewhere ==
  ASSUME NEW j \in Ids,
         \/ ObserverStep /\ UNCHANGED <<handlerVars, reminderVars>>
         \/ ReminderStep /\ UNCHANGED <<observerVars, handlerVars>>
         \/ Environment
         \/ Crash
  PROVE  StaysQuiet(j)
<1>1. UNCHANGED <<status, plan, applies, buttons>>
  BY DEF ObserverStep, ObserverProgress, WatchEvent, CheckOpen, Alert, Suppressed, ObserverDies,
       ReminderStep, ReminderProgress, ListDue, PostReminder, MarkReminded, mark_reminded,
       ReminderFails, Environment, HealthChanges, CooldownExpires, FallsDue, ReminderFallsDue,
       Crash, storeVars, slackVars, handlerVars
<1>2. UNCHANGED <<hpc, hid>> \/ hpc' = [h \in Threads |-> "idle"]
  BY DEF Environment, Crash, handlerVars
<1>. QED  BY <1>1, <1>2 DEF StaysQuiet, Quiet, Decided

\* When no listener works on the decision of an incident any more, its row, its
\* proposal, its alert and what was written for it stay as they are for ever:
\* late and repeated clicks, exceptions and restarts change nothing.
THEOREM DecisionsStand == Spec => LateClicksDoNothing
<1>1. ASSUME OutcomeInv, Next, NEW j \in Ids PROVE StaysQuiet(j)
  BY <1>1, QuietWorker, QuietListener, QuietElsewhere DEF Next, WorkerStep
<1>2. ASSUME OutcomeInv, [Next]_vars
      PROVE  [\A i \in Ids : Quiet(i) =>
                 Quiet(i)' /\ UNCHANGED <<status[i], plan[i], applies[i], buttons[i]>>]_vars
  BY <1>1, <1>2 DEF StaysQuiet
<1>. QED  BY <1>2, OutcomeInvHolds, PTL DEF Spec, LateClicksDoNothing

\* Only list_due_reminders extends the list of the reminder loop, and only by
\* open rows; no transaction makes a decided row open again.
LEMMA DecidedIsNotListed ==
  ASSUME TypeInv, Next, NEW i \in Ids, Decided(i)
  PROVE  Decided(i)' /\ (i \in todo' => i \in todo)
<1>1. Decided(i)'
  <2>. USE DEF Decided, TypeInv, TypeOK, StoreTypeOK, HandlersTypeOK, storeVars
  <2>1. ASSUME NEW j \in Ids, Create(j) PROVE Decided(i)'
    BY <2>1 DEF Create, create_row
  <2>2. ASSUME NEW h \in Threads, Mark(h) PROVE Decided(i)'
    BY <2>2 DEF Mark, update_status, Marked, ButtonIds, OpenStatuses
  <2>3. ASSUME NEW h \in Threads, Settle(h) PROVE Decided(i)'
    BY <2>3 DEF Settle, update_status, SettledStatuses, OpenStatuses
  <2>4. CASE /\ ~\E j \in Ids : Create(j)
             /\ ~\E h \in Threads : Mark(h) \/ Settle(h)
    <3>. UNCHANGED status
      BY <2>4 DEF Next, WorkerStep, WorkerProgress, AssessDecides, AssessFallsThrough, Diagnose,
           Decide, AuditProposal, record, PostAlert, SetRef, set_slack_ref, WorkerDies,
           ObserverStep, ObserverProgress, WatchEvent, CheckOpen, Alert, Suppressed,
           ObserverDies, HandlerStep, Click, HandlerProgress, Read, AuditDecision, Notify,
           DryRun, Apply, Verify, Undo, Conclude, AuditResult, NotifyResult, HandlerDies,
           ReminderStep, ReminderProgress, ListDue, PostReminder, MarkReminded, mark_reminded,
           ReminderFails, Environment, HealthChanges, CooldownExpires, FallsDue,
           ReminderFallsDue, Crash
    <3>. QED  OBVIOUS
  <2>. QED  BY <2>1, <2>2, <2>3, <2>4
<1>2. i \in todo' => i \in todo
  <2>1. CASE ListDue
    BY <2>1 DEF ListDue, list_due_reminders, IsOpen, Decided
  <2>2. CASE ~ListDue
    BY <2>2 DEF Next, ReminderStep, ReminderProgress, PostReminder, MarkReminded, ReminderFails,
         Environment, FallsDue, Crash, reminderVars
  <2>. QED  BY <2>1, <2>2
<1>. QED  BY <1>1, <1>2

\* A decided incident is on no new list of reminders, and stays decided.
THEOREM NoLateReminders == Spec => RemindersStop
<1>1. ASSUME TypeInv, [Next]_vars
      PROVE  [\A i \in Ids : Decided(i) =>
                 Decided(i)' /\ (i \in todo' => i \in todo)]_vars
  BY <1>1, DecidedIsNotListed
<1>. QED  BY <1>1, TypeInvHolds, PTL DEF Spec, RemindersStop
=============================================================================
