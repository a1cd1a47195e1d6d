------------------------------ MODULE KubeHeal ------------------------------
(***************************************************************************)
(* The KubeHeal process: main.main starts the observer thread, a worker    *)
(* thread per incident, the reminder thread and Bolt's listeners, which    *)
(* interleave freely and share only the store and the Slack channel.  A    *)
(* crash takes all threads with it; the store, the channel and the cluster *)
(* stay as they are, and a restart begins with every thread at its start.  *)
(***************************************************************************)
EXTENDS Observer, Handlers, Reminder

vars == <<storeVars, slackVars, workerVars, observerVars, handlerVars, reminderVars>>

TypeOK ==
  /\ StoreTypeOK
  /\ SlackTypeOK
  /\ WorkerTypeOK
  /\ ObserverTypeOK
  /\ HandlersTypeOK
  /\ ReminderTypeOK

Init ==
  /\ StoreInit
  /\ SlackInit
  /\ WorkerInit
  /\ ObserverInit
  /\ HandlersInit
  /\ ReminderInit

-----------------------------------------------------------------------------
\* The process dies and starts again.  (Deployment "kubeheal" restarts it.)
Crash ==
  /\ "crash" \in Faults
  /\ wpc' = [i \in Ids |-> IF wpc[i] = "unborn" THEN "unborn" ELSE "done"]
  /\ obs' = Watching
  /\ hpc' = [h \in Threads |-> "idle"]
  /\ op' = [h \in Threads |-> "reject"]
  /\ hid' = [h \in Threads |-> NoIncident]
  /\ result' = [h \in Threads |-> "failed"]
  /\ todo' = {}
  /\ reminded' = {}
  /\ UNCHANGED <<storeVars, slackVars, failing, applies>>

\* Time and the cluster.
Environment ==
  \/ \E w \in Workloads :
       \/ HealthChanges(w) /\ UNCHANGED <<handlerVars, reminderVars>>
       \/ CooldownExpires(w) /\ UNCHANGED <<handlerVars, reminderVars>>
  \/ \E i \in Ids : FallsDue(i) /\ UNCHANGED <<observerVars, handlerVars>>

Next ==
  \/ WorkerStep /\ UNCHANGED <<observerVars, handlerVars, reminderVars>>
  \/ ObserverStep /\ UNCHANGED <<handlerVars, reminderVars>>
  \/ HandlerStep /\ UNCHANGED <<observerVars, reminderVars>>
  \/ ReminderStep /\ UNCHANGED <<observerVars, handlerVars>>
  \/ Environment
  \/ Crash

Spec == Init /\ [][Next]_vars

-----------------------------------------------------------------------------
(* Fairness.  Threads that can run do run, timers elapse, and a workload   *)
(* that keeps failing is delivered again by each new watch stream.  Humans *)
(* are not obliged to click, faults not to happen.                         *)

WorkerFairness ==
  \A i \in Ids :
    WF_vars(WorkerProgress(i) /\ UNCHANGED <<observerVars, handlerVars, reminderVars>>)

HandlerFairness ==
  \A h \in Threads :
    WF_vars(HandlerProgress(h) /\ UNCHANGED <<observerVars, reminderVars>>)

ObserverFairness ==
  /\ WF_vars(ObserverProgress /\ UNCHANGED <<handlerVars, reminderVars>>)
  /\ \A w \in Workloads :
       /\ SF_vars(WatchEvent(w) /\ UNCHANGED <<handlerVars, reminderVars>>)
       /\ SF_vars(CooldownExpires(w) /\ UNCHANGED <<handlerVars, reminderVars>>)

ReminderFairness ==
  /\ WF_vars(ReminderProgress /\ UNCHANGED <<observerVars, handlerVars>>)
  /\ \A i \in Ids : WF_vars(FallsDue(i) /\ UNCHANGED <<observerVars, handlerVars>>)

LiveSpec ==
  /\ Spec
  /\ WorkerFairness
  /\ HandlerFairness
  /\ ObserverFairness
  /\ ReminderFairness

=============================================================================
