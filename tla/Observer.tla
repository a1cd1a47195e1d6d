------------------------------ MODULE Observer ------------------------------
(***************************************************************************)
(* observer.run: one thread that watches the pods and, for each failing    *)
(* container, asks the store two questions before it starts a worker.      *)
(* `failing` is the cluster as the watch reports it; it changes on its own *)
(* (pods fail and heal, with or without KubeHeal).  A stream lasts 60      *)
(* seconds and the next one lists every pod again.                         *)
(***************************************************************************)
EXTENDS Worker

VARIABLES
  failing,   \* Deployments with a container that _classify calls a failure
  obs        \* the thread: a program point and the workload it looks at

observerVars == <<failing, obs>>

ObserverTypeOK ==
  /\ failing \subseteq Workloads
  /\ obs \in [pc : {"watch", "check_open", "should_alert", "dead"},
              w  : Workloads \cup {NoWorkload}]

Watching == [pc |-> "watch", w |-> NoWorkload]

ObserverInit ==
  /\ failing = {}
  /\ obs = Watching

-----------------------------------------------------------------------------
(* The environment.                                                        *)

\* A Deployment starts or stops failing.
HealthChanges(w) ==
  /\ failing' = IF w \in failing THEN failing \ {w} ELSE failing \cup {w}
  /\ UNCHANGED <<obs, storeVars, slackVars, workerVars>>

\* An alert on w was let through by should_alert and has no row yet.
AlertInTheMaking(w) == \E i \in Ids : workload[i] = w /\ wpc[i] \in Deciding

BetweenQuestions(w) == obs.pc = "should_alert" /\ obs.w = w

\* w was last alerted cooldown_seconds (300) ago.  Unless "slow_diagnosis" is
\* admitted, a worker inserts its row well before that.  The cooldown does not
\* end between the observer's two questions either: the first one does not
\* read it, so it could as well have ended before.
CooldownExpires(w) ==
  /\ w \in cooling
  /\ "slow_diagnosis" \in Faults \/ ~(AlertInTheMaking(w) \/ BetweenQuestions(w))
  /\ cooling' = cooling \ {w}
  /\ UNCHANGED <<status, workload, plan, slackRef, due, audit>>
  /\ UNCHANGED <<slackVars, workerVars, observerVars>>

-----------------------------------------------------------------------------
(* The thread.                                                             *)

\* The stream delivers a pod of w and _build_incident resolves it.  (The ids
\* bound the incidents: the watch of the model ends when none is left.)
WatchEvent(w) ==
  /\ obs.pc = "watch"
  /\ w \in failing
  /\ \E i \in Ids : wpc[i] = "unborn"
  /\ obs' = [pc |-> "check_open", w |-> w]
  /\ UNCHANGED <<failing, storeVars, slackVars, workerVars>>

CheckOpen ==
  /\ obs.pc = "check_open"
  /\ obs' = IF has_open_incident(obs.w)
            THEN Watching
            ELSE [obs EXCEPT !.pc = "should_alert"]
  /\ UNCHANGED <<failing, storeVars, slackVars, workerVars>>

\* store.should_alert says no: the workload is cooling down.
Suppressed ==
  /\ obs.pc = "should_alert"
  /\ obs.w \in cooling
  /\ obs' = Watching
  /\ UNCHANGED <<failing, storeVars, slackVars, workerVars>>

\* store.should_alert says yes and restarts the cooldown in the same
\* transaction; on_incident starts a worker.
Alert(i) ==
  /\ obs.pc = "should_alert"
  /\ obs.w \notin cooling
  /\ wpc[i] = "unborn"
  /\ cooling' = cooling \cup {obs.w}
  /\ workload' = [workload EXCEPT ![i] = obs.w]
  /\ Goto(i, "assess")
  /\ obs' = Watching
  /\ UNCHANGED <<failing, status, plan, slackRef, due, audit, slackVars>>

\* run catches ApiException only (and reconnects): anything else ends the
\* daemon thread, and nothing starts another.
ObserverDies ==
  /\ "watch_error" \in Faults
  /\ obs.pc # "dead"
  /\ obs' = [Watching EXCEPT !.pc = "dead"]
  /\ UNCHANGED <<failing, storeVars, slackVars, workerVars>>

ObserverProgress ==
  \/ CheckOpen
  \/ Suppressed
  \/ \E i \in Ids : Alert(i)

ObserverStep ==
  \/ ObserverProgress
  \/ \E w \in Workloads : WatchEvent(w)
  \/ ObserverDies
=============================================================================
