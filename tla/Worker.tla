------------------------------- MODULE Worker -------------------------------
(***************************************************************************)
(* main.process: the daemon thread that on_incident starts for each        *)
(* incident.  It picks a strategy (rollback, start-up probe, needs a       *)
(* human, or the LLM), then runs one of slack_app.post_incident,           *)
(* post_rollback_proposal and post_unremediable, which all insert the row, *)
(* write the audit entry, post the alert and store its Slack reference.    *)
(* A worker handles one incident, so it is named by that incident.         *)
(***************************************************************************)
EXTENDS SlackChannel

CONSTANT Faults   \* the faults and schedules a model admits

AllFaults ==
  { "crash",              \* the process dies and is restarted at any moment
    "exception",          \* a Slack, Ollama, SQLite or connection error
    "slow_diagnosis",     \* a worker may need longer than cooldown_seconds
    "concurrent_clicks",  \* two clicks on one alert may be handled at once
    "watch_error" }       \* the watch raises something else than ApiException

ASSUME FaultsAssumption == Faults \subseteq AllFaults

VARIABLE wpc   \* where the worker of an incident stands

workerVars == <<wpc>>

Deciding  == {"assess", "diagnose", "create"}   \* before the row exists
Reporting == {"audit", "post", "ref"}           \* while it is announced

WorkerTypeOK == wpc \in [Ids -> {"unborn", "done"} \cup Deciding \cup Reporting]

WorkerInit == wpc = [i \in Ids |-> "unborn"]

Goto(i, l) == wpc' = [wpc EXCEPT ![i] = l]

-----------------------------------------------------------------------------
\* The proposal the worker of i settled on: what it will insert and post.
Decide(i, p) ==
  /\ Goto(i, "create")
  /\ plan' = [plan EXCEPT ![i] = p]
  /\ UNCHANGED <<status, workload, slackRef, due, audit, cooling, slackVars>>

\* rollback.assess found a failing recent deploy, or probefix.assess a slow
\* start, or the reason is outside AUTO_REMEDIABLE_REASONS: no LLM needed.
AssessDecides(i) ==
  /\ wpc[i] = "assess"
  /\ \E p \in Plans : Decide(i, p)

\* None of these: ask the LLM.
AssessFallsThrough(i) ==
  /\ wpc[i] = "assess"
  /\ Goto(i, "diagnose")
  /\ UNCHANGED <<storeVars, slackVars>>

\* brain.diagnose returns a validated patch, or raises BrainError and the
\* incident is handed to a human.
Diagnose(i) ==
  /\ wpc[i] = "diagnose"
  /\ \E p \in {"patch", "needs_human"} : Decide(i, p)

\* store.create_pending, create_rollback_pending, create_needs_human: INSERT.
Create(i) ==
  /\ wpc[i] = "create"
  /\ create_row(i)
  /\ Goto(i, "audit")
  /\ UNCHANGED slackVars

ProposalEvent(p) ==
  CASE p = "patch"       -> "proposed"
    [] p = "rollback"    -> "rollback_proposed"
    [] p = "needs_human" -> "needs_human"

\* The audit call that closes store.create_*.
AuditProposal(i) ==
  /\ wpc[i] = "audit"
  /\ record(i, ProposalEvent(plan[i]))
  /\ Goto(i, "post")
  /\ UNCHANGED slackVars

\* Mutant of PostAlert: post_rollback_proposal does not store the reference.
PostAlert_Unreferenced(i) ==
  /\ wpc[i] = "post"
  /\ chat_postMessage(i)
  /\ Goto(i, IF plan[i] = "rollback" THEN "done" ELSE "ref")
  /\ UNCHANGED storeVars

PostAlert(i) ==
  /\ wpc[i] = "post"
  /\ chat_postMessage(i)
  /\ Goto(i, "ref")
  /\ UNCHANGED storeVars

SetRef(i) ==
  /\ wpc[i] = "ref"
  /\ set_slack_ref(i)
  /\ Goto(i, "done")
  /\ UNCHANGED slackVars

\* An exception ends the thread, whether process logs it (the two
\* "except Exception" around the posts) or nothing catches it.
WorkerDies(i) ==
  /\ "exception" \in Faults
  /\ wpc[i] \in Deciding \cup Reporting
  /\ Goto(i, "done")
  /\ UNCHANGED <<storeVars, slackVars>>

\* One step of the worker of i that no fault causes.
WorkerProgress(i) ==
  \/ AssessDecides(i)
  \/ AssessFallsThrough(i)
  \/ Diagnose(i)
  \/ Create(i)
  \/ AuditProposal(i)
  \/ PostAlert(i)
  \/ SetRef(i)

WorkerStep == \E i \in Ids : WorkerProgress(i) \/ WorkerDies(i)
=============================================================================
