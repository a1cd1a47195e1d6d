------------------------------- MODULE Store -------------------------------
(***************************************************************************)
(* kubeheal/store.py: the SQLite database that every thread of KubeHeal    *)
(* shares and that survives a restart.  Each public function of store.py   *)
(* opens its own connection and commits its own transaction, so each is    *)
(* one atomic operator here and a thread takes a separate step for each    *)
(* call it makes.  A column of pending_approvals is a function on the      *)
(* incident identifiers; columns no property tells apart are left out.     *)
(***************************************************************************)
EXTENDS Naturals, FiniteSets

CONSTANTS
  Ids,         \* the uuid4 keys of pending_approvals (bounds the incidents)
  Workloads,   \* the Deployments of the watched namespace
  NoWorkload   \* "no workload", outside Workloads

ASSUME StoreAssumption == NoWorkload \notin Workloads

VARIABLES
  status,      \* column status; "none" while the row does not exist
  workload,    \* columns workload_kind/workload_name, fixed by the Incident
  plan,        \* what the row proposes: the action column and the first status
  slackRef,    \* rows whose slack_channel/slack_ts are set
  due,         \* rows whose last_reminded_at (or created_at) is old enough
  audit,       \* table audit_log, as a set of <<incident, event>>
  cooling      \* workloads alerted less than cooldown_seconds ago

storeVars == <<status, workload, plan, slackRef, due, audit, cooling>>

-----------------------------------------------------------------------------
(* models.ApprovalStatus, and what the store makes of it.                  *)

OpenStatuses == {"pending", "needs_human"}

SettledStatuses == {"applied", "failed", "rolled_back"}

ApprovalStatus ==
  OpenStatuses \cup SettledStatuses \cup {"approved", "rejected", "acknowledged"}

Plans == {"patch", "rollback", "needs_human"}

AuditEvents ==
  ApprovalStatus \cup {"proposed", "rollback_proposed"}

IsOpen(i) == status[i] \in OpenStatuses

StoreTypeOK ==
  /\ status \in [Ids -> ApprovalStatus \cup {"none"}]
  /\ workload \in [Ids -> Workloads \cup {NoWorkload}]
  /\ plan \in [Ids -> Plans \cup {"none"}]
  /\ slackRef \subseteq Ids
  /\ due \subseteq Ids
  /\ audit \subseteq Ids \X AuditEvents
  /\ cooling \subseteq Workloads

StoreInit ==
  /\ status = [i \in Ids |-> "none"]
  /\ workload = [i \in Ids |-> NoWorkload]
  /\ plan = [i \in Ids |-> "none"]
  /\ slackRef = {}
  /\ due = {}
  /\ audit = {}
  /\ cooling = {}

-----------------------------------------------------------------------------
(* Queries.                                                                *)

\* Mutant of has_open_incident: only approvals count, not needs-a-human rows.
has_pending_approval(w) == \E i \in Ids : workload[i] = w /\ status[i] = "pending"

\* Mutant of has_open_incident: rejected and acknowledged rows count as well.
has_unsettled_incident(w) ==
  \E i \in Ids : workload[i] = w /\ status[i] \notin SettledStatuses \cup {"none"}

has_open_incident(w) == \E i \in Ids : workload[i] = w /\ IsOpen(i)

\* Mutant of list_due_reminders: only approvals are reminded of.
list_due_approvals == {i \in Ids : status[i] = "pending" /\ i \in slackRef /\ i \in due}

\* Mutant of list_due_reminders: the status of the row is not looked at.
list_due_any == {i \in Ids : status[i] # "none" /\ i \in slackRef /\ i \in due}

list_due_reminders == {i \in Ids : IsOpen(i) /\ i \in slackRef /\ i \in due}

-----------------------------------------------------------------------------
(* Transactions.  Each one says what becomes of every store variable.      *)

\* Mutant of InitialStatus: the action lands in the status column.
InitialStatus_Action(p) == p

\* create_pending, create_rollback_pending and create_needs_human: the INSERT.
\* (Their call of audit is a transaction of its own: see record.)
InitialStatus(p) == IF p = "needs_human" THEN "needs_human" ELSE "pending"

create_row(i) ==
  /\ status[i] = "none"
  /\ status' = [status EXCEPT ![i] = InitialStatus(plan[i])]
  /\ UNCHANGED <<workload, plan, slackRef, due, audit, cooling>>

update_status(i, s) ==
  /\ status' = [status EXCEPT ![i] = s]
  /\ UNCHANGED <<workload, plan, slackRef, due, audit, cooling>>

set_slack_ref(i) ==
  /\ slackRef' = slackRef \cup {i}
  /\ UNCHANGED <<status, workload, plan, due, audit, cooling>>

mark_reminded(i) ==
  /\ due' = due \ {i}
  /\ UNCHANGED <<status, workload, plan, slackRef, audit, cooling>>

\* store.audit: append one row to audit_log.
record(i, e) ==
  /\ audit' = audit \cup {<<i, e>>}
  /\ UNCHANGED <<status, workload, plan, slackRef, due, cooling>>

\* A row's last reminder (its creation, before the first) gets older than
\* reminder_seconds: what list_due_reminders computes from the clock.
ReminderFallsDue(i) ==
  /\ IsOpen(i)
  /\ i \notin due
  /\ due' = due \cup {i}
  /\ UNCHANGED <<status, workload, plan, slackRef, audit, cooling>>
=============================================================================
