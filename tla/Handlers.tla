------------------------------ MODULE Handlers ------------------------------
(***************************************************************************)
(* slack_app.on_approve, on_reject and on_acknowledge: the listeners that  *)
(* Bolt runs on a pool of threads, one per click.  All three read the row, *)
(* return unless it has the status they expect, mark the row, audit, and   *)
(* replace the alert by a message without buttons; on_approve then lets    *)
(* remediator.apply_patch or rollback act on the cluster and does the same *)
(* with the result.  The store is not locked between these calls.          *)
(*                                                                         *)
(* The remediation is kept to the API calls that decide its result:        *)
(* dry-run, apply, verify, undo.                                           *)
(***************************************************************************)
EXTENDS Worker

CONSTANTS
  Threads,      \* the threads of Bolt's listener pool
  NoIncident    \* "no incident", outside Ids

ASSUME HandlersAssumption == NoIncident \notin Ids

VARIABLES
  hpc,      \* where a listener thread stands
  op,       \* the button it handles
  hid,      \* the incident of that button
  result,   \* the status it settles on once the remediation has returned
  applies   \* how often an incident's proposal was written to the cluster

handlerVars == <<hpc, op, hid, result, applies>>

HandlerPCs ==
  { "idle", "read", "mark", "audit", "notify",
    "dry_run", "apply", "verify", "undo",
    "settle", "settle_audit", "settle_notify" }

HandlersTypeOK ==
  /\ hpc \in [Threads -> HandlerPCs]
  /\ op \in [Threads -> ButtonIds]
  /\ hid \in [Threads -> Ids \cup {NoIncident}]
  /\ result \in [Threads -> SettledStatuses]
  /\ applies \in [Ids -> Nat]

HandlersInit ==
  /\ hpc = [h \in Threads |-> "idle"]
  /\ op = [h \in Threads |-> "reject"]
  /\ hid = [h \in Threads |-> NoIncident]
  /\ result = [h \in Threads |-> "failed"]
  /\ applies = [i \in Ids |-> 0]

Busy(i) == \E h \in Threads : hid[h] = i /\ hpc[h] # "idle"

\* The status a listener insists on, and the one it writes.
Expected(o) == IF o = "acknowledge" THEN "needs_human" ELSE "pending"

Marked(o) ==
  CASE o = "approve"     -> "approved"
    [] o = "reject"      -> "rejected"
    [] o = "acknowledge" -> "acknowledged"

At(h, l) == hpc' = [hpc EXCEPT ![h] = l]

\* The thread returns to the pool; what it had in its locals is forgotten.
Return(h) ==
  /\ At(h, "idle")
  /\ op' = [op EXCEPT ![h] = "reject"]
  /\ hid' = [hid EXCEPT ![h] = NoIncident]
  /\ result' = [result EXCEPT ![h] = "failed"]

-----------------------------------------------------------------------------
\* A click reaches the program.  Without "concurrent_clicks" none does while
\* another click on i is handled.
Click(h, o, i) ==
  /\ hpc[h] = "idle"
  /\ o \in Clicks(i)
  /\ "concurrent_clicks" \in Faults \/ ~Busy(i)
  /\ At(h, "read")
  /\ op' = [op EXCEPT ![h] = o]
  /\ hid' = [hid EXCEPT ![h] = i]
  /\ UNCHANGED <<result, applies, storeVars, slackVars, workerVars>>

\* Mutant of Read: the status of the row is not looked at.
Read_Unchecked(h) ==
  /\ hpc[h] = "read"
  /\ At(h, "mark")
  /\ UNCHANGED <<op, hid, result, applies, storeVars, slackVars, workerVars>>

\* store.get_pending and the test of the row's status.
Read(h) ==
  /\ hpc[h] = "read"
  /\ IF status[hid[h]] = Expected(op[h])
     THEN At(h, "mark") /\ UNCHANGED <<op, hid, result>>
     ELSE Return(h)
  /\ UNCHANGED <<applies, storeVars, slackVars, workerVars>>

\* Mutant of Mark: the decision is not audited before it is acted upon.
Mark_Unaudited(h) ==
  /\ hpc[h] = "mark"
  /\ update_status(hid[h], Marked(op[h]))
  /\ At(h, "notify")
  /\ UNCHANGED <<op, hid, result, applies, slackVars, workerVars>>

Mark(h) ==
  /\ hpc[h] = "mark"
  /\ update_status(hid[h], Marked(op[h]))
  /\ At(h, "audit")
  /\ UNCHANGED <<op, hid, result, applies, slackVars, workerVars>>

AuditDecision(h) ==
  /\ hpc[h] = "audit"
  /\ record(hid[h], Marked(op[h]))
  /\ At(h, "notify")
  /\ UNCHANGED <<op, hid, result, applies, slackVars, workerVars>>

\* Mutant of Notify: on_reject and on_acknowledge leave the alert as it is.
Notify_ApproveOnly(h) ==
  /\ hpc[h] = "notify"
  /\ IF op[h] = "approve"
     THEN chat_update(hid[h]) /\ At(h, "dry_run") /\ UNCHANGED <<op, hid, result>>
     ELSE Return(h) /\ UNCHANGED slackVars
  /\ UNCHANGED <<applies, storeVars, workerVars>>

\* chat_update; on_reject and on_acknowledge end here.
Notify(h) ==
  /\ hpc[h] = "notify"
  /\ chat_update(hid[h])
  /\ IF op[h] = "approve"
     THEN At(h, "dry_run") /\ UNCHANGED <<op, hid, result>>
     ELSE Return(h)
  /\ UNCHANGED <<applies, storeVars, workerVars>>

-----------------------------------------------------------------------------
(* remediator.apply_patch and remediator.rollback.                         *)

Conclude(h, r) ==
  /\ result' = [result EXCEPT ![h] = r]
  /\ At(h, "settle")
  /\ UNCHANGED <<op, hid, storeVars, slackVars, workerVars>>

\* Mutant of DryRun: a rejected dry-run is reported as a rollback.
DryRun_RolledBack(h) ==
  /\ hpc[h] = "dry_run"
  /\ \/ At(h, "apply") /\ UNCHANGED <<op, hid, result, storeVars, slackVars, workerVars>>
     \/ Conclude(h, "rolled_back")
  /\ UNCHANGED applies

\* Reading the Deployment and the server-side dry-run: pass, or an ApiException.
DryRun(h) ==
  /\ hpc[h] = "dry_run"
  /\ \/ At(h, "apply") /\ UNCHANGED <<op, hid, result, storeVars, slackVars, workerVars>>
     \/ Conclude(h, "failed")
  /\ UNCHANGED applies

\* The write.  A write that answers with an error may have taken effect.
Apply(h) ==
  LET written == [applies EXCEPT ![hid[h]] = @ + 1] IN
  /\ hpc[h] = "apply"
  /\ \/ /\ applies' = written
        /\ At(h, "verify")
        /\ UNCHANGED <<op, hid, result, storeVars, slackVars, workerVars>>
     \/ /\ applies' \in {applies, written}
        /\ Conclude(h, "failed")

\* _verify_rollout: healthy within verify_timeout_seconds, or not.  A patch is
\* then undone; a rollback that does not help is left in place.
Verify(h) ==
  /\ hpc[h] = "verify"
  /\ \/ Conclude(h, "applied")
     \/ plan[hid[h]] = "rollback" /\ Conclude(h, "failed")
     \/ /\ plan[hid[h]] # "rollback"
        /\ At(h, "undo")
        /\ UNCHANGED <<op, hid, result, storeVars, slackVars, workerVars>>
  /\ UNCHANGED applies

Undo(h) ==
  /\ hpc[h] = "undo"
  /\ \E r \in {"rolled_back", "failed"} : Conclude(h, r)
  /\ UNCHANGED applies

-----------------------------------------------------------------------------
(* The end of on_approve.                                                  *)

\* Mutant of Settle: the outcome is not audited.
Settle_Unaudited(h) ==
  /\ hpc[h] = "settle"
  /\ update_status(hid[h], result[h])
  /\ At(h, "settle_notify")
  /\ UNCHANGED <<op, hid, result, applies, slackVars, workerVars>>

Settle(h) ==
  /\ hpc[h] = "settle"
  /\ update_status(hid[h], result[h])
  /\ At(h, "settle_audit")
  /\ UNCHANGED <<op, hid, result, applies, slackVars, workerVars>>

AuditResult(h) ==
  /\ hpc[h] = "settle_audit"
  /\ record(hid[h], result[h])
  /\ At(h, "settle_notify")
  /\ UNCHANGED <<op, hid, result, applies, slackVars, workerVars>>

NotifyResult(h) ==
  /\ hpc[h] = "settle_notify"
  /\ chat_update(hid[h])
  /\ Return(h)
  /\ UNCHANGED <<applies, storeVars, workerVars>>

\* An exception that no except clause of the listener or of the remediator
\* catches: Bolt logs it and the thread returns to the pool.
HandlerDies(h) ==
  /\ "exception" \in Faults
  /\ hpc[h] # "idle"
  /\ Return(h)
  /\ UNCHANGED <<applies, storeVars, slackVars, workerVars>>

HandlerProgress(h) ==
  \/ Read(h) \/ Mark(h) \/ AuditDecision(h) \/ Notify(h)
  \/ DryRun(h) \/ Apply(h) \/ Verify(h) \/ Undo(h)
  \/ Settle(h) \/ AuditResult(h) \/ NotifyResult(h)

HandlerStep ==
  \/ \E h \in Threads, o \in ButtonIds, i \in Ids : Click(h, o, i)
  \/ \E h \in Threads : HandlerProgress(h) \/ HandlerDies(h)
=============================================================================
