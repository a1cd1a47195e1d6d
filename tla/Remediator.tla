----------------------------- MODULE Remediator -----------------------------
(***************************************************************************)
(* remediator.py, and what main.process and slack_app.on_approve do before *)
(* it is called: a proposal is made from what the cluster looks like when  *)
(* the failure is detected, a human approves it much later, and then       *)
(* apply_patch (capture, dry-run, apply, verify, undo) or rollback (read   *)
(* the ReplicaSet, read, dry-run, replace, verify) acts on a Deployment    *)
(* that others have gone on changing.  One step per API call.              *)
(***************************************************************************)
EXTENDS Rollout

CONSTANTS
  Failing,      \* the container that the incidents are about
  Patches,      \* what validate_patch lets through: no field is null
  NoTemplate    \* "no template"

_STABLE_POLLS == 3

ASSUME RemediatorAssumption ==
  /\ Failing \in Containers
  /\ Patches \subseteq PatchLists
  /\ \A p \in Patches, f \in Fields :
       p.first[f].op # "null" /\ \A c \in Containers : p.rest[c][f].op # "null"
  /\ NoTemplate \notin Templates

VARIABLES
  pc,         \* where a remediation stands
  job,        \* its incident (seen: current_spec) and its row
  before,     \* the Deployment's template as it was read before the write
  good,       \* consecutive healthy readings
  readings,   \* the verdicts on the last readings, newest last
  writes,     \* how often the proposal was written
  outcome     \* how it ended

remediatorVars == <<pc, job, before, good, readings, writes, outcome>>

vars == <<clusterVars, remediatorVars>>

PatchPCs    == {"capture", "patch_dry_run", "apply", "undo"}
RollbackPCs == {"read_target", "read", "replace_dry_run", "replace"}
WorkingPCs  == PatchPCs \cup RollbackPCs \cup {"poll", "annotate"}

Outcomes ==
  { "unread", "dry_run_rejected", "apply_failed", "healed", "undone", "undo_failed",
    "not_healthy" }

NoJob == [kind |-> "none",
          patch |-> [name |-> Failing, first |-> NoFieldPatches, rest |-> NoPatch],
          to |-> NoTemplate, seen |-> [f \in Fields |-> Absent], shown |-> {}]

Jobs == [kind : {"none", "patch", "rollback"}, patch : PatchLists,
         to : Templates \cup {NoTemplate}, seen : [Fields -> FieldValues],
         shown : SUBSET (Fields \X Paths)]

RemediatorTypeOK ==
  /\ pc \in [Clients -> {"idle", "detected", "proposed", "done", "gone"} \cup WorkingPCs]
  /\ job \in [Clients -> Jobs]
  /\ before \in [Clients -> Templates \cup {NoTemplate}]
  /\ good \in [Clients -> 0 .. _STABLE_POLLS]
  /\ readings \in [Clients -> Seq(BOOLEAN)]
  /\ writes \in [Clients -> Nat]
  /\ outcome \in [Clients -> Outcomes \cup {"none"}]

RemediatorInit ==
  /\ pc = [r \in Clients |-> "idle"]
  /\ job = [r \in Clients |-> NoJob]
  /\ before = [r \in Clients |-> NoTemplate]
  /\ good = [r \in Clients |-> 0]
  /\ readings = [r \in Clients |-> <<>>]
  /\ writes = [r \in Clients |-> 0]
  /\ outcome = [r \in Clients |-> "none"]

At(r, l) == pc' = [pc EXCEPT ![r] = l]

Finish(r, o) ==
  /\ At(r, "done")
  /\ outcome' = [outcome EXCEPT ![r] = o]

Written(r) == writes' = [writes EXCEPT ![r] = @ + 1]

-----------------------------------------------------------------------------
(* The proposal and its approval.                                          *)

\* observer._build_incident reads the spec of the failing container; when that
\* fails, current_spec is {}.
Detect(r) ==
  /\ pc[r] = "idle"
  /\ \E s \in {template.fields[Failing], [f \in Fields |-> Absent]} :
       job' = [job EXCEPT ![r].seen = s]
  /\ At(r, "detected")
  /\ UNCHANGED <<clusterVars, before, good, readings, writes, outcome>>

\* rollback.assess comes first and finds a bad rollout.
ProposeRollback(r) ==
  /\ pc[r] = "detected"
  /\ IsBadRollout
  /\ job' = [job EXCEPT ![r].kind = "rollback", ![r].to = PreviousRS]
  /\ At(r, "proposed")
  /\ UNCHANGED <<clusterVars, before, good, readings, writes, outcome>>

\* Otherwise, or if a read of assess fails, probefix or the Brain proposes.
ProposePatch(r) ==
  /\ pc[r] = "detected"
  /\ \E p \in Patches :
       job' = [job EXCEPT ![r].kind = "patch", ![r].patch = p,
                          ![r].shown = render_diff(job[r].seen, p)]
  /\ At(r, "proposed")
  /\ UNCHANGED <<clusterVars, before, good, readings, writes, outcome>>

\* A human approves; on_approve branches on the row's action.
Approve(r) ==
  /\ pc[r] = "proposed"
  /\ At(r, IF job[r].kind = "rollback" THEN "read_target" ELSE "capture")
  /\ UNCHANGED <<clusterVars, job, before, good, readings, writes, outcome>>

-----------------------------------------------------------------------------
(* An API call that answers with an ApiException.                          *)

\* Reads and dry-runs change nothing.
CallFails(r) ==
  /\ \/ pc[r] \in {"capture", "read_target", "read"} /\ Finish(r, "unread")
     \/ pc[r] \in {"patch_dry_run", "replace_dry_run"} /\ Finish(r, "dry_run_rejected")
     \/ pc[r] \in {"apply", "replace"} /\ Finish(r, "apply_failed")
     \/ pc[r] = "undo" /\ Finish(r, "undo_failed")
  /\ UNCHANGED <<clusterVars, job, before, good, readings, writes>>

\* A write may have taken effect although its answer is an error (a gateway
\* timeout).
Answer(r, l, o) == (At(r, l) /\ UNCHANGED outcome) \/ Finish(r, o)

-----------------------------------------------------------------------------
(* apply_patch.                                                            *)

CaptureSpec(r) ==
  /\ pc[r] = "capture"
  /\ before' = [before EXCEPT ![r] = template]
  /\ At(r, "patch_dry_run")
  /\ UNCHANGED <<clusterVars, job, good, readings, writes, outcome>>

DryRunPatch(r) ==
  /\ pc[r] = "patch_dry_run"
  /\ At(r, "apply")
  /\ UNCHANGED <<clusterVars, job, before, good, readings, writes, outcome>>

\* Mutant of Apply: the flag of the dry-run is still set.
Apply_DryRun(r) ==
  /\ pc[r] = "apply"
  /\ Written(r)
  /\ Answer(r, "poll", "apply_failed")
  /\ UNCHANGED <<clusterVars, job, before, good, readings>>

Apply(r) ==
  /\ pc[r] = "apply"
  /\ MergeFields(Net(job[r].patch))
  /\ UNCHANGED disturbed
  /\ Written(r)
  /\ Answer(r, "poll", "apply_failed")
  /\ UNCHANGED <<job, before, good, readings>>

Undo(r) ==
  /\ pc[r] = "undo"
  /\ MergeFields(Capture(before[r].fields, Failing))
  /\ UNCHANGED disturbed
  /\ Finish(r, "undone") \/ Finish(r, "undo_failed")
  /\ UNCHANGED <<job, before, good, readings, writes>>

-----------------------------------------------------------------------------
(* rollback.                                                               *)

\* target_template reads the ReplicaSet of the row; it may be gone by now.
ReadTarget(r) ==
  /\ pc[r] = "read_target"
  /\ IF \E n \in DOMAIN history : history[n] = job[r].to
     THEN At(r, "read") /\ UNCHANGED outcome
     ELSE Finish(r, "unread")
  /\ UNCHANGED <<clusterVars, job, before, good, readings, writes>>

\* read_namespaced_deployment: the copy carries its resourceVersion.
ReadDeployment(r) ==
  /\ pc[r] = "read"
  /\ before' = [before EXCEPT ![r] = template]
  /\ fresh' = fresh \cup {r}
  /\ At(r, "replace_dry_run")
  /\ UNCHANGED <<template, observed, level, scaledUp, history, aged, ran, disturbed,
                 job, good, readings, writes, outcome>>

\* The server refuses to replace what changed since it was read (CallFails).
DryRunReplace(r) ==
  /\ pc[r] = "replace_dry_run"
  /\ r \in fresh
  /\ At(r, "replace")
  /\ UNCHANGED <<clusterVars, job, before, good, readings, writes, outcome>>

\* Mutant of Replace: the template is written whatever happened since the read.
Replace_Unconditional(r) ==
  /\ pc[r] = "replace"
  /\ SetTemplate(target_template(job[r].to))
  /\ UNCHANGED disturbed
  /\ Written(r)
  /\ Answer(r, "poll", "apply_failed")
  /\ UNCHANGED <<job, before, good, readings>>

Replace(r) ==
  /\ pc[r] = "replace"
  /\ r \in fresh
  /\ SetTemplate(target_template(job[r].to))
  /\ UNCHANGED disturbed
  /\ Written(r)
  /\ Answer(r, "poll", "apply_failed")
  /\ UNCHANGED <<job, before, good, readings>>

-----------------------------------------------------------------------------
(* _verify_rollout.                                                        *)

healthy == scaledUp /\ observed /\ level

\* The last _STABLE_POLLS of at most one more.
Latest(s) == IF Len(s) > _STABLE_POLLS THEN Tail(s) ELSE s

Note(r, verdict) == readings' = [readings EXCEPT ![r] = Latest(Append(@, verdict))]

\* What a reading should be taken for, whatever _verify_rollout makes of it.
RolledOut == scaledUp /\ observed /\ level

\* Mutant of Poll: more than _STABLE_POLLS readings are required.
Poll_OffByOne(r) ==
  /\ pc[r] = "poll"
  /\ good' = [good EXCEPT ![r] = IF healthy THEN @ + 1 ELSE 0]
  /\ Note(r, RolledOut)
  /\ IF good'[r] > _STABLE_POLLS
     THEN At(r, "annotate") /\ outcome' = [outcome EXCEPT ![r] = "healed"]
     ELSE UNCHANGED <<pc, outcome>>
  /\ UNCHANGED <<clusterVars, job, before, writes>>

\* Mutant of Poll: an unhealthy reading does not reset the count.
Poll_NoReset(r) ==
  /\ pc[r] = "poll"
  /\ good' = [good EXCEPT ![r] = IF healthy THEN @ + 1 ELSE @]
  /\ Note(r, RolledOut)
  /\ IF good'[r] >= _STABLE_POLLS
     THEN At(r, "annotate") /\ outcome' = [outcome EXCEPT ![r] = "healed"]
     ELSE UNCHANGED <<pc, outcome>>
  /\ UNCHANGED <<clusterVars, job, before, writes>>

\* One reading before the deadline.
Poll(r) ==
  /\ pc[r] = "poll"
  /\ good' = [good EXCEPT ![r] = IF healthy THEN @ + 1 ELSE 0]
  /\ Note(r, RolledOut)
  /\ IF good'[r] >= _STABLE_POLLS
     THEN At(r, "annotate") /\ outcome' = [outcome EXCEPT ![r] = "healed"]
     ELSE UNCHANGED <<pc, outcome>>
  /\ UNCHANGED <<clusterVars, job, before, writes>>

\* The reading fails; the count starts again.
PollFails(r) ==
  /\ pc[r] = "poll"
  /\ good' = [good EXCEPT ![r] = 0]
  /\ Note(r, FALSE)
  /\ UNCHANGED <<clusterVars, pc, job, before, writes, outcome>>

\* Mutant of GiveUp: the deadline is looked at after an unhealthy reading only.
GiveUp_Unhealthy(r) ==
  /\ pc[r] = "poll"
  /\ good[r] = 0
  /\ IF job[r].kind = "rollback"
     THEN Finish(r, "not_healthy")
     ELSE At(r, "undo") /\ UNCHANGED outcome
  /\ good' = [good EXCEPT ![r] = 0]
  /\ readings' = [readings EXCEPT ![r] = <<>>]
  /\ UNCHANGED <<clusterVars, job, before, writes>>

\* Mutant of GiveUp: a rollback is undone as well.
GiveUp_UndoesAll(r) ==
  /\ pc[r] = "poll"
  /\ At(r, "undo")
  /\ good' = [good EXCEPT ![r] = 0]
  /\ readings' = [readings EXCEPT ![r] = <<>>]
  /\ UNCHANGED <<clusterVars, job, before, writes, outcome>>

\* The deadline has passed: a patch is undone, a rollback stays.
GiveUp(r) ==
  /\ pc[r] = "poll"
  /\ IF job[r].kind = "rollback"
     THEN Finish(r, "not_healthy")
     ELSE At(r, "undo") /\ UNCHANGED outcome
  /\ good' = [good EXCEPT ![r] = 0]
  /\ readings' = [readings EXCEPT ![r] = <<>>]
  /\ UNCHANGED <<clusterVars, job, before, writes>>

\* _annotate_applied: metadata only, and an ApiException is only logged.
Annotate(r) ==
  /\ pc[r] = "annotate"
  /\ Annotated \/ UNCHANGED clusterVars
  /\ At(r, "done")
  /\ UNCHANGED <<job, before, good, readings, writes, outcome>>

-----------------------------------------------------------------------------
\* The thread ends in the middle: an exception other than ApiException, or a
\* crash of the process.
Abandon(r) ==
  /\ "exception" \in Disturbances
  /\ pc[r] \in WorkingPCs
  /\ At(r, "gone")
  /\ outcome' = [outcome EXCEPT ![r] = "none"]
  /\ UNCHANGED <<clusterVars, job, before, good, readings, writes>>

Progress(r) ==
  \/ CallFails(r)
  \/ CaptureSpec(r) \/ DryRunPatch(r) \/ Apply(r) \/ Undo(r)
  \/ ReadTarget(r) \/ ReadDeployment(r) \/ DryRunReplace(r) \/ Replace(r)
  \/ Poll(r) \/ PollFails(r) \/ GiveUp(r) \/ Annotate(r)

ClientStep(r) ==
  \/ Detect(r) \/ ProposeRollback(r) \/ ProposePatch(r) \/ Approve(r)
  \/ Progress(r)
  \/ Abandon(r)

Init == ClusterInit /\ RemediatorInit

Next ==
  \/ ClusterStep /\ UNCHANGED remediatorVars
  \/ \E r \in Clients : ClientStep(r)

Spec == Init /\ [][Next]_vars

\* A listener that can take a step takes one, and the deadline of its polling
\* passes.  The cluster and the humans owe it nothing.
LiveSpec ==
  /\ Spec
  /\ \A r \in Clients : WF_vars(Progress(r)) /\ WF_vars(GiveUp(r))
=============================================================================
