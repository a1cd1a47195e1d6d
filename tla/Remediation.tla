----------------------------- MODULE Remediation -----------------------------
(***************************************************************************)
(* What a remediation promises to the Deployment it works on, to the       *)
(* people who deploy to it, and to the listener that calls it.             *)
(***************************************************************************)
EXTENDS Remediator

\* The variables of the remediation and of the cluster have the types that
\* their comments give; a template read is one the Deployment may have.
RemediationTypeOK == ClusterTypeOK /\ RemediatorTypeOK

-----------------------------------------------------------------------------
(* Verification.                                                           *)

\* Nobody is told that a workload is healed unless the last three readings of
\* _verify_rollout, without a failed or unhealthy one between them, found the
\* current generation rolled out, with a replica at least: not the counts that
\* the old ReplicaSet left in the status, nor a crash loop's moment of health.
HealedIsSustained ==
  \A r \in Clients :
    outcome[r] = "healed" => readings[r] = [n \in 1 .. _STABLE_POLLS |-> TRUE]

-----------------------------------------------------------------------------
(* What the result says.                                                   *)

\* Every way through apply_patch and rollback ends in a result, and the result
\* is true of what was written: nothing, if the answer is that something could
\* not be read or did not pass the dry-run; the proposal, once, if it is about
\* the health of the workload.  Only a patch is undone.
ResultsMatchWrites ==
  \A r \in Clients :
    /\ writes[r] <= 1
    /\ pc[r] = "done" => outcome[r] # "none"
    /\ outcome[r] \in {"unread", "dry_run_rejected"} => writes[r] = 0
    /\ outcome[r] \in {"healed", "undone", "undo_failed", "not_healthy"} => writes[r] = 1
    /\ outcome[r] \in {"undone", "undo_failed"} => job[r].kind = "patch"
    /\ outcome[r] = "not_healthy" => job[r].kind = "rollback"

\* Only remediation r has written to the Deployment.
Alone(r) == disturbed = 0 /\ \A q \in Clients \ {r} : writes[q] = 0

Patched(r) == [before[r] EXCEPT !.fields = Merge(@, Net(job[r].patch))]

\* If nobody else has written, the result of a patch tells what the Deployment
\* runs: the template as it was, if no write was reached; the patched one, if it
\* is healed; after an undo the one before the patch, as far as a merge can.
ResultsTellWhatStands ==
  \A r \in Clients : Alone(r) /\ job[r].kind = "patch" =>
    /\ outcome[r] \in {"unread", "dry_run_rejected"} => before[r] \in {NoTemplate, template}
    /\ outcome[r] = "healed" => template = Patched(r)
    /\ outcome[r] = "undone" =>
         ( template = before[r] <=> Restorable(before[r].fields, Net(job[r].patch), Failing) )

-----------------------------------------------------------------------------
(* The undo of a patch.                                                    *)

\* Nobody has changed the container fields since this remediation patched them.
Undisturbed(r) == template.fields = Merge(before[r].fields, Net(job[r].patch))

\* When nobody interfered, the undo brings back the fields as they were, absent
\* ones included, if the patch is one that a merge can take back, and then only.
UndoIsExact ==
  [][\A r \in Clients :
       Undo(r) /\ Undisturbed(r) =>
         ( template'.fields = before[r].fields
             <=> Restorable(before[r].fields, Net(job[r].patch), Failing) )]_vars

\* Whatever was deployed while the patch was verified, the undo leaves the new
\* version and the fields of the other containers as they are.
UndoKeepsDeploys ==
  [][\A r \in Clients : Undo(r) =>
       /\ template'.image = template.image
       /\ \A c \in Containers \ {Failing} : template'.fields[c] = template.fields[c]]_vars

-----------------------------------------------------------------------------
(* The rollback of a deploy.                                               *)

\* The whole Deployment is written back, but never over a change made since it
\* was read: what the write replaces is the template the remediation has seen.
ReplaceLosesNothing ==
  [][\A r \in Clients : Replace(r) => template = before[r]]_vars

\* A rollback installs a template that the Deployment has run before, also when
\* other deploys and the removal of old ReplicaSets intervene.
RollbackRanBefore == [][\A r \in Clients : Replace(r) => template' \in ran]_vars

-----------------------------------------------------------------------------
(* What the human saw.                                                     *)

\* The human sees lines for the first entry of the patch, next to the spec that
\* the incident recorded.  If that entry is the whole patch, is about the failing
\* container, and the container is still as it was recorded, then
\*   - every line comes true: the path holds what the line says, in the server's
\*     spelling, or the default if the line takes the value away; and
\*   - nothing else changes, except that the server fills in the defaults of a
\*     field which the patch adds.
\* Of the other patches it promises nothing: a first entry without fields, or of
\* another container, leaves changes out of the list.
DiffIsTheChange ==
  [][\A r \in Clients :
       /\ Apply(r)
       /\ job[r].patch.name = Failing /\ job[r].patch.rest = NoPatch
       /\ template.fields[Failing] = job[r].seen
       => \A c \in Containers, f \in Fields, k \in Paths :
            LET old  == template.fields[c][f]
                new  == template'.fields[c][f]
                line == job[r].patch.first[f].leaf[k]
            IN IF c = Failing /\ <<f, k>> \in job[r].shown
               THEN new.leaf[k] = IF line = Null THEN Default[f][k] ELSE Canon[line]
               ELSE \/ new.leaf[k] = old.leaf[k]
                    \/ c = Failing /\ ~old.there /\ new.there /\ new.leaf[k] = Default[f][k]]_vars

-----------------------------------------------------------------------------
(* Liveness: a remediation that is approved ends, however the pods flap.   *)

RemediationsEnd ==
  \A r \in Clients : pc[r] \in WorkingPCs ~> pc[r] \in {"done", "gone"}

-----------------------------------------------------------------------------
(* The four steps that Handlers makes of a remediation are what this       *)
(* detailed one does: a client is a listener at work on its own incident.  *)

ListenerPC(r) ==
  CASE pc[r] = "gone"               -> "idle"
    [] pc[r] \in {"apply", "replace"} -> "apply"
    [] pc[r] = "poll"               -> "verify"
    [] pc[r] = "undo"               -> "undo"
    [] pc[r] \in {"annotate", "done"} -> "settle"
    [] OTHER                        -> "dry_run"

\* The status that on_approve makes of the RemediationResult.
SettledStatus(o) ==
  CASE o = "healed" -> "applied"
    [] o = "undone" -> "rolled_back"
    [] OTHER        -> "failed"

Listener ==
  INSTANCE Handlers WITH
    Ids <- Clients, Workloads <- {}, NoWorkload <- NoTemplate, Faults <- {"exception"},
    Threads <- Clients, NoIncident <- NoTemplate,
    status <- [r \in Clients |-> "approved"],
    workload <- [r \in Clients |-> NoTemplate],
    plan <- [r \in Clients |-> job[r].kind],
    slackRef <- Clients, due <- {}, audit <- {}, cooling <- {},
    buttons <- [r \in Clients |-> {}], posted <- Clients,
    wpc <- [r \in Clients |-> "done"],
    hpc <- [r \in Clients |-> ListenerPC(r)],
    op <- [r \in Clients |-> IF pc[r] = "gone" THEN "reject" ELSE "approve"],
    hid <- [r \in Clients |-> IF pc[r] = "gone" THEN NoTemplate ELSE r],
    result <- [r \in Clients |-> SettledStatus(outcome[r])],
    applies <- writes

ListenerState ==
  [r \in Clients |-> <<ListenerPC(r), pc[r] = "gone", SettledStatus(outcome[r]), writes[r]>>]

\* Every step of a remediation is a step of the listener that called it, as
\* Handlers describes it to the rest of KubeHeal, or one that it does not see.
ImplementsListeners ==
  [][\E r \in Clients :
       \/ Listener!DryRun(r) \/ Listener!Apply(r) \/ Listener!Verify(r) \/ Listener!Undo(r)
       \/ Listener!HandlerDies(r)]_ListenerState

-----------------------------------------------------------------------------
(* What the messages promise and the code does not keep.                   *)

\* apply_patch: "rolled back to previous spec".  If nobody else has changed the
\* fields, an undo brings them back as they were before the patch.
UndoRestoresSpec ==
  [][\A r \in Clients :
       Undo(r) /\ Undisturbed(r) => template'.fields = before[r].fields]_vars

\* post_rollback_proposal: approving reverts the Deployment "to the previous
\* revision's spec", the one before the revision that is now there.
RevertsToPreviousRevision ==
  [][\A r \in Clients : Replace(r) => TwoRevisions /\ job[r].to = PreviousRS]_vars
=============================================================================
