------------------------ MODULE RemediationInvariants ------------------------
(***************************************************************************)
(* The inductive invariant behind the safety properties of Remediation:    *)
(* what a remediation that stands at some program point may rely on about  *)
(* the Deployment and about what it has read.                              *)
(***************************************************************************)
EXTENDS Remediation

\* What has been read before a write is there when it is needed.
BeforeWasRead ==
  \A r \in Clients :
    pc[r] \in {"patch_dry_run", "apply", "undo", "poll", "replace_dry_run", "replace"} =>
      before[r] \in Templates

\* The ReplicaSets have run, and no template carries the label of one.
HistoryRan == history \in Seq(ran)

NoLabels == ~template.hash /\ \A t \in ran : ~t.hash

\* No row before the proposal, the two kinds of row, and the branch of on_approve that each takes.
RowsAreProposals ==
  \A r \in Clients :
    /\ pc[r] \in PatchPCs => job[r].kind = "patch"
    /\ pc[r] \in RollbackPCs => job[r].kind = "rollback"
    /\ pc[r] \in {"idle", "detected"} <=> job[r].kind = "none"
    /\ job[r].kind = "rollback" => job[r].to \in ran

\* The diff of a proposed patch is that of its first entry.
DiffsAreRendered ==
  \A r \in Clients : job[r].kind = "patch" =>
    /\ job[r].patch \in Patches
    /\ job[r].shown = render_diff(job[r].seen, job[r].patch)

\* A copy with the current resourceVersion is the Deployment as it is.
FreshCopiesAreCurrent ==
  \A r \in fresh : pc[r] \in {"replace_dry_run", "replace"} => before[r] = template

\* The count of _verify_rollout is the number of healthy readings at the end.
GoodCountsReadings ==
  \A r \in Clients :
    /\ good[r] <= Len(readings[r])
    /\ Len(readings[r]) <= _STABLE_POLLS
    /\ pc[r] \notin {"annotate", "done", "gone"} => good[r] < _STABLE_POLLS
    /\ \A n \in 1 .. Len(readings[r]) : n > Len(readings[r]) - good[r] => readings[r][n] = TRUE

HealedIsFinal ==
  \A r \in Clients : outcome[r] = "healed" => pc[r] \in {"annotate", "done"}

RemediationInv ==
  /\ RemediationTypeOK
  /\ BeforeWasRead
  /\ HistoryRan
  /\ NoLabels
  /\ RowsAreProposals
  /\ DiffsAreRendered
  /\ FreshCopiesAreCurrent
  /\ GoodCountsReadings
  /\ HealedIsFinal
  /\ HealedIsSustained

-----------------------------------------------------------------------------
(* What has been written, and by whom, which rests on RemediationInv.      *)

\* Apply and Replace come once, after a read, and the outcome is set after them.
WritesAreCounted ==
  \A r \in Clients :
    /\ pc[r] \in {"idle", "detected", "proposed", "capture", "read_target", "read"} =>
         before[r] = NoTemplate
    /\ pc[r] \in {"poll", "undo", "annotate"} => writes[r] = 1
    /\ pc[r] \notin {"poll", "undo", "annotate", "done", "gone"} => writes[r] = 0
    /\ outcome[r] # "none" <=> pc[r] \in {"annotate", "done"}
    /\ pc[r] = "annotate" => outcome[r] = "healed"

\* A remediation on its own knows the template: as read, then as patched.
AloneKnowsTemplate ==
  \A r \in Clients : Alone(r) /\ job[r].kind = "patch" =>
    /\ pc[r] \in {"patch_dry_run", "apply"} => template = before[r]
    /\ pc[r] \in {"poll", "undo", "annotate"} => template = Patched(r)

WritesInv ==
  /\ WritesAreCounted
  /\ ResultsMatchWrites
  /\ AloneKnowsTemplate
  /\ ResultsTellWhatStands
=============================================================================
