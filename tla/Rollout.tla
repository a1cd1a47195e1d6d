------------------------------ MODULE Rollout ------------------------------
(***************************************************************************)
(* rollback.py: is the failing workload a recent deploy, and which         *)
(* revision would it be reverted to?                                       *)
(***************************************************************************)
EXTENDS Cluster

\* _pick_target: the ReplicaSets with the two highest revisions.
TwoRevisions == Len(history) >= 2

CurrentRS  == history[Len(history)]
PreviousRS == history[Len(history) - 1]

\* _substantive_change: image, command, args or env differ, not only what a
\* restart, a scaling or a patch of the allowed fields changes.
SubstantiveChange(t, u) == t.image # u.image

\* assess returns a RolloutInfo: the current revision is recent, and it is a
\* real change of the one before.
IsBadRollout ==
  /\ TwoRevisions
  /\ CurrentRS \notin aged
  /\ SubstantiveChange(CurrentRS, PreviousRS)

\* The template of a ReplicaSet as the API server returns it.
RSTemplate(t) == [t EXCEPT !.hash = TRUE]

\* Mutant of target_template: the label stays.
target_template_Labelled(t) == RSTemplate(t)

\* target_template: the template of the ReplicaSet named t without its label.
target_template(t) == [RSTemplate(t) EXCEPT !.hash = FALSE]
=============================================================================
