-------------------------- MODULE RemediationProofs --------------------------
(***************************************************************************)
(* Remediation, for every spec, every set of patches and edits, every      *)
(* number of remediations at work on the Deployment, and every             *)
(* disturbance: RemediationInv is inductive, and the safety properties of  *)
(* Remediation follow from it.                                             *)
(***************************************************************************)
EXTENDS RemediationInvariants, MergeProofs, SequenceTheorems

-----------------------------------------------------------------------------
(* Sequences.                                                              *)

\* Removing an element leaves a sequence over the same set.
LEMMA RemoveAtSeq ==
  ASSUME NEW S, NEW s \in Seq(S), NEW n \in 1 .. Len(s)
  PROVE  RemoveAt(s, n) \in Seq(S)
<1>1. SubSeq(s, 1, n - 1) \in Seq(S)
      BY SubSeqProperties
<1>2. SubSeq(s, n + 1, Len(s)) \in Seq(S)
      BY SubSeqProperties
<1> QED  BY <1>1, <1>2, ConcatProperties DEF RemoveAt

-----------------------------------------------------------------------------
(* The Deployment.                                                         *)

ClusterInv == ClusterTypeOK /\ HistoryRan /\ NoLabels

\* A write of an unlabelled template keeps the invariant of the Deployment.
LEMMA SetTemplateKeeps ==
  ASSUME ClusterInv, NEW t \in Templates, ~t.hash,
         SetTemplate(t), disturbed' \in 0 .. MaxDisturbances
  PROVE  ClusterInv' /\ ran \subseteq ran'
<1>1. /\ template' = t /\ observed' = (observed /\ t = template)
      /\ fresh' = (IF t = template THEN fresh ELSE {})
      /\ UNCHANGED <<level, scaledUp, history, aged, ran>>
      BY DEF SetTemplate
<1>2. observed' \in BOOLEAN
      BY <1>1, Zenon DEF ClusterInv, ClusterTypeOK
<1>3. fresh' \subseteq Clients
      BY <1>1 DEF ClusterInv, ClusterTypeOK
<1>4. ClusterTypeOK'
      BY <1>1, <1>2, <1>3 DEF ClusterInv, ClusterTypeOK
<1>5. HistoryRan' /\ NoLabels'
      BY <1>1 DEF ClusterInv, HistoryRan, NoLabels
<1> QED  BY <1>1, <1>4, <1>5 DEF ClusterInv

\* What a patch makes of the template.
LEMMA MergedTemplate ==
  ASSUME ClusterInv, NEW p \in SpecPatches
  PROVE  /\ [template EXCEPT !.fields = Merge(@, p)] \in Templates
         /\ ~[template EXCEPT !.fields = Merge(@, p)].hash
<1>1. template \in Templates /\ ~template.hash
      BY DEF ClusterInv, ClusterTypeOK, NoLabels
<1>2. Merge(template.fields, p) \in Specs
      BY <1>1, MergeType DEF Templates
<1> QED  BY <1>1, <1>2 DEF Templates

\* A patch keeps the invariant of the Deployment.
LEMMA MergeFieldsKeeps ==
  ASSUME ClusterInv, NEW p \in SpecPatches,
         MergeFields(p), disturbed' \in 0 .. MaxDisturbances
  PROVE  ClusterInv' /\ ran \subseteq ran'
BY MergedTemplate, SetTemplateKeeps DEF MergeFields

\* So does everything that the cluster and its other users do.
LEMMA ClusterStepKeeps ==
  ASSUME ClusterInv, ClusterStep
  PROVE  ClusterInv' /\ ran \subseteq ran'
<1> USE DEF ClusterInv
<1>1. CASE Sync
  <2>1. history' \in Seq(ran') /\ history' \in Seq(Templates)
    <3>1. history \in Seq(ran') /\ template \in ran' /\ template \in Templates
          BY <1>1, SeqMonotonic DEF Sync, HistoryRan, ClusterTypeOK
    <3>2. CASE history' = Append(history, template)
          BY <3>1, <3>2, AppendProperties DEF ClusterTypeOK
    <3>3. CASE \E n \in DOMAIN history : history' = Append(RemoveAt(history, n), template)
      <4>1. PICK n \in DOMAIN history : history' = Append(RemoveAt(history, n), template)
            BY <3>3
      <4>2. n \in 1 .. Len(history)
            BY <4>1, LenProperties DEF ClusterTypeOK
      <4>3. RemoveAt(history, n) \in Seq(ran') /\ RemoveAt(history, n) \in Seq(Templates)
            BY <3>1, <4>2, RemoveAtSeq DEF ClusterTypeOK
      <4> QED  BY <3>1, <4>1, <4>3, AppendProperties
    <3> QED  BY <1>1, <3>2, <3>3 DEF Sync
  <2>2. aged' \subseteq Templates /\ level' \in BOOLEAN
        BY <1>1 DEF Sync, ClusterTypeOK
  <2>3. NoLabels' /\ ran \subseteq ran' /\ ran' \subseteq Templates
        BY <1>1 DEF Sync, NoLabels, ClusterTypeOK
  <2> QED  BY <1>1, <2>1, <2>2, <2>3 DEF Sync, ClusterTypeOK, HistoryRan
<1>2. CASE PodsChange
      BY <1>2 DEF PodsChange, ClusterTypeOK, HistoryRan, NoLabels
<1>3. CASE RSAges
  <2>1. PICK n \in DOMAIN history : aged' = aged \cup {history[n]}
        BY <1>3 DEF RSAges
  <2>2. history[n] \in Templates
        BY <2>1, ElementOfSeq, LenProperties DEF ClusterTypeOK
  <2> QED  BY <1>3, <2>1, <2>2 DEF RSAges, ClusterTypeOK, HistoryRan, NoLabels
<1>4. CASE RSCollected
  <2>1. PICK n \in 1 .. Len(history) - 1 :
          history' = RemoveAt(history, n) /\ aged' = aged \ {history[n]}
        BY <1>4 DEF RSCollected
  <2>2. n \in 1 .. Len(history)
        BY <2>1, LenProperties DEF ClusterTypeOK
  <2>3. history' \in Seq(ran) /\ history' \in Seq(Templates)
        BY <2>1, <2>2, RemoveAtSeq DEF ClusterTypeOK, HistoryRan
  <2> QED  BY <1>4, <2>1, <2>3, ClusterAssumption
           DEF RSCollected, Disturb, ClusterTypeOK, HistoryRan, NoLabels
<1>5. CASE Deploy
  <2>1. disturbed' \in 0 .. MaxDisturbances
        BY <1>5, ClusterAssumption DEF Deploy, Disturb, ClusterTypeOK
  <2>2. ASSUME NEW i \in Images, SetTemplate([template EXCEPT !.image = i])
        PROVE  ClusterInv' /\ ran \subseteq ran'
    <3>1. /\ [template EXCEPT !.image = i] \in Templates
          /\ ~[template EXCEPT !.image = i].hash
          BY DEF ClusterTypeOK, NoLabels, Templates
    <3> QED  BY <2>1, <2>2, <3>1, SetTemplateKeeps
  <2>3. ASSUME NEW p \in Edits, MergeFields(p)
        PROVE  ClusterInv' /\ ran \subseteq ran'
        BY <2>1, <2>3, MergeFieldsKeeps, ClusterAssumption
  <2> QED  BY <1>5, <2>2, <2>3 DEF Deploy
<1>6. CASE Scale
  <2>1. scaledUp' \in BOOLEAN
        BY <1>6 DEF Scale
  <2>2. disturbed' \in 0 .. MaxDisturbances
        BY <1>6, ClusterAssumption DEF Scale, Disturb, ClusterTypeOK
  <2> QED  BY <1>6, <2>1, <2>2 DEF Scale, ClusterTypeOK, HistoryRan, NoLabels
<1> QED  BY <1>1, <1>2, <1>3, <1>4, <1>5, <1>6 DEF ClusterStep

\* Only a client reads the Deployment, and a change of the template makes every
\* copy outdated.
LEMMA CopiesGetOutdated ==
  ASSUME ClusterStep
  PROVE  fresh' \subseteq fresh /\ (template' = template \/ fresh' = {})
BY DEF ClusterStep, Sync, PodsChange, RSAges, RSCollected, Deploy, Scale, MergeFields,
       SetTemplate

-----------------------------------------------------------------------------
(* The remediations.                                                       *)

PCs == {"idle", "detected", "proposed", "done", "gone"} \cup WorkingPCs

\* What holds of a remediation at p, with incident and row j, ...
LocalOf(p, j, b, g, s, w, o) ==
  /\ p \in PCs
  /\ j \in Jobs
  /\ b \in Templates \cup {NoTemplate}
  /\ g \in 0 .. _STABLE_POLLS
  /\ s \in Seq(BOOLEAN)
  /\ w \in Nat
  /\ o \in Outcomes \cup {"none"}
  /\ p \in {"patch_dry_run", "apply", "undo", "poll", "replace_dry_run", "replace"} =>
       b \in Templates
  /\ p \in PatchPCs => j.kind = "patch"
  /\ p \in RollbackPCs => j.kind = "rollback"
  /\ p \in {"idle", "detected"} <=> j.kind = "none"
  /\ j.kind = "patch" =>
       /\ j.patch \in Patches
       /\ j.shown = render_diff(j.seen, j.patch)
  /\ g <= Len(s)
  /\ Len(s) <= _STABLE_POLLS
  /\ p \notin {"annotate", "done", "gone"} => g < _STABLE_POLLS
  /\ \A n \in 1 .. Len(s) : n > Len(s) - g => s[n] = TRUE
  /\ o = "healed" => p \in {"annotate", "done"}
  /\ o = "healed" => s = [n \in 1 .. _STABLE_POLLS |-> TRUE]

\* The part of the invariant that is about remediation r alone.
Local(r) ==
  /\ LocalOf(pc[r], job[r], before[r], good[r], readings[r], writes[r], outcome[r])
  /\ job[r].kind = "rollback" => job[r].to \in ran

RemediatorShape ==
  /\ DOMAIN pc = Clients /\ pc = [r \in Clients |-> pc[r]]
  /\ job = [r \in Clients |-> job[r]]
  /\ before = [r \in Clients |-> before[r]]
  /\ good = [r \in Clients |-> good[r]]
  /\ readings = [r \in Clients |-> readings[r]]
  /\ writes = [r \in Clients |-> writes[r]]
  /\ outcome = [r \in Clients |-> outcome[r]]

Parts ==
  /\ ClusterInv
  /\ RemediatorShape
  /\ \A r \in Clients : Local(r)
  /\ FreshCopiesAreCurrent

\* RemediationInv says something of the Deployment, something of each
\* remediation, and something of both.
LEMMA InvParts == RemediationInv <=> Parts
<1>1. RemediationInv => ClusterInv /\ FreshCopiesAreCurrent
      BY DEF RemediationInv, RemediationTypeOK, ClusterInv
<1>2. RemediatorTypeOK => RemediatorShape
  <2> SUFFICES ASSUME RemediatorTypeOK  PROVE RemediatorShape
      OBVIOUS
  <2>1. DOMAIN pc = Clients /\ pc = [r \in Clients |-> pc[r]]
        BY DEF RemediatorTypeOK
  <2>2. job = [r \in Clients |-> job[r]] /\ before = [r \in Clients |-> before[r]]
        BY DEF RemediatorTypeOK
  <2>3. good = [r \in Clients |-> good[r]] /\ writes = [r \in Clients |-> writes[r]]
        BY DEF RemediatorTypeOK
  <2>4. readings = [r \in Clients |-> readings[r]] /\ outcome = [r \in Clients |-> outcome[r]]
        BY DEF RemediatorTypeOK
  <2> QED  BY <2>1, <2>2, <2>3, <2>4 DEF RemediatorShape
<1>3. ASSUME RemediationInv, NEW r \in Clients
      PROVE  Local(r)
  <2>1. RemediatorTypeOK /\ BeforeWasRead /\ RowsAreProposals /\ DiffsAreRendered
        /\ GoodCountsReadings /\ HealedIsFinal /\ HealedIsSustained
        BY <1>3 DEF RemediationInv, RemediationTypeOK
  <2> QED  BY <2>1 DEF RemediatorTypeOK, BeforeWasRead, RowsAreProposals, DiffsAreRendered,
                       GoodCountsReadings, HealedIsFinal, HealedIsSustained, PCs, Local, LocalOf
<1>4. ASSUME RemediatorShape, \A r \in Clients : Local(r)
      PROVE  RemediatorTypeOK
  <2>1. pc \in [Clients -> {"idle", "detected", "proposed", "done", "gone"} \cup WorkingPCs]
        BY <1>4 DEF RemediatorShape, Local, LocalOf, PCs
  <2>2. job \in [Clients -> Jobs]
        BY <1>4 DEF RemediatorShape, Local, LocalOf
  <2>3. before \in [Clients -> Templates \cup {NoTemplate}]
        BY <1>4 DEF RemediatorShape, Local, LocalOf
  <2>4. good \in [Clients -> 0 .. _STABLE_POLLS] /\ writes \in [Clients -> Nat]
        BY <1>4 DEF RemediatorShape, Local, LocalOf
  <2>5. readings \in [Clients -> Seq(BOOLEAN)]
        BY <1>4 DEF RemediatorShape, Local, LocalOf
  <2>6. outcome \in [Clients -> Outcomes \cup {"none"}]
        BY <1>4 DEF RemediatorShape, Local, LocalOf
  <2> QED  BY <2>1, <2>2, <2>3, <2>4, <2>5, <2>6 DEF RemediatorTypeOK
<1>5. ASSUME \A r \in Clients : Local(r)
      PROVE  BeforeWasRead /\ RowsAreProposals /\ DiffsAreRendered /\ GoodCountsReadings
             /\ HealedIsFinal /\ HealedIsSustained
      BY <1>5 DEF BeforeWasRead, RowsAreProposals, DiffsAreRendered,
                  GoodCountsReadings, HealedIsFinal, HealedIsSustained, Local, LocalOf
<1>6. RemediationInv => RemediatorTypeOK
      BY DEF RemediationInv, RemediationTypeOK
<1> QED  BY <1>1, <1>2, <1>3, <1>4, <1>5, <1>6
         DEF RemediationInv, RemediationTypeOK, ClusterInv, Parts

\* The step is one of r and no other remediation notices.
OnlyMoves(r) ==
  /\ RemediatorShape'
  /\ \A x \in Clients \ {r} :
       /\ pc'[x] = pc[x] /\ job'[x] = job[x] /\ before'[x] = before[x]
       /\ good'[x] = good[x] /\ readings'[x] = readings[x]
       /\ writes'[x] = writes[x] /\ outcome'[x] = outcome[x]

\* An entry of a function changes, whatever the new one is.
LEMMA EntryMoves ==
  ASSUME NEW S, NEW f, f = [x \in S |-> f[x]], NEW g, NEW s \in S, NEW e,
         g = f \/ g = [f EXCEPT ![s] = e]
  PROVE  /\ g = [x \in S |-> g[x]] /\ DOMAIN g = S
         /\ \A x \in S \ {s} : g[x] = f[x]
OBVIOUS

\* Every step of a client is such a step.
LEMMA ClientsMoveAlone ==
  ASSUME RemediatorShape, NEW r \in Clients, ClientStep(r)
  PROVE  OnlyMoves(r)
<1> USE DEF RemediatorShape, OnlyMoves, At, Finish
<1>1. CASE Detect(r)
  <2>1. PICK s \in {template.fields[Failing], [f \in Fields |-> Absent]} :
          job' = [job EXCEPT ![r].seen = s]
        BY <1>1 DEF Detect
  <2>2. job' = [x \in Clients |-> job'[x]] /\ \A x \in Clients \ {r} : job'[x] = job[x]
        BY <2>1
  <2>3. pc' = [pc EXCEPT ![r] = "detected"] /\ UNCHANGED <<before, good, readings, writes, outcome>>
        BY <1>1 DEF Detect
  <2> QED  BY <2>2, <2>3
<1>2. CASE ProposeRollback(r)
      BY <1>2 DEF ProposeRollback
<1>3. CASE ProposePatch(r)
  <2>1. PICK p \in Patches :
          job' = [job EXCEPT ![r].kind = "patch", ![r].patch = p,
                             ![r].shown = render_diff(job[r].seen, p)]
        BY <1>3 DEF ProposePatch
  <2>2. job' = [x \in Clients |-> job'[x]] /\ \A x \in Clients \ {r} : job'[x] = job[x]
        BY <2>1
  <2>3. pc' = [pc EXCEPT ![r] = "proposed"] /\ UNCHANGED <<before, good, readings, writes, outcome>>
        BY <1>3 DEF ProposePatch
  <2> QED  BY <2>2, <2>3
<1>4. CASE Approve(r)
      BY <1>4 DEF Approve
<1>5. CASE CallFails(r) \/ CaptureSpec(r) \/ DryRunPatch(r) \/ ReadTarget(r)
           \/ ReadDeployment(r) \/ DryRunReplace(r) \/ Annotate(r) \/ Abandon(r)
      BY <1>5 DEF CallFails, CaptureSpec, DryRunPatch, ReadTarget, ReadDeployment,
                  DryRunReplace, Annotate, Abandon
<1>6. CASE Apply(r) \/ Undo(r) \/ Replace(r)
      BY <1>6 DEF Apply, Undo, Replace, Written, Answer
<1>7. CASE Poll(r)
  <2>1. UNCHANGED <<job, before, writes>>
        BY <1>7 DEF Poll
  <2>2. good' = [x \in Clients |-> good'[x]] /\ \A x \in Clients \ {r} : good'[x] = good[x]
        BY <1>7 DEF Poll
  <2>3. readings' = [x \in Clients |-> readings'[x]]
        /\ \A x \in Clients \ {r} : readings'[x] = readings[x]
        BY <1>7, EntryMoves DEF Poll, Note
  <2>4. /\ DOMAIN pc' = Clients /\ pc' = [x \in Clients |-> pc'[x]]
        /\ outcome' = [x \in Clients |-> outcome'[x]]
        /\ \A x \in Clients \ {r} : pc'[x] = pc[x] /\ outcome'[x] = outcome[x]
        BY <1>7 DEF Poll
  <2> QED  BY <2>1, <2>2, <2>3, <2>4
<1>8. CASE PollFails(r)
  <2>1. readings' = [x \in Clients |-> readings'[x]]
        /\ \A x \in Clients \ {r} : readings'[x] = readings[x]
        BY <1>8, EntryMoves DEF PollFails, Note
  <2>2. UNCHANGED <<pc, job, before, writes, outcome>> /\ good' = [good EXCEPT ![r] = 0]
        BY <1>8 DEF PollFails
  <2> QED  BY <2>1, <2>2
<1>9. CASE GiveUp(r)
  <2>1. good' = [good EXCEPT ![r] = 0] /\ readings' = [readings EXCEPT ![r] = <<>>]
        /\ UNCHANGED <<job, before, writes>>
        BY <1>9 DEF GiveUp
  <2>2. \/ pc' = [pc EXCEPT ![r] = "done"] /\ outcome' = [outcome EXCEPT ![r] = "not_healthy"]
        \/ pc' = [pc EXCEPT ![r] = "undo"] /\ outcome' = outcome
        BY <1>9 DEF GiveUp
  <2>3. /\ DOMAIN pc' = Clients /\ pc' = [x \in Clients |-> pc'[x]]
        /\ \A x \in Clients \ {r} : pc'[x] = pc[x]
        BY <2>2
  <2>4. /\ outcome' = [x \in Clients |-> outcome'[x]]
        /\ \A x \in Clients \ {r} : outcome'[x] = outcome[x]
        BY <2>2
  <2>5. /\ good' = [x \in Clients |-> good'[x]] /\ readings' = [x \in Clients |-> readings'[x]]
        /\ \A x \in Clients \ {r} : good'[x] = good[x] /\ readings'[x] = readings[x]
        BY <2>1
  <2> QED  BY <2>1, <2>3, <2>4, <2>5
<1> QED  BY <1>1, <1>2, <1>3, <1>4, <1>5, <1>6, <1>7, <1>8, <1>9 DEF ClientStep, Progress

\* A step of one remediation leaves what is known of the others.
LEMMA OthersKeep ==
  ASSUME \A x \in Clients : Local(x), NEW r \in Clients,
         OnlyMoves(r), Local(r)', ran \subseteq ran'
  PROVE  RemediatorShape' /\ \A x \in Clients : Local(x)'
<1>1. ASSUME NEW x \in Clients \ {r}
      PROVE  Local(x)'
  <2>1. /\ pc'[x] = pc[x] /\ job'[x] = job[x] /\ before'[x] = before[x]
        /\ good'[x] = good[x] /\ readings'[x] = readings[x]
        /\ writes'[x] = writes[x] /\ outcome'[x] = outcome[x]
        BY <1>1 DEF OnlyMoves
  <2>2. Local(x)
        BY <1>1
  <2> QED  BY <2>1, <2>2 DEF Local
<1> QED  BY <1>1 DEF OnlyMoves

-----------------------------------------------------------------------------
(* What each step does to the Deployment.                                  *)

\* A step of a remediation keeps the invariant of the Deployment.
LEMMA ClientKeepsCluster ==
  ASSUME ClusterInv, NEW r \in Clients, Local(r), ClientStep(r)
  PROVE  ClusterInv' /\ ran \subseteq ran'
<1>0. disturbed \in 0 .. MaxDisturbances
      BY DEF ClusterInv, ClusterTypeOK
<1>1. CASE UNCHANGED clusterVars
      BY <1>1 DEF clusterVars, ClusterInv, ClusterTypeOK, HistoryRan, NoLabels
<1>2. CASE Apply(r)
  <2>1. Net(job[r].patch) \in SpecPatches
    <3>1. job[r].patch \in PatchLists
          BY <1>2, RemediatorAssumption DEF Apply, Local, LocalOf, PatchPCs
    <3> QED  BY <3>1, NetType
  <2> QED  BY <1>0, <1>2, <2>1, MergeFieldsKeeps DEF Apply
<1>3. CASE Undo(r)
  <2>1. before[r].fields \in Specs
        BY <1>3 DEF Undo, Local, LocalOf, Templates
  <2>2. Capture(before[r].fields, Failing) \in SpecPatches
        BY <2>1, CaptureType, RemediatorAssumption
  <2> QED  BY <1>0, <1>3, <2>2, MergeFieldsKeeps DEF Undo
<1>4. CASE Replace(r)
  <2>1. job[r].to \in Templates /\ ~job[r].to.hash
        BY <1>4 DEF Replace, Local, LocalOf, RollbackPCs, ClusterInv, ClusterTypeOK, NoLabels
  <2>2. target_template(job[r].to) = job[r].to
        BY <2>1 DEF target_template, RSTemplate, Templates
  <2> QED  BY <1>0, <1>4, <2>1, <2>2, SetTemplateKeeps DEF Replace
<1>5. CASE ReadDeployment(r)
      BY <1>5 DEF ReadDeployment, ClusterInv, ClusterTypeOK, HistoryRan, NoLabels
<1>6. CASE Annotated
      BY <1>6 DEF Annotated, ClusterInv, ClusterTypeOK, HistoryRan, NoLabels
<1>7. \/ UNCHANGED clusterVars \/ Annotated
      \/ Apply(r) \/ Undo(r) \/ Replace(r) \/ ReadDeployment(r)
      BY DEF ClientStep, Progress, Detect, ProposeRollback, ProposePatch, Approve, CallFails,
             CaptureSpec, DryRunPatch, ReadTarget, DryRunReplace, Poll, PollFails, GiveUp,
             Annotate, Abandon
<1> QED  BY <1>1, <1>2, <1>3, <1>4, <1>5, <1>6, <1>7

-----------------------------------------------------------------------------
(* What each step does to the remediation that takes it.                   *)

\* The proposal: the incident records the spec, then there is a row.
LEMMA ProposalKeepsLocal ==
  ASSUME ClusterInv, RemediatorShape, NEW r \in Clients, Local(r),
         Detect(r) \/ ProposeRollback(r) \/ ProposePatch(r) \/ Approve(r)
  PROVE  Local(r)'
<1>0. LocalOf(pc[r], job[r], before[r], good[r], readings[r], writes[r], outcome[r])
      BY DEF Local
<1>1. /\ before'[r] = before[r] /\ good'[r] = good[r] /\ readings'[r] = readings[r]
      /\ writes'[r] = writes[r] /\ outcome'[r] = outcome[r] /\ ran' = ran
      BY DEF Detect, ProposeRollback, ProposePatch, Approve, clusterVars
<1> USE DEF Local, LocalOf, PCs, WorkingPCs, PatchPCs, RollbackPCs, Jobs
<1>2. CASE Detect(r)
  <2>1. pc[r] = "idle" /\ pc'[r] = "detected"
        BY <1>2 DEF Detect, At, RemediatorShape
  <2>2. PICK v \in {template.fields[Failing], [f \in Fields |-> Absent]} :
          job' = [job EXCEPT ![r].seen = v]
        BY <1>2 DEF Detect
  <2>3. job'[r] = [job[r] EXCEPT !.seen = v]
        BY <2>2 DEF RemediatorShape
  <2>4. v \in [Fields -> FieldValues]
    <3>1. template.fields[Failing] \in [Fields -> FieldValues]
          BY RemediatorAssumption DEF ClusterInv, ClusterTypeOK, Templates, Specs
    <3>2. Absent \in FieldValues
          BY DEF Absent, NoLeaves, FieldValues
    <3> QED  BY <3>1, <3>2
  <2>5. job'[r] \in Jobs /\ job'[r].kind = job[r].kind
        BY <1>0, <2>3, <2>4
  <2> HIDE DEF Jobs
  <2> QED  BY <1>0, <1>1, <2>1, <2>5
<1>3. CASE ProposeRollback(r)
  <2>1. /\ pc[r] = "detected" /\ pc'[r] = "proposed"
        /\ job'[r] = [job[r] EXCEPT !.kind = "rollback", !.to = PreviousRS]
        BY <1>3 DEF ProposeRollback, At, RemediatorShape
  <2>2. PreviousRS \in ran /\ PreviousRS \in Templates
        BY <1>3, ElementOfSeq, LenProperties
        DEF ProposeRollback, IsBadRollout, TwoRevisions, PreviousRS, ClusterInv, ClusterTypeOK,
            HistoryRan
  <2> QED  BY <1>0, <1>1, <2>1, <2>2
<1>4. CASE ProposePatch(r)
  <2>1. /\ pc[r] = "detected" /\ pc'[r] = "proposed"
        BY <1>4 DEF ProposePatch, At, RemediatorShape
  <2>2. PICK p \in Patches :
          job' = [job EXCEPT ![r].kind = "patch", ![r].patch = p,
                             ![r].shown = render_diff(job[r].seen, p)]
        BY <1>4 DEF ProposePatch
  <2>3. job'[r] = [job[r] EXCEPT !.kind = "patch", !.patch = p,
                                 !.shown = render_diff(job[r].seen, p)]
        BY <2>2 DEF RemediatorShape
  <2>4. p \in PatchLists /\ render_diff(job[r].seen, p) \subseteq Fields \X Paths
        BY RemediatorAssumption DEF render_diff
  <2>5. /\ job'[r] \in Jobs /\ job'[r].kind = "patch" /\ job'[r].patch = p
        /\ job'[r].seen = job[r].seen /\ job'[r].shown = render_diff(job[r].seen, p)
    <3>1. job[r] \in Jobs
          BY <1>0
    <3> DEFINE d == render_diff(job[r].seen, p)
    <3>2. d \in SUBSET (Fields \X Paths)
          BY <2>4
    <3>3. job'[r] = [job[r] EXCEPT !.kind = "patch", !.patch = p, !.shown = d]
          BY <2>3
    <3> HIDE DEF d
    <3>4. job'[r].kind = "patch" /\ job'[r].patch = p /\ job'[r].seen = job[r].seen
          /\ job'[r].shown = d
          BY <3>1, <3>3
    <3>5. job'[r] \in Jobs
          BY <2>4, <3>1, <3>2, <3>3
    <3> QED  BY <3>4, <3>5 DEF d
  <2>6. job'[r].patch \in Patches /\ job'[r].shown = render_diff(job'[r].seen, job'[r].patch)
        BY <2>5
  <2> HIDE DEF Jobs
  <2> QED  BY <1>0, <1>1, <2>1, <2>5, <2>6
<1>5. CASE Approve(r)
  <2>1. /\ pc[r] = "proposed" /\ job'[r] = job[r]
        /\ pc'[r] = IF job[r].kind = "rollback" THEN "read_target" ELSE "capture"
        BY <1>5 DEF Approve, At, RemediatorShape
  <2> QED  BY <1>0, <1>1, <2>1
<1> QED  BY <1>2, <1>3, <1>4, <1>5

\* Everything but the polling of a remediation at work, and its end.
LEMMA WritingKeepsLocal ==
  ASSUME ClusterInv, RemediatorShape, NEW r \in Clients, Local(r), ran \subseteq ran',
         \/ CallFails(r) \/ CaptureSpec(r) \/ DryRunPatch(r) \/ Apply(r) \/ Undo(r)
         \/ ReadTarget(r) \/ ReadDeployment(r) \/ DryRunReplace(r) \/ Replace(r)
         \/ Annotate(r) \/ Abandon(r)
  PROVE  Local(r)'
<1>0. LocalOf(pc[r], job[r], before[r], good[r], readings[r], writes[r], outcome[r])
      BY DEF Local
<1>1. job'[r] = job[r] /\ good'[r] = good[r] /\ readings'[r] = readings[r]
      BY DEF CallFails, CaptureSpec, DryRunPatch, Apply, Undo, ReadTarget, ReadDeployment,
             DryRunReplace, Replace, Annotate, Abandon
<1> USE DEF Local, LocalOf, PCs, WorkingPCs, PatchPCs, RollbackPCs, Outcomes
<1> USE DEF At, Finish, RemediatorShape
<1>2. CASE CallFails(r)
  <2>1. pc[r] \in WorkingPCs /\ before'[r] = before[r] /\ writes'[r] = writes[r]
        BY <1>2 DEF CallFails
  <2>2. pc'[r] = "done" /\ outcome'[r] \in Outcomes \ {"healed"}
        BY <1>2 DEF CallFails
  <2> QED  BY <1>0, <1>1, <2>1, <2>2
<1>3. CASE CaptureSpec(r)
  <2>1. /\ pc[r] = "capture" /\ pc'[r] = "patch_dry_run" /\ before'[r] = template
        /\ writes'[r] = writes[r] /\ outcome'[r] = outcome[r]
        BY <1>3 DEF CaptureSpec
  <2>2. template \in Templates
        BY DEF ClusterInv, ClusterTypeOK
  <2> QED  BY <1>0, <1>1, <2>1, <2>2
<1>4. CASE DryRunPatch(r)
  <2>1. /\ pc[r] = "patch_dry_run" /\ pc'[r] = "apply" /\ before'[r] = before[r]
        /\ writes'[r] = writes[r] /\ outcome'[r] = outcome[r]
        BY <1>4 DEF DryRunPatch
  <2> QED  BY <1>0, <1>1, <2>1
<1>5. CASE Apply(r) \/ Replace(r)
  <2>1. pc[r] \in {"apply", "replace"} /\ before'[r] = before[r] /\ writes'[r] = writes[r] + 1
        BY <1>5 DEF Apply, Replace, Written
  <2>2. \/ pc'[r] = "poll" /\ outcome'[r] = outcome[r]
        \/ pc'[r] = "done" /\ outcome'[r] = "apply_failed"
        BY <1>5 DEF Apply, Replace, Answer
  <2> QED  BY <1>0, <1>1, <2>1, <2>2
<1>6. CASE Undo(r)
  <2>1. pc[r] = "undo" /\ before'[r] = before[r] /\ writes'[r] = writes[r]
        BY <1>6 DEF Undo
  <2>2. pc'[r] = "done" /\ outcome'[r] \in {"undone", "undo_failed"}
        BY <1>6 DEF Undo
  <2> QED  BY <1>0, <1>1, <2>1, <2>2
<1>7. CASE ReadTarget(r)
  <2>1. pc[r] = "read_target" /\ before'[r] = before[r] /\ writes'[r] = writes[r]
        BY <1>7 DEF ReadTarget
  <2>2. \/ pc'[r] = "read" /\ outcome'[r] = outcome[r]
        \/ pc'[r] = "done" /\ outcome'[r] = "unread"
        BY <1>7 DEF ReadTarget
  <2> QED  BY <1>0, <1>1, <2>1, <2>2
<1>8. CASE ReadDeployment(r)
  <2>1. /\ pc[r] = "read" /\ pc'[r] = "replace_dry_run" /\ before'[r] = template
        /\ writes'[r] = writes[r] /\ outcome'[r] = outcome[r]
        BY <1>8 DEF ReadDeployment
  <2>2. template \in Templates
        BY DEF ClusterInv, ClusterTypeOK
  <2> QED  BY <1>0, <1>1, <2>1, <2>2
<1>9. CASE DryRunReplace(r)
  <2>1. /\ pc[r] = "replace_dry_run" /\ pc'[r] = "replace" /\ before'[r] = before[r]
        /\ writes'[r] = writes[r] /\ outcome'[r] = outcome[r]
        BY <1>9 DEF DryRunReplace
  <2> QED  BY <1>0, <1>1, <2>1
<1>10. CASE Annotate(r)
  <2>1. /\ pc[r] = "annotate" /\ pc'[r] = "done" /\ before'[r] = before[r]
        /\ writes'[r] = writes[r] /\ outcome'[r] = outcome[r]
        BY <1>10 DEF Annotate
  <2> QED  BY <1>0, <1>1, <2>1
<1>11. CASE Abandon(r)
  <2>1. /\ pc[r] \in WorkingPCs /\ pc'[r] = "gone" /\ before'[r] = before[r]
        /\ writes'[r] = writes[r] /\ outcome'[r] = "none"
        BY <1>11 DEF Abandon
  <2> QED  BY <1>0, <1>1, <2>1
<1> QED  BY <1>2, <1>3, <1>4, <1>5, <1>6, <1>7, <1>8, <1>9, <1>10, <1>11

\* The number of readings kept after L of them and one more, and the count.
KeptAfter(L) == IF L = _STABLE_POLLS THEN L ELSE L + 1
GoodAfter(v, ok, g) == IF v = ok THEN g + 1 ELSE 0

\* The last g of the L readings s are good; t is s with one more reading v.
GoodAtEnd(s, L, g, ok) == \A n \in 1 .. L : n > L - g => s[n] = ok
OneMore(t, s, L, v) ==
  /\ t[KeptAfter(L)] = v
  /\ \A n \in 1 .. KeptAfter(L) - 1 : t[n] = s[n + L + 1 - KeptAfter(L)]

\* A reading is noted: the last ones are kept, the oldest is dropped.
LEMMA LatestReadings ==
  ASSUME NEW S, NEW s \in Seq(S), NEW L \in Nat, L = Len(s), L <= _STABLE_POLLS, NEW v \in S,
         NEW t, t = Latest(Append(s, v)),
         NEW K, K = KeptAfter(L)
  PROVE  /\ t \in Seq(S) /\ Len(t) = K
         /\ t[K] = v
         /\ \A n \in 1 .. K - 1 : t[n] = s[n + L + 1 - K]
<1> DEFINE a == Append(s, v)
           b == Tail(a)
<1>1. /\ a \in Seq(S) /\ Len(a) = L + 1 /\ a[L + 1] = v
      /\ \A n \in 1 .. L : a[n] = s[n]
      BY AppendProperties
<1>2. a # <<>>
      BY AppendProperties
<1>3. b \in Seq(S) /\ Len(b) = Len(a) - 1 /\ \A n \in 1 .. Len(a) - 1 : b[n] = a[n + 1]
      BY <1>1, <1>2, HeadTailProperties
<1>4. t = IF Len(a) > 3 THEN b ELSE a
      BY DEF Latest, _STABLE_POLLS
<1> HIDE DEF a, b
<1>5. Len(b) = L /\ \A n \in 1 .. L : b[n] = a[n + 1]
      BY <1>1, <1>3
<1>6. CASE L = 3
  <2>1. t = b /\ K = 3
        BY <1>1, <1>4, <1>6 DEF _STABLE_POLLS, KeptAfter
  <2>2. t[3] = v
        BY <1>1, <1>5, <1>6, <2>1
  <2>3. ASSUME NEW n \in 1 .. 2
        PROVE  t[n] = s[n + L + 1 - K]
    <3>1. b[n] = a[n + 1] /\ a[n + 1] = s[n + 1] /\ n + L + 1 - K = n + 1
          BY <1>1, <1>5, <1>6, <2>1
    <3> QED  BY <2>1, <3>1
  <2> QED  BY <1>3, <1>5, <1>6, <2>1, <2>2, <2>3
<1>7. CASE L < 3
  <2>1. t = a /\ K = L + 1
        BY <1>1, <1>4, <1>7 DEF _STABLE_POLLS, KeptAfter
  <2>2. ASSUME NEW n \in 1 .. L
        PROVE  t[n] = s[n + L + 1 - K]
    <3>1. n + L + 1 - K = n
          BY <2>1
    <3> QED  BY <1>1, <2>1, <3>1
  <2>3. \A n \in 1 .. K - 1 : t[n] = s[n + L + 1 - K]
    <3>1. K - 1 = L
          BY <2>1
    <3> QED  BY <2>2, <3>1
  <2>4. t[K] = v /\ t \in Seq(S) /\ Len(t) = K
        BY <1>1, <2>1
  <2> QED  BY <2>3, <2>4
<1>8. L = 3 \/ L < 3
      BY DEF _STABLE_POLLS
<1> QED  BY <1>6, <1>7, <1>8, Zenon

\* A reading v moves the count of the good ones at the end from g to h.
LEMMA CountMoves ==
  ASSUME NEW s, NEW t, NEW v, NEW ok, NEW L \in 0 .. 3, NEW g \in 0 .. 2, g <= L,
         GoodAtEnd(s, L, g, ok), OneMore(t, s, L, v)
  PROVE  /\ GoodAfter(v, ok, g) <= KeptAfter(L)
         /\ GoodAtEnd(t, KeptAfter(L), GoodAfter(v, ok, g), ok)
<1> DEFINE h == GoodAfter(v, ok, g)
           K == KeptAfter(L)
<1> USE DEF GoodAtEnd, OneMore
<1>1. K \in 1 .. 3 /\ h \in 0 .. 3 /\ h <= K
      BY DEF KeptAfter, GoodAfter, _STABLE_POLLS
<1>2. ASSUME NEW n \in 1 .. K, n > K - h
      PROVE  t[n] = ok
  <2>1. v = ok /\ h = g + 1
        BY <1>1, <1>2 DEF GoodAfter
  <2>2. CASE n = K
        BY <2>1, <2>2
  <2>3. CASE n < K
    <3>1. n + L + 1 - K \in 1 .. L /\ n + L + 1 - K > L - g
          BY <1>1, <1>2, <2>1, <2>3 DEF KeptAfter, _STABLE_POLLS
    <3>2. t[n] = s[n + L + 1 - K]
          BY <1>1, <2>3
    <3> QED  BY <3>1, <3>2
  <2> QED  BY <1>1, <2>2, <2>3
<1> QED  BY <1>1, <1>2

\* The count after a reading v is still the number of good ones at the end.
LEMMA CountAfter ==
  ASSUME NEW S, NEW ok \in S, NEW s \in Seq(S), NEW L \in Nat, L = Len(s),
         NEW g \in 0 .. _STABLE_POLLS, NEW v \in S,
         g <= L, L <= _STABLE_POLLS, g < _STABLE_POLLS,
         GoodAtEnd(s, L, g, ok),
         NEW h, h = GoodAfter(v, ok, g),
         NEW t, t = Latest(Append(s, v))
  PROVE  \E K \in Nat :
           /\ h \in 0 .. _STABLE_POLLS /\ t \in Seq(S) /\ Len(t) = K
           /\ h <= K /\ K <= _STABLE_POLLS
           /\ GoodAtEnd(t, K, h, ok)
           /\ h >= _STABLE_POLLS => t = [n \in 1 .. _STABLE_POLLS |-> ok]
<1> DEFINE K == KeptAfter(L)
<1>0. K = KeptAfter(L)
      OBVIOUS
<1> HIDE DEF K
<1>1. /\ t \in Seq(S) /\ Len(t) = K /\ t[K] = v
      /\ \A n \in 1 .. K - 1 : t[n] = s[n + L + 1 - K]
      BY LatestReadings DEF K
<1>2. L \in 0 .. 3 /\ g \in 0 .. 2 /\ _STABLE_POLLS = 3
      BY DEF _STABLE_POLLS
<1>3. h <= K /\ GoodAtEnd(t, K, h, ok)
  <2>1. OneMore(t, s, L, v)
        BY <1>0, <1>1 DEF OneMore
  <2>2. GoodAfter(v, ok, g) <= KeptAfter(L) /\ GoodAtEnd(t, KeptAfter(L), GoodAfter(v, ok, g), ok)
        BY ONLY <1>2, <2>1, GoodAtEnd(s, L, g, ok), g <= L, CountMoves
  <2> QED  BY <1>0, <2>2
<1>4. K \in Nat /\ K <= 3
      BY <1>2 DEF KeptAfter, K
<1>5. h \in 0 .. 3
      BY <1>2 DEF GoodAfter
<1>6. ASSUME h >= _STABLE_POLLS
      PROVE  t = [n \in 1 .. _STABLE_POLLS |-> ok]
  <2>1. h = 3 /\ K = 3
        BY <1>2, <1>3, <1>4, <1>5, <1>6
  <2>2. t = [n \in 1 .. 3 |-> t[n]]
        BY <1>1, <2>1, LenProperties
  <2>3. ASSUME NEW n \in 1 .. 3
        PROVE  t[n] = ok
    <3>1. n \in 1 .. K /\ n > K - h
          BY <2>1
    <3> QED  BY <1>3, <3>1 DEF GoodAtEnd
  <2> QED  BY <1>2, <2>2, <2>3
<1> QED  BY <1>1, <1>2, <1>3, <1>4, <1>5, <1>6

\* One reading, good or not, keeps the counts of _verify_rollout.
LEMMA ReadingKeeps ==
  ASSUME NEW r \in Clients, Local(r), pc[r] = "poll", NEW v \in BOOLEAN,
         readings'[r] = Latest(Append(readings[r], v)),
         good'[r] = IF v = TRUE THEN good[r] + 1 ELSE 0
  PROVE  \E K \in Nat :
           /\ good'[r] \in 0 .. _STABLE_POLLS /\ readings'[r] \in Seq(BOOLEAN)
           /\ Len(readings'[r]) = K
           /\ good'[r] <= K /\ K <= _STABLE_POLLS
           /\ GoodAtEnd(readings'[r], K, good'[r], TRUE)
           /\ good'[r] >= _STABLE_POLLS =>
                readings'[r] = [n \in 1 .. _STABLE_POLLS |-> TRUE]
<1> DEFINE s == readings[r]
           g == good[r]
           t == readings'[r]
           h == good'[r]
           S == BOOLEAN
           ok == TRUE
<1>1. /\ s \in Seq(S) /\ g \in 0 .. _STABLE_POLLS /\ g < _STABLE_POLLS
      /\ g <= Len(s) /\ Len(s) <= _STABLE_POLLS
      /\ \A n \in 1 .. Len(s) : n > Len(s) - g => s[n] = ok
      BY DEF Local, LocalOf
<1>2. PICK L \in Nat : L = Len(s)
      BY <1>1, LenProperties
<1>3. g <= L /\ L <= _STABLE_POLLS /\ GoodAtEnd(s, L, g, ok)
      BY <1>1, <1>2 DEF GoodAtEnd
<1>4. t = Latest(Append(s, v)) /\ h = GoodAfter(v, ok, g) /\ ok \in S /\ v \in S
      BY DEF GoodAfter
<1> HIDE DEF s, g, t, h, S, ok
<1>5. \E K \in Nat :
           /\ h \in 0 .. _STABLE_POLLS /\ t \in Seq(S) /\ Len(t) = K
           /\ h <= K /\ K <= _STABLE_POLLS
           /\ GoodAtEnd(t, K, h, ok)
           /\ h >= _STABLE_POLLS => t = [n \in 1 .. _STABLE_POLLS |-> ok]
      BY <1>1, <1>2, <1>3, <1>4, CountAfter
<1> QED  BY <1>5 DEF t, h, S, ok

\* Polling, and the end of it.
LEMMA PollingKeepsLocal ==
  ASSUME ClusterInv, RemediatorShape, NEW r \in Clients, Local(r),
         Poll(r) \/ PollFails(r) \/ GiveUp(r)
  PROVE  Local(r)'
<1>0. /\ LocalOf(pc[r], job[r], before[r], good[r], readings[r], writes[r], outcome[r])
      /\ job[r].kind = "rollback" => job[r].to \in ran
      BY DEF Local
<1>1. /\ job'[r] = job[r] /\ before'[r] = before[r] /\ writes'[r] = writes[r] /\ ran' = ran
      /\ pc[r] = "poll"
      BY DEF Poll, PollFails, GiveUp, clusterVars
<1>2. outcome[r] # "healed" /\ before[r] \in Templates
      BY <1>0, <1>1 DEF LocalOf
<1>3. SUFFICES LocalOf(pc'[r], job[r], before[r], good'[r], readings'[r], writes[r], outcome'[r])
      BY <1>0, <1>1 DEF Local
<1>4. ASSUME NEW v \in BOOLEAN, readings'[r] = Latest(Append(readings[r], v)),
             good'[r] = IF v = TRUE THEN good[r] + 1 ELSE 0,
             \/ /\ good'[r] >= _STABLE_POLLS
                /\ pc'[r] = "annotate" /\ outcome'[r] = "healed"
             \/ /\ ~(good'[r] >= _STABLE_POLLS)
                /\ pc'[r] = pc[r] /\ outcome'[r] = outcome[r]
      PROVE  LocalOf(pc'[r], job[r], before[r], good'[r], readings'[r], writes[r], outcome'[r])
  <2>1. PICK K \in Nat :
           /\ good'[r] \in 0 .. _STABLE_POLLS /\ readings'[r] \in Seq(BOOLEAN)
           /\ Len(readings'[r]) = K
           /\ good'[r] <= K /\ K <= _STABLE_POLLS
           /\ GoodAtEnd(readings'[r], K, good'[r], TRUE)
           /\ good'[r] >= _STABLE_POLLS =>
                readings'[r] = [n \in 1 .. _STABLE_POLLS |-> TRUE]
        BY <1>1, <1>4, ReadingKeeps
  <2>2. /\ good'[r] <= Len(readings'[r]) /\ Len(readings'[r]) <= _STABLE_POLLS
        /\ \A n \in 1 .. Len(readings'[r]) :
             n > Len(readings'[r]) - good'[r] => readings'[r][n] = TRUE
        BY <2>1, Zenon DEF GoodAtEnd
  <2>3. pc'[r] \notin {"annotate", "done", "gone"} => good'[r] < _STABLE_POLLS
        BY <1>4, <2>1 DEF _STABLE_POLLS
  <2>4. outcome'[r] = "healed" =>
          /\ pc'[r] \in {"annotate", "done"}
          /\ readings'[r] = [n \in 1 .. _STABLE_POLLS |-> TRUE]
        BY <1>2, <1>4, <2>1
  <2>5. pc'[r] \in {"poll", "annotate"} /\ outcome'[r] \in Outcomes \cup {"none"}
        BY <1>0, <1>1, <1>4 DEF LocalOf, Outcomes
  <2> QED  BY <1>0, <1>1, <1>2, <2>1, <2>2, <2>3, <2>4, <2>5
           DEF LocalOf, PCs, WorkingPCs, PatchPCs, RollbackPCs
<1>5. CASE Poll(r)
  <2>1. RolledOut \in BOOLEAN /\ readings'[r] = Latest(Append(readings[r], RolledOut))
        BY <1>5 DEF Poll, Note, RolledOut, RemediatorShape
  <2>2. good'[r] = IF RolledOut = TRUE THEN good[r] + 1 ELSE 0
        BY <1>5 DEF Poll, RolledOut, healthy, RemediatorShape
  <2>3. \/ good'[r] >= _STABLE_POLLS /\ pc'[r] = "annotate" /\ outcome'[r] = "healed"
        \/ ~(good'[r] >= _STABLE_POLLS) /\ pc'[r] = pc[r] /\ outcome'[r] = outcome[r]
        BY <1>5 DEF Poll, At, RemediatorShape
  <2> QED  BY <1>4, <2>1, <2>2, <2>3
<1>6. CASE PollFails(r)
  <2>1. readings'[r] = Latest(Append(readings[r], FALSE))
        BY <1>6 DEF PollFails, Note, RemediatorShape
  <2>2. good'[r] = 0 /\ pc'[r] = pc[r] /\ outcome'[r] = outcome[r]
        BY <1>6 DEF PollFails, RemediatorShape
  <2>3. ~(good'[r] >= _STABLE_POLLS) /\ good'[r] = IF FALSE = TRUE THEN good[r] + 1 ELSE 0
        BY <2>2 DEF _STABLE_POLLS
  <2> QED  BY <1>4, <2>1, <2>2, <2>3
<1>7. CASE GiveUp(r)
  <2>1. good'[r] = 0 /\ readings'[r] = <<>>
        BY <1>7 DEF GiveUp, RemediatorShape
  <2>2. \/ job[r].kind = "rollback" /\ pc'[r] = "done" /\ outcome'[r] = "not_healthy"
        \/ job[r].kind # "rollback" /\ pc'[r] = "undo" /\ outcome'[r] = outcome[r]
        BY <1>7 DEF GiveUp, At, Finish, RemediatorShape
  <2>3. readings'[r] \in Seq(BOOLEAN) /\ Len(readings'[r]) = 0
        BY <2>1, EmptySeq
  <2>4. /\ good'[r] <= Len(readings'[r]) /\ Len(readings'[r]) <= _STABLE_POLLS
        /\ good'[r] \in 0 .. _STABLE_POLLS /\ good'[r] < _STABLE_POLLS
        /\ \A n \in 1 .. Len(readings'[r]) : FALSE
        BY <2>1, <2>3 DEF _STABLE_POLLS
  <2>5. outcome'[r] # "healed" /\ outcome'[r] \in Outcomes \cup {"none"}
        BY <1>0, <1>2, <2>2 DEF LocalOf, Outcomes
  <2> QED  BY <1>0, <1>1, <1>2, <2>2, <2>3, <2>4, <2>5
           DEF LocalOf, PCs, WorkingPCs, PatchPCs, RollbackPCs, Jobs
<1> QED  BY <1>5, <1>6, <1>7

\* What one remediation does makes every copy outdated that it should: the
\* others' copies, and its own one once it is written.
LEMMA ClientKeepsFresh ==
  ASSUME ClusterInv, RemediatorShape, NEW r \in Clients, ClientStep(r), FreshCopiesAreCurrent
  PROVE  FreshCopiesAreCurrent'
<1>0. OnlyMoves(r)
      BY ClientsMoveAlone
<1>1. /\ \A x \in Clients \ {r} : pc'[x] = pc[x] /\ before'[x] = before[x]
      /\ fresh \subseteq Clients
      BY <1>0 DEF OnlyMoves, ClusterInv, ClusterTypeOK
<1>2. CASE UNCHANGED <<template, fresh>> /\ before'[r] = before[r]
           /\ (pc'[r] \in {"replace_dry_run", "replace"} =>
                  pc[r] \in {"replace_dry_run", "replace"})
      BY <1>1, <1>2 DEF FreshCopiesAreCurrent
<1>3. CASE fresh' \subseteq fresh /\ (template' = template \/ fresh' = {})
           /\ pc'[r] \notin {"replace_dry_run", "replace"}
      BY <1>1, <1>3 DEF FreshCopiesAreCurrent
<1>4. CASE ReadDeployment(r)
      BY <1>1, <1>4 DEF FreshCopiesAreCurrent, ReadDeployment, RemediatorShape
<1>5. CASE Apply(r) \/ Undo(r) \/ Replace(r)
  <2>1. fresh' \subseteq fresh /\ (template' = template \/ fresh' = {})
        BY <1>5 DEF Apply, Undo, Replace, MergeFields, SetTemplate
  <2>2. pc'[r] \in {"poll", "done"}
        BY <1>5 DEF Apply, Undo, Replace, Answer, At, Finish, RemediatorShape
  <2> QED  BY <1>3, <2>1, <2>2
<1>6. CASE Annotate(r)
  <2>1. fresh' \subseteq fresh /\ template' = template
        BY <1>6 DEF Annotate, Annotated, clusterVars
  <2>2. pc'[r] = "done"
        BY <1>6 DEF Annotate, At, RemediatorShape
  <2> QED  BY <1>3, <2>1, <2>2
<1>7. CASE CaptureSpec(r)
  <2>1. UNCHANGED <<template, fresh>> /\ pc'[r] = "patch_dry_run"
        BY <1>7 DEF CaptureSpec, At, clusterVars, RemediatorShape
  <2> QED  BY <1>3, <2>1
<1>8. CASE \/ Detect(r) \/ ProposeRollback(r) \/ ProposePatch(r) \/ Approve(r) \/ CallFails(r)
           \/ DryRunPatch(r) \/ ReadTarget(r) \/ DryRunReplace(r)
           \/ Poll(r) \/ PollFails(r) \/ GiveUp(r) \/ Abandon(r)
  <2>1. UNCHANGED <<template, fresh>> /\ before'[r] = before[r]
        BY <1>8 DEF Detect, ProposeRollback, ProposePatch, Approve, CallFails, DryRunPatch,
                    ReadTarget, DryRunReplace, Poll, PollFails, GiveUp, Abandon, clusterVars
  <2>2. pc'[r] \in {"replace_dry_run", "replace"} => pc[r] \in {"replace_dry_run", "replace"}
        BY <1>8 DEF Detect, ProposeRollback, ProposePatch, Approve, CallFails, DryRunPatch,
                    ReadTarget, DryRunReplace, Poll, PollFails, GiveUp, Abandon, At, Finish,
                    RemediatorShape
  <2> QED  BY <1>2, <2>1, <2>2
<1> QED  BY <1>4, <1>5, <1>6, <1>7, <1>8 DEF ClientStep, Progress

-----------------------------------------------------------------------------
(* The invariant.                                                          *)

LEMMA InitEstablishesInv == Init => RemediationInv
<1> SUFFICES ASSUME Init  PROVE RemediationInv
    OBVIOUS
<1> USE DEF Init, ClusterInit, RemediatorInit
<1>1. template \in Templates /\ ~template.hash /\ history = <<template>>
      BY ClusterAssumption DEF Templates
<1>2. ClusterInv
  <2>1. history \in Seq(Templates) /\ history \in Seq(ran)
        BY <1>1
  <2>2. 0 \in 0 .. MaxDisturbances
        BY ClusterAssumption
  <2> QED  BY <1>1, <2>1, <2>2 DEF ClusterInv, ClusterTypeOK, HistoryRan, NoLabels
<1>3. RemediatorShape
      BY DEF RemediatorShape
<1>4. ASSUME NEW r \in Clients
      PROVE  Local(r)
  <2>1. NoJob \in Jobs
    <3>1. NoLeaves \in [Paths -> Values \cup {Nothing}]
          BY DEF NoLeaves
    <3>2. Keep \in FieldPatches
          BY DEF Keep, FieldPatches, NoLeaves
    <3>3. Absent \in FieldValues
          BY <3>1 DEF Absent, FieldValues
    <3>4. NoFieldPatches \in [Fields -> FieldPatches]
          BY <3>2 DEF NoFieldPatches
    <3>5. NoPatch \in SpecPatches
          BY <3>4 DEF NoPatch, SpecPatches
    <3>6. [name |-> Failing, first |-> NoFieldPatches, rest |-> NoPatch] \in PatchLists
          BY <3>4, <3>5, RemediatorAssumption DEF PatchLists
    <3> QED  BY <3>3, <3>6 DEF NoJob, Jobs
  <2>2. /\ pc[r] = "idle" /\ job[r] = NoJob /\ before[r] = NoTemplate /\ good[r] = 0
        /\ readings[r] = <<>> /\ writes[r] = 0 /\ outcome[r] = "none"
        BY <1>4
  <2>3. NoJob.kind = "none"
        BY DEF NoJob
  <2>4. <<>> \in Seq(BOOLEAN) /\ Len(<<>>) = 0
        BY EmptySeq
  <2> QED  BY <2>1, <2>2, <2>3, <2>4
           DEF Local, LocalOf, PCs, WorkingPCs, PatchPCs, RollbackPCs, _STABLE_POLLS
<1>5. FreshCopiesAreCurrent
      BY DEF FreshCopiesAreCurrent
<1> QED  BY <1>2, <1>3, <1>4, <1>5, InvParts DEF Parts

LEMMA StepKeepsInv == RemediationInv /\ [Next]_vars => RemediationInv'
<1> SUFFICES ASSUME RemediationInv, [Next]_vars  PROVE RemediationInv'
    OBVIOUS
<1>1. ClusterInv /\ RemediatorShape /\ (\A x \in Clients : Local(x)) /\ FreshCopiesAreCurrent
      BY InvParts DEF Parts
<1>2. Parts' => RemediationInv'
      BY InvParts, PTL
<1>3. ASSUME UNCHANGED remediatorVars, ran \subseteq ran'
      PROVE  RemediatorShape' /\ \A x \in Clients : Local(x)'
  <2>1. RemediatorShape'
        BY <1>1, <1>3 DEF RemediatorShape, remediatorVars
  <2>2. ASSUME NEW x \in Clients  PROVE Local(x)'
        BY <1>1, <1>3 DEF Local, remediatorVars
  <2> QED  BY <2>1, <2>2
<1>4. CASE ClusterStep /\ UNCHANGED remediatorVars
  <2>1. ClusterInv' /\ ran \subseteq ran'
        BY <1>1, <1>4, ClusterStepKeeps
  <2>2. FreshCopiesAreCurrent'
        BY <1>1, <1>4, CopiesGetOutdated DEF FreshCopiesAreCurrent, remediatorVars
  <2> QED  BY <1>2, <1>3, <1>4, <2>1, <2>2 DEF Parts
<1>5. CASE \E r \in Clients : ClientStep(r)
  <2>1. PICK r \in Clients : ClientStep(r)
        BY <1>5
  <2>2. ClusterInv' /\ ran \subseteq ran'
        BY <1>1, <2>1, ClientKeepsCluster
  <2>3. Local(r)'
        BY <1>1, <2>1, <2>2, ProposalKeepsLocal, WritingKeepsLocal, PollingKeepsLocal
        DEF ClientStep, Progress
  <2>4. RemediatorShape' /\ \A x \in Clients : Local(x)'
        BY <1>1, <2>1, <2>2, <2>3, ClientsMoveAlone, OthersKeep
  <2>5. FreshCopiesAreCurrent'
        BY <1>1, <2>1, ClientKeepsFresh
  <2> QED  BY <1>2, <2>2, <2>4, <2>5 DEF Parts
<1>6. CASE UNCHANGED vars
  <2>1. UNCHANGED clusterVars /\ UNCHANGED remediatorVars
        BY <1>6 DEF vars
  <2>2. ClusterInv' /\ ran \subseteq ran'
        BY <1>1, <2>1 DEF clusterVars, ClusterInv, ClusterTypeOK, HistoryRan, NoLabels
  <2>3. FreshCopiesAreCurrent'
        BY <1>1, <2>1 DEF clusterVars, remediatorVars, FreshCopiesAreCurrent
  <2> QED  BY <1>2, <1>3, <2>1, <2>2, <2>3 DEF Parts
<1> QED  BY <1>4, <1>5, <1>6 DEF Next

LEMMA AlwaysInv == Spec => []RemediationInv
<1> QED  BY InitEstablishesInv, StepKeepsInv, PTL DEF Spec

\* What is known of a client that is about to write.
LEMMA WritesKnow ==
  ASSUME RemediationInv, NEW r \in Clients
  PROVE  /\ template \in Templates
         /\ pc[r] = "undo" => before[r] \in Templates
         /\ pc[r] \in {"apply", "undo"} =>
              job[r].kind = "patch" /\ job[r].patch \in Patches /\ Net(job[r].patch) \in SpecPatches
         /\ pc[r] = "replace" => /\ before[r] \in Templates
                                 /\ job[r].to \in ran /\ job[r].to \in Templates /\ ~job[r].to.hash
<1>1. /\ template \in Templates
      /\ pc[r] = "undo" => before[r] \in Templates
      /\ pc[r] \in {"apply", "undo"} => job[r].kind = "patch" /\ job[r].patch \in Patches
      /\ pc[r] = "replace" => /\ before[r] \in Templates
                              /\ job[r].to \in ran /\ job[r].to \in Templates /\ ~job[r].to.hash
      BY DEF RemediationInv, RemediationTypeOK, ClusterTypeOK, BeforeWasRead, RowsAreProposals,
             DiffsAreRendered, NoLabels, PatchPCs, RollbackPCs
<1>2. job[r].patch \in Patches => Net(job[r].patch) \in SpecPatches
      BY RemediatorAssumption, NetType
<1> QED  BY <1>1, <1>2

-----------------------------------------------------------------------------
(* What has been written.                                                  *)

\* WritesAreCounted and ResultsMatchWrites, of a remediation at p ...
CountedOf(p, k, b, w, o) ==
  /\ p \in {"idle", "detected", "proposed", "capture", "read_target", "read"} => b = NoTemplate
  /\ p \in {"poll", "undo", "annotate"} => w = 1
  /\ p \notin {"poll", "undo", "annotate", "done", "gone"} => w = 0
  /\ o # "none" <=> p \in {"annotate", "done"}
  /\ p = "annotate" => o = "healed"
  /\ w <= 1
  /\ p = "done" => o # "none"
  /\ o \in {"unread", "dry_run_rejected"} => w = 0
  /\ o \in {"healed", "undone", "undo_failed", "not_healthy"} => w = 1
  /\ o \in {"undone", "undo_failed"} => k = "patch"
  /\ o = "not_healthy" => k = "rollback"

Counted(r) == CountedOf(pc[r], job[r].kind, before[r], writes[r], outcome[r])

\* ... and AloneKnowsTemplate and ResultsTellWhatStands.
StandsOf(p, b, m, t, o) ==
  /\ p \in {"patch_dry_run", "apply"} => t = b
  /\ p \in {"poll", "undo", "annotate"} => t = m
  /\ o \in {"unread", "dry_run_rejected"} => b \in {NoTemplate, t}
  /\ o = "healed" => t = m

Stands(r) ==
  Alone(r) /\ job[r].kind = "patch" =>
    /\ StandsOf(pc[r], before[r], Patched(r), template, outcome[r])
    /\ outcome[r] = "undone" =>
         ( template = before[r] <=> Restorable(before[r].fields, Net(job[r].patch), Failing) )

LEMMA WritesParts == WritesInv <=> \A r \in Clients : Counted(r) /\ Stands(r)
BY DEF WritesInv, WritesAreCounted, ResultsMatchWrites, AloneKnowsTemplate,
       ResultsTellWhatStands, Counted, CountedOf, Stands, StandsOf

\* A remediation writes once, and its result says whether it did.
LEMMA ClientKeepsCounted ==
  ASSUME RemediationInv, NEW r \in Clients, Counted(r), ClientStep(r)
  PROVE  Counted(r)'
<1>1. RemediatorShape /\ writes[r] \in Nat
      BY InvParts DEF Parts, Local, LocalOf
<1>2. /\ pc[r] \in PatchPCs => job[r].kind = "patch"
      /\ pc[r] \in {"idle", "detected"} <=> job[r].kind = "none"
      BY DEF RemediationInv, RowsAreProposals
<1>3. CountedOf(pc[r], job[r].kind, before[r], writes[r], outcome[r])
      BY DEF Counted
<1>4. SUFFICES CountedOf(pc'[r], job'[r].kind, before'[r], writes'[r], outcome'[r])
      BY DEF Counted
<1> USE <1>1, <1>2, <1>3 DEF RemediatorShape, CountedOf, At, Finish, PatchPCs, RollbackPCs
<1>5. CASE Detect(r) \/ ProposeRollback(r) \/ ProposePatch(r) \/ Approve(r)
  <2>1. /\ before'[r] = before[r] /\ writes'[r] = writes[r] /\ outcome'[r] = outcome[r]
        /\ pc[r] \in {"idle", "detected", "proposed"}
        /\ pc'[r] \in {"detected", "proposed", "read_target", "capture"}
        BY <1>5 DEF Detect, ProposeRollback, ProposePatch, Approve
  <2> QED  BY <2>1
<1>6. CASE CallFails(r)
      BY <1>6 DEF CallFails
<1>7. CASE CaptureSpec(r) \/ DryRunPatch(r) \/ ReadTarget(r) \/ ReadDeployment(r)
           \/ DryRunReplace(r)
      BY <1>7 DEF CaptureSpec, DryRunPatch, ReadTarget, ReadDeployment, DryRunReplace
<1>8. CASE Apply(r) \/ Undo(r) \/ Replace(r)
      BY <1>8 DEF Apply, Undo, Replace, Written, Answer
<1>9. CASE Poll(r) \/ PollFails(r)
  <2>1. /\ job'[r] = job[r] /\ before'[r] = before[r] /\ writes'[r] = writes[r]
        /\ pc[r] = "poll"
        /\ \/ pc'[r] = "annotate" /\ outcome'[r] = "healed"
           \/ pc'[r] = pc[r] /\ outcome'[r] = outcome[r]
        BY <1>9 DEF Poll, PollFails
  <2> QED  BY <2>1
<1>10. CASE GiveUp(r)
  <2>1. /\ job'[r] = job[r] /\ before'[r] = before[r] /\ writes'[r] = writes[r]
        /\ pc[r] = "poll"
        /\ \/ /\ job[r].kind = "rollback"
              /\ pc'[r] = "done" /\ outcome'[r] = "not_healthy"
           \/ pc'[r] = "undo" /\ outcome'[r] = outcome[r]
        BY <1>10 DEF GiveUp
  <2> QED  BY <2>1
<1>11. CASE Annotate(r) \/ Abandon(r)
      BY <1>11 DEF Annotate, Abandon, WorkingPCs
<1> QED  BY <1>5, <1>6, <1>7, <1>8, <1>9, <1>10, <1>11 DEF ClientStep, Progress

\* What one remediation does to the template, the disturbances and the writes.
LEMMA ClientWrites ==
  ASSUME RemediationInv, NEW r \in Clients, ClientStep(r)
  PROVE  /\ disturbed' = disturbed
         /\ \A x \in Clients \ {r} : writes'[x] = writes[x]
         /\ Apply(r) \/ Replace(r) => writes'[r] = writes[r] + 1
         /\ ~(Apply(r) \/ Replace(r) \/ Undo(r)) => template' = template
<1>1. RemediatorShape /\ OnlyMoves(r)
      BY InvParts, ClientsMoveAlone DEF Parts
<1>2. Apply(r) \/ Replace(r) => writes'[r] = writes[r] + 1
      BY <1>1 DEF Apply, Replace, Written, RemediatorShape
<1>3. disturbed' = disturbed
  <2>1. CASE Apply(r) \/ Undo(r) \/ Replace(r) \/ ReadDeployment(r) \/ Annotate(r)
        BY <2>1 DEF Apply, Undo, Replace, ReadDeployment, Annotate, Annotated, clusterVars
  <2>2. CASE UNCHANGED clusterVars
        BY <2>2 DEF clusterVars
  <2> QED  BY <2>1, <2>2
           DEF ClientStep, Progress, Detect, ProposeRollback, ProposePatch, Approve, CallFails,
               CaptureSpec, DryRunPatch, ReadTarget, DryRunReplace, Poll, PollFails, GiveUp,
               Abandon
<1>4. ~(Apply(r) \/ Replace(r) \/ Undo(r)) => template' = template
  <2>1. CASE ReadDeployment(r) \/ Annotate(r)
        BY <2>1 DEF ReadDeployment, Annotate, Annotated, clusterVars
  <2>2. CASE UNCHANGED clusterVars
        BY <2>2 DEF clusterVars
  <2> QED  BY <2>1, <2>2
           DEF ClientStep, Progress, Detect, ProposeRollback, ProposePatch, Approve, CallFails,
               CaptureSpec, DryRunPatch, ReadTarget, DryRunReplace, Poll, PollFails, GiveUp,
               Abandon
<1> QED  BY <1>1, <1>2, <1>3, <1>4 DEF OnlyMoves

\* While r is alone, nobody else changes the template.
LEMMA OthersStand ==
  ASSUME RemediationInv, NEW r \in Clients, \A q \in Clients : Counted(q), Stands(r),
         \/ ClusterStep /\ UNCHANGED remediatorVars
         \/ \E q \in Clients \ {r} : ClientStep(q)
  PROVE  Stands(r)'
<1>1. /\ pc'[r] = pc[r] /\ job'[r] = job[r] /\ before'[r] = before[r]
      /\ outcome'[r] = outcome[r]
  <2>1. ASSUME NEW q \in Clients \ {r}, ClientStep(q)
        PROVE  OnlyMoves(q)
        BY <2>1, InvParts, ClientsMoveAlone DEF Parts
  <2> QED  BY <2>1 DEF OnlyMoves, remediatorVars
<1>2. Alone(r)' => Alone(r) /\ template' = template
  <2>1. CASE ClusterStep /\ UNCHANGED remediatorVars
    <3>1. \/ disturbed' = disturbed /\ template' = template
          \/ disturbed' = disturbed + 1
          BY <2>1 DEF ClusterStep, Sync, PodsChange, RSAges, RSCollected, Deploy, Scale, Disturb
    <3>2. disturbed \in Nat
          BY ClusterAssumption DEF RemediationInv, RemediationTypeOK, ClusterTypeOK
    <3> QED  BY <2>1, <3>1, <3>2 DEF Alone, remediatorVars
  <2>2. ASSUME NEW q \in Clients \ {r}, ClientStep(q), Alone(r)'
        PROVE  Alone(r) /\ template' = template
    <3>1. /\ disturbed' = disturbed
          /\ \A x \in Clients \ {q} : writes'[x] = writes[x]
          /\ Apply(q) \/ Replace(q) => writes'[q] = writes[q] + 1
          /\ ~(Apply(q) \/ Replace(q) \/ Undo(q)) => template' = template
          BY <2>2, ClientWrites
    <3>2. writes'[q] = 0 /\ writes[q] \in Nat
          BY <2>2 DEF Alone, RemediationInv, RemediationTypeOK, RemediatorTypeOK
    <3>3. ~Apply(q) /\ ~Replace(q)
          BY <3>1, <3>2
    <3>4. writes'[q] = writes[q]
      <4>1. \/ writes' = writes \/ Apply(q) \/ Replace(q)
            BY <2>2 DEF ClientStep, Progress, Detect, ProposeRollback, ProposePatch, Approve,
                 CallFails, CaptureSpec, DryRunPatch, Undo, ReadTarget, ReadDeployment,
                 DryRunReplace, Poll, PollFails, GiveUp, Annotate, Abandon
      <4> QED  BY <3>3, <4>1
    <3>5. ~Undo(q)
          BY <3>2, <3>4 DEF Undo, Counted, CountedOf
    <3>6. disturbed = 0 /\ \A x \in Clients \ {r} : writes[x] = 0
      <4>1. \A x \in Clients \ {r} : writes'[x] = writes[x]
            BY <3>1, <3>4
      <4> QED  BY <2>2, <3>1, <4>1 DEF Alone
    <3> QED  BY <3>1, <3>3, <3>5, <3>6 DEF Alone
  <2> QED  BY <2>1, <2>2
<1>3. Patched(r)' = Patched(r)
      BY <1>1 DEF Patched
<1> QED  BY <1>1, <1>2, <1>3 DEF Stands, StandsOf

\* A remediation on its own leaves behind what its result says.
LEMMA ClientStands ==
  ASSUME RemediationInv, NEW r \in Clients, Counted(r), Stands(r), ClientStep(r)
  PROVE  Stands(r)'
<1>1. RemediatorShape
      BY InvParts DEF Parts
<1>2. Alone(r)' => Alone(r)
      BY ClientWrites DEF Alone
<1>3. CountedOf(pc[r], job[r].kind, before[r], writes[r], outcome[r])
      BY DEF Counted
<1>4. SUFFICES ASSUME Alone(r), job'[r].kind = "patch"
               PROVE  /\ StandsOf(pc'[r], before'[r], Patched(r)', template', outcome'[r])
                      /\ outcome'[r] = "undone" =>
                           ( template' = before'[r] <=>
                               Restorable(before'[r].fields, Net(job'[r].patch), Failing) )
      BY <1>2 DEF Stands
<1> USE <1>1 DEF RemediatorShape, At, Finish
<1>5. CASE Detect(r) \/ ProposeRollback(r) \/ ProposePatch(r) \/ Approve(r)
  <2>1. /\ pc[r] \in {"idle", "detected", "proposed"} /\ outcome'[r] = outcome[r]
        /\ pc'[r] \in {"detected", "proposed", "read_target", "capture"}
        BY <1>5 DEF Detect, ProposeRollback, ProposePatch, Approve
  <2>2. outcome[r] = "none"
        BY <1>3, <2>1 DEF CountedOf
  <2> QED  BY <2>1, <2>2 DEF StandsOf
<1>6. ASSUME job'[r] = job[r]
      PROVE  StandsOf(pc[r], before[r], Patched(r), template, outcome[r])
      BY <1>4, <1>6 DEF Stands
<1>7. CASE CallFails(r)
  <2>1. job' = job /\ before' = before /\ template' = template
        BY <1>7 DEF CallFails, clusterVars
  <2>2. /\ pc'[r] = "done" /\ outcome'[r] \notin {"healed", "undone"}
        /\ outcome'[r] = "unread" => pc[r] \in {"capture", "read_target", "read"}
        /\ outcome'[r] = "dry_run_rejected" => pc[r] \in {"patch_dry_run", "replace_dry_run"}
        BY <1>7 DEF CallFails
  <2>3. pc[r] # "replace_dry_run"
        BY <1>4, <2>1 DEF RemediationInv, RowsAreProposals, RollbackPCs
  <2>4. StandsOf(pc[r], before[r], Patched(r), template, outcome[r])
        BY <1>6, <2>1
  <2> QED  BY <1>3, <2>1, <2>2, <2>3, <2>4 DEF StandsOf, CountedOf
<1>8. CASE CaptureSpec(r)
  <2>1. /\ before'[r] = template /\ template' = template /\ pc'[r] = "patch_dry_run"
        /\ outcome'[r] = outcome[r] /\ pc[r] = "capture"
        BY <1>8 DEF CaptureSpec, clusterVars
  <2>2. outcome[r] = "none"
        BY <1>3, <2>1 DEF CountedOf
  <2> QED  BY <2>1, <2>2 DEF StandsOf
<1>9. CASE DryRunPatch(r)
  <2>1. /\ job' = job /\ before' = before /\ template' = template /\ outcome' = outcome
        /\ pc[r] = "patch_dry_run" /\ pc'[r] = "apply"
        BY <1>9 DEF DryRunPatch, clusterVars
  <2>2. outcome[r] = "none"
        BY <1>3, <2>1 DEF CountedOf
  <2> QED  BY <1>6, <2>1, <2>2 DEF StandsOf
<1>10. CASE Apply(r)
  <2>1. /\ job' = job /\ before' = before /\ pc[r] = "apply"
        /\ template' = [template EXCEPT !.fields = Merge(@, Net(job[r].patch))]
        /\ \/ pc'[r] = "poll" /\ outcome'[r] = outcome[r]
           \/ pc'[r] = "done" /\ outcome'[r] = "apply_failed"
        BY <1>10 DEF Apply, MergeFields, SetTemplate, Answer
  <2>2. template = before[r] /\ outcome[r] = "none"
        BY <1>3, <1>6, <2>1 DEF StandsOf, CountedOf
  <2>3. Patched(r)' = Patched(r) /\ template' = Patched(r)
        BY <2>1, <2>2 DEF Patched
  <2> QED  BY <2>1, <2>2, <2>3 DEF StandsOf
<1>11. CASE Undo(r)
  <2>1. /\ job' = job /\ before' = before /\ pc[r] = "undo" /\ pc'[r] = "done"
        /\ template' = [template EXCEPT !.fields = Merge(@, Capture(before[r].fields, Failing))]
        /\ outcome'[r] \in {"undone", "undo_failed"}
        BY <1>11 DEF Undo, MergeFields, SetTemplate
  <2>2. template = Patched(r)
        BY <1>6, <2>1 DEF StandsOf
  <2>3. before[r] \in Templates /\ Net(job[r].patch) \in SpecPatches
        BY <2>1, WritesKnow
  <2>4. template' = [before[r] EXCEPT !.fields =
                       Merge(Merge(@, Net(job[r].patch)), Capture(@, Failing))]
        BY <2>1, <2>2, <2>3 DEF Patched, Templates
  <2>5. template' = before[r] <=>
          Merge(Merge(before[r].fields, Net(job[r].patch)), Capture(before[r].fields, Failing))
            = before[r].fields
        BY <2>3, <2>4 DEF Templates
  <2>6. before[r].fields \in Specs
        BY <2>3 DEF Templates
  <2>7. template' = before[r] <=> Restorable(before[r].fields, Net(job[r].patch), Failing)
        BY <2>3, <2>5, <2>6, RestoreIsExact, RemediatorAssumption
  <2> QED  BY <2>1, <2>7 DEF StandsOf
<1>12. CASE ReadTarget(r) \/ ReadDeployment(r) \/ DryRunReplace(r) \/ Replace(r)
  <2>1. job' = job /\ pc[r] \in RollbackPCs
        BY <1>12 DEF ReadTarget, ReadDeployment, DryRunReplace, Replace, RollbackPCs
  <2> QED  BY <1>4, <2>1 DEF RemediationInv, RowsAreProposals
<1>13. CASE Poll(r) \/ PollFails(r) \/ GiveUp(r)
  <2>1. job' = job /\ before' = before /\ template' = template /\ pc[r] = "poll"
        BY <1>13 DEF Poll, PollFails, GiveUp, clusterVars
  <2>2. \/ pc'[r] = "annotate" /\ outcome'[r] = "healed"
        \/ pc'[r] \in {"poll", "undo"} /\ outcome'[r] = outcome[r]
        \/ pc'[r] = "done" /\ outcome'[r] = "not_healthy"
        BY <1>13, <2>1 DEF Poll, PollFails, GiveUp
  <2>3. outcome[r] = "none" /\ template = Patched(r) /\ Patched(r)' = Patched(r)
        BY <1>3, <1>6, <2>1 DEF StandsOf, CountedOf, Patched
  <2> QED  BY <2>1, <2>2, <2>3 DEF StandsOf
<1>14. CASE Annotate(r)
  <2>1. /\ job' = job /\ before' = before /\ template' = template /\ outcome' = outcome
        /\ pc[r] = "annotate" /\ pc'[r] = "done"
        BY <1>14 DEF Annotate, Annotated, clusterVars
  <2>2. outcome[r] = "healed" /\ template = Patched(r) /\ Patched(r)' = Patched(r)
        BY <1>3, <1>6, <2>1 DEF StandsOf, CountedOf, Patched
  <2> QED  BY <2>1, <2>2 DEF StandsOf
<1>15. CASE Abandon(r)
  <2>1. pc'[r] = "gone" /\ outcome'[r] = "none"
        BY <1>15 DEF Abandon
  <2> QED  BY <2>1 DEF StandsOf
<1> QED  BY <1>5, <1>7, <1>8, <1>9, <1>10, <1>11, <1>12, <1>13, <1>14, <1>15
         DEF ClientStep, Progress

LEMMA AlwaysWritesInv == Spec => []WritesInv
<1>1. Init => WritesInv
  <2> SUFFICES ASSUME Init, NEW r \in Clients  PROVE Counted(r) /\ Stands(r)
      BY WritesParts
  <2>1. /\ pc[r] = "idle" /\ before[r] = NoTemplate /\ writes[r] = 0 /\ outcome[r] = "none"
        BY DEF Init, RemediatorInit
  <2> QED  BY <2>1 DEF Counted, CountedOf, Stands, StandsOf
<1>2. RemediationInv /\ WritesInv /\ [Next]_vars => WritesInv'
  <2>0. (\A r \in Clients : Counted(r) /\ Stands(r))' => WritesInv'
        BY WritesParts, PTL
  <2> SUFFICES ASSUME RemediationInv, WritesInv, [Next]_vars, NEW r \in Clients
               PROVE  Counted(r)' /\ Stands(r)'
      BY <2>0
  <2>1. \A q \in Clients : Counted(q) /\ Stands(q)
        BY WritesParts
  <2>2. CASE UNCHANGED vars
        BY <2>1, <2>2 DEF vars, clusterVars, remediatorVars, Counted, CountedOf, Stands, StandsOf,
                          Alone, Patched
  <2>3. CASE ClusterStep /\ UNCHANGED remediatorVars
    <3>1. Counted(r)'
          BY <2>1, <2>3 DEF remediatorVars, Counted
    <3> QED  BY <2>1, <2>3, <3>1, OthersStand
  <2>4. ASSUME NEW q \in Clients, ClientStep(q)
        PROVE  Counted(r)' /\ Stands(r)'
    <3>1. CASE q = r
          BY <2>1, <2>4, <3>1, ClientKeepsCounted, ClientStands
    <3>2. CASE q # r
      <4>1. OnlyMoves(q)
            BY <2>4, InvParts, ClientsMoveAlone DEF Parts
      <4>2. Counted(r)'
            BY <2>1, <3>2, <4>1 DEF OnlyMoves, Counted
      <4> QED  BY <2>1, <2>4, <3>2, <4>2, OthersStand
    <3> QED  BY <3>1, <3>2
  <2> QED  BY <2>2, <2>3, <2>4 DEF Next
<1> QED  BY <1>1, <1>2, AlwaysInv, PTL DEF Spec

\* Whatever API call fails, and whatever others do, a remediation writes its
\* proposal once at most and its result says whether it did.
THEOREM ResultsAreTrue == Spec => []ResultsMatchWrites
<1>1. WritesInv => ResultsMatchWrites
      BY DEF WritesInv
<1> QED  BY <1>1, AlwaysWritesInv, PTL

\* With any number of remediations, of which one has written, and nobody else:
\* its result tells which template the Deployment has.
THEOREM ResultsNameTheTemplate == Spec => []ResultsTellWhatStands
<1>1. WritesInv => ResultsTellWhatStands
      BY DEF WritesInv
<1> QED  BY <1>1, AlwaysWritesInv, PTL

-----------------------------------------------------------------------------
(* What follows from RemediationInv.                                       *)

\* The variables keep their types, whatever others do to the Deployment.
THEOREM RemediationTypeCorrect == Spec => []RemediationTypeOK
<1>1. RemediationInv => RemediationTypeOK
      BY DEF RemediationInv
<1> QED  BY <1>1, AlwaysInv, PTL

\* A remediation that reports success has seen _STABLE_POLLS healthy readings in
\* a row, whatever it saw before them.
THEOREM HealingIsSustained == Spec => []HealedIsSustained
<1>1. RemediationInv => HealedIsSustained
      BY DEF RemediationInv
<1> QED  BY <1>1, AlwaysInv, PTL

\* The undo of _capture_rollback is exact, for every spec, of the patches that
\* a strategic merge can take back and of no other.
THEOREM UndoesExactly == Spec => UndoIsExact
<1>1. RemediationInv => \A r \in Clients :
        Undo(r) /\ Undisturbed(r) =>
          ( template'.fields = before[r].fields
              <=> Restorable(before[r].fields, Net(job[r].patch), Failing) )
  <2> SUFFICES ASSUME RemediationInv, NEW r \in Clients, Undo(r), Undisturbed(r)
               PROVE  template'.fields = before[r].fields
                        <=> Restorable(before[r].fields, Net(job[r].patch), Failing)
      OBVIOUS
  <2>1. before[r].fields \in Specs /\ Net(job[r].patch) \in SpecPatches
        BY WritesKnow DEF Undo, Templates
  <2>2. template'.fields = Merge(template.fields, Capture(before[r].fields, Failing))
        BY WritesKnow DEF Undo, MergeFields, SetTemplate, Templates
  <2> QED  BY <2>1, <2>2, RestoreIsExact, RemediatorAssumption DEF Undisturbed
<1> QED  BY <1>1, AlwaysInv, PTL DEF UndoIsExact

\* An undo leaves the version and the other containers as others have made them.
THEOREM UndoesNoDeploy == Spec => UndoKeepsDeploys
<1>1. RemediationInv => \A r \in Clients : Undo(r) =>
        /\ template'.image = template.image
        /\ \A c \in Containers \ {Failing} : template'.fields[c] = template.fields[c]
  <2> SUFFICES ASSUME RemediationInv, NEW r \in Clients, Undo(r)
               PROVE  /\ template'.image = template.image
                      /\ \A c \in Containers \ {Failing} :
                           template'.fields[c] = template.fields[c]
      OBVIOUS
  <2>1. before[r].fields \in Specs /\ template.fields \in Specs
        BY WritesKnow DEF Undo, Templates
  <2>2. /\ template'.fields = Merge(template.fields, Capture(before[r].fields, Failing))
        /\ template'.image = template.image
        BY WritesKnow DEF Undo, MergeFields, SetTemplate, Templates
  <2> QED  BY <2>1, <2>2, CaptureIsLocal, RemediatorAssumption
<1> QED  BY <1>1, AlwaysInv, PTL DEF UndoKeepsDeploys

\* replace_namespaced_deployment never overwrites what was not read: the copy
\* is that of the template which it replaces.
THEOREM ReplacesWhatItRead == Spec => ReplaceLosesNothing
<1>1. RemediationInv => \A r \in Clients : Replace(r) => template = before[r]
      BY DEF RemediationInv, FreshCopiesAreCurrent, Replace
<1> QED  BY <1>1, AlwaysInv, PTL DEF ReplaceLosesNothing

\* What a rollback installs has run: the row names a ReplicaSet there has been,
\* and nothing but its label is taken from the template.
THEOREM RollsBackToWhatRan == Spec => RollbackRanBefore
<1>1. RemediationInv => \A r \in Clients : Replace(r) => template' \in ran
  <2> SUFFICES ASSUME RemediationInv, NEW r \in Clients, Replace(r)
               PROVE  template' \in ran
      OBVIOUS
  <2>1. job[r].to \in ran /\ job[r].to \in Templates /\ ~job[r].to.hash
        BY WritesKnow DEF Replace
  <2>2. target_template(job[r].to) = job[r].to
        BY <2>1 DEF target_template, RSTemplate, Templates
  <2> QED  BY <2>1, <2>2 DEF Replace, SetTemplate
<1> QED  BY <1>1, AlwaysInv, PTL DEF RollbackRanBefore

\* Of a patch with one entry, for the failing container as the incident recorded
\* it: what the human sees comes true, and defaults of added fields are all that
\* changes besides.
THEOREM ShowsWhatItChanges == Spec => DiffIsTheChange
<1>1. RemediationInv => \A r \in Clients :
        /\ Apply(r)
        /\ job[r].patch.name = Failing /\ job[r].patch.rest = NoPatch
        /\ template.fields[Failing] = job[r].seen
        => \A c \in Containers, f \in Fields, k \in Paths :
             LET old  == template.fields[c][f]
                 new  == template'.fields[c][f]
                 line == job[r].patch.first[f].leaf[k]
             IN IF c = Failing /\ <<f, k>> \in job[r].shown
                THEN new.leaf[k] = IF line = Null THEN Default[f][k] ELSE Canon[line]
                ELSE \/ new.leaf[k] = old.leaf[k]
                     \/ c = Failing /\ ~old.there /\ new.there /\ new.leaf[k] = Default[f][k]
  <2> SUFFICES ASSUME RemediationInv, NEW r \in Clients, Apply(r),
                      job[r].patch.name = Failing, job[r].patch.rest = NoPatch,
                      template.fields[Failing] = job[r].seen,
                      NEW c \in Containers, NEW f \in Fields, NEW k \in Paths
               PROVE  LET old  == template.fields[c][f]
                          new  == template'.fields[c][f]
                          line == job[r].patch.first[f].leaf[k]
                      IN IF c = Failing /\ <<f, k>> \in job[r].shown
                         THEN new.leaf[k] = IF line = Null THEN Default[f][k] ELSE Canon[line]
                         ELSE \/ new.leaf[k] = old.leaf[k]
                              \/ /\ c = Failing /\ ~old.there /\ new.there
                                 /\ new.leaf[k] = Default[f][k]
      OBVIOUS
  <2> DEFINE l == job[r].patch
  <2>1. job[r].kind = "patch" /\ l \in Patches /\ template.fields \in Specs
        BY WritesKnow DEF Apply, Templates
  <2>2. l \in PatchLists /\ \A g \in Fields : l.first[g].op # "null"
        BY <2>1, RemediatorAssumption
  <2>3. job[r].shown = render_diff(template.fields[Failing], l)
        BY <2>1 DEF RemediationInv, DiffsAreRendered
  <2>4. template'.fields = Merge(template.fields, Net(l))
        BY WritesKnow DEF Apply, MergeFields, SetTemplate, Templates
  <2>5. l.name = Failing /\ l.rest = NoPatch
        OBVIOUS
  <2> HIDE DEF l
  <2>6. LET old  == template.fields[c][f]
            new  == Merge(template.fields, Net(l))[c][f]
            line == l.first[f].leaf[k]
        IN IF c = Failing /\ <<f, k>> \in render_diff(template.fields[Failing], l)
           THEN new.leaf[k] = IF line = Null THEN Default[f][k] ELSE Canon[line]
           ELSE \/ new.leaf[k] = old.leaf[k]
                \/ c = Failing /\ ~old.there /\ new.there /\ new.leaf[k] = Default[f][k]
        BY <2>1, <2>2, <2>5, DiffIsHonest
  <2> QED  BY <2>3, <2>4, <2>6 DEF l
<1> QED  BY <1>1, AlwaysInv, PTL DEF DiffIsTheChange

-----------------------------------------------------------------------------
(* What Handlers sees of a remediation.                                    *)

hpcOf    == [x \in Clients |-> ListenerPC(x)]
opOf     == [x \in Clients |-> IF pc[x] = "gone" THEN "reject" ELSE "approve"]
hidOf    == [x \in Clients |-> IF pc[x] = "gone" THEN NoTemplate ELSE x]
resultOf == [x \in Clients |-> SettledStatus(outcome[x])]
planOf   == [x \in Clients |-> job[x].kind]

\* A step of r changes what Handlers sees of r only.
LEMMA ViewMoves ==
  ASSUME NEW r \in Clients, OnlyMoves(r)
  PROVE  /\ hpcOf' = [hpcOf EXCEPT ![r] = ListenerPC(r)']
         /\ opOf' = [opOf EXCEPT ![r] = IF pc'[r] = "gone" THEN "reject" ELSE "approve"]
         /\ hidOf' = [hidOf EXCEPT ![r] = IF pc'[r] = "gone" THEN NoTemplate ELSE r]
         /\ resultOf' = [resultOf EXCEPT ![r] = SettledStatus(outcome'[r])]
         /\ planOf' = [planOf EXCEPT ![r] = job'[r].kind]
<1>1. \A x \in Clients \ {r} : pc'[x] = pc[x] /\ outcome'[x] = outcome[x] /\ job'[x] = job[x]
      BY DEF OnlyMoves
<1>2. hpcOf' = [hpcOf EXCEPT ![r] = ListenerPC(r)']
  <2>1. \A x \in Clients \ {r} : ListenerPC(x)' = ListenerPC(x)
        BY <1>1 DEF ListenerPC
  <2> QED  BY <2>1 DEF hpcOf
<1>3. opOf' = [opOf EXCEPT ![r] = IF pc'[r] = "gone" THEN "reject" ELSE "approve"]
      BY <1>1 DEF opOf
<1>4. hidOf' = [hidOf EXCEPT ![r] = IF pc'[r] = "gone" THEN NoTemplate ELSE r]
      BY <1>1 DEF hidOf
<1>5. resultOf' = [resultOf EXCEPT ![r] = SettledStatus(outcome'[r])]
      BY <1>1 DEF resultOf
<1>6. planOf' = [planOf EXCEPT ![r] = job'[r].kind]
      BY <1>1 DEF planOf
<1> QED  BY <1>2, <1>3, <1>4, <1>5, <1>6

\* A step that leaves r at work, in a row of the same kind.
LEMMA AtWork ==
  ASSUME NEW r \in Clients, OnlyMoves(r), job'[r] = job[r], pc[r] # "gone", pc'[r] # "gone"
  PROVE  opOf' = opOf /\ hidOf' = hidOf /\ planOf' = planOf
BY ViewMoves DEF opOf, hidOf, planOf

\* The statuses of Handlers, constant in this view.
LEMMA ListenerActions ==
  ASSUME NEW r \in Clients, opOf' = opOf, hidOf' = hidOf, planOf' = planOf,
         hidOf[r] = r
  PROVE  /\ /\ hpcOf[r] = "dry_run" /\ writes' = writes
            /\ \/ hpcOf' = [hpcOf EXCEPT ![r] = "apply"] /\ resultOf' = resultOf
               \/ /\ hpcOf' = [hpcOf EXCEPT ![r] = "settle"]
                  /\ resultOf' = [resultOf EXCEPT ![r] = "failed"]
            => Listener!DryRun(r)
         /\ /\ hpcOf[r] = "apply"
            /\ \/ /\ writes' = [writes EXCEPT ![r] = @ + 1]
                  /\ hpcOf' = [hpcOf EXCEPT ![r] = "verify"] /\ resultOf' = resultOf
               \/ /\ writes' \in {writes, [writes EXCEPT ![r] = @ + 1]}
                  /\ hpcOf' = [hpcOf EXCEPT ![r] = "settle"]
                  /\ resultOf' = [resultOf EXCEPT ![r] = "failed"]
            => Listener!Apply(r)
         /\ /\ hpcOf[r] = "verify" /\ writes' = writes
            /\ \/ /\ hpcOf' = [hpcOf EXCEPT ![r] = "settle"]
                  /\ resultOf' = [resultOf EXCEPT ![r] = "applied"]
               \/ /\ planOf[r] = "rollback"
                  /\ hpcOf' = [hpcOf EXCEPT ![r] = "settle"]
                  /\ resultOf' = [resultOf EXCEPT ![r] = "failed"]
               \/ /\ planOf[r] # "rollback"
                  /\ hpcOf' = [hpcOf EXCEPT ![r] = "undo"] /\ resultOf' = resultOf
            => Listener!Verify(r)
         /\ /\ hpcOf[r] = "undo" /\ writes' = writes
            /\ hpcOf' = [hpcOf EXCEPT ![r] = "settle"]
            /\ \E o \in {"rolled_back", "failed"} : resultOf' = [resultOf EXCEPT ![r] = o]
            => Listener!Undo(r)
<1> USE DEF hpcOf, opOf, hidOf, resultOf, planOf, Listener!At, Listener!Conclude,
            Listener!storeVars, Listener!slackVars, Listener!workerVars
<1> QED  BY DEF Listener!DryRun, Listener!Apply, Listener!Verify, Listener!Undo

\* Every step of a remediation is one of the listener, or Handlers sees nothing.
LEMMA ClientStepListens ==
  ASSUME RemediationInv, NEW r \in Clients, ClientStep(r)
  PROVE  \/ UNCHANGED ListenerState
         \/ Listener!DryRun(r) \/ Listener!Apply(r) \/ Listener!Verify(r) \/ Listener!Undo(r)
         \/ Listener!HandlerDies(r)
<1>1. RemediatorShape /\ Local(r) /\ OnlyMoves(r)
      BY InvParts, ClientsMoveAlone DEF Parts
<1>2. ListenerState' = [x \in Clients |-> <<ListenerPC(x)', pc'[x] = "gone",
                                           SettledStatus(outcome'[x]), writes'[x]>>]
      BY DEF ListenerState
<1>3. ASSUME ListenerPC(r)' = ListenerPC(r), pc[r] # "gone", pc'[r] # "gone",
             outcome'[r] = outcome[r], writes'[r] = writes[r]
      PROVE  UNCHANGED ListenerState
  <2>1. ASSUME NEW x \in Clients
        PROVE  /\ ListenerPC(x)' = ListenerPC(x) /\ (pc'[x] = "gone" <=> pc[x] = "gone")
               /\ outcome'[x] = outcome[x] /\ writes'[x] = writes[x]
    <3>1. CASE x = r
          BY <1>3, <3>1
    <3>2. CASE x # r
          BY <1>1, <3>2 DEF OnlyMoves, ListenerPC
    <3> QED  BY <3>1, <3>2
  <2> QED  BY <1>2, <2>1 DEF ListenerState
<1>4. CASE \/ Detect(r) \/ ProposeRollback(r) \/ ProposePatch(r) \/ Approve(r)
           \/ CaptureSpec(r) \/ ReadDeployment(r) \/ Annotate(r)
  <2>1. /\ ListenerPC(r)' = ListenerPC(r) /\ pc[r] # "gone" /\ pc'[r] # "gone"
        BY <1>1, <1>4 DEF Detect, ProposeRollback, ProposePatch, Approve, CaptureSpec,
                          ReadDeployment, Annotate, At, RemediatorShape, ListenerPC
  <2>2. outcome'[r] = outcome[r] /\ writes'[r] = writes[r]
        BY <1>4 DEF Detect, ProposeRollback, ProposePatch, Approve, CaptureSpec,
                    ReadDeployment, Annotate
  <2> QED  BY <1>3, <2>1, <2>2
<1>5. CASE PollFails(r)
  <2>1. pc' = pc /\ outcome' = outcome /\ writes' = writes /\ pc[r] = "poll"
        BY <1>5 DEF PollFails
  <2> QED  BY <1>3, <2>1 DEF ListenerPC
<1>6. ASSUME job'[r] = job[r], pc[r] # "gone", pc'[r] # "gone"
      PROVE  /\ opOf' = opOf /\ hidOf' = hidOf /\ planOf' = planOf /\ hidOf[r] = r
             /\ hpcOf[r] = ListenerPC(r) /\ planOf[r] = job[r].kind
             /\ hpcOf' = [hpcOf EXCEPT ![r] = ListenerPC(r)']
             /\ resultOf' = [resultOf EXCEPT ![r] = SettledStatus(outcome'[r])]
             /\ outcome' = outcome => resultOf' = resultOf
  <2>1. opOf' = opOf /\ hidOf' = hidOf /\ planOf' = planOf
        BY <1>1, <1>6, AtWork
  <2>2. hidOf[r] = r /\ hpcOf[r] = ListenerPC(r) /\ planOf[r] = job[r].kind
        BY <1>6 DEF hidOf, hpcOf, planOf
  <2>3. outcome' = outcome => resultOf' = resultOf
        BY DEF resultOf
  <2> QED  BY <1>1, <2>1, <2>2, <2>3, ViewMoves
<1>7. CASE CallFails(r)
  <2>1. job' = job /\ writes' = writes
        BY <1>7 DEF CallFails
  <2>2. pc'[r] = "done" /\ ListenerPC(r)' = "settle"
        BY <1>1, <1>7 DEF CallFails, At, Finish, RemediatorShape, ListenerPC
  <2>3. \/ /\ pc[r] \in {"capture", "read_target", "read", "patch_dry_run", "replace_dry_run"}
           /\ outcome'[r] \in {"unread", "dry_run_rejected"}
        \/ pc[r] \in {"apply", "replace"} /\ outcome'[r] = "apply_failed"
        \/ pc[r] = "undo" /\ outcome'[r] = "undo_failed"
        BY <1>1, <1>7 DEF CallFails, At, Finish, RemediatorShape
  <2>4. SettledStatus(outcome'[r]) = "failed" /\ pc[r] # "gone"
        BY <2>3 DEF SettledStatus
  <2>5. ListenerPC(r) \in {"dry_run", "apply", "undo"}
        BY <2>3 DEF ListenerPC
  <2> QED  BY <1>6, <2>1, <2>2, <2>4, <2>5, ListenerActions
<1>8. CASE DryRunPatch(r) \/ DryRunReplace(r)
  <2>1. /\ job' = job /\ writes' = writes /\ outcome' = outcome
        /\ pc[r] \in {"patch_dry_run", "replace_dry_run"} /\ pc'[r] \in {"apply", "replace"}
        BY <1>1, <1>8 DEF DryRunPatch, DryRunReplace, At, RemediatorShape
  <2>2. ListenerPC(r) = "dry_run" /\ ListenerPC(r)' = "apply"
        BY <2>1 DEF ListenerPC
  <2> QED  BY <1>6, <2>1, <2>2, ListenerActions
<1>9. CASE Apply(r) \/ Replace(r)
  <2>1. /\ job' = job /\ writes' = [writes EXCEPT ![r] = @ + 1] /\ pc[r] \in {"apply", "replace"}
        BY <1>9 DEF Apply, Replace, Written
  <2>2. \/ pc'[r] = "poll" /\ outcome' = outcome
        \/ pc'[r] = "done" /\ outcome'[r] = "apply_failed"
        BY <1>1, <1>9 DEF Apply, Replace, Answer, At, Finish, RemediatorShape
  <2>3. ListenerPC(r) = "apply" /\ SettledStatus("apply_failed") = "failed"
        BY <2>1 DEF ListenerPC, SettledStatus
  <2>4. /\ pc'[r] = "poll" => ListenerPC(r)' = "verify"
        /\ pc'[r] = "done" => ListenerPC(r)' = "settle"
        BY DEF ListenerPC
  <2>5. hpcOf[r] = "apply" /\ pc'[r] # "gone" /\ pc[r] # "gone"
        BY <2>1, <2>2, <2>3 DEF hpcOf
  <2> QED  BY <1>6, <2>1, <2>2, <2>3, <2>4, <2>5, ListenerActions
<1>10. CASE Undo(r)
  <2>1. /\ job' = job /\ writes' = writes /\ pc[r] = "undo" /\ pc'[r] = "done"
        /\ outcome'[r] \in {"undone", "undo_failed"}
        BY <1>1, <1>10 DEF Undo, At, Finish, RemediatorShape
  <2>2. ListenerPC(r) = "undo" /\ ListenerPC(r)' = "settle"
        BY <2>1 DEF ListenerPC
  <2>3. SettledStatus(outcome'[r]) \in {"rolled_back", "failed"}
        BY <2>1 DEF SettledStatus
  <2> QED  BY <1>6, <2>1, <2>2, <2>3, ListenerActions
<1>11. CASE ReadTarget(r)
  <2>1. /\ job' = job /\ writes' = writes /\ pc[r] = "read_target"
        /\ \/ pc'[r] = "read" /\ outcome' = outcome
           \/ pc'[r] = "done" /\ outcome'[r] = "unread"
        BY <1>1, <1>11 DEF ReadTarget, At, Finish, RemediatorShape
  <2>2. CASE pc'[r] = "read"
    <3>1. outcome'[r] = outcome[r] /\ ListenerPC(r)' = ListenerPC(r) /\ writes'[r] = writes[r]
          BY <2>1, <2>2 DEF ListenerPC
    <3> QED  BY <1>3, <2>1, <2>2, <3>1
  <2>3. CASE pc'[r] = "done"
    <3>1. /\ ListenerPC(r) = "dry_run" /\ ListenerPC(r)' = "settle"
          /\ SettledStatus(outcome'[r]) = "failed"
          BY <2>1, <2>3 DEF ListenerPC, SettledStatus
    <3> QED  BY <1>6, <2>1, <2>3, <3>1, ListenerActions
  <2> QED  BY <2>1, <2>2, <2>3
<1>12. CASE Poll(r)
  <2>1. /\ job' = job /\ writes' = writes /\ pc[r] = "poll"
        /\ \/ pc'[r] = "annotate" /\ outcome'[r] = "healed"
           \/ pc' = pc /\ outcome' = outcome
        BY <1>1, <1>12 DEF Poll, At, RemediatorShape
  <2>2. CASE pc' = pc /\ outcome' = outcome
        BY <1>3, <2>1, <2>2 DEF ListenerPC
  <2>3. CASE pc'[r] = "annotate" /\ outcome'[r] = "healed"
    <3>1. /\ ListenerPC(r) = "verify" /\ ListenerPC(r)' = "settle"
          /\ SettledStatus(outcome'[r]) = "applied"
          BY <2>1, <2>3 DEF ListenerPC, SettledStatus
    <3> QED  BY <1>6, <2>1, <2>3, <3>1, ListenerActions
  <2> QED  BY <2>1, <2>2, <2>3
<1>13. CASE GiveUp(r)
  <2>1. /\ job' = job /\ writes' = writes /\ pc[r] = "poll"
        /\ \/ /\ job[r].kind = "rollback"
              /\ pc'[r] = "done" /\ outcome'[r] = "not_healthy"
           \/ /\ job[r].kind # "rollback"
              /\ pc'[r] = "undo" /\ outcome' = outcome
        BY <1>1, <1>13 DEF GiveUp, At, Finish, RemediatorShape
  <2>2. /\ ListenerPC(r) = "verify" /\ SettledStatus("not_healthy") = "failed"
        /\ pc'[r] = "done" => ListenerPC(r)' = "settle"
        /\ pc'[r] = "undo" => ListenerPC(r)' = "undo"
        BY <2>1 DEF ListenerPC, SettledStatus
  <2> QED  BY <1>6, <2>1, <2>2, ListenerActions
<1>14. CASE Abandon(r)
  <2>1. /\ job' = job /\ writes' = writes /\ pc[r] \in WorkingPCs
        /\ pc'[r] = "gone" /\ outcome'[r] = "none"
        BY <1>1, <1>14 DEF Abandon, At, RemediatorShape
  <2>2. ListenerPC(r) # "idle" /\ ListenerPC(r)' = "idle" /\ SettledStatus("none") = "failed"
        BY <2>1 DEF ListenerPC, SettledStatus, WorkingPCs, PatchPCs, RollbackPCs
  <2>3. /\ hpcOf' = [hpcOf EXCEPT ![r] = "idle"]
        /\ opOf' = [opOf EXCEPT ![r] = "reject"]
        /\ hidOf' = [hidOf EXCEPT ![r] = NoTemplate]
        /\ resultOf' = [resultOf EXCEPT ![r] = "failed"]
        BY <1>1, <2>1, <2>2, ViewMoves
  <2>4. planOf' = planOf /\ hpcOf[r] # "idle"
        BY <2>1, <2>2 DEF planOf, hpcOf
  <2> QED  BY <2>1, <2>3, <2>4
           DEF Listener!HandlerDies, Listener!Return, Listener!At, Listener!storeVars,
               Listener!slackVars, Listener!workerVars, hpcOf, opOf, hidOf, resultOf, planOf
<1> QED  BY <1>4, <1>5, <1>7, <1>8, <1>9, <1>10, <1>11, <1>12, <1>13, <1>14
         DEF ClientStep, Progress

\* The detailed remediation is one of those that Handlers allows: whatever is
\* shown of KubeHeal with Handlers holds with remediator.py in its place.
THEOREM RemediationImplementsListeners == Spec => ImplementsListeners
<1>1. RemediationInv /\ [Next]_vars =>
        \/ UNCHANGED ListenerState
        \/ \E r \in Clients :
             \/ Listener!DryRun(r) \/ Listener!Apply(r) \/ Listener!Verify(r) \/ Listener!Undo(r)
             \/ Listener!HandlerDies(r)
  <2> SUFFICES ASSUME RemediationInv, [Next]_vars
               PROVE  \/ UNCHANGED ListenerState
                      \/ \E r \in Clients :
                           \/ Listener!DryRun(r) \/ Listener!Apply(r)
                           \/ Listener!Verify(r) \/ Listener!Undo(r)
                           \/ Listener!HandlerDies(r)
      OBVIOUS
  <2>1. CASE UNCHANGED remediatorVars
        BY <2>1 DEF remediatorVars, ListenerState, ListenerPC
  <2>2. CASE \E r \in Clients : ClientStep(r)
        BY <2>2, ClientStepListens
  <2> QED  BY <2>1, <2>2 DEF Next, vars
<1> QED  BY <1>1, AlwaysInv, PTL DEF Spec, ImplementsListeners
=============================================================================
