---------------------------- MODULE TriageProofs ----------------------------
(***************************************************************************)
(* TriageCorrectness for every set of answers of the LLM, patches with any *)
(* number of container entries included.                                   *)
(***************************************************************************)
EXTENDS TriageCorrectness, SequenceTheorems, TLAPS

-----------------------------------------------------------------------------
(* The invariant: what is known at each stage of main.process.             *)

\* There is a proposal when the worker goes on to post it, and not before.
ProposedAtTheEnd ==
  /\ stage = "proposed" => proposal \in Proposals
  /\ stage # "proposed" => proposal = NoProposal

\* Only the reasons of the allow-list get to the LLM.
AttemptsAreCounted ==
  /\ stage = "ask" => incident.reason \in AUTO_REMEDIABLE_REASONS /\ attempt < _MAX_ATTEMPTS
  /\ stage \in {"watching", "assess", "probefix", "route"} => attempt = 0
  /\ attempt > 0 => incident.reason \in AUTO_REMEDIABLE_REASONS

TriageInv ==
  /\ TriageTypeOK
  /\ ProposedAtTheEnd
  /\ AttemptsAreCounted
  /\ ProposedPatchesAreAllowed
  /\ NoInventedProbes
  /\ EscalationIsLast

-----------------------------------------------------------------------------
(* Patches.                                                                *)

\* Stripping keeps the entries of a patch, and what they are.
LEMMA StripType ==
  ASSUME NEW cs \in Seq(ContainerPatches), NEW i \in Incidents
  PROVE  /\ _strip_invented_probes(cs, i) \in Seq(ContainerPatches)
         /\ DOMAIN _strip_invented_probes(cs, i) = DOMAIN cs
<1> DEFINE e(n) == [cs[n] EXCEPT !.fields =
                      [f \in ALLOWED_FIELDS |->
                         IF f \in ProbeFields /\ i.spec[f] = "none" THEN "absent" ELSE @[f]]]
           ds == [n \in 1 .. Len(cs) |-> e(n)]
<1>1. DOMAIN cs = 1 .. Len(cs) /\ Len(cs) \in Nat
      BY LenProperties
<1>2. ASSUME NEW n \in 1 .. Len(cs)
      PROVE  e(n) \in ContainerPatches
  <2>1. cs[n] \in ContainerPatches
        BY ElementOfSeq
  <2> DEFINE g == [f \in ALLOWED_FIELDS |->
                     IF f \in ProbeFields /\ i.spec[f] = "none" THEN "absent" ELSE cs[n].fields[f]]
  <2>2. cs[n].fields \in [ALLOWED_FIELDS -> FieldForms] /\ cs[n].fields["resources"] # "trips"
        BY <2>1 DEF ContainerPatches
  <2>3. g \in [ALLOWED_FIELDS -> FieldForms] /\ g["resources"] # "trips"
        BY <2>2 DEF FieldForms, ALLOWED_FIELDS, ProbeFields
  <2>4. e(n) = [cs[n] EXCEPT !.fields = g]
        OBVIOUS
  <2> HIDE DEF g, e
  <2> QED  BY <2>1, <2>3, <2>4 DEF ContainerPatches
<1>3. ds \in Seq(ContainerPatches)
      BY <1>1, <1>2, SeqDef
<1>4. CASE _is_probe_related(i)
      BY <1>4 DEF _strip_invented_probes
<1>5. CASE ~_is_probe_related(i)
  <2>1. _strip_invented_probes(cs, i) = ds
        BY <1>1, <1>5 DEF _strip_invented_probes
  <2> QED  BY <1>1, <1>3, <2>1
<1> QED  BY <1>4, <1>5

\* Without a probe in the events, only probes of the failing container are left.
LEMMA StripRemoves ==
  ASSUME NEW cs \in Seq(ContainerPatches), NEW i \in Incidents, i.events = {},
         NEW n \in DOMAIN cs, NEW f \in ProbeFields,
         _strip_invented_probes(cs, i)[n].fields[f] # "absent"
  PROVE  i.spec[f] # "none"
<1>1. ~_is_probe_related(i)
      BY DEF _is_probe_related
<1>2. cs[n] \in ContainerPatches
      BY ElementOfSeq, LenProperties
<1>3. _strip_invented_probes(cs, i)[n].fields[f] =
        IF f \in ProbeFields /\ i.spec[f] = "none" THEN "absent" ELSE cs[n].fields[f]
      BY <1>1, <1>2 DEF _strip_invented_probes, ContainerPatches, ALLOWED_FIELDS
<1> QED  BY <1>3

\* A container entry without a problem is an allowed one.
LEMMA ValidEntry ==
  ASSUME NEW c \in ContainerPatches, _validate_container(c) = {}
  PROVE  /\ c.is = "object" /\ c.name # "missing" /\ ~c.extra
         /\ \A f \in ALLOWED_FIELDS : c.fields[f] \in {"absent", "ok"}
<1>1. /\ c.is = "object" /\ c.name # "missing" /\ ~c.extra /\ c.fields["resources"] # "bad"
      /\ {c.fields[f] : f \in ProbeFields} \cap {"bad", "trips"} = {}
      BY DEF _validate_container
<1>2. c.fields \in [ALLOWED_FIELDS -> FieldForms] /\ c.fields["resources"] # "trips"
      BY DEF ContainerPatches
<1>3. ASSUME NEW f \in ALLOWED_FIELDS
      PROVE  c.fields[f] \in {"absent", "ok"}
  <2>1. CASE f = "resources"
        BY <1>1, <1>2, <2>1 DEF FieldForms
  <2>2. CASE f \in ProbeFields
        BY <1>1, <1>2, <2>2 DEF FieldForms
  <2> QED  BY <2>1, <2>2 DEF ALLOWED_FIELDS
<1> QED  BY <1>1, <1>3

\* validate_patch accepts a patch only if it has looked at all its entries.
LEMMA ValidPatch ==
  ASSUME NEW a, NEW cs, "ok" \in validate_patch(a, cs)
  PROVE  \A n \in DOMAIN cs : _validate_container(cs[n]) = {}
<1>1. \A n \in DOMAIN cs : "ok" \notin _validate_container(cs[n])
      BY DEF _validate_container
<1> QED  BY <1>1 DEF validate_patch

\* What the LLM's accepted answer proposes.
LEMMA AcceptedPatch ==
  ASSUME NEW a \in Answers, NEW i \in Incidents, "ok" \in Verdicts(a, i)
  PROVE  LET cs == _strip_invented_probes(a.containers, i) IN
         /\ cs \in Seq(ContainerPatches)
         /\ \A n \in DOMAIN cs : _validate_container(cs[n]) = {}
         /\ i.events = {} =>
              \A n \in DOMAIN cs, f \in ProbeFields : cs[n].fields[f] # "absent" => i.spec[f] # "none"
<1>1. a.containers \in Seq(ContainerPatches)
      BY TriageAssumption DEF AnswerForms
<1>2. "ok" \in validate_patch(a, _strip_invented_probes(a.containers, i))
      BY DEF Verdicts
<1> QED  BY <1>1, <1>2, StripType, StripRemoves, ValidPatch

-----------------------------------------------------------------------------
(* The worker.                                                             *)

\* The patch of probefix is one of the patches that the code expects.
LEMMA StartupFixType == StartupFix \in Seq(ContainerPatches)
<1> DEFINE g == [NoFields EXCEPT !["startupProbe"] = "ok"]
           c == [is |-> "object", name |-> "failing", extra |-> FALSE, fields |-> g]
<1>1. g \in [ALLOWED_FIELDS -> FieldForms] /\ g["resources"] # "trips"
      BY DEF NoFields, ALLOWED_FIELDS, ProbeFields, FieldForms
<1>2. c \in ContainerPatches
      BY <1>1 DEF ContainerPatches
<1> QED  BY <1>2 DEF StartupFix

\* The reason of an incident is one of models.FailureReason.
LEMMA ClassifyType ==
  ASSUME NEW s \in ContainerStatuses, _classify(s) # "healthy"
  PROVE  _classify(s) \in FailureReasons
BY DEF _classify, FailureReasons

\* A worker that has not started satisfies the invariant.
LEMMA InitEstablishesTriage == Init => TriageInv
BY DEF Init, NoIncidentYet, Incidents, FailureReasons, ProbeForms, ProbeFields, Stages,
       _MAX_ATTEMPTS, AUTO_REMEDIABLE_REASONS, TriageInv, TriageTypeOK, ProposedAtTheEnd,
       AttemptsAreCounted, ProposedPatchesAreAllowed, NoInventedProbes, EscalationIsLast, Proposed

\* What may be proposed where.
Sound(p, i, n) ==
  /\ p \in Proposals
  /\ p.plan = "patch" =>
       /\ \A m \in DOMAIN p.containers :
            LET c == p.containers[m] IN
            /\ c.is = "object" /\ c.name # "missing" /\ ~c.extra
            /\ \A f \in ALLOWED_FIELDS : c.fields[f] \in {"absent", "ok"}
       /\ i.events = {} =>
            \A m \in DOMAIN p.containers, f \in ProbeFields :
              LET c == p.containers[m] IN
              c.name = "failing" /\ c.fields[f] # "absent" => i.spec[f] # "none"
  /\ p.plan = "needs_human" =>
       n = IF i.reason \in AUTO_REMEDIABLE_REASONS THEN _MAX_ATTEMPTS ELSE 0

\* A sound proposal keeps the invariant.
LEMMA ProposeKeeps ==
  ASSUME TriageInv, NEW p \in {"patch", "rollback", "needs_human"},
         NEW b \in {"rollout", "probefix", "brain", "process"}, NEW cs,
         Propose(p, b, cs), attempt' \in 0 .. _MAX_ATTEMPTS,
         attempt' > 0 => incident.reason \in AUTO_REMEDIABLE_REASONS,
         Sound(Proposal(p, b, cs), incident, attempt')
  PROVE  TriageInv'
<1>1. /\ stage' = "proposed" /\ proposal' = Proposal(p, b, cs) /\ incident' = incident
      BY DEF Propose
<1>2. Sound(proposal', incident', attempt')
      BY <1>1
<1>3. TriageTypeOK' /\ ProposedAtTheEnd' /\ AttemptsAreCounted'
      BY <1>1, <1>2 DEF Sound, TriageInv, TriageTypeOK, ProposedAtTheEnd, AttemptsAreCounted, Stages
<1>4. ProposedPatchesAreAllowed' /\ NoInventedProbes' /\ EscalationIsLast'
      BY <1>2 DEF Sound, ProposedPatchesAreAllowed, NoInventedProbes, EscalationIsLast, Proposed
<1> QED  BY <1>3, <1>4 DEF TriageInv

\* So does a step that proposes nothing.
LEMMA SilentKeeps ==
  ASSUME TriageInv, stage # "proposed", stage' \in Stages \ {"proposed"},
         proposal' = proposal, incident' \in Incidents, attempt' \in 0 .. _MAX_ATTEMPTS,
         AttemptsAreCounted'
  PROVE  TriageInv'
BY DEF TriageInv, TriageTypeOK, ProposedAtTheEnd, ProposedPatchesAreAllowed, NoInventedProbes,
       EscalationIsLast, Proposed

\* Every step keeps the invariant.
LEMMA StepKeepsTriage == TriageInv /\ [Next]_vars => TriageInv'
<1> SUFFICES ASSUME TriageInv, [Next]_vars  PROVE TriageInv'
    OBVIOUS
<1> USE DEF _MAX_ATTEMPTS
<1>0. TriageTypeOK /\ ProposedAtTheEnd /\ AttemptsAreCounted
      BY DEF TriageInv
<1>1. CASE Observe
  <2>1. PICK s \in ContainerStatuses :
          /\ _classify(s) # "healthy"
          /\ \E e \in SUBSET ProbeFields, d \in [ProbeFields -> ProbeForms] :
               incident' = [reason |-> _classify(s), events |-> e, spec |-> d]
        BY <1>1 DEF Observe
  <2>2. incident' \in Incidents
        BY <2>1, ClassifyType DEF Incidents
  <2>3. AttemptsAreCounted'
        BY <1>0, <1>1 DEF Observe, AttemptsAreCounted
  <2> QED  BY <1>0, <1>1, <2>2, <2>3, SilentKeeps DEF Observe, Stages, TriageTypeOK
<1>2. CASE AssessRollout
  <2>1. CASE Propose("rollback", "rollout", <<>>)
    <3>1. Sound(Proposal("rollback", "rollout", <<>>), incident, attempt')
          BY <1>0, <1>2, EmptySeq DEF AssessRollout, Sound, Proposal, Proposals, AttemptsAreCounted
    <3> QED  BY <1>0, <1>2, <2>1, <3>1, ProposeKeeps
             DEF AssessRollout, TriageTypeOK, AttemptsAreCounted
  <2>2. CASE stage' = "probefix" /\ UNCHANGED <<incident, proposal>>
    <3>1. AttemptsAreCounted'
          BY <1>0, <1>2, <2>2 DEF AssessRollout, AttemptsAreCounted
    <3> QED  BY <1>0, <1>2, <2>2, <3>1, SilentKeeps DEF AssessRollout, Stages, TriageTypeOK
  <2> QED  BY <1>2, <2>1, <2>2 DEF AssessRollout
<1>3. CASE AssessSlowStart
  <2>1. CASE IsSlowStart(incident)
    <3>1. Propose("patch", "probefix", StartupFix) /\ attempt' = attempt /\ attempt = 0
          BY <1>0, <1>3, <2>1 DEF AssessSlowStart, AttemptsAreCounted
    <3>2. incident.events # {}
          BY <2>1 DEF IsSlowStart
    <3>3. \A m \in DOMAIN StartupFix :
            /\ StartupFix[m].is = "object" /\ StartupFix[m].name # "missing" /\ ~StartupFix[m].extra
            /\ \A f \in ALLOWED_FIELDS : StartupFix[m].fields[f] \in {"absent", "ok"}
          BY DEF StartupFix, NoFields, ALLOWED_FIELDS, ProbeFields
    <3>4. Sound(Proposal("patch", "probefix", StartupFix), incident, attempt')
          BY <3>1, <3>2, <3>3, StartupFixType DEF Sound, Proposal, Proposals
    <3> QED  BY <3>1, <3>4, ProposeKeeps
  <2>2. CASE ~IsSlowStart(incident)
    <3>1. AttemptsAreCounted'
          BY <1>0, <1>3, <2>2 DEF AssessSlowStart, AttemptsAreCounted
    <3> QED  BY <1>0, <1>3, <2>2, <3>1, SilentKeeps DEF AssessSlowStart, Stages, TriageTypeOK
  <2> QED  BY <2>1, <2>2
<1>4. CASE Route
  <2>1. CASE incident.reason \in AUTO_REMEDIABLE_REASONS
    <3>1. AttemptsAreCounted'
          BY <1>0, <1>4, <2>1 DEF Route, AttemptsAreCounted
    <3> QED  BY <1>0, <1>4, <2>1, <3>1, SilentKeeps DEF Route, Stages, TriageTypeOK
  <2>2. CASE incident.reason \notin AUTO_REMEDIABLE_REASONS
    <3>1. Propose("needs_human", "process", <<>>) /\ attempt' = attempt /\ attempt = 0
          BY <1>0, <1>4, <2>2 DEF Route, AttemptsAreCounted
    <3>2. Sound(Proposal("needs_human", "process", <<>>), incident, attempt')
          BY <2>2, <3>1, EmptySeq DEF Sound, Proposal, Proposals
    <3> QED  BY <3>1, <3>2, ProposeKeeps
  <2> QED  BY <2>1, <2>2
<1>5. CASE Ask
  <2>1. PICK a \in Answers : (Accept(a) /\ UNCHANGED attempt) \/ Reject(a) \/ Trip(a)
        BY <1>5 DEF Ask
  <2>2. /\ incident.reason \in AUTO_REMEDIABLE_REASONS /\ attempt < _MAX_ATTEMPTS
        /\ attempt \in 0 .. _MAX_ATTEMPTS /\ incident \in Incidents /\ stage = "ask"
        BY <1>0, <1>5 DEF Ask, AttemptsAreCounted, TriageTypeOK
  <2>3. CASE Accept(a) /\ UNCHANGED attempt
    <3> DEFINE cs == _strip_invented_probes(a.containers, incident)
    <3>1. /\ cs \in Seq(ContainerPatches)
          /\ \A n \in DOMAIN cs : _validate_container(cs[n]) = {}
          /\ incident.events = {} =>
               \A n \in DOMAIN cs, f \in ProbeFields :
                 cs[n].fields[f] # "absent" => incident.spec[f] # "none"
          BY <2>2, <2>3, AcceptedPatch DEF Accept
    <3>2. Propose("patch", "brain", cs)
          BY <2>3 DEF Accept
    <3> HIDE DEF cs
    <3>3. \A n \in DOMAIN cs :
            LET c == cs[n] IN
            /\ c.is = "object" /\ c.name # "missing" /\ ~c.extra
            /\ \A f \in ALLOWED_FIELDS : c.fields[f] \in {"absent", "ok"}
          BY <3>1, ValidEntry, ElementOfSeq, LenProperties
    <3>4. Sound(Proposal("patch", "brain", cs), incident, attempt')
          BY <2>2, <3>1, <3>3 DEF Sound, Proposal, Proposals
    <3> QED  BY <2>2, <2>3, <3>2, <3>4, ProposeKeeps
  <2>4. CASE Reject(a)
    <3>1. attempt' = attempt + 1 /\ attempt' \in 0 .. _MAX_ATTEMPTS
          BY <2>2, <2>4 DEF Reject
    <3>2. CASE attempt + 1 = _MAX_ATTEMPTS
      <4>1. Propose("needs_human", "process", <<>>)
            BY <2>4, <3>2 DEF Reject
      <4>2. Sound(Proposal("needs_human", "process", <<>>), incident, attempt')
            BY <2>2, <3>1, <3>2, EmptySeq DEF Sound, Proposal, Proposals
      <4> QED  BY <2>2, <3>1, <4>1, <4>2, ProposeKeeps
    <3>3. CASE attempt + 1 # _MAX_ATTEMPTS
      <4>1. UNCHANGED <<stage, incident, proposal>>
            BY <2>4, <3>3 DEF Reject
      <4>2. AttemptsAreCounted'
            BY <2>2, <3>1, <3>3, <4>1 DEF AttemptsAreCounted
      <4> QED  BY <1>0, <2>2, <3>1, <4>1, <4>2, SilentKeeps DEF Stages
    <3> QED  BY <3>2, <3>3
  <2>5. CASE Trip(a)
    <3>1. AttemptsAreCounted'
          BY <2>2, <2>5 DEF Trip, AttemptsAreCounted
    <3> QED  BY <2>2, <2>5, <3>1, SilentKeeps DEF Trip, Stages
  <2> QED  BY <2>1, <2>3, <2>4, <2>5
<1>6. CASE UNCHANGED vars
      BY <1>6 DEF vars, TriageInv, TriageTypeOK, ProposedAtTheEnd, AttemptsAreCounted,
                  ProposedPatchesAreAllowed, NoInventedProbes, EscalationIsLast, Proposed
<1> QED  BY <1>1, <1>2, <1>3, <1>4, <1>5, <1>6 DEF Next, Progress

-----------------------------------------------------------------------------
(* What follows.                                                           *)

\* TriageInv holds throughout, for every set of answers.
LEMMA AlwaysTriageInv == Spec => []TriageInv
BY InitEstablishesTriage, StepKeepsTriage, PTL DEF Spec

\* The variables have their types, and a proposal is one that the store and the
\* alert can be made from.
THEOREM TriageTypeCorrect == Spec => []TriageTypeOK
<1>1. TriageInv => TriageTypeOK
      BY DEF TriageInv
<1> QED  BY <1>1, AlwaysTriageInv, PTL

\* No answer of the LLM, however many entries it has, leads to a proposal with an
\* entry outside the allow-list.
THEOREM OnlyAllowedPatches == Spec => []ProposedPatchesAreAllowed
<1>1. TriageInv => ProposedPatchesAreAllowed
      BY DEF TriageInv
<1> QED  BY <1>1, AlwaysTriageInv, PTL

\* Nor to one that invents a probe for the failing container, in whichever of its
\* entries.
THEOREM NoProbeIsInvented == Spec => []NoInventedProbes
<1>1. TriageInv => NoInventedProbes
      BY DEF TriageInv
<1> QED  BY <1>1, AlwaysTriageInv, PTL

\* A human is not bothered before the last attempt.
THEOREM EscalationIsTheLastResort == Spec => []EscalationIsLast
<1>1. TriageInv => EscalationIsLast
      BY DEF TriageInv
<1> QED  BY <1>1, AlwaysTriageInv, PTL

-----------------------------------------------------------------------------
(* Which answers end a worker.                                             *)

\* An answer that the code is prepared for, right or wrong: the call succeeds,
\* and there is an object where the code chains .get, something to iterate over
\* for the containers, an object for each of them (or a text or list, if it names
\* no probe that the code would delete), and an object where it reads a port.
Expectable(a) ==
  \/ a.is = "invalid"
  \/ /\ a.is = "diagnosis"
     /\ a.envelope # "not_object"
     /\ a.list # "not_iterable"
     /\ \A n \in DOMAIN a.containers :
          /\ a.containers[n].is # "scalar"
          /\ a.containers[n].is = "text" =>
               \A f \in ProbeFields : a.containers[n].fields[f] = "absent"
          /\ \A f \in ProbeFields : a.containers[n].fields[f] # "trips"

\* Stripping puts nothing into an entry.
LEMMA StripAddsNothing ==
  ASSUME NEW cs \in Seq(ContainerPatches), NEW i \in Incidents,
         NEW n \in DOMAIN cs, NEW f \in ProbeFields
  PROVE  _strip_invented_probes(cs, i)[n].fields[f] \in {"absent", cs[n].fields[f]}
<1>1. cs[n] \in ContainerPatches
      BY ElementOfSeq, LenProperties
<1>2. CASE _is_probe_related(i)
      BY <1>2 DEF _strip_invented_probes
<1>3. CASE ~_is_probe_related(i)
  <2>1. _strip_invented_probes(cs, i)[n].fields[f] =
          IF f \in ProbeFields /\ i.spec[f] = "none" THEN "absent" ELSE cs[n].fields[f]
        BY <1>1, <1>3 DEF _strip_invented_probes, ContainerPatches, ALLOWED_FIELDS
  <2> QED  BY <2>1
<1> QED  BY <1>2, <1>3

\* No verdict on such an answer is an exception.
LEMMA ExpectableIsJudged ==
  ASSUME NEW a \in Answers, NEW i \in Incidents, Expectable(a)
  PROVE  "trips" \notin Verdicts(a, i)
<1> DEFINE cs == _strip_invented_probes(a.containers, i)
<1>1. a.containers \in Seq(ContainerPatches)
      BY TriageAssumption DEF AnswerForms
<1>2. CASE a.is = "invalid"
      BY <1>2 DEF Verdicts
<1>3. CASE a.is # "invalid"
  <2>1. a.is = "diagnosis" /\ ~StripRaises(a, i)
        BY <1>3 DEF Expectable, StripRaises, EntryRaises
  <2>2. DOMAIN cs = DOMAIN a.containers
        BY <1>1, StripType
  <2>3. ASSUME NEW n \in DOMAIN cs
        PROVE  "trips" \notin _validate_container(cs[n])
    <3>1. \A f \in ProbeFields : cs[n].fields[f] # "trips"
          BY <1>1, <1>3, <2>2, <2>3, StripAddsNothing DEF Expectable
    <3> QED  BY <3>1 DEF _validate_container
  <2> HIDE DEF cs
  <2>4. "trips" \notin validate_patch(a, cs)
        BY <2>3 DEF validate_patch
  <2> QED  BY <2>1, <2>4 DEF Verdicts, cs
<1> QED  BY <1>2, <1>3

\* The worker is on its way, or has arrived.
Alive == stage # "dead"

\* The safety half of EveryIncidentHasAnOutcome: if the LLM only gives answers
\* that the code is prepared for, however wrong, no worker dies on the way.
THEOREM OnlyUnexpectedAnswersKill ==
  ASSUME \A a \in Answers : Expectable(a)
  PROVE  Spec => []Alive
<1>. USE DEF Alive
<1>1. ASSUME TriageInv, Alive, [Next]_vars
      PROVE  Alive'
  <2>1. ASSUME NEW a \in Answers PROVE ~Trip(a)
        BY <1>1, ExpectableIsJudged DEF Trip, TriageInv, TriageTypeOK
  <2> QED  BY <1>1, <2>1 DEF Next, Progress, Observe, AssessRollout, AssessSlowStart, Route, Ask,
                  Accept, Reject, Propose, vars
<1>2. Init => Alive
      BY DEF Init
<1> QED  BY <1>1, <1>2, AlwaysTriageInv, PTL DEF Spec

-----------------------------------------------------------------------------
(* What Worker sees of a decision.                                         *)

\* A step that is none of Worker's is one that it does not see.
LEMMA TriageStepWorks ==
  ASSUME TriageInv, Next, stage # "watching"
  PROVE  \/ UNCHANGED <<WorkerPC, Plan>>
         \/ TheWorker!AssessDecides("i")
         \/ TheWorker!AssessFallsThrough("i")
         \/ TheWorker!Diagnose("i")
         \/ TheWorker!WorkerDies("i")
<1> DEFINE wpcOf  == [i \in {"i"} |-> WorkerPC]
           planOf == [i \in {"i"} |-> Plan]
<1>0. stage # "proposed" => proposal = NoProposal /\ Plan = "none"
      BY DEF TriageInv, ProposedAtTheEnd, Plan
<1>1. ASSUME NEW p \in {"patch", "rollback", "needs_human"},
             NEW b \in {"rollout", "probefix", "brain", "process"},
             NEW cs \in Seq(ContainerPatches), Propose(p, b, cs), stage # "proposed"
      PROVE  /\ wpcOf' = [wpcOf EXCEPT !["i"] = "create"]
             /\ planOf' = [planOf EXCEPT !["i"] = p]
  <2>1. stage' = "proposed" /\ proposal' = Proposal(p, b, cs)
        BY <1>1 DEF Propose
  <2>2. Proposal(p, b, cs) \in Proposals /\ Proposal(p, b, cs).plan = p
        BY <1>1 DEF Proposal, Proposals
  <2>3. WorkerPC' = "create" /\ Plan' = p
        BY <2>1, <2>2, TriageAssumption DEF WorkerPC, Plan
  <2> QED  BY <2>3
<1>2. ASSUME stage # "watching", NEW p \in {"patch", "rollback", "needs_human"},
             wpcOf' = [wpcOf EXCEPT !["i"] = "create"], planOf' = [planOf EXCEPT !["i"] = p]
      PROVE  /\ WorkerPC = "assess" => TheWorker!AssessDecides("i")
             /\ WorkerPC = "diagnose" /\ p # "rollback" => TheWorker!Diagnose("i")
  <2>1. TheWorker!Decide("i", p)
        BY <1>2 DEF TheWorker!Decide, TheWorker!Goto, TheWorker!slackVars
  <2>2. wpcOf["i"] = WorkerPC /\ p \in TheWorker!Plans
        BY DEF TheWorker!Plans
  <2> QED  BY <1>2, <2>1, <2>2 DEF TheWorker!AssessDecides, TheWorker!Diagnose
<1>3. ASSUME stage' # "proposed", proposal' = proposal, stage # "proposed"
      PROVE  Plan' = Plan
      BY <1>3 DEF Plan
<1>4. CASE AssessRollout
  <2>1. stage = "assess" /\ WorkerPC = "assess"
        BY <1>4 DEF AssessRollout, WorkerPC
  <2>2. CASE Propose("rollback", "rollout", <<>>)
        BY <1>1, <1>2, <2>1, <2>2, EmptySeq
  <2>3. CASE stage' = "probefix" /\ UNCHANGED <<incident, proposal>>
        BY <1>3, <2>1, <2>3 DEF WorkerPC
  <2> QED  BY <1>4, <2>2, <2>3 DEF AssessRollout
<1>5. CASE AssessSlowStart
  <2>1. stage = "probefix" /\ WorkerPC = "assess"
        BY <1>5 DEF AssessSlowStart, WorkerPC
  <2>2. CASE Propose("patch", "probefix", StartupFix)
        BY <1>1, <1>2, <2>1, <2>2, StartupFixType
  <2>3. CASE stage' = "route" /\ UNCHANGED <<incident, proposal>>
        BY <1>3, <2>1, <2>3 DEF WorkerPC
  <2> QED  BY <1>5, <2>2, <2>3 DEF AssessSlowStart
<1>6. CASE Route
  <2>1. stage = "route" /\ WorkerPC = "assess"
        BY <1>6 DEF Route, WorkerPC
  <2>2. CASE Propose("needs_human", "process", <<>>)
        BY <1>1, <1>2, <2>1, <2>2, EmptySeq
  <2>3. CASE stage' = "ask" /\ UNCHANGED <<incident, proposal>>
    <3>1. WorkerPC' = "diagnose" /\ Plan' = Plan
          BY <1>3, <2>1, <2>3 DEF WorkerPC
    <3>2. /\ wpcOf' = [wpcOf EXCEPT !["i"] = "diagnose"] /\ planOf' = planOf
          /\ wpcOf["i"] = "assess"
          BY <2>1, <3>1
    <3> QED  BY <3>2 DEF TheWorker!AssessFallsThrough, TheWorker!Goto, TheWorker!storeVars,
                         TheWorker!slackVars
  <2> QED  BY <1>6, <2>2, <2>3 DEF Route
<1>7. CASE Ask
  <2>1. PICK a \in Answers : (Accept(a) /\ UNCHANGED attempt) \/ Reject(a) \/ Trip(a)
        BY <1>7 DEF Ask
  <2>2. stage = "ask" /\ WorkerPC = "diagnose" /\ incident \in Incidents
        BY <1>7 DEF Ask, WorkerPC, TriageInv, TriageTypeOK
  <2>3. CASE Accept(a)
    <3>1. _strip_invented_probes(a.containers, incident) \in Seq(ContainerPatches)
          BY <2>2, <2>3, AcceptedPatch DEF Accept
    <3> QED  BY <1>1, <1>2, <2>2, <2>3, <3>1 DEF Accept
  <2>4. CASE Reject(a)
    <3>1. CASE Propose("needs_human", "process", <<>>)
          BY <1>1, <1>2, <2>2, <3>1, EmptySeq
    <3>2. CASE UNCHANGED <<stage, incident, proposal>>
          BY <3>2 DEF WorkerPC, Plan
    <3> QED  BY <2>4, <3>1, <3>2 DEF Reject
  <2>5. CASE Trip(a)
    <3>1. WorkerPC' = "done" /\ Plan' = Plan
          BY <1>3, <2>2, <2>5 DEF Trip, WorkerPC
    <3>2. /\ wpcOf' = [wpcOf EXCEPT !["i"] = "done"] /\ planOf' = planOf
          /\ wpcOf["i"] = "diagnose"
          BY <2>2, <3>1
    <3> QED  BY <3>2 DEF TheWorker!WorkerDies, TheWorker!Goto, TheWorker!Deciding,
                         TheWorker!storeVars, TheWorker!slackVars
  <2> QED  BY <2>1, <2>3, <2>4, <2>5
<1> QED  BY <1>4, <1>5, <1>6, <1>7 DEF Next, Progress, Observe

\* The choice of a proposal is one of those that Worker allows: whatever is shown
\* of KubeHeal with Worker holds with the strategies and the retry loop in place.
THEOREM TriageImplementsWorker == Spec => ImplementsWorker
<1>1. TriageInv /\ [Next]_vars =>
        \/ UNCHANGED <<WorkerPC, Plan>>
        \/ stage # "watching" =>
             \/ TheWorker!AssessDecides("i")
             \/ TheWorker!AssessFallsThrough("i")
             \/ TheWorker!Diagnose("i")
             \/ TheWorker!WorkerDies("i")
  <2>1. CASE UNCHANGED vars
        BY <2>1 DEF vars, WorkerPC, Plan
  <2> QED  BY <2>1, TriageStepWorks
<1> QED  BY <1>1, AlwaysTriageInv, PTL DEF Spec, ImplementsWorker
=============================================================================
