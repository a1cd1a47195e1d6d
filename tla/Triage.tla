------------------------------- MODULE Triage -------------------------------
(***************************************************************************)
(* From the status of a container to a proposal: observer._classify and    *)
(* _build_incident, the choice of a strategy in main.process, the start-up *)
(* probe of probefix.assess, and brain.diagnose, which asks the LLM up to  *)
(* three times, strips the probes it invented and lets safety              *)
(* .validate_patch decide.  One incident: each has its own thread and      *)
(* shares nothing with the others before its row is inserted.              *)
(*                                                                         *)
(* Of a probe only its port matters, and of a patch only what the program  *)
(* looks at: whether each part has the form that the code expects.         *)
(***************************************************************************)
EXTENDS Naturals, Sequences

CONSTANTS
  Answers,      \* what the LLM may answer (bounds a model)
  NoProposal    \* "no proposal yet", outside Proposals

_MAX_ATTEMPTS == 3

-----------------------------------------------------------------------------
(* The incident.                                                           *)

PullErrors   == {"ImagePullBackOff", "ErrImagePull", "InvalidImageName"}
ConfigErrors == {"CreateContainerConfigError", "CreateContainerError"}

\* A V1ContainerStatus: the waiting reason, and the reasons why the current
\* and the previous instance terminated.
ContainerStatuses ==
  [waiting    : {"none", "CrashLoopBackOff", "ContainerCreating"} \cup PullErrors \cup ConfigErrors,
   terminated : {"none", "OOMKilled", "Error"},
   last       : {"none", "OOMKilled", "Error"}]

FailureReasons ==
  {"CrashLoopBackOff", "OOMKilled", "ImagePullBackOff", "CreateContainerConfigError"}

AUTO_REMEDIABLE_REASONS == {"CrashLoopBackOff", "OOMKilled"}

_classify(s) ==
  CASE s.waiting = "CrashLoopBackOff" ->
         IF s.last = "OOMKilled" THEN "OOMKilled" ELSE "CrashLoopBackOff"
    [] s.waiting \in PullErrors   -> "ImagePullBackOff"
    [] s.waiting \in ConfigErrors -> "CreateContainerConfigError"
    [] OTHER -> IF "OOMKilled" \in {s.terminated, s.last} THEN "OOMKilled" ELSE "healthy"

ProbeFields    == {"livenessProbe", "readinessProbe", "startupProbe"}
ALLOWED_FIELDS == {"resources"} \cup ProbeFields

\* A probe of the container: none; without a port ("exec"); on a port that the
\* container declares, or on another one.
ProbeForms == {"none", "exec", "declared", "undeclared"}

\* events: the probes that the recent events mention.  spec: current_spec, in
\* which nothing is there either when the Deployment could not be read.
Incidents ==
  [reason : FailureReasons, events : SUBSET ProbeFields, spec : [ProbeFields -> ProbeForms]]

-----------------------------------------------------------------------------
(* Patches.                                                                *)

\* What a field of a container patch turns out to be: a form that validate_patch
\* accepts, one that it rejects, or one that it trips over: a probe handler
\* with a port that is not an object ("tcpSocket": 8080).
FieldForms == {"absent", "ok", "bad", "trips"}

\* An entry of the containers list: an object; a text or a list, where fields
\* says which names "in" finds in it; or a number or null, where "in" raises
\* TypeError.
ContainerPatches ==
  [is     : {"object", "text", "scalar"},
   name   : {"failing", "other", "missing"},
   extra  : BOOLEAN,     \* it has a field outside ALLOWED_FIELDS
   fields : {g \in [ALLOWED_FIELDS -> FieldForms] : g["resources"] # "trips"}]

\* An answer of the LLM.  is: not a Diagnosis at all; a Diagnosis; or the call
\* itself raises.  envelope: the objects around the containers list.  list: a
\* list; something else one can iterate over, which yields texts (the characters
\* of a text, the keys of an object); or not.
AnswerForms ==
  {a \in [is       : {"invalid", "diagnosis", "error"},
          envelope : {"exact", "extra_key", "missing_key", "not_object"},
          list     : {"list", "iterable", "not_iterable"},
          containers : Seq(ContainerPatches)] :
     a.list = "iterable" => \A n \in DOMAIN a.containers : a.containers[n].is = "text"}

Proposals ==
  [plan : {"patch", "rollback", "needs_human"},
   by : {"rollout", "probefix", "brain", "process"},
   containers : Seq(ContainerPatches)]

ASSUME TriageAssumption ==
  /\ Answers \subseteq AnswerForms
  /\ NoProposal \notin Proposals

NoFields == [f \in ALLOWED_FIELDS |-> "absent"]

Proposal(p, b, cs) == [plan |-> p, by |-> b, containers |-> cs]

VARIABLES
  stage,      \* where the worker stands in main.process
  incident,   \* what it was given
  attempt,    \* how often the LLM has answered
  proposal    \* what the worker goes on to insert and post

vars == <<stage, incident, attempt, proposal>>

Stages == {"watching", "assess", "probefix", "route", "ask", "proposed", "dead"}

NoIncidentYet ==
  [reason |-> "CrashLoopBackOff", events |-> {}, spec |-> [f \in ProbeFields |-> "none"]]

Init ==
  /\ stage = "watching"
  /\ incident = NoIncidentYet
  /\ attempt = 0
  /\ proposal = NoProposal

Propose(p, b, cs) ==
  /\ stage' = "proposed"
  /\ proposal' = Proposal(p, b, cs)
  /\ UNCHANGED incident

-----------------------------------------------------------------------------
\* _classify and _build_incident.  A pod without a Deployment is passed over.
Observe ==
  /\ stage = "watching"
  /\ \E s \in ContainerStatuses :
       /\ _classify(s) # "healthy"
       /\ \E e \in SUBSET ProbeFields, d \in [ProbeFields -> ProbeForms] :
            incident' = [reason |-> _classify(s), events |-> e, spec |-> d]
  /\ stage' = "assess"
  /\ UNCHANGED <<attempt, proposal>>

\* rollback.assess (Rollout) finds a failing recent deploy, or None.
AssessRollout ==
  /\ stage = "assess"
  /\ \/ Propose("rollback", "rollout", <<>>)
     \/ stage' = "probefix" /\ UNCHANGED <<incident, proposal>>
  /\ UNCHANGED attempt

\* probefix.assess: the probe that kills the container asks on a declared port,
\* and nothing grants it time to start.
IsSlowStart(i) ==
  LET probe == IF i.spec["livenessProbe"] # "none" THEN i.spec["livenessProbe"]
                                                   ELSE i.spec["readinessProbe"]
  IN /\ i.events \cap {"livenessProbe", "readinessProbe"} # {}
     /\ i.spec["startupProbe"] = "none"
     /\ probe = "declared"

StartupFix ==
  << [is |-> "object", name |-> "failing", extra |-> FALSE,
      fields |-> [NoFields EXCEPT !["startupProbe"] = "ok"]] >>

AssessSlowStart ==
  /\ stage = "probefix"
  /\ IF IsSlowStart(incident)
     THEN Propose("patch", "probefix", StartupFix)
     ELSE stage' = "route" /\ UNCHANGED <<incident, proposal>>
  /\ UNCHANGED attempt

\* Reasons outside the list go to a human.
Route ==
  /\ stage = "route"
  /\ IF incident.reason \in AUTO_REMEDIABLE_REASONS
     THEN stage' = "ask" /\ UNCHANGED <<incident, proposal>>
     ELSE Propose("needs_human", "process", <<>>)
  /\ UNCHANGED attempt

-----------------------------------------------------------------------------
(* brain.diagnose.                                                         *)

_is_probe_related(i) == i.events # {}

\* Mutant of _strip_invented_probes: only the first container is looked at.
_strip_invented_probes_First(cs, i) ==
  IF _is_probe_related(i) \/ cs = <<>> THEN cs
  ELSE [cs EXCEPT ![1].fields =
          [f \in ALLOWED_FIELDS |->
             IF f \in ProbeFields /\ i.spec[f] = "none" THEN "absent" ELSE @[f]]]

\* Unless the events mention a probe, those that are not on the failing container
\* are removed from every entry, whichever container it names.
_strip_invented_probes(cs, i) ==
  IF _is_probe_related(i) THEN cs
  ELSE [n \in DOMAIN cs |->
          [cs[n] EXCEPT !.fields =
             [f \in ALLOWED_FIELDS |->
                IF f \in ProbeFields /\ i.spec[f] = "none" THEN "absent" ELSE @[f]]]]

\* "camel in container" raises TypeError, or "del container[camel]" does: nothing
\* can be deleted from a text, nor from a list by name.
EntryRaises(c, i) ==
  \/ c.is = "scalar"
  \/ c.is = "text" /\ \E f \in ProbeFields : c.fields[f] # "absent" /\ i.spec[f] = "none"

\* It chains .get, iterates and deletes before anything has been validated.
StripRaises(a, i) ==
  /\ ~_is_probe_related(i)
  /\ \/ a.envelope = "not_object"
     \/ /\ a.envelope # "missing_key"
        /\ \/ a.list = "not_iterable"
           \/ \E n \in DOMAIN a.containers : EntryRaises(a.containers[n], i)

\* Mutant of _validate_container: the keys of the entry are not looked at.
_validate_container_AnyKey(c) ==
  IF c.is # "object" \/ c.name = "missing" \/ c.fields["resources"] = "bad"
  THEN {"bad"}
  ELSE {c.fields[f] : f \in ProbeFields} \cap {"bad", "trips"}

\* The problems one of which ends _validate_container (the probes are looked at
\* in the order of a set).
_validate_container(c) ==
  IF c.is # "object" \/ c.name = "missing" \/ c.extra \/ c.fields["resources"] = "bad"
  THEN {"bad"}
  ELSE {c.fields[f] : f \in ProbeFields} \cap {"bad", "trips"}

\* What may come of validate_patch: the first container with a problem decides.
validate_patch(a, cs) ==
  IF a.envelope # "exact" \/ a.list # "list" \/ cs = <<>> THEN {"bad"}
  ELSE IF \A n \in DOMAIN cs : _validate_container(cs[n]) = {} THEN {"ok"}
  ELSE UNION {_validate_container(cs[n]) :
                n \in {m \in DOMAIN cs : \A l \in 1 .. m - 1 : _validate_container(cs[l]) = {}}}

\* The verdicts on an answer: accepted, rejected (ask again), or an exception
\* that diagnose does not catch.
Verdicts(a, i) ==
  CASE a.is = "error"   -> {"trips"}
    [] a.is = "invalid" -> {"bad"}
    [] OTHER -> IF StripRaises(a, i) THEN {"trips"}
                ELSE validate_patch(a, _strip_invented_probes(a.containers, i))

Accept(a) ==
  /\ "ok" \in Verdicts(a, incident)
  /\ Propose("patch", "brain", _strip_invented_probes(a.containers, incident))

\* Mutant of Reject: the BrainError after the last attempt is not caught.
Reject_Uncaught(a) ==
  /\ "bad" \in Verdicts(a, incident)
  /\ attempt' = attempt + 1
  /\ stage' = IF attempt + 1 = _MAX_ATTEMPTS THEN "dead" ELSE stage
  /\ UNCHANGED <<incident, proposal>>

\* Mutant of Reject: the attempts are compared with > instead of >=.
Reject_OffByOne(a) ==
  /\ "bad" \in Verdicts(a, incident)
  /\ attempt' = attempt + 1
  /\ IF attempt = _MAX_ATTEMPTS
     THEN Propose("needs_human", "process", <<>>)
     ELSE UNCHANGED <<stage, incident, proposal>>

\* The error is fed back; after the last attempt BrainError goes to a human.
Reject(a) ==
  /\ "bad" \in Verdicts(a, incident)
  /\ attempt' = attempt + 1
  /\ IF attempt + 1 = _MAX_ATTEMPTS
     THEN Propose("needs_human", "process", <<>>)
     ELSE UNCHANGED <<stage, incident, proposal>>

\* Mutant of Trip: process swallows the exception and posts what it has.
Trip_Swallowed(a) ==
  /\ "trips" \in Verdicts(a, incident)
  /\ stage' = "proposed"
  /\ UNCHANGED <<incident, attempt, proposal>>

\* The exception ends the worker, and nobody is told.
Trip(a) ==
  /\ "trips" \in Verdicts(a, incident)
  /\ stage' = "dead"
  /\ UNCHANGED <<incident, attempt, proposal>>

Ask ==
  /\ stage = "ask"
  /\ \E a \in Answers :
       \/ Accept(a) /\ UNCHANGED attempt
       \/ Reject(a)
       \/ Trip(a)

Progress == AssessRollout \/ AssessSlowStart \/ Route \/ Ask

Next == Observe \/ Progress

Spec == Init /\ [][Next]_vars

\* The thread of an incident runs to its end.
LiveSpec == Spec /\ WF_vars(Progress)
=============================================================================
