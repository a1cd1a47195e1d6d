-------------------------- MODULE TriageCorrectness --------------------------
(***************************************************************************)
(* What the choice of a proposal guarantees, whatever the LLM answers.     *)
(***************************************************************************)
EXTENDS Triage

\* The variables have the types that their comments give; an accepted patch
\* is still a list of container entries.
TriageTypeOK ==
  /\ stage \in Stages
  /\ incident \in Incidents
  /\ attempt \in 0 .. _MAX_ATTEMPTS
  /\ proposal \in Proposals \cup {NoProposal}

Proposed(p) == stage = "proposed" /\ proposal.plan = p

\* Every entry of a patch that reaches a human, from whatever source and after
\* whatever retries, names its container and consists of allowed fields in a
\* form that was validated: stripping and validation look at the same list.
ProposedPatchesAreAllowed ==
  Proposed("patch") =>
    \A n \in DOMAIN proposal.containers :
      LET c == proposal.containers[n] IN
      /\ c.is = "object" /\ c.name # "missing" /\ ~c.extra
      /\ \A f \in ALLOWED_FIELDS : c.fields[f] \in {"absent", "ok"}

\* A failure that has nothing to do with probes never leads to a patch that adds
\* a probe to the failing container, in none of the entries that name it.  Of the
\* other containers nothing is promised: their entries are compared with the
\* probes of the failing one, so a probe that is new to them may pass.
NoInventedProbes ==
  Proposed("patch") /\ incident.events = {} =>
    \A n \in DOMAIN proposal.containers, f \in ProbeFields :
      LET c == proposal.containers[n] IN
      c.name = "failing" /\ c.fields[f] # "absent" => incident.spec[f] # "none"

\* A human is asked to do it himself only as the last resort: for a reason that
\* may be remediated all attempts were used up first, for any other the LLM was
\* not asked at all.
EscalationIsLast ==
  Proposed("needs_human") =>
    attempt = IF incident.reason \in AUTO_REMEDIABLE_REASONS THEN _MAX_ATTEMPTS ELSE 0

\* However often the LLM is wrong, the worker ends, and answers that are merely
\* rejected, three in a row included, never end it without something to post.
RejectionsAreReported ==
  stage = "assess" ~> \/ stage = "proposed"
                      \/ stage = "dead" /\ attempt < _MAX_ATTEMPTS

\* README: "Every incident produces some Slack outcome": its worker arrives at
\* something to post, whatever the LLM answers.
EveryIncidentHasAnOutcome == stage = "assess" ~> stage = "proposed"

-----------------------------------------------------------------------------
(* Worker, which chooses its plan freely, is what the rest of KubeHeal     *)
(* knows of this.                                                          *)

WorkerPC ==
  CASE stage = "watching" -> "unborn"
    [] stage = "ask"      -> "diagnose"
    [] stage = "proposed" -> "create"
    [] stage = "dead"     -> "done"
    [] OTHER              -> "assess"

Plan == IF proposal = NoProposal THEN "none" ELSE proposal.plan

TheWorker ==
  INSTANCE Worker WITH
    Ids <- {"i"}, Workloads <- {"w"}, NoWorkload <- "none", Faults <- {"exception"},
    status <- [i \in {"i"} |-> "none"],
    workload <- [i \in {"i"} |-> "w"],
    plan <- [i \in {"i"} |-> Plan],
    slackRef <- {}, due <- {}, audit <- {}, cooling <- {"w"},
    buttons <- [i \in {"i"} |-> {}], posted <- {},
    wpc <- [i \in {"i"} |-> WorkerPC]

\* After the alert, every step is a step of the worker of Worker or one that it
\* does not see: its strategies in its order, with its plans, and only the LLM
\* or an exception may end it without a row to insert.
ImplementsWorker ==
  [][stage # "watching" =>
       \/ TheWorker!AssessDecides("i")
       \/ TheWorker!AssessFallsThrough("i")
       \/ TheWorker!Diagnose("i")
       \/ TheWorker!WorkerDies("i")]_<<WorkerPC, Plan>>
=============================================================================
