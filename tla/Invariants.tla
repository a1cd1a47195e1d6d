----------------------------- MODULE Invariants -----------------------------
(***************************************************************************)
(* The inductive invariants behind the safety properties of Correctness.   *)
(* Each is a conjunction of named parts: what a thread that stands at some *)
(* program point may rely on about the store, the channel and the others.  *)
(***************************************************************************)
EXTENDS Correctness

-----------------------------------------------------------------------------
(* Types.  TypeOK alone is not inductive: an audit entry is typed because  *)
(* the thread that writes it knows its incident and its plan, and cooling  *)
(* is because the observer knows its workload.                             *)

ListenersHaveAnIncident == \A h \in Threads : hpc[h] # "idle" => hid[h] \in Ids

WorkersHaveAPlan ==
  \A i \in Ids : wpc[i] \in {"create"} \cup Reporting => plan[i] \in Plans

ObserverHasAWorkload ==
  obs.pc \in {"check_open", "should_alert"} => obs.w \in Workloads

TypeInv ==
  /\ TypeOK
  /\ ListenersHaveAnIncident
  /\ WorkersHaveAPlan
  /\ ObserverHasAWorkload

-----------------------------------------------------------------------------
(* ApprovedByHuman.                                                        *)

\* The worker of i has posted its alert, or is gone: plan[i] is final.
Announced(i) == wpc[i] \in {"ref", "done"}

PostsAreFinal == \A i \in posted : Announced(i)

\* What a listener at work knows of its incident.
ListenersActOnAlerts ==
  \A h \in Threads :
    hpc[h] # "idle" =>
      /\ Announced(hid[h])
      /\ op[h] = "approve" => plan[hid[h]] # "needs_human"

Remediating == {"dry_run", "apply", "verify", "undo",
                "settle", "settle_audit", "settle_notify"}

\* Only an approval gets to the remediation, and it is audited by then.
ApprovalsAreAuditedFirst ==
  \A h \in Threads :
    /\ hpc[h] \in Remediating => op[h] = "approve"
    /\ hpc[h] \in {"notify"} \cup Remediating /\ op[h] = "approve"
         => <<hid[h], "approved">> \in audit

WritesFollowAlerts == \A i \in Ids : applies[i] > 0 => Announced(i)

ApprovalInv ==
  /\ TypeInv
  /\ PostsAreFinal
  /\ ListenersActOnAlerts
  /\ ApprovalsAreAuditedFirst
  /\ WritesFollowAlerts
  /\ ApprovedByHuman

-----------------------------------------------------------------------------
(* OutcomesAreBacked.                                                      *)

\* A row is decided by a click on its alert, so its plan is final.
DecisionsFollowAlerts == \A i \in Ids : Decided(i) => Announced(i)

Backed(i, r) ==
  /\ r \in {"applied", "rolled_back"} => applies[i] > 0
  /\ r = "rolled_back" => plan[i] # "rollback"

\* What a listener is about to report, and what it will report if it undoes.
ListenersBackTheirResults ==
  \A h \in Threads :
    /\ hpc[h] \in {"verify", "undo"} => applies[hid[h]] > 0
    /\ hpc[h] = "undo" => Backed(hid[h], "rolled_back")
    /\ hpc[h] = "settle" => Backed(hid[h], result[h])

OutcomeInv ==
  /\ ApprovalInv
  /\ DecisionsFollowAlerts
  /\ ListenersBackTheirResults
  /\ OutcomesAreBacked

-----------------------------------------------------------------------------
(* RacesAreBounded.                                                        *)

\* The listeners that may still write the proposal of i.
MayWrite(i) ==
  {h \in Threads : hid[h] = i /\ hpc[h] \in {"mark", "audit", "notify", "dry_run", "apply"}}

\* A listener past its mark works on a row that is not open any more.
MarkedIsDecided ==
  \A h \in Threads : hpc[h] \notin {"idle", "read", "mark"} => Decided(hid[h])

UndecidedIsUnwritten == \A i \in Ids : ~Decided(i) => applies[i] = 0

\* Nobody joins those listeners once the row is decided.
WritesAreLimited ==
  \A i \in Ids : Decided(i) => applies[i] + Cardinality(MayWrite(i)) <= Cardinality(Threads)

RaceInv ==
  /\ TypeInv
  /\ MarkedIsDecided
  /\ UndecidedIsUnwritten
  /\ WritesAreLimited
  /\ RacesAreBounded

-----------------------------------------------------------------------------
(* OneOpenIncident.                                                        *)

\* Before its worker inserts it, an incident has no row.
RowsAreInsertedByWorkers ==
  \A i \in Ids : wpc[i] \in {"unborn"} \cup Deciding => status[i] = "none"

\* The cooldown outlives every alert in the making ...
DecidingIsCooling == \A i \in Ids : wpc[i] \in Deciding => workload[i] \in cooling

\* ... of which there is at most one for a workload, and none if a row is open.
DecidingIsAlone ==
  \A i, j \in Ids :
    wpc[i] \in Deciding /\ (wpc[j] \in Deciding \/ IsOpen(j)) /\ workload[i] = workload[j]
      => i = j

\* A row opened since the observer asked its first question is cooling, so the
\* second question stops the alert.
SecondQuestionIsSafe ==
  \A i \in Ids :
    BetweenQuestions(workload[i]) /\ IsOpen(i) => workload[i] \in cooling

DedupInv ==
  /\ ApprovalInv
  /\ RowsAreInsertedByWorkers
  /\ DecidingIsCooling
  /\ DecidingIsAlone
  /\ SecondQuestionIsSafe
  /\ OneOpenIncident

-----------------------------------------------------------------------------
(* WrittenOnceIfApproved and the refinement of ApprovalProtocol, when two  *)
(* clicks on one alert are not handled at once.                            *)

OneListenerPerIncident ==
  \A g, h \in Threads : hpc[g] # "idle" /\ hpc[h] # "idle" /\ hid[g] = hid[h] => g = h

\* The status of the row a listener works on, at each of its program points.
ListenersKnowTheStatus ==
  \A h \in Threads :
    /\ hpc[h] = "mark" => status[hid[h]] = Expected(op[h])
    /\ hpc[h] \in {"audit", "notify"} => status[hid[h]] = Marked(op[h])
    /\ hpc[h] \in Remediating \ {"settle_audit", "settle_notify"} =>
         status[hid[h]] = "approved"
    /\ hpc[h] \in {"settle_audit", "settle_notify"} => status[hid[h]] = result[h]

\* How often a listener's proposal has been written, at each of them.
ListenersKnowTheWrites ==
  \A h \in Threads :
    /\ hpc[h] \in {"audit", "notify", "dry_run", "apply"} => applies[hid[h]] = 0
    /\ hpc[h] \in {"verify", "undo"} => applies[hid[h]] = 1
    /\ hpc[h] = "settle" /\ result[h] # "failed" => applies[hid[h]] = 1

UnapprovedIsUnwritten ==
  \A i \in Ids :
    status[i] \notin {"approved"} \cup SettledStatuses => applies[i] = 0

ProtocolInv ==
  /\ ApprovalInv
  /\ OneListenerPerIncident
  /\ ListenersKnowTheStatus
  /\ ListenersKnowTheWrites
  /\ UnapprovedIsUnwritten
  /\ WrittenOnceIfApproved

-----------------------------------------------------------------------------
(* OpenStaysActionable.                                                    *)

\* The Slack reference of a row is that of an alert that was posted.
RefsFollowPosts ==
  /\ slackRef \subseteq posted
  /\ \A i \in Ids : wpc[i] = "ref" => i \in posted

\* An open row has the status its plan was inserted with, and its alert the
\* buttons it was posted with.
OpenIsAsPosted ==
  \A i \in Ids : IsOpen(i) =>
    /\ plan[i] \in Plans
    /\ status[i] = InitialStatus(plan[i])
    /\ i \in posted => buttons[i] = AlertButtons(plan[i])

ActionableInv ==
  /\ ApprovalInv
  /\ RowsAreInsertedByWorkers
  /\ RefsFollowPosts
  /\ MarkedIsDecided
  /\ OpenIsAsPosted
  /\ OpenStaysActionable

-----------------------------------------------------------------------------
(* NoIncidentGoesUnseen and DecisionsAreClosed, when no thread is lost     *)
(* half-way.                                                               *)

WorkersStoreTheRef == \A i \in Ids : wpc[i] = "done" => i \in slackRef

SeenInv == ActionableInv /\ WorkersStoreTheRef /\ NoIncidentGoesUnseen

\* The status of a decided row is in the audit log, or the listener that wrote
\* it is about to put it there, whatever the others have written before.
LastWriterAudits ==
  \A i \in Ids : Decided(i) =>
    \/ <<i, status[i]>> \in audit
    \/ \E h \in Threads :
         /\ hid[h] = i
         /\ \/ hpc[h] = "audit" /\ Marked(op[h]) = status[i]
            \/ hpc[h] = "settle_audit" /\ result[h] = status[i]

\* An approved row has a listener that is going to settle it.
ApprovedIsHandled ==
  \A i \in Ids : status[i] = "approved" =>
    \E h \in Threads :
      /\ hid[h] = i
      /\ op[h] = "approve"
      /\ hpc[h] \in {"audit", "notify", "dry_run", "apply", "verify", "undo", "settle"}

\* A decided row whose alert has buttons has a listener that is going to remove
\* them.
DecidedLosesButtons ==
  \A i \in Ids : Decided(i) /\ buttons[i] # {} =>
    \E h \in Threads : hid[h] = i /\ hpc[h] \in {"audit", "notify"}

ClosingInv ==
  /\ OutcomeInv
  /\ MarkedIsDecided
  /\ LastWriterAudits
  /\ ApprovedIsHandled
  /\ DecidedLosesButtons
  /\ DecisionsAreClosed
=============================================================================
