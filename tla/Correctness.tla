----------------------------- MODULE Correctness -----------------------------
(***************************************************************************)
(* What makes KubeHeal correct, stated over the composed process.  Which   *)
(* property holds under which faults is in README.md and in the .cfg files.*)
(***************************************************************************)
EXTENDS KubeHeal

-----------------------------------------------------------------------------
(* Safety of the store and the channel.                                    *)

\* A workload has at most one incident that still awaits a human: the two
\* questions of observer.run (has_open_incident, should_alert) and the insert
\* of the worker are three transactions of two threads, and only the cooldown
\* stands between them.
OneOpenIncident ==
  \A i, j \in Ids :
    IsOpen(i) /\ IsOpen(j) /\ workload[i] = workload[j] => i = j

\* Whatever happened before (restarts, failed updates, racing clicks), the
\* alert a reminder points to still carries a button that its listener accepts.
OpenStaysActionable ==
  \A i \in slackRef : IsOpen(i) => \E o \in buttons[i] : Expected(o) = status[i]

\* No write to the cluster without a recorded approval of that very proposal:
\* on_approve audits before it remediates, even when two clicks race.
ApprovedByHuman ==
  \A i \in Ids :
    applies[i] > 0 => <<i, "approved">> \in audit /\ plan[i] # "needs_human"

\* A proposal is written to the cluster at most once and never after a
\* rejection, and a row that claims a write ("applied", "rolled_back") had one.
WrittenOnceIfApproved ==
  \A i \in Ids :
    /\ applies[i] <= 1
    /\ applies[i] = 1 => status[i] \in {"approved"} \cup SettledStatuses
    /\ status[i] \in {"applied", "rolled_back"} => applies[i] = 1

\* What a settled row reports is backed by what happened, also when several
\* listeners have settled it: an approval in the audit log, for "applied" and
\* "rolled_back" a write, and an undo only of a patch.
OutcomesAreBacked ==
  \A i \in Ids : status[i] \in SettledStatuses =>
    /\ <<i, "approved">> \in audit
    /\ plan[i] # "needs_human"
    /\ status[i] \in {"applied", "rolled_back"} => applies[i] > 0
    /\ status[i] = "rolled_back" => plan[i] # "rollback"

Decided(i) == status[i] \notin OpenStatuses \cup {"none"}

\* Racing clicks may apply a proposal more than once, but each listener thread
\* at most once: no click that comes after the first decision gets through.
RacesAreBounded == \A i \in Ids : applies[i] <= Cardinality(Threads)

\* No listener is past its look at the row of the decided incident i.
Quiet(i) == Decided(i) /\ \A h \in Threads : hid[h] = i => hpc[h] \in {"idle", "read"}

\* From then on the row, its alert and the cluster stay as they are: a click
\* that is delivered late or again, before or after a restart, does nothing.
LateClicksDoNothing ==
  [][\A i \in Ids : Quiet(i) =>
       Quiet(i)' /\ UNCHANGED <<status[i], plan[i], applies[i], buttons[i]>>]_vars

Closed(i) ==
  /\ status[i] \in SettledStatuses \cup {"rejected", "acknowledged"}
  /\ <<i, status[i]>> \in audit
  /\ buttons[i] = {}

\* A decided row that no listener works on is closed: it has a final status
\* (not "approved"), the audit log explains that very status, and its alert has
\* no buttons, whichever of two racing listeners came last at each of them.
DecisionsAreClosed == \A i \in Ids : Decided(i) /\ ~Busy(i) => Closed(i)

\* When its worker is done, an open row is on the channel, the reminders know
\* where, and the alert has a button that its listener accepts.
NoIncidentGoesUnseen ==
  \A i \in Ids : wpc[i] = "done" /\ IsOpen(i) =>
    i \in slackRef /\ \E o \in buttons[i] : Expected(o) = status[i]

\* Nobody is reminded of a decided incident, except from the list that the
\* reminder loop copied before the decision, and no decision is taken back.
RemindersStop ==
  [][\A i \in Ids : Decided(i) => Decided(i)' /\ (i \in todo' => i \in todo)]_vars

-----------------------------------------------------------------------------
(* The approval workflow as a whole.                                       *)

\* The rows and the writes to the cluster behave as ApprovalProtocol allows.
Protocol == INSTANCE ApprovalProtocol WITH state <- status, written <- applies

ImplementsProtocol == Protocol!Spec

-----------------------------------------------------------------------------
(* Liveness.                                                               *)

\* A decision is carried through: the row reaches a final status, the audit
\* log says so, and the alert loses its buttons, also when clicks race.
DecisionsAreCarriedOut == \A i \in Ids : Decided(i) ~> Closed(i)

OnTheChannel(w) ==
  \E i \in Ids : workload[i] = w /\ IsOpen(i) /\ buttons[i] # {}

\* A workload that fails is on the channel with something to click, or soon
\* will be.  (The model runs out of incident ids; the program does not.)
FailuresAreReported ==
  \A w \in Workloads :
    w \in failing ~> \/ w \notin failing
                     \/ OnTheChannel(w)
                     \/ \A i \in Ids : wpc[i] # "unborn"

\* An open incident of the channel that is due gets its reminder, unless it is
\* decided first; this holds for both kinds of open row.
RemindersGoOut ==
  \A i \in Ids : IsOpen(i) /\ i \in slackRef \cap due ~> ~IsOpen(i) \/ i \notin due

-----------------------------------------------------------------------------
(* What the documentation promises and the code does not keep.             *)

\* "never double-applied": a proposal is written to the cluster at most once.
NeverDoubleApplied == \A i \in Ids : applies[i] <= 1

\* "never lost": an approval leads to a reported outcome.
ApprovalsAreSettled == \A i \in Ids : status[i] = "approved" ~> status[i] # "approved"
=============================================================================
