---------------------------- MODULE SlackChannel ----------------------------
(***************************************************************************)
(* The Slack channel as slack_app.py uses it: outside the process, so a    *)
(* restart leaves it alone.  Of a message only its buttons matter: which   *)
(* decisions a human can still click for an incident.                      *)
(***************************************************************************)
EXTENDS Store

VARIABLES
  buttons,   \* the buttons the incident's alert shows, {} before it is posted
  posted     \* the incidents whose alert was posted

slackVars == <<buttons, posted>>

ButtonIds == {"approve", "reject", "acknowledge"}

SlackTypeOK ==
  /\ buttons \in [Ids -> SUBSET ButtonIds]
  /\ posted \subseteq Ids

SlackInit ==
  /\ buttons = [i \in Ids |-> {}]
  /\ posted = {}

\* The actions block of _alert_blocks and of _approve_reject_actions.
ApproveOrReject == {"approve", "reject"}

\* Mutant of AlertButtons: post_unremediable reuses Approve and Reject.
AlertButtons_Reused(p) == ApproveOrReject

\* post_incident and post_rollback_proposal ask for a decision on a change,
\* post_unremediable has a single Acknowledge.
AlertButtons(p) == IF p = "needs_human" THEN {"acknowledge"} ELSE ApproveOrReject

\* app.client.chat_postMessage in post_incident, post_rollback_proposal and
\* post_unremediable.
chat_postMessage(i) ==
  /\ buttons' = [buttons EXCEPT ![i] = AlertButtons(plan[i])]
  /\ posted' = posted \cup {i}

\* client.chat_update with _resolved_blocks: a message without buttons.
chat_update(i) ==
  /\ buttons' = [buttons EXCEPT ![i] = {}]
  /\ UNCHANGED posted

\* The clicks that may reach the program for i: also those made on a stale view
\* of the alert, delivered late, or delivered again.
Clicks(i) == IF i \in posted THEN AlertButtons(plan[i]) ELSE {}
=============================================================================
