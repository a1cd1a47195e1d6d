-------------------------- MODULE ApprovalProtocol --------------------------
(***************************************************************************)
(* What the approval workflow promises for each incident, whatever threads *)
(* and restarts the program goes through: one proposal, one human decision *)
(* and, after an approval only, at most one write to the cluster, whose    *)
(* outcome is reported truthfully.  ARCHITECTURE.md puts it as "every      *)
(* change is an explicit Approve" and store.py as "never lost or           *)
(* double-applied".  KubeHeal.tla is shown to implement this.              *)
(***************************************************************************)
EXTENDS Naturals

CONSTANT Ids

VARIABLES
  state,     \* the life of an incident
  written    \* how often its proposal was written to the cluster

vars == <<state, written>>

Open == {"pending", "needs_human"}

\* What may follow an open state by a human decision.
Decisions(s) == IF s = "pending" THEN {"approved", "rejected"} ELSE {"acknowledged"}

Init ==
  /\ state = [i \in Ids |-> "none"]
  /\ written = [i \in Ids |-> 0]

Propose(i) ==
  /\ state[i] = "none"
  /\ \E s \in Open : state' = [state EXCEPT ![i] = s]
  /\ UNCHANGED written

Decide(i) ==
  /\ state[i] \in Open
  /\ \E s \in Decisions(state[i]) : state' = [state EXCEPT ![i] = s]
  /\ UNCHANGED written

Write(i) ==
  /\ state[i] = "approved"
  /\ written[i] = 0
  /\ written' = [written EXCEPT ![i] = 1]
  /\ UNCHANGED state

\* "applied" and "rolled_back" are claims about a write that took place.
Settle(i) ==
  /\ state[i] = "approved"
  /\ \E s \in {"failed"} \cup (IF written[i] = 1 THEN {"applied", "rolled_back"} ELSE {}) :
       state' = [state EXCEPT ![i] = s]
  /\ UNCHANGED written

Next == \E i \in Ids : Propose(i) \/ Decide(i) \/ Write(i) \/ Settle(i)

Spec == Init /\ [][Next]_vars
=============================================================================
