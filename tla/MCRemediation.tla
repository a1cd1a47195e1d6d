---------------------------- MODULE MCRemediation ----------------------------
(***************************************************************************)
(* Remediation for TLC: a pod of two containers, the resources (returned   *)
(* as {} when empty) and one probe of each, two paths and two values, one  *)
(* of them with two spellings.                                             *)
(***************************************************************************)
EXTENDS RemediationInvariants, TLC

CONSTANTS app, side, resources, probe, k1, k2, v1, v1s, v2

MCContainers == {app, side}
MCFields == {resources, probe}
MCStructFields == {resources}
MCPaths == {k1, k2}
MCValues == {v1, v1s, v2}

\* The server writes v1 for v1s.
MCCanon == (v1 :> v1) @@ (v1s :> v1) @@ (v2 :> v2)

Leaves(a, b) == (k1 :> a) @@ (k2 :> b)

\* A probe has a default at k2.
MCDefault == (resources :> NoLeaves) @@ (probe :> Leaves(Nothing, v2))

\* resources: a value at k1 only; no probe.
MCFirstSpec ==
  [c \in MCContainers |->
     (resources :> [there |-> TRUE, leaf |-> Leaves(v1, Nothing)]) @@ (probe :> Absent)]

Merged(a, b) == [op |-> "merge", leaf |-> Leaves(a, b)]

OneEntry(fs) == [name |-> app, first |-> fs, rest |-> NoPatch]

\* Add a probe without its default, and spell the limit otherwise.
AddProbe ==
  OneEntry((probe :> Merged(v1, Nothing)) @@ (resources :> Merged(v1s, Nothing)))

\* Add a limit that was not there.
AddLimit == OneEntry([NoFieldPatches EXCEPT ![resources] = Merged(v2, v2)])

\* Name the failing container, and patch it and the other one after that.
NameFirst ==
  [OneEntry(NoFieldPatches) EXCEPT
     !.rest = [c \in MCContainers |-> [NoFieldPatches EXCEPT ![resources] = Merged(v1s, v2)]]]

MCPatches == {AddProbe, NameFirst}
LimitPatches == {AddLimit}
MCEdits == {[NoPatch EXCEPT ![side][resources] = Merged(v2, Nothing)]}

Symmetry == Permutations(Clients)
=============================================================================
