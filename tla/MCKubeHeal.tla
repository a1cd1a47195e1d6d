----------------------------- MODULE MCKubeHeal -----------------------------
(***************************************************************************)
(* Correctness for TLC: small sets of model values, and their symmetry.    *)
(***************************************************************************)
EXTENDS Invariants, TLC

\* The ids, workloads and listener threads are interchangeable.
Symmetry == Permutations(Ids) \cup Permutations(Workloads) \cup Permutations(Threads)
=============================================================================
