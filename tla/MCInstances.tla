---------------------------- MODULE MCInstances -----------------------------
(* Instances for TLC: identifiers of processes are interchangeable.        *)
EXTENDS Instances, TLC

Symmetry == Permutations(Pids)
=============================================================================
