------------------------------ MODULE MCOutfile -----------------------------
(* Outfile for TLC: the values of a setting are interchangeable.           *)
EXTENDS Outfile, TLC

Symmetry == Permutations(Options)
=============================================================================
