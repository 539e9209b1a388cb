------------------------------ MODULE MCCalls -------------------------------
(* Functions with every mode of parameter, for matrices and for a series. *)
EXTENDS Calls

MCParams ==
    [f |-> << [name |-> "m", mode |-> "val"], [name |-> "s", mode |-> "val"] >>,
     g |-> << [name |-> "n", mode |-> "const"], [name |-> "m", mode |-> "const"] >>,
     h |-> << [name |-> "n", mode |-> "ref"], [name |-> "s", mode |-> "const"] >>]
=============================================================================
