------------------------------- MODULE Scopes -------------------------------
(***************************************************************************)
(* What calling a function promises about variables: each running function *)
(* has a scope of its own, a name in it is bound to a cell, a parameter is *)
(* bound either to a copy of the argument or to the caller's own cell, and *)
(* what is bound as constant is not assigned to.  The scopes of callers do *)
(* not change.  There is no renaming and no level.  Calls implements this. *)
(***************************************************************************)
EXTENDS Naturals, Sequences, SequencesExt

CONSTANTS
    Names,
    Cells,      \* places for values
    Values

VARIABLES
    scopes,     \* scopes[1] is that of the main script, the last the current one
    value       \* cell -> its value

vars == <<scopes, value>>

Binding == [cell : Cells, const : BOOLEAN]

Bound(s) == {s[n].cell : n \in DOMAIN s}

InUse(stack) == UNION {Bound(stack[i]) : i \in DOMAIN stack}

Callers(stack) == SubSeq(stack, 1, Len(stack) - 1)

Init ==
    /\ scopes = << << >> >>
    /\ value = << >>

-----------------------------------------------------------------------------
(***************************************************************************)
(* What may happen to the stack of scopes                                  *)
(***************************************************************************)

\* A new name gets a cell that is not in use.
Defines(top, new, used) ==
    \E n \in DOMAIN new \ DOMAIN top :
        /\ DOMAIN new = DOMAIN top \cup {n}
        /\ \A m \in DOMAIN top : new[m] = top[m]
        /\ ~new[n].const /\ new[n].cell \notin used

Deletes(top, new) ==
    \E n \in DOMAIN top : new = [m \in DOMAIN top \ {n} |-> top[m]]

\* A parameter bound to a cell of the caller is constant if it is constant
\* there, and a cell has two names in one function only as a constant.
Lends(caller, callee, used) ==
    /\ \A n \in DOMAIN callee : callee[n].cell \in used =>
          \E m \in DOMAIN caller :
              /\ caller[m].cell = callee[n].cell
              /\ caller[m].const => callee[n].const
    /\ \A n, m \in DOMAIN callee :
          n # m /\ callee[n].cell = callee[m].cell =>
              callee[n].const /\ callee[m].const

\* The scopes of callers are what they were.
Moves(old, new, used) ==
    \/ /\ Callers(new) = Callers(old)
       /\ \/ Defines(Last(old), Last(new), used)
          \/ Deletes(Last(old), Last(new))
    \/ Callers(new) = old /\ Lends(Last(old), Last(new), used)
    \/ new = Callers(old) /\ new # << >>

-----------------------------------------------------------------------------
(***************************************************************************)
(* Actions                                                                 *)
(***************************************************************************)

\* Defining or deleting a variable, calling or leaving a function: no value
\* changes, and a cell has one as long as it is in use.
Move ==
    /\ Moves(scopes, scopes', DOMAIN value)
    /\ value' \in [InUse(scopes') -> Values]
    /\ \A c \in DOMAIN value \cap DOMAIN value' : value'[c] = value[c]

\* A variable that is not constant is given a value.
Assigns(top) ==
    \E n \in DOMAIN top :
        ~top[n].const /\ \E x \in Values : value' = [value EXCEPT ![top[n].cell] = x]

Assign ==
    /\ UNCHANGED scopes
    /\ Assigns(Last(scopes))

Next == Assign \/ Move

Spec == Init /\ [][Next]_vars
=============================================================================
