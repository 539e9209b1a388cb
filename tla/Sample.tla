------------------------------- MODULE Sample -------------------------------
(***************************************************************************)
(* What sub-sampling promises: there is one set of observations with one   *)
(* value for each series, some of the observations are in the sample, and  *)
(* a function gives back the sample and the observations it was called     *)
(* with.  There is no second copy of the data, no mask and no index.       *)
(* Subsample implements this.                                              *)
(***************************************************************************)
EXTENDS Naturals, Sequences, FiniteSets

CONSTANTS
    Id,         \* identities of observations
    NA,         \* a missing value
    NoSeries    \* the value of a series that does not exist

VARIABLES
    obs,        \* the observations of the dataset
    data,       \* observation -> its value of the series y
    sel,        \* the observations in the sample
    callers     \* for each running function, sample and observations at its call

vars == <<obs, data, sel, callers>>

Value == {1, NA}

TypeOK ==
    /\ obs \subseteq Id /\ sel \subseteq obs /\ sel # {}
    /\ data \in [obs -> Value \cup {NoSeries}]
    /\ callers \in Seq([sel : SUBSET Id, obs : SUBSET Id])

Init ==
    /\ obs \in SUBSET Id /\ obs # {}
    /\ data = [o \in obs |-> NoSeries]
    /\ sel = obs
    /\ callers = << >>

\* Any command that moves, restricts or restores the sample.
Select ==
    /\ sel' \in SUBSET obs /\ sel' # {}
    /\ UNCHANGED <<obs, data, callers>>

Exists == \A o \in obs : data[o] # NoSeries

\* "y = v": values in the sample change, the others do not.
Assign(v) ==
    /\ Exists
    /\ data' = [o \in obs |-> IF o \in sel THEN v ELSE data[o]]
    /\ UNCHANGED <<obs, sel, callers>>

\* A new series is missing outside the sample.
AddSeries(v) ==
    /\ ~Exists
    /\ data' = [o \in obs |-> IF o \in sel THEN v ELSE NA]
    /\ UNCHANGED <<obs, sel, callers>>

WithoutSeries(d) == [o \in DOMAIN d |-> NoSeries]

DropSeries ==
    /\ data' = WithoutSeries(data)
    /\ UNCHANGED <<obs, sel, callers>>

\* "dataset addobs"
AddObservation(o) ==
    /\ o \notin obs
    /\ obs' = obs \cup {o}
    /\ data' = [p \in obs' |-> IF p \in obs THEN data[p]
                              ELSE IF Exists THEN NA ELSE NoSeries]
    /\ sel' \in {sel, sel \cup {o}}
    /\ UNCHANGED callers

\* "smpl ... --permanent" drops observations that are not in the sample.  If
\* the sample is a restriction and a range within it, only the restriction is
\* made permanent.
Commit ==
    /\ callers = << >>
    /\ obs' \in SUBSET obs
    /\ sel' \in SUBSET obs' /\ sel' # {}
    /\ data' = [o \in obs' |-> data[o]]
    /\ UNCHANGED callers

Call ==
    /\ callers' = Append(callers, [sel |-> sel, obs |-> obs])
    /\ UNCHANGED <<obs, data, sel>>

\* The caller finds its observations and its sample; values the function has
\* assigned stay, and a series of its own is gone.
Return ==
    /\ callers # << >>
    /\ LET c == callers[Len(callers)]
           kept == [o \in c.obs |-> data[o]]
       IN  /\ obs' = c.obs /\ sel' = c.sel
           /\ data' \in {kept, WithoutSeries(kept)}
    /\ callers' = SubSeq(callers, 1, Len(callers) - 1)

Next ==
    \/ Select \/ DropSeries \/ Commit \/ Call \/ Return
    \/ \E v \in Value \ {NA} : Assign(v) \/ AddSeries(v)
    \/ \E o \in Id : AddObservation(o)

Spec == Init /\ [][Next]_vars
=============================================================================
