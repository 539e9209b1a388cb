----------------------------- MODULE Subsample -----------------------------
(***************************************************************************)
(* Sub-sampling (lib/src/subsample.c) and what a call of a function does   *)
(* about it (lib/src/gretl_func.c).                                        *)
(*                                                                         *)
(* A contiguous sample is a range t1..t2 of the dataset.  Any other sample *)
(* is a second dataset with copies of the selected rows, a mask that says  *)
(* which rows those are, and the full dataset kept aside.  Whatever is     *)
(* assigned in the meantime is merged back when the full one is restored.  *)
(* A row has an identity and its value of a series y, which comes and goes. *)
(***************************************************************************)
EXTENDS Naturals, Sequences, FiniteSets, SequencesExt, FiniteSetsExt

CONSTANTS
    MaxObs,     \* bound on the number of observations
    NA, NoSeries,
    MaxDepth,   \* bound on nested calls
    Faults      \* the disagreements with the documentation to admit

ASSUME SubsampleAssumption ==
    /\ MaxObs \in Nat /\ MaxObs >= 3
    /\ MaxDepth \in Nat
    /\ NA # 1 /\ NoSeries \notin {1, NA}
    \* inverted     smpl with one field sets t1 above t2
    \* stale        smpl with bounds that are those of another mask
    \* misaligned   a Boolean condition on top of a range
    \* replace      --replace in a function whose caller has a sample
    \* relinked     the full dataset in place in a function called without it
    \* escapes      a function gets out of the sample of its caller
    \* addobs       observations added, then restricted, in a function
    \* trim         a range made permanent while there is a model
    /\ Faults \subseteq {"inverted", "stale", "misaligned", "replace",
                         "relinked", "escapes", "addobs", "trim"}

VARIABLES
    dset,       \* the dataset in use: rows, mask, range; and the full rows kept
    frames,     \* for each running function, what its call recorded
    ylev,       \* the level of the series y
    lastmod     \* the last model's sample

vars == <<dset, frames, ylev, lastmod>>

-----------------------------------------------------------------------------
(***************************************************************************)
(* Datasets.  The mask {} is the null pointer; full = << >> means that     *)
(* there is no full dataset aside (complex_subsampled() is false).         *)
(***************************************************************************)

\* Identities of observations.
Id == 1 .. MaxObs

Row == [id : Id, y : {1, NA, NoSeries}]

Whole(Z) == [Z |-> Z, submask |-> {}, t1 |-> 1, t2 |-> Len(Z), full |-> << >>]

Ids(Z, S) == {Z[t].id : t \in S}

InRange(d) == d.t1 .. d.t2

RangeSet(d) == d.t1 > 1 \/ d.t2 < Len(d.Z)

HasY(Z) == Z[1].y # NoSeries

\* The position in a subsample of the row masked at t.
Rank(mask, t) == Cardinality({s \in mask : s <= t})

Copy(Z, mask) ==
    [k \in 1 .. Cardinality(mask) |-> Z[CHOOSE t \in mask : Rank(mask, t) = k]]

\* faulty: values changed in the subsample are not carried back.
MergedStale(d) ==
    [t \in DOMAIN d.full |->
        [d.full[t] EXCEPT !.y = IF HasY(d.Z) /\ @ = NoSeries THEN NA ELSE @]]

\* The full rows, with what has changed in the subsample.
Merged(d) ==
    [t \in DOMAIN d.full |->
        IF t \in d.submask
        THEN d.Z[Rank(d.submask, t)]
        ELSE [d.full[t] EXCEPT !.y = IF HasY(d.Z) /\ @ = NoSeries THEN NA ELSE @]]

FullRows(d) == IF d.full = << >> THEN d.Z ELSE Merged(d)

\* restore_full_sample() without a program state.
RestoreFull(d) == Whole(FullRows(d))

FromMask(d, mask) ==
    [Whole(Copy(d.Z, mask)) EXCEPT !.submask = mask, !.full = d.Z]

\* faulty: the range within a subsample is forgotten.
CurrentMaskNoRange(d) ==
    IF d.submask = {} THEN IF RangeSet(d) THEN InRange(d) ELSE {} ELSE d.submask

\* The restriction in force, as a mask of the full length; {} when there is none.
CurrentMask(d) ==
    IF d.submask = {} THEN IF RangeSet(d) THEN InRange(d) ELSE {}
    ELSE {t \in d.submask : Rank(d.submask, t) \in InRange(d)}

\* A condition on the rows in use, moved to the rows of the full dataset.
Expand(d, cond, oldmask) ==
    IF d.full = << >> THEN cond ELSE {t \in oldmask : Rank(oldmask, t) \in cond}

Contiguous(mask) == mask = Min(mask) .. Max(mask)

WithoutY(Z) == [t \in DOMAIN Z |-> [Z[t] EXCEPT !.y = NoSeries]]

NoY(d) == [d EXCEPT !.Z = WithoutY(@), !.full = WithoutY(@)]

-----------------------------------------------------------------------------
(***************************************************************************)
(* Calls.                                                                  *)
(***************************************************************************)

SelOf(d) == Ids(d.Z, InRange(d))

Sel == SelOf(dset)

Obs == Ids(FullRows(dset), DOMAIN FullRows(dset))

InCall == frames # << >>

Top == frames[Len(frames)]

\* state->submask
CallMask == IF InCall THEN Top.submask ELSE {}

\* faulty: the bounds are those of the dataset.
ExtremaAll(d) == DOMAIN d.Z

\* sample_range_get_extrema()
Extrema(d) == IF InCall THEN Top.t1 .. (Top.t2 + Top.added) ELSE DOMAIN d.Z

\* The caller left all of the rows in use to the function.
AllRows == InCall => Top.t1 = 1 /\ Top.t2 = Top.n

NoModel == [submask |-> {}, n |-> 0, t1 |-> 0, t2 |-> 0, ids |-> {}]

\* submask_cmp() looks no further than the end of the shorter mask.
SameMask(m1, n1, m2, n2) ==
    \/ m1 = {} /\ m2 = {}
    \/ m1 # {} /\ m2 # {} /\ m1 \cap (1 .. n2) = m2 \cap (1 .. n1)

\* faulty: models are fixed up without looking.
CheckModelBlindly(mask, n) == [lastmod EXCEPT !.submask = {}]

\* check_models_for_subsample(): a model of another sample is dropped.
CheckModel(mask, n) ==
    IF lastmod # NoModel /\ SameMask(lastmod.submask, lastmod.n, mask, n)
    THEN [lastmod EXCEPT !.submask = {}] ELSE NoModel

\* faulty: the observations a function has added stay.
ExitGrown(d, f) ==
    LET back ==
            IF d.full = << >> \/ f.submask = d.submask THEN d
            ELSE IF f.submask = {} THEN RestoreFull(d)
            ELSE FromMask(RestoreFull(d), f.submask)
    IN  [back EXCEPT !.t1 = f.t1, !.t2 = f.t2]

\* What the end of a function makes of the dataset.
Exit(d, f) ==
    LET back ==
            IF d.full # << >>
            THEN IF f.submask = {} THEN RestoreFull(d)
                 ELSE IF f.submask # d.submask
                 THEN FromMask(RestoreFull(d), f.submask)
                 ELSE d
            ELSE IF Len(d.Z) > f.n
            THEN [d EXCEPT !.Z = SubSeq(@, 1, f.n)]
            ELSE d
    IN  [back EXCEPT !.t1 = f.t1, !.t2 = f.t2]

Init ==
    /\ dset = Whole([t \in 1 .. MaxObs |-> [id |-> t, y |-> NoSeries]])
    /\ frames = << >>
    /\ ylev = 0
    /\ lastmod = NoModel

-----------------------------------------------------------------------------
(***************************************************************************)
(* The command smpl.                                                       *)
(***************************************************************************)

\* perma_sample()
Permanent(d) ==
    /\ d.submask = {} /\ RangeSet(d) => lastmod = NoModel \/ "trim" \in Faults
    /\ dset' = IF d.submask = {} THEN Whole(SubSeq(d.Z, d.t1, d.t2))
               ELSE [d EXCEPT !.submask = {}, !.full = << >>]
    /\ lastmod' = IF d.submask = {} THEN lastmod
                  ELSE CheckModel(d.submask, Len(d.full))
    /\ UNCHANGED <<frames, ylev>>

PermaSample == ~InCall /\ Permanent(dset)

\* faulty: a null sample is not refused.
SetSampleNull(a, b, permanent) ==
    LET d == [dset EXCEPT !.t1 = a, !.t2 = b]
    IN  /\ {a, b} \subseteq Extrema(dset)
        /\ b > Len(dset.Z) => "stale" \in Faults
        /\ IF permanent /\ ~InCall THEN Permanent(d)
           ELSE dset' = d /\ UNCHANGED <<frames, ylev, lastmod>>

\* "smpl a b"; in a function --permanent sets the range before it fails.
SetSample(a, b, permanent) ==
    LET d == [dset EXCEPT !.t1 = a, !.t2 = b]
    IN  /\ {a, b} \subseteq Extrema(dset) /\ a <= b
        /\ b > Len(dset.Z) => "stale" \in Faults
        /\ IF permanent /\ ~InCall THEN Permanent(d)
           ELSE dset' = d /\ UNCHANGED <<frames, ylev, lastmod>>

\* "smpl a"
SetStart(a) ==
    /\ a \in Extrema(dset)
    /\ a > dset.t2 => "inverted" \in Faults
    /\ dset' = [dset EXCEPT !.t1 = a]
    /\ UNCHANGED <<frames, ylev, lastmod>>

Full ==
    LET all == RestoreFull(dset)
    IN  /\ CallMask # {} => AllRows \/ "escapes" \in Faults
        /\ dset' = IF dset.full # << >> /\ CallMask # {}
                   THEN FromMask(all, CallMask)
                   ELSE [all EXCEPT !.t1 = Min(Extrema(all)), !.t2 = Max(Extrema(all))]
        /\ UNCHANGED <<frames, ylev, lastmod>>

(***************************************************************************)
(* restrict_sample().  cond is where the condition holds: among the rows   *)
(* in use if it is computed before the full dataset is restored            *)
(* (Precompute), else among all rows.                                      *)
(***************************************************************************)

Mode == {"boolean", "dummy", "random"}

OldMask(replace) == IF replace THEN CallMask ELSE CurrentMask(dset)

Precompute(mode, replace) == mode = "boolean" /\ OldMask(replace) # {}

NewMask(mode, cond, replace) ==
    IF Precompute(mode, replace) THEN Expand(dset, cond, OldMask(replace))
    ELSE IF OldMask(replace) = {} THEN cond
    ELSE cond \cap OldMask(replace)

\* "No observations were dropped!"
Nothing(mode, cond, replace) ==
    ~Precompute(mode, replace) /\ NewMask(mode, cond, replace) = DOMAIN FullRows(dset)

\* The selected rows are a range of the full dataset, and need no copy.
Shortcut(mode, cond, replace) ==
    mode # "random" /\ Contiguous(NewMask(mode, cond, replace))

CanRestrict(mode, cond, replace) ==
    LET rows == IF Precompute(mode, replace) THEN dset.Z ELSE FullRows(dset)
    IN  /\ cond # {} /\ cond \subseteq DOMAIN rows
        /\ NewMask(mode, cond, replace) # {}
        /\ mode = "random" => LET from == IF OldMask(replace) = {} THEN DOMAIN rows
                                          ELSE OldMask(replace)
                              IN  cond \subseteq from /\ cond # from

\* What the runs leave out, unless they admit it.
Admitted(mode, cond, replace) ==
    /\ Precompute(mode, replace) /\ RangeSet(dset) =>
           \/ "misaligned" \in Faults
           \/ dset.full = << >> /\ cond \subseteq InRange(dset)
    /\ replace /\ InCall =>
           \/ "replace" \in Faults
           \/ AllRows /\ (Precompute(mode, replace) => dset.submask = CallMask)
    /\ CallMask # {} /\ (Nothing(mode, cond, replace) \/ Shortcut(mode, cond, replace)) =>
           "relinked" \in Faults
    /\ InCall /\ Top.added > 0 /\ ~Shortcut(mode, cond, replace) => "addobs" \in Faults

Restricted(mode, cond, replace) ==
    LET mask == NewMask(mode, cond, replace)
        all == RestoreFull(dset)
    IN  IF Nothing(mode, cond, replace) THEN all
        ELSE IF Shortcut(mode, cond, replace)
        THEN [all EXCEPT !.t1 = Min(mask), !.t2 = Max(mask)]
        ELSE FromMask(all, mask)

RestrictSample(mode, cond, replace) ==
    /\ CanRestrict(mode, cond, replace) /\ Admitted(mode, cond, replace)
    /\ dset' = Restricted(mode, cond, replace)
    /\ UNCHANGED <<frames, ylev, lastmod>>

\* The same with --permanent, which a function may not use.
RestrictPermanently(mode, cond, replace) ==
    LET mask == NewMask(mode, cond, replace)
        all == RestoreFull(dset)
    IN  /\ ~InCall
        /\ CanRestrict(mode, cond, replace) /\ Admitted(mode, cond, replace)
        /\ IF Nothing(mode, cond, replace) THEN dset' = all /\ UNCHANGED lastmod
           ELSE dset' = Whole(Copy(all.Z, mask)) /\ lastmod' = CheckModel(mask, Len(all.Z))
        /\ UNCHANGED <<frames, ylev>>

\* The end of a function: its sample and its own series go.
End(d) ==
    LET own == ylev = Len(frames) /\ HasY(d.Z)
    IN  /\ dset' = IF own THEN NoY(Exit(d, Top)) ELSE Exit(d, Top)
        /\ frames' = Front(frames)
        /\ ylev' = IF own THEN 0 ELSE ylev
        /\ UNCHANGED lastmod

\* A restriction that fails when the full dataset is back already.  This can
\* be caught, unless the function was called with a subsample.
RestrictFails ==
    IF CallMask = {}
    THEN /\ InCall => AllRows \/ "escapes" \in Faults
         /\ dset' = RestoreFull(dset)
         /\ UNCHANGED <<frames, ylev, lastmod>>
    ELSE "relinked" \in Faults /\ End(RestoreFull(dset))

-----------------------------------------------------------------------------
(***************************************************************************)
(* Other commands.                                                         *)
(***************************************************************************)

\* "y = 1"
Genr ==
    /\ HasY(dset.Z)
    /\ dset' = [dset EXCEPT !.Z = [t \in DOMAIN @ |->
                   IF t \in InRange(dset) THEN [@[t] EXCEPT !.y = 1] ELSE @[t]]]
    /\ UNCHANGED <<frames, ylev, lastmod>>

\* "series y = 1"
AddSeries ==
    /\ ~HasY(dset.Z)
    /\ dset' = [dset EXCEPT !.Z = [t \in DOMAIN @ |->
                   [@[t] EXCEPT !.y = IF t \in InRange(dset) THEN 1 ELSE NA]]]
    /\ ylev' = Len(frames)
    /\ UNCHANGED <<frames, lastmod>>

\* "delete y"
DropSeries ==
    /\ HasY(dset.Z) /\ ylev = Len(frames)
    /\ dset' = NoY(dset)
    /\ ylev' = 0
    /\ UNCHANGED <<frames, lastmod>>

\* Identities in use, or remembered.
Known == Obs \cup lastmod.ids \cup UNION {frames[i].obs : i \in DOMAIN frames}

\* "dataset addobs 1"
AddObs ==
    /\ dset.full = << >>
    /\ InCall => dset.t2 = Len(dset.Z)
    /\ Max(Known) < MaxObs
    /\ LET new == [id |-> Max(Known) + 1, y |-> IF HasY(dset.Z) THEN NA ELSE NoSeries]
           n == Len(dset.Z)
       IN  dset' = [dset EXCEPT !.Z = Append(@, new), !.t2 = IF @ = n THEN n + 1 ELSE @]
    /\ frames' = IF InCall THEN [frames EXCEPT ![Len(frames)].added = @ + 1] ELSE frames
    /\ UNCHANGED <<ylev, lastmod>>

\* An estimation command of the main script.
Estimate ==
    /\ ~InCall
    /\ lastmod' = [submask |-> dset.submask, n |-> Len(dset.full),
                   t1 |-> dset.t1, t2 |-> dset.t2, ids |-> Sel]
    /\ UNCHANGED <<dset, frames, ylev>>

Call ==
    /\ Len(frames) < MaxDepth
    /\ frames' = Append(frames, [submask |-> dset.submask, t1 |-> dset.t1,
                                 t2 |-> dset.t2, n |-> Len(dset.Z), added |-> 0,
                                 sel |-> Sel, obs |-> Obs])
    /\ UNCHANGED <<dset, ylev, lastmod>>

Return == InCall /\ End(dset)

Next ==
    \/ PermaSample \/ Full \/ RestrictFails
    \/ \E a \in Id : SetStart(a)
    \/ \E a, b \in Id, permanent \in BOOLEAN : SetSample(a, b, permanent)
    \/ \E replace \in BOOLEAN, mode \in Mode :
           \* otherwise --replace makes no difference
           /\ replace => OldMask(TRUE) # OldMask(FALSE)
           /\ \E cond \in SUBSET DOMAIN FullRows(dset) :
                 \/ RestrictSample(mode, cond, replace)
                 \/ RestrictPermanently(mode, cond, replace)
    \/ Genr \/ AddSeries \/ DropSeries \/ AddObs \/ Estimate
    \/ Call \/ Return

Spec == Init /\ [][Next]_vars

-----------------------------------------------------------------------------
(***************************************************************************)
(* Properties.                                                             *)
(***************************************************************************)

\* The sample is a range of the dataset in use, and the rows in use are as many
\* as the mask says.
TypeOK ==
    /\ dset.Z \in Seq(Row) /\ dset.full \in Seq(Row)
    /\ 1 <= dset.t1 /\ dset.t1 <= dset.t2 /\ dset.t2 <= Len(dset.Z)
    /\ dset.submask = {} <=> dset.full = << >>
    /\ dset.submask # {} =>
          /\ dset.submask \subseteq DOMAIN dset.full
          /\ Len(dset.Z) = Cardinality(dset.submask)
    /\ ylev \in 0 .. Len(frames)

\* A function works on observations of the sample its callers gave it, and on
\* those it has added: "we are not allowed to overstep the bounds set on entry"
\* (gretl_func.c).
WithinCallers ==
    \A i \in DOMAIN frames : Sel \subseteq frames[i].sel \cup (Id \ frames[i].obs)

\* A model whose mask is that of the dataset was estimated on the rows at the
\* places it recorded (same_dataset(), model_sample_problem()), whatever has
\* been added, committed or dropped since.
ModelSameRows ==
    (lastmod # NoModel
        /\ SameMask(lastmod.submask, lastmod.n, dset.submask, Len(dset.full))) =>
        /\ lastmod.t2 <= Len(dset.Z)
        /\ Ids(dset.Z, lastmod.t1 .. lastmod.t2) = lastmod.ids

\* Restrictions cumulate: what is left is "the logical product of the new
\* restriction and any existing restriction" (restrict_sample()).
Cumulates ==
    \A mode \in {"boolean", "dummy"}, cond \in SUBSET Id :
        CanRestrict(mode, cond, FALSE) /\ Admitted(mode, cond, FALSE) =>
            SelOf(Restricted(mode, cond, FALSE)) =
                Sel \cap Ids(IF mode = "boolean" THEN dset.Z ELSE FullRows(dset), cond)

\* The end of a function restores "the sample that was in place on entry"
\* (gretl_function_exec()), and leaves the observations of the dataset alone.
RestoresOnExit ==
    [][Len(frames') < Len(frames) => Sel' = Top.sel /\ Obs' = Top.obs]_vars

\* The values of the observations, wherever they are kept.
Data ==
    LET rows == FullRows(dset)
    IN  [o \in Obs |-> rows[CHOOSE t \in DOMAIN rows : rows[t].id = o].y]

Callers == [i \in DOMAIN frames |-> [sel |-> frames[i].sel, obs |-> frames[i].obs]]

S == INSTANCE Sample WITH obs <- Obs, sel <- Sel, data <- Data, callers <- Callers

\* The rows, masks, indices and copies implement one dataset with a sample.
ImplementsSample == S!Spec
=============================================================================
