-------------------------- MODULE SubsampleProofs --------------------------
(***************************************************************************)
(* Proofs about Subsample, for any number of observations and of calls.    *)
(*                                                                         *)
(* The first part is the invariant, in layers: what a dataset is and what  *)
(* the calls have recorded of it (Core); that a function keeps to the      *)
(* samples of its callers (Confined); that a model is about observations   *)
(* that are still there (Modelled).  The last part is the refinement of    *)
(* Sample, for which Core is enough.  All are stated about the observations*)
(* of the full dataset, Base, of which a sample selects places: values,    *)
(* masks and copies change, and the observations only with dataset addobs, *)
(* the end of a function and permanent samples.                            *)
(*                                                                         *)
(* The theorems are about the program without some of the disagreements    *)
(* with its documentation (Faults), because these break what is stated:    *)
(* each theorem names the ones it has to leave out.                        *)
(***************************************************************************)
EXTENDS Subsample, SequenceTheorems, FiniteSetTheorems, FunctionTheorems,
        WellFoundedInduction, TLAPS

\* Without the disagreements after which the sample, the mask and the rows no
\* longer agree with each other or with what the calls have recorded.
Regular == Faults \cap {"inverted", "stale", "relinked", "addobs"} = {}

\* Without those, and without the ones by which a function gets out of the
\* sample of its caller.
Bounded == Faults \subseteq {"trim"}

\* Without those of Regular, and without the one by which a model is kept whose
\* rows are no longer there.
Untrimmed == Regular /\ "trim" \notin Faults

\* Without those of Regular, and without the one by which a condition is applied
\* to other rows than it was computed on.
Aligned == Regular /\ "misaligned" \notin Faults

\* The identities of rows.
IdsOf(Z) == [t \in DOMAIN Z |-> Z[t].id]

\* The full rows as they are kept, whether merged or not.
Kept(d) == IF d.full = << >> THEN d.Z ELSE d.full

\* The observations of the full dataset, which is all there is of it while
\* values and samples change.
Base(d) == IdsOf(Kept(d))

\* Observations are in the order in which they were added.
Ordered(B) == \A s, t \in DOMAIN B : s < t => B[s] < B[t]

\* The places of the full dataset that a mask and a range select.
Where(mask, a, b) == IF mask = {} THEN a .. b ELSE {t \in mask : Rank(mask, t) \in a .. b}

\* The observations there.
Picked(B, mask, a, b) == {B[t] : t \in Where(mask, a, b)}

\* A mask and a range are within the first k places.
Fits(mask, a, b, k) ==
    /\ a \in Nat /\ b \in Nat /\ 1 <= a /\ a <= b
    /\ mask \subseteq 1 .. k
    /\ b <= IF mask = {} THEN k ELSE Cardinality(mask)

\* The rows of a subsample are those of its mask.
Copied(d) ==
    /\ Len(d.Z) = Cardinality(d.submask)
    /\ \A t \in d.submask : d.Z[Rank(d.submask, t)].id = d.full[t].id

\* Each row has a value of y, or none has.
Having(Z, h) == \A t \in DOMAIN Z : h <=> Z[t].y # NoSeries

\* A series that the rows in use lack is in no other row.
Filled(d) ==
    /\ Having(d.Z, HasY(d.Z))
    /\ ~HasY(d.Z) => Having(d.full, FALSE)

\* What the fields of a dataset are.
Dataset == [Z : Seq(Row), submask : SUBSET Nat, t1 : Nat, t2 : Nat, full : Seq(Row)]

\* A dataset that is what it should be.
Sound(d) ==
    /\ d \in Dataset
    /\ Ordered(Base(d))
    /\ Fits(d.submask, d.t1, d.t2, Len(Kept(d)))
    /\ d.submask = {} <=> d.full = << >>
    /\ d.submask # {} => Copied(d)
    /\ Filled(d)

\* What the fields of a record of a call are.
Frame == [submask : SUBSET Nat, t1 : Nat, t2 : Nat, n : Nat, added : Nat,
          sel : SUBSET Nat, obs : SUBSET Nat]

\* The first k observations.
Firsts(B, k) == {B[t] : t \in 1 .. k}

\* The number of observations at the time of a call.
Size(f) == Cardinality(f.obs)

\* What a call has recorded, if B are the observations now.
Recorded(B, k, f) ==
    /\ Size(f) \in 1 .. k
    /\ f.obs = Firsts(B, Size(f))
    /\ Fits(f.submask, f.t1, f.t2, Size(f))
    /\ f.sel = Picked(B, f.submask, f.t1, f.t2)
    /\ f.n = IF f.submask = {} THEN Size(f) ELSE Cardinality(f.submask)

\* What has happened to the dataset since the call f: k is the number of
\* observations, and mask the mask, at the next call or now.
Follows(f, mask, k) ==
    /\ k = Size(f) + f.added
    /\ f.submask # {} => mask # {}
    /\ mask # {} => f.added = 0

\* The records of the running calls, one after the other: each is about the
\* first of the observations, and the next one follows it.
Chain(B, k, fs) ==
    /\ \A i \in DOMAIN fs : Recorded(B, k, fs[i])
    /\ \A i \in 1 .. Len(fs) - 1 : Follows(fs[i], fs[i + 1].submask, Size(fs[i + 1]))
    /\ \A i, j \in DOMAIN fs : i < j => Size(fs[i]) <= Size(fs[j])

\* The same of the variables.
Linked(d, fs) ==
    /\ fs \in Seq(Frame)
    /\ Chain(Base(d), Len(Kept(d)), fs)
    /\ fs # << >> => Follows(fs[Len(fs)], d.submask, Len(Kept(d)))

\* The dataset, the records of the calls and the level of the series.
Core ==
    /\ Sound(dset)
    /\ Linked(dset, frames)
    /\ ylev \in 0 .. Len(frames) /\ (ylev > 0 => HasY(dset.Z))

\* What a function may work on.
Allowed(f) == f.sel \cup (Id \ f.obs)

\* The observations at the places of a mask.
Those(B, mask) == {B[t] : t \in mask}

\* A subsample since the call is that of the call, or part of its sample.
Inside(B, f, mask) == mask # {} => mask = f.submask \/ Those(B, mask) \subseteq f.sel

\* A function keeps to the sample of its callers: only a call whose range goes
\* to the end of the rows adds some, a call starts within the samples of those
\* before it, and a subsample made since a call is part of that call's sample.
Confined ==
    /\ \A i \in DOMAIN frames : frames[i].added > 0 => frames[i].t2 = frames[i].n
    /\ \A i, j \in DOMAIN frames : i < j => frames[j].sel \subseteq Allowed(frames[i])
    /\ \A i \in 1 .. Len(frames) - 1 : Inside(Base(dset), frames[i], frames[i + 1].submask)
    /\ InCall => Inside(Base(dset), Top, dset.submask)
    /\ WithinCallers

\* What the fields of a model are.
Model == [submask : SUBSET Nat, n : Nat, t1 : Nat, t2 : Nat, ids : SUBSET Id]

\* How many observations matter to a model.
Length(m) == IF m.submask = {} THEN m.t2 ELSE m.n

\* A model was estimated on the observations that its mask and its range select
\* among those that all of the running calls have seen.
Estimated(B, k, fs, m) ==
    m # NoModel =>
        /\ Length(m) \in 1 .. k
        /\ Fits(m.submask, m.t1, m.t2, Length(m))
        /\ m.ids = Picked(B, m.submask, m.t1, m.t2)
        /\ \A i \in DOMAIN fs : Length(m) <= Size(fs[i])

\* The same of the variables.
Modelled == Estimated(Base(dset), Len(Kept(dset)), frames, lastmod)

\* The rank of a masked place counts the masked places up to it: the ranks are
\* the numbers from 1, in the order of the places.
LEMMA RankFacts ==
  ASSUME NEW k \in Nat, NEW mask, mask \subseteq 1 .. k
  PROVE  /\ IsFiniteSet(mask) /\ Cardinality(mask) \in 0 .. k
         /\ \A t \in mask : Rank(mask, t) \in 1 .. Cardinality(mask)
         /\ \A s, t \in mask : s < t => Rank(mask, s) < Rank(mask, t)
         /\ \A j \in 1 .. Cardinality(mask) : \E t \in mask : Rank(mask, t) = j
         /\ mask # {} => Cardinality(mask) \in 1 .. k
<1> DEFINE UpTo(t) == {s \in mask : s <= t}
<1>1. IsFiniteSet(1 .. k) /\ Cardinality(1 .. k) = k
  BY FS_Interval
<1>2. IsFiniteSet(mask) /\ Cardinality(mask) <= k /\ Cardinality(mask) \in Nat
  BY <1>1, FS_Subset, FS_CardinalityType
<1>3. \A t : IsFiniteSet(UpTo(t)) /\ Cardinality(UpTo(t)) \in Nat
             /\ Cardinality(UpTo(t)) <= Cardinality(mask)
  <2> TAKE t
  <2>1. UpTo(t) \in SUBSET mask
    OBVIOUS
  <2> QED
    BY <1>2, <2>1, FS_Subset, FS_CardinalityType
<1>4. \A t \in mask : Cardinality(UpTo(t)) >= 1
  <2> TAKE t \in mask
  <2>1. UpTo(t) # {}
    OBVIOUS
  <2> QED
    BY <1>3, <2>1, FS_EmptySet
<1>5. \A t \in mask : Rank(mask, t) \in 1 .. Cardinality(mask)
  BY <1>2, <1>3, <1>4 DEF Rank
<1>6. ASSUME NEW s \in mask, NEW t \in mask, s < t PROVE Rank(mask, s) < Rank(mask, t)
  <2>0. s \in Int /\ t \in Int /\ \A u \in mask : u \in Int
    OBVIOUS
  <2>1. UpTo(s) \in SUBSET UpTo(t)
    <3>1. \A u \in mask : u <= s => u <= t
      BY <1>6, <2>0
    <3> QED
      BY <3>1
  <2>2. t \in UpTo(t) /\ t \notin UpTo(s)
    BY <1>6, <2>0
  <2>3. Cardinality(UpTo(s)) <= Cardinality(UpTo(t))
        /\ Cardinality(UpTo(s)) # Cardinality(UpTo(t))
    <3> HIDE DEF UpTo
    <3> QED
      BY <1>3, <2>1, <2>2, FS_Subset
  <2> QED
    BY <1>3, <2>3 DEF Rank
<1> DEFINE R == [t \in mask |-> Rank(mask, t)]
<1>7. R \in [mask -> 1 .. Cardinality(mask)] /\ \A s, t \in mask : R[s] = R[t] => s = t
  BY <1>5, <1>6
<1>8. R \in Surjection(mask, 1 .. Cardinality(mask))
  <2>1. R \in Injection(mask, 1 .. Cardinality(mask))
    <3> HIDE DEF R
    <3> QED
      BY <1>7, Fun_IsInj
  <2>2. IsFiniteSet(1 .. Cardinality(mask)) /\ Cardinality(1 .. Cardinality(mask)) = Cardinality(mask)
    BY <1>2, FS_Interval
  <2> HIDE DEF R
  <2> QED
    BY <2>1, <2>2, FS_Injection
<1>9. \A j \in 1 .. Cardinality(mask) : \E t \in mask : R[t] = j
  <2> HIDE DEF R
  <2> QED
    BY <1>8, Fun_SurjectionProperties
<1>10. mask # {} => Cardinality(mask) # 0
  BY <1>2, FS_EmptySet
<1> QED
  BY <1>2, <1>5, <1>6, <1>9, <1>10

\* The place in the full dataset of the row with a rank.
At(mask, j) == CHOOSE t \in mask : Rank(mask, t) = j

\* Rank and At are inverse to each other.
LEMMA AtFacts ==
  ASSUME NEW k \in Nat, NEW mask, mask \subseteq 1 .. k
  PROVE  /\ \A j \in 1 .. Cardinality(mask) : At(mask, j) \in mask /\ Rank(mask, At(mask, j)) = j
         /\ \A t \in mask : At(mask, Rank(mask, t)) = t
<1>1. \A j \in 1 .. Cardinality(mask) : At(mask, j) \in mask /\ Rank(mask, At(mask, j)) = j
  BY RankFacts DEF At
<1>2. \A s, t \in mask : Rank(mask, s) = Rank(mask, t) => s = t
  <2> TAKE s, t \in mask
  <2>1. /\ s < t => Rank(mask, s) < Rank(mask, t)
        /\ t < s => Rank(mask, t) < Rank(mask, s)
        /\ Rank(mask, s) \in 1 .. Cardinality(mask) /\ Rank(mask, t) \in 1 .. Cardinality(mask)
        /\ Cardinality(mask) \in 0 .. k
    BY RankFacts
  <2>2. s \in Int /\ t \in Int /\ Rank(mask, s) \in Int /\ Rank(mask, t) \in Int
    BY <2>1
  <2> QED
    BY <2>1, <2>2
<1>3. \A t \in mask : Rank(mask, t) \in 1 .. Cardinality(mask)
  BY RankFacts
<1> QED
  BY <1>1, <1>2, <1>3

\* The first k observations are k.
LEMMA FirstOnes ==
  ASSUME NEW B, NEW n \in Nat, DOMAIN B = 1 .. n, \A t \in 1 .. n : B[t] \in Nat, Ordered(B), NEW k \in 0 .. n
  PROVE  Cardinality(Firsts(B, k)) = k
<1> DEFINE T == {B[t] : t \in 1 .. k}
           g == [t \in 1 .. k |-> B[t]]
<1>1. \A s, t \in 1 .. k : B[s] = B[t] => s = t
  BY DEF Ordered
<1>2. g \in [1 .. k -> T] /\ (\A a, b \in 1 .. k : g[a] = g[b] => a = b)
      /\ \A y \in T : \E s \in 1 .. k : g[s] = y
  BY <1>1
<1>3. g \in Bijection(1 .. k, T)
  <2> HIDE DEF g, T
  <2> QED
    BY <1>2, Fun_IsBij, Fun_IsSurj
<1>4. IsFiniteSet(1 .. k) /\ Cardinality(1 .. k) = k
  BY FS_Interval
<1> HIDE DEF g, T
<1>5. ExistsBijection(1 .. k, T)
  BY <1>3 DEF ExistsBijection
<1>6. Cardinality(T) = k
  BY <1>4, <1>5, FS_Bijection
<1> QED
  BY <1>6 DEF T, Firsts

\* A function on the first numbers is a sequence.
LEMMA SeqFcn ==
  ASSUME NEW X, NEW n \in Nat, NEW f \in [1 .. n -> X]
  PROVE  f \in Seq(X) /\ Len(f) = n /\ DOMAIN f = 1 .. n
<1>1. f \in Seq(X)
  BY SeqDef
<1>2. Len(f) \in Nat /\ DOMAIN f = 1 .. Len(f)
  BY <1>1, LenProperties
<1> QED
  BY <1>1, <1>2

\* The parts of a dataset.
LEMMA SoundFacts ==
  ASSUME NEW d, Sound(d)
  PROVE  /\ d.Z \in Seq(Row) /\ d.full \in Seq(Row) /\ Kept(d) \in Seq(Row)
         /\ Len(Kept(d)) \in Nat /\ Len(d.Z) \in Nat
         /\ DOMAIN d.Z = 1 .. Len(d.Z) /\ DOMAIN Kept(d) = 1 .. Len(Kept(d))
         /\ DOMAIN Base(d) = 1 .. Len(Kept(d))
         /\ \A t \in 1 .. Len(Kept(d)) : Base(d)[t] = Kept(d)[t].id /\ Base(d)[t] \in Id
         /\ d.submask \subseteq 1 .. Len(Kept(d))
         /\ Len(d.Z) = IF d.submask = {} THEN Len(Kept(d)) ELSE Cardinality(d.submask)
         /\ d.t1 \in 1 .. Len(d.Z) /\ d.t2 \in d.t1 .. Len(d.Z)
<1>1. d \in Dataset
  BY DEF Sound
<1>2. d.Z \in Seq(Row) /\ d.full \in Seq(Row) /\ d.t1 \in Nat /\ d.t2 \in Nat
  BY <1>1 DEF Dataset
<1>3. Kept(d) \in Seq(Row)
  BY <1>2 DEF Kept
<1>4. /\ Len(Kept(d)) \in Nat /\ Len(d.Z) \in Nat
      /\ DOMAIN d.Z = 1 .. Len(d.Z) /\ DOMAIN Kept(d) = 1 .. Len(Kept(d))
  BY <1>2, <1>3, LenProperties
<1>5. DOMAIN Base(d) = 1 .. Len(Kept(d))
  BY <1>4 DEF Base, IdsOf, Kept
<1>6. \A t \in 1 .. Len(Kept(d)) : Base(d)[t] = Kept(d)[t].id
  BY <1>4 DEF Base, IdsOf, Kept
<1>7. \A t \in 1 .. Len(Kept(d)) : Kept(d)[t].id \in Id
  <2> TAKE t \in 1 .. Len(Kept(d))
  <2>1. Kept(d)[t] \in Row
    BY <1>3, ElementOfSeq
  <2> QED
    BY <2>1 DEF Row
<1>8. d.submask \subseteq 1 .. Len(Kept(d))
  BY DEF Sound, Fits
<1>9. Len(d.Z) = IF d.submask = {} THEN Len(Kept(d)) ELSE Cardinality(d.submask)
  BY DEF Sound, Copied, Kept
<1>10. /\ 1 <= d.t1 /\ d.t1 <= d.t2
       /\ d.t2 <= IF d.submask = {} THEN Len(Kept(d)) ELSE Cardinality(d.submask)
  BY DEF Sound, Fits
<1>11. d.t1 \in 1 .. Len(d.Z) /\ d.t2 \in d.t1 .. Len(d.Z)
  BY <1>2, <1>4, <1>9, <1>10
<1> QED
  BY <1>2, <1>3, <1>4, <1>5, <1>6, <1>7, <1>8, <1>9, <1>11

\* The full rows have the identities of those that are kept.
LEMMA RowsFacts ==
  ASSUME NEW d, Sound(d)
  PROVE  /\ FullRows(d) \in Seq(Row) /\ Len(FullRows(d)) = Len(Kept(d))
         /\ IdsOf(FullRows(d)) = Base(d)
         /\ DOMAIN FullRows(d) = 1 .. Len(Kept(d))
         /\ Having(FullRows(d), HasY(d.Z))
<1>1. CASE d.full = << >>
  <2>1. FullRows(d) = Kept(d)
    BY <1>1 DEF FullRows, Kept
  <2> QED
    BY <1>1, <2>1, SoundFacts DEF Base, Kept, Sound, Filled
<1>2. CASE d.full # << >>
  <2>1. FullRows(d) = Merged(d) /\ Kept(d) = d.full
    BY <1>2 DEF FullRows, Kept
  <2>2. /\ d.submask # {} /\ Copied(d)
        /\ d.full \in Seq(Row) /\ d.Z \in Seq(Row) /\ Len(d.full) \in Nat
        /\ DOMAIN d.full = 1 .. Len(d.full) /\ d.submask \subseteq 1 .. Len(d.full)
    BY <1>2, <2>1, SoundFacts DEF Sound
  <2>3. ASSUME NEW t \in DOMAIN d.full 
        PROVE  /\ Merged(d)[t] \in Row /\ Merged(d)[t].id = d.full[t].id
               /\ HasY(d.Z) <=> Merged(d)[t].y # NoSeries
    <3>1. d.full[t] \in Row
      BY <2>2, ElementOfSeq
    <3>2. CASE t \in d.submask
      <4>1. Rank(d.submask, t) \in 1 .. Len(d.Z)
        BY <2>2, <3>2, RankFacts DEF Copied
      <4>2. d.Z[Rank(d.submask, t)] \in Row
        BY <2>2, <4>1, ElementOfSeq
      <4>3. Merged(d)[t] = d.Z[Rank(d.submask, t)]
        BY <3>2 DEF Merged
      <4>4. HasY(d.Z) <=> d.Z[Rank(d.submask, t)].y # NoSeries
        BY <2>2, <4>1, LenProperties DEF Sound, Filled, Having
      <4> QED
        BY <2>2, <3>2, <4>2, <4>3, <4>4 DEF Copied
    <3>3. CASE t \notin d.submask
      <4> DEFINE r == d.full[t]
      <4>1. Merged(d)[t] = [r EXCEPT !.y = IF HasY(d.Z) /\ @ = NoSeries THEN NA ELSE @]
        BY <3>3 DEF Merged
      <4>2. ~HasY(d.Z) => r.y = NoSeries
        BY DEF Sound, Filled, Having
      <4>3. r \in Row
        BY <3>1
      <4> HIDE DEF r
      <4>4. /\ Merged(d)[t] \in Row /\ Merged(d)[t].id = r.id
            /\ Merged(d)[t].y = IF HasY(d.Z) /\ r.y = NoSeries THEN NA ELSE r.y
        BY <4>1, <4>3 DEF Row
      <4> QED
        BY <4>2, <4>4, SubsampleAssumption DEF r
    <3> QED
      BY <3>2, <3>3
  <2>4. Merged(d) \in [1 .. Len(d.full) -> Row]
    BY <2>2, <2>3 DEF Merged
  <2>5. Merged(d) \in Seq(Row) /\ Len(Merged(d)) = Len(d.full) /\ DOMAIN Merged(d) = 1 .. Len(d.full)
    BY <2>2, <2>4, SeqFcn
  <2>6. IdsOf(Merged(d)) = IdsOf(d.full)
    BY <2>2, <2>3, <2>5 DEF IdsOf
  <2>7. Having(Merged(d), HasY(d.Z))
    BY <2>2, <2>3, <2>5 DEF Having
  <2> QED
    BY <1>2, <2>1, <2>5, <2>6, <2>7 DEF Base
<1> QED
  BY <1>1, <1>2
-----------------------------------------------------------------------------
(***************************************************************************)
(* Datasets.                                                               *)
(***************************************************************************)

\* Rows without a mask.
LEMMA WholeSound ==
  ASSUME NEW Z \in Seq(Row), Z # << >>, Ordered(IdsOf(Z)), NEW h, Having(Z, h)
  PROVE  /\ Sound(Whole(Z)) /\ Base(Whole(Z)) = IdsOf(Z) /\ Kept(Whole(Z)) = Z
         /\ Whole(Z).Z = Z /\ Whole(Z).submask = {} /\ Whole(Z).full = << >>
         /\ Whole(Z).t1 = 1 /\ Whole(Z).t2 = Len(Z)
         /\ HasY(Z) <=> h
<1>1. Len(Z) \in Nat \ {0} /\ << >> \in Seq(Row)
  BY EmptySeq, LenProperties
<1>2. /\ Whole(Z).Z = Z /\ Whole(Z).submask = {} /\ Whole(Z).full = << >>
      /\ Whole(Z).t1 = 1 /\ Whole(Z).t2 = Len(Z)
  BY DEF Whole
<1>3. Whole(Z) \in Dataset
  BY <1>1 DEF Whole, Dataset
<1>4. Kept(Whole(Z)) = Z /\ Base(Whole(Z)) = IdsOf(Z)
  BY <1>2 DEF Kept, Base
<1>5. Fits({}, 1, Len(Z), Len(Z))
  BY <1>1 DEF Fits
<1>6. HasY(Z) <=> h
  <2>1. 1 \in DOMAIN Z
    BY <1>1, LenProperties
  <2> QED
    BY <2>1 DEF Having, HasY
<1>7. Having(Z, HasY(Z)) /\ Having(<< >>, FALSE)
  BY <1>6, <1>1, LenProperties DEF Having
<1>8. Filled(Whole(Z))
  BY <1>2, <1>7 DEF Filled
<1> QED
  BY <1>2, <1>3, <1>4, <1>5, <1>6, <1>8 DEF Sound

\* Another range within the rows in use.
Ranged(d, a, b) == [d EXCEPT !.t1 = a, !.t2 = b]

\* A range within the rows in use leaves the dataset sound.
LEMMA RangeSound ==
  ASSUME NEW d, Sound(d), NEW a \in 1 .. Len(d.Z), NEW b \in a .. Len(d.Z)
  PROVE  LET e == Ranged(d, a, b)
         IN  /\ Sound(e) /\ Base(e) = Base(d) /\ Kept(e) = Kept(d)
             /\ e.Z = d.Z /\ e.submask = d.submask /\ e.full = d.full
             /\ e.t1 = a /\ e.t2 = b
<1> DEFINE e == Ranged(d, a, b)
<1>1. d \in Dataset /\ a \in Nat /\ b \in Nat /\ 1 <= a /\ a <= b /\ b <= Len(d.Z)
  BY SoundFacts DEF Sound
<1>2. /\ e.Z = d.Z /\ e.submask = d.submask /\ e.full = d.full
      /\ e.t1 = a /\ e.t2 = b /\ e \in Dataset
  BY <1>1 DEF Dataset, Ranged
<1> HIDE DEF e
<1>3. Kept(e) = Kept(d) /\ Base(e) = Base(d)
  BY <1>2 DEF Kept, Base
<1>4. Len(d.Z) = IF d.submask = {} THEN Len(Kept(d)) ELSE Cardinality(d.submask)
  BY SoundFacts
<1>5. Fits(e.submask, e.t1, e.t2, Len(Kept(e)))
  BY <1>1, <1>2, <1>3, <1>4 DEF Sound, Fits
<1>6. Ordered(Base(e)) /\ (e.submask = {} <=> e.full = << >>) /\ (e.submask # {} => Copied(e))
      /\ Filled(e)
  BY <1>2, <1>3 DEF Sound, Copied, Filled
<1>7. Sound(e)
  BY <1>2, <1>5, <1>6 DEF Sound
<1> QED
  BY <1>2, <1>3, <1>7 DEF e

\* The full dataset, with what was assigned in the subsample.
LEMMA RestoreSound ==
  ASSUME NEW d, Sound(d)
  PROVE  LET e == RestoreFull(d)
         IN  /\ Sound(e) /\ Base(e) = Base(d) /\ Len(Kept(e)) = Len(Kept(d))
             /\ e.Z = FullRows(d) /\ e.submask = {} /\ e.full = << >>
             /\ e.t1 = 1 /\ e.t2 = Len(Kept(d))
             /\ HasY(e.Z) <=> HasY(d.Z)
<1>1. /\ FullRows(d) \in Seq(Row) /\ Len(FullRows(d)) = Len(Kept(d))
      /\ IdsOf(FullRows(d)) = Base(d) /\ Having(FullRows(d), HasY(d.Z))
  BY RowsFacts
<1>2. FullRows(d) # << >>
  <2>1. d.t1 \in 1 .. Len(d.Z) /\ Len(Kept(d)) \in Nat /\ d.submask \subseteq 1 .. Len(Kept(d))
        /\ Len(d.Z) = IF d.submask = {} THEN Len(Kept(d)) ELSE Cardinality(d.submask)
    BY SoundFacts
  <2>2. d.submask # {} => Cardinality(d.submask) \in 1 .. Len(Kept(d))
    BY <2>1, RankFacts
  <2>3. Len(Kept(d)) # 0
    BY <2>1, <2>2
  <2> QED
    BY <1>1, <2>3, EmptySeq
<1>3. Ordered(IdsOf(FullRows(d)))
  BY <1>1 DEF Sound
<1> QED
  BY <1>1, <1>2, <1>3, WholeSound DEF RestoreFull

\* A copy of the rows of a mask.
LEMMA MaskSound ==
  ASSUME NEW d, Sound(d), d.full = << >>, NEW mask, mask \subseteq 1 .. Len(Kept(d)), mask # {}
  PROVE  LET e == FromMask(d, mask)
         IN  /\ Sound(e) /\ Base(e) = Base(d) /\ Kept(e) = Kept(d)
             /\ e.Z = Copy(d.Z, mask) /\ e.submask = mask /\ e.full = d.Z
             /\ e.t1 = 1 /\ e.t2 = Cardinality(mask)
             /\ HasY(e.Z) <=> HasY(d.Z)
<1> DEFINE e == FromMask(d, mask)
           n == Cardinality(mask)
<1>1. /\ d.Z = Kept(d) /\ d.Z \in Seq(Row) /\ Len(d.Z) \in Nat /\ DOMAIN d.Z = 1 .. Len(d.Z)
      /\ mask \subseteq 1 .. Len(d.Z)
  BY SoundFacts DEF Kept
<1>2. n \in 1 .. Len(d.Z)
  BY <1>1, RankFacts
<1>3. \A j \in 1 .. n : Copy(d.Z, mask)[j] = d.Z[At(mask, j)] /\ At(mask, j) \in mask
  BY <1>1, AtFacts DEF Copy, At
<1>4. Copy(d.Z, mask) \in [1 .. n -> Row]
  <2>1. \A j \in 1 .. n : d.Z[At(mask, j)] \in Row
    BY <1>1, <1>3, ElementOfSeq
  <2> QED
    BY <1>3, <2>1 DEF Copy
<1>5. Copy(d.Z, mask) \in Seq(Row) /\ Len(Copy(d.Z, mask)) = n
  BY <1>2, <1>4, SeqFcn
<1>6. /\ e.Z = Copy(d.Z, mask) /\ e.submask = mask /\ e.full = d.Z
      /\ e.t1 = 1 /\ e.t2 = n /\ e \in Dataset
  <2>1. mask \in SUBSET Nat
    BY <1>1
  <2>2. Whole(Copy(d.Z, mask)) =
          [Z |-> Copy(d.Z, mask), submask |-> {}, t1 |-> 1, t2 |-> n, full |-> << >>]
    BY <1>5 DEF Whole
  <2>3. e = [Z |-> Copy(d.Z, mask), submask |-> mask, t1 |-> 1, t2 |-> n, full |-> d.Z]
    <3> DEFINE w == Whole(Copy(d.Z, mask))
    <3>1. e = [w EXCEPT !.submask = mask, !.full = d.Z]
      BY DEF FromMask
    <3>2. w = [Z |-> Copy(d.Z, mask), submask |-> {}, t1 |-> 1, t2 |-> n, full |-> << >>]
      BY <2>2
    <3> HIDE DEF w, e, n
    <3> QED
      BY <3>1, <3>2
  <2> HIDE DEF e
  <2> QED
    BY <1>1, <1>2, <1>5, <2>1, <2>3 DEF Dataset
<1>7. d.Z # << >>
  BY <1>1, <1>2, EmptySeq
<1>8. Kept(e) = Kept(d) /\ Base(e) = Base(d)
  BY <1>1, <1>6, <1>7 DEF Kept, Base
<1>9. \A t \in mask : Copy(d.Z, mask)[Rank(mask, t)] = d.Z[t]
  <2> TAKE t \in mask
  <2>1. Rank(mask, t) \in 1 .. n /\ At(mask, Rank(mask, t)) = t
    BY <1>1, RankFacts, AtFacts
  <2> QED
    BY <1>3, <2>1
<1>10. Copied(e)
  BY <1>5, <1>6, <1>9 DEF Copied
<1>11. Fits(mask, 1, n, Len(Kept(e)))
  BY <1>1, <1>2, <1>8 DEF Fits
<1>12. Having(e.Z, HasY(d.Z))
  <2>1. \A t \in 1 .. Len(d.Z) : HasY(d.Z) <=> d.Z[t].y # NoSeries
    BY <1>1 DEF Sound, Filled, Having
  <2>2. DOMAIN e.Z = 1 .. n
    BY <1>5, <1>6, LenProperties
  <2>3. \A j \in 1 .. n : e.Z[j] = d.Z[At(mask, j)] /\ At(mask, j) \in 1 .. Len(d.Z)
    BY <1>1, <1>3, <1>6
  <2> HIDE DEF e, n
  <2> QED
    BY <2>1, <2>2, <2>3 DEF Having
<1>13. HasY(e.Z) <=> HasY(d.Z)
  <2>1. 1 \in DOMAIN e.Z
    BY <1>2, <1>5, <1>6, LenProperties
  <2> HIDE DEF e
  <2> QED
    BY <1>12, <2>1 DEF Having, HasY
<1>14. Filled(e)
  <2>1. Having(d.Z, HasY(d.Z)) /\ e.full = d.Z
    BY <1>6 DEF Sound, Filled
  <2> HIDE DEF e
  <2> QED
    BY <1>12, <1>13, <2>1 DEF Filled, Having
<1>15. Sound(e)
  BY <1>6, <1>7, <1>8, <1>10, <1>11, <1>14 DEF Sound
<1> QED
  BY <1>6, <1>8, <1>13, <1>15

\* Other values in the rows, which keep their identities.
Revalued(Z, Y) ==
    /\ Y \in Seq(Row) /\ DOMAIN Y = DOMAIN Z
    /\ \A t \in DOMAIN Z : Y[t].id = Z[t].id

\* A dataset with other values is sound, and about the same observations.
LEMMA ValuesSound ==
  ASSUME NEW d, Sound(d), NEW e \in Dataset, Revalued(d.Z, e.Z), Revalued(d.full, e.full),
         e.submask = d.submask, e.t1 = d.t1, e.t2 = d.t2, Filled(e)
  PROVE  /\ Sound(e) /\ Base(e) = Base(d) /\ Len(Kept(e)) = Len(Kept(d))
         /\ e.full = << >> <=> d.full = << >>
<1>1. d \in Dataset /\ d.Z \in Seq(Row) /\ d.full \in Seq(Row) /\ e.Z \in Seq(Row) /\ e.full \in Seq(Row)
  BY DEF Sound, Revalued, Dataset
<1>2. Len(e.Z) = Len(d.Z) /\ Len(e.full) = Len(d.full)
  <2>1. DOMAIN e.Z = 1 .. Len(e.Z) /\ DOMAIN d.Z = 1 .. Len(d.Z) /\ Len(d.Z) \in Nat /\ Len(e.Z) \in Nat
    BY <1>1, LenProperties
  <2>2. DOMAIN e.full = 1 .. Len(e.full) /\ DOMAIN d.full = 1 .. Len(d.full)
        /\ Len(d.full) \in Nat /\ Len(e.full) \in Nat
    BY <1>1, LenProperties
  <2>3. DOMAIN e.Z = DOMAIN d.Z /\ DOMAIN e.full = DOMAIN d.full
    BY DEF Revalued
  <2> QED
    BY <2>1, <2>2, <2>3
<1>3. e.full = << >> <=> d.full = << >>
  BY <1>1, <1>2, EmptySeq
<1>4. IdsOf(e.Z) = IdsOf(d.Z) /\ IdsOf(e.full) = IdsOf(d.full)
  BY DEF IdsOf, Revalued
<1>5. Base(e) = Base(d) /\ Len(Kept(e)) = Len(Kept(d))
  BY <1>2, <1>3, <1>4 DEF Base, Kept
<1>6. d.submask # {} => Copied(e)
  <2> SUFFICES ASSUME d.submask # {} PROVE Copied(e)
    OBVIOUS
  <2>1. /\ Copied(d) /\ d.full # << >> /\ d.submask \subseteq 1 .. Len(d.full)
        /\ Len(d.full) \in Nat /\ DOMAIN d.full = 1 .. Len(d.full) /\ DOMAIN d.Z = 1 .. Len(d.Z)
    BY SoundFacts DEF Sound, Kept
  <2>2. \A t \in d.submask : Rank(d.submask, t) \in 1 .. Len(d.Z)
    BY <2>1, RankFacts DEF Copied
  <2> QED
    BY <1>2, <2>1, <2>2 DEF Copied, Revalued
<1> QED
  BY <1>3, <1>5, <1>6 DEF Sound

\* What is in use is what the mask and the range select.
LEMMA SelFacts ==
  ASSUME NEW d, Sound(d), NEW X, X \subseteq 1 .. Len(d.Z)
  PROVE  /\ Ids(d.Z, X) = IF d.submask = {} THEN {Base(d)[t] : t \in X}
                          ELSE {Base(d)[t] : t \in {s \in d.submask : Rank(d.submask, s) \in X}}
         /\ SelOf(d) = Picked(Base(d), d.submask, d.t1, d.t2)
<1>1. \A Y \in SUBSET (1 .. Len(d.Z)) :
        Ids(d.Z, Y) = IF d.submask = {} THEN {Base(d)[t] : t \in Y}
                      ELSE {Base(d)[t] : t \in {s \in d.submask : Rank(d.submask, s) \in Y}}
  <2> TAKE Y \in SUBSET (1 .. Len(d.Z))
  <2>1. CASE d.submask = {}
    <3>1. d.Z = Kept(d) /\ \A t \in Y : Base(d)[t] = d.Z[t].id
      BY <2>1, SoundFacts DEF Sound, Kept
    <3> QED
      BY <2>1, <3>1 DEF Ids
  <2>2. CASE d.submask # {}
    <3> DEFINE P == {s \in d.submask : Rank(d.submask, s) \in Y}
    <3>1. /\ Copied(d) /\ d.full = Kept(d) /\ d.submask \subseteq 1 .. Len(Kept(d))
          /\ Len(Kept(d)) \in Nat /\ Len(d.Z) = Cardinality(d.submask)
          /\ \A t \in 1 .. Len(Kept(d)) : Base(d)[t] = Kept(d)[t].id
      BY <2>2, SoundFacts DEF Sound, Kept
    <3>2. \A t \in d.submask : Base(d)[t] = d.Z[Rank(d.submask, t)].id
      BY <3>1 DEF Copied
    <3>3. \A j \in Y : \E t \in P : Rank(d.submask, t) = j
      BY <3>1, RankFacts
    <3>4. \A j \in Y : \E t \in P : d.Z[j].id = Base(d)[t]
      BY <3>2, <3>3
    <3>5. \A t \in P : \E j \in Y : d.Z[j].id = Base(d)[t]
      BY <3>2
    <3>6. Ids(d.Z, Y) = {Base(d)[t] : t \in P}
      BY <3>4, <3>5 DEF Ids
    <3> QED
      BY <2>2, <3>6
  <2> QED
    BY <2>1, <2>2
<1>2. d.t1 .. d.t2 \subseteq 1 .. Len(d.Z)
  BY SoundFacts
<1>3. SelOf(d) = Picked(Base(d), d.submask, d.t1, d.t2)
  BY <1>1, <1>2 DEF SelOf, InRange, Picked, Where
<1> QED
  BY <1>1, <1>3
-----------------------------------------------------------------------------
(***************************************************************************)
(* What calls have recorded.                                               *)
(***************************************************************************)

\* A mask and a range that fit select places, at least one.
LEMMA WhereFacts ==
  ASSUME NEW k \in Nat, NEW mask, NEW a, NEW b, Fits(mask, a, b, k)
  PROVE  Where(mask, a, b) \subseteq 1 .. k /\ Where(mask, a, b) # {}
<1>1. a \in Nat /\ b \in Nat /\ 1 <= a /\ a <= b /\ mask \subseteq 1 .. k
      /\ b <= IF mask = {} THEN k ELSE Cardinality(mask)
  BY DEF Fits
<1>2. CASE mask = {}
  BY <1>1, <1>2 DEF Where
<1>3. CASE mask # {}
  <2>1. Cardinality(mask) \in 0 .. k
    BY <1>1, RankFacts
  <2>2. a \in 1 .. Cardinality(mask)
    <3>1. b <= Cardinality(mask)
      BY <1>1, <1>3
    <3> QED
      BY <1>1, <2>1, <3>1
  <2>3. \E t \in mask : Rank(mask, t) = a
    BY <1>1, <2>2, RankFacts
  <2> QED
    <3>1. Where(mask, a, b) = {t \in mask : Rank(mask, t) \in a .. b}
      BY <1>3 DEF Where
    <3>2. a \in a .. b
      BY <1>1
    <3> QED
      BY <1>1, <2>3, <3>1, <3>2
<1> QED
  BY <1>2, <1>3

\* Two sequences of observations begin with the same n.
Agree(B, C, n) == \A t \in 1 .. n : B[t] = C[t]

\* A selection among the first n observations is that of either sequence.
LEMMA PickedSame ==
  ASSUME NEW n \in Nat, NEW B, NEW C, Agree(B, C, n), NEW mask, NEW a, NEW b, Fits(mask, a, b, n)
  PROVE  Picked(B, mask, a, b) = Picked(C, mask, a, b)
BY WhereFacts DEF Agree, Picked

\* A record of a call is about the observations there were at the call.
LEMMA RecordedSame ==
  ASSUME NEW B, NEW C, NEW j \in Nat, NEW k \in Nat, NEW f, Recorded(B, j, f),
         Size(f) <= k, Agree(B, C, Size(f))
  PROVE  Recorded(C, k, f)
<1>1. /\ Size(f) \in 1 .. j /\ Size(f) \in Nat
      /\ f.obs = Firsts(B, Size(f))
      /\ Fits(f.submask, f.t1, f.t2, Size(f))
      /\ f.sel = Picked(B, f.submask, f.t1, f.t2)
      /\ f.n = IF f.submask = {} THEN Size(f) ELSE Cardinality(f.submask)
  BY DEF Recorded
<1>2. Size(f) \in 1 .. k
  BY <1>1
<1>3. f.obs = Firsts(C, Size(f))
  BY <1>1 DEF Agree, Firsts
<1>4. f.sel = Picked(C, f.submask, f.t1, f.t2)
  BY <1>1, PickedSame
<1> QED
  BY <1>1, <1>2, <1>3, <1>4 DEF Recorded

\* The parts of a chain.
LEMMA LinkedFacts ==
  ASSUME NEW d, NEW fs, Linked(d, fs)
  PROVE  /\ fs \in Seq(Frame) /\ Len(fs) \in Nat /\ DOMAIN fs = 1 .. Len(fs)
         /\ \A i \in 1 .. Len(fs) : fs[i] \in Frame /\ Recorded(Base(d), Len(Kept(d)), fs[i])
         /\ \A i \in 1 .. Len(fs) - 1 : Follows(fs[i], fs[i + 1].submask, Size(fs[i + 1]))
         /\ \A i, j \in 1 .. Len(fs) : i < j => Size(fs[i]) <= Size(fs[j])
         /\ \A i \in 1 .. Len(fs) : Size(fs[i]) \in Nat /\ 1 <= Size(fs[i])
         /\ fs # << >> => Len(fs) \in 1 .. Len(fs) /\ Follows(fs[Len(fs)], d.submask, Len(Kept(d)))
<1>1. fs \in Seq(Frame) /\ Len(fs) \in Nat /\ DOMAIN fs = 1 .. Len(fs)
      /\ \A i \in 1 .. Len(fs) : fs[i] \in Frame
  BY LenProperties, ElementOfSeq DEF Linked
<1>2. /\ \A i \in 1 .. Len(fs) : Recorded(Base(d), Len(Kept(d)), fs[i])
      /\ \A i \in 1 .. Len(fs) - 1 : Follows(fs[i], fs[i + 1].submask, Size(fs[i + 1]))
      /\ \A i, j \in 1 .. Len(fs) : i < j => Size(fs[i]) <= Size(fs[j])
  BY <1>1 DEF Linked, Chain
<1>3. \A i \in 1 .. Len(fs) : Size(fs[i]) \in Nat /\ 1 <= Size(fs[i])
  BY <1>2 DEF Recorded
<1>4. fs # << >> => Len(fs) \in 1 .. Len(fs) /\ Follows(fs[Len(fs)], d.submask, Len(Kept(d)))
  BY <1>1, EmptySeq DEF Linked
<1> QED
  BY <1>1, <1>2, <1>3, <1>4

\* Nothing changes as long as the observations are the same, and the present
\* mask is still empty or is still one.
LEMMA SameLinked ==
  ASSUME NEW d, NEW e, NEW fs, Linked(d, fs), Base(e) = Base(d), Len(Kept(e)) = Len(Kept(d)),
         fs # << >> => Follows(fs[Len(fs)], e.submask, Len(Kept(e)))
  PROVE  Linked(e, fs)
BY DEF Linked

\* What a call records now.
NewFrame(d) ==
    [submask |-> d.submask, t1 |-> d.t1, t2 |-> d.t2, n |-> Len(d.Z), added |-> 0,
     sel |-> SelOf(d), obs |-> Ids(FullRows(d), DOMAIN FullRows(d))]

\* A call records the dataset as it is.
LEMMA NewFrameFacts ==
  ASSUME NEW d, Sound(d)
  PROVE  LET f == NewFrame(d)
         IN  /\ f \in Frame /\ Recorded(Base(d), Len(Kept(d)), f)
             /\ Size(f) = Len(Kept(d)) /\ Follows(f, d.submask, Len(Kept(d)))
             /\ f.submask = d.submask /\ f.sel = SelOf(d) /\ f.added = 0
             /\ f.t1 = d.t1 /\ f.t2 = d.t2
<1> DEFINE f == NewFrame(d)
           k == Len(Kept(d))
<1>1. /\ f.submask = d.submask /\ f.t1 = d.t1 /\ f.t2 = d.t2 /\ f.n = Len(d.Z) /\ f.added = 0
      /\ f.sel = SelOf(d) /\ f.obs = Ids(FullRows(d), DOMAIN FullRows(d))
  BY DEF NewFrame
<1>2. /\ k \in Nat /\ DOMAIN Base(d) = 1 .. k /\ \A t \in 1 .. k : Base(d)[t] \in Id
      /\ Len(d.Z) \in Nat /\ d.t1 \in 1 .. Len(d.Z) /\ d.t2 \in d.t1 .. Len(d.Z)
      /\ d.submask \subseteq 1 .. k
      /\ Len(d.Z) = IF d.submask = {} THEN k ELSE Cardinality(d.submask)
  BY SoundFacts
<1>3. f.obs = Firsts(Base(d), k)
  <2>1. DOMAIN FullRows(d) = 1 .. k /\ \A t \in 1 .. k : FullRows(d)[t].id = Base(d)[t]
    BY <1>2, RowsFacts DEF IdsOf
  <2> QED
    BY <1>1, <2>1 DEF Ids, Firsts
<1>4. Size(f) = k
  <2>1. Ordered(Base(d)) /\ \A t \in 1 .. k : Base(d)[t] \in Nat
    BY <1>2 DEF Sound, Id
  <2>2. k \in 0 .. k
    BY <1>2
  <2>3. Cardinality(Firsts(Base(d), k)) = k
    <3> HIDE DEF k
    <3> QED
      BY <1>2, <2>1, <2>2, FirstOnes
  <2> QED
    BY <1>3, <2>3 DEF Size
<1>5. Fits(d.submask, d.t1, d.t2, k) /\ f.sel = Picked(Base(d), d.submask, d.t1, d.t2)
  <2>1. SelOf(d) = Picked(Base(d), d.submask, d.t1, d.t2)
    BY SelFacts
  <2> QED
    BY <1>1, <2>1 DEF Sound
<1>6. k >= 1
  <2>1. d.submask # {} => Cardinality(d.submask) \in 1 .. k
    BY <1>2, RankFacts
  <2> QED
    BY <1>2, <2>1
<1>7. Recorded(Base(d), k, f)
  BY <1>1, <1>2, <1>3, <1>4, <1>5, <1>6 DEF Recorded
<1>8. f \in Frame
  <2>1. Where(d.submask, d.t1, d.t2) \subseteq 1 .. k
    BY <1>2, <1>5, WhereFacts
  <2>2. Picked(Base(d), d.submask, d.t1, d.t2) \subseteq Nat
    BY <1>2, <2>1 DEF Picked, Id
  <2>3. Firsts(Base(d), k) \subseteq Nat
    BY <1>2 DEF Id, Firsts
  <2>4. d.submask \in SUBSET Nat /\ d.t1 \in Nat /\ d.t2 \in Nat
    BY <1>2
  <2>5. SelOf(d) \in SUBSET Nat /\ Ids(FullRows(d), DOMAIN FullRows(d)) \in SUBSET Nat
    BY <1>1, <1>3, <1>5, <2>2, <2>3
  <2> QED
    BY <1>2, <2>4, <2>5 DEF Frame, NewFrame
<1>9. Follows(f, d.submask, k)
  BY <1>1, <1>2, <1>4 DEF Follows
<1> QED
  BY <1>1, <1>4, <1>7, <1>8, <1>9

\* A call adds a record to the chain.
LEMMA PushLinked ==
  ASSUME NEW d, Sound(d), NEW fs, Linked(d, fs)
  PROVE  Linked(d, Append(fs, NewFrame(d)))
<1> DEFINE f == NewFrame(d)
           k == Len(Kept(d))
           n == Len(fs)
           gs == Append(fs, f)
<1>1. /\ fs \in Seq(Frame) /\ n \in Nat /\ DOMAIN fs = 1 .. n
      /\ \A i \in 1 .. n : Recorded(Base(d), k, fs[i]) /\ Size(fs[i]) \in Nat
      /\ \A i \in 1 .. n - 1 : Follows(fs[i], fs[i + 1].submask, Size(fs[i + 1]))
      /\ \A i, j \in 1 .. n : i < j => Size(fs[i]) <= Size(fs[j])
      /\ fs # << >> => Follows(fs[n], d.submask, k)
  BY LinkedFacts
<1>2. /\ f \in Frame /\ Recorded(Base(d), k, f) /\ Size(f) = k /\ Follows(f, d.submask, k)
      /\ f.submask = d.submask
  BY NewFrameFacts
<1> HIDE DEF f, k, n
<1>3. /\ gs \in Seq(Frame) /\ Len(gs) = n + 1 /\ DOMAIN gs = 1 .. n + 1 /\ gs # << >>
      /\ \A i \in 1 .. n : gs[i] = fs[i]
      /\ gs[n + 1] = f
  BY <1>1, <1>2, AppendProperties, LenProperties DEF n
<1> HIDE DEF gs
<1>4. \A i \in 1 .. n + 1 : Recorded(Base(d), k, gs[i])
  <2>1. \A i \in 1 .. n + 1 : i \in 1 .. n \/ i = n + 1
    BY <1>1
  <2> QED
    BY <1>1, <1>2, <1>3, <2>1
<1>5. \A i \in 1 .. n : Follows(gs[i], gs[i + 1].submask, Size(gs[i + 1]))
  <2> TAKE i \in 1 .. n
  <2>1. CASE i = n
    <3>1. fs # << >> /\ gs[i] = fs[n] /\ gs[i + 1] = f
      BY <1>1, <1>3, <2>1, EmptySeq DEF n
    <3> QED
      BY <1>1, <1>2, <3>1
  <2>2. CASE i # n
    <3>1. i \in 1 .. n - 1 /\ gs[i] = fs[i] /\ gs[i + 1] = fs[i + 1]
      BY <1>1, <1>3, <2>2
    <3> QED
      BY <1>1, <3>1
  <2> QED
    BY <2>1, <2>2
<1>6. \A i, j \in 1 .. n + 1 : i < j => Size(gs[i]) <= Size(gs[j])
  <2> TAKE i, j \in 1 .. n + 1
  <2> SUFFICES ASSUME i < j PROVE Size(gs[i]) <= Size(gs[j])
    OBVIOUS
  <2>1. i \in 1 .. n /\ gs[i] = fs[i]
    BY <1>1, <1>3
  <2>2. CASE j = n + 1
    <3>1. gs[j] = f
      BY <1>3, <2>2
    <3>2. Size(fs[i]) <= k
      BY <1>1, <2>1 DEF Recorded
    <3> QED
      BY <1>2, <2>1, <3>1, <3>2
  <2>3. CASE j # n + 1
    BY <1>1, <1>3, <2>1, <2>3
  <2> QED
    BY <2>2, <2>3
<1>7. Chain(Base(d), k, gs)
  <2>1. Len(gs) - 1 = n
    BY <1>1, <1>3
  <2> QED
    BY <1>3, <1>4, <1>5, <1>6, <2>1 DEF Chain
<1>8. Follows(gs[Len(gs)], d.submask, k)
  BY <1>2, <1>3
<1> QED
  BY <1>3, <1>7, <1>8 DEF Linked, k, gs, f

\* All but the last frame.
LEMMA FrontFacts ==
  ASSUME NEW X, NEW s \in Seq(X), s # << >>
  PROVE  /\ Front(s) \in Seq(X) /\ Len(Front(s)) = Len(s) - 1 /\ DOMAIN Front(s) = 1 .. Len(s) - 1
         /\ \A i \in 1 .. Len(s) - 1 : Front(s)[i] = s[i]
<1>1. Len(s) \in Nat \ {0} /\ \A i \in 1 .. Len(s) - 1 : s[i] \in X
  BY EmptySeq, ElementOfSeq
<1>2. Front(s) \in Seq(X) /\ Len(Front(s)) = Len(s) - 1
      /\ \A i \in 1 .. Len(s) - 1 : Front(s)[i] = s[i]
  <2> DEFINE m == Len(s) - 1
  <2>0. m \in Nat
    BY <1>1
  <2>1. m \in Int /\ 1 \in Int /\ (IF 1 <= m THEN m - 1 + 1 ELSE 0) = m
    <3> HIDE DEF m
    <3> QED
      BY <2>0
  <2>2. /\ SubSeq(s, 1, m) \in Seq(X)
        /\ Len(SubSeq(s, 1, m)) = m
        /\ \A i \in 1 .. m - 1 + 1 : SubSeq(s, 1, m)[i] = s[1 + i - 1]
    <3> HIDE DEF m
    <3>1. \A i \in 1 .. m : s[i] \in X
      BY <1>1 DEF m
    <3> QED
      BY <2>1, <3>1, SubSeqProperties
  <2>3. \A i \in 1 .. m : i \in 1 .. m - 1 + 1 /\ 1 + i - 1 = i
    BY <2>1
  <2>4. \A i \in 1 .. m : SubSeq(s, 1, m)[i] = s[i]
    BY <2>2, <2>3
  <2> QED
    BY <2>2, <2>4 DEF Front
<1> QED
  BY <1>2, LenProperties

\* The end of a function takes its record off the chain, if the mask and the
\* observations of the call are back.
LEMMA PopLinked ==
  ASSUME NEW d, Sound(d), NEW fs, Linked(d, fs), fs # << >>, NEW e,
         Len(Kept(e)) = Size(fs[Len(fs)]), e.submask = fs[Len(fs)].submask,
         Agree(Base(d), Base(e), Size(fs[Len(fs)]))
  PROVE  Linked(e, Front(fs))
<1> DEFINE n == Len(fs)
           k == Len(Kept(d))
           h == Size(fs[n])
           gs == Front(fs)
<1>1. /\ fs \in Seq(Frame) /\ n \in Nat
      /\ \A i \in 1 .. n : Recorded(Base(d), k, fs[i]) /\ Size(fs[i]) \in Nat
      /\ \A i \in 1 .. n - 1 : Follows(fs[i], fs[i + 1].submask, Size(fs[i + 1]))
      /\ \A i, j \in 1 .. n : i < j => Size(fs[i]) <= Size(fs[j])
      /\ n \in 1 .. n
  BY LinkedFacts
<1>2. /\ gs \in Seq(Frame) /\ Len(gs) = n - 1 /\ DOMAIN gs = 1 .. n - 1
      /\ \A i \in 1 .. n - 1 : gs[i] = fs[i]
  BY <1>1, FrontFacts
<1> HIDE DEF n, k, gs
<1>3. \A i \in 1 .. n - 1 : Recorded(Base(e), h, gs[i])
  <2> TAKE i \in 1 .. n - 1
  <2>1. Size(fs[i]) <= h /\ Size(fs[i]) \in Nat /\ h \in Nat /\ Recorded(Base(d), k, fs[i])
    BY <1>1
  <2>2. Agree(Base(d), Base(e), Size(fs[i]))
    BY <2>1 DEF Agree, n
  <2>3. k \in Nat
    BY SoundFacts DEF k
  <2> QED
    BY <1>2, <2>1, <2>2, <2>3, RecordedSame
<1>4. \A i \in 1 .. n - 2 : Follows(gs[i], gs[i + 1].submask, Size(gs[i + 1]))
  <2> TAKE i \in 1 .. n - 2
  <2>1. i \in 1 .. n - 1 /\ i + 1 \in 1 .. n - 1
    BY <1>1
  <2>2. gs[i] = fs[i] /\ gs[i + 1] = fs[i + 1]
    BY <1>2, <2>1
  <2> QED
    BY <1>1, <2>1, <2>2
<1>5. \A i, j \in 1 .. n - 1 : i < j => Size(gs[i]) <= Size(gs[j])
  <2> TAKE i, j \in 1 .. n - 1
  <2>1. i \in 1 .. n /\ j \in 1 .. n /\ gs[i] = fs[i] /\ gs[j] = fs[j]
    BY <1>1, <1>2
  <2> QED
    BY <1>1, <2>1
<1>6. Chain(Base(e), h, gs)
  <2>1. Len(gs) - 1 = n - 2
    BY <1>1, <1>2
  <2> QED
    BY <1>2, <1>3, <1>4, <1>5, <2>1 DEF Chain
<1>7. gs # << >> => Follows(gs[Len(gs)], e.submask, h)
  <2> SUFFICES ASSUME gs # << >> PROVE Follows(gs[n - 1], e.submask, h)
    BY <1>2
  <2>1. n - 1 \in 1 .. n - 1
    BY <1>1, <1>2, EmptySeq
  <2>2. gs[n - 1] = fs[n - 1] /\ Follows(fs[n - 1], fs[n].submask, Size(fs[n]))
    BY <1>1, <1>2, <2>1
  <2> QED
    BY <2>2 DEF n
<1> QED
  BY <1>2, <1>6, <1>7 DEF Linked, gs, n

\* The function that runs has added an observation.
Grown(fs) == IF fs = << >> THEN fs ELSE [fs EXCEPT ![Len(fs)].added = @ + 1]

\* An added observation changes no record but for the count.
LEMMA GrownFacts ==
  ASSUME NEW fs \in Seq(Frame)
  PROVE  /\ Grown(fs) \in Seq(Frame) /\ Len(Grown(fs)) = Len(fs)
         /\ \A i \in 1 .. Len(fs) :
              /\ Grown(fs)[i].submask = fs[i].submask /\ Grown(fs)[i].t1 = fs[i].t1
              /\ Grown(fs)[i].t2 = fs[i].t2 /\ Grown(fs)[i].n = fs[i].n
              /\ Grown(fs)[i].sel = fs[i].sel /\ Grown(fs)[i].obs = fs[i].obs
              /\ Grown(fs)[i].added = IF i = Len(fs) THEN fs[i].added + 1 ELSE fs[i].added
<1>1. Len(fs) \in Nat /\ DOMAIN fs = 1 .. Len(fs) /\ \A i \in 1 .. Len(fs) : fs[i] \in Frame
  BY LenProperties, ElementOfSeq
<1>2. CASE fs = << >>
  <2>1. Len(fs) = 0
    BY <1>2, EmptySeq
  <2> QED
    BY <1>2, <2>1 DEF Grown
<1>3. CASE fs # << >>
  <2> DEFINE n == Len(fs)
             f == fs[n]
             g == [f EXCEPT !.added = @ + 1]
  <2>1. n \in 1 .. n /\ fs[n] \in Frame
    BY <1>1, <1>3, EmptySeq
  <2>2. /\ g \in Frame /\ g.submask = fs[n].submask /\ g.t1 = fs[n].t1 /\ g.t2 = fs[n].t2
        /\ g.n = fs[n].n /\ g.sel = fs[n].sel /\ g.obs = fs[n].obs /\ g.added = fs[n].added + 1
    <3>1. f \in Frame
      BY <2>1
    <3> DEFINE a == f.added + 1
    <3>0. g = [f EXCEPT !.added = a] /\ a \in Nat
      BY <3>1 DEF Frame
    <3> HIDE DEF f, a, g
    <3>2. /\ g \in Frame /\ g.submask = f.submask /\ g.t1 = f.t1 /\ g.t2 = f.t2
          /\ g.n = f.n /\ g.sel = f.sel /\ g.obs = f.obs /\ g.added = a
      BY <3>0, <3>1 DEF Frame
    <3> QED
      BY <3>2 DEF f, a
  <2>3. Grown(fs) = [fs EXCEPT ![n] = g]
    BY <1>3 DEF Grown
  <2> HIDE DEF g
  <2>4. /\ Grown(fs) \in Seq(Frame) /\ Len(Grown(fs)) = n
        /\ \A i \in 1 .. n : Grown(fs)[i] = IF i = n THEN g ELSE fs[i]
    BY <2>1, <2>2, <2>3, ExceptSeq
  <2> QED
    BY <2>2, <2>4
<1> QED
  BY <1>2, <1>3

\* The chain holds when a dataset without a mask gets one more observation.
LEMMA GrowLinked ==
  ASSUME NEW d, Sound(d), NEW fs, Linked(d, fs), NEW e, d.submask = {}, e.submask = {},
         Len(Kept(e)) = Len(Kept(d)) + 1, Agree(Base(d), Base(e), Len(Kept(d)))
  PROVE  Linked(e, Grown(fs))
<1> DEFINE n == Len(fs)
           k == Len(Kept(d))
           gs == Grown(fs)
<1>1. /\ fs \in Seq(Frame) /\ n \in Nat /\ k \in Nat
      /\ \A i \in 1 .. n : Recorded(Base(d), k, fs[i]) /\ Size(fs[i]) \in Nat /\ fs[i] \in Frame
      /\ \A i \in 1 .. n - 1 : Follows(fs[i], fs[i + 1].submask, Size(fs[i + 1]))
      /\ \A i, j \in 1 .. n : i < j => Size(fs[i]) <= Size(fs[j])
      /\ fs # << >> => n \in 1 .. n /\ Follows(fs[n], d.submask, k)
  BY LinkedFacts, SoundFacts
<1>2. /\ gs \in Seq(Frame) /\ Len(gs) = n
      /\ \A i \in 1 .. n :
           /\ gs[i].submask = fs[i].submask /\ gs[i].t1 = fs[i].t1
           /\ gs[i].t2 = fs[i].t2 /\ gs[i].n = fs[i].n
           /\ gs[i].sel = fs[i].sel /\ gs[i].obs = fs[i].obs
           /\ gs[i].added = IF i = n THEN fs[i].added + 1 ELSE fs[i].added
  BY <1>1, GrownFacts
<1>3. DOMAIN gs = 1 .. n /\ (gs # << >> => fs # << >>)
  BY <1>1, <1>2, LenProperties, EmptySeq
<1> HIDE DEF n, k, gs
<1>4. \A i \in 1 .. n : Size(gs[i]) = Size(fs[i])
  BY <1>2 DEF Size
<1>5. \A i \in 1 .. n : Recorded(Base(e), k + 1, gs[i])
  <2> TAKE i \in 1 .. n
  <2>1. Recorded(Base(d), k, fs[i]) /\ Size(fs[i]) \in 1 .. k
    BY <1>1 DEF Recorded
  <2>2. Agree(Base(d), Base(e), Size(fs[i])) /\ Size(fs[i]) <= k + 1
    BY <1>1, <2>1 DEF Agree, k
  <2>3. Recorded(Base(e), k + 1, fs[i])
    BY <1>1, <2>1, <2>2, RecordedSame
  <2> QED
    BY <1>2, <1>4, <2>3 DEF Recorded
<1>6. \A i \in 1 .. n - 1 : Follows(gs[i], gs[i + 1].submask, Size(gs[i + 1]))
  <2> TAKE i \in 1 .. n - 1
  <2>1. i \in 1 .. n /\ i + 1 \in 1 .. n /\ i # n
    BY <1>1
  <2>2. Follows(fs[i], fs[i + 1].submask, Size(fs[i + 1]))
    BY <1>1
  <2>3. gs[i].added = fs[i].added /\ gs[i].submask = fs[i].submask /\ Size(gs[i]) = Size(fs[i])
        /\ gs[i + 1].submask = fs[i + 1].submask /\ Size(gs[i + 1]) = Size(fs[i + 1])
    BY <1>2, <1>4, <2>1
  <2> QED
    BY <2>2, <2>3 DEF Follows
<1>7. \A i, j \in 1 .. n : i < j => Size(gs[i]) <= Size(gs[j])
  BY <1>1, <1>4
<1>8. gs # << >> => Follows(gs[n], e.submask, k + 1)
  <2> SUFFICES ASSUME gs # << >> PROVE Follows(gs[n], {}, k + 1)
    OBVIOUS
  <2>1. n \in 1 .. n /\ Follows(fs[n], {}, k)
    BY <1>1, <1>3
  <2>2. gs[n].added = fs[n].added + 1 /\ gs[n].submask = fs[n].submask /\ Size(gs[n]) = Size(fs[n])
    BY <1>2, <1>4, <2>1
  <2>3. fs[n].added \in Nat /\ Size(fs[n]) \in Nat
    BY <1>1, <2>1 DEF Frame
  <2> QED
    BY <2>1, <2>2, <2>3 DEF Follows
<1> QED
  BY <1>2, <1>3, <1>5, <1>6, <1>7, <1>8 DEF Linked, Chain, k, gs
-----------------------------------------------------------------------------
(***************************************************************************)
(* Sets of places.                                                         *)
(***************************************************************************)

\* Every set of numbers has a least one.
LEMMA Least ==
  ASSUME NEW T, T \subseteq Nat, T # {} PROVE \E x \in T : \A y \in T : x <= y
<1> DEFINE LT == {ss \in Nat \X Nat : ss[1] < ss[2]}
<1>1. OpToRel(<, Nat) = LT
  BY DEF OpToRel
<1>2. IsWellFoundedOn(LT, Nat)
  BY <1>1, NatLessThanWellFounded
<1>3. PICK x \in T : \A y \in T : <<y, x>> \notin LT
  <2> HIDE DEF LT
  <2> QED
    BY <1>2, WFMin
<1>4. \A y \in T : ~(y < x)
  BY <1>3
<1> QED
  BY <1>4

\* The first and the last place of a set of places.
LEMMA EndsFacts ==
  ASSUME NEW k \in Nat, NEW X, X \subseteq 1 .. k, X # {}
  PROVE  /\ Min(X) \in X /\ \A y \in X : Min(X) <= y
         /\ Max(X) \in X /\ \A y \in X : y <= Max(X)
         /\ Min(X) \in 1 .. k /\ Max(X) \in Min(X) .. k
<1>1. \E x \in X : \A y \in X : x <= y
  <2>1. X \subseteq Nat
    OBVIOUS
  <2> QED
    BY <2>1, Least
<1>2. \E x \in X : \A y \in X : x >= y
  <2> DEFINE T == {k - x : x \in X}
  <2>1. T \subseteq Nat /\ T # {}
    <3>1. \A x \in X : x \in Nat /\ x <= k /\ k - x \in Nat
      OBVIOUS
    <3> QED
      BY <3>1
  <2>2. PICK m \in T : \A y \in T : m <= y
    <3> HIDE DEF T
    <3> QED
      BY <2>1, Least
  <2>3. PICK x \in X : m = k - x
    BY <2>2
  <2>4. \A y \in X : k - x <= k - y
    BY <2>2, <2>3
  <2>5. \A y \in X : x >= y
    BY <2>4
  <2> QED
    BY <2>5
<1>3. Min(X) \in X /\ \A y \in X : Min(X) <= y
  BY <1>1 DEF Min
<1>4. Max(X) \in X /\ \A y \in X : Max(X) >= y
  BY <1>2 DEF Max
<1>5. Min(X) \in Nat /\ Max(X) \in Nat /\ Min(X) >= 1 /\ Max(X) <= k /\ Min(X) <= Max(X)
  <2>1. \A x \in X : x \in Nat /\ 1 <= x /\ x <= k
    OBVIOUS
  <2> HIDE DEF Min, Max
  <2> QED
    BY <1>3, <1>4, <2>1
<1>6. \A y \in X : y <= Max(X)
  <2>1. \A y \in X : y \in Nat
    OBVIOUS
  <2> QED
    BY <1>4, <1>5, <2>1
<1> QED
  BY <1>3, <1>4, <1>5, <1>6

\* The ends of a range.
LEMMA RangeEnds ==
  ASSUME NEW a \in Nat, NEW b \in Nat, 1 <= a, a <= b
  PROVE  Min(a .. b) = a /\ Max(a .. b) = b
<1>1. a .. b \subseteq 1 .. b /\ a .. b # {} /\ a \in a .. b /\ b \in a .. b
  OBVIOUS
<1>2. /\ Min(a .. b) \in a .. b /\ \A y \in a .. b : Min(a .. b) <= y
      /\ Max(a .. b) \in a .. b /\ \A y \in a .. b : y <= Max(a .. b)
  BY <1>1, EndsFacts
<1> QED
  BY <1>1, <1>2

-----------------------------------------------------------------------------
(***************************************************************************)
(* The state.                                                              *)
(***************************************************************************)

\* What holds of the variables.
LEMMA CoreFacts ==
  ASSUME Core
  PROVE  /\ Sound(dset) /\ Linked(dset, frames)
         /\ Len(frames) \in Nat /\ (InCall <=> Len(frames) > 0)
         /\ ylev \in 0 .. Len(frames) /\ (ylev > 0 => HasY(dset.Z))
         /\ InCall => /\ Top \in Frame /\ Recorded(Base(dset), Len(Kept(dset)), Top)
                      /\ Size(Top) \in Nat /\ 1 <= Size(Top)
                      /\ Follows(Top, dset.submask, Len(Kept(dset)))
<1>1. /\ Sound(dset) /\ Linked(dset, frames)
      /\ ylev \in 0 .. Len(frames) /\ (ylev > 0 => HasY(dset.Z))
  BY DEF Core
<1>2. frames \in Seq(Frame) /\ Len(frames) \in Nat
  BY <1>1, LinkedFacts
<1>3. InCall <=> Len(frames) > 0
  BY <1>2, EmptySeq DEF InCall
<1>4. InCall => /\ Top \in Frame /\ Recorded(Base(dset), Len(Kept(dset)), Top)
                /\ Size(Top) \in Nat /\ 1 <= Size(Top)
                /\ Follows(Top, dset.submask, Len(Kept(dset)))
  BY <1>1, LinkedFacts DEF InCall, Top
<1> QED
  BY <1>1, <1>2, <1>3, <1>4

\* A change of values, of the range or of the mask leaves what has been recorded
\* alone.
LEMMA CoreSame ==
  ASSUME Core, Sound(dset'), Base(dset') = Base(dset), Len(Kept(dset')) = Len(Kept(dset)),
         UNCHANGED frames, ylev' \in 0 .. Len(frames), ylev' > 0 => HasY(dset'.Z),
         InCall => Follows(Top, dset'.submask, Len(Kept(dset)))
  PROVE  Core'
<1>1. Linked(dset, frames)
  BY DEF Core
<1>2. frames # << >> => Follows(frames[Len(frames)], dset'.submask, Len(Kept(dset')))
  BY DEF InCall, Top
<1>3. Linked(dset', frames)
  BY <1>1, <1>2, SameLinked
<1> QED
  BY <1>3 DEF Core

\* In the main script there are no records.
LEMMA CoreIdle ==
  ASSUME Core, ~InCall, Sound(dset'), UNCHANGED <<frames, ylev>>, HasY(dset'.Z) <=> HasY(dset.Z)
  PROVE  Core'
<1>1. frames = << >> /\ frames' = << >>
  BY DEF InCall
<1>2. Linked(dset', << >>)
  BY EmptySeq DEF Linked, Chain
<1> QED
  BY <1>1, <1>2 DEF Core

\* The same mask, or none of a call without one.
LEMMA FollowsMask ==
  ASSUME NEW f, NEW m, NEW k, Follows(f, m, k), NEW mask,
         f.submask # {} => mask # {}, mask # {} => f.added = 0
  PROVE  Follows(f, mask, k)
BY DEF Follows

\* The places a mask may be made of.
LEMMA MaskFacts ==
  ASSUME Core
  PROVE  /\ CallMask \subseteq 1 .. Len(Kept(dset)) /\ CurrentMask(dset) \subseteq 1 .. Len(Kept(dset))
         /\ Len(Kept(dset)) \in Nat
         /\ CallMask # {} => InCall /\ dset.submask # {} /\ dset.full # << >> /\ Top.added = 0
<1>1. /\ Sound(dset) /\ Len(Kept(dset)) \in Nat /\ DOMAIN dset.Z = 1 .. Len(dset.Z)
      /\ dset.submask \subseteq 1 .. Len(Kept(dset))
      /\ Len(dset.Z) = IF dset.submask = {} THEN Len(Kept(dset)) ELSE Cardinality(dset.submask)
      /\ dset.t1 \in 1 .. Len(dset.Z) /\ dset.t2 \in dset.t1 .. Len(dset.Z)
  BY CoreFacts, SoundFacts
<1>2. CurrentMask(dset) \subseteq 1 .. Len(Kept(dset))
  BY <1>1 DEF CurrentMask, InRange
<1>3. CallMask \subseteq 1 .. Len(Kept(dset))
  <2>1. InCall => Recorded(Base(dset), Len(Kept(dset)), Top)
    BY CoreFacts
  <2>2. InCall => Top.submask \subseteq 1 .. Size(Top) /\ Size(Top) \in 1 .. Len(Kept(dset))
    BY <2>1 DEF Recorded, Fits
  <2> QED
    BY <1>1, <2>2 DEF CallMask
<1>4. CallMask # {} => InCall /\ dset.submask # {} /\ dset.full # << >> /\ Top.added = 0
  <2>1. InCall => Follows(Top, dset.submask, Len(Kept(dset)))
    BY CoreFacts
  <2> QED
    BY <1>1, <2>1 DEF Follows, CallMask, Sound
<1> QED
  BY <1>1, <1>2, <1>3, <1>4
-----------------------------------------------------------------------------
(***************************************************************************)
(* Steps: the dataset and the records.                                     *)
(***************************************************************************)

\* The bounds of a call are those of rows in use, unless its sample was another.
LEMMA ExtremaFacts ==
  ASSUME Core
  PROVE  /\ \A a \in Extrema(dset) : a \in Nat /\ 1 <= a
         /\ ~InCall => Extrema(dset) = 1 .. Len(dset.Z)
         /\ InCall => /\ Top.t1 \in Nat /\ Top.t2 \in Nat /\ Top.added \in Nat
                      /\ 1 <= Top.t1 /\ Top.t1 <= Top.t2
                      /\ Top.submask = {} => Top.t2 + Top.added <= Len(Kept(dset))
<1>1. DOMAIN dset.Z = 1 .. Len(dset.Z)
  BY CoreFacts, SoundFacts
<1>2. InCall => /\ Top.t1 \in Nat /\ Top.t2 \in Nat /\ Top.added \in Nat
                /\ 1 <= Top.t1 /\ Top.t1 <= Top.t2
                /\ Top.submask = {} => Top.t2 + Top.added <= Len(Kept(dset))
  <2> SUFFICES ASSUME InCall
               PROVE  /\ Top.t1 \in Nat /\ Top.t2 \in Nat /\ Top.added \in Nat
                      /\ 1 <= Top.t1 /\ Top.t1 <= Top.t2
                      /\ Top.submask = {} => Top.t2 + Top.added <= Len(Kept(dset))
    OBVIOUS
  <2>1. /\ Top \in Frame /\ Recorded(Base(dset), Len(Kept(dset)), Top)
        /\ Size(Top) \in Nat /\ Follows(Top, dset.submask, Len(Kept(dset)))
    BY CoreFacts
  <2>2. Top.t1 \in Nat /\ Top.t2 \in Nat /\ Top.added \in Nat
    BY <2>1 DEF Frame
  <2>3. 1 <= Top.t1 /\ Top.t1 <= Top.t2 /\ (Top.submask = {} => Top.t2 <= Size(Top))
    BY <2>1 DEF Recorded, Fits
  <2>4. Len(Kept(dset)) = Size(Top) + Top.added
    BY <2>1 DEF Follows
  <2> QED
    BY <2>1, <2>2, <2>3, <2>4
<1>3. ~InCall => Extrema(dset) = 1 .. Len(dset.Z)
  BY <1>1 DEF Extrema
<1>4. \A a \in Extrema(dset) : a \in Nat /\ 1 <= a
  BY <1>2, <1>3 DEF Extrema
<1> QED
  BY <1>2, <1>3, <1>4

\* A step that leaves the observations alone.
SameBase == Base(dset') = Base(dset) /\ Len(Kept(dset')) = Len(Kept(dset))

\* The same mask is still followed by the same.
LEMMA SameMaskStep ==
  ASSUME Core, Sound(dset'), Base(dset') = Base(dset), Len(Kept(dset')) = Len(Kept(dset)),
         dset'.submask = dset.submask, HasY(dset'.Z) <=> HasY(dset.Z), UNCHANGED <<frames, ylev>>
  PROVE  Core' /\ SameBase
BY CoreFacts, CoreSame DEF SameBase

\* The rows of a subsample are in order as well.
LEMMA OrderedRows ==
  ASSUME NEW d, Sound(d)
  PROVE  Ordered(IdsOf(d.Z))
<1>1. CASE d.full = << >>
  BY <1>1 DEF Sound, Base, Kept
<1>2. CASE d.full # << >>
  <2> DEFINE m == d.submask
             k == Len(Kept(d))
  <2>1. /\ k \in Nat /\ m \subseteq 1 .. k /\ m # {} /\ Len(d.Z) = Cardinality(m)
        /\ DOMAIN d.Z = 1 .. Len(d.Z) /\ DOMAIN Base(d) = 1 .. k
        /\ \A t \in m : d.Z[Rank(m, t)].id = Base(d)[t]
        /\ \A t \in 1 .. k : Base(d)[t] \in Id
        /\ Ordered(Base(d))
    BY <1>2, SoundFacts DEF Sound, Copied, Kept
  <2> HIDE DEF m, k
  <2>2. /\ \A j \in 1 .. Len(d.Z) : At(m, j) \in m /\ Rank(m, At(m, j)) = j
        /\ \A s, t \in m : s < t => Rank(m, s) < Rank(m, t)
    BY <2>1, AtFacts, RankFacts
  <2>3. \A j \in 1 .. Len(d.Z) : d.Z[j].id = Base(d)[At(m, j)] /\ At(m, j) \in 1 .. k
    BY <2>1, <2>2
  <2>4. ASSUME NEW i \in 1 .. Len(d.Z), NEW j \in 1 .. Len(d.Z), i < j
        PROVE  d.Z[i].id < d.Z[j].id
    <3>1. At(m, i) \in m /\ At(m, j) \in m /\ At(m, i) \in Nat /\ At(m, j) \in Nat
          /\ Rank(m, At(m, i)) = i /\ Rank(m, At(m, j)) = j
      <4> \A t \in m : t \in Nat
        BY <2>1
      <4> QED
        BY <2>2
    <3>2. ~(At(m, j) < At(m, i)) /\ At(m, i) # At(m, j)
      BY <2>2, <2>4, <3>1
    <3>3. At(m, i) < At(m, j)
      BY <3>1, <3>2
    <3>4. Base(d)[At(m, i)] < Base(d)[At(m, j)]
      BY <2>1, <2>3, <3>3 DEF Ordered
    <3> QED
      BY <2>3, <3>4
  <2> QED
    BY <2>1, <2>4 DEF Ordered, IdsOf
<1> QED
  BY <1>1, <1>2

\* Part of the rows.
LEMMA PartSound ==
  ASSUME NEW d, Sound(d), NEW a \in 1 .. Len(d.Z), NEW b \in a .. Len(d.Z)
  PROVE  LET Z == SubSeq(d.Z, a, b)
         IN  /\ Z \in Seq(Row) /\ Z # << >> /\ Len(Z) = b - a + 1 /\ DOMAIN Z = 1 .. b - a + 1
             /\ \A t \in 1 .. b - a + 1 : Z[t] = d.Z[a + t - 1]
             /\ Ordered(IdsOf(Z)) /\ Having(Z, HasY(d.Z))
<1> DEFINE Z == SubSeq(d.Z, a, b)
<1>1. /\ d.Z \in Seq(Row) /\ Len(d.Z) \in Nat /\ DOMAIN d.Z = 1 .. Len(d.Z)
      /\ a \in Nat /\ b \in Nat /\ 1 <= a /\ a <= b /\ b <= Len(d.Z)
  BY SoundFacts
<1>2. \A i \in a .. b : d.Z[i] \in Row
  BY <1>1, ElementOfSeq
<1>3. /\ Z \in Seq(Row) /\ Len(Z) = b - a + 1
      /\ \A t \in 1 .. b - a + 1 : Z[t] = d.Z[a + t - 1]
  BY <1>1, <1>2, SubSeqProperties
<1> HIDE DEF Z
<1>4. DOMAIN Z = 1 .. b - a + 1 /\ Z # << >>
  BY <1>1, <1>3, LenProperties, EmptySeq
<1>5. \A t \in 1 .. b - a + 1 : a + t - 1 \in 1 .. Len(d.Z)
  BY <1>1
<1>6. Ordered(IdsOf(Z))
  <2>1. Ordered(IdsOf(d.Z))
    BY OrderedRows
  <2>2. \A s, t \in 1 .. b - a + 1 : s < t => Z[s].id < Z[t].id
    <3> TAKE s, t \in 1 .. b - a + 1
    <3>1. s < t => a + s - 1 < a + t - 1
      BY <1>1
    <3>2. \A i, j \in 1 .. Len(d.Z) : i < j => d.Z[i].id < d.Z[j].id
      BY <1>1, <2>1 DEF Ordered, IdsOf
    <3> QED
      BY <1>3, <1>5, <3>1, <3>2
  <2> QED
    BY <1>4, <2>2 DEF Ordered, IdsOf
<1>7. Having(Z, HasY(d.Z))
  BY <1>1, <1>3, <1>4, <1>5 DEF Having, Sound, Filled
<1> QED
  BY <1>3, <1>4, <1>6, <1>7 DEF Z

\* The sample made permanent, in the main script.
LEMMA PermanentSound ==
  ASSUME NEW d, Sound(d)
  PROVE  LET e == IF d.submask = {} THEN Whole(SubSeq(d.Z, d.t1, d.t2))
                  ELSE [d EXCEPT !.submask = {}, !.full = << >>]
         IN  Sound(e) /\ (HasY(e.Z) <=> HasY(d.Z))
<1>1. CASE d.submask = {}
  <2>1. d.t1 \in 1 .. Len(d.Z) /\ d.t2 \in d.t1 .. Len(d.Z)
    BY SoundFacts
  <2> DEFINE Z == SubSeq(d.Z, d.t1, d.t2)
  <2>2. Z \in Seq(Row) /\ Z # << >> /\ Ordered(IdsOf(Z)) /\ Having(Z, HasY(d.Z))
    BY <2>1, PartSound
  <2> HIDE DEF Z
  <2>3. Sound(Whole(Z)) /\ Whole(Z).Z = Z /\ (HasY(Z) <=> HasY(d.Z))
    BY <2>2, WholeSound
  <2> QED
    BY <1>1, <2>3 DEF Z
<1>2. CASE d.submask # {}
  <2> DEFINE e == [d EXCEPT !.submask = {}, !.full = << >>]
  <2>1. d \in Dataset /\ d.Z \in Seq(Row) /\ Len(d.Z) \in Nat
        /\ d.t1 \in 1 .. Len(d.Z) /\ d.t2 \in d.t1 .. Len(d.Z)
    BY SoundFacts DEF Sound
  <2>2. << >> \in Seq(Row)
    BY EmptySeq
  <2>3. /\ e \in Dataset /\ e.Z = d.Z /\ e.submask = {} /\ e.full = << >>
        /\ e.t1 = d.t1 /\ e.t2 = d.t2
    BY <2>1, <2>2 DEF Dataset
  <2> HIDE DEF e
  <2>4. Kept(e) = d.Z /\ Base(e) = IdsOf(d.Z)
    BY <2>3 DEF Kept, Base
  <2>5. Ordered(Base(e))
    BY <2>4, OrderedRows
  <2>6. Fits(e.submask, e.t1, e.t2, Len(Kept(e)))
    BY <2>1, <2>3, <2>4 DEF Fits
  <2>7. Filled(e)
    <3>1. Having(<< >>, FALSE)
      BY DEF Having
    <3> QED
      BY <2>3, <3>1 DEF Sound, Filled
  <2> QED
    BY <1>2, <2>3, <2>5, <2>6, <2>7 DEF Sound, e
<1> QED
  BY <1>1, <1>2

\* A sample made permanent in the main script leaves the invariant in place.
LEMMA PermanentStep ==
  ASSUME Core, ~InCall, NEW d, Sound(d), d.Z = dset.Z, Permanent(d)
  PROVE  Core'
<1>1. /\ dset' = IF d.submask = {} THEN Whole(SubSeq(d.Z, d.t1, d.t2))
                 ELSE [d EXCEPT !.submask = {}, !.full = << >>]
      /\ UNCHANGED <<frames, ylev>>
  BY DEF Permanent
<1>2. Sound(dset') /\ (HasY(dset'.Z) <=> HasY(dset.Z))
  BY <1>1, PermanentSound
<1> QED
  BY <1>1, <1>2, CoreIdle

\* The same for smpl --permanent alone.
LEMMA StepPerma == ASSUME Core, PermaSample PROVE Core'
  BY CoreFacts, PermanentStep DEF PermaSample

\* smpl with two bounds keeps to the rows in use.
LEMMA SetSampleFacts ==
  ASSUME Regular, Core, NEW a \in Id, NEW b \in Id, NEW permanent \in BOOLEAN,
         SetSample(a, b, permanent)
  PROVE  /\ a \in 1 .. Len(dset.Z) /\ b \in a .. Len(dset.Z)
         /\ a \in Extrema(dset) /\ b \in Extrema(dset)
<1>1. a \in Extrema(dset) /\ b \in Extrema(dset) /\ a <= b /\ b <= Len(dset.Z)
  <2>1. "stale" \notin Faults
    BY DEF Regular
  <2>2. {a, b} \subseteq Extrema(dset) /\ a <= b /\ ~(b > Len(dset.Z))
    BY <2>1 DEF SetSample
  <2>3. Len(dset.Z) \in Nat /\ b \in Nat
    BY CoreFacts, SoundFacts DEF Id
  <2> QED
    BY <2>2, <2>3
<1>2. a \in Nat /\ b \in Nat /\ 1 <= a /\ Len(dset.Z) \in Nat
  BY <1>1, ExtremaFacts, CoreFacts, SoundFacts
<1> QED
  BY <1>1, <1>2

\* smpl with two bounds keeps the invariant.
LEMMA StepSetSample ==
  ASSUME Regular, Core, NEW a \in Id, NEW b \in Id, NEW permanent \in BOOLEAN,
         SetSample(a, b, permanent)
  PROVE  Core'
<1> DEFINE d == Ranged(dset, a, b)
<1>1. /\ Sound(d) /\ Base(d) = Base(dset) /\ Kept(d) = Kept(dset)
      /\ d.Z = dset.Z /\ d.submask = dset.submask
  BY SetSampleFacts, CoreFacts, RangeSound
<1> HIDE DEF d
<1>2. IF permanent /\ ~InCall THEN Permanent(d)
      ELSE dset' = d /\ UNCHANGED <<frames, ylev, lastmod>>
  BY DEF SetSample, d, Ranged
<1>3. CASE permanent /\ ~InCall
  BY <1>1, <1>2, <1>3, PermanentStep
<1>4. CASE ~(permanent /\ ~InCall)
  BY <1>1, <1>2, <1>4, SameMaskStep
<1> QED
  BY <1>3, <1>4

\* smpl with one bound keeps the invariant, and to the rows in use.
LEMMA StepSetStart ==
  ASSUME Regular, Core, NEW a \in Id, SetStart(a)
  PROVE  Core' /\ SameBase /\ a \in 1 .. dset.t2 /\ a \in Extrema(dset)
<1>1. /\ a \in Extrema(dset) /\ a \in Nat /\ 1 <= a /\ ~(a > dset.t2)
      /\ dset' = [dset EXCEPT !.t1 = a] /\ UNCHANGED <<frames, ylev, lastmod>>
  BY ExtremaFacts DEF SetStart, Regular
<1>2. Sound(dset) /\ dset.t1 \in 1 .. Len(dset.Z) /\ dset.t2 \in dset.t1 .. Len(dset.Z) /\ Len(dset.Z) \in Nat
  BY CoreFacts, SoundFacts
<1>3. a \in 1 .. Len(dset.Z) /\ dset.t2 \in a .. Len(dset.Z)
  BY <1>1, <1>2
<1>4. dset' = Ranged(dset, a, dset.t2)
  <2>1. dset \in Dataset
    BY <1>2 DEF Sound
  <2> QED
    BY <1>1, <2>1 DEF Dataset, Ranged
<1>5. Sound(dset') /\ Base(dset') = Base(dset) /\ Kept(dset') = Kept(dset)
      /\ dset'.Z = dset.Z /\ dset'.submask = dset.submask
  BY <1>2, <1>3, <1>4, RangeSound
<1> QED
  BY <1>1, <1>2, <1>5, SameMaskStep

\* smpl full goes back to the mask of the call, or to its bounds.
LEMMA FullFacts ==
  ASSUME Regular, Core, Full
  PROVE  /\ CallMask # {} => dset' = FromMask(RestoreFull(dset), CallMask)
         /\ CallMask = {} => \E a \in 1 .. Len(Kept(dset)) : \E b \in a .. Len(Kept(dset)) :
              /\ dset' = Ranged(RestoreFull(dset), a, b)
              /\ InCall => a = Top.t1 /\ b = Top.t2 + Top.added
              /\ ~InCall => a = 1 /\ b = Len(Kept(dset))
         /\ UNCHANGED <<frames, ylev, lastmod>>
<1> DEFINE all == RestoreFull(dset)
           k == Len(Kept(dset))
<1>1. /\ dset' = IF dset.full # << >> /\ CallMask # {} THEN FromMask(all, CallMask)
                 ELSE [all EXCEPT !.t1 = Min(Extrema(all)), !.t2 = Max(Extrema(all))]
      /\ UNCHANGED <<frames, ylev, lastmod>>
  BY DEF Full
<1>2. CallMask # {} => dset.full # << >>
  BY MaskFacts
<1>3. /\ Sound(all) /\ all.Z = FullRows(dset) /\ k \in Nat /\ Len(FullRows(dset)) = k
      /\ DOMAIN FullRows(dset) = 1 .. k /\ all.t1 = 1 /\ all.t2 = k
      /\ all.t1 \in 1 .. Len(all.Z)
  BY CoreFacts, RestoreSound, SoundFacts, RowsFacts
<1> HIDE DEF all
<1>4. ASSUME CallMask = {}
      PROVE  \E a \in 1 .. k : \E b \in a .. k :
              /\ dset' = Ranged(all, a, b)
              /\ InCall => a = Top.t1 /\ b = Top.t2 + Top.added
              /\ ~InCall => a = 1 /\ b = k
  <2>1. dset' = Ranged(all, Min(Extrema(all)), Max(Extrema(all)))
    BY <1>1, <1>4 DEF Ranged
  <2>2. CASE InCall
    <3>1. /\ Top.t1 \in Nat /\ Top.t2 \in Nat /\ Top.added \in Nat
          /\ 1 <= Top.t1 /\ Top.t1 <= Top.t2 /\ Top.t2 + Top.added <= k
      BY <1>4, <2>2, ExtremaFacts DEF CallMask
    <3> DEFINE b == Top.t2 + Top.added
    <3>2. b \in Nat /\ Top.t1 <= b /\ b <= k
      BY <3>1
    <3>3. Extrema(all) = Top.t1 .. b
      BY <2>2 DEF Extrema
    <3> HIDE DEF b
    <3>4. Min(Extrema(all)) = Top.t1 /\ Max(Extrema(all)) = b
      BY <3>1, <3>2, <3>3, RangeEnds
    <3>5. Top.t1 \in 1 .. k /\ b \in Top.t1 .. k
      BY <1>3, <3>1, <3>2
    <3> QED
      BY <2>1, <2>2, <3>4, <3>5 DEF b
  <2>3. CASE ~InCall
    <3>1. Extrema(all) = 1 .. k
      BY <1>3, <2>3 DEF Extrema
    <3>2. 1 <= k
      BY <1>3
    <3>3. Min(Extrema(all)) = 1 /\ Max(Extrema(all)) = k
      BY <1>3, <3>1, <3>2, RangeEnds
    <3>4. 1 \in 1 .. k /\ k \in 1 .. k
      BY <1>3, <3>2
    <3> QED
      BY <2>1, <2>3, <3>3, <3>4
  <2> QED
    BY <2>2, <2>3
<1> QED
  BY <1>1, <1>2, <1>4 DEF all

\* The datasets that a restriction can lead to are sound, and about the same
\* observations.
LEMMA RestoredRange ==
  ASSUME Core, NEW a \in 1 .. Len(Kept(dset)), NEW b \in a .. Len(Kept(dset))
  PROVE  LET e == Ranged(RestoreFull(dset), a, b)
         IN  /\ Sound(e) /\ Base(e) = Base(dset) /\ Len(Kept(e)) = Len(Kept(dset))
             /\ e.submask = {} /\ e.t1 = a /\ e.t2 = b /\ (HasY(e.Z) <=> HasY(dset.Z))
<1> DEFINE all == RestoreFull(dset)
<1>1. /\ Sound(all) /\ Base(all) = Base(dset) /\ Len(Kept(all)) = Len(Kept(dset))
      /\ all.submask = {} /\ (HasY(all.Z) <=> HasY(dset.Z)) /\ Len(all.Z) = Len(Kept(dset))
  BY CoreFacts, RestoreSound, RowsFacts
<1> HIDE DEF all
<1>2. a \in 1 .. Len(all.Z) /\ b \in a .. Len(all.Z)
  BY <1>1
<1> QED
  BY <1>1, <1>2, RangeSound DEF all

\* The full dataset restored, then a mask of it.
LEMMA RestoredMask ==
  ASSUME Core, NEW mask, mask \subseteq 1 .. Len(Kept(dset)), mask # {}
  PROVE  LET e == FromMask(RestoreFull(dset), mask)
         IN  /\ Sound(e) /\ Base(e) = Base(dset) /\ Len(Kept(e)) = Len(Kept(dset))
             /\ e.submask = mask /\ e.t1 = 1 /\ e.t2 = Cardinality(mask)
             /\ (HasY(e.Z) <=> HasY(dset.Z))
<1> DEFINE all == RestoreFull(dset)
<1>1. /\ Sound(all) /\ Base(all) = Base(dset) /\ Len(Kept(all)) = Len(Kept(dset))
      /\ all.full = << >> /\ (HasY(all.Z) <=> HasY(dset.Z))
  BY CoreFacts, RestoreSound
<1> HIDE DEF all
<1> QED
  BY <1>1, MaskSound DEF all

\* A whole dataset follows a call without a mask.
LEMMA UnmaskedStep ==
  ASSUME Core, Sound(dset'), Base(dset') = Base(dset), Len(Kept(dset')) = Len(Kept(dset)),
         dset'.submask = {}, CallMask = {}, HasY(dset'.Z) <=> HasY(dset.Z), UNCHANGED <<frames, ylev>>
  PROVE  Core' /\ SameBase
<1>1. InCall => Follows(Top, dset'.submask, Len(Kept(dset)))
  BY CoreFacts, FollowsMask DEF CallMask
<1> QED
  BY <1>1, CoreFacts, CoreSame DEF SameBase

\* A subsample follows any call that has added nothing.
LEMMA MaskedStep ==
  ASSUME Core, Sound(dset'), Base(dset') = Base(dset), Len(Kept(dset')) = Len(Kept(dset)),
         InCall => dset'.submask # {} /\ Top.added = 0,
         HasY(dset'.Z) <=> HasY(dset.Z), UNCHANGED <<frames, ylev>>
  PROVE  Core' /\ SameBase
<1>1. InCall => Follows(Top, dset'.submask, Len(Kept(dset)))
  BY CoreFacts, FollowsMask
<1> QED
  BY <1>1, CoreFacts, CoreSame DEF SameBase

\* smpl full keeps the invariant and the observations.
LEMMA StepFull == ASSUME Regular, Core, Full PROVE Core' /\ SameBase
<1>1. CASE CallMask # {}
  <2>1. dset' = FromMask(RestoreFull(dset), CallMask) /\ UNCHANGED <<frames, ylev, lastmod>>
    BY <1>1, FullFacts
  <2>2. CallMask \subseteq 1 .. Len(Kept(dset)) /\ Top.added = 0
    BY <1>1, MaskFacts
  <2>3. /\ Sound(dset') /\ Base(dset') = Base(dset) /\ Len(Kept(dset')) = Len(Kept(dset))
        /\ dset'.submask = CallMask /\ (HasY(dset'.Z) <=> HasY(dset.Z))
    BY <1>1, <2>1, <2>2, RestoredMask
  <2> QED
    BY <1>1, <2>1, <2>2, <2>3, MaskedStep
<1>2. CASE CallMask = {}
  <2>1. PICK a \in 1 .. Len(Kept(dset)) : \E b \in a .. Len(Kept(dset)) :
              /\ dset' = Ranged(RestoreFull(dset), a, b)
              /\ UNCHANGED <<frames, ylev, lastmod>>
    BY <1>2, FullFacts
  <2>2. PICK b \in a .. Len(Kept(dset)) :
              /\ dset' = Ranged(RestoreFull(dset), a, b)
              /\ UNCHANGED <<frames, ylev, lastmod>>
    BY <2>1
  <2>3. /\ Sound(dset') /\ Base(dset') = Base(dset) /\ Len(Kept(dset')) = Len(Kept(dset))
        /\ dset'.submask = {} /\ (HasY(dset'.Z) <=> HasY(dset.Z))
    BY <2>2, RestoredRange
  <2> QED
    BY <1>2, <2>2, <2>3, UnmaskedStep
<1> QED
  BY <1>1, <1>2

-----------------------------------------------------------------------------
(***************************************************************************)
(* Restrictions.                                                           *)
(***************************************************************************)

\* The new mask is one of the full dataset.
LEMMA NewMaskFacts ==
  ASSUME Core, NEW mode, NEW cond, NEW replace, CanRestrict(mode, cond, replace)
  PROVE  LET mask == NewMask(mode, cond, replace)
         IN  mask # {} /\ mask \subseteq 1 .. Len(Kept(dset))
<1>1. OldMask(replace) \subseteq 1 .. Len(Kept(dset))
  BY MaskFacts DEF OldMask
<1>2. NewMask(mode, cond, replace) # {}
  BY DEF CanRestrict
<1>3. /\ dset.full = << >> => DOMAIN dset.Z = 1 .. Len(Kept(dset))
      /\ DOMAIN FullRows(dset) = 1 .. Len(Kept(dset))
  BY CoreFacts, SoundFacts, RowsFacts DEF Kept
<1>4. CASE Precompute(mode, replace)
  <2>1. cond \subseteq DOMAIN dset.Z
    BY <1>4 DEF CanRestrict
  <2>2. Expand(dset, cond, OldMask(replace)) \subseteq 1 .. Len(Kept(dset))
    BY <1>1, <1>3, <2>1 DEF Expand
  <2> QED
    BY <1>2, <1>4, <2>2 DEF NewMask
<1>5. CASE ~Precompute(mode, replace)
  <2>1. cond \subseteq DOMAIN FullRows(dset)
    BY <1>5 DEF CanRestrict
  <2> QED
    BY <1>2, <1>3, <1>5, <2>1 DEF NewMask
<1> QED
  BY <1>4, <1>5

\* The three outcomes of a restriction.
LEMMA RestrictedFacts ==
  ASSUME Core, NEW mode, NEW cond, NEW replace, CanRestrict(mode, cond, replace)
  PROVE  LET mask == NewMask(mode, cond, replace)
             e == Restricted(mode, cond, replace)
         IN  /\ mask # {} /\ mask \subseteq 1 .. Len(Kept(dset))
             /\ Min(mask) \in 1 .. Len(Kept(dset)) /\ Max(mask) \in Min(mask) .. Len(Kept(dset))
             /\ Sound(e) /\ Base(e) = Base(dset) /\ Len(Kept(e)) = Len(Kept(dset))
             /\ (HasY(e.Z) <=> HasY(dset.Z))
             /\ Nothing(mode, cond, replace) =>
                  e.submask = {} /\ e.t1 = 1 /\ e.t2 = Len(Kept(dset)) /\ mask = 1 .. Len(Kept(dset))
             /\ ~Nothing(mode, cond, replace) /\ Shortcut(mode, cond, replace) =>
                  e.submask = {} /\ e.t1 = Min(mask) /\ e.t2 = Max(mask) /\ mask = Min(mask) .. Max(mask)
             /\ ~Nothing(mode, cond, replace) /\ ~Shortcut(mode, cond, replace) =>
                  e.submask = mask /\ e.t1 = 1 /\ e.t2 = Cardinality(mask)
<1> DEFINE mask == NewMask(mode, cond, replace)
           e == Restricted(mode, cond, replace)
           k == Len(Kept(dset))
<1>1. mask # {} /\ mask \subseteq 1 .. k /\ k \in Nat
  BY NewMaskFacts, MaskFacts
<1>2. Min(mask) \in 1 .. k /\ Max(mask) \in Min(mask) .. k
  BY <1>1, EndsFacts
<1>3. e = IF Nothing(mode, cond, replace) THEN RestoreFull(dset)
          ELSE IF Shortcut(mode, cond, replace) THEN Ranged(RestoreFull(dset), Min(mask), Max(mask))
          ELSE FromMask(RestoreFull(dset), mask)
  BY DEF Restricted, Ranged
<1>4. Nothing(mode, cond, replace) => mask = 1 .. k
  <2>1. DOMAIN FullRows(dset) = 1 .. k
    BY CoreFacts, RowsFacts
  <2> QED
    BY <2>1 DEF Nothing
<1>5. Shortcut(mode, cond, replace) => mask = Min(mask) .. Max(mask)
  BY DEF Shortcut, Contiguous
<1> HIDE DEF mask, e
<1>6. CASE Nothing(mode, cond, replace)
  <2>1. LET x == RestoreFull(dset)
        IN  /\ Sound(x) /\ Base(x) = Base(dset) /\ Len(Kept(x)) = k
            /\ x.submask = {} /\ x.t1 = 1 /\ x.t2 = k /\ (HasY(x.Z) <=> HasY(dset.Z))
    BY CoreFacts, RestoreSound
  <2> QED
    BY <1>1, <1>2, <1>3, <1>4, <1>6, <2>1 DEF mask, e
<1>7. CASE ~Nothing(mode, cond, replace) /\ Shortcut(mode, cond, replace)
  <2>1. LET x == Ranged(RestoreFull(dset), Min(mask), Max(mask))
        IN  /\ Sound(x) /\ Base(x) = Base(dset) /\ Len(Kept(x)) = k
            /\ x.submask = {} /\ x.t1 = Min(mask) /\ x.t2 = Max(mask) /\ (HasY(x.Z) <=> HasY(dset.Z))
    BY <1>2, RestoredRange
  <2> QED
    BY <1>1, <1>2, <1>3, <1>5, <1>7, <2>1 DEF mask, e
<1>8. CASE ~Nothing(mode, cond, replace) /\ ~Shortcut(mode, cond, replace)
  <2>1. LET x == FromMask(RestoreFull(dset), mask)
        IN  /\ Sound(x) /\ Base(x) = Base(dset) /\ Len(Kept(x)) = k
            /\ x.submask = mask /\ x.t1 = 1 /\ x.t2 = Cardinality(mask) /\ (HasY(x.Z) <=> HasY(dset.Z))
    BY <1>1, RestoredMask
  <2> QED
    BY <1>1, <1>2, <1>3, <1>8, <2>1 DEF mask, e
<1> QED
  BY <1>6, <1>7, <1>8

\* A restriction keeps the invariant and the observations.
LEMMA StepRestrict ==
  ASSUME Regular, Core, NEW mode, NEW cond, NEW replace, RestrictSample(mode, cond, replace)
  PROVE  Core' /\ SameBase
<1>1. /\ CanRestrict(mode, cond, replace) /\ Admitted(mode, cond, replace)
      /\ dset' = Restricted(mode, cond, replace) /\ UNCHANGED <<frames, ylev, lastmod>>
  BY DEF RestrictSample
<1>2. /\ CallMask # {} => ~Nothing(mode, cond, replace) /\ ~Shortcut(mode, cond, replace)
      /\ InCall /\ Top.added > 0 => Shortcut(mode, cond, replace)
  BY <1>1 DEF Admitted, Regular
<1>3. CASE Nothing(mode, cond, replace) \/ Shortcut(mode, cond, replace)
  <2>1. /\ Sound(dset') /\ Base(dset') = Base(dset) /\ Len(Kept(dset')) = Len(Kept(dset))
        /\ dset'.submask = {} /\ (HasY(dset'.Z) <=> HasY(dset.Z))
    BY <1>1, <1>3, RestrictedFacts
  <2> QED
    BY <1>1, <1>2, <1>3, <2>1, UnmaskedStep
<1>4. CASE ~Nothing(mode, cond, replace) /\ ~Shortcut(mode, cond, replace)
  <2>1. /\ Sound(dset') /\ Base(dset') = Base(dset) /\ Len(Kept(dset')) = Len(Kept(dset))
        /\ dset'.submask # {} /\ (HasY(dset'.Z) <=> HasY(dset.Z))
    BY <1>1, <1>4, RestrictedFacts
  <2>2. InCall => Top.added = 0
    <3>1. InCall => Top.added \in Nat
      BY ExtremaFacts
    <3> QED
      BY <1>2, <1>4, <3>1
  <2> QED
    BY <1>1, <2>1, <2>2, MaskedStep
<1> QED
  BY <1>3, <1>4

\* A permanent restriction, in the main script, keeps the invariant.
LEMMA StepRestrictPermanently ==
  ASSUME Core, NEW mode, NEW cond, NEW replace, RestrictPermanently(mode, cond, replace)
  PROVE  Core'
<1> DEFINE mask == NewMask(mode, cond, replace)
           all == RestoreFull(dset)
<1>1. /\ ~InCall /\ CanRestrict(mode, cond, replace) /\ UNCHANGED <<frames, ylev>>
      /\ dset' = all \/ dset' = Whole(Copy(all.Z, mask))
  BY DEF RestrictPermanently
<1>2. Sound(all) /\ (HasY(all.Z) <=> HasY(dset.Z))
  BY CoreFacts, RestoreSound
<1>3. CASE dset' = all
  BY <1>1, <1>2, <1>3, CoreIdle
<1>4. CASE dset' = Whole(Copy(all.Z, mask))
  <2> DEFINE e == FromMask(all, mask)
  <2>1. /\ Sound(e) /\ e.Z = Copy(all.Z, mask) /\ (HasY(e.Z) <=> HasY(dset.Z))
    <3>1. mask # {} /\ mask \subseteq 1 .. Len(Kept(dset))
      BY <1>1, NewMaskFacts
    <3>2. Len(Kept(all)) = Len(Kept(dset)) /\ all.full = << >>
      BY CoreFacts, RestoreSound
    <3> HIDE DEF mask, all
    <3> QED
      BY <1>2, <3>1, <3>2, MaskSound
  <2> HIDE DEF e
  <2>2. /\ e.Z \in Seq(Row) /\ Ordered(IdsOf(e.Z)) /\ Having(e.Z, HasY(e.Z)) /\ e.Z # << >>
    <3>1. e.Z \in Seq(Row) /\ e.t1 \in 1 .. Len(e.Z)
      BY <2>1, SoundFacts
    <3>2. e.Z # << >>
      BY <3>1, EmptySeq
    <3>3. Ordered(IdsOf(e.Z)) /\ Having(e.Z, HasY(e.Z))
      BY <2>1, OrderedRows DEF Sound, Filled
    <3> QED
      BY <3>1, <3>2, <3>3
  <2>3. Sound(Whole(e.Z)) /\ Whole(e.Z).Z = e.Z
    BY <2>2, WholeSound
  <2>4. Sound(dset') /\ (HasY(dset'.Z) <=> HasY(dset.Z))
    BY <1>4, <2>1, <2>3
  <2> QED
    BY <1>1, <2>4, CoreIdle
<1> QED
  BY <1>1, <1>3, <1>4

\* A restriction that fails has restored all of the rows.
LEMMA StepRestrictFails == ASSUME Regular, Core, RestrictFails PROVE Core' /\ SameBase /\ CallMask = {}
<1>1. CallMask = {} /\ dset' = RestoreFull(dset) /\ UNCHANGED <<frames, ylev, lastmod>>
  BY DEF RestrictFails, Regular
<1>2. /\ Sound(dset') /\ Base(dset') = Base(dset) /\ Len(Kept(dset')) = Len(Kept(dset))
      /\ dset'.submask = {} /\ (HasY(dset'.Z) <=> HasY(dset.Z))
  BY <1>1, CoreFacts, RestoreSound
<1> QED
  BY <1>1, <1>2, UnmaskedStep
-----------------------------------------------------------------------------
(***************************************************************************)
(* Steps: values, observations, calls.                                     *)
(***************************************************************************)

\* Rows with other values, none of them missing the series.
Assigned(d, Y) == [d EXCEPT !.Z = Y]

\* Values assigned to the rows in use leave the dataset sound.
LEMMA AssignedSound ==
  ASSUME NEW d, Sound(d), NEW Y \in Seq(Row), Revalued(d.Z, Y), Having(Y, TRUE)
  PROVE  LET e == Assigned(d, Y)
         IN  /\ Sound(e) /\ Base(e) = Base(d) /\ Len(Kept(e)) = Len(Kept(d))
             /\ e.submask = d.submask /\ e.t1 = d.t1 /\ e.t2 = d.t2 /\ HasY(e.Z)
<1> DEFINE e == Assigned(d, Y)
<1>1. d \in Dataset /\ d.full \in Seq(Row) /\ 1 \in DOMAIN d.Z
  BY SoundFacts DEF Sound
<1>2. /\ e \in Dataset /\ e.Z = Y /\ e.full = d.full /\ e.submask = d.submask
      /\ e.t1 = d.t1 /\ e.t2 = d.t2
  BY <1>1 DEF Dataset, Assigned
<1> HIDE DEF e
<1>3. Revalued(d.full, e.full)
  BY <1>1, <1>2 DEF Revalued
<1>4. HasY(e.Z)
  BY <1>1, <1>2 DEF Having, HasY, Revalued
<1>5. Filled(e)
  BY <1>2, <1>4 DEF Filled, Having
<1> QED
  BY <1>2, <1>3, <1>4, <1>5, ValuesSound DEF e

\* An assignment changes neither the observations nor the sample.
LEMMA StepGenr ==
  ASSUME Core, Genr
  PROVE  /\ Core' /\ Base(dset') = Base(dset) /\ Len(Kept(dset')) = Len(Kept(dset))
         /\ dset'.submask = dset.submask /\ dset'.t1 = dset.t1 /\ dset'.t2 = dset.t2
         /\ UNCHANGED <<frames, lastmod>>
<1> DEFINE Y == [t \in DOMAIN dset.Z |->
                   IF t \in InRange(dset) THEN [dset.Z[t] EXCEPT !.y = 1] ELSE dset.Z[t]]
<1>1. HasY(dset.Z) /\ dset' = Assigned(dset, Y) /\ UNCHANGED <<frames, ylev, lastmod>>
  BY DEF Genr, Assigned
<1>2. /\ Sound(dset) /\ dset.Z \in Seq(Row) /\ Len(dset.Z) \in Nat
      /\ DOMAIN dset.Z = 1 .. Len(dset.Z)
  BY CoreFacts, SoundFacts
<1>3. ASSUME NEW t \in 1 .. Len(dset.Z)
      PROVE  Y[t] \in Row /\ Y[t].id = dset.Z[t].id /\ Y[t].y # NoSeries
  <2> DEFINE r == dset.Z[t]
  <2>1. r \in Row
    BY <1>2, ElementOfSeq
  <2>2. Y[t] = IF t \in InRange(dset) THEN [r EXCEPT !.y = 1] ELSE r
    BY <1>2
  <2>3. r.y # NoSeries
    BY <1>1, <1>2 DEF Sound, Filled, Having
  <2> HIDE DEF r, Y
  <2>4. [r EXCEPT !.y = 1] \in Row /\ [r EXCEPT !.y = 1].id = r.id /\ [r EXCEPT !.y = 1].y = 1
    BY <2>1 DEF Row
  <2> QED
    BY <2>1, <2>2, <2>3, <2>4, SubsampleAssumption DEF r
<1>4. Y \in [1 .. Len(dset.Z) -> Row]
  BY <1>2, <1>3
<1>5. Y \in Seq(Row) /\ DOMAIN Y = 1 .. Len(dset.Z)
  BY <1>2, <1>4, SeqFcn
<1> HIDE DEF Y
<1>6. Revalued(dset.Z, Y) /\ Having(Y, TRUE)
  BY <1>2, <1>3, <1>5 DEF Revalued, Having
<1>7. /\ Sound(dset') /\ Base(dset') = Base(dset) /\ Len(Kept(dset')) = Len(Kept(dset))
      /\ dset'.submask = dset.submask /\ dset'.t1 = dset.t1 /\ dset'.t2 = dset.t2 /\ HasY(dset'.Z)
  BY <1>1, <1>2, <1>5, <1>6, AssignedSound
<1> QED
  BY <1>1, <1>7, SameMaskStep

\* A new series changes neither the observations nor the sample.
LEMMA StepAddSeries ==
  ASSUME Core, AddSeries
  PROVE  /\ Core' /\ Base(dset') = Base(dset) /\ Len(Kept(dset')) = Len(Kept(dset))
         /\ dset'.submask = dset.submask /\ dset'.t1 = dset.t1 /\ dset'.t2 = dset.t2
         /\ UNCHANGED <<frames, lastmod>>
<1> DEFINE Y == [t \in DOMAIN dset.Z |->
                   [dset.Z[t] EXCEPT !.y = IF t \in InRange(dset) THEN 1 ELSE NA]]
<1>1. dset' = Assigned(dset, Y) /\ ylev' = Len(frames) /\ UNCHANGED <<frames, lastmod>>
  BY DEF AddSeries, Assigned
<1>2. /\ Sound(dset) /\ dset.Z \in Seq(Row) /\ Len(dset.Z) \in Nat
      /\ DOMAIN dset.Z = 1 .. Len(dset.Z)
  BY CoreFacts, SoundFacts
<1>3. ASSUME NEW t \in 1 .. Len(dset.Z)
      PROVE  Y[t] \in Row /\ Y[t].id = dset.Z[t].id /\ Y[t].y # NoSeries
  <2> DEFINE r == dset.Z[t]
             v == IF t \in InRange(dset) THEN 1 ELSE NA
  <2>1. r \in Row /\ v \in {1, NA}
    BY <1>2, ElementOfSeq
  <2>2. Y[t] = [r EXCEPT !.y = v]
    BY <1>2
  <2> HIDE DEF r, Y, v
  <2> QED
    <3>1. Y[t] \in Row /\ Y[t].id = r.id /\ Y[t].y = v
      BY <2>1, <2>2 DEF Row
    <3> QED
      BY <2>1, <3>1, SubsampleAssumption DEF r
<1>4. Y \in [1 .. Len(dset.Z) -> Row]
  BY <1>2, <1>3
<1>5. Y \in Seq(Row) /\ DOMAIN Y = 1 .. Len(dset.Z)
  BY <1>2, <1>4, SeqFcn
<1> HIDE DEF Y
<1>6. Revalued(dset.Z, Y) /\ Having(Y, TRUE)
  BY <1>2, <1>3, <1>5 DEF Revalued, Having
<1>7. /\ Sound(dset') /\ Base(dset') = Base(dset) /\ Len(Kept(dset')) = Len(Kept(dset))
      /\ dset'.submask = dset.submask /\ dset'.t1 = dset.t1 /\ dset'.t2 = dset.t2 /\ HasY(dset'.Z)
  BY <1>1, <1>2, <1>5, <1>6, AssignedSound
<1>8. ylev' \in 0 .. Len(frames) /\ (InCall => Follows(Top, dset'.submask, Len(Kept(dset))))
  BY <1>1, <1>7, CoreFacts
<1> QED
  BY <1>1, <1>7, <1>8, CoreSame

\* The same rows without the series.
LEMMA WithoutFacts ==
  ASSUME NEW Z \in Seq(Row)
  PROVE  WithoutY(Z) \in Seq(Row) /\ Revalued(Z, WithoutY(Z)) /\ Having(WithoutY(Z), FALSE)
<1>1. Len(Z) \in Nat /\ DOMAIN Z = 1 .. Len(Z)
  BY LenProperties
<1>2. ASSUME NEW t \in 1 .. Len(Z)
      PROVE  WithoutY(Z)[t] \in Row /\ WithoutY(Z)[t].id = Z[t].id /\ WithoutY(Z)[t].y = NoSeries
  <2> DEFINE r == Z[t]
  <2>1. r \in Row
    BY ElementOfSeq
  <2>2. WithoutY(Z)[t] = [r EXCEPT !.y = NoSeries]
    BY <1>1 DEF WithoutY
  <2> HIDE DEF r
  <2>3. WithoutY(Z)[t] \in Row /\ WithoutY(Z)[t].id = r.id /\ WithoutY(Z)[t].y = NoSeries
    BY <2>1, <2>2 DEF Row
  <2> QED
    BY <2>3 DEF r
<1>3. WithoutY(Z) \in [1 .. Len(Z) -> Row]
  BY <1>1, <1>2 DEF WithoutY
<1>4. WithoutY(Z) \in Seq(Row) /\ DOMAIN WithoutY(Z) = 1 .. Len(Z)
  BY <1>1, <1>3, SeqFcn
<1> QED
  BY <1>1, <1>2, <1>4 DEF Revalued, Having

\* A dataset without the series is sound, with the same observations and sample.
LEMMA NoYFacts ==
  ASSUME NEW d, Sound(d)
  PROVE  LET e == NoY(d)
         IN  /\ Sound(e) /\ Base(e) = Base(d) /\ Len(Kept(e)) = Len(Kept(d))
             /\ e.submask = d.submask /\ e.t1 = d.t1 /\ e.t2 = d.t2
<1> DEFINE e == NoY(d)
<1>1. d \in Dataset /\ d.Z \in Seq(Row) /\ d.full \in Seq(Row) /\ 1 \in DOMAIN d.Z
  BY SoundFacts DEF Sound
<1>2. /\ e.Z = WithoutY(d.Z) /\ e.full = WithoutY(d.full) /\ e.submask = d.submask
      /\ e.t1 = d.t1 /\ e.t2 = d.t2 /\ e \in Dataset
  BY <1>1, WithoutFacts DEF NoY, Dataset
<1> HIDE DEF e
<1>3. /\ Revalued(d.Z, e.Z) /\ Revalued(d.full, e.full)
      /\ Having(e.Z, FALSE) /\ Having(e.full, FALSE)
  BY <1>1, <1>2, WithoutFacts
<1>4. ~HasY(e.Z)
  BY <1>1, <1>3 DEF Having, HasY, Revalued
<1>5. Filled(e)
  BY <1>3, <1>4 DEF Filled, Having
<1> QED
  BY <1>2, <1>3, <1>5, ValuesSound DEF e

\* The end of a series changes neither the observations nor the sample.
LEMMA StepDropSeries ==
  ASSUME Core, DropSeries
  PROVE  /\ Core' /\ Base(dset') = Base(dset) /\ Len(Kept(dset')) = Len(Kept(dset))
         /\ dset'.submask = dset.submask /\ dset'.t1 = dset.t1 /\ dset'.t2 = dset.t2
         /\ UNCHANGED <<frames, lastmod>>
<1>1. dset' = NoY(dset) /\ ylev' = 0 /\ UNCHANGED <<frames, lastmod>>
  BY DEF DropSeries
<1>2. /\ Sound(dset') /\ Base(dset') = Base(dset) /\ Len(Kept(dset')) = Len(Kept(dset))
      /\ dset'.submask = dset.submask /\ dset'.t1 = dset.t1 /\ dset'.t2 = dset.t2
  BY <1>1, CoreFacts, NoYFacts
<1>3. ylev' \in 0 .. Len(frames) /\ ~(ylev' > 0)
      /\ (InCall => Follows(Top, dset'.submask, Len(Kept(dset))))
  BY <1>1, <1>2, CoreFacts
<1> QED
  BY <1>1, <1>2, <1>3, CoreSame

\* All of the observations, and those in use.
LEMMA ObsFacts ==
  ASSUME NEW d, Sound(d)
  PROVE  /\ Ids(FullRows(d), DOMAIN FullRows(d)) = Firsts(Base(d), Len(Kept(d)))
         /\ Firsts(Base(d), Len(Kept(d))) \subseteq Id /\ SelOf(d) \subseteq Id
<1> DEFINE f == NewFrame(d)
           k == Len(Kept(d))
<1>1. f.obs = Firsts(Base(d), k) /\ f.obs = Ids(FullRows(d), DOMAIN FullRows(d))
  BY NewFrameFacts DEF Recorded, NewFrame
<1>2. k \in Nat /\ Fits(d.submask, d.t1, d.t2, k) /\ \A t \in 1 .. k : Base(d)[t] \in Id
  BY SoundFacts DEF Sound
<1>3. Firsts(Base(d), k) \subseteq Id
  BY <1>2 DEF Firsts
<1>4. SelOf(d) = Picked(Base(d), d.submask, d.t1, d.t2) /\ Where(d.submask, d.t1, d.t2) \subseteq 1 .. k
  BY <1>2, SelFacts, WhereFacts
<1>5. SelOf(d) \subseteq Id
  BY <1>2, <1>4 DEF Picked
<1> QED
  BY <1>1, <1>3, <1>5

\* The identity of a new observation is above all that are known.
LEMMA KnownFacts ==
  ASSUME Core, lastmod \in Model
  PROVE  /\ Known \subseteq Id /\ Known # {} /\ Max(Known) \in Id
         /\ \A t \in 1 .. Len(Kept(dset)) : Base(dset)[t] <= Max(Known)
<1> DEFINE k == Len(Kept(dset))
<1>1. Obs = Firsts(Base(dset), k) /\ Obs \subseteq Id
  BY CoreFacts, ObsFacts DEF Obs
<1>2. \A i \in DOMAIN frames : frames[i].obs \subseteq Id
  <2> TAKE i \in DOMAIN frames
  <2>1. Recorded(Base(dset), k, frames[i])
    BY CoreFacts DEF Linked, Chain
  <2>2. frames[i].obs \subseteq Firsts(Base(dset), k)
    <3>1. frames[i].obs = Firsts(Base(dset), Size(frames[i])) /\ Size(frames[i]) \in 1 .. k
      BY <2>1 DEF Recorded
    <3>2. k \in Nat /\ 1 .. Size(frames[i]) \subseteq 1 .. k
      BY <3>1, CoreFacts, SoundFacts
    <3> QED
      BY <3>1, <3>2 DEF Firsts
  <2> QED
    BY <1>1, <2>2
<1>3. lastmod.ids \subseteq Id
  BY DEF Model
<1>4. Known \subseteq Id
  BY <1>1, <1>2, <1>3 DEF Known
<1>5. \A t \in 1 .. k : Base(dset)[t] \in Known
  BY <1>1 DEF Firsts, Known
<1>6. 1 \in 1 .. k
  <2>1. /\ k \in Nat /\ dset.submask \subseteq 1 .. k
        /\ dset.t1 \in 1 .. Len(dset.Z)
        /\ Len(dset.Z) = IF dset.submask = {} THEN k ELSE Cardinality(dset.submask)
    BY CoreFacts, SoundFacts
  <2>2. dset.submask # {} => Cardinality(dset.submask) \in 1 .. k
    BY <2>1, RankFacts
  <2> QED
    BY <2>1, <2>2
<1>7. Known # {}
  BY <1>5, <1>6
<1>8. MaxObs \in Nat
  BY SubsampleAssumption
<1>9. Max(Known) \in Id /\ \A o \in Known : o <= Max(Known)
  BY <1>4, <1>7, <1>8, EndsFacts DEF Id
<1> QED
  BY <1>4, <1>5, <1>7, <1>9

\* One more row at the end.
Longer(d, r, b) == [d EXCEPT !.Z = Append(@, r), !.t2 = b]

\* A dataset with one more observation is sound.
LEMMA LongerSound ==
  ASSUME NEW d, Sound(d), d.full = << >>, NEW r \in Row,
         \A t \in 1 .. Len(d.Z) : Base(d)[t] < r.id,
         HasY(d.Z) <=> r.y # NoSeries, NEW b \in d.t2 .. Len(d.Z) + 1
  PROVE  LET e == Longer(d, r, b)
         IN  /\ Sound(e) /\ Len(Kept(e)) = Len(Kept(d)) + 1
             /\ Agree(Base(d), Base(e), Len(Kept(d)))
             /\ Base(e)[Len(Kept(d)) + 1] = r.id
             /\ e.submask = {} /\ e.t1 = d.t1 /\ e.t2 = b /\ (HasY(e.Z) <=> HasY(d.Z))
<1> DEFINE e == Longer(d, r, b)
           n == Len(d.Z)
           Z == Append(d.Z, r)
<1>1. /\ d \in Dataset /\ d.Z \in Seq(Row) /\ n \in Nat /\ DOMAIN d.Z = 1 .. n /\ Kept(d) = d.Z
      /\ d.submask = {} /\ d.t1 \in 1 .. n /\ d.t2 \in d.t1 .. n
      /\ \A t \in 1 .. n : Base(d)[t] = d.Z[t].id
      /\ b \in Nat
  BY SoundFacts DEF Sound, Kept
<1>2. /\ Z \in Seq(Row) /\ Len(Z) = n + 1 /\ DOMAIN Z = 1 .. n + 1
      /\ (\A t \in 1 .. n : Z[t] = d.Z[t]) /\ Z[n + 1] = r
  BY <1>1, AppendProperties, LenProperties
<1>3. /\ e.Z = Z /\ e.submask = {} /\ e.full = << >> /\ e.t1 = d.t1 /\ e.t2 = b
      /\ e \in Dataset
  BY <1>1, <1>2 DEF Longer, Dataset
<1>4. e = Ranged(Whole(Z), d.t1, b)
  <2> DEFINE w == Whole(Z)
  <2>1. w = [Z |-> Z, submask |-> {}, t1 |-> 1, t2 |-> Len(Z), full |-> << >>]
    BY DEF Whole
  <2>2. e \in Dataset
    BY <1>3
  <2>3. Ranged(w, d.t1, b) = [Z |-> Z, submask |-> {}, t1 |-> d.t1, t2 |-> b, full |-> << >>]
    <3> DEFINE u == d.t1
               m == Len(Z)
    <3>1. Ranged(w, u, b) = [w EXCEPT !.t1 = u, !.t2 = b]
      BY DEF Ranged
    <3>2. w = [Z |-> Z, submask |-> {}, t1 |-> 1, t2 |-> m, full |-> << >>]
      BY <2>1
    <3> HIDE DEF w, Z, u, m
    <3>3. Ranged(w, u, b) = [Z |-> Z, submask |-> {}, t1 |-> u, t2 |-> b, full |-> << >>]
      BY <3>1, <3>2
    <3> QED
      BY <3>3 DEF u
  <2>4. e = [Z |-> Z, submask |-> {}, t1 |-> d.t1, t2 |-> b, full |-> << >>]
    <3> HIDE DEF e, w, Z
    <3> QED
      BY <1>3, <2>2 DEF Dataset
  <2> QED
    BY <2>3, <2>4
<1> HIDE DEF e, Z, n
<1>5. Having(Z, HasY(d.Z))
  <2>1. \A t \in 1 .. n : HasY(d.Z) <=> d.Z[t].y # NoSeries
    BY <1>1 DEF Sound, Filled, Having
  <2>2. \A t \in 1 .. n + 1 : t \in 1 .. n \/ t = n + 1
    BY <1>1
  <2> QED
    BY <1>2, <2>1, <2>2 DEF Having
<1>6. Ordered(IdsOf(Z))
  <2>1. \A s, t \in 1 .. n + 1 : s < t => Z[s].id < Z[t].id
    <3> TAKE s, t \in 1 .. n + 1
    <3> SUFFICES ASSUME s < t PROVE Z[s].id < Z[t].id
      OBVIOUS
    <3>1. s \in 1 .. n /\ Z[s].id = Base(d)[s]
      BY <1>1, <1>2
    <3>2. CASE t = n + 1
      BY <1>2, <3>1, <3>2 DEF n
    <3>3. CASE t # n + 1
      <4>1. t \in 1 .. n /\ Z[t].id = Base(d)[t]
        BY <1>1, <1>2, <3>3
      <4>2. Ordered(Base(d)) /\ DOMAIN Base(d) = 1 .. n
        BY <1>1, SoundFacts DEF Sound, n
      <4> QED
        BY <3>1, <4>1, <4>2 DEF Ordered
    <3> QED
      BY <3>2, <3>3
  <2> QED
    BY <1>2, <2>1 DEF Ordered, IdsOf
<1>7. Z # << >>
  BY <1>1, <1>2, EmptySeq
<1>8. /\ Sound(Whole(Z)) /\ Base(Whole(Z)) = IdsOf(Z) /\ Kept(Whole(Z)) = Z /\ Whole(Z).Z = Z
      /\ Whole(Z).submask = {} /\ (HasY(Z) <=> HasY(d.Z))
  BY <1>2, <1>5, <1>6, <1>7, WholeSound
<1>9. d.t1 \in 1 .. Len(Whole(Z).Z) /\ b \in d.t1 .. Len(Whole(Z).Z)
  BY <1>1, <1>2, <1>8 DEF n
<1>10. /\ Sound(e) /\ Base(e) = IdsOf(Z) /\ Kept(e) = Z
  BY <1>4, <1>8, <1>9, RangeSound
<1>11. Agree(Base(d), Base(e), n) /\ Base(e)[n + 1] = r.id
  <2>1. n + 1 \in 1 .. n + 1 /\ \A t \in 1 .. n : t \in 1 .. n + 1
    BY <1>1
  <2>2. \A t \in 1 .. n + 1 : Base(e)[t] = Z[t].id
    BY <1>2, <1>10 DEF IdsOf
  <2>3. \A t \in 1 .. n : Base(d)[t] = Base(e)[t]
    BY <1>1, <1>2, <2>1, <2>2
  <2> QED
    BY <1>2, <2>1, <2>2, <2>3 DEF Agree
<1> QED
  BY <1>1, <1>2, <1>3, <1>8, <1>10, <1>11 DEF e, n

\* dataset addobs adds an observation to a dataset without a mask, and puts it
\* in the range if the range went to the end.
LEMMA AddObsFacts ==
  ASSUME Core, lastmod \in Model, AddObs
  PROVE  /\ Sound(dset') /\ Len(Kept(dset')) = Len(Kept(dset)) + 1
         /\ Agree(Base(dset), Base(dset'), Len(Kept(dset)))
         /\ dset.submask = {} /\ dset.full = << >> /\ Len(Kept(dset)) = Len(dset.Z)
         /\ dset'.submask = {} /\ dset'.full = << >> /\ dset'.t1 = dset.t1
         /\ dset'.t2 = IF dset.t2 = Len(dset.Z) THEN Len(dset.Z) + 1 ELSE dset.t2
         /\ InCall => dset.t2 = Len(dset.Z)
         /\ Base(dset')[Len(Kept(dset)) + 1] \in Id \ Known
         /\ (HasY(dset'.Z) <=> HasY(dset.Z))
         /\ frames' = Grown(frames) /\ UNCHANGED <<ylev, lastmod>>
<1> DEFINE n == Len(dset.Z)
           r == [id |-> Max(Known) + 1, y |-> IF HasY(dset.Z) THEN NA ELSE NoSeries]
           b == IF dset.t2 = n THEN n + 1 ELSE dset.t2
<1>1. /\ dset.full = << >> /\ (InCall => dset.t2 = n) /\ Max(Known) < MaxObs
      /\ dset' = [dset EXCEPT !.Z = Append(@, r), !.t2 = IF @ = n THEN n + 1 ELSE @]
      /\ frames' = IF InCall THEN [frames EXCEPT ![Len(frames)].added = @ + 1] ELSE frames
      /\ UNCHANGED <<ylev, lastmod>>
  BY DEF AddObs
<1>2. /\ Sound(dset) /\ dset \in Dataset /\ n \in Nat /\ Kept(dset) = dset.Z /\ dset.submask = {}
      /\ dset.t2 \in 1 .. n
  BY <1>1, CoreFacts, SoundFacts DEF Sound, Kept
<1>3. /\ Max(Known) \in Id /\ Known \subseteq Id /\ \A t \in 1 .. n : Base(dset)[t] <= Max(Known)
      /\ \A t \in 1 .. n : Base(dset)[t] \in Id
  BY <1>2, KnownFacts, SoundFacts
<1>4. MaxObs \in Nat
  BY SubsampleAssumption
<1>5. Max(Known) + 1 \in Id /\ Max(Known) + 1 \notin Known
  <2>1. \A o \in Known : o <= Max(Known)
    BY <1>3, <1>4, EndsFacts, KnownFacts DEF Id
  <2>2. Max(Known) \in Nat
    BY <1>3 DEF Id
  <2> HIDE DEF Max
  <2> QED
    BY <1>1, <1>3, <1>4, <2>1, <2>2 DEF Id
<1>6. /\ r \in Row /\ r.id = Max(Known) + 1 /\ (HasY(dset.Z) <=> r.y # NoSeries)
      /\ \A t \in 1 .. n : Base(dset)[t] < r.id
  <2>1. \A t \in 1 .. n : Base(dset)[t] < Max(Known) + 1
    BY <1>3 DEF Id
  <2> QED
    BY <1>5, <2>1, SubsampleAssumption DEF Row
<1>7. b \in dset.t2 .. n + 1
  BY <1>2
<1>8. dset' = Longer(dset, r, b)
  BY <1>1, <1>2 DEF Longer, Dataset
<1>9. frames' = Grown(frames)
  BY <1>1 DEF Grown, InCall
<1> HIDE DEF r, b
<1>10. /\ Sound(dset') /\ Len(Kept(dset')) = Len(Kept(dset)) + 1
       /\ Agree(Base(dset), Base(dset'), Len(Kept(dset)))
       /\ Base(dset')[Len(Kept(dset)) + 1] = r.id
       /\ dset'.submask = {} /\ dset'.t1 = dset.t1 /\ dset'.t2 = b /\ (HasY(dset'.Z) <=> HasY(dset.Z))
  <2> DEFINE e == Longer(dset, r, b)
  <2>1. b \in dset.t2 .. Len(dset.Z) + 1 /\ \A t \in 1 .. Len(dset.Z) : Base(dset)[t] < r.id
    BY <1>6, <1>7
  <2>2. /\ Sound(e) /\ Len(Kept(e)) = Len(Kept(dset)) + 1
        /\ Agree(Base(dset), Base(e), Len(Kept(dset)))
        /\ Base(e)[Len(Kept(dset)) + 1] = r.id
        /\ e.submask = {} /\ e.t1 = dset.t1 /\ e.t2 = b /\ (HasY(e.Z) <=> HasY(dset.Z))
    BY <1>1, <1>2, <1>6, <2>1, LongerSound
  <2> QED
    BY <1>8, <2>2
<1>11. dset'.full = << >>
  BY <1>10 DEF Sound
<1> QED
  BY <1>1, <1>2, <1>5, <1>6, <1>9, <1>10, <1>11 DEF b

\* dataset addobs keeps the invariant.
LEMMA StepAddObs == ASSUME Core, lastmod \in Model, AddObs PROVE Core'
<1>1. /\ Sound(dset') /\ Len(Kept(dset')) = Len(Kept(dset)) + 1
      /\ Agree(Base(dset), Base(dset'), Len(Kept(dset)))
      /\ dset.submask = {} /\ dset'.submask = {} /\ (HasY(dset'.Z) <=> HasY(dset.Z))
      /\ frames' = Grown(frames) /\ UNCHANGED <<ylev, lastmod>>
  BY AddObsFacts
<1>2. Linked(dset', frames')
  BY <1>1, CoreFacts, GrowLinked
<1>3. Len(frames') = Len(frames)
  BY <1>1, GrownFacts, CoreFacts, LinkedFacts
<1> QED
  BY <1>1, <1>2, <1>3, CoreFacts DEF Core

\* A call keeps the invariant.
LEMMA StepCall == ASSUME Core, Call PROVE Core' /\ frames' = Append(frames, NewFrame(dset))
<1>1. frames' = Append(frames, NewFrame(dset)) /\ UNCHANGED <<dset, ylev, lastmod>>
  BY DEF Call, NewFrame, Sel, Obs
<1>2. Linked(dset', frames')
  BY <1>1, CoreFacts, PushLinked
<1>3. Len(frames') = Len(frames) + 1 /\ Len(frames) \in Nat
  BY <1>1, CoreFacts, LinkedFacts, NewFrameFacts, AppendProperties
<1>4. ylev' \in 0 .. Len(frames')
  BY <1>1, <1>3, CoreFacts
<1> QED
  BY <1>1, <1>2, <1>4, CoreFacts DEF Core
-----------------------------------------------------------------------------
(***************************************************************************)
(* The end of a function.                                                  *)
(***************************************************************************)

\* Rows cut off at the end: the dataset that is left is one without a mask.
Cut(d, Z, a, b) == [[d EXCEPT !.Z = Z] EXCEPT !.t1 = a, !.t2 = b]

\* Such a dataset is a range of the rows that are left.
LEMMA CutFacts ==
  ASSUME NEW d \in Dataset, d.submask = {}, d.full = << >>, NEW Z \in Seq(Row),
         NEW a \in Nat, NEW b \in Nat
  PROVE  Cut(d, Z, a, b) = Ranged(Whole(Z), a, b)
<1> DEFINE w == Whole(Z)
           g == [d EXCEPT !.Z = Z]
           x == [g EXCEPT !.t1 = a, !.t2 = b]
           y == Ranged(w, a, b)
<1>1. g \in Dataset /\ g.Z = Z /\ g.submask = {} /\ g.full = << >>
  BY DEF Dataset
<1>2. w \in Dataset /\ w.Z = Z /\ w.submask = {} /\ w.full = << >>
  BY EmptySeq, LenProperties DEF Dataset, Whole
<1> HIDE DEF w, g
<1>3. x \in Dataset /\ x.Z = Z /\ x.submask = {} /\ x.full = << >> /\ x.t1 = a /\ x.t2 = b
  BY <1>1 DEF Dataset
<1>4. y \in Dataset /\ y.Z = Z /\ y.submask = {} /\ y.full = << >> /\ y.t1 = a /\ y.t2 = b
  BY <1>2 DEF Dataset, Ranged
<1> HIDE DEF x, y
<1>5. x = y
  <2>1. x.Z = y.Z /\ x.submask = y.submask /\ x.full = y.full /\ x.t1 = y.t1 /\ x.t2 = y.t2
    BY <1>3, <1>4
  <2>2. x \in Dataset /\ y \in Dataset
    BY <1>3, <1>4
  <2> QED
    BY <2>1, <2>2 DEF Dataset
<1> QED
  BY <1>5 DEF x, y, w, g, Cut

\* The end of a function restores the mask, the range and the observations that
\* its call recorded, whichever way it takes.
LEMMA ExitFacts ==
  ASSUME NEW d, Sound(d), NEW f \in Frame, Recorded(Base(d), Len(Kept(d)), f),
         Follows(f, d.submask, Len(Kept(d)))
  PROVE  LET e == Exit(d, f)
         IN  /\ Sound(e) /\ Len(Kept(e)) = Size(f) /\ Agree(Base(d), Base(e), Size(f))
             /\ e.submask = f.submask /\ e.t1 = f.t1 /\ e.t2 = f.t2
             /\ (HasY(e.Z) <=> HasY(d.Z))
<1> DEFINE h == Size(f)
           k == Len(Kept(d))
           a == f.t1
           b == f.t2
           m == f.submask
           Good(x) == /\ Sound(x) /\ Len(Kept(x)) = h /\ Agree(Base(d), Base(x), h)
                      /\ x.submask = m /\ (HasY(x.Z) <=> HasY(d.Z))
<1>1. /\ h \in 1 .. k /\ k \in Nat /\ h \in Nat /\ k = h + f.added /\ f.added \in Nat
      /\ a \in Nat /\ b \in Nat /\ 1 <= a /\ a <= b /\ m \subseteq 1 .. h
      /\ b <= IF m = {} THEN h ELSE Cardinality(m)
      /\ f.n = IF m = {} THEN h ELSE Cardinality(m)
      /\ (m # {} => d.submask # {}) /\ (d.submask # {} => f.added = 0)
  BY SoundFacts DEF Recorded, Fits, Follows, Frame
<1>2. /\ d \in Dataset /\ (d.submask = {} <=> d.full = << >>) /\ Len(d.Z) \in Nat
      /\ Len(d.Z) = IF d.submask = {} THEN k ELSE Cardinality(d.submask)
  BY SoundFacts DEF Sound
<1>3. LET all == RestoreFull(d)
      IN  /\ Sound(all) /\ Base(all) = Base(d) /\ Len(Kept(all)) = k
          /\ all.submask = {} /\ all.full = << >> /\ (HasY(all.Z) <=> HasY(d.Z))
  BY RestoreSound
<1>4. \A x : Base(x) = Base(d) => Agree(Base(d), Base(x), h)
  BY DEF Agree

\* A dataset as it was on entry gets the range that it had.
<1>5. ASSUME NEW x, Good(x)
      PROVE  Good(Ranged(x, a, b)) /\ Ranged(x, a, b).t1 = a /\ Ranged(x, a, b).t2 = b
  <2>1. Len(x.Z) = IF m = {} THEN h ELSE Cardinality(m)
    BY <1>5, SoundFacts
  <2>2. a \in 1 .. Len(x.Z) /\ b \in a .. Len(x.Z)
    <3>1. Len(x.Z) \in Nat
      BY <1>5, SoundFacts
    <3> HIDE DEF a, b, h, m
    <3> QED
      BY <1>1, <2>1, <3>1
  <2>3. Sound(x)
    BY <1>5
  <2> HIDE DEF a, b, h, m
  <2> QED
    BY <1>5, <2>2, <2>3, RangeSound
<1>6. CASE d.full # << >>
  <2>1. k = h /\ d.submask # {}
    BY <1>1, <1>2, <1>6
  <2>2. CASE m = {}
    <3>1. Exit(d, f) = Ranged(RestoreFull(d), a, b)
      BY <1>6, <2>2 DEF Exit, Ranged
    <3>2. Good(RestoreFull(d))
      BY <1>3, <1>4, <2>1, <2>2
    <3> HIDE DEF Good, a, b
    <3>3. Good(Exit(d, f)) /\ Exit(d, f).t1 = a /\ Exit(d, f).t2 = b
      BY <1>5, <3>1, <3>2
    <3> QED
      BY <3>3 DEF Good, a, b
  <2>3. CASE m # {} /\ m # d.submask
    <3>1. Exit(d, f) = Ranged(FromMask(RestoreFull(d), m), a, b)
      BY <1>6, <2>3 DEF Exit, Ranged
    <3>2. Good(FromMask(RestoreFull(d), m))
      <4> DEFINE all == RestoreFull(d)
                 e == FromMask(all, m)
      <4>1. Sound(all) /\ all.full = << >> /\ m \subseteq 1 .. Len(Kept(all)) /\ m # {}
        BY <1>1, <1>3, <2>1, <2>3
      <4> HIDE DEF all, m
      <4>2. /\ Sound(e) /\ Base(e) = Base(all) /\ Kept(e) = Kept(all)
            /\ e.submask = m /\ (HasY(e.Z) <=> HasY(all.Z))
        BY <4>1, MaskSound
      <4> HIDE DEF e
      <4>3. Good(e)
        BY <1>3, <1>4, <2>1, <4>2 DEF all
      <4> QED
        BY <4>3 DEF e, all
    <3> HIDE DEF Good, a, b
    <3>3. Good(Exit(d, f)) /\ Exit(d, f).t1 = a /\ Exit(d, f).t2 = b
      BY <1>5, <3>1, <3>2
    <3> QED
      BY <3>3 DEF Good, a, b
  <2>4. CASE m # {} /\ m = d.submask
    <3>1. Exit(d, f) = Ranged(d, a, b)
      BY <1>6, <2>4 DEF Exit, Ranged
    <3>2. Good(d)
      BY <1>4, <2>1, <2>4
    <3> HIDE DEF Good, a, b
    <3>3. Good(Exit(d, f)) /\ Exit(d, f).t1 = a /\ Exit(d, f).t2 = b
      BY <1>5, <3>1, <3>2
    <3> QED
      BY <3>3 DEF Good, a, b
  <2> QED
    BY <2>2, <2>3, <2>4
<1>7. CASE d.full = << >>
  <2>1. d.submask = {} /\ m = {} /\ Len(d.Z) = k /\ f.n = h /\ Kept(d) = d.Z
    BY <1>1, <1>2, <1>7 DEF Kept
  <2>2. CASE Len(d.Z) > f.n
    <3> DEFINE Z == SubSeq(d.Z, 1, h)
    <3>1. /\ Z \in Seq(Row) /\ Z # << >> /\ Len(Z) = h /\ DOMAIN Z = 1 .. h
          /\ \A t \in 1 .. h : Z[t] = d.Z[t]
          /\ Ordered(IdsOf(Z)) /\ Having(Z, HasY(d.Z))
      <4>1. 1 \in 1 .. Len(d.Z) /\ h \in 1 .. Len(d.Z) /\ h - 1 + 1 = h
            /\ \A t \in 1 .. h : 1 + t - 1 = t
        BY <1>1, <2>1
      <4> HIDE DEF h
      <4> QED
        BY <4>1, PartSound
    <3> HIDE DEF Z
    <3>2. /\ Sound(Whole(Z)) /\ Base(Whole(Z)) = IdsOf(Z) /\ Kept(Whole(Z)) = Z
          /\ Whole(Z).submask = {} /\ Whole(Z).Z = Z /\ (HasY(Z) <=> HasY(d.Z))
      BY <3>1, WholeSound
    <3>3. Agree(Base(d), IdsOf(Z), h)
      <4>1. \A t \in 1 .. h : Base(d)[t] = d.Z[t].id
        <5>1. \A t \in 1 .. h : t \in 1 .. k
          BY <1>1
        <5>2. \A t \in 1 .. k : Base(d)[t] = d.Z[t].id
          BY <2>1, SoundFacts
        <5> QED
          BY <5>1, <5>2
      <4> QED
        BY <3>1, <4>1 DEF Agree, IdsOf
    <3>4. Good(Whole(Z))
      BY <2>1, <3>1, <3>2, <3>3
    <3>5. Exit(d, f) = Ranged(Whole(Z), a, b)
      <4>1. Exit(d, f) = [[d EXCEPT !.Z = SubSeq(@, 1, f.n)] EXCEPT !.t1 = f.t1, !.t2 = f.t2]
        BY <1>7, <2>2 DEF Exit
      <4>2. [d EXCEPT !.Z = SubSeq(@, 1, f.n)] = [d EXCEPT !.Z = Z]
        BY <2>1 DEF Z
      <4>3. Cut(d, Z, a, b) = Ranged(Whole(Z), a, b)
        <5>1. d \in Dataset /\ d.submask = {} /\ d.full = << >> /\ Z \in Seq(Row)
              /\ a \in Nat /\ b \in Nat
          BY <1>1, <1>2, <1>7, <2>1, <3>1
        <5> HIDE DEF a, b
        <5> QED
          BY <5>1, CutFacts
      <4> QED
        BY <4>1, <4>2, <4>3 DEF Cut
    <3> HIDE DEF Good, a, b
    <3>6. Good(Exit(d, f)) /\ Exit(d, f).t1 = a /\ Exit(d, f).t2 = b
      BY <1>5, <3>4, <3>5
    <3> QED
      BY <3>6 DEF Good, a, b
  <2>3. CASE ~(Len(d.Z) > f.n)
    <3>1. Exit(d, f) = Ranged(d, a, b)
      BY <1>7, <2>3 DEF Exit, Ranged
    <3>2. k = h
      BY <1>1, <2>1, <2>3
    <3>3. Good(d)
      BY <1>4, <2>1, <3>2
    <3> HIDE DEF Good, a, b
    <3>4. Good(Exit(d, f)) /\ Exit(d, f).t1 = a /\ Exit(d, f).t2 = b
      BY <1>5, <3>1, <3>3
    <3> QED
      BY <3>4 DEF Good, a, b
  <2> QED
    BY <2>2, <2>3
<1> QED
  BY <1>6, <1>7

\* What is in place after the end of a function.
LEMMA ReturnFacts ==
  ASSUME Core, Return
  PROVE  /\ InCall /\ Sound(dset') /\ Len(Kept(dset')) = Size(Top)
         /\ Agree(Base(dset), Base(dset'), Size(Top))
         /\ dset'.submask = Top.submask /\ dset'.t1 = Top.t1 /\ dset'.t2 = Top.t2
         /\ frames' = Front(frames) /\ UNCHANGED lastmod
         /\ ylev' \in 0 .. Len(frames) - 1 /\ (ylev' > 0 => HasY(dset'.Z))
<1> DEFINE e == Exit(dset, Top)
           own == ylev = Len(frames) /\ HasY(dset.Z)
<1>1. /\ InCall /\ dset' = (IF own THEN NoY(e) ELSE e) /\ frames' = Front(frames)
      /\ ylev' = (IF own THEN 0 ELSE ylev) /\ UNCHANGED lastmod
  BY DEF Return, End
<1>2. /\ Sound(dset) /\ Top \in Frame /\ Recorded(Base(dset), Len(Kept(dset)), Top)
      /\ Follows(Top, dset.submask, Len(Kept(dset)))
      /\ Len(frames) \in Nat /\ Len(frames) > 0
      /\ ylev \in 0 .. Len(frames) /\ (ylev > 0 => HasY(dset.Z))
  BY <1>1, CoreFacts
<1>3. /\ Sound(e) /\ Len(Kept(e)) = Size(Top) /\ Agree(Base(dset), Base(e), Size(Top))
      /\ e.submask = Top.submask /\ e.t1 = Top.t1 /\ e.t2 = Top.t2
      /\ (HasY(e.Z) <=> HasY(dset.Z))
  BY <1>2, ExitFacts
<1> HIDE DEF e
<1>4. /\ Sound(dset') /\ Len(Kept(dset')) = Size(Top) /\ Agree(Base(dset), Base(dset'), Size(Top))
      /\ dset'.submask = Top.submask /\ dset'.t1 = Top.t1 /\ dset'.t2 = Top.t2
      /\ ~own => dset' = e
  <2>1. CASE own
    <3>1. dset' = NoY(e)
      BY <1>1, <2>1
    <3> QED
      BY <1>3, <2>1, <3>1, NoYFacts
  <2>2. CASE ~own
    <3>1. dset' = e
      BY <1>1, <2>2
    <3> QED
      BY <1>3, <3>1
  <2> QED
    BY <2>1, <2>2
<1>5. ylev' \in 0 .. Len(frames) - 1 /\ (ylev' > 0 => HasY(dset'.Z))
  <2>1. CASE own
    BY <1>1, <1>2, <2>1
  <2>2. CASE ~own
    <3>1. ylev # Len(frames) \/ ~HasY(dset.Z)
      BY <2>2
    <3>2. ylev # Len(frames)
      BY <1>2, <3>1
    <3> QED
      BY <1>1, <1>2, <1>3, <1>4, <2>2, <3>2
  <2> QED
    BY <2>1, <2>2
<1> QED
  BY <1>1, <1>4, <1>5

\* The end of a function keeps the invariant.
LEMMA StepReturn == ASSUME Core, Return PROVE Core'
<1>1. /\ InCall /\ Sound(dset') /\ Len(Kept(dset')) = Size(Top)
      /\ Agree(Base(dset), Base(dset'), Size(Top)) /\ dset'.submask = Top.submask
      /\ frames' = Front(frames)
      /\ ylev' \in 0 .. Len(frames) - 1 /\ (ylev' > 0 => HasY(dset'.Z))
  BY ReturnFacts
<1>2. Linked(dset', frames') /\ Len(frames') = Len(frames) - 1
  <2>1. frames # << >> /\ Top = frames[Len(frames)] /\ frames \in Seq(Frame)
    BY <1>1, CoreFacts DEF InCall, Top, Linked
  <2>2. Linked(dset', Front(frames))
    BY <1>1, <2>1, CoreFacts, PopLinked
  <2>3. Len(Front(frames)) = Len(frames) - 1
    BY <2>1, FrontFacts
  <2> QED
    BY <1>1, <2>2, <2>3
<1> QED
  BY <1>1, <1>2 DEF Core

-----------------------------------------------------------------------------
(***************************************************************************)
(* The model.                                                              *)
(***************************************************************************)

\* The last model is a model or none.
LEMMA StepModel ==
  ASSUME Core, lastmod \in Model, [Next]_vars
  PROVE  lastmod' \in Model
<1>1. NoModel \in Model
  BY DEF NoModel, Model
<1>2. \A mask, n : CheckModel(mask, n) \in Model
  BY <1>1 DEF CheckModel, Model
<1>3. ASSUME NEW d, Permanent(d) PROVE lastmod' \in Model
  BY <1>2, <1>3 DEF Permanent
<1>4. ASSUME NEW mode, NEW cond, NEW replace, RestrictPermanently(mode, cond, replace)
      PROVE  lastmod' \in Model
  BY <1>2, <1>4 DEF RestrictPermanently
<1>5. ASSUME Estimate PROVE lastmod' \in Model
  <2>1. /\ dset.submask \in SUBSET Nat /\ dset.t1 \in Nat /\ dset.t2 \in Nat /\ Len(dset.full) \in Nat
    BY CoreFacts, SoundFacts, LenProperties DEF Sound, Dataset
  <2>2. Sel \in SUBSET Id
    BY CoreFacts, ObsFacts DEF Sel
  <2> QED
    BY <1>5, <2>1, <2>2 DEF Estimate, Model
<1>6. UNCHANGED lastmod => lastmod' \in Model
  OBVIOUS
<1>7. ASSUME Next PROVE lastmod' \in Model
  <2>1. CASE PermaSample
    BY <1>3, <2>1 DEF PermaSample
  <2>2. CASE Full
    BY <1>6, <2>2 DEF Full
  <2>3. CASE RestrictFails
    BY <1>6, <2>3 DEF RestrictFails, End
  <2>4. CASE \E a \in Id : SetStart(a)
    BY <1>6, <2>4 DEF SetStart
  <2>5. CASE \E a, b \in Id, permanent \in BOOLEAN : SetSample(a, b, permanent)
    <3>1. PICK a \in Id, b \in Id, permanent \in BOOLEAN : SetSample(a, b, permanent)
      BY <2>5
    <3> DEFINE d == [dset EXCEPT !.t1 = a, !.t2 = b]
    <3>2. Permanent(d) \/ UNCHANGED lastmod
      BY <3>1 DEF SetSample
    <3> HIDE DEF d
    <3> QED
      BY <1>3, <1>6, <3>2
  <2>6. ASSUME NEW mode, NEW cond, NEW replace,
               RestrictSample(mode, cond, replace) \/ RestrictPermanently(mode, cond, replace)
        PROVE  lastmod' \in Model
    BY <1>4, <1>6, <2>6 DEF RestrictSample
  <2>7. CASE Genr \/ AddSeries \/ DropSeries \/ AddObs \/ Call
    BY <1>6, <2>7 DEF Genr, AddSeries, DropSeries, AddObs, Call
  <2>8. CASE Estimate
    BY <1>5, <2>8
  <2>9. CASE Return
    BY <1>6, <2>9 DEF Return, End
  <2> QED
    BY <1>7, <2>1, <2>2, <2>3, <2>4, <2>5, <2>6, <2>7, <2>8, <2>9 DEF Next
<1> QED
  BY <1>6, <1>7 DEF vars

-----------------------------------------------------------------------------
(***************************************************************************)
(* The invariant.                                                          *)
(***************************************************************************)

\* The invariant of every run without the disagreements of Regular.
Steady == Core /\ lastmod \in Model

\* The invariant holds at the start.
LEMMA InitSteady == ASSUME Init PROVE Steady
<1> DEFINE Z == [t \in 1 .. MaxObs |-> [id |-> t, y |-> NoSeries]]
<1>1. dset = Whole(Z) /\ frames = << >> /\ ylev = 0 /\ lastmod = NoModel
  BY DEF Init
<1>2. MaxObs \in Nat /\ 1 <= MaxObs
  BY SubsampleAssumption
<1>3. Z \in [1 .. MaxObs -> Row]
  BY <1>2 DEF Row, Id
<1>4. Z \in Seq(Row) /\ Len(Z) = MaxObs /\ DOMAIN Z = 1 .. MaxObs
  BY <1>2, <1>3, SeqFcn
<1>5. Z # << >>
  BY <1>2, <1>4, EmptySeq
<1>6. Ordered(IdsOf(Z)) /\ Having(Z, FALSE)
  BY <1>4 DEF Ordered, IdsOf, Having
<1> HIDE DEF Z
<1>7. Sound(dset)
  BY <1>1, <1>4, <1>5, <1>6, WholeSound
<1>8. Linked(dset, frames)
  BY <1>1, EmptySeq DEF Linked, Chain
<1>9. Len(frames) = 0
  BY <1>1, EmptySeq
<1>10. lastmod \in Model
  BY <1>1 DEF NoModel, Model
<1> QED
  BY <1>1, <1>7, <1>8, <1>9, <1>10 DEF Steady, Core

\* Every step keeps the invariant.
LEMMA StepSteady == ASSUME Regular, Steady, [Next]_vars PROVE Steady'
<1>1. Core /\ lastmod \in Model
  BY DEF Steady
<1>2. lastmod' \in Model
  BY <1>1, StepModel
<1>3. ASSUME UNCHANGED vars PROVE Core'
  <2>1. UNCHANGED <<dset, frames, ylev>>
    BY <1>3 DEF vars
  <2> QED
    BY <1>1, <2>1 DEF Core
<1>4. ASSUME Next PROVE Core'
  <2>1. CASE PermaSample
    BY <1>1, <2>1, StepPerma
  <2>2. CASE Full
    BY <1>1, <2>2, StepFull
  <2>3. CASE RestrictFails
    BY <1>1, <2>3, StepRestrictFails
  <2>4. CASE \E a \in Id : SetStart(a)
    BY <1>1, <2>4, StepSetStart
  <2>5. CASE \E a, b \in Id, permanent \in BOOLEAN : SetSample(a, b, permanent)
    BY <1>1, <2>5, StepSetSample
  <2>6. ASSUME NEW mode, NEW cond, NEW replace, RestrictSample(mode, cond, replace)
        PROVE  Core'
    BY <1>1, <2>6, StepRestrict
  <2>7. ASSUME NEW mode, NEW cond, NEW replace, RestrictPermanently(mode, cond, replace)
        PROVE  Core'
    BY <1>1, <2>7, StepRestrictPermanently
  <2>8. CASE Genr
    BY <1>1, <2>8, StepGenr
  <2>9. CASE AddSeries
    BY <1>1, <2>9, StepAddSeries
  <2>10. CASE DropSeries
    BY <1>1, <2>10, StepDropSeries
  <2>11. CASE AddObs
    BY <1>1, <2>11, StepAddObs
  <2>12. CASE Estimate
    <3>1. UNCHANGED <<dset, frames, ylev>>
      BY <2>12 DEF Estimate
    <3> QED
      BY <1>1, <3>1 DEF Core
  <2>13. CASE Call
    BY <1>1, <2>13, StepCall
  <2>14. CASE Return
    BY <1>1, <2>14, StepReturn
  <2> QED
    BY <1>4, <2>1, <2>2, <2>3, <2>4, <2>5, <2>6, <2>7, <2>8, <2>9, <2>10, <2>11, <2>12, <2>13, <2>14
       DEF Next
<1> QED
  BY <1>2, <1>3, <1>4 DEF Steady

\* The invariant says that the sample is a range of the rows in use, and that
\* the rows in use are as many as the mask says.
LEMMA SteadyType == ASSUME Steady PROVE TypeOK
<1>1. Sound(dset) /\ ylev \in 0 .. Len(frames)
  BY DEF Steady, Core
<1>2. /\ dset.Z \in Seq(Row) /\ dset.full \in Seq(Row) /\ Len(dset.Z) \in Nat
      /\ dset.t1 \in 1 .. Len(dset.Z) /\ dset.t2 \in dset.t1 .. Len(dset.Z)
      /\ dset.submask \subseteq 1 .. Len(Kept(dset)) /\ DOMAIN Kept(dset) = 1 .. Len(Kept(dset))
      /\ dset.submask = {} <=> dset.full = << >>
  BY <1>1, SoundFacts DEF Sound
<1>3. dset.submask # {} => Kept(dset) = dset.full /\ Len(dset.Z) = Cardinality(dset.submask)
  BY <1>1, <1>2 DEF Kept, Sound, Copied
<1> QED
  BY <1>1, <1>2, <1>3 DEF TypeOK

\* Whatever smpl, dataset addobs, calls and their ends do, the sample is a range
\* of the rows in use, and the rows in use are as many as the mask says
\* (subsample.c, gretl_func.c).
THEOREM TypeCorrect == ASSUME Regular PROVE Spec => []TypeOK
<1>1. Init => Steady
  BY InitSteady
<1>2. Steady /\ [Next]_vars => Steady'
  BY StepSteady
<1>3. Steady => TypeOK
  BY SteadyType
<1> QED
  BY <1>1, <1>2, <1>3, PTL DEF Spec

\* The end of a function gives back what its call has recorded.
LEMMA ReturnSample == ASSUME Core, Return PROVE Sel' = Top.sel /\ Obs' = Top.obs
<1>1. /\ InCall /\ Sound(dset') /\ Len(Kept(dset')) = Size(Top)
      /\ Agree(Base(dset), Base(dset'), Size(Top))
      /\ dset'.submask = Top.submask /\ dset'.t1 = Top.t1 /\ dset'.t2 = Top.t2
  BY ReturnFacts
<1>2. Recorded(Base(dset), Len(Kept(dset)), Top) /\ Size(Top) \in Nat
  BY <1>1, CoreFacts
<1>3. SelOf(dset') = Top.sel
  <2>1. SelOf(dset') = Picked(Base(dset'), Top.submask, Top.t1, Top.t2)
    BY <1>1, SelFacts
  <2>2. Picked(Base(dset'), Top.submask, Top.t1, Top.t2) = Picked(Base(dset), Top.submask, Top.t1, Top.t2)
    BY <1>1, <1>2, PickedSame DEF Recorded
  <2> QED
    BY <1>2, <2>1, <2>2 DEF Recorded
<1>4. Ids(FullRows(dset'), DOMAIN FullRows(dset')) = Top.obs
  <2>1. Firsts(Base(dset'), Size(Top)) = Firsts(Base(dset), Size(Top))
    BY <1>1 DEF Firsts, Agree
  <2> QED
    BY <1>1, <1>2, <2>1, ObsFacts DEF Recorded
<1> QED
  BY <1>3, <1>4 DEF Sel, Obs

\* The end of a function puts back "the sample that was in place on entry"
\* (gretl_function_exec()) and the observations there were, whatever the function
\* and those it called have restricted, restored or added.
THEOREM SampleIsRestored == ASSUME Regular PROVE Spec => RestoresOnExit
<1>1. Init => Steady
  BY InitSteady
<1>2. Steady /\ [Next]_vars => Steady'
  BY StepSteady
<1>3. ASSUME Steady, [Next]_vars PROVE [Len(frames') < Len(frames) => Sel' = Top.sel /\ Obs' = Top.obs]_vars
  <2> SUFFICES ASSUME Next, Len(frames') < Len(frames) PROVE Sel' = Top.sel /\ Obs' = Top.obs
    BY <1>3
  <2>1. Core /\ lastmod \in Model /\ Len(frames) \in Nat
    BY <1>3, CoreFacts DEF Steady
  <2>2. Return
    <3>1. ~(UNCHANGED frames)
      BY <2>1
    <3>2. ~AddObs
      BY <2>1, AddObsFacts, GrownFacts, CoreFacts, LinkedFacts
    <3>3. ~Call
      BY <2>1, StepCall, CoreFacts, LinkedFacts, NewFrameFacts, AppendProperties
    <3>4. ~(\E a, b \in Id, permanent \in BOOLEAN : SetSample(a, b, permanent))
      BY <3>1 DEF SetSample, Permanent
    <3>5. \A mode, cond, replace : ~RestrictSample(mode, cond, replace) /\ ~RestrictPermanently(mode, cond, replace)
      BY <3>1 DEF RestrictSample, RestrictPermanently
    <3>6. ~RestrictFails
      BY <2>1, <3>1 DEF RestrictFails, Regular
    <3> QED
      BY <3>1, <3>2, <3>3, <3>4, <3>5, <3>6
         DEF Next, PermaSample, Permanent, Full, SetStart, Genr, AddSeries, DropSeries, Estimate
  <2> QED
    BY <2>1, <2>2, ReturnSample
<1> QED
  BY <1>1, <1>2, <1>3, PTL DEF Spec, RestoresOnExit
-----------------------------------------------------------------------------
(***************************************************************************)
(* A function keeps to the sample of its callers.                          *)
(***************************************************************************)

\* Ordered observations are different.
LEMMA Distinct ==
  ASSUME NEW d, Sound(d), NEW s \in 1 .. Len(Kept(d)), NEW t \in 1 .. Len(Kept(d)),
         Base(d)[s] = Base(d)[t]
  PROVE  s = t
<1>1. Ordered(Base(d)) /\ DOMAIN Base(d) = 1 .. Len(Kept(d)) /\ Base(d)[s] \in Nat /\ Base(d)[t] \in Nat
      /\ Len(Kept(d)) \in Nat
  BY SoundFacts DEF Sound, Id
<1>2. ~(s < t) /\ ~(t < s)
  BY <1>1 DEF Ordered
<1> QED
  BY <1>1, <1>2

\* An observation is in the sample of a call if its place was selected.
LEMMA SelPlaces ==
  ASSUME NEW d, Sound(d), NEW f, Recorded(Base(d), Len(Kept(d)), f), NEW t \in 1 .. Len(Kept(d))
  PROVE  /\ Base(d)[t] \in f.sel <=> t \in Where(f.submask, f.t1, f.t2)
         /\ Base(d)[t] \in f.obs <=> t <= Size(f)
         /\ Base(d)[t] \in Id
<1>1. /\ Size(f) \in 1 .. Len(Kept(d)) /\ f.obs = Firsts(Base(d), Size(f))
      /\ Fits(f.submask, f.t1, f.t2, Size(f)) /\ f.sel = Picked(Base(d), f.submask, f.t1, f.t2)
      /\ Len(Kept(d)) \in Nat
  BY SoundFacts DEF Recorded
<1>2. Where(f.submask, f.t1, f.t2) \subseteq 1 .. Len(Kept(d))
  <2>1. Where(f.submask, f.t1, f.t2) \subseteq 1 .. Size(f)
    BY <1>1, WhereFacts
  <2> QED
    BY <1>1, <2>1
<1>3. Base(d)[t] \in f.sel <=> t \in Where(f.submask, f.t1, f.t2)
  <2>1. ASSUME Base(d)[t] \in f.sel PROVE t \in Where(f.submask, f.t1, f.t2)
    <3>1. PICK s \in Where(f.submask, f.t1, f.t2) : Base(d)[s] = Base(d)[t]
      BY <1>1, <2>1 DEF Picked
    <3> QED
      BY <1>2, <3>1, Distinct
  <2> QED
    BY <1>1, <2>1 DEF Picked
<1>4. Base(d)[t] \in f.obs <=> t <= Size(f)
  <2>1. ASSUME Base(d)[t] \in f.obs PROVE t <= Size(f)
    <3>1. PICK s \in 1 .. Size(f) : Base(d)[s] = Base(d)[t]
      BY <1>1, <2>1 DEF Firsts
    <3>2. s \in 1 .. Len(Kept(d))
      BY <1>1
    <3>3. s = t
      BY <3>1, <3>2, Distinct
    <3> QED
      BY <1>1, <3>1, <3>3
  <2>2. t <= Size(f) => t \in 1 .. Size(f)
    BY <1>1
  <2> QED
    BY <1>1, <2>1, <2>2 DEF Firsts
<1> QED
  BY <1>3, <1>4, SoundFacts

\* The bounds of the call that runs, for as long as the mask is that of the call.
LEMMA WithinBounds ==
  ASSUME Core, InCall, Top.added > 0 => Top.t2 = Top.n, NEW mask, mask = Top.submask,
         NEW a, NEW b, Fits(mask, a, b, Len(Kept(dset))),
         Top.t1 <= a, b <= Top.t2 + Top.added,
         mask # {} => Top.added = 0
  PROVE  Picked(Base(dset), mask, a, b) \subseteq Allowed(Top)
<1> DEFINE k == Len(Kept(dset))
<1>1. /\ Sound(dset) /\ k \in Nat /\ Top \in Frame /\ Recorded(Base(dset), k, Top)
      /\ Size(Top) \in Nat /\ Follows(Top, dset.submask, k)
      /\ Top.t1 \in Nat /\ Top.t2 \in Nat /\ Top.added \in Nat
      /\ a \in Nat /\ b \in Nat
  BY CoreFacts, SoundFacts DEF Frame, Fits
<1>2. Where(mask, a, b) \subseteq 1 .. k
  BY <1>1, WhereFacts
<1>3. ASSUME NEW t \in Where(mask, a, b) PROVE Base(dset)[t] \in Allowed(Top)
  <2>1. t \in 1 .. k
    BY <1>2
  <2>2. /\ Base(dset)[t] \in Top.sel <=> t \in Where(mask, Top.t1, Top.t2)
        /\ Base(dset)[t] \in Top.obs <=> t <= Size(Top)
        /\ Base(dset)[t] \in Id
    BY <1>1, <2>1, SelPlaces
  <2>3. CASE mask # {}
    <3>1. Rank(mask, t) \in a .. b /\ t \in mask /\ Top.added = 0
      BY <2>3 DEF Where
    <3>2. Rank(mask, t) \in Top.t1 .. Top.t2
      BY <1>1, <3>1
    <3> QED
      BY <2>2, <2>3, <3>1, <3>2 DEF Where, Allowed
  <2>4. CASE mask = {}
    <3>1. t \in a .. b
      BY <2>4 DEF Where
    <3>2. CASE t <= Top.t2
      <4>1. t \in Top.t1 .. Top.t2
        BY <1>1, <3>1, <3>2
      <4> QED
        BY <2>2, <2>4, <4>1 DEF Where, Allowed
    <3>3. CASE ~(t <= Top.t2)
      <4>1. Top.added > 0
        BY <1>1, <3>1, <3>3
      <4>2. Top.t2 = Size(Top)
        BY <1>1, <2>4, <4>1 DEF Recorded
      <4>3. ~(t <= Size(Top))
        BY <3>3, <4>2
      <4> QED
        BY <2>2, <4>3 DEF Allowed
    <3> QED
      BY <3>2, <3>3
  <2> QED
    BY <2>3, <2>4
<1> QED
  BY <1>3 DEF Picked

\* The parts of the invariant that are about the function that runs.
LEMMA ConfinedFacts ==
  ASSUME Core, Confined, InCall
  PROVE  /\ Top.added > 0 => Top.t2 = Top.n
         /\ Inside(Base(dset), Top, dset.submask)
         /\ Sel \subseteq Allowed(Top)
         /\ \A i \in DOMAIN frames : Allowed(Top) \subseteq Allowed(frames[i])
<1> DEFINE k == Len(Kept(dset))
           n == Len(frames)
<1>1. /\ n \in DOMAIN frames /\ Top = frames[n] /\ DOMAIN frames = 1 .. n /\ n \in Nat
      /\ \A i \in 1 .. n : Recorded(Base(dset), k, frames[i]) /\ Size(frames[i]) \in Nat
      /\ \A i, j \in 1 .. n : i < j => Size(frames[i]) <= Size(frames[j])
  BY CoreFacts, LinkedFacts DEF Top
<1>2. ASSUME NEW i \in DOMAIN frames PROVE Allowed(Top) \subseteq Allowed(frames[i])
  <2>1. CASE i = n
    BY <1>1, <2>1
  <2>2. CASE i # n
    <3>1. i < n /\ i \in 1 .. n
      BY <1>1, <2>2
    <3>2. Top.sel \subseteq Allowed(frames[i])
      BY <1>1, <3>1 DEF Confined
    <3>3. frames[i].obs \subseteq Top.obs
      <4>1. /\ frames[i].obs = Firsts(Base(dset), Size(frames[i])) /\ Top.obs = Firsts(Base(dset), Size(Top))
            /\ Size(frames[i]) <= Size(Top) /\ Size(frames[i]) \in Nat /\ Size(Top) \in Nat
        BY <1>1, <3>1 DEF Recorded
      <4>2. 1 .. Size(frames[i]) \subseteq 1 .. Size(Top)
        BY <4>1
      <4> QED
        BY <4>1, <4>2 DEF Firsts
    <3> QED
      BY <3>2, <3>3 DEF Allowed
  <2> QED
    BY <2>1, <2>2
<1>3. Sel \subseteq Allowed(Top)
  BY <1>1 DEF Confined, WithinCallers, Allowed
<1> QED
  BY <1>1, <1>2, <1>3 DEF Confined

\* As long as the mask is that of the call, the range ends within the bounds.
LEMMA EndWithin ==
  ASSUME Core, Confined, InCall, dset.submask = Top.submask
  PROVE  dset.t2 <= Top.t2 + Top.added
<1> DEFINE k == Len(Kept(dset))
           m == dset.submask
<1>1. /\ Sound(dset) /\ k \in Nat /\ Top \in Frame /\ Recorded(Base(dset), k, Top)
      /\ Size(Top) \in Nat /\ Follows(Top, m, k)
      /\ Top.t1 \in Nat /\ Top.t2 \in Nat /\ Top.added \in Nat
      /\ dset.t1 \in Nat /\ dset.t2 \in Nat /\ dset.t1 <= dset.t2 /\ m \subseteq 1 .. k
      /\ Fits(m, dset.t1, dset.t2, k)
  BY CoreFacts, SoundFacts DEF Frame, Sound
<1>2. SelOf(dset) = Picked(Base(dset), m, dset.t1, dset.t2) /\ SelOf(dset) \subseteq Allowed(Top)
      /\ (Top.added > 0 => Top.t2 = Top.n)
  BY <1>1, SelFacts, ConfinedFacts DEF Sel
<1>3. ASSUME NEW t \in Where(m, dset.t1, dset.t2)
      PROVE  t \in 1 .. k /\ (t \in Where(m, Top.t1, Top.t2) \/ ~(t <= Size(Top)))
  <2>1. t \in 1 .. k
    BY <1>1, WhereFacts
  <2>2. Base(dset)[t] \in Allowed(Top)
    BY <1>2 DEF Picked
  <2> QED
    BY <1>1, <2>1, <2>2, SelPlaces DEF Allowed
<1>4. CASE m = {}
  <2>1. dset.t2 \in Where(m, dset.t1, dset.t2)
    BY <1>1, <1>4 DEF Where
  <2>2. CASE dset.t2 \in Where(m, Top.t1, Top.t2)
    BY <1>1, <1>4, <2>2 DEF Where
  <2>3. CASE ~(dset.t2 <= Size(Top))
    <3>1. dset.t2 <= k /\ k = Size(Top) + Top.added
      BY <1>1, <1>4 DEF Fits, Follows
    <3>2. Top.added > 0
      BY <1>1, <2>3, <3>1
    <3>3. Top.t2 = Size(Top)
      BY <1>1, <1>2, <1>4, <3>2 DEF Recorded
    <3> QED
      BY <3>1, <3>3
  <2> QED
    BY <1>3, <2>1, <2>2, <2>3
<1>5. CASE m # {}
  <2>1. dset.t2 \in 1 .. Cardinality(m)
    <3>1. dset.t2 <= Cardinality(m) /\ 1 <= dset.t1
      BY <1>1, <1>5 DEF Fits
    <3>2. Cardinality(m) \in Nat
      BY <1>1, RankFacts
    <3> QED
      BY <1>1, <3>1, <3>2
  <2>2. PICK t \in m : Rank(m, t) = dset.t2
    BY <1>1, <2>1, RankFacts
  <2>3. t \in Where(m, dset.t1, dset.t2)
    BY <1>1, <1>5, <2>2 DEF Where
  <2>4. t <= Size(Top)
    <3>1. Top.submask \subseteq 1 .. Size(Top)
      BY <1>1 DEF Recorded, Fits
    <3> QED
      BY <1>1, <2>2, <3>1
  <2>5. t \in Where(m, Top.t1, Top.t2)
    BY <1>3, <2>3, <2>4
  <2>6. dset.t2 \in Top.t1 .. Top.t2
    BY <1>5, <2>2, <2>5 DEF Where
  <2> QED
    BY <1>1, <2>6
<1> QED
  BY <1>4, <1>5

\* Nothing is asked of the main script.
LEMMA ConfinedIdle == ASSUME frames' = << >> PROVE Confined'
<1>1. DOMAIN frames' = {} /\ Len(frames') = 0 /\ ~InCall'
  BY EmptySeq DEF InCall
<1> QED
  BY <1>1 DEF Confined, WithinCallers

\* The function that runs chooses another sample, of the same observations.
LEMMA ConfinedSame ==
  ASSUME Core, Confined, Base(dset') = Base(dset), UNCHANGED frames,
         InCall => Sel' \subseteq Allowed(Top) /\ Inside(Base(dset), Top, dset'.submask)
  PROVE  Confined'
<1>1. CASE InCall
  <2>1. \A i \in DOMAIN frames : Sel' \subseteq Allowed(frames[i])
    BY <1>1, ConfinedFacts
  <2>2. WithinCallers'
    BY <2>1 DEF WithinCallers, Allowed
  <2>3. Top' = Top /\ (InCall' => Inside(Base(dset'), Top', dset'.submask))
    BY <1>1 DEF Top
  <2> QED
    BY <2>2, <2>3 DEF Confined
<1>2. CASE ~InCall
  BY <1>2, ConfinedIdle DEF InCall
<1> QED
  BY <1>1, <1>2

\* The same sample.
LEMMA ConfinedStill ==
  ASSUME Core, Confined, Sound(dset'), Base(dset') = Base(dset), UNCHANGED frames,
         dset'.submask = dset.submask, dset'.t1 = dset.t1, dset'.t2 = dset.t2
  PROVE  Confined'
<1>1. Sel' = Sel
  <2>1. SelOf(dset') = Picked(Base(dset'), dset'.submask, dset'.t1, dset'.t2)
    BY SelFacts
  <2>2. SelOf(dset) = Picked(Base(dset), dset.submask, dset.t1, dset.t2)
    BY CoreFacts, SelFacts
  <2> QED
    BY <2>1, <2>2 DEF Sel
<1> QED
  BY <1>1, ConfinedFacts, ConfinedSame

\* Another range of the rows in use, within the bounds of the call.
LEMMA ConfinedRange ==
  ASSUME Core, Confined, NEW a \in 1 .. Len(dset.Z), NEW b \in a .. Len(dset.Z),
         dset' = Ranged(dset, a, b), UNCHANGED frames, InCall => a \in Extrema(dset),
         InCall /\ dset.submask = Top.submask => b <= Top.t2 + Top.added
  PROVE  Confined'
<1> DEFINE m == dset.submask
           B == Base(dset)
<1>1. /\ Sound(dset') /\ Base(dset') = B /\ Kept(dset') = Kept(dset) /\ dset'.submask = m
      /\ dset'.t1 = a /\ dset'.t2 = b /\ Sound(dset)
  BY CoreFacts, RangeSound
<1>2. Sel' = Picked(B, m, a, b) /\ Fits(m, a, b, Len(Kept(dset))) /\ m \subseteq 1 .. Len(Kept(dset))
      /\ Len(Kept(dset)) \in Nat
  BY <1>1, SelFacts, SoundFacts DEF Sel, Sound
<1>3. ASSUME InCall PROVE Sel' \subseteq Allowed(Top) /\ Inside(B, Top, m)
  <2>1. /\ Inside(B, Top, m) /\ (Top.added > 0 => Top.t2 = Top.n)
        /\ Follows(Top, m, Len(Kept(dset)))
    BY <1>3, CoreFacts, ConfinedFacts
  <2>2. a >= Top.t1
    BY <1>3, ExtremaFacts DEF Extrema
  <2>3. CASE m = Top.submask
    <3>1. Top.t1 <= a /\ b <= Top.t2 + Top.added /\ (m # {} => Top.added = 0)
      <4>1. a \in Nat /\ Top.t1 \in Nat
        BY <1>3, ExtremaFacts
      <4> QED
        BY <1>3, <2>1, <2>2, <2>3, <4>1 DEF Follows
    <3> HIDE DEF m, B
    <3> QED
      BY <1>2, <1>3, <2>1, <2>3, <3>1, WithinBounds DEF B
  <2>4. CASE m # Top.submask
    <3>1. m # {}
      BY <2>1, <2>4 DEF Follows
    <3>2. Those(B, m) \subseteq Top.sel
      BY <2>1, <2>4, <3>1 DEF Inside
    <3>3. Picked(B, m, a, b) \subseteq Those(B, m)
      BY <3>1 DEF Picked, Where, Those
    <3> QED
      BY <1>2, <2>1, <3>2, <3>3 DEF Allowed
  <2> QED
    BY <2>3, <2>4
<1> QED
  BY <1>1, <1>3, ConfinedSame

\* smpl with two bounds stays within the bounds of the call.
LEMMA ConfinedSetSample ==
  ASSUME Regular, Core, Confined, NEW a \in Id, NEW b \in Id, NEW permanent \in BOOLEAN,
         SetSample(a, b, permanent)
  PROVE  Confined'
<1>1. /\ a \in 1 .. Len(dset.Z) /\ b \in a .. Len(dset.Z)
      /\ a \in Extrema(dset) /\ b \in Extrema(dset)
  BY SetSampleFacts
<1>2. CASE InCall
  <2>1. dset' = Ranged(dset, a, b) /\ UNCHANGED frames
    BY <1>2 DEF SetSample, Ranged
  <2>2. b <= Top.t2 + Top.added
    BY <1>1, <1>2, ExtremaFacts DEF Extrema
  <2> QED
    BY <1>1, <2>1, <2>2, ConfinedRange
<1>3. CASE ~InCall
  <2>1. frames' = << >>
    BY <1>3 DEF SetSample, Permanent, InCall
  <2> QED
    BY <2>1, ConfinedIdle
<1> QED
  BY <1>2, <1>3

\* smpl with one bound stays within the bounds of the call.
LEMMA ConfinedSetStart ==
  ASSUME Regular, Core, Confined, NEW a \in Id, SetStart(a)
  PROVE  Confined'
<1>1. a \in 1 .. dset.t2 /\ a \in Extrema(dset)
  BY StepSetStart
<1>2. /\ Sound(dset) /\ dset \in Dataset /\ Len(dset.Z) \in Nat
      /\ dset.t1 \in 1 .. Len(dset.Z) /\ dset.t2 \in dset.t1 .. Len(dset.Z)
  BY CoreFacts, SoundFacts DEF Sound
<1>3. dset' = Ranged(dset, a, dset.t2) /\ UNCHANGED frames
  BY <1>2 DEF SetStart, Ranged, Dataset
<1>4. a \in 1 .. Len(dset.Z) /\ dset.t2 \in a .. Len(dset.Z)
  BY <1>1, <1>2
<1> QED
  BY <1>1, <1>3, <1>4, EndWithin, ConfinedRange

\* All of the observations.
LEMMA AllPicked ==
  ASSUME NEW k \in Nat, NEW B
  PROVE  Picked(B, {}, 1, k) = Those(B, 1 .. k)
BY DEF Picked, Where, Those

\* All of the rows of a mask.
LEMMA MaskPicked ==
  ASSUME NEW k \in Nat, NEW B, NEW mask, mask \subseteq 1 .. k, mask # {}
  PROVE  Picked(B, mask, 1, Cardinality(mask)) = Those(B, mask)
<1>1. \A t \in mask : Rank(mask, t) \in 1 .. Cardinality(mask)
  BY RankFacts
<1> QED
  BY <1>1 DEF Picked, Where, Those

\* When the caller has left all of the rows to the function, its mask is all
\* that there is to keep to.
LEMMA AllRowsFacts ==
  ASSUME Core, Confined, InCall, AllRows
  PROVE  /\ CallMask # {} => Those(Base(dset), CallMask) = Top.sel
         /\ CallMask = {} => Those(Base(dset), 1 .. Len(Kept(dset))) \subseteq Allowed(Top)
<1> DEFINE k == Len(Kept(dset))
           B == Base(dset)
<1>1. /\ k \in Nat /\ Top \in Frame /\ Recorded(B, k, Top)
      /\ Size(Top) \in Nat /\ Follows(Top, dset.submask, k)
      /\ CallMask = Top.submask /\ CallMask \subseteq 1 .. k
      /\ Top.t1 = 1 /\ Top.t2 = Top.n /\ Top.added \in Nat
  BY CoreFacts, MaskFacts DEF AllRows, CallMask, Frame
<1>2. CASE CallMask # {}
  <2>1. Top.sel = Picked(B, CallMask, 1, Cardinality(CallMask))
    BY <1>1, <1>2 DEF Recorded
  <2> QED
    BY <1>1, <1>2, <2>1, MaskPicked
<1>3. CASE CallMask = {}
  <2>1. Top.t2 = Size(Top) /\ k = Size(Top) + Top.added /\ 1 <= Size(Top)
    BY <1>1, <1>3 DEF Recorded, Follows
  <2>2. Fits({}, 1, k, k) /\ Top.t1 <= 1 /\ k <= Top.t2 + Top.added
    BY <1>1, <2>1 DEF Fits
  <2>3. Picked(B, {}, 1, k) \subseteq Allowed(Top)
    <3> HIDE DEF k, B
    <3> QED
      BY <1>1, <1>3, <2>2, WithinBounds DEF k, B
  <2> QED
    BY <1>1, <1>3, <2>3, AllPicked
<1> QED
  BY <1>2, <1>3

\* smpl full goes back no further than to the sample of the call.
LEMMA ConfinedFull == ASSUME Bounded, Core, Confined, Full PROVE Confined'
<1>1. Regular /\ "escapes" \notin Faults
  BY DEF Bounded, Regular
<1>2. /\ CallMask # {} => AllRows /\ dset' = FromMask(RestoreFull(dset), CallMask)
      /\ UNCHANGED <<frames, ylev, lastmod>>
  BY <1>1, FullFacts DEF Full
<1>3. CASE CallMask # {}
  <2>1. InCall /\ CallMask = Top.submask /\ CallMask \subseteq 1 .. Len(Kept(dset)) /\ Len(Kept(dset)) \in Nat
    BY <1>3, MaskFacts DEF CallMask
  <2>2. /\ Sound(dset') /\ Base(dset') = Base(dset) /\ dset'.submask = CallMask
        /\ dset'.t1 = 1 /\ dset'.t2 = Cardinality(CallMask)
    BY <1>2, <1>3, <2>1, RestoredMask
  <2>3. Sel' = Those(Base(dset), CallMask)
    BY <1>3, <2>1, <2>2, SelFacts, MaskPicked DEF Sel
  <2>4. Sel' \subseteq Allowed(Top)
    BY <1>2, <1>3, <2>1, <2>3, AllRowsFacts DEF Allowed
  <2>5. Inside(Base(dset), Top, dset'.submask)
    BY <2>1, <2>2 DEF Inside
  <2> QED
    BY <1>2, <2>2, <2>4, <2>5, ConfinedSame
<1>4. CASE CallMask = {} /\ InCall
  <2>1. PICK a \in 1 .. Len(Kept(dset)) : \E b \in a .. Len(Kept(dset)) :
              dset' = Ranged(RestoreFull(dset), a, b) /\ a = Top.t1 /\ b = Top.t2 + Top.added
    BY <1>1, <1>4, FullFacts
  <2>2. PICK b \in a .. Len(Kept(dset)) :
              dset' = Ranged(RestoreFull(dset), a, b) /\ a = Top.t1 /\ b = Top.t2 + Top.added
    BY <2>1
  <2>3. /\ Sound(dset') /\ Base(dset') = Base(dset) /\ Len(Kept(dset')) = Len(Kept(dset))
        /\ dset'.submask = {} /\ dset'.t1 = a /\ dset'.t2 = b
    BY <2>2, RestoredRange
  <2>4. Sel' = Picked(Base(dset), {}, a, b)
    BY <2>3, SelFacts DEF Sel
  <2>5. Fits({}, a, b, Len(Kept(dset)))
    BY <2>3 DEF Sound
  <2>6. Sel' \subseteq Allowed(Top)
    <3>1. Top.added > 0 => Top.t2 = Top.n
      BY <1>4, ConfinedFacts
    <3>2. {} = Top.submask /\ Top.t1 <= a /\ b <= Top.t2 + Top.added
      BY <1>4, <2>2, ExtremaFacts DEF CallMask
    <3> QED
      BY <1>4, <2>4, <2>5, <3>1, <3>2, WithinBounds
  <2> QED
    BY <1>2, <2>3, <2>6, ConfinedSame DEF Inside
<1>5. CASE ~InCall
  BY <1>2, <1>5, ConfinedIdle DEF InCall
<1> QED
  BY <1>3, <1>4, <1>5

\* A restriction that fails, and is caught, leaves the function all of the rows
\* only if the caller had left it all of them.
LEMMA ConfinedFails == ASSUME Bounded, Core, Confined, RestrictFails PROVE Confined'
<1>1. Regular /\ "escapes" \notin Faults
  BY DEF Bounded, Regular
<1>2. CallMask = {} /\ dset' = RestoreFull(dset) /\ UNCHANGED frames /\ (InCall => AllRows)
  BY <1>1, StepRestrictFails DEF RestrictFails
<1>3. /\ Sound(dset') /\ Base(dset') = Base(dset) /\ dset'.submask = {} /\ dset'.t1 = 1
      /\ dset'.t2 = Len(Kept(dset)) /\ Len(Kept(dset)) \in Nat
  BY <1>2, CoreFacts, RestoreSound, MaskFacts
<1>4. Sel' = Those(Base(dset), 1 .. Len(Kept(dset)))
  BY <1>3, SelFacts, AllPicked DEF Sel
<1> QED
  BY <1>2, <1>3, <1>4, AllRowsFacts, ConfinedSame DEF Inside

\* What is left by a restriction is what its mask says.
LEMMA RestrictedSel ==
  ASSUME Core, NEW mode, NEW cond, NEW replace, CanRestrict(mode, cond, replace)
  PROVE  SelOf(Restricted(mode, cond, replace)) = Those(Base(dset), NewMask(mode, cond, replace))
<1> DEFINE mask == NewMask(mode, cond, replace)
           e == Restricted(mode, cond, replace)
           k == Len(Kept(dset))
           B == Base(dset)
<1>1. /\ mask # {} /\ mask \subseteq 1 .. k /\ k \in Nat
      /\ Sound(e) /\ Base(e) = B
      /\ Nothing(mode, cond, replace) =>
           e.submask = {} /\ e.t1 = 1 /\ e.t2 = k /\ mask = 1 .. k
      /\ ~Nothing(mode, cond, replace) /\ Shortcut(mode, cond, replace) =>
           e.submask = {} /\ e.t1 = Min(mask) /\ e.t2 = Max(mask) /\ mask = Min(mask) .. Max(mask)
      /\ ~Nothing(mode, cond, replace) /\ ~Shortcut(mode, cond, replace) =>
           e.submask = mask /\ e.t1 = 1 /\ e.t2 = Cardinality(mask)
  BY RestrictedFacts, MaskFacts
<1>2. SelOf(e) = Picked(B, e.submask, e.t1, e.t2)
  BY <1>1, SelFacts
<1> HIDE DEF mask, e, B, k
<1>3. CASE Nothing(mode, cond, replace)
  BY <1>1, <1>2, <1>3, AllPicked DEF mask, e, B
<1>4. CASE ~Nothing(mode, cond, replace) /\ Shortcut(mode, cond, replace)
  <2>1. SelOf(e) = Picked(B, {}, Min(mask), Max(mask))
    BY <1>1, <1>2, <1>4
  <2>2. Picked(B, {}, Min(mask), Max(mask)) = Those(B, Min(mask) .. Max(mask))
    BY DEF Picked, Where, Those
  <2> QED
    BY <1>1, <1>4, <2>1, <2>2 DEF mask, e, B
<1>5. CASE ~Nothing(mode, cond, replace) /\ ~Shortcut(mode, cond, replace)
  <2>1. SelOf(e) = Picked(B, mask, 1, Cardinality(mask))
    BY <1>1, <1>2, <1>5
  <2> QED
    BY <1>1, <2>1, MaskPicked DEF mask, e, B
<1> QED
  BY <1>3, <1>4, <1>5

\* The restriction in force is the sample.
LEMMA CurrentFacts ==
  ASSUME Core
  PROVE  LET here == Where(dset.submask, dset.t1, dset.t2)
         IN  /\ Sel = Those(Base(dset), here) /\ here \subseteq 1 .. Len(Kept(dset))
             /\ CurrentMask(dset) # {} => CurrentMask(dset) = here
             /\ CurrentMask(dset) = {} =>
                  dset.submask = {} /\ ~RangeSet(dset) /\ here = 1 .. Len(Kept(dset))
<1> DEFINE here == Where(dset.submask, dset.t1, dset.t2)
           k == Len(Kept(dset))
<1>1. /\ Sound(dset) /\ k \in Nat /\ Fits(dset.submask, dset.t1, dset.t2, k)
      /\ dset.t1 \in 1 .. Len(dset.Z) /\ dset.t2 \in dset.t1 .. Len(dset.Z) /\ Len(dset.Z) \in Nat
      /\ (dset.submask = {} => Len(dset.Z) = k)
  BY CoreFacts, SoundFacts DEF Sound
<1>2. Sel = Those(Base(dset), here) /\ here \subseteq 1 .. k /\ here # {}
  BY <1>1, SelFacts, WhereFacts DEF Sel, Picked, Those
<1>3. CASE dset.submask # {}
  <2>1. CurrentMask(dset) = here
    BY <1>3 DEF CurrentMask, Where, InRange
  <2> QED
    BY <1>2, <1>3, <2>1
<1>4. CASE dset.submask = {} /\ RangeSet(dset)
  <2>1. CurrentMask(dset) = here
    BY <1>4 DEF CurrentMask, Where, InRange
  <2> QED
    BY <1>2, <1>4, <2>1
<1>5. CASE dset.submask = {} /\ ~RangeSet(dset)
  <2>1. CurrentMask(dset) = {} /\ here = dset.t1 .. dset.t2
    BY <1>5 DEF CurrentMask, Where
  <2>2. dset.t1 = 1 /\ dset.t2 = k
    BY <1>1, <1>5 DEF RangeSet
  <2> QED
    BY <1>2, <1>5, <2>1, <2>2
<1> QED
  BY <1>3, <1>4, <1>5

\* Without --replace, what is left was in use.
LEMMA NewMaskCurrent ==
  ASSUME Core, "misaligned" \notin Faults, NEW mode, NEW cond,
         CanRestrict(mode, cond, FALSE), Admitted(mode, cond, FALSE)
  PROVE  NewMask(mode, cond, FALSE) \subseteq Where(dset.submask, dset.t1, dset.t2)
<1> DEFINE here == Where(dset.submask, dset.t1, dset.t2)
           k == Len(Kept(dset))
           old == CurrentMask(dset)
<1>1. /\ here \subseteq 1 .. k
      /\ old # {} => old = here
      /\ old = {} => dset.submask = {} /\ ~RangeSet(dset) /\ here = 1 .. k
  BY CurrentFacts
<1>2. OldMask(FALSE) = old
  BY DEF OldMask
<1>3. NewMask(mode, cond, FALSE) \subseteq 1 .. k
  BY NewMaskFacts
<1>4. CASE old = {}
  BY <1>1, <1>3, <1>4
<1>5. CASE old # {} /\ ~Precompute(mode, FALSE)
  BY <1>1, <1>2, <1>5 DEF NewMask
<1>6. CASE old # {} /\ Precompute(mode, FALSE) /\ dset.full # << >>
  BY <1>1, <1>2, <1>6 DEF NewMask, Expand
<1>7. CASE old # {} /\ Precompute(mode, FALSE) /\ dset.full = << >>
  <2>1. dset.submask = {}
    BY <1>7, CoreFacts DEF Sound
  <2>2. RangeSet(dset)
    BY <1>7, <2>1 DEF CurrentMask
  <2>3. cond \subseteq InRange(dset)
    BY <1>7, <2>2 DEF Admitted
  <2>4. here = InRange(dset)
    BY <2>1 DEF Where, InRange
  <2> QED
    BY <1>7, <2>3, <2>4 DEF NewMask, Expand
<1> QED
  BY <1>4, <1>5, <1>6, <1>7

\* With it, nothing is left that the function may not use.
LEMMA NewMaskAllowed ==
  ASSUME Bounded, Core, Confined, InCall, NEW mode, NEW cond, NEW replace \in BOOLEAN,
         CanRestrict(mode, cond, replace), Admitted(mode, cond, replace)
  PROVE  Those(Base(dset), NewMask(mode, cond, replace)) \subseteq Allowed(Top)
<1> DEFINE mask == NewMask(mode, cond, replace)
           k == Len(Kept(dset))
           B == Base(dset)
<1>1. "misaligned" \notin Faults /\ "replace" \notin Faults
  BY DEF Bounded
<1>2. mask # {} /\ mask \subseteq 1 .. k
  BY NewMaskFacts
<1>3. CASE replace = FALSE
  <2>1. mask \subseteq Where(dset.submask, dset.t1, dset.t2)
    BY <1>1, <1>3, NewMaskCurrent
  <2>2. Sel = Those(B, Where(dset.submask, dset.t1, dset.t2)) /\ Sel \subseteq Allowed(Top)
    BY CurrentFacts, ConfinedFacts
  <2>3. Those(B, mask) \subseteq Sel
    BY <2>1, <2>2 DEF Those
  <2> QED
    BY <2>2, <2>3
<1>4. CASE replace = TRUE
  <2>1. AllRows
    BY <1>1, <1>4 DEF Admitted
  <2>2. CASE CallMask = {}
    <3>1. Those(B, mask) \subseteq Those(B, 1 .. k)
      BY <1>2 DEF Those
    <3> QED
      BY <2>1, <2>2, <3>1, AllRowsFacts
  <2>3. CASE CallMask # {}
    <3>1. dset.full # << >> /\ OldMask(replace) = CallMask
      BY <1>4, <2>3, MaskFacts DEF OldMask
    <3>2. mask \subseteq CallMask
      BY <2>3, <3>1 DEF NewMask, Expand
    <3>3. Those(B, mask) \subseteq Those(B, CallMask)
      BY <3>2 DEF Those
    <3>4. Those(B, CallMask) = Top.sel
      BY <2>1, <2>3, AllRowsFacts
    <3> QED
      BY <3>3, <3>4 DEF Allowed
  <2> QED
    BY <2>2, <2>3
<1> QED
  BY <1>3, <1>4

\* A restriction leaves part of what the function may use.
LEMMA ConfinedRestrict ==
  ASSUME Bounded, Core, Confined, NEW mode, NEW cond, NEW replace \in BOOLEAN,
         RestrictSample(mode, cond, replace)
  PROVE  Confined'
<1> DEFINE mask == NewMask(mode, cond, replace)
           k == Len(Kept(dset))
           B == Base(dset)
<1>1. /\ CanRestrict(mode, cond, replace) /\ Admitted(mode, cond, replace)
      /\ dset' = Restricted(mode, cond, replace) /\ UNCHANGED frames
  BY DEF RestrictSample
<1>2. /\ Base(dset') = B /\ Sel' = Those(B, mask) /\ mask \subseteq 1 .. k
      /\ dset'.submask = {} \/ (dset'.submask = mask /\ ~Shortcut(mode, cond, replace))
  BY <1>1, RestrictedFacts, RestrictedSel DEF Sel
<1>3. ASSUME InCall PROVE Sel' \subseteq Allowed(Top) /\ Inside(B, Top, dset'.submask)
  <2>1. Sel' \subseteq Allowed(Top)
    BY <1>1, <1>2, <1>3, NewMaskAllowed
  <2>2. CASE dset'.submask = {}
    BY <2>1, <2>2 DEF Inside
  <2>3. CASE dset'.submask = mask /\ ~Shortcut(mode, cond, replace)
    <3>1. Top.added = 0
      <4>1. Top.added \in Nat /\ ~(Top.added > 0)
        BY <1>1, <1>3, <2>3, ExtremaFacts DEF Admitted, Bounded
      <4> QED
        BY <4>1
    <3>2. /\ Recorded(B, k, Top) /\ k = Size(Top) + Top.added /\ Size(Top) \in Nat /\ Sound(dset)
      BY <1>3, CoreFacts DEF Follows
    <3>3. \A t \in mask : B[t] \in Top.obs
      <4> TAKE t \in mask
      <4>1. t \in 1 .. k /\ t <= Size(Top)
        BY <1>2, <3>1, <3>2
      <4> QED
        BY <3>2, <4>1, SelPlaces
    <3>4. Those(B, mask) \subseteq Top.sel
      BY <1>2, <2>1, <3>3 DEF Those, Allowed
    <3> QED
      BY <2>1, <2>3, <3>4 DEF Inside
  <2> QED
    BY <1>2, <2>2, <2>3
<1> QED
  BY <1>1, <1>2, <1>3, ConfinedSame

-----------------------------------------------------------------------------
(***************************************************************************)
(* Calls and new observations.                                             *)
(***************************************************************************)

\* The callers' part of what is confined depends on the observations that there
\* were at the calls.
LEMMA InsideSame ==
  ASSUME NEW n \in Nat, NEW B, NEW C, Agree(B, C, n), NEW f, NEW mask, mask \subseteq 1 .. n, Inside(B, f, mask)
  PROVE  Inside(C, f, mask)
<1>1. Those(B, mask) = Those(C, mask)
  BY DEF Those, Agree
<1> QED
  BY <1>1 DEF Inside

\* An added observation is not among those there were at any call.
LEMMA ConfinedAddObs == ASSUME Core, lastmod \in Model, Confined, AddObs PROVE Confined'
<1> DEFINE n == Len(frames)
           k == Len(Kept(dset))
<1>1. /\ Sound(dset') /\ Len(Kept(dset')) = k + 1 /\ Agree(Base(dset), Base(dset'), k)
      /\ dset.submask = {} /\ k = Len(dset.Z) /\ dset'.submask = {} /\ dset'.t1 = dset.t1
      /\ dset'.t2 = IF dset.t2 = Len(dset.Z) THEN Len(dset.Z) + 1 ELSE dset.t2
      /\ InCall => dset.t2 = Len(dset.Z)
      /\ Base(dset')[k + 1] \in Id \ Known
      /\ frames' = Grown(frames)
  BY AddObsFacts
<1>2. /\ frames \in Seq(Frame) /\ n \in Nat /\ DOMAIN frames = 1 .. n /\ k \in Nat /\ Sound(dset)
      /\ (InCall <=> n > 0)
  BY CoreFacts, LinkedFacts, SoundFacts
<1>3. /\ frames' \in Seq(Frame) /\ Len(frames') = n /\ DOMAIN frames' = 1 .. n
      /\ \A i \in 1 .. n :
           /\ frames'[i].submask = frames[i].submask /\ frames'[i].t2 = frames[i].t2
           /\ frames'[i].n = frames[i].n /\ frames'[i].sel = frames[i].sel /\ frames'[i].obs = frames[i].obs
           /\ frames'[i].added = IF i = n THEN frames[i].added + 1 ELSE frames[i].added
  <2>1. frames' \in Seq(Frame) /\ Len(frames') = n
    BY <1>1, <1>2, GrownFacts
  <2>2. \A i \in 1 .. n :
          /\ frames'[i].submask = frames[i].submask /\ frames'[i].t2 = frames[i].t2
          /\ frames'[i].n = frames[i].n /\ frames'[i].sel = frames[i].sel /\ frames'[i].obs = frames[i].obs
          /\ frames'[i].added = IF i = n THEN frames[i].added + 1 ELSE frames[i].added
    BY <1>1, <1>2, GrownFacts
  <2> QED
    BY <2>1, <2>2, LenProperties
<1>4. CASE ~InCall
  <2>1. frames' = << >>
    BY <1>1, <1>4 DEF Grown, InCall
  <2> QED
    BY <2>1, ConfinedIdle
<1>5. CASE InCall
  <2>1. /\ n \in 1 .. n /\ Top = frames[n] /\ Recorded(Base(dset), k, Top) /\ Size(Top) \in Nat
        /\ Follows(Top, {}, k) /\ Top \in Frame
    BY <1>1, <1>2, <1>5, CoreFacts DEF Top
  <2>2. Top.t2 = Top.n
    <3>1. Top.submask = {} /\ k = Size(Top) + Top.added /\ Top.n = Size(Top) /\ Top.t2 <= Size(Top)
      BY <2>1 DEF Follows, Recorded, Fits
    <3>2. dset.t2 <= Top.t2 + Top.added /\ dset.t2 = k
      BY <1>1, <1>5, <3>1, EndWithin
    <3>3. Top.t2 \in Nat /\ Top.added \in Nat
      BY <2>1 DEF Frame
    <3> QED
      BY <1>2, <2>1, <3>1, <3>2, <3>3
  <2>3. \A i \in 1 .. n : frames'[i].added > 0 => frames'[i].t2 = frames'[i].n
    BY <1>2, <1>3, <2>1, <2>2 DEF Confined
  <2>4. \A i, j \in 1 .. n : i < j => frames'[j].sel \subseteq Allowed(frames'[i])
    BY <1>2, <1>3 DEF Confined, Allowed
  <2>5. \A i \in 1 .. n - 1 : Inside(Base(dset'), frames'[i], frames'[i + 1].submask)
    <3> TAKE i \in 1 .. n - 1
    <3>1. i \in 1 .. n /\ i + 1 \in 1 .. n
      BY <1>2
    <3>2. Inside(Base(dset), frames[i], frames[i + 1].submask)
      BY DEF Confined
    <3>3. frames[i + 1].submask \subseteq 1 .. k
      <4>1. Recorded(Base(dset), k, frames[i + 1])
        BY <3>1, CoreFacts, LinkedFacts
      <4> QED
        BY <1>2, <4>1 DEF Recorded, Fits
    <3>4. Inside(Base(dset'), frames[i], frames[i + 1].submask)
      BY <1>1, <1>2, <3>2, <3>3, InsideSame
    <3> QED
      BY <1>3, <3>1, <3>4 DEF Inside
  <2>6. Sel' \subseteq Sel \cup {Base(dset')[k + 1]}
    <3>1. Sel' = Picked(Base(dset'), {}, dset.t1, k + 1)
      BY <1>1, <1>5, SelFacts DEF Sel
    <3>2. Sel = Picked(Base(dset), {}, dset.t1, k)
      BY <1>1, <1>2, <1>5, SelFacts DEF Sel
    <3>3. dset.t1 \in 1 .. k
      BY <1>1, <1>2, SoundFacts
    <3>4. \A t \in dset.t1 .. k + 1 : t = k + 1 \/ (t \in dset.t1 .. k /\ t \in 1 .. k)
      BY <1>2, <3>3
    <3>5. \A t \in dset.t1 .. k + 1 : t = k + 1 \/ (t \in dset.t1 .. k /\ Base(dset')[t] = Base(dset)[t])
      BY <1>1, <3>4 DEF Agree
    <3> QED
      BY <3>1, <3>2, <3>5 DEF Picked, Where
  <2>7. \A i \in 1 .. n : Sel' \subseteq Allowed(frames'[i])
    <3> TAKE i \in 1 .. n
    <3>1. Sel \subseteq Allowed(frames[i])
      BY <1>2 DEF Confined, WithinCallers, Allowed
    <3>2. Base(dset')[k + 1] \in Allowed(frames[i])
      BY <1>1, <1>2 DEF Known, Allowed
    <3> QED
      BY <1>3, <2>6, <3>1, <3>2 DEF Allowed
  <2>8. WithinCallers'
    BY <1>3, <2>7 DEF WithinCallers, Allowed
  <2>9. InCall' => Inside(Base(dset'), Top', dset'.submask)
    BY <1>1 DEF Inside
  <2> QED
    BY <1>3, <2>3, <2>4, <2>5, <2>8, <2>9 DEF Confined
<1> QED
  BY <1>4, <1>5

\* A call gives the sample of its caller, or part of it, to the function.
LEMMA ConfinedCall == ASSUME Core, Confined, Call PROVE Confined'
<1> DEFINE n == Len(frames)
           f == NewFrame(dset)
           B == Base(dset)
<1>1. frames' = Append(frames, f) /\ dset' = dset
  BY StepCall DEF Call
<1>2. /\ frames \in Seq(Frame) /\ n \in Nat /\ DOMAIN frames = 1 .. n /\ (InCall <=> n > 0)
      /\ f \in Frame /\ f.submask = dset.submask /\ f.sel = Sel /\ f.added = 0
  BY CoreFacts, LinkedFacts, NewFrameFacts DEF Sel
<1> HIDE DEF f
<1>3. /\ Len(frames') = n + 1 /\ DOMAIN frames' = 1 .. n + 1
      /\ \A i \in 1 .. n : frames'[i] = frames[i]
      /\ frames'[n + 1] = f
  BY <1>1, <1>2, AppendProperties, LenProperties
<1>4. \A i \in 1 .. n + 1 : i \in 1 .. n \/ i = n + 1
  BY <1>2
<1>5. \A i \in 1 .. n + 1 : frames'[i].added > 0 => frames'[i].t2 = frames'[i].n
  BY <1>2, <1>3, <1>4 DEF Confined
<1>6. \A i \in 1 .. n + 1 : Sel \subseteq Allowed(frames'[i])
  BY <1>2, <1>3, <1>4 DEF Confined, WithinCallers, Allowed
<1>7. \A i, j \in 1 .. n + 1 : i < j => frames'[j].sel \subseteq Allowed(frames'[i])
  <2> TAKE i, j \in 1 .. n + 1
  <2>1. CASE j = n + 1
    BY <1>2, <1>3, <1>6, <2>1
  <2>2. CASE j # n + 1
    <3>1. i < j => i \in 1 .. n /\ j \in 1 .. n
      BY <1>2, <2>2
    <3> QED
      BY <1>2, <1>3, <3>1 DEF Confined
  <2> QED
    BY <2>1, <2>2
<1>8. \A i \in 1 .. n : Inside(B, frames'[i], frames'[i + 1].submask)
  <2> TAKE i \in 1 .. n
  <2>1. CASE i = n
    <3>1. Inside(B, Top, dset.submask) /\ Top = frames[n]
      BY <1>2, <2>1 DEF Confined, Top
    <3> QED
      BY <1>2, <1>3, <2>1, <3>1
  <2>2. CASE i # n
    <3>1. i \in 1 .. n - 1 /\ i + 1 \in 1 .. n
      <4> HIDE DEF n
      <4> QED
        BY <1>2, <2>2
    <3>2. Inside(B, frames[i], frames[i + 1].submask)
      BY <3>1 DEF Confined
    <3> QED
      BY <1>3, <3>1, <3>2
  <2> QED
    BY <2>1, <2>2
<1>9. WithinCallers'
  BY <1>1, <1>3, <1>6 DEF WithinCallers, Allowed, Sel
<1>10. InCall' => Inside(Base(dset'), Top', dset'.submask)
  <2>1. Top' = f
    BY <1>3 DEF Top
  <2> QED
    BY <1>1, <1>2, <2>1 DEF Inside
<1>11. Len(frames') - 1 = n
  BY <1>2, <1>3
<1> QED
  BY <1>1, <1>3, <1>5, <1>7, <1>8, <1>9, <1>10, <1>11 DEF Confined

\* The end of a function leaves the caller what it had.
LEMMA ConfinedReturn == ASSUME Core, Confined, Return PROVE Confined'
<1> DEFINE n == Len(frames)
           h == Size(Top)
<1>1. /\ InCall /\ Sound(dset') /\ Len(Kept(dset')) = h
      /\ Agree(Base(dset), Base(dset'), h)
      /\ dset'.submask = Top.submask /\ dset'.t1 = Top.t1 /\ dset'.t2 = Top.t2
      /\ frames' = Front(frames)
  BY ReturnFacts
<1>2. /\ frames \in Seq(Frame) /\ n \in Nat /\ DOMAIN frames = 1 .. n /\ frames # << >>
      /\ Top = frames[n] /\ n \in 1 .. n /\ h \in Nat
      /\ Recorded(Base(dset), Len(Kept(dset)), Top)
      /\ \A i \in 1 .. n : Recorded(Base(dset), Len(Kept(dset)), frames[i]) /\ Size(frames[i]) \in Nat
      /\ \A i, j \in 1 .. n : i < j => Size(frames[i]) <= Size(frames[j])
  BY <1>1, CoreFacts, LinkedFacts DEF InCall, Top
<1>3. /\ Len(frames') = n - 1 /\ DOMAIN frames' = 1 .. n - 1
      /\ \A i \in 1 .. n - 1 : frames'[i] = frames[i]
  BY <1>1, <1>2, FrontFacts
<1>4. \A i \in 1 .. n - 1 : i \in 1 .. n /\ i < n
  BY <1>2
<1>5. \A i \in 1 .. n - 1 : frames'[i].added > 0 => frames'[i].t2 = frames'[i].n
  BY <1>2, <1>3, <1>4 DEF Confined
<1>6. \A i, j \in 1 .. n - 1 : i < j => frames'[j].sel \subseteq Allowed(frames'[i])
  BY <1>2, <1>3, <1>4 DEF Confined
<1>7. \A i \in 1 .. n - 1 : Inside(Base(dset'), frames[i], frames[i + 1].submask)
  <2> TAKE i \in 1 .. n - 1
  <2>1. Inside(Base(dset), frames[i], frames[i + 1].submask)
    BY DEF Confined
  <2>2. i + 1 \in 1 .. n /\ (i + 1 = n \/ i + 1 < n)
    <3> HIDE DEF n
    <3> QED
      BY <1>2
  <2>3. Size(frames[i + 1]) <= h
    <3> DEFINE j == i + 1
    <3>1. j \in 1 .. n /\ (j = n \/ j < n)
      BY <2>2
    <3>2. j < n => Size(frames[j]) <= Size(frames[n])
      <4> HIDE DEF j, n
      <4> QED
        BY <1>2, <3>1
    <3>3. Size(frames[n]) = h /\ h <= h
      BY <1>2
    <3> HIDE DEF j
    <3> QED
      BY <3>1, <3>2, <3>3 DEF j
  <2>4. frames[i + 1].submask \subseteq 1 .. h
    <3>1. frames[i + 1].submask \subseteq 1 .. Size(frames[i + 1]) /\ Size(frames[i + 1]) \in Nat
      BY <1>2, <2>2 DEF Recorded, Fits
    <3> QED
      BY <1>2, <2>3, <3>1
  <2> QED
    BY <1>1, <1>2, <2>1, <2>4, InsideSame
<1>8. \A i \in 1 .. n - 2 : Inside(Base(dset'), frames'[i], frames'[i + 1].submask)
  <2> TAKE i \in 1 .. n - 2
  <2>1. i \in 1 .. n - 1 /\ i + 1 \in 1 .. n - 1
    BY <1>2
  <2> QED
    BY <1>3, <1>7, <2>1
<1>9. Sel' = Top.sel
  <2>1. Sel' = Picked(Base(dset'), Top.submask, Top.t1, Top.t2)
    BY <1>1, SelFacts DEF Sel
  <2>2. Picked(Base(dset'), Top.submask, Top.t1, Top.t2) = Picked(Base(dset), Top.submask, Top.t1, Top.t2)
    BY <1>1, <1>2, PickedSame DEF Recorded
  <2> QED
    BY <1>2, <2>1, <2>2 DEF Recorded
<1>10. WithinCallers'
  <2>1. \A i \in 1 .. n - 1 : Top.sel \subseteq Allowed(frames[i])
    BY <1>2, <1>4 DEF Confined
  <2> QED
    BY <1>3, <1>9, <2>1 DEF WithinCallers, Allowed
<1>11. InCall' => Inside(Base(dset'), Top', dset'.submask)
  <2> SUFFICES ASSUME InCall' PROVE Inside(Base(dset'), Top', Top.submask)
    BY <1>1
  <2>1. n - 1 \in 1 .. n - 1
    <3>1. frames' # << >> /\ frames' \in Seq(Frame)
      BY <1>1, <1>2, FrontFacts DEF InCall
    <3>2. Len(frames') # 0
      BY <3>1, EmptySeq
    <3> QED
      BY <1>2, <1>3, <3>2
  <2>2. Top' = frames[n - 1] /\ (n - 1) + 1 = n
    BY <1>2, <1>3, <2>1 DEF Top
  <2> QED
    BY <1>2, <1>7, <2>1, <2>2
<1>12. Len(frames') - 1 = n - 2
  BY <1>2, <1>3
<1> QED
  BY <1>3, <1>5, <1>6, <1>8, <1>10, <1>11, <1>12 DEF Confined

\* Every step leaves the functions within the samples of their callers.
LEMMA StepConfined == ASSUME Bounded, Steady, Confined, [Next]_vars PROVE Confined'
<1>1. Core /\ lastmod \in Model /\ Regular
  BY DEF Steady, Bounded, Regular
<1>2. ASSUME UNCHANGED <<dset, frames>> PROVE Confined'
  BY <1>2 DEF Confined, WithinCallers, Sel, InCall, Top
<1>3. ASSUME ~InCall, UNCHANGED frames PROVE Confined'
  BY <1>3, ConfinedIdle DEF InCall
<1>4. ASSUME Next PROVE Confined'
  <2>1. CASE PermaSample
    BY <1>3, <2>1 DEF PermaSample, Permanent
  <2>2. CASE Full
    BY <1>1, <2>2, ConfinedFull
  <2>3. CASE RestrictFails
    BY <1>1, <2>3, ConfinedFails
  <2>4. CASE \E a \in Id : SetStart(a)
    BY <1>1, <2>4, ConfinedSetStart
  <2>5. CASE \E a, b \in Id, permanent \in BOOLEAN : SetSample(a, b, permanent)
    BY <1>1, <2>5, ConfinedSetSample
  <2>6. ASSUME NEW mode, NEW cond, NEW replace \in BOOLEAN, RestrictSample(mode, cond, replace)
        PROVE  Confined'
    BY <1>1, <2>6, ConfinedRestrict
  <2>7. ASSUME NEW mode, NEW cond, NEW replace, RestrictPermanently(mode, cond, replace)
        PROVE  Confined'
    BY <1>3, <2>7 DEF RestrictPermanently
  <2>8. CASE Genr \/ AddSeries \/ DropSeries
    <3>1. /\ Sound(dset') /\ Base(dset') = Base(dset)
          /\ dset'.submask = dset.submask /\ dset'.t1 = dset.t1 /\ dset'.t2 = dset.t2
          /\ UNCHANGED frames
      BY <1>1, <2>8, StepGenr, StepAddSeries, StepDropSeries DEF Core
    <3> QED
      BY <1>1, <3>1, ConfinedStill
  <2>9. CASE AddObs
    BY <1>1, <2>9, ConfinedAddObs
  <2>10. CASE Estimate
    BY <1>2, <2>10 DEF Estimate
  <2>11. CASE Call
    BY <1>1, <2>11, ConfinedCall
  <2>12. CASE Return
    BY <1>1, <2>12, ConfinedReturn
  <2> QED
    BY <1>4, <2>1, <2>2, <2>3, <2>4, <2>5, <2>6, <2>7, <2>8, <2>9, <2>10, <2>11, <2>12 DEF Next
<1> QED
  BY <1>2, <1>4 DEF vars

\* A function, and those it calls, use the observations that each of its callers
\* had in use, and those added since: smpl does not overstep "the bounds set on
\* entry" (gretl_func.c), neither by its bounds nor by a restriction.
THEOREM CallersBound == ASSUME Bounded PROVE Spec => []WithinCallers
<1>1. Init => Steady /\ Confined
  <2>1. Init => InCall = FALSE /\ frames = << >>
    BY DEF Init, InCall
  <2>2. frames = << >> => Confined
    <3>1. frames = << >> => DOMAIN frames = {} /\ Len(frames) = 0 /\ ~InCall
      BY EmptySeq DEF InCall
    <3> QED
      BY <3>1 DEF Confined, WithinCallers
  <2> QED
    BY <2>1, <2>2, InitSteady
<1>2. Steady /\ Confined /\ [Next]_vars => (Steady /\ Confined)'
  BY StepSteady, StepConfined DEF Bounded, Regular
<1>3. Confined => WithinCallers
  BY DEF Confined
<1> QED
  BY <1>1, <1>2, <1>3, PTL DEF Spec
-----------------------------------------------------------------------------
(***************************************************************************)
(* Restrictions cumulate.                                                  *)
(***************************************************************************)

\* The places of a condition on the rows in use.
CondPlaces(cond) ==
    IF dset.submask = {} THEN cond ELSE {t \in dset.submask : Rank(dset.submask, t) \in cond}

\* The rows in use where a condition holds, in the full dataset.
LEMMA CondFacts ==
  ASSUME Core, NEW cond, cond \subseteq 1 .. Len(dset.Z)
  PROVE  /\ CondPlaces(cond) \subseteq 1 .. Len(Kept(dset))
         /\ Ids(dset.Z, cond) = Those(Base(dset), CondPlaces(cond))
<1>1. /\ Sound(dset) /\ dset.submask \subseteq 1 .. Len(Kept(dset))
      /\ (dset.submask = {} => Len(dset.Z) = Len(Kept(dset)))
  BY CoreFacts, SoundFacts
<1>2. Ids(dset.Z, cond) = IF dset.submask = {} THEN {Base(dset)[t] : t \in cond}
                          ELSE {Base(dset)[t] : t \in {s \in dset.submask : Rank(dset.submask, s) \in cond}}
  BY <1>1, SelFacts
<1> QED
  BY <1>1, <1>2 DEF CondPlaces, Those

\* A condition on all of the rows.
LEMMA AllPlaces ==
  ASSUME Core, NEW cond, cond \subseteq 1 .. Len(Kept(dset))
  PROVE  Ids(FullRows(dset), cond) = Those(Base(dset), cond)
<1>1. DOMAIN FullRows(dset) = 1 .. Len(Kept(dset)) /\ IdsOf(FullRows(dset)) = Base(dset)
  BY CoreFacts, RowsFacts
<1>2. \A t \in cond : FullRows(dset)[t].id = Base(dset)[t]
  BY <1>1 DEF IdsOf
<1> QED
  BY <1>2 DEF Ids, Those

\* Different places are different observations.
LEMMA ThoseMeet ==
  ASSUME Core, NEW X, NEW Y, X \subseteq 1 .. Len(Kept(dset)), Y \subseteq 1 .. Len(Kept(dset))
  PROVE  Those(Base(dset), X \cap Y) = Those(Base(dset), X) \cap Those(Base(dset), Y)
<1>1. \A s \in X : \A t \in Y : Base(dset)[s] = Base(dset)[t] => s = t
  BY CoreFacts, Distinct
<1> QED
  BY <1>1 DEF Those

\* The invariant of the dataset suffices for restrictions to cumulate.
LEMMA CoreCumulates == ASSUME Core, "misaligned" \notin Faults PROVE Cumulates
<1> DEFINE here == Where(dset.submask, dset.t1, dset.t2)
           k == Len(Kept(dset))
           B == Base(dset)
           old == CurrentMask(dset)
<1>1. /\ Sel = Those(B, here) /\ here \subseteq 1 .. k
      /\ old # {} => old = here
      /\ old = {} => dset.submask = {} /\ ~RangeSet(dset) /\ here = 1 .. k
  BY CurrentFacts
<1>2. /\ DOMAIN dset.Z = 1 .. Len(dset.Z) /\ DOMAIN FullRows(dset) = 1 .. k
      /\ (dset.submask = {} <=> dset.full = << >>)
      /\ (dset.submask = {} => Len(dset.Z) = k) /\ Len(dset.Z) \in Nat
      /\ dset.t1 \in 1 .. Len(dset.Z) /\ dset.t2 \in dset.t1 .. Len(dset.Z)
      /\ dset.submask \subseteq 1 .. k /\ k \in Nat
      /\ (dset.submask # {} => Len(dset.Z) = Cardinality(dset.submask))
  BY CoreFacts, SoundFacts, RowsFacts DEF Sound
<1>3. ASSUME NEW mode \in {"boolean", "dummy"}, NEW cond \in SUBSET Id,
             CanRestrict(mode, cond, FALSE), Admitted(mode, cond, FALSE)
      PROVE  SelOf(Restricted(mode, cond, FALSE)) =
                Sel \cap Ids(IF mode = "boolean" THEN dset.Z ELSE FullRows(dset), cond)
  <2> DEFINE mask == NewMask(mode, cond, FALSE)
  <2>1. SelOf(Restricted(mode, cond, FALSE)) = Those(B, mask) /\ OldMask(FALSE) = old
    BY <1>3, RestrictedSel DEF OldMask
  <2>2. CASE mode = "dummy"
    <3>1. cond \subseteq 1 .. k
      BY <1>2, <1>3, <2>2 DEF CanRestrict, Precompute
    <3>2. mask = here \cap cond
      BY <1>1, <2>1, <2>2, <3>1 DEF NewMask, Precompute
    <3>3. Those(B, mask) = Those(B, here) \cap Those(B, cond)
      BY <1>1, <3>1, <3>2, ThoseMeet
    <3>4. Ids(FullRows(dset), cond) = Those(B, cond)
      BY <3>1, AllPlaces
    <3> QED
      BY <1>1, <2>1, <2>2, <3>3, <3>4
  <2>3. CASE mode = "boolean"
    <3>1. cond \subseteq 1 .. Len(dset.Z) /\ (old = {} => dset.submask = {})
      <4>1. CASE old = {}
        BY <1>1, <1>2, <1>3, <2>1, <4>1 DEF CanRestrict, Precompute
      <4>2. CASE old # {}
        BY <1>2, <1>3, <2>1, <2>3, <4>2 DEF CanRestrict, Precompute
      <4> QED
        BY <1>1, <4>1, <4>2
    <3>2. CondPlaces(cond) \subseteq 1 .. k /\ Ids(dset.Z, cond) = Those(B, CondPlaces(cond))
      BY <3>1, CondFacts
    <3>3. mask = here \cap CondPlaces(cond)
      <4>1. CASE old = {}
        BY <1>1, <1>2, <2>1, <3>1, <4>1 DEF NewMask, Precompute, CondPlaces
      <4>2. CASE old # {} /\ dset.submask = {}
        <5>1. RangeSet(dset) /\ here = InRange(dset)
          BY <4>2 DEF CurrentMask, Where, InRange
        <5>2. cond \subseteq InRange(dset)
          BY <1>2, <1>3, <2>1, <2>3, <4>2, <5>1 DEF Admitted, Precompute
        <5> QED
          BY <1>2, <2>1, <2>3, <4>2, <5>1, <5>2 DEF NewMask, Precompute, Expand, CondPlaces
      <4>3. CASE old # {} /\ dset.submask # {}
        <5>1. ~RangeSet(dset)
          BY <1>2, <1>3, <2>1, <2>3, <4>3 DEF Admitted, Precompute
        <5>2. dset.t1 = 1 /\ dset.t2 = Len(dset.Z)
          BY <1>2, <5>1 DEF RangeSet
        <5>3. here = dset.submask
          BY <1>2, <4>3, <5>2, RankFacts DEF Where
        <5> QED
          BY <1>1, <1>2, <2>1, <2>3, <4>3, <5>3 DEF NewMask, Precompute, Expand, CondPlaces
      <4> QED
        BY <4>1, <4>2, <4>3
    <3>4. Those(B, mask) = Those(B, here) \cap Those(B, CondPlaces(cond))
      BY <1>1, <3>2, <3>3, ThoseMeet
    <3> QED
      BY <1>1, <2>1, <2>3, <3>2, <3>4
  <2> QED
    BY <2>2, <2>3
<1> QED
  BY <1>3 DEF Cumulates

\* A restriction leaves what was in use and fulfils the condition, "the logical
\* product of the new restriction and any existing restriction"
\* (restrict_sample()), on whichever rows the condition was computed.
THEOREM RestrictionsCumulate == ASSUME Aligned PROVE Spec => []Cumulates
<1>1. Init => Steady
  BY InitSteady
<1>2. Steady /\ [Next]_vars => Steady'
  BY StepSteady DEF Aligned
<1>3. Steady => Cumulates
  BY CoreCumulates DEF Steady, Aligned
<1> QED
  BY <1>1, <1>2, <1>3, PTL DEF Spec
-----------------------------------------------------------------------------
(***************************************************************************)
(* The last model.                                                         *)
(***************************************************************************)

\* A model whose mask is that of a dataset, as far as the shorter one goes, is
\* about the rows at its places.
LEMMA SameRows ==
  ASSUME NEW d, Sound(d), NEW fs, NEW m \in Model, Estimated(Base(d), Len(Kept(d)), fs, m),
         m # NoModel, SameMask(m.submask, m.n, d.submask, Len(d.full))
  PROVE  m.t2 \in m.t1 .. Len(d.Z) /\ m.t1 \in 1 .. Len(d.Z) /\ Ids(d.Z, m.t1 .. m.t2) = m.ids
<1> DEFINE k == Len(Kept(d))
           B == Base(d)
           p == m.submask
           q == d.submask
           a == m.t1
           b == m.t2
           n == Length(m)
<1>1. /\ n \in 1 .. k /\ Fits(p, a, b, n) /\ m.ids = Picked(B, p, a, b) /\ k \in Nat
      /\ a \in Nat /\ b \in Nat /\ 1 <= a /\ a <= b /\ p \subseteq 1 .. n
      /\ b <= (IF p = {} THEN n ELSE Cardinality(p))
  BY SoundFacts DEF Estimated, Fits
<1>2. /\ q \subseteq 1 .. k /\ Len(d.Z) = (IF q = {} THEN k ELSE Cardinality(q)) /\ Len(d.Z) \in Nat
  BY SoundFacts
<1>3. ASSUME b <= Len(d.Z)
      PROVE  /\ b \in a .. Len(d.Z) /\ a \in 1 .. Len(d.Z)
             /\ Ids(d.Z, a .. b) = Picked(B, q, a, b)
  <2>1. a .. b \subseteq 1 .. Len(d.Z) /\ b \in a .. Len(d.Z) /\ a \in 1 .. Len(d.Z)
    BY <1>1, <1>2, <1>3
  <2>2. Ids(d.Z, a .. b) = IF q = {} THEN {B[t] : t \in a .. b}
                           ELSE {B[t] : t \in {s \in q : Rank(q, s) \in a .. b}}
    BY <2>1, SelFacts
  <2> QED
    BY <2>1, <2>2 DEF Picked, Where
<1>4. CASE p = {} /\ q = {}
  <2>1. b <= Len(d.Z)
    BY <1>1, <1>2, <1>4 DEF Length
  <2> QED
    BY <1>1, <1>3, <1>4, <2>1
<1>5. CASE p # {} /\ q # {}
  <2>1. n = m.n /\ Len(d.full) = k
    <3>1. d.full # << >>
      BY <1>5 DEF Sound
    <3> QED
      BY <1>5, <3>1 DEF Length, Kept
  <2>2. p \cap (1 .. k) = q \cap (1 .. n)
    BY <1>5, <2>1 DEF SameMask
  <2>3. p = q \cap (1 .. n)
    BY <1>1, <2>2
  <2>4. /\ IsFiniteSet(q) /\ Cardinality(p) <= Cardinality(q)
        /\ Cardinality(p) \in Nat /\ Cardinality(q) \in Nat
    <3>1. IsFiniteSet(q) /\ p \in SUBSET q
      BY <1>1, <1>2, <2>3, RankFacts
    <3> QED
      BY <3>1, FS_Subset, FS_CardinalityType
  <2>5. b <= Len(d.Z)
    BY <1>1, <1>2, <1>5, <2>4
  <2>6. \A t \in q : t \in Nat /\ t <= k
    BY <1>1, <1>2
  <2>7. ASSUME NEW t \in p PROVE Rank(p, t) = Rank(q, t)
    <3>1. t <= n /\ t \in Nat /\ n \in Nat
      BY <1>1, <2>7
    <3>2. \A s \in q : s <= t => s \in p
      <4> TAKE s \in q
      <4>1. s <= t => s \in 1 .. n
        BY <1>2, <2>6, <3>1
      <4> QED
        BY <2>3, <4>1
    <3>3. {s \in p : s <= t} = {s \in q : s <= t}
      BY <2>3, <3>2
    <3> QED
      BY <3>3 DEF Rank
  <2>8. ASSUME NEW t \in q, t \notin p PROVE Rank(q, t) > Cardinality(p)
    <3>1. ~(t <= n) /\ t \in Nat /\ n \in Nat
      BY <1>1, <1>2, <2>3, <2>8
    <3>2. p \in SUBSET {s \in q : s <= t}
      <4>1. \A s \in p : s \in q /\ s \in Nat /\ s <= n
        BY <1>1, <2>3
      <4>2. \A s \in p : s <= t
        BY <3>1, <4>1
      <4> QED
        BY <4>1, <4>2
    <3> DEFINE X == {s \in q : s <= t}
    <3>3. IsFiniteSet(X) /\ Cardinality(X) \in Nat /\ X # p
      <4>1. X \in SUBSET q
        OBVIOUS
      <4>2. t \in X
        BY <3>1
      <4> QED
        BY <2>4, <2>8, <4>1, <4>2, FS_Subset, FS_CardinalityType
    <3>4. Cardinality(p) <= Cardinality(X) /\ Cardinality(p) # Cardinality(X)
      <4> HIDE DEF X
      <4>1. p \in SUBSET X
        BY <3>2 DEF X
      <4> QED
        BY <3>3, <4>1, FS_Subset
    <3> QED
      BY <2>4, <3>3, <3>4 DEF Rank
  <2>9. Where(q, a, b) = Where(p, a, b)
    <3>1. \A t \in q : Rank(q, t) \in a .. b => t \in p
      <4> TAKE t \in q
      <4>1. Rank(q, t) \in a .. b => ~(Rank(q, t) > Cardinality(p))
        BY <1>1, <1>5, <2>4
      <4> QED
        BY <2>8, <4>1
    <3> QED
      BY <1>5, <2>3, <2>7, <3>1 DEF Where
  <2> QED
    BY <1>1, <1>3, <2>5, <2>9 DEF Picked
<1> QED
  BY <1>4, <1>5 DEF SameMask

\* The model is about observations that all of the calls have seen.
LEMMA ModelKept ==
  ASSUME Core, lastmod \in Model, Modelled, UNCHANGED lastmod,
         NEW j \in Nat, j <= Len(Kept(dset)), j <= Len(Kept(dset')),
         Agree(Base(dset), Base(dset'), j), lastmod # NoModel => Length(lastmod) <= j,
         lastmod # NoModel => \A i \in DOMAIN frames' : Length(lastmod) <= Size(frames'[i])
  PROVE  Modelled'
<1> SUFFICES ASSUME lastmod # NoModel PROVE Modelled'
  BY DEF Modelled, Estimated
<1> DEFINE m == lastmod
           n == Length(m)
           B == Base(dset)
<1>1. /\ n \in 1 .. Len(Kept(dset)) /\ Fits(m.submask, m.t1, m.t2, n)
      /\ m.ids = Picked(B, m.submask, m.t1, m.t2)
  BY DEF Modelled, Estimated
<1>2. Agree(B, Base(dset'), n) /\ n \in Nat /\ 1 <= n /\ n <= j
  BY <1>1 DEF Agree
<1>3. Picked(B, m.submask, m.t1, m.t2) = Picked(Base(dset'), m.submask, m.t1, m.t2)
  BY <1>1, <1>2, PickedSame
<1>4. Len(Kept(dset')) \in Nat => n \in 1 .. Len(Kept(dset'))
  BY <1>2
<1>5. Estimated(Base(dset'), Len(Kept(dset')), frames', m)
  BY <1>1, <1>3, <1>4 DEF Estimated
<1> QED
  BY <1>5 DEF Modelled

\* The same observations and records.
LEMMA ModelSame ==
  ASSUME Core, lastmod \in Model, Modelled, UNCHANGED <<lastmod, frames>>, SameBase
  PROVE  Modelled'
BY DEF Modelled, Estimated, SameBase

\* A model that is fixed up, in the main script, is about the rows there are.
LEMMA ModelFixed ==
  ASSUME Core, lastmod \in Model, Modelled, ~InCall, UNCHANGED frames,
         NEW d, Sound(d), Base(d) = Base(dset), Len(Kept(d)) = Len(Kept(dset)),
         NEW mask, NEW n, d.submask = mask, mask # {} => n = Len(d.full),
         lastmod' = CheckModel(mask, n), mask # {},
         Sound(dset'), dset'.Z = d.Z, dset'.submask = {}
  PROVE  Modelled'
<1>1. CASE lastmod' = NoModel
  BY <1>1 DEF Modelled, Estimated
<1>2. CASE lastmod' # NoModel
  <2> DEFINE m == lastmod
             w == [m EXCEPT !.submask = {}]
  <2>1. lastmod # NoModel /\ SameMask(m.submask, m.n, d.submask, Len(d.full)) /\ lastmod' = w
    BY <1>2 DEF CheckModel
  <2>2. Estimated(Base(d), Len(Kept(d)), frames, m)
    BY DEF Modelled
  <2>3. m.t2 \in m.t1 .. Len(d.Z) /\ m.t1 \in 1 .. Len(d.Z) /\ Ids(d.Z, m.t1 .. m.t2) = m.ids
    BY <2>1, <2>2, SameRows
  <2>4. w.submask = {} /\ w.t1 = m.t1 /\ w.t2 = m.t2 /\ w.ids = m.ids
    BY DEF Model
  <2>5. Len(d.Z) = Len(Kept(dset')) /\ Len(d.Z) \in Nat /\ DOMAIN d.Z = 1 .. Len(d.Z) /\ Base(dset') = IdsOf(d.Z)
    BY SoundFacts DEF Sound, Kept, Base
  <2> HIDE DEF w
  <2>6. Length(w) = m.t2 /\ Length(w) \in 1 .. Len(Kept(dset')) /\ Fits({}, m.t1, m.t2, Length(w))
    BY <2>3, <2>4, <2>5 DEF Length, Fits
  <2>7. Picked(IdsOf(d.Z), {}, m.t1, m.t2) = Ids(d.Z, m.t1 .. m.t2)
    <3>1. \A t \in m.t1 .. m.t2 : t \in DOMAIN d.Z
      BY <2>3, <2>5
    <3>2. \A t \in m.t1 .. m.t2 : IdsOf(d.Z)[t] = d.Z[t].id
      BY <3>1 DEF IdsOf
    <3> QED
      BY <3>2 DEF Picked, Where, Ids
  <2>8. frames' = << >> /\ DOMAIN frames' = {}
    BY EmptySeq DEF InCall
  <2>9. Estimated(Base(dset'), Len(Kept(dset')), frames', w)
    BY <2>3, <2>4, <2>5, <2>6, <2>7, <2>8 DEF Estimated
  <2> QED
    BY <2>1, <2>9 DEF Modelled
<1> QED
  BY <1>1, <1>2

\* perma_sample(): a range is made permanent when there is no model.
LEMMA ModelPermanent ==
  ASSUME Untrimmed, Core, lastmod \in Model, Modelled, ~InCall, Sound(dset'),
         NEW d, Sound(d), Base(d) = Base(dset), Len(Kept(d)) = Len(Kept(dset)), Permanent(d)
  PROVE  Modelled'
<1>1. /\ d.submask = {} /\ RangeSet(d) => lastmod = NoModel
      /\ dset' = IF d.submask = {} THEN Whole(SubSeq(d.Z, d.t1, d.t2))
                 ELSE [d EXCEPT !.submask = {}, !.full = << >>]
      /\ lastmod' = IF d.submask = {} THEN lastmod
                    ELSE CheckModel(d.submask, Len(d.full))
      /\ UNCHANGED frames
  BY DEF Permanent, Untrimmed
<1>2. CASE d.submask = {} /\ RangeSet(d)
  BY <1>1, <1>2 DEF Modelled, Estimated
<1>3. CASE d.submask = {} /\ ~RangeSet(d)
  <2> DEFINE Z == SubSeq(d.Z, d.t1, d.t2)
             k == Len(d.Z)
  <2>1. /\ k \in Nat /\ d.t1 \in 1 .. k /\ d.t2 \in d.t1 .. k /\ Kept(d) = d.Z
        /\ d.t1 = 1 /\ d.t2 = k /\ DOMAIN d.Z = 1 .. k /\ Base(d) = IdsOf(d.Z)
    <3>1. Sound(d)
      BY DEF Core
    <3>2. k \in Nat /\ d.t1 \in 1 .. k /\ d.t2 \in d.t1 .. k /\ DOMAIN d.Z = 1 .. k
      BY <3>1, SoundFacts
    <3>3. d.t1 = 1 /\ d.t2 = k
      BY <1>3, <3>2 DEF RangeSet
    <3>4. Kept(d) = d.Z
      BY <1>3, <3>1 DEF Kept, Sound
    <3>5. Base(d) = IdsOf(d.Z)
      BY <3>4 DEF Base
    <3> QED
      BY <3>2, <3>3, <3>4, <3>5
  <2>2. /\ Z \in Seq(Row) /\ Z # << >> /\ Len(Z) = d.t2 - d.t1 + 1 /\ DOMAIN Z = 1 .. d.t2 - d.t1 + 1
        /\ \A t \in 1 .. d.t2 - d.t1 + 1 : Z[t] = d.Z[d.t1 + t - 1]
        /\ Ordered(IdsOf(Z)) /\ Having(Z, HasY(d.Z))
    BY <2>1, PartSound
  <2>3. Base(Whole(Z)) = IdsOf(Z) /\ Kept(Whole(Z)) = Z
    <3> HIDE DEF Z
    <3> QED
      BY <2>2, WholeSound
  <2> HIDE DEF Z, k
  <2>4. Len(Z) = k /\ DOMAIN Z = 1 .. k /\ \A t \in 1 .. k : Z[t] = d.Z[t]
    <3>1. d.t2 - d.t1 + 1 = k /\ \A t \in 1 .. k : d.t1 + t - 1 = t
      BY <2>1
    <3> QED
      BY <2>2, <3>1
  <2>5. IdsOf(Z) = IdsOf(d.Z)
    BY <2>1, <2>4 DEF IdsOf
  <2>6. SameBase
    <3>1. dset' = Whole(Z)
      BY <1>1, <1>3 DEF Z
    <3> QED
      BY <2>1, <2>3, <2>4, <2>5, <3>1 DEF SameBase, k
  <2> QED
    BY <1>1, <1>3, <2>6, ModelSame
<1>4. CASE d.submask # {}
  <2>1. dset'.Z = d.Z /\ dset'.submask = {}
    <3>1. d \in Dataset
      BY DEF Sound
    <3> QED
      BY <1>1, <1>4, <3>1 DEF Dataset
  <2> QED
    BY <1>1, <1>4, <2>1, ModelFixed
<1> QED
  BY <1>2, <1>3, <1>4

\* smpl --permanent alone.
LEMMA ModelPerma == ASSUME Untrimmed, Core, lastmod \in Model, Modelled, PermaSample PROVE Modelled'
<1>1. Sound(dset') /\ Sound(dset)
  BY CoreFacts, StepPerma DEF Core
<1> QED
  BY <1>1, ModelPermanent DEF PermaSample

\* smpl with two bounds, permanent or not.
LEMMA ModelSetSample ==
  ASSUME Untrimmed, Core, lastmod \in Model, Modelled,
         NEW a \in Id, NEW b \in Id, NEW permanent \in BOOLEAN, SetSample(a, b, permanent)
  PROVE  Modelled'
<1> DEFINE d == Ranged(dset, a, b)
<1>0. Regular
  BY DEF Untrimmed
<1>1. Sound(d) /\ Base(d) = Base(dset) /\ Kept(d) = Kept(dset)
  BY <1>0, SetSampleFacts, CoreFacts, RangeSound
<1> HIDE DEF d
<1>2. IF permanent /\ ~InCall THEN Permanent(d)
      ELSE dset' = d /\ UNCHANGED <<frames, ylev, lastmod>>
  BY DEF SetSample, d, Ranged
<1>3. CASE permanent /\ ~InCall
  <2>1. Sound(dset')
    BY <1>0, StepSetSample DEF Core
  <2> QED
    BY <1>1, <1>2, <1>3, <2>1, ModelPermanent
<1>4. CASE ~(permanent /\ ~InCall)
  BY <1>1, <1>2, <1>4, ModelSame DEF SameBase
<1> QED
  BY <1>3, <1>4

\* A permanent restriction.
LEMMA ModelRestrict ==
  ASSUME Core, lastmod \in Model, Modelled, NEW mode, NEW cond, NEW replace,
         RestrictPermanently(mode, cond, replace)
  PROVE  Modelled'
<1> DEFINE mask == NewMask(mode, cond, replace)
           all == RestoreFull(dset)
<1>1. /\ ~InCall /\ CanRestrict(mode, cond, replace) /\ UNCHANGED frames
      /\ \/ dset' = all /\ UNCHANGED lastmod
         \/ dset' = Whole(Copy(all.Z, mask)) /\ lastmod' = CheckModel(mask, Len(all.Z))
  BY DEF RestrictPermanently
<1>2. /\ Sound(all) /\ Base(all) = Base(dset) /\ Len(Kept(all)) = Len(Kept(dset))
      /\ all.full = << >> /\ mask # {} /\ mask \subseteq 1 .. Len(Kept(all))
  BY <1>1, CoreFacts, RestoreSound, NewMaskFacts
<1>3. CASE dset' = all /\ UNCHANGED lastmod
  BY <1>1, <1>2, <1>3, ModelSame DEF SameBase
<1>4. CASE dset' = Whole(Copy(all.Z, mask)) /\ lastmod' = CheckModel(mask, Len(all.Z))
  <2> DEFINE e == FromMask(all, mask)
  <2> HIDE DEF all, mask
  <2>1. /\ Sound(e) /\ Base(e) = Base(all) /\ Kept(e) = Kept(all)
        /\ e.Z = Copy(all.Z, mask) /\ e.submask = mask /\ e.full = all.Z
    BY <1>2, MaskSound
  <2>2. Sound(dset') /\ dset'.Z = e.Z /\ dset'.submask = {}
    <3>1. Sound(dset')
      BY StepRestrictPermanently DEF Core
    <3> QED
      BY <1>4, <2>1, <3>1 DEF Whole
  <2> HIDE DEF e
  <2> QED
    BY <1>1, <1>2, <1>4, <2>1, <2>2, ModelFixed
<1> QED
  BY <1>1, <1>3, <1>4

\* A new model is about the sample in use, and there are no calls.
LEMMA ModelEstimate == ASSUME Core, Estimate PROVE Modelled'
<1> DEFINE k == Len(Kept(dset))
<1>1. /\ UNCHANGED <<dset, frames>> /\ frames = << >>
      /\ lastmod' = [submask |-> dset.submask, n |-> Len(dset.full),
                     t1 |-> dset.t1, t2 |-> dset.t2, ids |-> Sel]
  BY DEF Estimate, InCall
<1>2. /\ Sound(dset) /\ k \in Nat /\ Fits(dset.submask, dset.t1, dset.t2, k)
      /\ (dset.submask # {} => Len(dset.full) = k)
      /\ dset.t1 \in 1 .. Len(dset.Z) /\ dset.t2 \in dset.t1 .. Len(dset.Z) /\ Len(dset.Z) \in Nat
      /\ dset.submask \subseteq 1 .. k
  BY CoreFacts, SoundFacts DEF Sound, Kept
<1>3. Sel = Picked(Base(dset), dset.submask, dset.t1, dset.t2)
  BY <1>2, SelFacts DEF Sel
<1>4. DOMAIN frames = {}
  BY <1>1, EmptySeq
<1> DEFINE m == lastmod'
<1>5. /\ m.submask = dset.submask /\ m.t1 = dset.t1 /\ m.t2 = dset.t2 /\ m.n = Len(dset.full)
      /\ m.ids = Sel
  BY <1>1
<1> HIDE DEF m
<1>6. Length(m) \in 1 .. k /\ Fits(m.submask, m.t1, m.t2, Length(m))
  <2>1. CASE dset.submask = {}
    BY <1>2, <1>5, <2>1 DEF Length, Fits
  <2>2. CASE dset.submask # {}
    <3>1. Cardinality(dset.submask) \in 1 .. k
      BY <1>2, <2>2, RankFacts
    <3> QED
      BY <1>2, <1>5, <2>2, <3>1 DEF Length
  <2> QED
    BY <2>1, <2>2
<1>7. Estimated(Base(dset), k, frames, m)
  BY <1>3, <1>4, <1>5, <1>6 DEF Estimated
<1> QED
  BY <1>1, <1>7 DEF Modelled, m

\* An added observation is after those the model is about.
LEMMA ModelAddObs == ASSUME Core, lastmod \in Model, Modelled, AddObs PROVE Modelled'
<1> DEFINE k == Len(Kept(dset))
<1>1. /\ Len(Kept(dset')) = k + 1 /\ Agree(Base(dset), Base(dset'), k)
      /\ frames' = Grown(frames) /\ UNCHANGED lastmod /\ k \in Nat
  BY AddObsFacts, CoreFacts, SoundFacts
<1>2. /\ frames \in Seq(Frame) /\ DOMAIN frames' = DOMAIN frames
      /\ \A i \in DOMAIN frames : Size(frames'[i]) = Size(frames[i])
  <2>1. frames \in Seq(Frame)
    BY CoreFacts, LinkedFacts
  <2>2. /\ frames' \in Seq(Frame) /\ Len(frames') = Len(frames)
        /\ \A i \in 1 .. Len(frames) : frames'[i].obs = frames[i].obs
    BY <1>1, <2>1, GrownFacts
  <2> QED
    BY <2>1, <2>2, LenProperties DEF Size
<1>3. lastmod # NoModel =>
        /\ Length(lastmod) <= k
        /\ \A i \in DOMAIN frames' : Length(lastmod) <= Size(frames'[i])
  BY <1>1, <1>2 DEF Modelled, Estimated
<1>4. k <= Len(Kept(dset')) /\ k <= k
  BY <1>1
<1> QED
  BY <1>1, <1>3, <1>4, ModelKept

\* A call has seen the observations that the model is about.
LEMMA ModelCall == ASSUME Core, lastmod \in Model, Modelled, Call PROVE Modelled'
<1> DEFINE k == Len(Kept(dset))
           f == NewFrame(dset)
<1>1. frames' = Append(frames, f) /\ UNCHANGED <<dset, lastmod>> /\ Size(f) = k /\ f \in Frame
  BY StepCall, CoreFacts, NewFrameFacts DEF Call
<1>2. frames \in Seq(Frame) /\ Len(frames) \in Nat /\ DOMAIN frames = 1 .. Len(frames) /\ k \in Nat
  BY CoreFacts, LinkedFacts, SoundFacts
<1> HIDE DEF f
<1>3. /\ DOMAIN frames' = 1 .. Len(frames) + 1
      /\ \A i \in 1 .. Len(frames) : frames'[i] = frames[i]
      /\ frames'[Len(frames) + 1] = f
  BY <1>1, <1>2, AppendProperties, LenProperties
<1>4. lastmod # NoModel =>
        /\ Length(lastmod) \in 1 .. k
        /\ \A i \in 1 .. Len(frames) : Length(lastmod) <= Size(frames[i])
  BY <1>2 DEF Modelled, Estimated
<1>5. lastmod # NoModel => \A i \in DOMAIN frames' : Length(lastmod) <= Size(frames'[i])
  <2>1. \A i \in 1 .. Len(frames) + 1 : i \in 1 .. Len(frames) \/ i = Len(frames) + 1
    BY <1>2
  <2>2. lastmod # NoModel => Length(lastmod) <= k
    BY <1>2, <1>4
  <2> QED
    BY <1>1, <1>3, <1>4, <2>1, <2>2
<1>6. lastmod # NoModel => Estimated(Base(dset), k, frames', lastmod)
  BY <1>5 DEF Modelled, Estimated
<1> QED
  BY <1>1, <1>6 DEF Modelled, Estimated

\* The observations that the end of a function takes away are not those that
\* the model is about.
LEMMA ModelReturn == ASSUME Core, lastmod \in Model, Modelled, Return PROVE Modelled'
<1> DEFINE n == Len(frames)
           h == Size(Top)
<1>1. /\ InCall /\ Len(Kept(dset')) = h /\ Agree(Base(dset), Base(dset'), h)
      /\ frames' = Front(frames) /\ UNCHANGED lastmod
  BY ReturnFacts
<1>2. /\ frames \in Seq(Frame) /\ n \in Nat /\ DOMAIN frames = 1 .. n /\ frames # << >>
      /\ n \in 1 .. n /\ h \in Nat /\ Top = frames[n]
      /\ Recorded(Base(dset), Len(Kept(dset)), Top)
  BY <1>1, CoreFacts, LinkedFacts DEF InCall, Top
<1>3. /\ DOMAIN frames' = 1 .. n - 1 /\ \A i \in 1 .. n - 1 : frames'[i] = frames[i]
  BY <1>1, <1>2, FrontFacts
<1>4. lastmod # NoModel => \A i \in 1 .. n : Length(lastmod) <= Size(frames[i])
  BY <1>2 DEF Modelled, Estimated
<1>5. lastmod # NoModel => Length(lastmod) <= h
  BY <1>2, <1>4
<1>6. lastmod # NoModel => \A i \in DOMAIN frames' : Length(lastmod) <= Size(frames'[i])
  <2>1. \A i \in 1 .. n - 1 : i \in 1 .. n
    BY <1>2
  <2> QED
    BY <1>3, <1>4, <2>1
<1>7. h <= Len(Kept(dset)) /\ h <= Len(Kept(dset'))
  BY <1>1, <1>2, CoreFacts, SoundFacts DEF Recorded
<1> QED
  BY <1>1, <1>2, <1>5, <1>6, <1>7, ModelKept

\* Every step leaves the last model one of observations that are still there,
\* at the places it recorded.
LEMMA StepModelled == ASSUME Untrimmed, Steady, Modelled, [Next]_vars PROVE Modelled'
<1>1. Core /\ lastmod \in Model /\ Regular
  BY DEF Steady, Untrimmed
<1>2. ASSUME UNCHANGED vars PROVE Modelled'
  BY <1>2 DEF Modelled, vars
<1>3. ASSUME Next PROVE Modelled'
  <2>1. CASE PermaSample
    BY <1>1, <2>1, ModelPerma
  <2>2. CASE Full
    BY <1>1, <2>2, StepFull, ModelSame DEF Full
  <2>3. CASE RestrictFails
    <3>1. SameBase /\ UNCHANGED <<frames, lastmod>>
      BY <1>1, <2>3, StepRestrictFails DEF RestrictFails
    <3> QED
      BY <1>1, <3>1, ModelSame
  <2>4. CASE \E a \in Id : SetStart(a)
    <3>1. SameBase /\ UNCHANGED <<frames, lastmod>>
      BY <1>1, <2>4, StepSetStart DEF SetStart
    <3> QED
      BY <1>1, <3>1, ModelSame
  <2>5. CASE \E a, b \in Id, permanent \in BOOLEAN : SetSample(a, b, permanent)
    BY <1>1, <2>5, ModelSetSample
  <2>6. ASSUME NEW mode, NEW cond, NEW replace, RestrictSample(mode, cond, replace)
        PROVE  Modelled'
    <3>1. SameBase /\ UNCHANGED <<frames, lastmod>>
      BY <1>1, <2>6, StepRestrict DEF RestrictSample
    <3> QED
      BY <1>1, <3>1, ModelSame
  <2>7. ASSUME NEW mode, NEW cond, NEW replace, RestrictPermanently(mode, cond, replace)
        PROVE  Modelled'
    BY <1>1, <2>7, ModelRestrict
  <2>8. CASE Genr \/ AddSeries \/ DropSeries
    <3>1. SameBase /\ UNCHANGED <<frames, lastmod>>
      BY <1>1, <2>8, StepGenr, StepAddSeries, StepDropSeries DEF SameBase
    <3> QED
      BY <1>1, <3>1, ModelSame
  <2>9. CASE AddObs
    BY <1>1, <2>9, ModelAddObs
  <2>10. CASE Estimate
    BY <1>1, <2>10, ModelEstimate
  <2>11. CASE Call
    BY <1>1, <2>11, ModelCall
  <2>12. CASE Return
    BY <1>1, <2>12, ModelReturn
  <2> QED
    BY <1>3, <2>1, <2>2, <2>3, <2>4, <2>5, <2>6, <2>7, <2>8, <2>9, <2>10, <2>11, <2>12 DEF Next
<1> QED
  BY <1>2, <1>3

\* A last model that same_dataset() accepts finds the observations it was
\* estimated on at the places it recorded, after any samples, calls, added
\* observations and, in perma_sample(), permanent restrictions.
THEOREM ModelsKeepTheirRows == ASSUME Untrimmed PROVE Spec => []ModelSameRows
<1>1. Init => Steady /\ Modelled
  BY InitSteady DEF Init, Modelled, Estimated
<1>2. Steady /\ Modelled /\ [Next]_vars => (Steady /\ Modelled)'
  BY StepSteady, StepModelled DEF Untrimmed
<1>3. Steady /\ Modelled => ModelSameRows
  <2> SUFFICES ASSUME Steady, Modelled, lastmod # NoModel,
                      SameMask(lastmod.submask, lastmod.n, dset.submask, Len(dset.full))
               PROVE  lastmod.t2 <= Len(dset.Z) /\ Ids(dset.Z, lastmod.t1 .. lastmod.t2) = lastmod.ids
    BY DEF ModelSameRows
  <2>1. Sound(dset) /\ lastmod \in Model /\ Estimated(Base(dset), Len(Kept(dset)), frames, lastmod)
    BY DEF Steady, Core, Modelled
  <2>2. lastmod.t2 \in lastmod.t1 .. Len(dset.Z) /\ Ids(dset.Z, lastmod.t1 .. lastmod.t2) = lastmod.ids
    BY <2>1, SameRows
  <2>3. lastmod.t1 \in Nat /\ Len(dset.Z) \in Nat
    BY <2>1, SoundFacts DEF Model
  <2> QED
    BY <2>2, <2>3
<1> QED
  BY <1>1, <1>2, <1>3, PTL DEF Spec

-----------------------------------------------------------------------------
(***************************************************************************)
(* The refinement of Sample.  What the mapping needs of a dataset are its  *)
(* full rows and its sample: rows are a table of observations with their   *)
(* values.                                                                 *)
(***************************************************************************)
Table(R) == R \in Seq(Row) /\ R # << >> /\ Ordered(IdsOf(R))

\* The mapping, as operators of the rows.
ObsOf(R) == Ids(R, DOMAIN R)

DataOf(R) == [o \in ObsOf(R) |-> R[CHOOSE t \in DOMAIN R : R[t].id = o].y]

\* A table has a first row, and each observation is at one place of it.
LEMMA TableFacts ==
  ASSUME NEW R, Table(R)
  PROVE  /\ Len(R) \in Nat /\ DOMAIN R = 1 .. Len(R) /\ 1 \in DOMAIN R
         /\ \A t \in DOMAIN R : R[t] \in Row /\ R[t].id \in Id /\ R[t].y \in {1, NA, NoSeries}
         /\ \A s, t \in DOMAIN R : R[s].id = R[t].id => s = t
         /\ \A t \in DOMAIN R : R[t].id \in ObsOf(R)
         /\ \A o \in ObsOf(R) : \E t \in DOMAIN R : R[t].id = o
<1>1. R \in Seq(Row) /\ R # << >> /\ Ordered(IdsOf(R))
  BY DEF Table
<1>2. Len(R) \in Nat /\ DOMAIN R = 1 .. Len(R) /\ Len(R) # 0
  BY <1>1, LenProperties, EmptySeq
<1>3. 1 \in DOMAIN R
  BY <1>2
<1>4. \A t \in DOMAIN R : R[t] \in Row
  BY <1>1, <1>2, ElementOfSeq
<1>5. \A t \in DOMAIN R : R[t].id \in Id /\ R[t].y \in {1, NA, NoSeries}
  BY <1>4 DEF Row
<1>6. ASSUME NEW s \in DOMAIN R, NEW t \in DOMAIN R, R[s].id = R[t].id PROVE s = t
  <2>1. \A i, j \in DOMAIN R : i < j => R[i].id < R[j].id
    BY <1>1 DEF Ordered, IdsOf
  <2>2. s \in Nat /\ t \in Nat /\ R[s].id \in Nat /\ R[t].id \in Nat
    BY <1>2, <1>5 DEF Id
  <2>3. ~(s < t) /\ ~(t < s)
    BY <1>6, <2>1, <2>2
  <2> QED
    BY <2>2, <2>3
<1>7. /\ \A t \in DOMAIN R : R[t].id \in ObsOf(R)
      /\ \A o \in ObsOf(R) : \E t \in DOMAIN R : R[t].id = o
  BY DEF ObsOf, Ids
<1> QED
  BY <1>2, <1>3, <1>4, <1>5, <1>6, <1>7

\* The value of an observation is that of its row.
LEMMA DataFacts ==
  ASSUME NEW R, Table(R)
  PROVE  /\ DOMAIN DataOf(R) = ObsOf(R) /\ DataOf(R) = [o \in ObsOf(R) |-> DataOf(R)[o]]
         /\ \A t \in DOMAIN R : DataOf(R)[R[t].id] = R[t].y
<1>1. DOMAIN DataOf(R) = ObsOf(R) /\ DataOf(R) = [o \in ObsOf(R) |-> DataOf(R)[o]]
  BY DEF DataOf
<1>2. ASSUME NEW t \in DOMAIN R PROVE DataOf(R)[R[t].id] = R[t].y
  <2>1. R[t].id \in ObsOf(R) /\ \A s \in DOMAIN R : R[s].id = R[t].id => s = t
    BY TableFacts
  <2>2. (CHOOSE s \in DOMAIN R : R[s].id = R[t].id) = t
    BY <2>1
  <2> QED
    BY <2>1, <2>2 DEF DataOf
<1> QED
  BY <1>1, <1>2

\* F has the values of the rows.
ValuesOf(R, F) ==
    Table(R) /\ F = [o \in ObsOf(R) |-> F[o]] /\ \A t \in DOMAIN R : F[R[t].id] = R[t].y

\* Data with the values of the rows are those of the table.
LEMMA DataIs ==
  ASSUME NEW R, NEW F, ValuesOf(R, F) PROVE DataOf(R) = F
<1>0. Table(R) /\ F = [o \in ObsOf(R) |-> F[o]] /\ \A t \in DOMAIN R : F[R[t].id] = R[t].y
  BY DEF ValuesOf
<1>1. ASSUME NEW o \in ObsOf(R) PROVE DataOf(R)[o] = F[o]
  <2>1. PICK t \in DOMAIN R : R[t].id = o
    BY <1>0, TableFacts
  <2>2. DataOf(R)[R[t].id] = R[t].y
    BY <1>0, DataFacts
  <2> QED
    BY <2>1, <2>2, <1>0
<1>2. DataOf(R) = [o \in ObsOf(R) |-> DataOf(R)[o]]
  BY <1>0, DataFacts
<1> QED
  BY <1>0, <1>1, <1>2

\* Rows that are part of a table have its values.
LEMMA PartData ==
  ASSUME NEW R, Table(R), NEW P, Table(P),
         \A t \in DOMAIN P : \E s \in DOMAIN R : P[t] = R[s]
  PROVE  ObsOf(P) \subseteq ObsOf(R) /\ DataOf(P) = [o \in ObsOf(P) |-> DataOf(R)[o]]
<1> DEFINE F == [o \in ObsOf(P) |-> DataOf(R)[o]]
<1>1. ObsOf(P) \subseteq ObsOf(R)
  <2> SUFFICES ASSUME NEW o \in ObsOf(P) PROVE o \in ObsOf(R)
    OBVIOUS
  <2>1. PICK t \in DOMAIN P : P[t].id = o
    BY TableFacts
  <2>2. PICK s \in DOMAIN R : P[t] = R[s]
    OBVIOUS
  <2> QED
    BY <2>1, <2>2, TableFacts
<1>2. ASSUME NEW t \in DOMAIN P PROVE F[P[t].id] = P[t].y
  <2>1. P[t].id \in ObsOf(P)
    BY TableFacts
  <2>2. PICK s \in DOMAIN R : P[t] = R[s]
    OBVIOUS
  <2>3. DataOf(R)[R[s].id] = R[s].y
    BY DataFacts
  <2> QED
    BY <2>1, <2>2, <2>3
<1>3. F = [o \in ObsOf(P) |-> F[o]]
  OBVIOUS
<1> HIDE DEF F
<1>4. DataOf(P) = F
  <2>1. ValuesOf(P, F)
    BY <1>2, <1>3 DEF ValuesOf
  <2> QED
    BY <2>1, DataIs
<1> QED
  BY <1>1, <1>4 DEF F

\* The full rows of a dataset are a table.
LEMMA SoundTable ==
  ASSUME NEW d, Sound(d)
  PROVE  /\ Table(FullRows(d)) /\ Len(FullRows(d)) = Len(Kept(d))
         /\ \A t \in 1 .. Len(Kept(d)) : FullRows(d)[t].id = Base(d)[t]
         /\ DOMAIN FullRows(d) = 1 .. Len(Kept(d))
<1>1. /\ FullRows(d) \in Seq(Row) /\ Len(FullRows(d)) = Len(Kept(d))
      /\ IdsOf(FullRows(d)) = Base(d) /\ DOMAIN FullRows(d) = 1 .. Len(Kept(d))
  BY RowsFacts
<1>2. Ordered(Base(d))
  BY DEF Sound
<1>3. FullRows(d) # << >>
  <2>1. Len(Kept(d)) # 0
    <3>1. d.t1 \in 1 .. Len(d.Z) /\ Len(d.Z) \in Nat /\ Len(Kept(d)) \in Nat
          /\ d.submask \subseteq 1 .. Len(Kept(d))
          /\ Len(d.Z) = IF d.submask = {} THEN Len(Kept(d)) ELSE Cardinality(d.submask)
      BY SoundFacts
    <3>2. CASE d.submask = {}
      BY <3>1, <3>2
    <3>3. CASE d.submask # {}
      BY <3>1, <3>3
    <3> QED
      BY <3>2, <3>3
  <2> QED
    BY <1>1, <2>1, EmptySeq
<1>4. \A t \in 1 .. Len(Kept(d)) : FullRows(d)[t].id = IdsOf(FullRows(d))[t]
  BY <1>1 DEF IdsOf
<1> QED
  BY <1>1, <1>2, <1>3, <1>4 DEF Table

\* The variables of Sample.
LEMMA SampleMapping ==
  /\ Obs = ObsOf(FullRows(dset)) /\ Data = DataOf(FullRows(dset)) /\ Sel = SelOf(dset)
  /\ Obs' = ObsOf(FullRows(dset')) /\ Data' = DataOf(FullRows(dset')) /\ Sel' = SelOf(dset')
  BY DEF Obs, Data, Sel, ObsOf, DataOf

\* The sample is a part of the observations, and not empty.
LEMMA SelectionFacts ==
  ASSUME NEW d, Sound(d)
  PROVE  SelOf(d) \subseteq ObsOf(FullRows(d)) /\ SelOf(d) # {}
<1> DEFINE k == Len(Kept(d))
           W == Where(d.submask, d.t1, d.t2)
<1>1. SelOf(d) = {Base(d)[t] : t \in W}
  <2>1. {} \subseteq 1 .. Len(d.Z)
    OBVIOUS
  <2>2. SelOf(d) = Picked(Base(d), d.submask, d.t1, d.t2)
    BY <2>1, SelFacts
  <2> QED
    BY <2>2 DEF Picked
<1>2. k \in Nat /\ Fits(d.submask, d.t1, d.t2, k)
  BY SoundFacts DEF Sound
<1>3. W \subseteq 1 .. k /\ W # {}
  BY <1>2, WhereFacts
<1> HIDE DEF W
<1>4. \A t \in 1 .. k : Base(d)[t] \in ObsOf(FullRows(d))
  <2> TAKE t \in 1 .. k
  <2>1. Table(FullRows(d)) /\ t \in DOMAIN FullRows(d) /\ FullRows(d)[t].id = Base(d)[t]
    BY SoundTable
  <2>2. FullRows(d)[t].id \in ObsOf(FullRows(d))
    BY <2>1, TableFacts
  <2> QED
    BY <2>1, <2>2
<1> QED
  BY <1>1, <1>3, <1>4

\* The full rows do not depend on the range, and are what is restored.
LEMMA RangedRows ==
  ASSUME NEW d \in Dataset, NEW a \in Nat, NEW b \in Nat
  PROVE  FullRows(Ranged(d, a, b)) = FullRows(d)
<1> DEFINE e == Ranged(d, a, b)
<1>1. e.Z = d.Z /\ e.submask = d.submask /\ e.full = d.full
  BY DEF Ranged, Dataset
<1>2. Merged(e) = Merged(d)
  BY <1>1 DEF Merged
<1> QED
  BY <1>1, <1>2 DEF FullRows

\* The full rows of a whole dataset are its rows.
LEMMA WholeRows ==
  ASSUME NEW Z
  PROVE  FullRows(Whole(Z)) = Z
  BY DEF FullRows, Whole

\* Restoring a sample keeps the full rows.
LEMMA RestoredRows ==
  ASSUME NEW d
  PROVE  FullRows(RestoreFull(d)) = FullRows(d)
  BY WholeRows DEF RestoreFull

\* A subsample that has just been made has the full rows it is made of.
LEMMA MaskedRows ==
  ASSUME NEW d, Sound(d), d.full = << >>, NEW mask, mask \subseteq 1 .. Len(Kept(d)), mask # {}
  PROVE  FullRows(FromMask(d, mask)) = FullRows(d)
<1> DEFINE e == FromMask(d, mask)
           n == Cardinality(mask)
<1>1. /\ d.Z = Kept(d) /\ d.Z \in Seq(Row) /\ Len(d.Z) \in Nat /\ DOMAIN d.Z = 1 .. Len(d.Z)
      /\ mask \subseteq 1 .. Len(d.Z) /\ d.Z # << >>
  <2>1. d.t1 \in 1 .. Len(d.Z)
    BY SoundFacts
  <2> QED
    BY <2>1, SoundFacts, EmptySeq DEF Kept
<1>2. /\ e.Z = Copy(d.Z, mask) /\ e.submask = mask /\ e.full = d.Z
      /\ HasY(e.Z) <=> HasY(d.Z)
  BY MaskSound
<1> HIDE DEF e
<1>3. \A t \in mask : e.Z[Rank(mask, t)] = d.Z[t]
  <2> TAKE t \in mask
  <2>1. Rank(mask, t) \in 1 .. n /\ At(mask, Rank(mask, t)) = t
    BY <1>1, RankFacts, AtFacts
  <2>2. \A j \in 1 .. n : Copy(d.Z, mask)[j] = d.Z[At(mask, j)]
    BY DEF Copy, At
  <2> QED
    BY <1>2, <2>1, <2>2
<1>4. ASSUME NEW t \in DOMAIN d.Z PROVE Merged(e)[t] = d.Z[t]
  <2> DEFINE r == d.Z[t]
  <2>1. CASE t \in mask
    <3>1. Merged(e)[t] = e.Z[Rank(mask, t)]
      BY <1>2, <2>1 DEF Merged
    <3> QED
      BY <1>3, <2>1, <3>1
  <2>2. CASE t \notin mask
    <3>1. Merged(e)[t] = [r EXCEPT !.y = IF HasY(e.Z) /\ @ = NoSeries THEN NA ELSE @]
      BY <1>2, <2>2 DEF Merged
    <3>2. r \in Row
      BY <1>1, ElementOfSeq
    <3>3. HasY(d.Z) <=> r.y # NoSeries
      BY DEF Sound, Filled, Having
    <3> HIDE DEF r
    <3>4. [r EXCEPT !.y = r.y] = r
      BY <3>2 DEF Row
    <3>5. (IF HasY(e.Z) /\ r.y = NoSeries THEN NA ELSE r.y) = r.y
      BY <1>2, <3>3
    <3>6. Merged(e)[t] = [r EXCEPT !.y = r.y]
      BY <3>1, <3>5
    <3> QED
      BY <3>4, <3>6 DEF r
  <2> QED
    BY <2>1, <2>2
<1>5. DOMAIN Merged(e) = DOMAIN d.Z /\ Merged(e) = [t \in DOMAIN d.Z |-> Merged(e)[t]]
  BY <1>2 DEF Merged
<1>6. d.Z = [t \in DOMAIN d.Z |-> d.Z[t]]
  <2>1. d.Z \in [1 .. Len(d.Z) -> Row]
    BY <1>1, LenProperties
  <2> QED
    BY <1>1, <2>1
<1>7. Merged(e) = d.Z
  BY <1>4, <1>5, <1>6
<1>8. FullRows(e) = Merged(e) /\ FullRows(d) = d.Z
  BY <1>1, <1>2 DEF FullRows
<1> QED
  BY <1>7, <1>8 DEF e

-----------------------------------------------------------------------------
(***************************************************************************)
(* Steps that select, and steps that drop observations.                    *)
(***************************************************************************)

\* The records of the calls, as Sample has them.
LEMMA CallersSame == ASSUME UNCHANGED frames PROVE Callers' = Callers
  BY DEF Callers

\* The rows stay: the step selects.
LEMMA SelectStep ==
  ASSUME Core, Sound(dset'), FullRows(dset') = FullRows(dset), UNCHANGED frames
  PROVE  S!Select
<1>1. Obs' = Obs /\ Data' = Data /\ Callers' = Callers
  BY SampleMapping, CallersSame
<1>2. Sel' \subseteq Obs' /\ Sel' # {}
  BY SampleMapping, SelectionFacts
<1>3. Sel' \in SUBSET Obs
  BY <1>1, <1>2
<1> QED
  BY <1>1, <1>2, <1>3 DEF S!Select

\* Rows are dropped in the main script.
LEMMA CommitStep ==
  ASSUME Core, ~InCall, Sound(dset'), UNCHANGED frames,
         \A t \in DOMAIN FullRows(dset') : \E s \in DOMAIN FullRows(dset) :
             FullRows(dset')[t] = FullRows(dset)[s]
  PROVE  S!Commit
<1>1. Callers' = Callers /\ Callers = << >>
  <2>1. frames = << >>
    BY DEF InCall
  <2> QED
    BY <2>1, CallersSame DEF Callers
<1>2. Sel' \subseteq Obs' /\ Sel' # {}
  BY SampleMapping, SelectionFacts
<1>3. Table(FullRows(dset)) /\ Table(FullRows(dset'))
  BY CoreFacts, SoundTable
<1>4. /\ ObsOf(FullRows(dset')) \subseteq ObsOf(FullRows(dset))
      /\ DataOf(FullRows(dset')) = [o \in ObsOf(FullRows(dset')) |-> DataOf(FullRows(dset))[o]]
  BY <1>3, PartData
<1>5. Obs' \in SUBSET Obs /\ Data' = [o \in Obs' |-> Data[o]] /\ Sel' \in SUBSET Obs'
  BY <1>2, <1>4, SampleMapping
<1> QED
  BY <1>1, <1>2, <1>5 DEF S!Commit

\* smpl --permanent
LEMMA PermanentCommits ==
  ASSUME Core, ~InCall, NEW d, Sound(d), FullRows(d) = FullRows(dset), Permanent(d)
  PROVE  S!Commit
<1> DEFINE R == FullRows(d)
<1>1. /\ dset' = IF d.submask = {} THEN Whole(SubSeq(d.Z, d.t1, d.t2))
                 ELSE [d EXCEPT !.submask = {}, !.full = << >>]
      /\ UNCHANGED <<frames, ylev>>
  BY DEF Permanent
<1>2. Sound(dset')
  BY <1>1, PermanentSound
<1>3. /\ Len(d.Z) \in Nat /\ DOMAIN d.Z = 1 .. Len(d.Z) /\ DOMAIN R = 1 .. Len(Kept(d))
      /\ d.t1 \in 1 .. Len(d.Z) /\ d.t2 \in d.t1 .. Len(d.Z)
  BY SoundFacts, SoundTable
<1>4. ASSUME NEW t \in DOMAIN FullRows(dset')
      PROVE  \E s \in DOMAIN R : FullRows(dset')[t] = R[s]
  <2>1. CASE d.submask = {}
    <3> DEFINE Z == SubSeq(d.Z, d.t1, d.t2)
    <3>1. /\ DOMAIN Z = 1 .. d.t2 - d.t1 + 1
          /\ \A j \in 1 .. d.t2 - d.t1 + 1 : Z[j] = d.Z[d.t1 + j - 1]
      BY <1>3, PartSound
    <3>2. FullRows(dset') = Z
      BY <1>1, <2>1, WholeRows
    <3> HIDE DEF Z
    <3>3. R = d.Z
      BY <2>1 DEF FullRows, Sound
    <3>4. t \in 1 .. d.t2 - d.t1 + 1 /\ d.t1 + t - 1 \in DOMAIN d.Z
      BY <1>3, <3>1, <3>2
    <3> QED
      BY <3>1, <3>2, <3>3, <3>4
  <2>2. CASE d.submask # {}
    <3>1. d \in Dataset /\ d.full # << >> /\ Copied(d) /\ Kept(d) = d.full
      BY <2>2 DEF Sound, Kept
    <3>2. dset'.Z = d.Z /\ dset'.full = << >>
      BY <1>1, <2>2, <3>1 DEF Dataset
    <3>3. FullRows(dset') = d.Z
      BY <3>2 DEF FullRows
    <3>4. /\ Len(d.full) \in Nat /\ d.submask \subseteq 1 .. Len(d.full)
          /\ DOMAIN d.full = 1 .. Len(d.full)
      BY <3>1, SoundFacts
    <3>5. t \in 1 .. Cardinality(d.submask)
      BY <1>3, <3>1, <3>3 DEF Copied
    <3>6. PICK s \in d.submask : Rank(d.submask, s) = t
      BY <3>4, <3>5, RankFacts
    <3>7. R[s] = d.Z[Rank(d.submask, s)] /\ s \in DOMAIN R
      <4>1. R = Merged(d) /\ s \in DOMAIN d.full
        BY <3>1, <3>4 DEF FullRows
      <4> QED
        BY <4>1 DEF Merged
    <3> QED
      BY <3>3, <3>6, <3>7
  <2> QED
    BY <2>1, <2>2
<1> QED
  BY <1>1, <1>2, <1>4, CommitStep

\* What a permanent sample makes of the dataset commits it to the sample.
LEMMA PermaRefines == ASSUME Core, PermaSample PROVE S!Commit
  BY CoreFacts, PermanentCommits DEF PermaSample

\* A range selects; a permanent one commits.
LEMMA SetSampleRefines ==
  ASSUME Regular, Core, NEW a \in Id, NEW b \in Id, NEW permanent \in BOOLEAN,
         SetSample(a, b, permanent)
  PROVE  S!Select \/ S!Commit
<1> DEFINE d == Ranged(dset, a, b)
<1>1. Sound(d)
  BY SetSampleFacts, CoreFacts, RangeSound
<1>2. FullRows(d) = FullRows(dset)
  BY CoreFacts, RangedRows DEF Sound, Id
<1> HIDE DEF d
<1>3. IF permanent /\ ~InCall THEN Permanent(d)
      ELSE dset' = d /\ UNCHANGED <<frames, ylev, lastmod>>
  BY DEF SetSample, d, Ranged
<1>4. CASE permanent /\ ~InCall
  BY <1>1, <1>2, <1>3, <1>4, PermanentCommits
<1>5. CASE ~(permanent /\ ~InCall)
  BY <1>1, <1>2, <1>3, <1>5, SelectStep
<1> QED
  BY <1>4, <1>5

\* A new start selects.
LEMMA SetStartRefines ==
  ASSUME Regular, Core, NEW a \in Id, SetStart(a) PROVE S!Select
<1>1. Core' /\ dset' = [dset EXCEPT !.t1 = a] /\ UNCHANGED frames
  BY StepSetStart DEF SetStart
<1>2. dset \in Dataset /\ dset.t2 \in Nat /\ a \in Nat
  BY CoreFacts DEF Sound, Dataset, Id
<1>3. dset' = Ranged(dset, a, dset.t2)
  BY <1>1, <1>2 DEF Dataset, Ranged
<1>4. FullRows(dset') = FullRows(dset) /\ Sound(dset')
  BY <1>1, <1>2, <1>3, RangedRows DEF Core
<1> QED
  BY <1>1, <1>4, SelectStep

\* The datasets a restriction leads to have the rows there were.
LEMMA RestoredRangeRows ==
  ASSUME Core, NEW a \in 1 .. Len(Kept(dset)), NEW b \in a .. Len(Kept(dset))
  PROVE  FullRows(Ranged(RestoreFull(dset), a, b)) = FullRows(dset)
<1>1. RestoreFull(dset) \in Dataset /\ a \in Nat /\ b \in Nat
  <2>1. Sound(RestoreFull(dset)) /\ Len(Kept(dset)) \in Nat
    BY CoreFacts, RestoreSound, SoundFacts
  <2> QED
    BY <2>1 DEF Sound
<1> QED
  BY <1>1, RangedRows, RestoredRows

\* So does a new mask on the restored rows.
LEMMA RestoredMaskRows ==
  ASSUME Core, NEW mask, mask \subseteq 1 .. Len(Kept(dset)), mask # {}
  PROVE  FullRows(FromMask(RestoreFull(dset), mask)) = FullRows(dset)
<1> DEFINE all == RestoreFull(dset)
<1>1. Sound(all) /\ all.full = << >> /\ Len(Kept(all)) = Len(Kept(dset))
  BY CoreFacts, RestoreSound
<1>2. FullRows(all) = FullRows(dset)
  BY RestoredRows
<1> HIDE DEF all
<1>3. FullRows(FromMask(all, mask)) = FullRows(all)
  BY <1>1, MaskedRows
<1> QED
  BY <1>2, <1>3 DEF all

\* The full range selects everything.
LEMMA FullRefines == ASSUME Regular, Core, Full PROVE S!Select
<1>1. Core' /\ UNCHANGED frames
  BY StepFull, FullFacts
<1>2. FullRows(dset') = FullRows(dset)
  <2>1. CASE CallMask # {}
    <3>1. dset' = FromMask(RestoreFull(dset), CallMask) /\ CallMask \subseteq 1 .. Len(Kept(dset))
      BY <2>1, FullFacts, MaskFacts
    <3> QED
      BY <2>1, <3>1, RestoredMaskRows
  <2>2. CASE CallMask = {}
    <3>1. PICK a \in 1 .. Len(Kept(dset)) : \E b \in a .. Len(Kept(dset)) :
             dset' = Ranged(RestoreFull(dset), a, b)
      BY <2>2, FullFacts
    <3>2. PICK b \in a .. Len(Kept(dset)) : dset' = Ranged(RestoreFull(dset), a, b)
      BY <3>1
    <3> QED
      BY <3>2, RestoredRangeRows
  <2> QED
    BY <2>1, <2>2
<1>3. Sound(dset')
  BY <1>1 DEF Core
<1> QED
  BY <1>1, <1>2, <1>3, SelectStep

\* A restriction keeps the full rows.
LEMMA RestrictedRows ==
  ASSUME Core, NEW mode, NEW cond, NEW replace, CanRestrict(mode, cond, replace)
  PROVE  FullRows(Restricted(mode, cond, replace)) = FullRows(dset)
<1> DEFINE mask == NewMask(mode, cond, replace)
           e == Restricted(mode, cond, replace)
<1>1. /\ mask # {} /\ mask \subseteq 1 .. Len(Kept(dset))
      /\ Min(mask) \in 1 .. Len(Kept(dset)) /\ Max(mask) \in Min(mask) .. Len(Kept(dset))
  BY RestrictedFacts
<1>2. e = IF Nothing(mode, cond, replace) THEN RestoreFull(dset)
          ELSE IF Shortcut(mode, cond, replace)
          THEN Ranged(RestoreFull(dset), Min(mask), Max(mask))
          ELSE FromMask(RestoreFull(dset), mask)
  BY DEF Restricted, Ranged
<1> HIDE DEF mask, e
<1>3. FullRows(RestoreFull(dset)) = FullRows(dset)
  BY RestoredRows
<1>4. FullRows(Ranged(RestoreFull(dset), Min(mask), Max(mask))) = FullRows(dset)
  BY <1>1, RestoredRangeRows
<1>5. FullRows(FromMask(RestoreFull(dset), mask)) = FullRows(dset)
  BY <1>1, RestoredMaskRows
<1>6. FullRows(e) = FullRows(dset)
  BY <1>2, <1>3, <1>4, <1>5
<1> QED
  BY <1>6 DEF e

\* A restriction selects.
LEMMA RestrictRefines ==
  ASSUME Regular, Core, NEW mode, NEW cond, NEW replace, RestrictSample(mode, cond, replace)
  PROVE  S!Select
<1>1. /\ Core' /\ CanRestrict(mode, cond, replace) /\ dset' = Restricted(mode, cond, replace)
      /\ UNCHANGED frames
  BY StepRestrict DEF RestrictSample
<1>2. Sound(dset')
  BY <1>1 DEF Core
<1> QED
  BY <1>1, <1>2, RestrictedRows, SelectStep

\* A restriction that fails selects what it has left.
LEMMA FailsRefines == ASSUME Regular, Core, RestrictFails PROVE S!Select
<1>1. Core' /\ dset' = RestoreFull(dset) /\ UNCHANGED frames
  BY StepRestrictFails DEF RestrictFails, Regular
<1>2. Sound(dset')
  BY <1>1 DEF Core
<1> QED
  BY <1>1, <1>2, RestoredRows, SelectStep

\* A permanent restriction commits.
LEMMA RestrictPermanentlyRefines ==
  ASSUME Core, NEW mode, NEW cond, NEW replace, RestrictPermanently(mode, cond, replace)
  PROVE  S!Select \/ S!Commit
<1> DEFINE mask == NewMask(mode, cond, replace)
           all == RestoreFull(dset)
<1>1. /\ ~InCall /\ CanRestrict(mode, cond, replace) /\ UNCHANGED frames
      /\ dset' = all \/ dset' = Whole(Copy(all.Z, mask))
  BY DEF RestrictPermanently
<1>2. Sound(dset')
  <2>1. Core'
    BY StepRestrictPermanently
  <2> QED
    BY <2>1 DEF Core
<1>3. CASE dset' = all
  BY <1>1, <1>2, <1>3, RestoredRows, SelectStep
<1>4. CASE dset' = Whole(Copy(all.Z, mask))
  <2>1. /\ Sound(all) /\ all.Z = FullRows(dset) /\ Len(Kept(all)) = Len(Kept(dset))
        /\ mask # {} /\ mask \subseteq 1 .. Len(Kept(dset)) /\ Len(Kept(dset)) \in Nat
    BY <1>1, CoreFacts, RestoreSound, SoundFacts, NewMaskFacts
  <2>2. FullRows(dset') = Copy(FullRows(dset), mask)
    BY <1>4, <2>1, WholeRows
  <2> HIDE DEF mask, all
  <2>3. ASSUME NEW t \in DOMAIN FullRows(dset')
        PROVE  \E s \in DOMAIN FullRows(dset) : FullRows(dset')[t] = FullRows(dset)[s]
    <3>1. t \in 1 .. Cardinality(mask) /\ FullRows(dset')[t] = FullRows(dset)[At(mask, t)]
      BY <2>2, <2>3 DEF Copy, At
    <3>2. At(mask, t) \in mask
      BY <2>1, <3>1, AtFacts
    <3>3. DOMAIN FullRows(dset) = 1 .. Len(Kept(dset))
      BY CoreFacts, SoundTable
    <3> QED
      BY <2>1, <3>1, <3>2, <3>3
  <2> QED
    BY <1>1, <1>2, <2>3, CommitStep
<1> QED
  BY <1>1, <1>3, <1>4

-----------------------------------------------------------------------------
(***************************************************************************)
(* Steps that change values.                                               *)
(***************************************************************************)

\* The value of y in the full row t.
ValueAt(d, t) ==
    IF d.submask = {} THEN d.Z[t].y
    ELSE IF t \in d.submask THEN d.Z[Rank(d.submask, t)].y
    ELSE IF HasY(d.Z) /\ d.full[t].y = NoSeries THEN NA ELSE d.full[t].y

\* The value of a full row, by where it is kept.
LEMMA RowValue ==
  ASSUME NEW d, Sound(d), NEW t \in 1 .. Len(Kept(d))
  PROVE  FullRows(d)[t].y = ValueAt(d, t)
<1>1. CASE d.submask = {}
  BY <1>1 DEF FullRows, ValueAt, Sound
<1>2. CASE d.submask # {}
  <2>1. d.full # << >> /\ Kept(d) = d.full /\ d.full \in Seq(Row)
    BY <1>2, SoundFacts DEF Sound, Kept
  <2>2. t \in DOMAIN d.full /\ FullRows(d) = Merged(d)
    BY <2>1, SoundFacts DEF FullRows
  <2>3. CASE t \in d.submask
    <3>1. Merged(d)[t] = d.Z[Rank(d.submask, t)]
      BY <2>2, <2>3 DEF Merged
    <3> QED
      BY <1>2, <2>2, <2>3, <3>1 DEF ValueAt
  <2>4. CASE t \notin d.submask
    <3> DEFINE r == d.full[t]
    <3>1. Merged(d)[t] = [r EXCEPT !.y = IF HasY(d.Z) /\ @ = NoSeries THEN NA ELSE @]
      BY <2>2, <2>4 DEF Merged
    <3>2. r \in Row
      BY <2>1, <2>2, ElementOfSeq, LenProperties
    <3>3. ValueAt(d, t) = IF HasY(d.Z) /\ r.y = NoSeries THEN NA ELSE r.y
      BY <1>2, <2>4 DEF ValueAt
    <3> HIDE DEF r
    <3> QED
      BY <2>2, <3>1, <3>2, <3>3 DEF Row
  <2> QED
    BY <2>3, <2>4
<1> QED
  BY <1>1, <1>2

\* The observations of the sample are those at the places that are selected.
LEMMA InSample ==
  ASSUME NEW d, Sound(d), NEW t \in 1 .. Len(Kept(d))
  PROVE  Base(d)[t] \in SelOf(d) <=> t \in Where(d.submask, d.t1, d.t2)
<1>1. SelOf(d) = {Base(d)[s] : s \in Where(d.submask, d.t1, d.t2)}
  <2>1. {} \subseteq 1 .. Len(d.Z)
    OBVIOUS
  <2> QED
    BY <2>1, SelFacts DEF Picked
<1>2. Where(d.submask, d.t1, d.t2) \subseteq 1 .. Len(Kept(d))
  <2>1. Len(Kept(d)) \in Nat /\ Fits(d.submask, d.t1, d.t2, Len(Kept(d)))
    BY SoundFacts DEF Sound
  <2> QED
    BY <2>1, WhereFacts
<1>3. ASSUME Base(d)[t] \in SelOf(d) PROVE t \in Where(d.submask, d.t1, d.t2)
  <2>1. PICK s \in Where(d.submask, d.t1, d.t2) : Base(d)[s] = Base(d)[t]
    BY <1>1, <1>3
  <2> QED
    BY <1>2, <2>1, Distinct
<1> QED
  BY <1>1, <1>3

\* All observations have a value of the series, or none has.
LEMMA ExistsFacts ==
  ASSUME Core
  PROVE  /\ S!Exists <=> HasY(dset.Z)
         /\ ~HasY(dset.Z) => \A t \in DOMAIN FullRows(dset) : FullRows(dset)[t].y = NoSeries
<1> DEFINE R == FullRows(dset)
<1>1. Sound(dset) /\ Table(R) /\ Obs = ObsOf(R) /\ Data = DataOf(R)
  BY CoreFacts, SoundTable, SampleMapping
<1>2. \A t \in DOMAIN R : HasY(dset.Z) <=> R[t].y # NoSeries
  BY <1>1, RowsFacts DEF Having
<1> HIDE DEF R
<1>3. \A t \in DOMAIN R : R[t].id \in Obs /\ Data[R[t].id] = R[t].y
  BY <1>1, TableFacts, DataFacts
<1>4. \A o \in Obs : \E t \in DOMAIN R : R[t].id = o
  BY <1>1, TableFacts
<1>5. 1 \in DOMAIN R
  BY <1>1, TableFacts
<1>6. S!Exists <=> \A o \in Obs : Data[o] # NoSeries
  BY DEF S!Exists
<1>7. ASSUME HasY(dset.Z) PROVE \A o \in Obs : Data[o] # NoSeries
  BY <1>2, <1>3, <1>4, <1>7
<1>8. ASSUME ~HasY(dset.Z) PROVE ~(\A o \in Obs : Data[o] # NoSeries)
  BY <1>2, <1>3, <1>5, <1>8
<1> QED
  BY <1>2, <1>6, <1>7, <1>8 DEF R

\* The observations stay, with the values of F.
LEMMA ValuesStep ==
  ASSUME Core, Sound(dset'), Base(dset') = Base(dset), Len(Kept(dset')) = Len(Kept(dset)),
         dset'.submask = dset.submask, dset'.t1 = dset.t1, dset'.t2 = dset.t2, UNCHANGED frames,
         NEW F, F = [o \in Obs |-> F[o]],
         \A t \in 1 .. Len(Kept(dset)) : F[Base(dset)[t]] = FullRows(dset')[t].y
  PROVE  Data' = F /\ UNCHANGED <<Obs, Sel, Callers>>
<1> DEFINE R == FullRows(dset)
           P == FullRows(dset')
           k == Len(Kept(dset))
<1>1. /\ Sound(dset) /\ Table(R) /\ Table(P) /\ DOMAIN R = 1 .. k /\ DOMAIN P = 1 .. k
      /\ \A t \in 1 .. k : R[t].id = Base(dset)[t] /\ P[t].id = Base(dset)[t]
  BY CoreFacts, SoundTable
<1>2. ObsOf(P) = ObsOf(R) /\ Obs = ObsOf(R) /\ Obs' = ObsOf(P)
  <2>1. ObsOf(P) = ObsOf(R)
    BY <1>1 DEF ObsOf, Ids
  <2> QED
    BY <2>1, SampleMapping
<1>3. Sel' = Sel
  <2>1. {} \subseteq 1 .. Len(dset.Z) /\ {} \subseteq 1 .. Len(dset'.Z)
    OBVIOUS
  <2>2. SelOf(dset') = SelOf(dset)
    BY <1>1, <2>1, SelFacts
  <2> QED
    BY <2>2, SampleMapping
<1>4. Data' = DataOf(P)
  BY SampleMapping
<1> HIDE DEF P, R
<1>5. \A t \in DOMAIN P : F[P[t].id] = P[t].y
  BY <1>1 DEF P
<1>6. F = [o \in ObsOf(P) |-> F[o]]
  BY <1>2
<1>7. DataOf(P) = F
  <2>1. ValuesOf(P, F)
    BY <1>1, <1>5, <1>6 DEF ValuesOf
  <2> QED
    BY <2>1, DataIs
<1> QED
  BY <1>2, <1>3, <1>4, <1>7, CallersSame

\* A row in use is in the range if its observation is in the sample.
LEMMA AssignedValue ==
  ASSUME Core, NEW Y, DOMAIN Y = DOMAIN dset.Z, dset' = Assigned(dset, Y), Sound(dset'),
         Len(Kept(dset')) = Len(Kept(dset)), dset'.submask = dset.submask, HasY(dset'.Z),
         \A j \in InRange(dset) : Y[j].y = 1,
         NEW t \in 1 .. Len(Kept(dset))
  PROVE  /\ Base(dset)[t] \in Sel => FullRows(dset')[t].y = 1
         /\ Base(dset)[t] \notin Sel =>
               \/ \E j \in DOMAIN dset.Z \ InRange(dset) :
                    FullRows(dset)[t].y = dset.Z[j].y /\ FullRows(dset')[t].y = Y[j].y
               \/ /\ FullRows(dset)[t].y = IF HasY(dset.Z) /\ dset.full[t].y = NoSeries THEN NA
                                           ELSE dset.full[t].y
                  /\ FullRows(dset')[t].y = IF dset.full[t].y = NoSeries THEN NA ELSE dset.full[t].y
<1> DEFINE m == dset.submask
<1>1. /\ Sound(dset) /\ dset \in Dataset /\ DOMAIN dset.Z = 1 .. Len(dset.Z)
      /\ Len(dset.Z) \in Nat /\ Len(Kept(dset)) \in Nat /\ m \subseteq 1 .. Len(Kept(dset))
      /\ Len(dset.Z) = IF m = {} THEN Len(Kept(dset)) ELSE Cardinality(m)
  BY CoreFacts, SoundFacts DEF Sound
<1>2. dset'.Z = Y /\ dset'.full = dset.full
  BY <1>1 DEF Assigned, Dataset
<1>3. FullRows(dset)[t].y = ValueAt(dset, t) /\ FullRows(dset')[t].y = ValueAt(dset', t)
  BY <1>1, RowValue
<1>4. Base(dset)[t] \in Sel <=> t \in Where(m, dset.t1, dset.t2)
  BY <1>1, InSample, SampleMapping
<1>5. CASE m = {}
  <2>1. Where(m, dset.t1, dset.t2) = InRange(dset) /\ t \in DOMAIN dset.Z
    BY <1>1, <1>5 DEF Where, InRange
  <2>2. ValueAt(dset, t) = dset.Z[t].y /\ ValueAt(dset', t) = Y[t].y
    BY <1>2, <1>5 DEF ValueAt
  <2> QED
    BY <1>3, <1>4, <1>5, <2>1, <2>2
<1>6. CASE m # {} /\ t \in m
  <2>1. t \in Where(m, dset.t1, dset.t2) <=> Rank(m, t) \in InRange(dset)
    BY <1>6 DEF Where, InRange
  <2>2. Rank(m, t) \in DOMAIN dset.Z
    BY <1>1, <1>6, RankFacts
  <2>3. ValueAt(dset, t) = dset.Z[Rank(m, t)].y /\ ValueAt(dset', t) = Y[Rank(m, t)].y
    BY <1>2, <1>6 DEF ValueAt
  <2> QED
    BY <1>3, <1>4, <2>1, <2>2, <2>3
<1>7. CASE m # {} /\ t \notin m
  <2>1. t \notin Where(m, dset.t1, dset.t2)
    BY <1>7 DEF Where
  <2>2. /\ ValueAt(dset, t) = IF HasY(dset.Z) /\ dset.full[t].y = NoSeries THEN NA
                              ELSE dset.full[t].y
        /\ ValueAt(dset', t) = IF dset.full[t].y = NoSeries THEN NA ELSE dset.full[t].y
    BY <1>2, <1>7 DEF ValueAt
  <2> QED
    BY <1>3, <1>4, <2>1, <2>2
<1> QED
  BY <1>5, <1>6, <1>7

\* genr assigns to the observations of the sample.
LEMMA GenrRefines == ASSUME Core, Genr PROVE S!Assign(1)
<1> DEFINE Y == [t \in DOMAIN dset.Z |->
                   IF t \in InRange(dset) THEN [dset.Z[t] EXCEPT !.y = 1] ELSE dset.Z[t]]
           F == [o \in Obs |-> IF o \in Sel THEN 1 ELSE Data[o]]
           k == Len(Kept(dset))
<1>1. HasY(dset.Z) /\ dset' = Assigned(dset, Y) /\ UNCHANGED frames
  BY DEF Genr, Assigned
<1>2. /\ Core' /\ Base(dset') = Base(dset) /\ Len(Kept(dset')) = k
      /\ dset'.submask = dset.submask /\ dset'.t1 = dset.t1 /\ dset'.t2 = dset.t2
  BY StepGenr
<1>3. /\ Sound(dset) /\ dset \in Dataset /\ dset.Z \in Seq(Row) /\ DOMAIN dset.Z = 1 .. Len(dset.Z)
      /\ InRange(dset) \subseteq DOMAIN dset.Z /\ 1 \in DOMAIN dset.Z /\ Sound(dset')
  BY <1>2, CoreFacts, SoundFacts DEF InRange, Sound, Core
<1>4. DOMAIN Y = DOMAIN dset.Z
  OBVIOUS
<1>5. ASSUME NEW j \in DOMAIN dset.Z
      PROVE  j \in InRange(dset) => Y[j].y = 1
  <2>1. dset.Z[j] \in Row
    BY <1>3, ElementOfSeq
  <2> QED
    BY <2>1 DEF Row
<1>6. ASSUME NEW j \in DOMAIN dset.Z \ InRange(dset) PROVE Y[j].y = dset.Z[j].y
  OBVIOUS
<1>7. HasY(dset'.Z)
  <2>1. dset'.Z = Y
    BY <1>1, <1>3 DEF Assigned, Dataset
  <2>2. Y[1].y # NoSeries
    BY <1>1, <1>3, <1>5, <1>6, SubsampleAssumption DEF HasY
  <2> QED
    BY <2>1, <2>2 DEF HasY
<1> HIDE DEF Y
<1>8. ASSUME NEW t \in 1 .. k PROVE F[Base(dset)[t]] = FullRows(dset')[t].y
  <2>1. Base(dset)[t] \in Obs /\ Data[Base(dset)[t]] = FullRows(dset)[t].y
    <3>1. /\ Table(FullRows(dset)) /\ t \in DOMAIN FullRows(dset)
          /\ FullRows(dset)[t].id = Base(dset)[t]
      BY <1>3, SoundTable
    <3>2. /\ FullRows(dset)[t].id \in ObsOf(FullRows(dset))
          /\ DataOf(FullRows(dset))[FullRows(dset)[t].id] = FullRows(dset)[t].y
      BY <3>1, TableFacts, DataFacts
    <3> QED
      BY <3>1, <3>2, SampleMapping
  <2>2. CASE Base(dset)[t] \in Sel
    <3>1. FullRows(dset')[t].y = 1
      BY <1>1, <1>2, <1>3, <1>4, <1>5, <1>7, <2>2, AssignedValue
    <3> QED
      BY <2>1, <2>2, <3>1
  <2>3. CASE Base(dset)[t] \notin Sel
    <3>1. FullRows(dset')[t].y = FullRows(dset)[t].y
      <4>1. \A j \in InRange(dset) : Y[j].y = 1
        BY <1>3, <1>5
      <4>2. \A j \in DOMAIN dset.Z \ InRange(dset) : Y[j].y = dset.Z[j].y
        BY <1>6
      <4> QED
        BY <1>1, <1>2, <1>3, <1>4, <1>7, <2>3, <4>1, <4>2, AssignedValue
    <3> QED
      BY <2>1, <2>3, <3>1
  <2> QED
    BY <2>2, <2>3
<1>9. F = [o \in Obs |-> F[o]]
  OBVIOUS
<1> HIDE DEF F
<1>10. Data' = F /\ UNCHANGED <<Obs, Sel, Callers>>
  BY <1>1, <1>2, <1>3, <1>8, <1>9, ValuesStep
<1> QED
  BY <1>1, <1>10, ExistsFacts DEF S!Assign, F

\* A new series has values at the observations of the sample.
LEMMA AddSeriesRefines == ASSUME Core, AddSeries PROVE S!AddSeries(1)
<1> DEFINE Y == [t \in DOMAIN dset.Z |->
                   [dset.Z[t] EXCEPT !.y = IF t \in InRange(dset) THEN 1 ELSE NA]]
           F == [o \in Obs |-> IF o \in Sel THEN 1 ELSE NA]
           k == Len(Kept(dset))
<1>1. ~HasY(dset.Z) /\ dset' = Assigned(dset, Y) /\ UNCHANGED frames
  BY DEF AddSeries, Assigned
<1>2. /\ Core' /\ Base(dset') = Base(dset) /\ Len(Kept(dset')) = k
      /\ dset'.submask = dset.submask /\ dset'.t1 = dset.t1 /\ dset'.t2 = dset.t2
  BY StepAddSeries
<1>3. /\ Sound(dset) /\ dset \in Dataset /\ dset.Z \in Seq(Row) /\ DOMAIN dset.Z = 1 .. Len(dset.Z)
      /\ InRange(dset) \subseteq DOMAIN dset.Z /\ 1 \in DOMAIN dset.Z /\ Sound(dset')
  BY <1>2, CoreFacts, SoundFacts DEF InRange, Sound, Core
<1>4. DOMAIN Y = DOMAIN dset.Z
  OBVIOUS
<1>5. ASSUME NEW j \in DOMAIN dset.Z
      PROVE  Y[j].y = IF j \in InRange(dset) THEN 1 ELSE NA
  <2>1. dset.Z[j] \in Row
    BY <1>3, ElementOfSeq
  <2> QED
    BY <2>1 DEF Row
<1>6. HasY(dset'.Z)
  <2>1. dset'.Z = Y
    BY <1>1, <1>3 DEF Assigned, Dataset
  <2>2. Y[1].y # NoSeries
    BY <1>3, <1>5, SubsampleAssumption
  <2> QED
    BY <2>1, <2>2 DEF HasY
<1> HIDE DEF Y
<1>7. ASSUME NEW t \in 1 .. k PROVE F[Base(dset)[t]] = FullRows(dset')[t].y
  <2>1. Base(dset)[t] \in Obs /\ FullRows(dset)[t].y = NoSeries
    <3>1. /\ Table(FullRows(dset)) /\ t \in DOMAIN FullRows(dset)
          /\ FullRows(dset)[t].id = Base(dset)[t]
      BY <1>3, SoundTable
    <3>2. FullRows(dset)[t].id \in ObsOf(FullRows(dset))
      BY <3>1, TableFacts
    <3> QED
      BY <1>1, <3>1, <3>2, SampleMapping, ExistsFacts
  <2>2. CASE Base(dset)[t] \in Sel
    <3>1. FullRows(dset')[t].y = 1
      BY <1>1, <1>2, <1>3, <1>4, <1>5, <1>6, <2>2, AssignedValue
    <3> QED
      BY <2>1, <2>2, <3>1
  <2>3. CASE Base(dset)[t] \notin Sel
    <3>1. FullRows(dset')[t].y = NA
      <4>1. \A j \in InRange(dset) : Y[j].y = 1
        BY <1>3, <1>5
      <4>2. \A j \in DOMAIN dset.Z \ InRange(dset) : Y[j].y = NA
        BY <1>5
      <4>3. \/ \E j \in DOMAIN dset.Z \ InRange(dset) : FullRows(dset')[t].y = Y[j].y
            \/ /\ FullRows(dset)[t].y = IF HasY(dset.Z) /\ dset.full[t].y = NoSeries THEN NA
                                        ELSE dset.full[t].y
               /\ FullRows(dset')[t].y = IF dset.full[t].y = NoSeries THEN NA ELSE dset.full[t].y
        BY <1>1, <1>2, <1>3, <1>4, <1>6, <2>3, <4>1, AssignedValue
      <4> QED
        BY <1>1, <2>1, <4>2, <4>3
    <3> QED
      BY <2>1, <2>3, <3>1
  <2> QED
    BY <2>2, <2>3
<1>8. F = [o \in Obs |-> F[o]]
  OBVIOUS
<1> HIDE DEF F
<1>9. Data' = F /\ UNCHANGED <<Obs, Sel, Callers>>
  BY <1>1, <1>2, <1>3, <1>7, <1>8, ValuesStep
<1> QED
  BY <1>1, <1>9, ExistsFacts DEF S!AddSeries, F

\* Without the series no row has a value.
LEMMA NoYRows ==
  ASSUME NEW d, Sound(d)
  PROVE  \A t \in DOMAIN FullRows(NoY(d)) : FullRows(NoY(d))[t].y = NoSeries
<1> DEFINE e == NoY(d)
<1>1. Sound(e)
  BY NoYFacts
<1>2. d \in Dataset /\ d.Z \in Seq(Row) /\ 1 \in DOMAIN d.Z
  BY SoundFacts DEF Sound
<1>3. e.Z = WithoutY(d.Z)
  BY <1>2 DEF NoY, Dataset
<1> HIDE DEF e
<1>4. ~HasY(e.Z)
  BY <1>2, <1>3, WithoutFacts DEF Having, HasY, Revalued
<1>5. Having(FullRows(e), HasY(e.Z))
  BY <1>1, RowsFacts
<1> QED
  BY <1>4, <1>5 DEF Having, e

\* Dropping the series takes its values from every observation.
LEMMA DropRefines == ASSUME Core, DropSeries PROVE S!DropSeries
<1> DEFINE F == [o \in Obs |-> NoSeries]
<1>1. /\ Core' /\ Base(dset') = Base(dset) /\ Len(Kept(dset')) = Len(Kept(dset))
      /\ dset'.submask = dset.submask /\ dset'.t1 = dset.t1 /\ dset'.t2 = dset.t2
      /\ UNCHANGED frames /\ dset' = NoY(dset)
  BY StepDropSeries DEF DropSeries
<1>2. Sound(dset) /\ Sound(dset')
  BY <1>1, CoreFacts DEF Core
<1>3. ASSUME NEW t \in 1 .. Len(Kept(dset)) PROVE F[Base(dset)[t]] = FullRows(dset')[t].y
  <2>1. /\ Table(FullRows(dset)) /\ t \in DOMAIN FullRows(dset) /\ t \in DOMAIN FullRows(dset')
        /\ FullRows(dset)[t].id = Base(dset)[t]
    BY <1>1, <1>2, SoundTable
  <2>2. Base(dset)[t] \in Obs
    BY <2>1, TableFacts, SampleMapping
  <2>3. FullRows(dset')[t].y = NoSeries
    BY <1>1, <1>2, <2>1, NoYRows
  <2> QED
    BY <2>2, <2>3
<1>4. F = [o \in Obs |-> F[o]]
  OBVIOUS
<1> HIDE DEF F
<1>5. Data' = F /\ UNCHANGED <<Obs, Sel, Callers>>
  BY <1>1, <1>2, <1>3, <1>4, ValuesStep
<1>6. DOMAIN Data = Obs
  BY CoreFacts, SoundTable, SampleMapping, DataFacts
<1>7. S!WithoutSeries(Data) = F
  BY <1>6 DEF S!WithoutSeries, F
<1> QED
  BY <1>5, <1>7 DEF S!DropSeries

-----------------------------------------------------------------------------
(***************************************************************************)
(* Added observations, calls and their ends.                               *)
(***************************************************************************)

\* The records of the calls as operators of the frames.
Caller == [sel : SUBSET Nat, obs : SUBSET Nat]

CallerOf(f) == [sel |-> f.sel, obs |-> f.obs]

CallersOf(fs) == [i \in DOMAIN fs |-> CallerOf(fs[i])]

\* What the abstract calls are, as an operator of the frames.
LEMMA CallersAre == Callers = CallersOf(frames) /\ Callers' = CallersOf(frames')
  BY DEF Callers, CallersOf, CallerOf

\* The abstract calls are as many as the frames, one for each.
LEMMA CallersFacts ==
  ASSUME NEW fs \in Seq(Frame)
  PROVE  /\ CallersOf(fs) \in Seq(Caller) /\ Len(CallersOf(fs)) = Len(fs) /\ Len(fs) \in Nat
         /\ \A i \in 1 .. Len(fs) : CallersOf(fs)[i] = CallerOf(fs[i])
<1>1. Len(fs) \in Nat /\ DOMAIN fs = 1 .. Len(fs)
  BY LenProperties
<1>2. \A i \in 1 .. Len(fs) : CallerOf(fs[i]) \in Caller
  <2> TAKE i \in 1 .. Len(fs)
  <2>1. fs[i] \in Frame
    BY <1>1, ElementOfSeq
  <2> QED
    BY <2>1 DEF Frame, CallerOf, Caller
<1>3. CallersOf(fs) \in [1 .. Len(fs) -> Caller]
  BY <1>1, <1>2 DEF CallersOf
<1>4. \A i \in 1 .. Len(fs) : CallersOf(fs)[i] = CallerOf(fs[i])
  BY <1>1 DEF CallersOf
<1> QED
  BY <1>1, <1>3, <1>4, SeqFcn

\* Two sequences with the same elements are the same.
LEMMA SameSeq ==
  ASSUME NEW X, NEW s \in Seq(X), NEW t \in Seq(X), Len(s) = Len(t),
         \A i \in 1 .. Len(s) : s[i] = t[i]
  PROVE  s = t
<1>1. DOMAIN s = 1 .. Len(s) /\ DOMAIN t = 1 .. Len(s)
  BY LenProperties
<1>2. s \in [1 .. Len(s) -> X] /\ t \in [1 .. Len(s) -> X]
  BY LenProperties
<1> QED
  BY <1>2

\* A call records the sample and the observations.
LEMMA CallRefines == ASSUME Core, Call PROVE S!Call
<1> DEFINE f == NewFrame(dset)
           c == [sel |-> Sel, obs |-> Obs]
           n == Len(frames)
           A == CallersOf(frames)
           B == CallersOf(frames')
<1>1. frames' = Append(frames, f) /\ UNCHANGED dset
  BY StepCall DEF Call
<1>2. /\ frames \in Seq(Frame) /\ n \in Nat /\ f \in Frame
  BY CoreFacts, LinkedFacts, NewFrameFacts
<1>3. CallerOf(f) = c
  BY DEF CallerOf, NewFrame, Sel, Obs
<1> HIDE DEF f
<1>4. /\ frames' \in Seq(Frame) /\ Len(frames') = n + 1 /\ frames'[n + 1] = f
      /\ \A i \in 1 .. n : frames'[i] = frames[i]
  BY <1>1, <1>2, AppendProperties
<1>5. /\ A \in Seq(Caller) /\ Len(A) = n /\ \A i \in 1 .. n : A[i] = CallerOf(frames[i])
      /\ B \in Seq(Caller) /\ Len(B) = n + 1
      /\ \A i \in 1 .. n + 1 : B[i] = CallerOf(frames'[i])
  BY <1>2, <1>4, CallersFacts
<1> HIDE DEF A, B, n, c
<1>6. c \in Caller
  <2>1. n + 1 \in 1 .. n + 1
    BY <1>2
  <2>2. B[n + 1] = c
    BY <1>3, <1>4, <1>5, <2>1
  <2> QED
    BY <1>2, <1>5, <2>1, <2>2, ElementOfSeq
<1>7. /\ Append(A, c) \in Seq(Caller) /\ Len(Append(A, c)) = n + 1 /\ Append(A, c)[n + 1] = c
      /\ \A i \in 1 .. n : Append(A, c)[i] = A[i]
  BY <1>5, <1>6, AppendProperties
<1>8. ASSUME NEW i \in 1 .. n + 1 PROVE B[i] = Append(A, c)[i]
  <2>1. CASE i = n + 1
    BY <1>2, <1>3, <1>4, <1>5, <1>7, <2>1
  <2>2. CASE i # n + 1
    <3>1. i \in 1 .. n
      BY <1>2, <2>2
    <3> QED
      BY <1>4, <1>5, <1>7, <3>1
  <2> QED
    BY <2>1, <2>2
<1>9. B = Append(A, c)
  BY <1>5, <1>7, <1>8, SameSeq
<1>10. Callers' = Append(Callers, c)
  BY <1>9, CallersAre DEF A, B
<1>11. UNCHANGED <<Obs, Data, Sel>>
  BY <1>1, SampleMapping
<1> QED
  BY <1>10, <1>11 DEF S!Call, c

\* dataset addobs adds an observation after the others.
LEMMA AddObsRefines ==
  ASSUME Core, lastmod \in Model, AddObs
  PROVE  \E o \in Id : S!AddObservation(o)
<1> DEFINE n == Len(dset.Z)
           R == dset.Z
           P == dset'.Z
           o == Max(Known) + 1
           v == IF HasY(dset.Z) THEN NA ELSE NoSeries
           r == [id |-> o, y |-> v]
           F == [p \in ObsOf(P) |-> IF p \in Obs THEN Data[p]
                                    ELSE IF S!Exists THEN NA ELSE NoSeries]
<1>1. /\ Sound(dset') /\ dset.full = << >> /\ dset'.full = << >> /\ dset'.t1 = dset.t1
      /\ dset'.t2 = IF dset.t2 = n THEN n + 1 ELSE dset.t2
      /\ frames' = Grown(frames)
  BY AddObsFacts
<1>2. /\ Sound(dset) /\ dset \in Dataset /\ R \in Seq(Row) /\ n \in Nat /\ DOMAIN R = 1 .. n
      /\ dset.t1 \in 1 .. n /\ dset.t2 \in dset.t1 .. n
  BY CoreFacts, SoundFacts DEF Sound
<1>3. P = Append(R, r)
  BY <1>2 DEF AddObs, Dataset
<1>4. FullRows(dset) = R /\ FullRows(dset') = P
  BY <1>1 DEF FullRows
<1>5. Table(R) /\ Table(P)
  BY <1>1, <1>2, <1>4, SoundTable
<1>6. /\ Obs = ObsOf(R) /\ Obs' = ObsOf(P) /\ Data = DataOf(R) /\ Data' = DataOf(P)
      /\ Sel = SelOf(dset) /\ Sel' = SelOf(dset')
  BY <1>4, SampleMapping
<1>7. Len(P) = n + 1 /\ \A t \in 1 .. n : P[t] = R[t]
  BY <1>2, <1>3, AppendProperties
<1>8. P[n + 1] = r /\ r.id = o /\ r.y = v /\ P[n + 1].id = o /\ P[n + 1].y = v
  <2>1. P[n + 1] = r
    BY <1>2, <1>3, AppendProperties
  <2> QED
    BY <2>1
<1> HIDE DEF P, R, r, o, n
<1>9. DOMAIN P = 1 .. n + 1 /\ n + 1 \in DOMAIN P
  BY <1>2, <1>5, <1>7, TableFacts
<1>10. o \in Id
  BY <1>5, <1>8, <1>9, TableFacts
<1>11. o \notin Obs
  <2> SUFFICES ASSUME o \in ObsOf(R) PROVE FALSE
    BY <1>6
  <2>1. PICK t \in 1 .. n : R[t].id = o
    BY <1>2, <1>5, TableFacts
  <2>2. t \in DOMAIN P /\ P[t].id = P[n + 1].id
    BY <1>2, <1>7, <1>8, <1>9, <2>1
  <2>3. t = n + 1
    BY <1>5, <1>9, <2>2, TableFacts
  <2> QED
    BY <1>2, <2>3
<1>12. Obs' = Obs \cup {o}
  <2>1. \A t \in 1 .. n + 1 : t \in 1 .. n \/ t = n + 1
    BY <1>2
  <2>2. \A t \in 1 .. n : t \in 1 .. n + 1
    BY <1>2
  <2>3. ObsOf(R) = {R[t].id : t \in 1 .. n} /\ ObsOf(P) = {P[t].id : t \in 1 .. n + 1}
    BY <1>2, <1>9 DEF ObsOf, Ids
  <2>4. ObsOf(P) \subseteq ObsOf(R) \cup {o}
    BY <1>7, <1>8, <2>1, <2>3
  <2>5. ObsOf(R) \subseteq ObsOf(P)
    BY <1>7, <2>2, <2>3
  <2>6. o \in ObsOf(P)
    BY <1>8, <1>9, <2>3
  <2> QED
    BY <1>6, <2>4, <2>5, <2>6
<1>13. ASSUME NEW t \in DOMAIN P PROVE F[P[t].id] = P[t].y
  <2>1. P[t].id \in ObsOf(P)
    BY <1>5, TableFacts
  <2>2. CASE t = n + 1
    <3>1. F[o] = IF S!Exists THEN NA ELSE NoSeries
      BY <1>8, <1>11, <2>1, <2>2
    <3>2. S!Exists <=> HasY(dset.Z)
      BY ExistsFacts
    <3> QED
      BY <1>8, <2>2, <3>1, <3>2
  <2>3. CASE t # n + 1
    <3>1. t \in 1 .. n
      BY <1>2, <1>9, <2>3
    <3>2. R[t].id \in Obs /\ Data[R[t].id] = R[t].y
      BY <1>2, <1>5, <1>6, <3>1, TableFacts, DataFacts
    <3> QED
      BY <1>7, <2>1, <3>1, <3>2
  <2> QED
    BY <2>2, <2>3
<1>14. F = [p \in ObsOf(P) |-> F[p]]
  OBVIOUS
<1>15. Data' = F
  <2> HIDE DEF F
  <2>1. DataOf(P) = F
    <3>1. ValuesOf(P, F)
      BY <1>5, <1>13, <1>14 DEF ValuesOf
    <3> QED
      BY <3>1, DataIs
  <2> QED
    BY <1>6, <2>1
<1>16. Sel' \in {Sel, Sel \cup {o}}
  <2>1. /\ Sel = {R[t].id : t \in dset.t1 .. dset.t2}
        /\ Sel' = {P[t].id : t \in dset'.t1 .. dset'.t2}
    BY <1>6 DEF SelOf, Ids, InRange, R, P
  <2>2. CASE dset.t2 = n
    <3>1. dset'.t1 = dset.t1 /\ dset'.t2 = n + 1
      BY <1>1, <2>2
    <3>2. /\ \A t \in dset.t1 .. n : t \in dset.t1 .. n + 1 /\ t \in 1 .. n
          /\ \A t \in dset.t1 .. n + 1 : t \in dset.t1 .. n \/ t = n + 1
          /\ n + 1 \in dset.t1 .. n + 1
      BY <1>2
    <3>3. Sel = {R[t].id : t \in dset.t1 .. n} /\ Sel' = {P[t].id : t \in dset.t1 .. n + 1}
      BY <2>1, <2>2, <3>1
    <3>4. Sel' \subseteq Sel \cup {o}
      BY <1>7, <1>8, <3>2, <3>3
    <3>5. Sel \subseteq Sel' /\ o \in Sel'
      BY <1>7, <1>8, <3>2, <3>3
    <3> QED
      BY <3>4, <3>5
  <2>3. CASE dset.t2 # n
    <3>1. dset'.t1 = dset.t1 /\ dset'.t2 = dset.t2
      BY <1>1, <2>3
    <3>2. \A t \in dset.t1 .. dset.t2 : t \in 1 .. n
      BY <1>2
    <3>3. Sel' = {P[t].id : t \in dset.t1 .. dset.t2}
      BY <2>1, <3>1
    <3>4. Sel' = Sel
      BY <1>7, <2>1, <3>2, <3>3
    <3> QED
      BY <3>4
  <2> QED
    BY <2>2, <2>3
<1>17. UNCHANGED Callers
  <2> DEFINE A == CallersOf(frames)
             B == CallersOf(frames')
             m == Len(frames)
  <2>1. frames \in Seq(Frame) /\ m \in Nat
    BY CoreFacts, LinkedFacts
  <2>2. /\ frames' \in Seq(Frame) /\ Len(frames') = m
        /\ \A i \in 1 .. m : frames'[i].sel = frames[i].sel /\ frames'[i].obs = frames[i].obs
    BY <1>1, <2>1, GrownFacts
  <2>3. /\ A \in Seq(Caller) /\ Len(A) = m /\ \A i \in 1 .. m : A[i] = CallerOf(frames[i])
        /\ B \in Seq(Caller) /\ Len(B) = m /\ \A i \in 1 .. m : B[i] = CallerOf(frames'[i])
    BY <2>1, <2>2, CallersFacts
  <2>4. \A i \in 1 .. m : CallerOf(frames'[i]) = CallerOf(frames[i])
    BY <2>2 DEF CallerOf
  <2> HIDE DEF A, B, m
  <2>5. A = B
    BY <2>3, <2>4, SameSeq
  <2> QED
    BY <2>5, CallersAre DEF A, B
<1>18. Obs' = ObsOf(P)
  BY <1>6
<1>19. S!AddObservation(o)
  BY <1>11, <1>12, <1>15, <1>16, <1>17, <1>18 DEF S!AddObservation
<1> QED
  BY <1>10, <1>19

\* At the end of a function the rows are those of the observations there were at
\* its call.
LEMMA ExitRows ==
  ASSUME NEW d, Sound(d), NEW f \in Frame, Recorded(Base(d), Len(Kept(d)), f),
         Follows(f, d.submask, Len(Kept(d)))
  PROVE  \A t \in 1 .. Size(f) : FullRows(Exit(d, f))[t] = FullRows(d)[t]
<1> DEFINE h == Size(f)
           k == Len(Kept(d))
           a == f.t1
           b == f.t2
           m == f.submask
           e == Exit(d, f)
<1>1. /\ h \in 1 .. k /\ k \in Nat /\ h \in Nat /\ k = h + f.added /\ a \in Nat /\ b \in Nat
      /\ m \subseteq 1 .. h /\ f.n = IF m = {} THEN h ELSE Cardinality(m)
      /\ (m # {} => d.submask # {}) /\ (d.submask # {} => f.added = 0)
  BY SoundFacts DEF Recorded, Fits, Follows, Frame
<1>2. d \in Dataset /\ (d.submask = {} <=> d.full = << >>)
  BY DEF Sound
<1>3. /\ Sound(RestoreFull(d)) /\ Len(Kept(RestoreFull(d))) = k /\ RestoreFull(d).full = << >>
      /\ RestoreFull(d) \in Dataset
  BY RestoreSound DEF Sound
<1>4. CASE d.full # << >>
  <2>1. k = h
    BY <1>1, <1>2, <1>4
  <2>2. CASE m = {}
    <3>1. e = Ranged(RestoreFull(d), a, b)
      BY <1>4, <2>2 DEF Exit, Ranged
    <3> HIDE DEF a, b, e
    <3>2. FullRows(e) = FullRows(d)
      BY <1>1, <1>3, <3>1, RangedRows, RestoredRows
    <3> QED
      BY <3>2 DEF e
  <2>3. CASE m # {} /\ m # d.submask
    <3>1. e = Ranged(FromMask(RestoreFull(d), m), a, b)
      BY <1>4, <2>3 DEF Exit, Ranged
    <3>2. m \subseteq 1 .. Len(Kept(RestoreFull(d)))
      BY <1>1, <1>3, <2>1
    <3> HIDE DEF a, b, e, m
    <3>3. /\ FullRows(FromMask(RestoreFull(d), m)) = FullRows(RestoreFull(d))
          /\ FromMask(RestoreFull(d), m) \in Dataset
      BY <1>3, <2>3, <3>2, MaskedRows, MaskSound DEF Sound
    <3>4. FullRows(e) = FullRows(d)
      BY <1>1, <3>1, <3>3, RangedRows, RestoredRows
    <3> QED
      BY <3>4 DEF e
  <2>4. CASE m # {} /\ m = d.submask
    <3>1. e = Ranged(d, a, b)
      BY <1>4, <2>4 DEF Exit, Ranged
    <3> HIDE DEF a, b, e
    <3>2. FullRows(e) = FullRows(d)
      BY <1>1, <1>2, <3>1, RangedRows
    <3> QED
      BY <3>2 DEF e
  <2> QED
    BY <2>2, <2>3, <2>4
<1>5. CASE d.full = << >>
  <2>1. /\ FullRows(d) = d.Z /\ m = {} /\ f.n = h /\ Len(d.Z) = k
    BY <1>1, <1>2, <1>5 DEF FullRows, Kept
  <2>2. CASE Len(d.Z) > f.n
    <3> DEFINE Z == SubSeq(d.Z, 1, h)
    <3>1. Z \in Seq(Row) /\ \A t \in 1 .. h : Z[t] = d.Z[t]
      <4>1. 1 \in 1 .. Len(d.Z) /\ h \in 1 .. Len(d.Z) /\ h - 1 + 1 = h
            /\ \A t \in 1 .. h : 1 + t - 1 = t
        BY <1>1, <2>1
      <4> HIDE DEF h
      <4> QED
        BY <4>1, PartSound
    <3>2. e = Cut(d, Z, a, b)
      <4>1. e = [[d EXCEPT !.Z = SubSeq(@, 1, f.n)] EXCEPT !.t1 = f.t1, !.t2 = f.t2]
        BY <1>5, <2>2 DEF Exit
      <4>2. [d EXCEPT !.Z = SubSeq(@, 1, f.n)] = [d EXCEPT !.Z = Z]
        BY <2>1
      <4> HIDE DEF Z
      <4> QED
        BY <4>1, <4>2 DEF Cut
    <3> HIDE DEF Z, a, b, e
    <3>3. e = Ranged(Whole(Z), a, b)
      BY <1>1, <1>2, <1>5, <3>1, <3>2, CutFacts
    <3>4. Whole(Z) \in Dataset
      <4>1. << >> \in Seq(Row) /\ Len(Z) \in Nat
        BY <3>1, EmptySeq, LenProperties
      <4> QED
        BY <3>1, <4>1 DEF Whole, Dataset
    <3>5. FullRows(e) = Z
      BY <1>1, <3>3, <3>4, RangedRows, WholeRows
    <3> QED
      BY <2>1, <3>1, <3>5 DEF e
  <2>3. CASE ~(Len(d.Z) > f.n)
    <3>1. e = Ranged(d, a, b)
      BY <1>5, <2>3 DEF Exit, Ranged
    <3> HIDE DEF a, b, e
    <3>2. FullRows(e) = FullRows(d)
      BY <1>1, <1>2, <3>1, RangedRows
    <3> QED
      BY <3>2 DEF e
  <2> QED
    BY <2>2, <2>3
<1> QED
  BY <1>4, <1>5

\* A return gives back the caller's sample and its observations.
LEMMA ReturnRefines == ASSUME Core, Return PROVE S!Return
<1> DEFINE e == Exit(dset, Top)
           own == ylev = Len(frames) /\ HasY(dset.Z)
           R == FullRows(dset)
           P == FullRows(e)
           Q == FullRows(dset')
           n == Len(frames)
           A == CallersOf(frames)
           B == CallersOf(frames')
           kept == [o \in Top.obs |-> Data[o]]
<1>1. /\ InCall /\ dset' = (IF own THEN NoY(e) ELSE e) /\ frames' = Front(frames)
      /\ Sound(dset') /\ Len(Kept(dset')) = Size(Top)
  BY ReturnFacts DEF Return, End
<1>2. /\ Sound(dset) /\ Top \in Frame /\ Recorded(Base(dset), Len(Kept(dset)), Top)
      /\ Follows(Top, dset.submask, Len(Kept(dset))) /\ Len(Kept(dset)) \in Nat
      /\ frames \in Seq(Frame) /\ frames # << >> /\ n \in Nat /\ Top = frames[n] /\ n > 0
  BY <1>1, CoreFacts, SoundFacts DEF InCall, Top, Linked
<1>3. Sound(e) /\ Len(Kept(e)) = Size(Top) /\ Size(Top) \in 1 .. Len(Kept(dset))
  BY <1>2, ExitFacts DEF Recorded
<1>4. \A t \in 1 .. Size(Top) : P[t] = R[t]
  BY <1>2, ExitRows
<1>5. /\ Table(R) /\ DOMAIN R = 1 .. Len(Kept(dset))
      /\ Table(P) /\ DOMAIN P = 1 .. Size(Top) /\ Table(Q) /\ DOMAIN Q = 1 .. Size(Top)
  BY <1>1, <1>2, <1>3, SoundTable
<1>6. Sel' = Top.sel /\ ObsOf(Q) = Top.obs
  <2>1. Sel' = Top.sel /\ Obs' = Top.obs
    BY ReturnSample
  <2> QED
    BY <2>1, SampleMapping
<1>7. Data = DataOf(R) /\ Data' = DataOf(Q) /\ Obs' = ObsOf(Q)
  BY SampleMapping
<1> HIDE DEF e, R, P, Q
<1>8. ASSUME NEW t \in DOMAIN P PROVE \E s \in DOMAIN R : P[t] = R[s]
  BY <1>3, <1>4, <1>5
<1>9. DataOf(P) = [o \in ObsOf(P) |-> Data[o]]
  <2>1. Table(R) /\ Table(P)
    BY <1>5
  <2>2. \A t \in DOMAIN P : \E s \in DOMAIN R : P[t] = R[s]
    BY <1>8
  <2>3. DataOf(P) = [o \in ObsOf(P) |-> DataOf(R)[o]]
    BY <2>1, <2>2, PartData
  <2> QED
    BY <1>7, <2>3
<1>10. Data' \in {kept, S!WithoutSeries(kept)}
  <2>1. CASE ~own
    <3>1. P = Q
      BY <1>1, <2>1 DEF P, Q
    <3> QED
      BY <1>6, <1>7, <1>9, <3>1
  <2>2. CASE own
    <3> DEFINE F == [o \in ObsOf(Q) |-> NoSeries]
    <3>1. dset' = NoY(e)
      BY <1>1, <2>2
    <3>2. \A t \in DOMAIN Q : Q[t].y = NoSeries
      BY <1>3, <3>1, NoYRows DEF Q
    <3>3. \A t \in DOMAIN Q : F[Q[t].id] = Q[t].y
      BY <1>5, <3>2, TableFacts
    <3>4. F = [o \in ObsOf(Q) |-> F[o]]
      OBVIOUS
    <3>5. S!WithoutSeries(kept) = F
      BY <1>6 DEF S!WithoutSeries
    <3> HIDE DEF F
    <3>6. DataOf(Q) = F
      <4>1. ValuesOf(Q, F)
        BY <1>5, <3>3, <3>4 DEF ValuesOf
      <4> QED
        BY <4>1, DataIs
    <3> QED
      BY <1>7, <3>5, <3>6
  <2> QED
    BY <2>1, <2>2
<1>11. /\ frames' \in Seq(Frame) /\ Len(frames') = n - 1
       /\ \A i \in 1 .. n - 1 : frames'[i] = frames[i]
  BY <1>1, <1>2, FrontFacts
<1>12. /\ A \in Seq(Caller) /\ Len(A) = n /\ \A i \in 1 .. n : A[i] = CallerOf(frames[i])
       /\ B \in Seq(Caller) /\ Len(B) = n - 1
       /\ \A i \in 1 .. n - 1 : B[i] = CallerOf(frames'[i])
  BY <1>2, <1>11, CallersFacts
<1> HIDE DEF A, B, n, kept, own
<1>13. A[n] = [sel |-> Top.sel, obs |-> Top.obs] /\ A # << >>
  <2>1. n \in 1 .. n
    BY <1>2
  <2>2. A[n] = CallerOf(frames[n])
    BY <1>12, <2>1
  <2>3. A # << >>
    BY <1>2, <1>12
  <2> QED
    BY <1>2, <2>2, <2>3 DEF CallerOf
<1>14. SubSeq(A, 1, n - 1) = B
  <2> DEFINE C == SubSeq(A, 1, n - 1)
  <2>1. \A i \in 1 .. n - 1 : A[i] \in Caller
    BY <1>2, <1>12, ElementOfSeq
  <2>2. /\ C \in Seq(Caller) /\ Len(C) = n - 1
        /\ \A i \in 1 .. n - 1 : C[i] = A[i]
    <3>1. /\ 1 \in Nat /\ n - 1 \in Nat /\ n - 1 + 1 = n /\ \A i \in 1 .. n - 1 : 1 + i - 1 = i
          /\ n - 1 - 1 + 1 = n - 1 /\ 1 <= n - 1 + 1
      BY <1>2
    <3> QED
      BY <1>12, <2>1, <3>1, SubSeqProperties
  <2>3. \A i \in 1 .. n - 1 : C[i] = B[i]
    <3>1. \A i \in 1 .. n - 1 : i \in 1 .. n
      BY <1>2
    <3> QED
      BY <1>11, <1>12, <2>2, <3>1
  <2> HIDE DEF C
  <2>4. C = B
    BY <1>12, <2>2, <2>3, SameSeq
  <2> QED
    BY <2>4 DEF C
<1>15. /\ Callers # << >> /\ Len(Callers) = n
       /\ Callers[Len(Callers)] = [sel |-> Top.sel, obs |-> Top.obs]
       /\ Callers' = SubSeq(Callers, 1, Len(Callers) - 1)
  BY <1>12, <1>13, <1>14, CallersAre DEF A, B
<1>16. /\ Callers[Len(Callers)].obs = Top.obs /\ Callers[Len(Callers)].sel = Top.sel
  BY <1>15
<1>17. Obs' = Callers[Len(Callers)].obs /\ Sel' = Callers[Len(Callers)].sel
  BY <1>6, <1>7, <1>16
<1>18. LET k == [o \in Callers[Len(Callers)].obs |-> Data[o]]
       IN  Data' \in {k, S!WithoutSeries(k)}
  BY <1>10, <1>16 DEF kept
<1> QED
  BY <1>15, <1>17, <1>18 DEF S!Return

-----------------------------------------------------------------------------
(***************************************************************************)
(* The theorem.                                                            *)
(***************************************************************************)

\* The dataset that is opened is all in the sample.
LEMMA SampleInit == ASSUME Init PROVE S!Init
<1> DEFINE Z == [t \in 1 .. MaxObs |-> [id |-> t, y |-> NoSeries]]
           F == [o \in ObsOf(Z) |-> NoSeries]
<1>1. dset = Whole(Z) /\ frames = << >> /\ Sound(dset)
  BY InitSteady DEF Init, Steady, Core
<1>2. FullRows(dset) = Z
  BY <1>1, WholeRows
<1>3. Table(Z)
  BY <1>1, <1>2, SoundTable
<1>4. /\ Obs = ObsOf(Z) /\ Data = DataOf(Z) /\ Sel = SelOf(dset)
  BY <1>2, SampleMapping
<1>5. dset.Z = Z /\ dset.t1 = 1 /\ dset.t2 = Len(Z)
  BY <1>1 DEF Whole
<1>6. \A t \in DOMAIN Z : Z[t].y = NoSeries
  OBVIOUS
<1> HIDE DEF Z
<1>7. Sel = Obs
  <2>1. DOMAIN Z = 1 .. Len(Z)
    BY <1>3, TableFacts
  <2> QED
    BY <1>4, <1>5, <2>1 DEF SelOf, InRange, ObsOf
<1>8. Obs \in SUBSET Id /\ Obs # {}
  BY <1>3, <1>4, TableFacts
<1>9. Data = [o \in Obs |-> NoSeries]
  <2>1. \A t \in DOMAIN Z : F[Z[t].id] = Z[t].y
    BY <1>3, <1>6, TableFacts
  <2>2. F = [o \in ObsOf(Z) |-> F[o]]
    OBVIOUS
  <2> HIDE DEF F
  <2>3. DataOf(Z) = F
    <3>1. ValuesOf(Z, F)
      BY <1>3, <2>1, <2>2 DEF ValuesOf
    <3> QED
      BY <3>1, DataIs
  <2> QED
    BY <1>4, <2>3 DEF F
<1>10. Callers = << >>
  BY <1>1 DEF Callers
<1> QED
  BY <1>7, <1>8, <1>9, <1>10 DEF S!Init

\* Every step of the program is a step of the abstract dataset, or none.
LEMMA SampleNext ==
  ASSUME Regular, Steady, Next PROVE S!Next \/ UNCHANGED S!vars
<1>1. Core /\ lastmod \in Model
  BY DEF Steady
<1>2. CASE PermaSample
  BY <1>1, <1>2, PermaRefines DEF S!Next
<1>3. CASE Full
  BY <1>1, <1>3, FullRefines DEF S!Next
<1>4. CASE RestrictFails
  BY <1>1, <1>4, FailsRefines DEF S!Next
<1>5. CASE \E a \in Id : SetStart(a)
  BY <1>1, <1>5, SetStartRefines DEF S!Next
<1>6. CASE \E a, b \in Id, permanent \in BOOLEAN : SetSample(a, b, permanent)
  BY <1>1, <1>6, SetSampleRefines DEF S!Next
<1>7. ASSUME NEW mode, NEW cond, NEW replace, RestrictSample(mode, cond, replace)
      PROVE  S!Next
  BY <1>1, <1>7, RestrictRefines DEF S!Next
<1>8. ASSUME NEW mode, NEW cond, NEW replace, RestrictPermanently(mode, cond, replace)
      PROVE  S!Next
  BY <1>1, <1>8, RestrictPermanentlyRefines DEF S!Next
<1>9. 1 \in S!Value \ {NA}
  BY SubsampleAssumption DEF S!Value
<1>10. CASE Genr
  BY <1>1, <1>9, <1>10, GenrRefines DEF S!Next
<1>11. CASE AddSeries
  BY <1>1, <1>9, <1>11, AddSeriesRefines DEF S!Next
<1>12. CASE DropSeries
  BY <1>1, <1>12, DropRefines DEF S!Next
<1>13. CASE AddObs
  BY <1>1, <1>13, AddObsRefines DEF S!Next
<1>14. CASE Estimate
  <2>1. UNCHANGED <<dset, frames>>
    BY <1>14 DEF Estimate
  <2> QED
    BY <2>1, SampleMapping, CallersSame DEF S!vars
<1>15. CASE Call
  BY <1>1, <1>15, CallRefines DEF S!Next
<1>16. CASE Return
  BY <1>1, <1>16, ReturnRefines DEF S!Next
<1> QED
  BY <1>2, <1>3, <1>4, <1>5, <1>6, <1>7, <1>8, <1>10, <1>11, <1>12, <1>13, <1>14, <1>15, <1>16
     DEF Next

\* The rows in use, the mask, the full dataset kept aside and what the calls have
\* recorded implement one dataset with a sample: no value is lost or moved to
\* another observation, and a function gives back the sample and the
\* observations of its caller (subsample.c, gretl_func.c).
THEOREM SampleImplemented == ASSUME Regular PROVE Spec => ImplementsSample
<1>1. Init => Steady /\ S!Init
  BY InitSteady, SampleInit
<1>2. Steady /\ [Next]_vars => Steady'
  BY StepSteady
<1>3. Steady /\ [Next]_vars => [S!Next]_S!vars
  <2> SUFFICES ASSUME Steady, [Next]_vars PROVE S!Next \/ UNCHANGED S!vars
    OBVIOUS
  <2>1. CASE Next
    BY <2>1, SampleNext
  <2>2. CASE UNCHANGED vars
    <3>1. UNCHANGED <<dset, frames>>
      BY <2>2 DEF vars
    <3> QED
      BY <3>1, SampleMapping, CallersSame DEF S!vars
  <2> QED
    BY <2>1, <2>2
<1> QED
  BY <1>1, <1>2, <1>3, PTL DEF Spec, ImplementsSample, S!Spec
=============================================================================
