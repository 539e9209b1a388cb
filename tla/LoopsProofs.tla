---------------------------- MODULE LoopsProofs ----------------------------
(***************************************************************************)
(* Proofs about Loops, for any number of structures, lines and readers.    *)
(*                                                                         *)
(* Trees of structures are told apart by their roots, which the model      *)
(* finds by recursion, as the program does.  The first part shows what     *)
(* the recursive definitions are: they go along the levels, which are      *)
(* numbers, and a set of numbers that is not empty has a least element.    *)
(* The second part is the invariant, the third what each operation does    *)
(* to the trees and to what is executed, and the fourth goes through the   *)
(* steps of the scripts, functions and loops.  The last shows that the     *)
(* structures implement LoopBodies: what the values of loops are, where    *)
(* a step changes them, and which step of LoopBodies each step is.         *)
(***************************************************************************)
EXTENDS Loops, SequenceTheorems, FiniteSetTheorems, WellFoundedInduction, TLAPS

\* The children of a structure.
Kids(S, l) == Range(S[l].children)

\* Parents and children point to each other, and levels grow from one to the
\* other; they are bounded, though by no constant.
Linked(S) ==
    /\ \A l \in DOMAIN S : \A c \in Kids(S, l) : c \in DOMAIN S /\ S[c].parent = l
    /\ \A l \in DOMAIN S : S[l].parent # NULL =>
         /\ S[l].parent \in DOMAIN S
         /\ l \in Kids(S, S[l].parent)
         /\ S[l].level = S[S[l].parent].level + 1
    /\ \E b \in Nat : \A l \in DOMAIN S : S[l].level <= b

\* The structures are trees.
Forest(S) ==
    /\ DOMAIN S \subseteq Address /\ S \in [DOMAIN S -> LoopSet]
    /\ Linked(S)

\* The functions that Root and Family define by recursion, of any structures.
RootFcn(S) ==
    CHOOSE R : R = [l \in DOMAIN S |-> IF S[l].parent = NULL THEN l ELSE R[S[l].parent]]

FamFcn(S) ==
    CHOOSE F : F = [l \in DOMAIN S |-> {l} \cup UNION {F[c] : c \in Range(S[l].children)}]

\* What Root is of those structures.
RootOf(S, l) == RootFcn(S)[l]

\* What Family is of those structures.
FamilyOf(S, l) == FamFcn(S)[l]

\* No pointer to a child leads out of X.
Closed(S, X) == \A x \in X : Kids(S, x) \subseteq X

\* What can be reached from l by pointers to children.
Under(S, l) ==
    {m \in DOMAIN S : \A X \in SUBSET DOMAIN S : l \in X /\ Closed(S, X) => m \in X}

\* The structures that are nobody's children.
Roots(S) == {m \in DOMAIN S : S[m].parent = NULL}

\* NULL is the address of nothing.
LEMMA NullFacts == NULL \notin Address /\ \A a \in Address : a # NULL /\ a \in Nat
  BY LoopsAssumption DEF NULL, Address

\* Root and Family are those functions of the variable, before and after a step.
LEMMA OwnRoot == \A l : Root(l) = RootOf(loops, l) /\ Root(l)' = RootOf(loops', l)
  BY DEF Root, RootOf, RootFcn, Live

\* The same of the family.
LEMMA OwnFamily == \A l : Family(l) = FamilyOf(loops, l)
  BY DEF Family, FamilyOf, FamFcn, Live, Range

----------------------------------------------------------------------------
(* Trees.                                                                  *)

\* Every set of numbers has a least one: what replaces induction here.
LEMMA Least ==
  ASSUME NEW T, T \subseteq Nat, T # {} PROVE \E x \in T : \A y \in T : x <= y
<1> DEFINE LT == {ss \in Nat \X Nat : ss[1] < ss[2]}
<1>1. OpToRel(<, Nat) = LT
  BY DEF OpToRel
<1>2. IsWellFoundedOn(LT, Nat)
  BY <1>1, NatLessThanWellFounded
<1>3. PICK x \in T : \A y \in T : <<y, x>> \notin LT
  <2> HIDE DEF LT
  <2> QED
    BY <1>2, WFMin
<1>4. \A y \in T : ~(y < x)
  BY <1>3
<1> QED
  BY <1>4

\* Some structures of any set are the outermost, and some the innermost.
LEMMA Outermost ==
  ASSUME NEW S, Forest(S), NEW T, T \subseteq DOMAIN S, T # {}
  PROVE  \E x \in T : \A y \in T : S[x].level <= S[y].level
<1>1. \A l \in DOMAIN S : S[l].level \in Nat
  BY DEF Forest, LoopSet
<1> DEFINE N == {S[l].level : l \in T}
<1>2. N \subseteq Nat /\ N # {}
  BY <1>1
<1>3. PICK n \in N : \A k \in N : n <= k
  <2> HIDE DEF N
  <2> QED
    BY <1>2, Least
<1> QED
  BY <1>3

\* The same from the other side, since levels are bounded.
LEMMA Innermost ==
  ASSUME NEW S, Forest(S), NEW T, T \subseteq DOMAIN S, T # {}
  PROVE  \E x \in T : \A y \in T : S[y].level <= S[x].level
<1>1. \A l \in DOMAIN S : S[l].level \in Nat
  BY DEF Forest, LoopSet
<1>2. PICK b \in Nat : \A l \in DOMAIN S : S[l].level <= b
  BY DEF Forest, Linked
<1> DEFINE N == {b - S[l].level : l \in T}
<1>3. N \subseteq Nat /\ N # {}
  BY <1>1, <1>2
<1>4. PICK n \in N : \A k \in N : n <= k
  <2> HIDE DEF N
  <2> QED
    BY <1>3, Least
<1>5. PICK x \in T : n = b - S[x].level
  BY <1>4
<1>6. \A y \in T : b - S[x].level <= b - S[y].level
  BY <1>4, <1>5
<1>7. \A y \in T : S[y].level <= S[x].level
  BY <1>1, <1>6
<1> QED
  BY <1>7

\* What a structure knows of its parent and its children.
LEMMA ParentFacts ==
  ASSUME NEW S, Forest(S), NEW l \in DOMAIN S
  PROVE  /\ S[l].level \in Nat
         /\ S[l].parent # NULL => /\ S[l].parent \in DOMAIN S
                                  /\ l \in Kids(S, S[l].parent)
                                  /\ S[l].level = S[S[l].parent].level + 1
         /\ S[l].parent \in DOMAIN S => S[l].parent # NULL
         /\ \A c \in Kids(S, l) : /\ c \in DOMAIN S /\ S[c].parent = l
                                  /\ S[c].parent # NULL
                                  /\ S[c].level = S[l].level + 1
<1>1. l \in Address /\ S[l] \in LoopSet /\ l # NULL /\ NULL \notin DOMAIN S
  BY NullFacts DEF Forest
<1> QED
  BY <1>1 DEF Forest, Linked, LoopSet

\* What can be reached is the least set that is closed under pointers.
LEMMA UnderFacts ==
  ASSUME NEW S, Forest(S), NEW l \in DOMAIN S
  PROVE  /\ l \in Under(S, l) /\ Under(S, l) \subseteq DOMAIN S /\ Closed(S, Under(S, l))
         /\ \A y \in Under(S, l) : y # l => S[y].parent \in Under(S, l)
         /\ \A X \in SUBSET DOMAIN S : l \in X /\ Closed(S, X) => Under(S, l) \subseteq X
<1>1. l \in Under(S, l) /\ Under(S, l) \subseteq DOMAIN S
  BY DEF Under
<1>2. Closed(S, Under(S, l))
  BY ParentFacts DEF Closed, Under
<1>3. ASSUME NEW y \in Under(S, l), y # l PROVE S[y].parent \in Under(S, l)
  <2> SUFFICES ASSUME S[y].parent \notin Under(S, l) PROVE FALSE
    OBVIOUS
  <2> DEFINE X == Under(S, l) \ {y}
  <2>1. X \in SUBSET DOMAIN S /\ l \in X
    BY <1>1, <1>3
  <2>2. Closed(S, X)
    <3> SUFFICES ASSUME NEW x \in X, NEW c \in Kids(S, x) PROVE c \in X
      BY DEF Closed
    <3>1. c \in Under(S, l) /\ S[c].parent = x
      BY <1>1, <1>2, ParentFacts DEF Closed
    <3>2. c # y
      BY <3>1
    <3> QED
      BY <3>1, <3>2
  <2> HIDE DEF X
  <2>3. y \in X
    BY <2>1, <2>2 DEF Under
  <2> QED
    BY <2>3 DEF X
<1>4. \A X \in SUBSET DOMAIN S : l \in X /\ Closed(S, X) => Under(S, l) \subseteq X
  BY DEF Under
<1> QED
  BY <1>1, <1>2, <1>3, <1>4

\* It satisfies the recursive definition of Family.
LEMMA UnderChildren ==
  ASSUME NEW S, Forest(S), NEW l \in DOMAIN S
  PROVE  Under(S, l) = {l} \cup UNION {Under(S, c) : c \in Kids(S, l)}
<1> DEFINE X == {l} \cup UNION {Under(S, c) : c \in Kids(S, l)}
<1>1. \A c \in Kids(S, l) : c \in DOMAIN S /\ c \in Under(S, l)
  BY UnderFacts, ParentFacts DEF Closed
<1>2. \A c \in Kids(S, l) : Under(S, c) \subseteq Under(S, l)
  BY <1>1, UnderFacts
<1>3. X \subseteq Under(S, l)
  BY <1>2, UnderFacts
<1>4. X \in SUBSET DOMAIN S /\ l \in X
  BY <1>3, UnderFacts
<1>5. Closed(S, X)
  <2> SUFFICES ASSUME NEW x \in X, NEW d \in Kids(S, x) PROVE d \in X
    BY DEF Closed
  <2>1. CASE x = l
    BY <1>1, <2>1, UnderFacts
  <2>2. CASE x # l
    <3>1. PICK c \in Kids(S, l) : x \in Under(S, c)
      BY <2>2
    <3>2. d \in Under(S, c)
      BY <1>1, <3>1, UnderFacts DEF Closed
    <3> QED
      BY <3>1, <3>2
  <2> QED
    BY <2>1, <2>2
<1>6. Under(S, l) \subseteq X
  <2> HIDE DEF X
  <2> QED
    BY <1>4, <1>5, UnderFacts
<1> QED
  BY <1>3, <1>6

\* The recursive definition has one solution.
LEMMA FamilyIsUnder ==
  ASSUME NEW S, Forest(S), NEW l \in DOMAIN S PROVE FamilyOf(S, l) = Under(S, l)
<1> DEFINE Def(F) == [k \in DOMAIN S |-> {k} \cup UNION {F[c] : c \in Range(S[k].children)}]
           U == [k \in DOMAIN S |-> Under(S, k)]
           F == FamFcn(S)
<1>1. U = Def(U)
  <2> SUFFICES ASSUME NEW k \in DOMAIN S
               PROVE  Under(S, k) = {k} \cup UNION {U[c] : c \in Range(S[k].children)}
    OBVIOUS
  <2>1. \A c \in Kids(S, k) : U[c] = Under(S, c)
    BY ParentFacts
  <2> HIDE DEF U
  <2>2. {U[c] : c \in Kids(S, k)} = {Under(S, c) : c \in Kids(S, k)}
    BY <2>1
  <2>3. Under(S, k) = {k} \cup UNION {U[c] : c \in Kids(S, k)}
    BY <2>2, UnderChildren
  <2> QED
    BY <2>3 DEF Kids
<1>2. F = Def(F)
  BY <1>1 DEF FamFcn
<1> HIDE DEF F
<1>3. \A k \in DOMAIN S : F[k] = {k} \cup UNION {F[c] : c \in Kids(S, k)}
  BY <1>2 DEF Kids
<1> HIDE DEF U, Def
<1>4. {k \in DOMAIN S : F[k] # Under(S, k)} = {}
  <2> DEFINE T == {k \in DOMAIN S : F[k] # Under(S, k)}
  <2> SUFFICES ASSUME T # {} PROVE FALSE
    OBVIOUS
  <2>1. PICK x \in T : \A y \in T : S[y].level <= S[x].level
    <3> HIDE DEF T
    <3>1. T \subseteq DOMAIN S
      BY DEF T
    <3> QED
      BY <3>1, Innermost
  <2>2. \A c \in Kids(S, x) : c \in DOMAIN S /\ c \notin T
    <3> SUFFICES ASSUME NEW c \in Kids(S, x) PROVE c \in DOMAIN S /\ c \notin T
      OBVIOUS
    <3>1. c \in DOMAIN S /\ S[c].level = S[x].level + 1 /\ S[x].level \in Nat
      BY ParentFacts
    <3>2. ~(S[c].level <= S[x].level)
      BY <3>1
    <3> QED
      BY <2>1, <3>1, <3>2
  <2>3. \A c \in Kids(S, x) : F[c] = Under(S, c)
    BY <2>2
  <2>4. F[x] = {x} \cup UNION {Under(S, c) : c \in Kids(S, x)}
    BY <1>3, <2>3
  <2> QED
    BY <2>4, UnderChildren
<1> QED
  BY <1>4 DEF F, FamilyOf

\* Every structure can be reached from one that no other contains.
LEMMA SomeRoot ==
  ASSUME NEW S, Forest(S), NEW l \in DOMAIN S
  PROVE  \E m \in Roots(S) : l \in Under(S, m)
<1> DEFINE T == {k \in DOMAIN S : \A m \in Roots(S) : k \notin Under(S, m)}
<1> SUFFICES ASSUME T # {} PROVE FALSE
  OBVIOUS
<1>1. PICK x \in T : \A y \in T : S[x].level <= S[y].level
  <2> HIDE DEF T
  <2>1. T \subseteq DOMAIN S
    BY DEF T
  <2> QED
    BY <2>1, Outermost
<1>2. S[x].parent # NULL
  BY UnderFacts DEF Roots
<1>3. /\ S[x].parent \in DOMAIN S /\ x \in Kids(S, S[x].parent)
      /\ S[x].level = S[S[x].parent].level + 1 /\ S[S[x].parent].level \in Nat
  BY <1>2, ParentFacts
<1>4. S[x].parent \notin T
  BY <1>1, <1>3
<1>5. PICK m \in Roots(S) : S[x].parent \in Under(S, m)
  BY <1>3, <1>4
<1>6. x \in Under(S, m)
  BY <1>3, <1>5, UnderFacts DEF Closed, Roots
<1> QED
  BY <1>5, <1>6

\* What the root of a structure is.
LEMMA RootFacts ==
  ASSUME NEW S, Forest(S), NEW l \in DOMAIN S
  PROVE  /\ RootOf(S, l) \in DOMAIN S /\ S[RootOf(S, l)].parent = NULL
         /\ l \in Under(S, RootOf(S, l))
         /\ S[l].parent = NULL => RootOf(S, l) = l
         /\ S[l].parent # NULL => RootOf(S, l) = RootOf(S, S[l].parent)
<1> DEFINE Def(R) == [k \in DOMAIN S |-> IF S[k].parent = NULL THEN k ELSE R[S[k].parent]]
           Over(k) == {m \in Roots(S) : k \in Under(S, m)}
           U == [k \in DOMAIN S |-> CHOOSE m : m \in Over(k)]
           R == RootFcn(S)
<1>1. ASSUME NEW k \in DOMAIN S
      PROVE  U[k] = IF S[k].parent = NULL THEN k ELSE U[S[k].parent]
  <2>1. CASE S[k].parent = NULL
    <3>1. S[k].parent \notin DOMAIN S
      BY <2>1, ParentFacts
    <3>2. ASSUME NEW m \in Over(k) PROVE m = k
      BY <3>1, <3>2, UnderFacts DEF Roots
    <3>3. k \in Over(k)
      BY <2>1, UnderFacts DEF Roots
    <3> HIDE DEF Over
    <3>4. Over(k) = {k}
      BY <3>2, <3>3
    <3> QED
      BY <2>1, <3>4
  <2>2. CASE S[k].parent # NULL
    <3>1. S[k].parent \in DOMAIN S /\ k \in Kids(S, S[k].parent)
      BY <2>2, ParentFacts
    <3>2. ASSUME NEW m \in Roots(S) PROVE k \in Under(S, m) <=> S[k].parent \in Under(S, m)
      <4>1. m \in DOMAIN S /\ m # k
        BY <2>2 DEF Roots
      <4> QED
        BY <3>1, <4>1, UnderFacts DEF Closed
    <3>3. Over(k) = Over(S[k].parent)
      BY <3>2
    <3> HIDE DEF Over
    <3> QED
      BY <2>2, <3>1, <3>3
  <2> QED
    BY <2>1, <2>2
<1>2. U = Def(U)
  <2> HIDE DEF U
  <2>1. U = [k \in DOMAIN S |-> U[k]]
    BY DEF U
  <2> QED
    BY <1>1, <2>1
<1>3. R = Def(R)
  BY <1>2 DEF RootFcn
<1> HIDE DEF R
<1>4. \A k \in DOMAIN S : R[k] = IF S[k].parent = NULL THEN k ELSE R[S[k].parent]
  BY <1>3
<1>5. {k \in DOMAIN S : R[k] # U[k]} = {}
  <2> HIDE DEF U, Def
  <2> DEFINE T == {k \in DOMAIN S : R[k] # U[k]}
  <2> SUFFICES ASSUME T # {} PROVE FALSE
    OBVIOUS
  <2>1. PICK x \in T : \A y \in T : S[x].level <= S[y].level
    <3> HIDE DEF T
    <3>1. T \subseteq DOMAIN S
      BY DEF T
    <3> QED
      BY <3>1, Outermost
  <2>2. S[x].parent # NULL
    BY <1>1, <1>4
  <2>3. /\ S[x].parent \in DOMAIN S /\ S[x].level = S[S[x].parent].level + 1
        /\ S[S[x].parent].level \in Nat
    BY <2>2, ParentFacts
  <2>4. S[x].parent \notin T
    BY <2>1, <2>3
  <2> QED
    BY <1>1, <1>4, <2>2, <2>3, <2>4
<1>6. U[l] \in Over(l)
  <2>1. Over(l) # {}
    BY SomeRoot
  <2> HIDE DEF Over
  <2> QED
    BY <2>1
<1>7. R[l] = U[l]
  BY <1>5
<1>8. RootOf(S, l) \in Over(l)
  BY <1>6, <1>7 DEF RootOf, R
<1> QED
  BY <1>4, <1>8 DEF RootOf, R, Roots

\* Nothing else satisfies the definition.
LEMMA RootUnique ==
  ASSUME NEW S, Forest(S), NEW g,
         \A l \in DOMAIN S : g[l] = IF S[l].parent = NULL THEN l ELSE g[S[l].parent]
  PROVE  \A l \in DOMAIN S : RootOf(S, l) = g[l]
<1> DEFINE T == {k \in DOMAIN S : RootOf(S, k) # g[k]}
<1> SUFFICES ASSUME T # {} PROVE FALSE
  OBVIOUS
<1>1. PICK x \in T : \A y \in T : S[x].level <= S[y].level
  <2> HIDE DEF T
  <2>1. T \subseteq DOMAIN S
    BY DEF T
  <2> QED
    BY <2>1, Outermost
<1>2. S[x].parent # NULL
  BY RootFacts
<1>3. /\ S[x].parent \in DOMAIN S /\ S[x].level = S[S[x].parent].level + 1
      /\ S[S[x].parent].level \in Nat
  BY <1>2, ParentFacts
<1>4. S[x].parent \notin T
  BY <1>1, <1>3
<1> QED
  BY <1>2, <1>3, <1>4, RootFacts

\* A tree is what has its root.
LEMMA FamilyOfRoot ==
  ASSUME NEW S, Forest(S), NEW r \in DOMAIN S, S[r].parent = NULL
  PROVE  FamilyOf(S, r) = {l \in DOMAIN S : RootOf(S, l) = r}
<1> DEFINE X == {l \in DOMAIN S : RootOf(S, l) = r}
<1>1. r \in X
  BY RootFacts
<1>2. Closed(S, X)
  <2> SUFFICES ASSUME NEW x \in X, NEW c \in Kids(S, x) PROVE c \in X
    BY DEF Closed
  <2>1. c \in DOMAIN S /\ S[c].parent = x /\ S[c].parent # NULL
    BY ParentFacts
  <2> QED
    BY <2>1, RootFacts
<1>3. Under(S, r) \subseteq X
  <2> HIDE DEF X
  <2>1. X \in SUBSET DOMAIN S
    BY DEF X
  <2> QED
    BY <1>1, <1>2, <2>1, UnderFacts
<1>4. X \subseteq Under(S, r)
  BY RootFacts
<1> QED
  BY <1>3, <1>4, FamilyIsUnder
----------------------------------------------------------------------------
(* The invariant.  Its parts are about structures S and activities a, so   *)
(* that lemmas can compare the ones before and after a change.             *)

\* The programs considered have none of the faults that leave the lines of a
\* loop to somebody who did not begin it.
Orderly == Faults \cap {"unbalanced", "unparsed", "run"} = {}

\* The children at a line.
KidsAt(S, l, j) == {c \in Kids(S, l) : S[c].parent_line = j}

\* The first lines of inner loops and the children are one to one.
Lined(S) ==
    \A l \in DOMAIN S :
        /\ \A c \in Kids(S, l) : S[c].parent_line \in DOMAIN S[l].cmds
        /\ \A j \in DOMAIN S[l].cmds :
             IF S[l].cmds[j] = "loop" THEN \E c \in Kids(S, l) : KidsAt(S, l, j) = {c}
                                      ELSE KidsAt(S, l, j) = {}

\* A loop that no other contains is at level 0.
Grounded(S) == \A l \in DOMAIN S : S[l].parent = NULL => S[l].level = 0

\* Where loops are executed.
LoopsOf(a) == {i \in DOMAIN a : a[i].kind = "loop"}

\* An activity for a loop that no other contains is above a reader, one for
\* an inner loop above that of its parent; no two trees are the same.
Nesting(S, a) ==
    /\ a # << >> => a[1].kind = "script"
    /\ \A i \in DOMAIN a : a[i].kind = "script" => a[i].comp0 = 0
    /\ \A i \in DOMAIN a : a[i].kind = "loop" =>
         /\ a[i].loop \in DOMAIN S /\ i > 1
         /\ S[a[i].loop].parent = NULL => a[i - 1].kind # "loop"
         /\ S[a[i].loop].parent # NULL =>
              a[i - 1].kind = "loop" /\ a[i - 1].loop = S[a[i].loop].parent
    /\ \A i, j \in DOMAIN a :
         (i < j /\ a[i].kind = "loop" /\ a[j].kind = "loop" /\ S[a[j].loop].parent = NULL)
             => RootOf(S, a[i].loop) # a[j].loop

\* The functions up to an activity, which are its depth.
FunsTo(a, i) == {j \in 1 .. i : a[j].kind = "func"}

\* How deep in calls of functions the activity is.
DepthIn(a, i) == Cardinality(FunsTo(a, i))

\* Who reads above a loop is deeper than the loop.
Deeper(a) ==
    \A i, j \in DOMAIN a :
        (i < j /\ a[i].kind = "loop" /\ a[j].kind # "loop") => DepthIn(a, i) < DepthIn(a, j)

\* A loop is being stored, or waits to be executed.
Stocked == compile_level > 0 \/ loop_execute

\* Who stores a loop is on top, and it is not one of those being executed;
\* when nothing is stored the current loop is part of one that is executed.
Storage ==
    /\ compile_level > 0 =>
         /\ acts # << >> /\ Last(acts).kind \in {"script", "func"}
         /\ currloop # NULL /\ compile_level = loops[currloop].level + 1
         /\ ~loop_execute
         /\ err => Last(acts).kind = "script"
    /\ loop_execute =>
         /\ acts # << >> /\ Last(acts).kind \in {"script", "func"}
         /\ currloop # NULL /\ loops[currloop].parent = NULL
         /\ ~err
    /\ Stocked => \A i \in Running : RootOf(loops, acts[i].loop) # RootOf(loops, currloop)
    /\ ~Stocked /\ currloop # NULL =>
         \E i \in Running : RootOf(loops, acts[i].loop) = RootOf(loops, currloop)

\* Every tree is executed, or is that of the current loop.
OwnedIn(S, a, c) ==
    \A l \in DOMAIN S :
        \/ \E i \in LoopsOf(a) : RootOf(S, a[i].loop) = RootOf(S, l)
        \/ c # NULL /\ RootOf(S, c) = RootOf(S, l)

\* That holds of the variables.
Owned == OwnedIn(loops, acts, currloop)

\* The types, with the shape of the structures.
Typed ==
    /\ Forest(loops) /\ Lined(loops) /\ Grounded(loops)
    /\ acts \in Seq(Activity)
    /\ currloop \in DOMAIN loops \cup {NULL}
    /\ compile_level \in Nat
    /\ loop_execute \in BOOLEAN /\ loop_renaming \in BOOLEAN /\ err \in BOOLEAN
    /\ err => acts # << >>

\* The depths with a loop are marked, each of them.
Marked == looping = {DepthIn(acts, i) : i \in Running}

\* The inductive invariant.
IInv == Typed /\ Nesting(loops, acts) /\ Deeper(acts) /\ Storage /\ Owned /\ Marked

\* No loop that renames series waits for functions with loops.
Alone ==
    /\ Stocked => \A i \in Running : ~loops[acts[i].loop].renaming
    /\ \A i, j \in Running :
         (i < j /\ loops[acts[j].loop].parent = NULL) => ~loops[acts[i].loop].renaming

\* What RenamingHolds needs besides.
Quiet == Alone /\ RenamingHolds

----------------------------------------------------------------------------
(* What the operations on structures do to trees.                          *)

\* Where two sets of structures overlap the trees are the same.
Similar(S, U) ==
    \A l \in DOMAIN S : l \in DOMAIN U =>
        U[l].parent = S[l].parent /\ U[l].level = S[l].level /\ RootOf(U, l) = RootOf(S, l)

\* Append adds one element.
LEMMA RangeOfAppend ==
  ASSUME NEW T, NEW q \in Seq(T), NEW e \in T
  PROVE  Range(Append(q, e)) = Range(q) \cup {e}
<1>1. /\ DOMAIN q = 1 .. Len(q) /\ Len(q) \in Nat
      /\ DOMAIN Append(q, e) = 1 .. Len(q) + 1
      /\ Append(q, e)[Len(q) + 1] = e
      /\ \A i \in 1 .. Len(q) : Append(q, e)[i] = q[i]
  BY LenProperties, AppendProperties
<1>2. DOMAIN Append(q, e) = DOMAIN q \cup {Len(q) + 1}
  BY <1>1
<1>3. Range(Append(q, e)) \subseteq Range(q) \cup {e}
  BY <1>1, <1>2 DEF Range
<1>4. Range(q) \cup {e} \subseteq Range(Append(q, e))
  BY <1>1, <1>2 DEF Range
<1> QED
  BY <1>3, <1>4

\* One step of the recursion.
LEMMA RootStep ==
  ASSUME NEW S, Forest(S), NEW l \in DOMAIN S
  PROVE  RootOf(S, l) = IF S[l].parent = NULL THEN l ELSE RootOf(S, S[l].parent)
  BY RootFacts

\* A line is stored in l.
LEMMA StoreForest ==
  ASSUME NEW S, Forest(S), Lined(S), NEW l \in DOMAIN S,
         NEW U, DOMAIN U = DOMAIN S, U \in [DOMAIN S -> LoopSet],
         \A k \in DOMAIN S : k # l => U[k] = S[k],
         U[l].parent = S[l].parent, U[l].level = S[l].level,
         U[l].parent_line = S[l].parent_line, U[l].children = S[l].children,
         NEW op \in Op, op # "loop", U[l].cmds = Append(S[l].cmds, op)
  PROVE  Forest(U) /\ Lined(U) /\ Similar(S, U)
<1>1. \A k \in DOMAIN S : /\ U[k].parent = S[k].parent /\ U[k].level = S[k].level
                          /\ U[k].parent_line = S[k].parent_line
                          /\ Kids(U, k) = Kids(S, k)
  BY DEF Kids
<1>2. Linked(U)
  <2>1. \A k \in DOMAIN U : \A c \in Kids(U, k) : c \in DOMAIN U /\ U[c].parent = k
    BY <1>1 DEF Forest, Linked
  <2>2. \A k \in DOMAIN U : U[k].parent # NULL =>
           /\ U[k].parent \in DOMAIN U
           /\ k \in Kids(U, U[k].parent)
           /\ U[k].level = U[U[k].parent].level + 1
    BY <1>1 DEF Forest, Linked
  <2>3. \E b \in Nat : \A k \in DOMAIN U : U[k].level <= b
    BY <1>1 DEF Forest, Linked
  <2> QED
    BY <2>1, <2>2, <2>3 DEF Linked
<1>3. Forest(U)
  BY <1>2 DEF Forest
<1>4. Similar(S, U)
  <2> DEFINE g == RootFcn(S)
  <2>1. \A k \in DOMAIN U : g[k] = IF U[k].parent = NULL THEN k ELSE g[U[k].parent]
    BY <1>1, RootStep DEF RootOf
  <2>2. \A k \in DOMAIN U : RootOf(U, k) = g[k]
    <3> HIDE DEF g
    <3> QED
      BY <1>3, <2>1, RootUnique
  <2> QED
    BY <1>1, <2>2 DEF Similar, RootOf
<1>5. /\ S[l].cmds \in Seq(Op) /\ \A c \in Kids(S, l) : S[c].parent_line \in DOMAIN S[l].cmds
  BY DEF Forest, LoopSet, Lined
<1>6. /\ DOMAIN S[l].cmds = 1 .. Len(S[l].cmds) /\ Len(S[l].cmds) \in Nat
      /\ DOMAIN U[l].cmds = 1 .. Len(S[l].cmds) + 1
      /\ U[l].cmds[Len(S[l].cmds) + 1] = op
      /\ \A j \in 1 .. Len(S[l].cmds) : U[l].cmds[j] = S[l].cmds[j]
  BY <1>5, LenProperties, AppendProperties
<1>7. Lined(U)
  <2> SUFFICES ASSUME NEW k \in DOMAIN S
               PROVE  /\ \A c \in Kids(U, k) : U[c].parent_line \in DOMAIN U[k].cmds
                      /\ \A j \in DOMAIN U[k].cmds :
                           IF U[k].cmds[j] = "loop" THEN \E c \in Kids(U, k) : KidsAt(U, k, j) = {c}
                                                    ELSE KidsAt(U, k, j) = {}
    BY DEF Lined
  <2>1. \A c \in Kids(S, k) : c \in DOMAIN S
    BY DEF Forest, Linked
  <2>2. \A j : KidsAt(U, k, j) = KidsAt(S, k, j)
    BY <1>1, <2>1 DEF KidsAt
  <2>3. CASE k # l
    BY <1>1, <2>1, <2>2, <2>3 DEF Lined
  <2>4. CASE k = l
    <3>1. \A c \in Kids(U, l) : U[c].parent_line \in DOMAIN U[l].cmds
      BY <1>1, <1>5, <1>6, <2>1, <2>4
    <3>2. ASSUME NEW j \in DOMAIN U[l].cmds
          PROVE  IF U[l].cmds[j] = "loop" THEN \E c \in Kids(U, l) : KidsAt(U, l, j) = {c}
                                          ELSE KidsAt(U, l, j) = {}
      <4>1. CASE j \in DOMAIN S[l].cmds
        <5>1. U[l].cmds[j] = S[l].cmds[j]
          BY <1>6, <4>1
        <5> QED
          BY <1>1, <2>2, <2>4, <4>1, <5>1 DEF Lined
      <4>2. CASE j \notin DOMAIN S[l].cmds
        <5>1. U[l].cmds[j] = op
          BY <1>6, <4>2
        <5>2. KidsAt(S, l, j) = {}
          BY <1>5, <4>2 DEF KidsAt
        <5> QED
          BY <2>2, <2>4, <5>1, <5>2
      <4> QED
        BY <4>1, <4>2
    <3> QED
      BY <2>4, <3>1, <3>2
  <2> QED
    BY <2>3, <2>4
<1> QED
  BY <1>3, <1>4, <1>7

\* A tree is freed.
LEMMA DropForest ==
  ASSUME NEW S, Forest(S), Lined(S), NEW r,
         NEW U, DOMAIN U = {l \in DOMAIN S : RootOf(S, l) # r},
         U \in [DOMAIN U -> LoopSet], \A l \in DOMAIN U : U[l] = S[l]
  PROVE  Forest(U) /\ Lined(U) /\ Similar(S, U)
<1>1. \A l \in DOMAIN U : \A c \in Kids(S, l) : c \in DOMAIN U /\ S[c].parent = l
  <2> SUFFICES ASSUME NEW l \in DOMAIN U, NEW c \in Kids(S, l)
               PROVE  c \in DOMAIN U /\ S[c].parent = l
    OBVIOUS
  <2>1. l \in DOMAIN S /\ c \in DOMAIN S /\ S[c].parent = l /\ S[c].parent # NULL
    BY ParentFacts
  <2> QED
    BY <2>1, RootFacts
<1>2. \A l \in DOMAIN U : S[l].parent # NULL => S[l].parent \in DOMAIN U
  <2> SUFFICES ASSUME NEW l \in DOMAIN U, S[l].parent # NULL PROVE S[l].parent \in DOMAIN U
    OBVIOUS
  <2>1. l \in DOMAIN S /\ S[l].parent \in DOMAIN S
    BY ParentFacts
  <2> QED
    BY <2>1, RootFacts
<1>3. \A l \in DOMAIN U : Kids(U, l) = Kids(S, l) /\ l \in DOMAIN S
  BY DEF Kids
<1>4. Linked(U)
  <2>1. \A l \in DOMAIN U : \A c \in Kids(U, l) : c \in DOMAIN U /\ U[c].parent = l
    BY <1>1, <1>3
  <2>2. \A l \in DOMAIN U : U[l].parent # NULL =>
           /\ U[l].parent \in DOMAIN U
           /\ l \in Kids(U, U[l].parent)
           /\ U[l].level = U[U[l].parent].level + 1
    BY <1>2, <1>3 DEF Forest, Linked
  <2>3. \E b \in Nat : \A l \in DOMAIN U : U[l].level <= b
    BY <1>3 DEF Forest, Linked
  <2> QED
    BY <2>1, <2>2, <2>3 DEF Linked
<1>5. Forest(U)
  BY <1>3, <1>4 DEF Forest
<1>6. Similar(S, U)
  <2> DEFINE g == RootFcn(S)
  <2>1. \A k \in DOMAIN U : g[k] = IF U[k].parent = NULL THEN k ELSE g[U[k].parent]
    BY <1>3, RootStep DEF RootOf
  <2>2. \A k \in DOMAIN U : RootOf(U, k) = g[k]
    <3> HIDE DEF g
    <3> QED
      BY <1>5, <2>1, RootUnique
  <2> QED
    BY <2>2 DEF Similar, RootOf
<1>7. \A l \in DOMAIN U : \A j : KidsAt(U, l, j) = KidsAt(S, l, j)
  BY <1>1, <1>3 DEF KidsAt
<1>8. Lined(U)
  BY <1>1, <1>3, <1>7 DEF Lined
<1> QED
  BY <1>5, <1>6, <1>8

\* An independent loop is added.
LEMMA AddForest ==
  ASSUME NEW S, Forest(S), Lined(S), NEW n \in Address, n \notin DOMAIN S,
         NEW U, DOMAIN U = DOMAIN S \cup {n}, U \in [DOMAIN U -> LoopSet],
         \A l \in DOMAIN S : U[l] = S[l],
         U[n].parent = NULL, U[n].children = << >>, U[n].cmds = << >>
  PROVE  Forest(U) /\ Lined(U) /\ Similar(S, U) /\ RootOf(U, n) = n
<1>1. Kids(U, n) = {} /\ \A l \in DOMAIN S : Kids(U, l) = Kids(S, l)
  BY DEF Kids, Range
<1>2. \A l \in DOMAIN S : \A c \in Kids(S, l) : c \in DOMAIN S
  BY DEF Forest, Linked
<1>3. Linked(U)
  <2>1. \A l \in DOMAIN U : \A c \in Kids(U, l) : c \in DOMAIN U /\ U[c].parent = l
    BY <1>1, <1>2 DEF Forest, Linked
  <2>2. \A l \in DOMAIN U : U[l].parent # NULL =>
           /\ U[l].parent \in DOMAIN U
           /\ l \in Kids(U, U[l].parent)
           /\ U[l].level = U[U[l].parent].level + 1
    BY <1>1 DEF Forest, Linked
  <2>3. \E b \in Nat : \A l \in DOMAIN U : U[l].level <= b
    <3>1. PICK b \in Nat : \A l \in DOMAIN S : S[l].level <= b
      BY DEF Forest, Linked
    <3>2. U[n].level \in Nat /\ \A l \in DOMAIN S : S[l].level \in Nat
      BY DEF Forest, LoopSet
    <3>3. b + U[n].level \in Nat /\ \A l \in DOMAIN U : U[l].level <= b + U[n].level
      BY <3>1, <3>2
    <3> QED
      BY <3>3
  <2> QED
    BY <2>1, <2>2, <2>3 DEF Linked
<1>4. Forest(U)
  BY <1>3 DEF Forest
<1>5. Similar(S, U)
  <2> DEFINE g == [k \in DOMAIN U |-> IF k = n THEN n ELSE RootOf(S, k)]
  <2>1. \A k \in DOMAIN U : g[k] = IF U[k].parent = NULL THEN k ELSE g[U[k].parent]
    <3> SUFFICES ASSUME NEW k \in DOMAIN S
                 PROVE  g[k] = IF U[k].parent = NULL THEN k ELSE g[U[k].parent]
      OBVIOUS
    <3>1. S[k].parent # NULL => S[k].parent \in DOMAIN S
      BY ParentFacts
    <3> QED
      BY <3>1, RootStep
  <2>2. \A k \in DOMAIN U : RootOf(U, k) = g[k]
    <3> HIDE DEF g
    <3> QED
      BY <1>4, <2>1, RootUnique
  <2> QED
    BY <2>2 DEF Similar
<1>6. RootOf(U, n) = n
  BY <1>4, RootStep
<1>7. Lined(U)
  <2>1. \A l \in DOMAIN S : \A j : KidsAt(U, l, j) = KidsAt(S, l, j)
    BY <1>1, <1>2 DEF KidsAt
  <2>2. DOMAIN U[n].cmds = {}
    OBVIOUS
  <2> QED
    BY <1>1, <1>2, <2>1, <2>2 DEF Lined
<1> QED
  BY <1>4, <1>5, <1>6, <1>7

\* U is S with a child n at a new line of p.
Attached(S, U, p, n) ==
    /\ DOMAIN U = DOMAIN S \cup {n} /\ U \in [DOMAIN U -> LoopSet]
    /\ \A l \in DOMAIN S : l # p => U[l] = S[l]
    /\ U[p].parent = S[p].parent /\ U[p].level = S[p].level
    /\ U[p].parent_line = S[p].parent_line
    /\ U[p].children = Append(S[p].children, n) /\ U[p].cmds = Append(S[p].cmds, "loop")
    /\ U[n].parent = p /\ U[n].level = S[p].level + 1
    /\ U[n].parent_line = Len(S[p].cmds) + 1
    /\ U[n].children = << >> /\ U[n].cmds = << >>

\* A loop is added inside p, at the line after those p has.
LEMMA NestForest ==
  ASSUME NEW S, Forest(S), Lined(S), NEW n \in Address, n \notin DOMAIN S, NEW p \in DOMAIN S,
         NEW U, Attached(S, U, p, n)
  PROVE  Forest(U) /\ Lined(U) /\ Similar(S, U) /\ RootOf(U, n) = RootOf(S, p)
<1> USE DEF Attached
<1>1. \A l \in DOMAIN S : /\ U[l].parent = S[l].parent /\ U[l].level = S[l].level
                          /\ U[l].parent_line = S[l].parent_line
  OBVIOUS
<1>2. /\ Kids(U, n) = {} /\ Kids(U, p) = Kids(S, p) \cup {n}
      /\ \A l \in DOMAIN S : l # p => Kids(U, l) = Kids(S, l)
  <2>1. Kids(U, n) = {} /\ \A l \in DOMAIN S : l # p => Kids(U, l) = Kids(S, l)
    BY DEF Kids, Range
  <2>2. S[p].children \in Seq(Address)
    BY DEF Forest, LoopSet
  <2>3. Kids(U, p) = Kids(S, p) \cup {n}
    BY <2>2, RangeOfAppend DEF Kids
  <2> QED
    BY <2>1, <2>3
<1>3. \A l \in DOMAIN S : \A c \in Kids(S, l) : c \in DOMAIN S /\ S[c].parent = l /\ c # n
  BY DEF Forest, Linked
<1>4. Linked(U)
  <2>1. ASSUME NEW l \in DOMAIN U, NEW c \in Kids(U, l)
        PROVE  c \in DOMAIN U /\ U[c].parent = l
    <3>1. CASE l = n
      BY <1>2, <2>1, <3>1
    <3>2. CASE l = p /\ c = n
      BY <3>2
    <3>3. CASE l \in DOMAIN S /\ c \in Kids(S, l)
      BY <1>1, <1>3, <3>3
    <3> QED
      BY <1>2, <2>1, <3>1, <3>2, <3>3
  <2>2. ASSUME NEW l \in DOMAIN U, U[l].parent # NULL
        PROVE  /\ U[l].parent \in DOMAIN U
               /\ l \in Kids(U, U[l].parent)
               /\ U[l].level = U[U[l].parent].level + 1
    <3>1. CASE l = n
      BY <1>1, <1>2, <3>1
    <3>2. CASE l \in DOMAIN S
      <4>1. /\ S[l].parent \in DOMAIN S /\ l \in Kids(S, S[l].parent)
            /\ S[l].level = S[S[l].parent].level + 1
        BY <1>1, <2>2, <3>2, ParentFacts
      <4>2. Kids(S, S[l].parent) \subseteq Kids(U, S[l].parent)
        BY <1>2, <4>1
      <4> QED
        BY <1>1, <3>2, <4>1, <4>2
    <3> QED
      BY <3>1, <3>2
  <2>3. \E b \in Nat : \A l \in DOMAIN U : U[l].level <= b
    <3>1. PICK b \in Nat : \A l \in DOMAIN S : S[l].level <= b
      BY DEF Forest, Linked
    <3>2. U[n].level \in Nat /\ \A l \in DOMAIN S : S[l].level \in Nat
      BY DEF Forest, LoopSet
    <3>3. \A l \in DOMAIN S : U[l].level <= b + 1
      BY <1>1, <3>1, <3>2
    <3>4. U[n].level <= b + 1
      BY <3>1, <3>2
    <3>5. b + 1 \in Nat /\ \A l \in DOMAIN U : U[l].level <= b + 1
      BY <3>3, <3>4
    <3> QED
      BY <3>5
  <2> QED
    BY <2>1, <2>2, <2>3 DEF Linked
<1>5. Forest(U)
  BY <1>4 DEF Forest
<1>6. \A k \in DOMAIN U : RootOf(U, k) = IF k = n THEN RootOf(S, p) ELSE RootOf(S, k)
  <2> DEFINE g == [k \in DOMAIN U |-> IF k = n THEN RootOf(S, p) ELSE RootOf(S, k)]
  <2>1. \A k \in DOMAIN U : g[k] = IF U[k].parent = NULL THEN k ELSE g[U[k].parent]
    <3>1. p \in DOMAIN U /\ p # n /\ p # NULL
      BY NullFacts DEF Forest
    <3>2. CASE TRUE
      <4> SUFFICES ASSUME NEW k \in DOMAIN S
                   PROVE  g[k] = IF U[k].parent = NULL THEN k ELSE g[U[k].parent]
        BY <3>1
      <4>1. S[k].parent # NULL => S[k].parent \in DOMAIN S
        BY ParentFacts
      <4> QED
        BY <1>1, <4>1, RootStep
    <3> QED
      BY <3>2
  <2>2. \A k \in DOMAIN U : RootOf(U, k) = g[k]
    <3> HIDE DEF g
    <3> QED
      BY <1>5, <2>1, RootUnique
  <2> QED
    BY <2>2
<1>7. Similar(S, U)
  BY <1>1, <1>6 DEF Similar
<1>8. /\ S[p].cmds \in Seq(Op) /\ \A c \in Kids(S, p) : S[c].parent_line \in DOMAIN S[p].cmds
  BY DEF Forest, LoopSet, Lined
<1>9. /\ DOMAIN S[p].cmds = 1 .. Len(S[p].cmds) /\ Len(S[p].cmds) \in Nat
      /\ DOMAIN U[p].cmds = 1 .. Len(S[p].cmds) + 1
      /\ U[p].cmds[Len(S[p].cmds) + 1] = "loop"
      /\ \A j \in 1 .. Len(S[p].cmds) : U[p].cmds[j] = S[p].cmds[j]
  BY <1>8, LenProperties, AppendProperties DEF Op
<1>10. \A l \in DOMAIN S : \A j : l # p => KidsAt(U, l, j) = KidsAt(S, l, j)
  BY <1>1, <1>2, <1>3 DEF KidsAt
<1>11. /\ \A j \in DOMAIN S[p].cmds : KidsAt(U, p, j) = KidsAt(S, p, j)
       /\ KidsAt(U, p, Len(S[p].cmds) + 1) = {n}
  <2>1. Len(S[p].cmds) + 1 \notin DOMAIN S[p].cmds
    BY <1>9
  <2>2. \A c \in Kids(S, p) : U[c].parent_line = S[c].parent_line
    BY <1>1, <1>3
  <2>3. \A j \in DOMAIN S[p].cmds : KidsAt(U, p, j) = KidsAt(S, p, j)
    BY <1>2, <2>1, <2>2 DEF KidsAt
  <2>4. \A c \in Kids(S, p) : U[c].parent_line # Len(S[p].cmds) + 1
    BY <1>8, <2>1, <2>2
  <2>5. KidsAt(U, p, Len(S[p].cmds) + 1) = {n}
    BY <1>2, <2>4 DEF KidsAt
  <2> QED
    BY <2>3, <2>5
<1>12. Lined(U)
  <2> SUFFICES ASSUME NEW k \in DOMAIN U
               PROVE  /\ \A c \in Kids(U, k) : U[c].parent_line \in DOMAIN U[k].cmds
                      /\ \A j \in DOMAIN U[k].cmds :
                           IF U[k].cmds[j] = "loop" THEN \E c \in Kids(U, k) : KidsAt(U, k, j) = {c}
                                                    ELSE KidsAt(U, k, j) = {}
    BY DEF Lined
  <2>1. CASE k = n
    <3>1. DOMAIN U[n].cmds = {}
      OBVIOUS
    <3> QED
      BY <1>2, <2>1, <3>1
  <2>2. CASE k \in DOMAIN S /\ k # p
    BY <1>1, <1>2, <1>3, <1>10, <2>2 DEF Lined
  <2>3. CASE k = p
    <3>1. \A c \in Kids(U, p) : U[c].parent_line \in DOMAIN U[p].cmds
      BY <1>1, <1>2, <1>3, <1>8, <1>9
    <3>2. ASSUME NEW j \in DOMAIN U[p].cmds
          PROVE  IF U[p].cmds[j] = "loop" THEN \E c \in Kids(U, p) : KidsAt(U, p, j) = {c}
                                          ELSE KidsAt(U, p, j) = {}
      <4>1. CASE j \in DOMAIN S[p].cmds
        BY <1>2, <1>9, <1>11, <4>1 DEF Lined
      <4>2. CASE j = Len(S[p].cmds) + 1
        BY <1>2, <1>9, <1>11, <4>2
      <4> QED
        BY <1>9, <4>1, <4>2
    <3> QED
      BY <2>3, <3>1, <3>2
  <2> QED
    BY <2>1, <2>2, <2>3
<1> QED
  BY <1>5, <1>6, <1>7, <1>12

----------------------------------------------------------------------------
(* The activities: what is above what, and how deep.                       *)

\* The first n activities are the same, but for where a loop is.
Agree(a, b, n) ==
    \A i \in 1 .. n :
        /\ b[i].kind = a[i].kind
        /\ a[i].kind = "loop" => b[i].loop = a[i].loop
        /\ a[i].kind = "script" => b[i].comp0 = a[i].comp0

\* The loops executed are at the same places of both, and as deep.
Kept(a, b) ==
    \A i \in LoopsOf(a) : b[i].loop = a[i].loop /\ DepthIn(b, i) = DepthIn(a, i)

\* What the invariant says of activities alone.
Shape(S, a) == a \in Seq(Activity) /\ Nesting(S, a) /\ Deeper(a)

\* Kept is symmetric, and transitive, when the loops are the same.
LEMMA KeptFacts ==
  ASSUME NEW a, NEW b, Kept(a, b), LoopsOf(b) = LoopsOf(a)
  PROVE  /\ Kept(b, a)
         /\ \A c : Kept(b, c) => Kept(a, c)
  BY DEF Kept

\* Facts about sequences of activities.
LEMMA ActsFacts ==
  ASSUME NEW a \in Seq(Activity)
  PROVE  /\ Len(a) \in Nat /\ DOMAIN a = 1 .. Len(a)
         /\ a # << >> <=> Len(a) > 0
         /\ \A i \in DOMAIN a : a[i] \in Activity /\ i \in Nat
         /\ Last(a) = a[Len(a)]
<1>1. Len(a) \in Nat /\ DOMAIN a = 1 .. Len(a) /\ \A i \in DOMAIN a : a[i] \in Activity
  BY LenProperties, ElementOfSeq
<1>2. a # << >> <=> Len(a) > 0
  BY <1>1, EmptySeq
<1> QED
  BY <1>1, <1>2 DEF Last

\* A function, and nothing else, adds one to the depth.
LEMMA DepthFacts ==
  ASSUME NEW a, NEW i \in Nat
  PROVE  /\ IsFiniteSet(FunsTo(a, i)) /\ DepthIn(a, i) \in Nat
         /\ \A j \in Nat : j <= i => DepthIn(a, j) <= DepthIn(a, i)
         /\ a[i + 1].kind = "func" => DepthIn(a, i + 1) = DepthIn(a, i) + 1
         /\ a[i + 1].kind # "func" => DepthIn(a, i + 1) = DepthIn(a, i)
<1>1. IsFiniteSet(FunsTo(a, i))
  <2>1. IsFiniteSet(1 .. i)
    BY FS_Interval
  <2> QED
    BY <2>1, FS_Subset DEF FunsTo
<1>2. DepthIn(a, i) \in Nat
  BY <1>1, FS_CardinalityType DEF DepthIn
<1>3. ASSUME NEW j \in Nat, j <= i PROVE DepthIn(a, j) <= DepthIn(a, i)
  <2>1. FunsTo(a, j) \in SUBSET FunsTo(a, i)
    BY <1>3 DEF FunsTo
  <2> QED
    BY <1>1, <2>1, FS_Subset DEF DepthIn
<1>4. a[i + 1].kind = "func" => DepthIn(a, i + 1) = DepthIn(a, i) + 1
  <2> SUFFICES ASSUME a[i + 1].kind = "func" PROVE DepthIn(a, i + 1) = DepthIn(a, i) + 1
    OBVIOUS
  <2>1. FunsTo(a, i + 1) = FunsTo(a, i) \cup {i + 1} /\ i + 1 \notin FunsTo(a, i)
    BY DEF FunsTo
  <2> QED
    BY <1>1, <2>1, FS_AddElement DEF DepthIn
<1>5. a[i + 1].kind # "func" => DepthIn(a, i + 1) = DepthIn(a, i)
  <2> SUFFICES ASSUME a[i + 1].kind # "func" PROVE DepthIn(a, i + 1) = DepthIn(a, i)
    OBVIOUS
  <2>1. FunsTo(a, i + 1) = FunsTo(a, i)
    BY DEF FunsTo
  <2> QED
    BY <2>1 DEF DepthIn
<1> QED
  BY <1>1, <1>2, <1>3, <1>4, <1>5

\* The depth of an activity depends on those up to it.
LEMMA DepthAgrees ==
  ASSUME NEW a, NEW b, NEW n \in Nat, Agree(a, b, n)
  PROVE  \A i \in 0 .. n : DepthIn(b, i) = DepthIn(a, i)
<1> SUFFICES ASSUME NEW i \in 0 .. n PROVE DepthIn(b, i) = DepthIn(a, i)
  OBVIOUS
<1>1. FunsTo(a, i) = FunsTo(b, i)
  BY DEF FunsTo, Agree
<1> QED
  BY <1>1 DEF DepthIn

\* Intervals.
LEMMA Within == \A m, n \in Nat : n <= m => \A i \in 1 .. n : i \in 1 .. m
  OBVIOUS

\* The activities up to n stay, and there may be one more.
LEMMA NestingStep ==
  ASSUME NEW S, NEW a \in Seq(Activity), NEW b \in Seq(Activity), NEW n \in Nat,
         Nesting(S, a), n <= Len(a), Len(b) = n \/ Len(b) = n + 1, Agree(a, b, n),
         LET r == b[n + 1]
         IN  Len(b) = n + 1 =>
                /\ n = 0 => r.kind = "script"
                /\ r.kind = "script" => r.comp0 = 0
                /\ r.kind = "loop" =>
                     /\ r.loop \in DOMAIN S /\ n > 0
                     /\ S[r.loop].parent = NULL =>
                          /\ b[n].kind # "loop"
                          /\ \A i \in 1 .. n : b[i].kind = "loop" => RootOf(S, b[i].loop) # r.loop
                     /\ S[r.loop].parent # NULL =>
                          b[n].kind = "loop" /\ b[n].loop = S[r.loop].parent
  PROVE  Nesting(S, b)
<1>1. /\ Len(a) \in Nat /\ DOMAIN a = 1 .. Len(a) /\ (a # << >> <=> Len(a) > 0)
      /\ Len(b) \in Nat /\ DOMAIN b = 1 .. Len(b) /\ (b # << >> <=> Len(b) > 0)
  BY ActsFacts
<1>2. \A i \in 1 .. n : /\ i \in DOMAIN a /\ b[i].kind = a[i].kind
                        /\ a[i].kind = "loop" => b[i].loop = a[i].loop
                        /\ a[i].kind = "script" => b[i].comp0 = a[i].comp0
  <2>1. \A i \in 1 .. n : i \in DOMAIN a
    BY <1>1, Within
  <2>2. \A i \in 1 .. n : /\ b[i].kind = a[i].kind
                          /\ a[i].kind = "loop" => b[i].loop = a[i].loop
                          /\ a[i].kind = "script" => b[i].comp0 = a[i].comp0
    BY DEF Agree
  <2> QED
    BY <2>1, <2>2
<1>3. \A i \in DOMAIN b : i \in 1 .. n \/ (i = n + 1 /\ Len(b) = n + 1)
  <2>1. DOMAIN b = 1 .. Len(b) /\ (Len(b) = n \/ Len(b) = n + 1)
    BY <1>1
  <2>2. DOMAIN b = 1 .. n \/ (DOMAIN b = 1 .. n + 1 /\ Len(b) = n + 1)
    BY <2>1
  <2> QED
    BY <2>2
<1>4. b # << >> => b[1].kind = "script"
  <2>1. CASE n = 0
    BY <1>1, <2>1
  <2>2. CASE n > 0
    <3>1. 1 \in 1 .. n /\ a # << >>
      BY <1>1, <2>2
    <3> QED
      BY <1>2, <3>1 DEF Nesting
  <2> QED
    BY <2>1, <2>2
<1>5. \A i \in DOMAIN b : b[i].kind = "script" => b[i].comp0 = 0
  BY <1>2, <1>3 DEF Nesting
<1>6. ASSUME NEW i \in DOMAIN b, b[i].kind = "loop"
      PROVE  /\ b[i].loop \in DOMAIN S /\ i > 1
             /\ S[b[i].loop].parent = NULL => b[i - 1].kind # "loop"
             /\ S[b[i].loop].parent # NULL =>
                  b[i - 1].kind = "loop" /\ b[i - 1].loop = S[b[i].loop].parent
  <2>1. CASE i \in 1 .. n
    <3>1. /\ a[i].kind = "loop" /\ i \in DOMAIN a /\ b[i].loop = a[i].loop
      BY <1>2, <1>6, <2>1
    <3>2. /\ a[i].loop \in DOMAIN S /\ i > 1
          /\ S[a[i].loop].parent = NULL => a[i - 1].kind # "loop"
          /\ S[a[i].loop].parent # NULL =>
               a[i - 1].kind = "loop" /\ a[i - 1].loop = S[a[i].loop].parent
      BY <3>1 DEF Nesting
    <3>3. i - 1 \in 1 .. n
      BY <2>1, <3>2
    <3> QED
      BY <1>2, <3>1, <3>2, <3>3
  <2>2. CASE i = n + 1 /\ Len(b) = n + 1
    BY <1>6, <2>2
  <2> QED
    BY <1>3, <2>1, <2>2
<1>7. ASSUME NEW i \in DOMAIN b, NEW j \in DOMAIN b,
             i < j, b[i].kind = "loop", b[j].kind = "loop", S[b[j].loop].parent = NULL
      PROVE  RootOf(S, b[i].loop) # b[j].loop
  <2>1. i \in 1 .. n
    <3>1. j \in Nat /\ i \in Nat /\ j <= n + 1 /\ i >= 1
      BY <1>3
    <3>2. i <= n
      BY <1>7, <3>1
    <3> QED
      BY <3>1, <3>2
  <2>2. CASE j \in 1 .. n
    <3>1. /\ i \in DOMAIN a /\ j \in DOMAIN a /\ a[i].kind = "loop" /\ a[j].kind = "loop"
          /\ a[i].loop = b[i].loop /\ a[j].loop = b[j].loop
      BY <1>2, <1>7, <2>1, <2>2
    <3> QED
      BY <1>7, <3>1 DEF Nesting
  <2>3. CASE j = n + 1 /\ Len(b) = n + 1
    BY <1>7, <2>1, <2>3
  <2> QED
    BY <1>3, <2>2, <2>3
<1> QED
  BY <1>4, <1>5, <1>6, <1>7 DEF Nesting

\* The same for the depths.
LEMMA DeeperStep ==
  ASSUME NEW a \in Seq(Activity), NEW b \in Seq(Activity), NEW n \in Nat,
         Deeper(a), n <= Len(a), Len(b) = n \/ Len(b) = n + 1, Agree(a, b, n),
         LET r == b[n + 1]
         IN  Len(b) = n + 1 => r.kind \in {"func", "loop"} \/ n = 0 \/ a[n].kind # "loop"
  PROVE  Deeper(b)
<1>1. /\ Len(a) \in Nat /\ DOMAIN a = 1 .. Len(a) /\ Len(b) \in Nat /\ DOMAIN b = 1 .. Len(b)
  BY ActsFacts
<1>5. \A k \in DOMAIN b : k \in 1 .. n \/ (k = n + 1 /\ Len(b) = n + 1)
  <2>1. DOMAIN b = 1 .. Len(b) /\ (Len(b) = n \/ Len(b) = n + 1)
    BY <1>1
  <2>2. DOMAIN b = 1 .. n \/ (DOMAIN b = 1 .. n + 1 /\ Len(b) = n + 1)
    BY <2>1
  <2> QED
    BY <2>2
<1> SUFFICES ASSUME NEW i \in DOMAIN b, NEW j \in DOMAIN b,
                    i < j, b[i].kind = "loop", b[j].kind # "loop"
             PROVE  DepthIn(b, i) < DepthIn(b, j)
  BY DEF Deeper
<1>2. /\ i \in 1 .. n /\ i \in DOMAIN a /\ a[i].kind = "loop"
      /\ DepthIn(b, i) = DepthIn(a, i) /\ DepthIn(b, n) = DepthIn(a, n)
  <2>1. i \in 1 .. n /\ i \in DOMAIN a /\ n \in 0 .. n /\ i \in 0 .. n
    BY <1>1
  <2> QED
    BY <2>1, DepthAgrees DEF Agree
<1>3. CASE j \in 1 .. n
  <2>1. j \in DOMAIN a /\ a[j].kind # "loop" /\ DepthIn(b, j) = DepthIn(a, j)
    <3>1. j \in DOMAIN a /\ j \in 0 .. n
      BY <1>1, <1>3
    <3> QED
      BY <1>3, <3>1, DepthAgrees DEF Agree
  <2> QED
    BY <1>2, <2>1 DEF Deeper
<1>4. CASE j = n + 1 /\ Len(b) = n + 1
  <2>1. /\ DepthIn(a, i) \in Nat /\ DepthIn(a, n) \in Nat /\ DepthIn(a, i) <= DepthIn(a, n)
        /\ b[n + 1].kind = "func" => DepthIn(b, n + 1) = DepthIn(b, n) + 1
        /\ b[n + 1].kind # "func" => DepthIn(b, n + 1) = DepthIn(b, n)
    BY <1>2, DepthFacts
  <2>2. CASE b[n + 1].kind = "func"
    BY <1>2, <1>4, <2>1, <2>2
  <2>3. CASE b[n + 1].kind # "func"
    <3>1. n \in DOMAIN a /\ a[n].kind # "loop" /\ i < n
      BY <1>1, <1>2, <1>4, <2>3
    <3>2. DepthIn(a, i) < DepthIn(a, n)
      BY <1>2, <3>1 DEF Deeper
    <3> QED
      BY <1>2, <1>4, <2>1, <2>3, <3>2
  <2> QED
    BY <2>2, <2>3
<1> QED
  BY <1>3, <1>4, <1>5

\* A reader is put on top.
LEMMA ShapeRead ==
  ASSUME NEW S, NEW a, Shape(S, a), NEW b \in Seq(Activity), Len(b) = Len(a) + 1,
         Agree(a, b, Len(a)), b[Len(b)].kind # "loop",
         a = << >> => b[Len(b)].kind = "script",
         b[Len(b)].kind = "script" => b[Len(b)].comp0 = 0,
         b[Len(b)].kind = "func" \/ a = << >> \/ Last(a).kind # "loop"
  PROVE  /\ Shape(S, b) /\ LoopsOf(b) = LoopsOf(a) /\ b # << >> /\ Last(b) = b[Len(b)]
         /\ Kept(a, b)
<1> DEFINE n == Len(a)
<1>1. /\ a \in Seq(Activity) /\ n \in Nat /\ DOMAIN a = 1 .. n /\ (a # << >> <=> n > 0)
      /\ Last(a) = a[n] /\ Len(b) = n + 1 /\ DOMAIN b = 1 .. n + 1
      /\ b # << >> /\ Last(b) = b[n + 1]
  BY ActsFacts DEF Shape
<1> HIDE DEF n
<1>2. Agree(a, b, n)
  BY DEF n
<1>3. b[n + 1].kind # "loop" /\ (n = 0 => b[n + 1].kind = "script")
      /\ (b[n + 1].kind = "script" => b[n + 1].comp0 = 0)
  BY <1>1
<1>4. Nesting(S, b)
  <2>1. Nesting(S, a) /\ n <= Len(a)
    BY <1>1 DEF Shape, n
  <2> QED
    BY <1>1, <1>2, <1>3, <2>1, NestingStep
<1>5. Deeper(b)
  <2>1. Deeper(a) /\ n <= Len(a)
    BY <1>1 DEF Shape, n
  <2>2. b[n + 1].kind \in {"func", "loop"} \/ n = 0 \/ a[n].kind # "loop"
    BY <1>1
  <2> QED
    BY <1>1, <1>2, <2>1, <2>2, DeeperStep
<1>6. Kept(a, b)
  <2>1. \A i \in LoopsOf(a) : i \in 1 .. n /\ i \in 0 .. n /\ a[i].kind = "loop"
    BY <1>1 DEF LoopsOf
  <2>2. \A i \in 0 .. n : DepthIn(b, i) = DepthIn(a, i)
    BY <1>1, <1>2, DepthAgrees
  <2>3. \A i \in LoopsOf(a) : b[i].loop = a[i].loop
    BY <1>2, <2>1 DEF Agree
  <2> QED
    BY <2>1, <2>2, <2>3 DEF Kept
<1>7. LoopsOf(b) = LoopsOf(a)
  BY <1>1, <1>2, <1>3 DEF LoopsOf, Agree
<1> QED
  BY <1>1, <1>4, <1>5, <1>6, <1>7 DEF Shape

\* A loop may be executed above what a ends with.
Fits(S, a, l) ==
    /\ S[l].parent = NULL => /\ Last(a).kind # "loop"
                             /\ \A i \in LoopsOf(a) : RootOf(S, a[i].loop) # l
    /\ S[l].parent # NULL => Last(a).kind = "loop" /\ Last(a).loop = S[l].parent

\* A loop is put on top.
LEMMA ShapeLoop ==
  ASSUME NEW S, NEW a, Shape(S, a), a # << >>, NEW b \in Seq(Activity), Len(b) = Len(a) + 1,
         Agree(a, b, Len(a)), b[Len(b)].kind = "loop", NEW l \in DOMAIN S, b[Len(b)].loop = l,
         Fits(S, a, l)
  PROVE  /\ Shape(S, b) /\ LoopsOf(b) = LoopsOf(a) \cup {Len(b)} /\ Len(b) \notin LoopsOf(a)
         /\ b # << >> /\ Last(b) = b[Len(b)]
         /\ Kept(a, b)
         /\ DepthIn(b, Len(b)) = DepthIn(a, Len(a))
<1> DEFINE n == Len(a)
<1>1. /\ a \in Seq(Activity) /\ n \in Nat /\ DOMAIN a = 1 .. n /\ n > 0 /\ n \in 1 .. n
      /\ Last(a) = a[n] /\ Len(b) = n + 1 /\ DOMAIN b = 1 .. n + 1
      /\ b # << >> /\ Last(b) = b[n + 1]
  BY ActsFacts DEF Shape
<1> HIDE DEF n
<1>2. Agree(a, b, n)
  BY DEF n
<1>3. /\ b[n + 1].kind = "loop" /\ b[n + 1].loop = l
      /\ b[n].kind = a[n].kind /\ (a[n].kind = "loop" => b[n].loop = a[n].loop)
  BY <1>1, <1>2 DEF Agree
<1>4. \A i \in 1 .. n : b[i].kind = "loop" => i \in LoopsOf(a) /\ b[i].loop = a[i].loop
  BY <1>1, <1>2 DEF Agree, LoopsOf
<1>5. Nesting(S, b)
  <2>1. Nesting(S, a) /\ n <= Len(a)
    BY <1>1 DEF Shape, n
  <2>2. /\ S[l].parent = NULL =>
             /\ b[n].kind # "loop"
             /\ \A i \in 1 .. n : b[i].kind = "loop" => RootOf(S, b[i].loop) # l
        /\ S[l].parent # NULL => b[n].kind = "loop" /\ b[n].loop = S[l].parent
    BY <1>1, <1>3, <1>4 DEF Fits
  <2> QED
    BY <1>1, <1>2, <1>3, <2>1, <2>2, NestingStep
<1>6. Deeper(b)
  <2>1. Deeper(a) /\ n <= Len(a)
    BY <1>1 DEF Shape, n
  <2> QED
    BY <1>1, <1>2, <1>3, <2>1, DeeperStep
<1>7. Kept(a, b)
  <2>1. \A i \in LoopsOf(a) : i \in 1 .. n /\ i \in 0 .. n /\ a[i].kind = "loop"
    BY <1>1 DEF LoopsOf
  <2>2. \A i \in 0 .. n : DepthIn(b, i) = DepthIn(a, i)
    BY <1>1, <1>2, DepthAgrees
  <2>3. \A i \in LoopsOf(a) : b[i].loop = a[i].loop
    BY <1>2, <2>1 DEF Agree
  <2> QED
    BY <2>1, <2>2, <2>3 DEF Kept
<1>8. LoopsOf(b) = LoopsOf(a) \cup {n + 1} /\ n + 1 \notin LoopsOf(a)
  BY <1>1, <1>2, <1>3 DEF LoopsOf, Agree
<1>9. DepthIn(b, n + 1) = DepthIn(a, n)
  <2>1. DepthIn(b, n + 1) = DepthIn(b, n)
    BY <1>1, <1>3, DepthFacts
  <2>2. n \in 0 .. n
    BY <1>1
  <2> QED
    BY <1>1, <1>2, <2>1, <2>2, DepthAgrees
<1> QED
  BY <1>1, <1>5, <1>6, <1>7, <1>8, <1>9 DEF Shape, n

\* What is on top ends.
LEMMA ShapePop ==
  ASSUME NEW S, NEW a, Shape(S, a), a # << >>, NEW b, b = Front(a)
  PROVE  /\ Shape(S, b) /\ LoopsOf(b) = LoopsOf(a) \ {Len(a)} /\ Kept(b, a)
         /\ Len(b) = Len(a) - 1 /\ \A i \in DOMAIN b : b[i] = a[i]
<1> DEFINE n == Len(a) - 1
<1>1. /\ a \in Seq(Activity) /\ Len(a) \in Nat /\ n \in Nat /\ Len(a) = n + 1
      /\ DOMAIN a = 1 .. n + 1 /\ \A i \in 1 .. n + 1 : a[i] \in Activity
  BY ActsFacts DEF Shape
<1>2. b \in Seq(Activity) /\ Len(b) = n /\ \A i \in 1 .. n : b[i] = a[i]
  <2>1. b = SubSeq(a, 1, n) /\ n \in Int /\ 1 \in Int /\ \A i \in 1 .. n : a[i] \in Activity
    BY <1>1 DEF Front
  <2>2. /\ SubSeq(a, 1, n) \in Seq(Activity)
        /\ Len(SubSeq(a, 1, n)) = IF 1 <= n THEN n - 1 + 1 ELSE 0
        /\ \A i \in 1 .. n - 1 + 1 : SubSeq(a, 1, n)[i] = a[1 + i - 1]
    BY <2>1, SubSeqProperties
  <2> HIDE DEF n
  <2>3. Len(SubSeq(a, 1, n)) = n /\ \A i \in 1 .. n : SubSeq(a, 1, n)[i] = a[i]
    BY <1>1, <2>2
  <2> QED
    BY <2>1, <2>2, <2>3
<1>3. DOMAIN b = 1 .. n
  BY <1>2, ActsFacts
<1> HIDE DEF n
<1>4. Agree(a, b, n)
  BY <1>2 DEF Agree
<1>5. Nesting(S, b)
  <2>1. Nesting(S, a) /\ n <= Len(a) /\ Len(b) # n + 1
    BY <1>1, <1>2 DEF Shape
  <2> QED
    BY <1>1, <1>2, <1>4, <2>1, NestingStep
<1>6. Deeper(b)
  <2>1. Deeper(a) /\ n <= Len(a) /\ Len(b) # n + 1
    BY <1>1, <1>2 DEF Shape
  <2> QED
    BY <1>1, <1>2, <1>4, <2>1, DeeperStep
<1>7. LoopsOf(b) = LoopsOf(a) \ {Len(a)}
  <2>1. 1 .. n = (1 .. n + 1) \ {n + 1}
    BY <1>1
  <2> QED
    BY <1>1, <1>2, <1>3, <2>1 DEF LoopsOf
<1>8. Kept(b, a)
  <2>1. \A i \in LoopsOf(b) : i \in 1 .. n /\ i \in 0 .. n
    BY <1>1, <1>3 DEF LoopsOf
  <2> QED
    BY <1>1, <1>2, <1>4, <2>1, DepthAgrees DEF Kept
<1> QED
  BY <1>1, <1>2, <1>3, <1>5, <1>6, <1>7, <1>8 DEF Shape, n

\* A loop is at another line.
LEMMA ShapeGoto ==
  ASSUME NEW S, NEW a, Shape(S, a), NEW b \in Seq(Activity), Len(b) = Len(a),
         Agree(a, b, Len(a))
  PROVE  /\ Shape(S, b) /\ LoopsOf(b) = LoopsOf(a)
         /\ Kept(a, b)
<1> DEFINE n == Len(a)
<1>1. /\ a \in Seq(Activity) /\ n \in Nat /\ DOMAIN a = 1 .. n /\ DOMAIN b = 1 .. n
      /\ Len(b) = n
  BY ActsFacts DEF Shape
<1> HIDE DEF n
<1>2. Agree(a, b, n)
  BY DEF n
<1>3. Nesting(S, b)
  <2>1. Nesting(S, a) /\ n <= Len(a)
    BY <1>1 DEF Shape, n
  <2>2. Len(b) # n + 1
    BY <1>1
  <2> QED
    BY <1>1, <1>2, <2>1, <2>2, NestingStep
<1>4. Deeper(b)
  <2>1. Deeper(a) /\ n <= Len(a)
    BY <1>1 DEF Shape, n
  <2>2. Len(b) # n + 1
    BY <1>1
  <2> QED
    BY <1>1, <1>2, <2>1, <2>2, DeeperStep
<1>5. LoopsOf(b) = LoopsOf(a)
  BY <1>1, <1>2 DEF LoopsOf, Agree
<1>6. Kept(a, b)
  <2>1. \A i \in LoopsOf(a) : i \in 1 .. n /\ i \in 0 .. n /\ a[i].kind = "loop"
    BY <1>1 DEF LoopsOf
  <2>2. \A i \in 0 .. n : DepthIn(b, i) = DepthIn(a, i)
    BY <1>1, <1>2, DepthAgrees
  <2>3. \A i \in LoopsOf(a) : b[i].loop = a[i].loop
    BY <1>2, <2>1 DEF Agree
  <2> QED
    BY <2>1, <2>2, <2>3 DEF Kept
<1> QED
  BY <1>3, <1>4, <1>5, <1>6 DEF Shape

\* The structures change, and those under execution stay.
LEMMA ShapeStores ==
  ASSUME NEW S, NEW U, NEW a, Shape(S, a), Similar(S, U),
         \A i \in LoopsOf(a) : a[i].loop \in DOMAIN U
  PROVE  Shape(U, a)
<1>1. \A i \in DOMAIN a : a[i].kind = "loop" =>
         /\ a[i].loop \in DOMAIN S /\ a[i].loop \in DOMAIN U
         /\ U[a[i].loop].parent = S[a[i].loop].parent
         /\ RootOf(U, a[i].loop) = RootOf(S, a[i].loop)
  BY DEF LoopsOf, Shape, Nesting, Similar
<1>2. Nesting(U, a)
  BY <1>1 DEF Shape, Nesting
<1> QED
  BY <1>2 DEF Shape

----------------------------------------------------------------------------
(* What the invariant says of a state.                                     *)

\* What activities there are.
LEMMA ActivityFacts ==
  ASSUME NEW x \in Activity
  PROVE  /\ x.kind \in {"script", "func", "run", "loop"}
         /\ x.kind = "loop" => x.loop \in Address /\ x.at \in Nat
         /\ x.kind = "loop" => \A j \in Nat : /\ [x EXCEPT !.at = j] \in Activity
                                              /\ [x EXCEPT !.at = j].kind = "loop"
                                              /\ [x EXCEPT !.at = j].loop = x.loop
                                              /\ [x EXCEPT !.at = j].at = j
  BY DEF Activity

\* What the invariant says in the terms of the lemmas.
LEMMA StateFacts ==
  ASSUME IInv
  PROVE  /\ Forest(loops) /\ Lined(loops) /\ Grounded(loops)
         /\ Shape(loops, acts) /\ acts \in Seq(Activity)
         /\ Running = LoopsOf(acts) /\ Live = DOMAIN loops
         /\ Len(acts) \in Nat /\ DOMAIN acts = 1 .. Len(acts) /\ (acts # << >> <=> Len(acts) > 0)
         /\ Top = acts[Len(acts)] /\ Top = Last(acts)
         /\ acts # << >> => Len(acts) \in DOMAIN acts /\ Top \in Activity
         /\ depth = DepthIn(acts, Len(acts))
         /\ \A i \in LoopsOf(acts) : i \in DOMAIN acts /\ acts[i].loop \in DOMAIN loops
         /\ currloop # NULL => currloop \in DOMAIN loops
         /\ looping = {DepthIn(acts, i) : i \in LoopsOf(acts)}
<1>1. /\ Forest(loops) /\ Lined(loops) /\ Grounded(loops) /\ acts \in Seq(Activity)
      /\ currloop \in DOMAIN loops \cup {NULL} /\ Nesting(loops, acts) /\ Deeper(acts)
  BY DEF IInv, Typed
<1>2. Running = LoopsOf(acts) /\ Live = DOMAIN loops
  BY DEF Running, LoopsOf, Live
<1>3. /\ Len(acts) \in Nat /\ DOMAIN acts = 1 .. Len(acts) /\ (acts # << >> <=> Len(acts) > 0)
      /\ Last(acts) = acts[Len(acts)] /\ \A i \in DOMAIN acts : acts[i] \in Activity
  BY <1>1, ActsFacts
<1>4. acts # << >> => Len(acts) \in DOMAIN acts /\ Top \in Activity
  BY <1>3 DEF Top
<1>5. depth = DepthIn(acts, Len(acts))
  BY <1>3 DEF depth, DepthIn, FunsTo
<1>6. \A i \in LoopsOf(acts) : i \in DOMAIN acts /\ acts[i].loop \in DOMAIN loops
  BY <1>1 DEF LoopsOf, Nesting
<1>7. looping = {DepthIn(acts, i) : i \in LoopsOf(acts)}
  BY <1>2 DEF IInv, Marked
<1> QED
  BY <1>1, <1>2, <1>3, <1>4, <1>5, <1>6, <1>7 DEF Shape, Top

\* Nothing is stored, and the current loop is part of one that is executed.
LEMMA IdleFacts ==
  ASSUME IInv, \/ acts = << >> \/ Top.kind \notin {"script", "func"}
               \/ Executing \/ (compile_level = 0 /\ err)
  PROVE  /\ ~Stocked /\ compile_level = 0 /\ ~loop_execute
         /\ currloop # NULL =>
              \E i \in LoopsOf(acts) : RootOf(loops, acts[i].loop) = RootOf(loops, currloop)
<1>1. Storage /\ compile_level \in Nat /\ loop_execute \in BOOLEAN /\ Running = LoopsOf(acts)
  BY StateFacts DEF IInv, Typed
<1>2. ~(compile_level > 0) /\ ~loop_execute
  BY <1>1 DEF Storage, Executing, NextLine, Top
<1>3. ~Stocked /\ compile_level = 0
  BY <1>1, <1>2 DEF Stocked
<1> QED
  BY <1>1, <1>2, <1>3 DEF Storage

\* Who reads is at a depth where no loop is executed.
LEMMA ReaderDepth ==
  ASSUME IInv, acts # << >>, Top.kind # "loop"
  PROVE  /\ looping \ {depth} = looping /\ Len(acts) \notin LoopsOf(acts)
<1>1. /\ Len(acts) \in Nat /\ DOMAIN acts = 1 .. Len(acts) /\ Len(acts) \in DOMAIN acts
      /\ Top = acts[Len(acts)] /\ depth = DepthIn(acts, Len(acts))
      /\ looping = {DepthIn(acts, i) : i \in LoopsOf(acts)} /\ Deeper(acts)
  BY StateFacts DEF Shape
<1>2. \A i \in LoopsOf(acts) : i \in DOMAIN acts /\ i < Len(acts) /\ acts[i].kind = "loop"
  BY <1>1 DEF LoopsOf
<1>3. \A i \in LoopsOf(acts) : DepthIn(acts, i) < DepthIn(acts, Len(acts))
  BY <1>1, <1>2 DEF Deeper
<1>4. \A i \in LoopsOf(acts) : DepthIn(acts, i) \in Nat
  BY <1>1, <1>2, DepthFacts
<1>5. DepthIn(acts, Len(acts)) \in Nat
  BY <1>1, DepthFacts
<1>6. depth \notin looping
  BY <1>1, <1>3, <1>4, <1>5
<1> QED
  BY <1>1, <1>2, <1>6

\* Nothing is stored after a step, and no loop is current.
LEMMA RestStep ==
  ASSUME Forest(loops'), Lined(loops'), Grounded(loops'), Shape(loops', acts'), OwnedIn(loops', acts', NULL),
         currloop' = NULL, compile_level' = 0, ~loop_execute', loop_execute' \in BOOLEAN,
         loop_renaming' \in BOOLEAN,
         err' \in BOOLEAN, err' => acts' # << >>,
         looping' = {DepthIn(acts', i) : i \in LoopsOf(acts')}
  PROVE  IInv'
<1>1. Running' = LoopsOf(acts')
  BY DEF Running, LoopsOf
<1>2. Storage' /\ ~Stocked'
  BY DEF Storage, Stocked
<1>3. Typed'
  BY DEF Typed, Shape, Grounded
<1>4. Marked'
  BY <1>1 DEF Marked
<1>5. Owned'
  BY DEF Owned
<1> QED
  BY <1>2, <1>3, <1>4, <1>5 DEF IInv, Shape

\* An error is on its way up through something.
LEMMA ErrFacts == ASSUME IInv PROVE err \in BOOLEAN /\ (err => acts # << >>)
  BY DEF IInv, Typed

\* The structures and the static variables do not change.
Still == UNCHANGED <<loops, currloop, compile_level, loop_execute, looping, loop_renaming>>

\* The loops executed are the same after a step, nothing is stored, and the
\* structures do not change.
LEMMA SameLoops ==
  ASSUME IInv, Shape(loops, acts'), LoopsOf(acts') = LoopsOf(acts),
         Kept(acts, acts'),
         ~Stocked, Still,
         err' \in BOOLEAN, err' => acts' # << >>
  PROVE  IInv' /\ (Quiet => Quiet')
<1>1. Running = LoopsOf(acts) /\ Running' = LoopsOf(acts')
  BY DEF Running, LoopsOf
<1>2. Typed'
  BY DEF IInv, Typed, Shape, Still
<1>3. Storage'
  BY <1>1 DEF IInv, Typed, Storage, Stocked, Still, Kept
<1>4. Owned'
  BY DEF IInv, Owned, OwnedIn, Still, Kept
<1>5. Marked'
  BY <1>1 DEF IInv, Marked, Still, Kept
<1>6. Quiet => Quiet'
  BY <1>1 DEF Quiet, Alone, RenamingHolds, Stocked, Still, Kept
<1> QED
  BY <1>2, <1>3, <1>4, <1>5, <1>6 DEF IInv, Shape, Still

----------------------------------------------------------------------------
(* Steps that leave the structures alone.                                  *)

\* The loop on top goes to line j.
Moved(a, b, j) == b = [a EXCEPT ![Len(a)].at = j]

\* The loops executed are the same, and as deep.
LEMMA MoveFacts ==
  ASSUME NEW S, NEW a, Shape(S, a), a # << >>, Last(a).kind = "loop", NEW j \in Nat,
         NEW b, Moved(a, b, j)
  PROVE  /\ Shape(S, b) /\ LoopsOf(b) = LoopsOf(a) /\ Len(b) = Len(a) /\ b # << >>
         /\ Last(b).kind = "loop" /\ Last(b).loop = Last(a).loop
         /\ Kept(a, b)
         /\ DepthIn(b, Len(b)) = DepthIn(a, Len(a))
<1> DEFINE n == Len(a)
           e == [a[n] EXCEPT !.at = j]
<1>1. /\ a \in Seq(Activity) /\ n \in Nat /\ DOMAIN a = 1 .. n /\ n \in 1 .. n
      /\ Last(a) = a[n] /\ a[n] \in Activity /\ a[n].kind = "loop"
  BY ActsFacts DEF Shape
<1>2. e \in Activity /\ e.kind = "loop" /\ e.loop = a[n].loop
  BY <1>1, ActivityFacts
<1>3. b = [a EXCEPT ![n] = e]
  BY DEF Moved
<1> HIDE DEF e, n
<1>4. /\ b \in Seq(Activity) /\ Len(b) = Len(a)
      /\ \A i \in 1 .. Len(a) : b[i] = IF i = n THEN e ELSE a[i]
  <2>1. n \in 1 .. Len(a)
    BY <1>1 DEF n
  <2> QED
    BY <1>1, <1>2, <1>3, <2>1, ExceptSeq
<1>5. Agree(a, b, Len(a))
  BY <1>1, <1>2, <1>4 DEF Agree
<1>6. /\ Shape(S, b) /\ LoopsOf(b) = LoopsOf(a)
      /\ Kept(a, b)
  BY <1>4, <1>5, ShapeGoto
<1>7. b # << >> /\ Last(b) = e
  <2>1. Len(b) > 0 /\ b[Len(b)] = e
    <3>1. n = Len(a)
      BY DEF n
    <3>2. Len(b) = n /\ n \in 1 .. Len(a)
      BY <1>1, <1>4, <3>1
    <3>3. n > 0
      BY <1>1
    <3> QED
      BY <1>4, <3>2, <3>3
  <2> QED
    BY <1>4, <2>1, ActsFacts
<1>8. n \in LoopsOf(a)
  BY <1>1 DEF LoopsOf
<1> QED
  BY <1>1, <1>2, <1>4, <1>6, <1>7, <1>8 DEF n, Kept

\* One more activity.
LEMMA PushFacts ==
  ASSUME NEW S, NEW a, Shape(S, a), NEW x \in Activity
  PROVE  LET b == Append(a, x)
         IN  /\ b \in Seq(Activity) /\ Len(b) = Len(a) + 1 /\ b[Len(b)] = x
             /\ Agree(a, b, Len(a))
<1>1. /\ Len(a) \in Nat /\ Append(a, x) \in Seq(Activity) /\ Len(Append(a, x)) = Len(a) + 1
      /\ Append(a, x)[Len(a) + 1] = x /\ \A i \in 1 .. Len(a) : Append(a, x)[i] = a[i]
  BY AppendProperties, LenProperties DEF Shape
<1> QED
  BY <1>1 DEF Agree

\* A reader is put on top.
LEMMA PushRead ==
  ASSUME NEW S, NEW a, Shape(S, a), NEW x \in Activity, x.kind # "loop",
         a = << >> => x.kind = "script",
         x.kind = "script" => x.comp0 = 0,
         x.kind = "func" \/ a = << >> \/ Last(a).kind # "loop",
         NEW b, b = Append(a, x)
  PROVE  /\ Shape(S, b) /\ LoopsOf(b) = LoopsOf(a) /\ b # << >> /\ Last(b) = x
         /\ Kept(a, b)
<1>1. b \in Seq(Activity) /\ Len(b) = Len(a) + 1 /\ b[Len(b)] = x /\ Agree(a, b, Len(a))
  BY PushFacts
<1>2. b[Len(b)].kind = "script" => b[Len(b)].comp0 = 0
  BY <1>1
<1>3. b[Len(b)].kind # "loop" /\ (a = << >> => b[Len(b)].kind = "script")
  BY <1>1
<1>4. b[Len(b)].kind = "func" \/ a = << >> \/ Last(a).kind # "loop"
  BY <1>1
<1>5. /\ Shape(S, b) /\ LoopsOf(b) = LoopsOf(a) /\ b # << >> /\ Last(b) = b[Len(b)]
      /\ Kept(a, b)
  BY <1>1, <1>2, <1>3, <1>4, ShapeRead
<1> QED
  BY <1>1, <1>5

\* The three kinds of readers.
LEMMA Readers == \A k \in Nat : /\ [kind |-> "script", comp0 |-> k] \in Activity
                                /\ [kind |-> "func"] \in Activity
                                /\ [kind |-> "run"] \in Activity
  BY DEF Activity

\* A script starts.
LEMMA StepStartScript == ASSUME IInv, StartScript PROVE IInv' /\ (Quiet => Quiet')
<1> DEFINE x == [kind |-> "script", comp0 |-> compile_level]
<1>1. ~Stocked /\ compile_level = 0
  BY IdleFacts DEF StartScript
<1>2. x \in Activity /\ x.kind = "script" /\ x.comp0 = 0
  BY <1>1, Readers
<1>3. /\ acts' = Append(acts, x) /\ acts = << >> /\ err' = err
      /\ Still
  BY DEF Still, StartScript, Push, compiler, flags
<1> HIDE DEF x
<1>4. /\ Shape(loops, acts') /\ LoopsOf(acts') = LoopsOf(acts) /\ acts' # << >>
      /\ Kept(acts, acts')
  <2>1. /\ Shape(loops, acts) /\ x.kind # "loop"
        /\ x.kind = "func" \/ acts = << >> \/ Last(acts).kind # "loop"
    BY <1>2, <1>3, StateFacts
  <2> QED
    BY <1>2, <1>3, <2>1, PushRead
<1>5. err' \in BOOLEAN
  BY <1>3, ErrFacts
<1> QED
  BY <1>1, <1>3, <1>4, <1>5, SameLoops

\* A line calls a function.
LEMMA StepCall == ASSUME IInv, Call PROVE IInv' /\ (Quiet => Quiet')
<1> DEFINE x == [kind |-> "func"]
<1>1. ~Stocked /\ acts # << >>
  BY IdleFacts DEF Call, Executing, NextLine, Reading
<1>2. x \in Activity /\ x.kind = "func"
  BY Readers
<1>3. /\ acts' = Append(acts, x) /\ err' = err
      /\ Still
  BY DEF Still, Call, Push, compiler, flags
<1> HIDE DEF x
<1>4. /\ Shape(loops, acts') /\ LoopsOf(acts') = LoopsOf(acts) /\ acts' # << >>
      /\ Kept(acts, acts')
  <2>1. /\ Shape(loops, acts) /\ x.kind # "loop" /\ x.kind # "script"
    BY <1>2, StateFacts
  <2> QED
    BY <1>1, <1>2, <1>3, <2>1, PushRead
<1>5. err' \in BOOLEAN
  BY <1>3, ErrFacts
<1> QED
  BY <1>1, <1>3, <1>4, <1>5, SameLoops

\* A line runs a script.
LEMMA StepRun == ASSUME IInv, Run PROVE IInv' /\ (Quiet => Quiet')
<1> DEFINE x == IF Top.kind = "script" THEN [kind |-> "script", comp0 |-> compile_level]
                                       ELSE [kind |-> "run"]
<1>1. ~Stocked /\ acts # << >> /\ compile_level = 0 /\ Top.kind # "loop"
  BY IdleFacts DEF Run, Executing, NextLine, Reading
<1>2. x \in Activity /\ x.kind \in {"script", "run"} /\ (x.kind = "script" => x.comp0 = 0)
  BY <1>1, Readers
<1>3. /\ acts' = Append(acts, x) /\ err' = err
      /\ Still
  BY DEF Still, Run, Push, compiler, flags
<1> HIDE DEF x
<1>4. /\ Shape(loops, acts') /\ LoopsOf(acts') = LoopsOf(acts) /\ acts' # << >>
      /\ Kept(acts, acts')
  <2>1. Last(acts).kind # "loop" /\ x.kind # "loop" /\ Shape(loops, acts)
    BY <1>1, <1>2, StateFacts DEF Top
  <2> QED
    BY <1>1, <1>2, <1>3, <2>1, PushRead
<1>5. err' \in BOOLEAN
  BY <1>3, ErrFacts
<1> QED
  BY <1>1, <1>3, <1>4, <1>5, SameLoops

\* Only an error is raised.
LEMMA StepRaises ==
  ASSUME IInv, Fails \/ LoopFails PROVE IInv' /\ (Quiet => Quiet')
<1>1. ~Stocked /\ acts # << >>
  BY IdleFacts DEF Fails, LoopFails, AtLine, InLoop, Executing, NextLine, Reading
<1>2. /\ acts' = acts /\ err' = TRUE
      /\ Still
  BY DEF Still, Fails, LoopFails, compiler, flags
<1>3. Shape(loops, acts)
  BY StateFacts
<1> QED
  BY <1>1, <1>2, <1>3, SameLoops DEF Kept

\* A loop goes to another line.
LEMMA StepGoto ==
  ASSUME IInv, Iterate \/ LoopLine \/ EndOfBody PROVE IInv' /\ (Quiet => Quiet')
<1>1. InLoop /\ acts # << >> /\ Top.kind = "loop"
  BY DEF Iterate, LoopLine, EndOfBody, AtLine, InLoop
<1>2. ~Stocked
  BY <1>1, IdleFacts
<1>3. Top.at + 1 \in Nat /\ 0 \in Nat /\ 1 \in Nat
  BY <1>1, StateFacts, ActivityFacts
<1>4. PICK j \in Nat : Moved(acts, acts', j)
  BY <1>3 DEF Iterate, LoopLine, EndOfBody, Goto, Moved
<1>5. /\ err' = err
      /\ Still
  BY DEF Iterate, LoopLine, EndOfBody, Still, compiler, flags
<1>6. /\ Shape(loops, acts') /\ LoopsOf(acts') = LoopsOf(acts) /\ acts' # << >>
      /\ Kept(acts, acts')
  <2>1. Last(acts).kind = "loop" /\ Shape(loops, acts)
    BY <1>1, StateFacts
  <2> QED
    BY <1>1, <1>4, <2>1, MoveFacts
<1>7. err' \in BOOLEAN
  BY <1>5, ErrFacts
<1> QED
  BY <1>2, <1>5, <1>6, <1>7, SameLoops

\* A line of a loop, or its condition, calls a function.
LEMMA StepLoopCall == ASSUME IInv, LoopCall PROVE IInv' /\ (Quiet => Quiet')
<1> DEFINE x == [kind |-> "func"]
           j == IF Top.at = 0 THEN 0 ELSE Top.at + 1
           b == [acts EXCEPT ![Len(acts)].at = j]
<1>1. acts # << >> /\ Top.kind = "loop"
  BY DEF LoopCall, AtLine, InLoop
<1>2. ~Stocked
  BY <1>1, IdleFacts
<1>3. j \in Nat /\ Shape(loops, acts) /\ Last(acts).kind = "loop" /\ Top = acts[Len(acts)]
  BY <1>1, StateFacts, ActivityFacts
<1>4. x \in Activity /\ x.kind = "func"
  BY Readers
<1>5. /\ acts' = Append(b, x) /\ err' = err
      /\ Still
  BY <1>3 DEF LoopCall, Still, compiler, flags
<1> HIDE DEF x, j
<1>6. /\ Shape(loops, b) /\ LoopsOf(b) = LoopsOf(acts) /\ b # << >>
      /\ Kept(acts, b)
  <2>1. Moved(acts, b, j)
    BY DEF Moved
  <2> QED
    BY <1>1, <1>3, <2>1, MoveFacts
<1> HIDE DEF b
<1>7. /\ Shape(loops, acts') /\ LoopsOf(acts') = LoopsOf(b) /\ acts' # << >>
      /\ Kept(b, acts')
  BY <1>4, <1>5, <1>6, PushRead
<1>8. err' \in BOOLEAN
  BY <1>5, ErrFacts
<1> QED
  BY <1>2, <1>5, <1>6, <1>7, <1>8, KeptFacts, SameLoops

\* What ends has stored nothing, and left no loop to execute.
LEMMA ReturnFacts ==
  ASSUME Orderly, IInv, Return
  PROVE  compile_level = 0 /\ ~loop_execute
<1>1. compile_level \in Nat /\ loop_execute \in BOOLEAN /\ err \in BOOLEAN /\ Storage
      /\ Last(acts).kind \in {"func", "run"}
  BY DEF Return, IInv, Typed, Top
<1>2. err => compile_level = 0
  BY <1>1 DEF Storage
<1>3. ~err => compile_level = 0
  BY <1>1 DEF Return, Orderly
<1>4. ~loop_execute
  BY <1>1 DEF Storage, Return, Top
<1> QED
  BY <1>1, <1>2, <1>3, <1>4

\* A function, or a script run from one, ends.
LEMMA StepReturn == ASSUME Orderly, IInv, Return PROVE IInv' /\ (Quiet => Quiet')
<1>1. acts # << >> /\ Top.kind \in {"func", "run"} /\ acts' = Front(acts)
  BY DEF Return, Pop
<1>2. Still
  BY DEF Return, Still, compiler, flags
<1>3. compile_level = 0 /\ ~loop_execute
  BY ReturnFacts
<1>4. ~Stocked
  BY <1>3 DEF Stocked
<1>5. /\ Shape(loops, acts') /\ LoopsOf(acts') = LoopsOf(acts) \ {Len(acts)}
      /\ Len(acts') = Len(acts) - 1
      /\ Kept(acts', acts)
  BY <1>1, StateFacts, ShapePop
<1>6. LoopsOf(acts') = LoopsOf(acts) /\ Kept(acts, acts')
  BY <1>1, <1>5, ReaderDepth, KeptFacts
<1>7. acts' # << >>
  <2>1. Len(acts) \in Nat /\ Len(acts) > 0 /\ Top = acts[Len(acts)]
    BY <1>1, StateFacts
  <2>2. acts[1].kind = "script"
    BY <1>1 DEF IInv, Nesting
  <2>3. Len(acts) > 1
    BY <1>1, <2>1, <2>2
  <2>4. Len(acts') > 0 /\ acts' \in Seq(Activity)
    BY <1>5, <2>1, <2>3 DEF Shape
  <2> QED
    BY <2>4, ActsFacts
<1>8. err' \in BOOLEAN
  BY DEF Return, IInv, Typed
<1> QED
  BY <1>2, <1>4, <1>5, <1>6, <1>7, <1>8, SameLoops

----------------------------------------------------------------------------
(* Steps that free structures.                                             *)

\* gretl_loop_destroy() of a loop that no other contains frees its tree.
LEMMA DestroyFacts ==
  ASSUME Forest(loops), Lined(loops), Grounded(loops), NEW r \in DOMAIN loops,
         loops[r].parent = NULL, gretl_loop_destroy(r)
  PROVE  /\ Forest(loops') /\ Lined(loops') /\ Grounded(loops') /\ Similar(loops, loops')
         /\ DOMAIN loops' = {l \in DOMAIN loops : RootOf(loops, l) # r}
         /\ \A l \in DOMAIN loops' : loops'[l] = loops[l]
<1> DEFINE D == {l \in DOMAIN loops : RootOf(loops, l) # r}
<1>1. Live \ Family(r) = D
  BY FamilyOfRoot, OwnFamily DEF Live
<1>2. loops' = [l \in D |-> loops[l]]
  BY <1>1 DEF gretl_loop_destroy, Restrict
<1>3. D \subseteq DOMAIN loops /\ loops \in [DOMAIN loops -> LoopSet]
  BY DEF Forest
<1> HIDE DEF D
<1>4. DOMAIN loops' = D /\ \A l \in D : loops'[l] = loops[l]
  BY <1>2
<1>5. loops' \in [D -> LoopSet]
  BY <1>2, <1>3
<1>6. Forest(loops') /\ Lined(loops') /\ Similar(loops, loops')
  BY <1>4, <1>5, DropForest DEF D
<1>7. Grounded(loops')
  BY <1>3, <1>4 DEF Grounded
<1> QED
  BY <1>4, <1>6, <1>7 DEF D

\* A tree goes that is not executed: the others are.
LEMMA DropTree ==
  ASSUME NEW S, NEW U, NEW r, Similar(S, U), NEW b, Shape(S, b),
         DOMAIN U = {l \in DOMAIN S : RootOf(S, l) # r},
         \A i \in LoopsOf(b) : RootOf(S, b[i].loop) # r,
         \A l \in DOMAIN S : RootOf(S, l) # r =>
             \E i \in LoopsOf(b) : RootOf(S, b[i].loop) = RootOf(S, l)
  PROVE  Shape(U, b) /\ OwnedIn(U, b, NULL)
<1>1. \A i \in LoopsOf(b) : b[i].loop \in DOMAIN S /\ b[i].loop \in DOMAIN U
  BY DEF Shape, Nesting, LoopsOf
<1>2. \A i \in LoopsOf(b) : RootOf(U, b[i].loop) = RootOf(S, b[i].loop)
  BY <1>1 DEF Similar
<1>3. \A l \in DOMAIN U : l \in DOMAIN S /\ RootOf(U, l) = RootOf(S, l) /\ RootOf(S, l) # r
  BY DEF Similar
<1>4. OwnedIn(U, b, NULL)
  BY <1>2, <1>3 DEF OwnedIn
<1> QED
  BY <1>1, <1>4, ShapeStores

\* Nothing is stored after a step, and no loop executed renames series.
LEMMA RestQuiet ==
  ASSUME ~Stocked', \A i \in LoopsOf(acts') : ~loops'[acts'[i].loop].renaming
  PROVE  Quiet'
<1>1. Running' = LoopsOf(acts')
  BY DEF Running, LoopsOf
<1> QED
  BY <1>1 DEF Quiet, Alone, RenamingHolds

\* The loops being stored are freed, with the static variables reset.
LEMMA StackGone ==
  ASSUME IInv, compile_level > 0, gretl_loop_destroy(Root(currloop)),
         currloop' = NULL, compile_level' = 0, loop_renaming' = FALSE,
         looping' = looping \ {depth}, loop_execute' = loop_execute,
         Shape(loops, acts'), LoopsOf(acts') = LoopsOf(acts), Kept(acts, acts'),
         err' \in BOOLEAN, err' => acts' # << >>
  PROVE  IInv' /\ (Quiet => Quiet')
<1> DEFINE r == RootOf(loops, currloop)
<1>1. /\ acts # << >> /\ Top.kind \in {"script", "func"} /\ currloop # NULL /\ Stocked
      /\ ~loop_execute /\ Running = LoopsOf(acts)
      /\ \A i \in LoopsOf(acts) : RootOf(loops, acts[i].loop) # r
  BY StateFacts DEF IInv, Storage, Stocked, Top
<1>2. /\ Forest(loops) /\ Lined(loops) /\ Grounded(loops) /\ currloop \in DOMAIN loops
      /\ looping = {DepthIn(acts, i) : i \in LoopsOf(acts)}
  BY <1>1, StateFacts
<1>3. r \in DOMAIN loops /\ loops[r].parent = NULL /\ Root(currloop) = r
  BY <1>2, RootFacts, OwnRoot
<1> HIDE DEF r
<1>4. /\ Forest(loops') /\ Lined(loops') /\ Grounded(loops') /\ Similar(loops, loops')
      /\ DOMAIN loops' = {l \in DOMAIN loops : RootOf(loops, l) # r}
      /\ \A l \in DOMAIN loops' : loops'[l] = loops[l]
  BY <1>2, <1>3, DestroyFacts
<1>5. \A i \in LoopsOf(acts') : acts'[i].loop = acts[i].loop /\ DepthIn(acts', i) = DepthIn(acts, i)
  BY DEF Kept
<1>6. \A i \in LoopsOf(acts') : RootOf(loops, acts'[i].loop) # r
  BY <1>1, <1>5
<1>7. \A l \in DOMAIN loops : RootOf(loops, l) # r =>
        \E i \in LoopsOf(acts') : RootOf(loops, acts'[i].loop) = RootOf(loops, l)
  BY <1>5 DEF IInv, Owned, OwnedIn, r
<1>8. Shape(loops', acts') /\ OwnedIn(loops', acts', NULL)
  BY <1>4, <1>6, <1>7, DropTree
<1>9. looping' = {DepthIn(acts', i) : i \in LoopsOf(acts')}
  <2>1. looping' = looping
    BY <1>1, ReaderDepth
  <2> QED
    BY <1>2, <1>5, <2>1
<1>10. IInv'
  <2>1. ~loop_execute' /\ loop_execute' \in BOOLEAN /\ loop_renaming' \in BOOLEAN
    BY <1>1 DEF IInv, Typed
  <2> QED
    BY <1>4, <1>8, <1>9, <2>1, RestStep
<1>11. ~Stocked'
  BY <1>1 DEF Stocked
<1>12. Quiet => \A i \in LoopsOf(acts') : ~loops'[acts'[i].loop].renaming
  <2>1. \A i \in LoopsOf(acts') : acts'[i].loop \in DOMAIN loops'
    BY <1>8 DEF Shape, Nesting, LoopsOf
  <2>2. Quiet => \A i \in LoopsOf(acts) : ~loops[acts[i].loop].renaming
    BY <1>1 DEF Quiet, Alone
  <2> QED
    BY <1>4, <1>5, <2>1, <2>2
<1> QED
  BY <1>10, <1>11, <1>12, RestQuiet

\* What the end of a script or function leaves below it.
LEMMA ReaderEnds ==
  ASSUME IInv, acts # << >>, Top.kind # "loop", acts' = Front(acts)
  PROVE  /\ Shape(loops, acts') /\ LoopsOf(acts') = LoopsOf(acts) /\ Kept(acts, acts')
         /\ Len(acts') = Len(acts) - 1
         /\ Len(acts) > 1 => acts' # << >>
<1>1. Shape(loops, acts)
  BY StateFacts
<1>2. /\ Shape(loops, acts') /\ LoopsOf(acts') = LoopsOf(acts) \ {Len(acts)}
      /\ Len(acts') = Len(acts) - 1 /\ Kept(acts', acts)
  BY <1>1, ShapePop
<1>3. LoopsOf(acts') = LoopsOf(acts) /\ Kept(acts, acts')
  BY <1>2, ReaderDepth, KeptFacts
<1>4. Len(acts) > 1 => acts' # << >>
  <2>1. acts' \in Seq(Activity) /\ Len(acts) \in Nat
    BY <1>1, <1>2, ActsFacts DEF Shape
  <2> QED
    BY <1>2, <2>1, ActsFacts
<1> QED
  BY <1>2, <1>3, <1>4

\* The script that ends began outside of loops.
LEMMA EndScriptFacts ==
  ASSUME IInv, EndScript
  PROVE  Top.comp0 = 0 /\ compile_level \in Nat /\ ~loop_execute
<1>1. acts # << >> /\ Top.kind = "script"
  BY DEF EndScript
<1>2. Len(acts) \in DOMAIN acts /\ Top = acts[Len(acts)]
  BY <1>1, StateFacts
<1>3. Nesting(loops, acts) /\ compile_level \in Nat /\ Storage /\ loop_execute \in BOOLEAN
  BY DEF IInv, Typed
<1>4. Top.comp0 = 0
  BY <1>1, <1>2, <1>3 DEF Nesting
<1>5. ~loop_execute
  BY <1>3 DEF Storage, EndScript
<1> QED
  BY <1>3, <1>4, <1>5

\* execute_script() ends: a loop it began and did not end goes.
LEMMA StepEndScript == ASSUME IInv, EndScript PROVE IInv' /\ (Quiet => Quiet')
<1>1. /\ acts # << >> /\ Top.kind = "script" /\ acts' = Front(acts)
      /\ loop_execute' = loop_execute
  BY DEF EndScript, Pop
<1>2. /\ Shape(loops, acts') /\ LoopsOf(acts') = LoopsOf(acts) /\ Kept(acts, acts')
      /\ Len(acts) > 1 => acts' # << >>
  BY <1>1, ReaderEnds
<1>3. err' \in BOOLEAN /\ (err' => acts' # << >>)
  BY <1>2 DEF EndScript
<1>4. Top.comp0 = 0 /\ compile_level \in Nat /\ ~loop_execute
  BY EndScriptFacts
<1>5. CASE compile_level = 0
  <2>1. Still
    BY <1>1, <1>4, <1>5 DEF EndScript, flags, Still
  <2>2. ~Stocked
    BY <1>4, <1>5 DEF Stocked
  <2> QED
    BY <1>2, <1>3, <2>1, <2>2, SameLoops
<1>6. CASE compile_level > 0
  <2>1. currloop # NULL
    BY <1>6 DEF IInv, Storage
  <2>2. DestroyStack(currloop)
    BY <1>4, <1>6 DEF EndScript
  <2>3. /\ gretl_loop_destroy(Root(currloop)) /\ compile_level' = 0 /\ loop_renaming' = FALSE
        /\ looping' = looping \ {depth} /\ currloop' = NULL
    BY <2>1, <2>2 DEF DestroyStack
  <2> QED
    BY <1>1, <1>2, <1>3, <1>6, <2>3, StackGone
<1> QED
  BY <1>4, <1>5, <1>6

\* Nothing of acts changes.
LEMMA SameActs ==
  ASSUME IInv, acts' = acts, acts # << >>
  PROVE  /\ Shape(loops, acts') /\ LoopsOf(acts') = LoopsOf(acts) /\ Kept(acts, acts')
         /\ acts' # << >>
  BY StateFacts DEF Kept

\* A line is not allowed in loops: the loops being stored are freed.
LEMMA StepRefused == ASSUME IInv, Refused PROVE IInv' /\ (Quiet => Quiet')
<1>1. /\ acts # << >> /\ compile_level > 0 /\ acts' = acts /\ err' = TRUE
      /\ loop_execute' = loop_execute /\ DestroyStack(currloop)
  BY DEF Refused, Storing, NextLine, Reading
<1>2. currloop # NULL
  BY <1>1 DEF IInv, Storage
<1>3. /\ gretl_loop_destroy(Root(currloop)) /\ compile_level' = 0 /\ loop_renaming' = FALSE
      /\ looping' = looping \ {depth} /\ currloop' = NULL
  BY <1>1, <1>2 DEF DestroyStack
<1>4. /\ Shape(loops, acts') /\ LoopsOf(acts') = LoopsOf(acts) /\ Kept(acts, acts')
      /\ acts' # << >> /\ err' \in BOOLEAN
  BY <1>1, SameActs
<1> QED
  BY <1>1, <1>3, <1>4, StackGone

\* Who reads in a state the programs considered may begin a loop in.
LEMMA BeginFacts ==
  ASSUME Orderly, IInv, MayBegin
  PROVE  /\ acts # << >> /\ Top.kind \in {"script", "func"} /\ ~err /\ ~loop_execute
         /\ loop_execute \in BOOLEAN /\ compile_level \in Nat
         /\ Nested <=> compile_level > 0
         /\ Nested => currloop # NULL /\ compile_level = loops[currloop].level + 1
<1>1. /\ acts # << >> /\ Top.kind # "loop" /\ ~err /\ (loop_execute => Top.kind = "run")
      /\ Top.kind # "run"
  BY DEF MayBegin, NextLine, Reading, Orderly
<1>2. Top.kind \in {"script", "func", "run", "loop"}
  BY <1>1, StateFacts, ActivityFacts
<1>3. loop_execute \in BOOLEAN /\ compile_level \in Nat /\ Storage
  BY DEF IInv, Typed
<1>4. compile_level > 0 => currloop # NULL /\ compile_level = loops[currloop].level + 1
  BY <1>3 DEF Storage
<1>5. currloop # NULL => loops[currloop].level \in Nat
  BY StateFacts, ParentFacts
<1>6. Nested <=> compile_level > 0
  BY <1>3, <1>4, <1>5 DEF Nested
<1> QED
  BY <1>1, <1>2, <1>3, <1>4, <1>6

\* The first line of a loop is in error.
LEMMA StepBeginFails ==
  ASSUME Orderly, IInv, BeginFails
  PROVE  IInv' /\ ("renaming" \notin Faults /\ Quiet => Quiet')
<1>1. /\ MayBegin /\ compile_level' = 0 /\ loop_renaming' = FALSE
      /\ looping' = looping \ {depth} /\ currloop' = NULL /\ err' = TRUE
      /\ loop_execute' = loop_execute /\ acts' = acts
      /\ Nested => gretl_loop_destroy(Root(currloop))
      /\ ~Nested => loops' = loops
  BY DEF BeginFails
<1>2. /\ acts # << >> /\ Top.kind # "loop" /\ ~loop_execute /\ loop_execute \in BOOLEAN
      /\ compile_level \in Nat /\ (Nested <=> compile_level > 0)
  BY <1>1, BeginFacts
<1>3. /\ Shape(loops, acts') /\ LoopsOf(acts') = LoopsOf(acts) /\ Kept(acts, acts')
      /\ acts' # << >> /\ err' \in BOOLEAN
  BY <1>1, <1>2, SameActs
<1>4. CASE Nested
  BY <1>1, <1>2, <1>3, <1>4, StackGone
<1>5. CASE ~Nested
  <2>1. ~Stocked /\ ~Stocked' /\ Running = LoopsOf(acts)
    BY <1>1, <1>2, <1>5, StateFacts DEF Stocked
  <2>2. loops' = loops /\ Shape(loops', acts')
    BY <1>1, <1>3, <1>5
  <2>3. looping' = {DepthIn(acts', i) : i \in LoopsOf(acts')}
    BY <1>1, <1>2, ReaderDepth, StateFacts
  <2>4. OwnedIn(loops', acts', NULL)
    <3>1. currloop # NULL =>
            \E i \in LoopsOf(acts) : RootOf(loops, acts[i].loop) = RootOf(loops, currloop)
      BY <2>1 DEF IInv, Storage
    <3> QED
      BY <1>1, <2>2, <3>1 DEF IInv, Owned, OwnedIn
  <2>5. Forest(loops') /\ Lined(loops') /\ Grounded(loops')
    BY <2>2, StateFacts
  <2>6. ~loop_execute' /\ loop_execute' \in BOOLEAN /\ loop_renaming' \in BOOLEAN
    BY <1>1, <1>2
  <2>7. IInv'
    BY <1>1, <1>3, <2>2, <2>3, <2>4, <2>5, <2>6, RestStep
  <2>8. "renaming" \notin Faults => Quiet'
    <3>1. "renaming" \notin Faults =>
            \A i \in LoopsOf(acts') : ~loops'[acts'[i].loop].renaming
      BY <1>1, <2>1, <2>2 DEF MayBegin
    <3> QED
      BY <2>1, <3>1, RestQuiet
  <2> QED
    BY <2>7, <2>8
<1> QED
  BY <1>4, <1>5

----------------------------------------------------------------------------
(* Steps that store lines.                                                 *)

\* A line is stored, or a loop begun: the loops executed stay as they are.
LEMMA StoreStep ==
  ASSUME IInv, acts # << >>, Top.kind \in {"script", "func"}, ~err, ~loop_execute,
         Forest(loops'), Lined(loops'), Grounded(loops'), Similar(loops, loops'),
         DOMAIN loops \subseteq DOMAIN loops', currloop' \in DOMAIN loops',
         compile_level' = loops'[currloop'].level + 1,
         \A l \in DOMAIN loops' :
             l \in DOMAIN loops \/ RootOf(loops', l) = RootOf(loops', currloop'),
         compile_level > 0 => RootOf(loops', currloop') = RootOf(loops, currloop),
         \A i \in LoopsOf(acts) : /\ RootOf(loops, acts[i].loop) # RootOf(loops', currloop')
                                  /\ loops'[acts[i].loop] = loops[acts[i].loop],
         acts' = acts, err' = err, loop_execute' = loop_execute, looping' = looping,
         loop_renaming' = loop_renaming
  PROVE  /\ IInv'
         /\ (Quiet /\ \A i \in LoopsOf(acts) : ~loops[acts[i].loop].renaming) => Quiet'
<1>1. /\ Running = LoopsOf(acts) /\ Running' = LoopsOf(acts) /\ Shape(loops, acts)
      /\ looping = {DepthIn(acts, i) : i \in LoopsOf(acts)}
      /\ loop_execute \in BOOLEAN /\ loop_renaming \in BOOLEAN /\ err \in BOOLEAN
  BY StateFacts DEF IInv, Typed, Running, LoopsOf
<1>2. loops'[currloop'].level \in Nat
  BY ParentFacts
<1>3. compile_level' \in Nat /\ compile_level' > 0
  BY <1>2
<1>4. currloop' # NULL
  BY NullFacts DEF Forest
<1>5. \A i \in LoopsOf(acts) : /\ acts[i].loop \in DOMAIN loops /\ acts[i].loop \in DOMAIN loops'
                               /\ RootOf(loops', acts[i].loop) = RootOf(loops, acts[i].loop)
  BY StateFacts DEF Similar
<1>6. Shape(loops', acts')
  BY <1>1, <1>5, ShapeStores
<1>7. Typed'
  BY <1>1, <1>3, <1>6 DEF Typed, Shape
<1>8. Storage'
  BY <1>1, <1>3, <1>4, <1>5 DEF Storage, Stocked, Top
<1>9. Owned'
  <2>1. \A l \in DOMAIN loops' : l \in DOMAIN loops =>
           /\ RootOf(loops', l) = RootOf(loops, l)
           /\ \/ \E i \in LoopsOf(acts) : RootOf(loops, acts[i].loop) = RootOf(loops, l)
              \/ RootOf(loops', currloop') = RootOf(loops, l)
    <3>1. \A l \in DOMAIN loops : l \in DOMAIN loops' => RootOf(loops', l) = RootOf(loops, l)
      BY DEF Similar
    <3>2. \A l \in DOMAIN loops :
             \/ \E i \in LoopsOf(acts) : RootOf(loops, acts[i].loop) = RootOf(loops, l)
             \/ currloop # NULL /\ RootOf(loops, currloop) = RootOf(loops, l)
      BY DEF IInv, Owned, OwnedIn
    <3>3. CASE compile_level > 0
      BY <3>1, <3>2, <3>3
    <3>4. CASE ~(compile_level > 0)
      <4>1. currloop # NULL =>
              \E i \in LoopsOf(acts) : RootOf(loops, acts[i].loop) = RootOf(loops, currloop)
        BY <1>1, <3>4 DEF IInv, Storage, Stocked
      <4> QED
        BY <3>1, <3>2, <4>1
    <3> QED
      BY <3>3, <3>4
  <2> QED
    BY <1>4, <1>5, <2>1 DEF Owned, OwnedIn
<1>10. Marked'
  BY <1>1 DEF Marked
<1>11. Deeper(acts') /\ Nesting(loops', acts')
  BY <1>6 DEF Shape
<1>12. (Quiet /\ \A i \in LoopsOf(acts) : ~loops[acts[i].loop].renaming) => Quiet'
  <2>1. RenamingHolds => RenamingHolds'
    BY <1>1 DEF RenamingHolds
  <2>2. (\A i \in LoopsOf(acts) : ~loops[acts[i].loop].renaming) => Alone'
    BY <1>1 DEF Alone
  <2> QED
    BY <2>1, <2>2 DEF Quiet
<1> QED
  BY <1>7, <1>8, <1>9, <1>10, <1>11, <1>12 DEF IInv

\* What is stored belongs to no loop that is executed.
LEMMA StoringFacts ==
  ASSUME IInv, compile_level > 0
  PROVE  /\ acts # << >> /\ Top.kind \in {"script", "func"} /\ ~loop_execute
         /\ currloop # NULL /\ currloop \in DOMAIN loops
         /\ compile_level = loops[currloop].level + 1
         /\ \A i \in LoopsOf(acts) : /\ RootOf(loops, acts[i].loop) # RootOf(loops, currloop)
                                     /\ acts[i].loop # currloop
         /\ Quiet => \A i \in LoopsOf(acts) : ~loops[acts[i].loop].renaming
<1>1. Running = LoopsOf(acts) /\ Storage /\ Stocked
  BY StateFacts DEF IInv, Stocked
<1>2. /\ acts # << >> /\ Top.kind \in {"script", "func"} /\ ~loop_execute /\ currloop # NULL
      /\ compile_level = loops[currloop].level + 1
      /\ \A i \in LoopsOf(acts) : RootOf(loops, acts[i].loop) # RootOf(loops, currloop)
  BY <1>1 DEF Storage, Top
<1>3. Quiet => \A i \in LoopsOf(acts) : ~loops[acts[i].loop].renaming
  BY <1>1 DEF Quiet, Alone
<1> QED
  BY <1>2, <1>3, StateFacts

\* A structure with a line more, real_append_line().
LEMMA StoredFacts ==
  ASSUME Forest(loops), NEW l \in DOMAIN loops, NEW op \in Op, NEW s, s = Stored(l, op)
  PROVE  /\ s \in LoopSet
         /\ s.parent = loops[l].parent /\ s.level = loops[l].level
         /\ s.parent_line = loops[l].parent_line /\ s.children = loops[l].children
         /\ s.cmds = Append(loops[l].cmds, op)
<1>1. loops[l] \in LoopSet
  BY DEF Forest
<1>2. Append(loops[l].cmds, op) \in Seq(Op) /\ (loops[l].renaming \/ op = "rename") \in BOOLEAN
  BY <1>1, AppendProperties DEF LoopSet
<1>3. s = [loops[l] EXCEPT !.cmds = Append(loops[l].cmds, op),
                           !.renaming = loops[l].renaming \/ op = "rename"]
  BY DEF Stored
<1> QED
  BY <1>1, <1>2, <1>3 DEF LoopSet

\* A line is stored.
LEMMA StepStoreLine == ASSUME IInv, StoreLine PROVE IInv' /\ (Quiet => Quiet')
<1>1. /\ compile_level > 0 /\ ~err
      /\ UNCHANGED <<currloop, compile_level, loop_execute, loop_renaming, looping, acts, err>>
  BY DEF StoreLine, Storing, NextLine, Reading, compiler, flags
<1>2. /\ acts # << >> /\ Top.kind \in {"script", "func"} /\ ~loop_execute
      /\ currloop # NULL /\ currloop \in DOMAIN loops
      /\ compile_level = loops[currloop].level + 1
      /\ \A i \in LoopsOf(acts) : /\ RootOf(loops, acts[i].loop) # RootOf(loops, currloop)
                                  /\ acts[i].loop # currloop
      /\ Quiet => \A i \in LoopsOf(acts) : ~loops[acts[i].loop].renaming
  BY <1>1, StoringFacts
<1>3. Forest(loops) /\ Lined(loops) /\ Grounded(loops)
  BY StateFacts
<1>4. PICK op \in {"stmt", "rename"} : loops' = [loops EXCEPT ![currloop] = Stored(currloop, op)]
  BY <1>2 DEF StoreLine
<1> DEFINE s == Stored(currloop, op)
<1>5. /\ s \in LoopSet
      /\ s.parent = loops[currloop].parent /\ s.level = loops[currloop].level
      /\ s.parent_line = loops[currloop].parent_line /\ s.children = loops[currloop].children
      /\ s.cmds = Append(loops[currloop].cmds, op)
  BY <1>2, <1>3, StoredFacts DEF Op
<1> HIDE DEF s
<1>6. /\ DOMAIN loops' = DOMAIN loops /\ loops' \in [DOMAIN loops -> LoopSet]
      /\ loops'[currloop] = s /\ \A k \in DOMAIN loops : k # currloop => loops'[k] = loops[k]
  BY <1>2, <1>3, <1>4, <1>5 DEF Forest, s
<1>7. Forest(loops') /\ Lined(loops') /\ Similar(loops, loops')
  <2>1. op \in Op /\ op # "loop"
    BY DEF Op
  <2> QED
    BY <1>2, <1>3, <1>5, <1>6, <2>1, StoreForest
<1>8. Grounded(loops')
  BY <1>3, <1>6, <1>7 DEF Grounded, Similar
<1>9. /\ currloop' \in DOMAIN loops' /\ compile_level' = loops'[currloop'].level + 1
      /\ RootOf(loops', currloop') = RootOf(loops, currloop)
  BY <1>1, <1>2, <1>6, <1>7 DEF Similar
<1>10. \A i \in LoopsOf(acts) : loops'[acts[i].loop] = loops[acts[i].loop]
  BY <1>2, <1>6, StateFacts
<1> QED
  BY <1>1, <1>2, <1>6, <1>7, <1>8, <1>9, <1>10, StoreStep

\* The line cannot be tokenized, and the loop stays: in a script, as it is at
\* its end that the loop is freed.
LEMMA StepUnparsed == ASSUME Orderly, IInv, Unparsed PROVE IInv' /\ (Quiet => Quiet')
<1>1. /\ compile_level > 0 /\ Top.kind = "script" /\ err' = TRUE /\ acts' = acts
      /\ UNCHANGED <<loops, currloop, compile_level, loop_execute, loop_renaming, looping>>
  BY DEF Unparsed, Storing, Orderly, compiler, flags
<1>2. acts # << >> /\ ~loop_execute
  BY <1>1, StoringFacts
<1>3. Typed'
  BY <1>1, <1>2 DEF IInv, Typed
<1>4. Running' = Running /\ (Stocked' <=> Stocked)
  BY <1>1 DEF Running, Stocked
<1>5. Storage'
  BY <1>1, <1>2, <1>4 DEF IInv, Storage, Top
<1>6. Owned' /\ Marked' /\ Nesting(loops', acts') /\ Deeper(acts')
  BY <1>1, <1>4 DEF IInv, Owned, Marked
<1>7. Quiet => Quiet'
  BY <1>1, <1>4 DEF Quiet, Alone, RenamingHolds
<1> QED
  BY <1>3, <1>5, <1>6, <1>7 DEF IInv

\* A structure is allocated where there was none.
LEMMA AllocatedFacts ==
  ASSUME NEW S, NEW n, n \notin DOMAIN S, NEW s, NEW U, U = Allocated(n, s, S)
  PROVE  DOMAIN U = DOMAIN S \cup {n} /\ U[n] = s /\ \A l \in DOMAIN S : U[l] = S[l]
  BY DEF Allocated

\* There is an address that no structure has.
LEMMA FreshFacts ==
  ASSUME Address \ Live # {}, NEW n, n = Min(Address \ Live)
  PROVE  n \in Address /\ n \notin DOMAIN loops
<1> DEFINE T == Address \ Live
<1>1. T \subseteq Nat /\ T # {}
  BY NullFacts
<1> HIDE DEF T
<1>2. \E x \in T : \A y \in T : x <= y
  BY <1>1, Least
<1>3. Min(T) \in T
  BY <1>2 DEF Min
<1> QED
  BY <1>3 DEF T, Live

\* A new structure (gretl_loop_init()), and one for a loop inside another.
LEMMA BornFacts ==
  /\ gretl_loop_init \in LoopSet
  /\ gretl_loop_init.parent = NULL /\ gretl_loop_init.level = 0
  /\ gretl_loop_init.cmds = << >> /\ gretl_loop_init.children = << >>
<1>1. << >> \in Seq(Op) /\ << >> \in Seq(Address) /\ FALSE \in BOOLEAN /\ 0 \in Nat
  OBVIOUS
<1>2. NULL \in Address \cup {NULL}
  OBVIOUS
<1> QED
  BY <1>1, <1>2 DEF gretl_loop_init, LoopSet

\* What loop_attach_child() makes.
LEMMA ChildFacts ==
  ASSUME Forest(loops), NEW p \in DOMAIN loops, NEW c, c = ChildOf(p)
  PROVE  /\ c \in LoopSet
         /\ c.parent = p /\ c.level = loops[p].level + 1
         /\ c.parent_line = Len(loops[p].cmds) + 1
         /\ c.cmds = << >> /\ c.children = << >>
<1>1. loops[p] \in LoopSet /\ p \in Address
  BY DEF Forest
<1>2. loops[p].level + 1 \in Nat /\ Len(loops[p].cmds) + 1 \in Nat
  BY <1>1, LenProperties DEF LoopSet
<1>3. << >> \in Seq(Op) /\ << >> \in Seq(Address) /\ FALSE \in BOOLEAN
  OBVIOUS
<1> QED
  BY <1>1, <1>2, <1>3 DEF ChildOf, gretl_loop_init, LoopSet

\* A loop begins, inside another or not.
LEMMA StepBeginLoop ==
  ASSUME Orderly, IInv, BeginLoop
  PROVE  IInv' /\ ("renaming" \notin Faults /\ Quiet => Quiet')
<1> DEFINE n == Min(Address \ Live)
<1>1. /\ MayBegin /\ Address \ Live # {} /\ currloop' = n
      /\ compile_level' = compile_level + 1
      /\ UNCHANGED <<loop_execute, loop_renaming, looping, acts, err>>
  BY DEF BeginLoop, flags
<1>2. n \in Address /\ n \notin DOMAIN loops
  BY <1>1, FreshFacts
<1>3. /\ acts # << >> /\ Top.kind \in {"script", "func"} /\ ~err /\ ~loop_execute
      /\ compile_level \in Nat /\ (Nested <=> compile_level > 0)
  BY <1>1, BeginFacts
<1>4. Forest(loops) /\ Lined(loops) /\ Grounded(loops) /\ Running = LoopsOf(acts)
      /\ \A i \in LoopsOf(acts) : acts[i].loop \in DOMAIN loops
  BY StateFacts
<1>5. CASE Nested
  <2>1. /\ currloop # NULL /\ currloop \in DOMAIN loops
        /\ compile_level = loops[currloop].level + 1
        /\ \A i \in LoopsOf(acts) : /\ RootOf(loops, acts[i].loop) # RootOf(loops, currloop)
                                    /\ acts[i].loop # currloop
        /\ Quiet => \A i \in LoopsOf(acts) : ~loops[acts[i].loop].renaming
    BY <1>3, <1>5, StoringFacts
  <2> DEFINE p == currloop
             s == Stored(p, "loop")
             t == [s EXCEPT !.children = Append(@, n)]
             V == [loops EXCEPT ![p] = t]
             c == ChildOf(p)
  <2>2. loops' = Allocated(n, c, V)
    BY <1>5 DEF BeginLoop
  <2>3. /\ s \in LoopSet
        /\ s.parent = loops[p].parent /\ s.level = loops[p].level
        /\ s.parent_line = loops[p].parent_line /\ s.children = loops[p].children
        /\ s.cmds = Append(loops[p].cmds, "loop")
    <3>1. "loop" \in Op
      BY DEF Op
    <3> QED
      BY <1>4, <2>1, <3>1, StoredFacts
  <2> HIDE DEF s, n
  <2>4. /\ t \in LoopSet
        /\ t.parent = loops[p].parent /\ t.level = loops[p].level
        /\ t.parent_line = loops[p].parent_line /\ t.children = Append(loops[p].children, n)
        /\ t.cmds = Append(loops[p].cmds, "loop")
    <3>1. Append(s.children, n) \in Seq(Address)
      BY <1>2, <2>3, AppendProperties DEF LoopSet
    <3> QED
      BY <2>3, <3>1 DEF LoopSet
  <2>5. /\ c \in LoopSet /\ c.parent = p /\ c.level = loops[p].level + 1
        /\ c.parent_line = Len(loops[p].cmds) + 1 /\ c.cmds = << >> /\ c.children = << >>
    BY <1>4, <2>1, ChildFacts
  <2> HIDE DEF t, c
  <2>6. /\ DOMAIN V = DOMAIN loops /\ V[p] = t
        /\ \A l \in DOMAIN loops : l # p => V[l] = loops[l]
    BY <1>4, <2>1 DEF Forest
  <2> HIDE DEF V
  <2>7. /\ DOMAIN loops' = DOMAIN loops \cup {n} /\ loops'[n] = c
        /\ \A l \in DOMAIN loops : loops'[l] = V[l]
    <3>1. n \notin DOMAIN V
      BY <1>2, <2>6
    <3>2. /\ DOMAIN loops' = DOMAIN V \cup {n} /\ loops'[n] = c
          /\ \A l \in DOMAIN V : loops'[l] = V[l]
      BY <2>2, <3>1 DEF Allocated
    <3> QED
      BY <2>6, <3>2
  <2>8. loops' \in [DOMAIN loops' -> LoopSet]
    <3>1. loops' = [l \in DOMAIN V \cup {n} |-> IF l = n THEN c ELSE V[l]]
      BY <2>2 DEF Allocated
    <3>2. \A l \in DOMAIN loops : loops[l] \in LoopSet
      BY <1>4 DEF Forest
    <3> QED
      BY <2>4, <2>5, <2>6, <3>1, <3>2
  <2>9. /\ loops'[p] = t /\ \A l \in DOMAIN loops : l # p => loops'[l] = loops[l]
    BY <2>1, <2>6, <2>7
  <2>10. /\ Forest(loops') /\ Lined(loops') /\ Similar(loops, loops')
         /\ RootOf(loops', n) = RootOf(loops, p)
    <3>1. /\ loops'[p].parent = loops[p].parent /\ loops'[p].level = loops[p].level
          /\ loops'[p].parent_line = loops[p].parent_line
          /\ loops'[p].children = Append(loops[p].children, n)
          /\ loops'[p].cmds = Append(loops[p].cmds, "loop")
      BY <2>4, <2>9
    <3>2. /\ loops'[n].parent = p /\ loops'[n].level = loops[p].level + 1
          /\ loops'[n].parent_line = Len(loops[p].cmds) + 1
          /\ loops'[n].children = << >> /\ loops'[n].cmds = << >>
      BY <2>5, <2>7
    <3>3. DOMAIN loops' = DOMAIN loops \cup {n} /\ p \in DOMAIN loops
      BY <2>1, <2>7
    <3>4. Attached(loops, loops', p, n)
      BY <2>8, <2>9, <3>1, <3>2, <3>3 DEF Attached
    <3> QED
      BY <1>2, <1>4, <3>3, <3>4, NestForest
  <2>11. Grounded(loops')
    <3>1. loops'[n].parent # NULL
      BY <1>4, <2>1, <2>5, <2>7, NullFacts DEF Forest
    <3> QED
      BY <1>4, <2>7, <2>10, <3>1 DEF Grounded, Similar
  <2>12. /\ n \in DOMAIN loops' /\ currloop' = n
         /\ compile_level' = loops'[currloop'].level + 1
    BY <1>1, <2>1, <2>5, <2>7 DEF n
  <2>13. \A i \in LoopsOf(acts) : /\ RootOf(loops, acts[i].loop) # RootOf(loops', currloop')
                                  /\ loops'[acts[i].loop] = loops[acts[i].loop]
    BY <1>4, <2>1, <2>9, <2>10, <2>12
  <2>14. \A l \in DOMAIN loops' :
             l \in DOMAIN loops \/ RootOf(loops', l) = RootOf(loops', currloop')
    BY <2>7, <2>12
  <2>15. RootOf(loops', currloop') = RootOf(loops, currloop)
    BY <2>10, <2>12
  <2>16. DOMAIN loops \subseteq DOMAIN loops'
    BY <2>7
  <2> QED
    BY <1>1, <1>3, <2>1, <2>10, <2>11, <2>12, <2>13, <2>14, <2>15, <2>16, StoreStep
<1>6. CASE ~Nested
  <2>1. compile_level = 0 /\ ~(compile_level > 0)
    BY <1>3, <1>6
  <2>2. loops' = Allocated(n, gretl_loop_init, loops)
    BY <1>6 DEF BeginLoop
  <2> HIDE DEF n
  <2>3. /\ DOMAIN loops' = DOMAIN loops \cup {n} /\ loops'[n] = gretl_loop_init
        /\ \A l \in DOMAIN loops : loops'[l] = loops[l]
    BY <1>2, <2>2, AllocatedFacts
  <2>4. loops' \in [DOMAIN loops' -> LoopSet]
    <3>1. loops' = [l \in DOMAIN loops \cup {n} |-> IF l = n THEN gretl_loop_init ELSE loops[l]]
      BY <2>2 DEF Allocated
    <3>2. \A l \in DOMAIN loops : loops[l] \in LoopSet
      BY <1>4 DEF Forest
    <3> QED
      BY <3>1, <3>2, BornFacts
  <2>5. /\ Forest(loops') /\ Lined(loops') /\ Similar(loops, loops') /\ RootOf(loops', n) = n
    BY <1>2, <1>4, <2>3, <2>4, BornFacts, AddForest
  <2>6. Grounded(loops')
    BY <1>4, <2>3, BornFacts DEF Grounded
  <2>7. /\ n \in DOMAIN loops' /\ currloop' = n
        /\ compile_level' = loops'[currloop'].level + 1
    BY <1>1, <2>1, <2>3, BornFacts DEF n
  <2>8. \A i \in LoopsOf(acts) : /\ RootOf(loops, acts[i].loop) # RootOf(loops', currloop')
                                 /\ loops'[acts[i].loop] = loops[acts[i].loop]
    BY <1>2, <1>4, <2>3, <2>5, <2>7, RootFacts
  <2>9. \A l \in DOMAIN loops' :
            l \in DOMAIN loops \/ RootOf(loops', l) = RootOf(loops', currloop')
    BY <2>3, <2>7
  <2>10. DOMAIN loops \subseteq DOMAIN loops'
    BY <2>3
  <2>11. "renaming" \notin Faults => \A i \in LoopsOf(acts) : ~loops[acts[i].loop].renaming
    BY <1>1, <1>4 DEF MayBegin
  <2> QED
    BY <1>1, <1>3, <2>1, <2>5, <2>6, <2>7, <2>8, <2>9, <2>10, <2>11, StoreStep
<1> QED
  BY <1>5, <1>6

\* The loop that ends is at the top level, or the one around it goes on.
LEMMA EndLoopFacts ==
  ASSUME IInv, EndLoop
  PROVE  /\ compile_level > 0 /\ acts # << >> /\ Top.kind # "loop" /\ ~loop_execute
         /\ currloop \in DOMAIN loops
         /\ loops' = loops /\ acts' = acts /\ compile_level' = compile_level - 1
         /\ compile_level = 1 =>
              loops[currloop].parent = NULL /\ currloop' = currloop /\ loop_execute'
         /\ compile_level # 1 =>
              /\ loops[currloop].parent # NULL /\ currloop' = loops[currloop].parent
              /\ compile_level' > 0 /\ ~loop_execute'
<1>1. /\ compile_level > 0 /\ compile_level' = compile_level - 1
      /\ loops' = loops /\ acts' = acts
      /\ compile_level = 1 => loop_execute' = TRUE /\ currloop' = currloop
      /\ compile_level # 1 => currloop' = loops[currloop].parent /\ loop_execute' = loop_execute
  BY DEF EndLoop, Storing
<1>2. /\ acts # << >> /\ Top.kind # "loop" /\ ~loop_execute /\ currloop \in DOMAIN loops
      /\ compile_level = loops[currloop].level + 1
  BY <1>1, StoringFacts
<1>3. Forest(loops) /\ Grounded(loops) /\ loops[currloop].level \in Nat
  BY <1>2, StateFacts, ParentFacts
<1>4. ASSUME compile_level = 1, loops[currloop].parent # NULL PROVE FALSE
  <2>1. /\ loops[currloop].parent \in DOMAIN loops
        /\ loops[currloop].level = loops[loops[currloop].parent].level + 1
    BY <1>2, <1>3, <1>4, ParentFacts
  <2>2. loops[loops[currloop].parent].level \in Nat
    BY <1>3, <2>1, ParentFacts
  <2> QED
    BY <1>2, <1>3, <1>4, <2>1, <2>2
<1>5. compile_level # 1 => loops[currloop].parent # NULL /\ compile_level' > 0
  BY <1>1, <1>2, <1>3 DEF Grounded
<1> QED
  BY <1>1, <1>2, <1>4, <1>5

\* A loop is complete, or what is stored belongs again to the loop around it.
LEMMA StepEndLoop == ASSUME IInv, EndLoop PROVE IInv' /\ (Quiet => Quiet')
<1>1. /\ compile_level > 0 /\ ~err /\ compile_level' = compile_level - 1
      /\ UNCHANGED <<loops, loop_renaming, looping, acts, err>>
      /\ compile_level = 1 => loop_execute' = TRUE /\ currloop' = currloop
      /\ compile_level # 1 => currloop' = loops[currloop].parent /\ loop_execute' = loop_execute
  BY DEF EndLoop, Storing, NextLine, Reading, flags
<1>2. /\ acts # << >> /\ Top.kind \in {"script", "func"} /\ ~loop_execute
      /\ currloop # NULL /\ currloop \in DOMAIN loops
      /\ compile_level = loops[currloop].level + 1
      /\ \A i \in LoopsOf(acts) : RootOf(loops, acts[i].loop) # RootOf(loops, currloop)
      /\ Quiet => \A i \in LoopsOf(acts) : ~loops[acts[i].loop].renaming
  BY <1>1, StoringFacts
<1>3. /\ Forest(loops) /\ Lined(loops) /\ Grounded(loops) /\ Running = LoopsOf(acts)
      /\ loop_execute \in BOOLEAN /\ loop_renaming \in BOOLEAN /\ err \in BOOLEAN
      /\ acts \in Seq(Activity)
  BY StateFacts DEF IInv, Typed
<1>4. Running' = LoopsOf(acts) /\ LoopsOf(acts') = LoopsOf(acts)
  BY <1>1 DEF Running, LoopsOf
<1>5. loops[currloop].level \in Nat /\ compile_level' = loops[currloop].level
  BY <1>1, <1>2, <1>3, ParentFacts
<1>6. /\ currloop' # NULL /\ currloop' \in DOMAIN loops
      /\ RootOf(loops, currloop') = RootOf(loops, currloop)
      /\ compile_level' > 0 => compile_level' = loops[currloop'].level + 1 /\ ~loop_execute'
      /\ loop_execute' => loops[currloop'].parent = NULL
      /\ compile_level' > 0 \/ loop_execute'
      /\ loop_execute' \in BOOLEAN
  <2>1. CASE compile_level = 1
    <3>1. loops[currloop].parent = NULL
      BY <2>1, EndLoopFacts
    <3>2. loops[currloop].level = 0
      BY <1>2, <1>5, <2>1
    <3> QED
      BY <1>1, <1>2, <1>5, <2>1, <3>1, <3>2
  <2>2. CASE compile_level # 1
    <3>1. compile_level' # 0
      BY <1>1, <1>2, <1>5, <2>2
    <3>2. loops[currloop].parent # NULL
      BY <2>2, EndLoopFacts
    <3>3. /\ loops[currloop].parent \in DOMAIN loops
          /\ loops[currloop].level = loops[loops[currloop].parent].level + 1
      BY <1>2, <1>3, <3>2, ParentFacts
    <3>4. RootOf(loops, currloop) = RootOf(loops, loops[currloop].parent)
      BY <1>2, <1>3, <3>2, RootFacts
    <3> QED
      BY <1>1, <1>2, <1>3, <1>5, <2>2, <3>1, <3>2, <3>3, <3>4
  <2> QED
    BY <2>1, <2>2
<1>7. compile_level' \in Nat
  BY <1>5
<1>8. Typed'
  BY <1>1, <1>2, <1>3, <1>6, <1>7 DEF Typed
<1>9. Storage'
  <2>1. Stocked'
    BY <1>6 DEF Stocked
  <2>2. \A i \in LoopsOf(acts) : RootOf(loops, acts[i].loop) # RootOf(loops, currloop')
    BY <1>2, <1>6
  <2> QED
    BY <1>1, <1>2, <1>4, <1>6, <2>1, <2>2 DEF Storage, Top
<1>10. Owned'
  BY <1>1, <1>2, <1>4, <1>6 DEF IInv, Owned, OwnedIn
<1>11. Marked' /\ Nesting(loops', acts') /\ Deeper(acts')
  BY <1>1, <1>3, <1>4 DEF IInv, Marked
<1>12. Quiet => Quiet'
  BY <1>1, <1>2, <1>3, <1>4 DEF Quiet, Alone, RenamingHolds
<1> QED
  BY <1>8, <1>9, <1>10, <1>11, <1>12 DEF IInv

----------------------------------------------------------------------------
(* Steps that begin and end the execution of loops.                        *)

\* A loop is put on top: nothing is stored after that.
LEMMA LoopBegins ==
  ASSUME IInv, NEW a, Shape(loops, a), a # << >>, LoopsOf(a) = LoopsOf(acts), Kept(acts, a),
         DepthIn(a, Len(a)) = depth, NEW l \in DOMAIN loops,
         NEW x \in Activity, x.kind = "loop", x.loop = l, acts' = Append(a, x),
         Fits(loops, a, l),
         currloop # NULL => \/ RootOf(loops, currloop) = RootOf(loops, l)
                            \/ \E i \in LoopsOf(acts) :
                                  RootOf(loops, acts[i].loop) = RootOf(loops, currloop),
         Enter(l), loops' = loops, compile_level' = compile_level, compile_level = 0,
         ~loop_execute', loop_execute' \in BOOLEAN, err' = err
  PROVE  /\ IInv'
         /\ (/\ Quiet
             /\ loops[l].parent = NULL => \A i \in LoopsOf(acts) : ~loops[acts[i].loop].renaming)
            => Quiet'
<1> DEFINE n == Len(acts')
<1>1. acts' \in Seq(Activity) /\ Len(acts') = Len(a) + 1 /\ acts'[n] = x /\ Agree(a, acts', Len(a))
  BY PushFacts
<1>2. /\ Shape(loops, acts') /\ LoopsOf(acts') = LoopsOf(a) \cup {n} /\ n \notin LoopsOf(a)
      /\ acts' # << >> /\ Last(acts') = x /\ Kept(a, acts')
      /\ DepthIn(acts', n) = DepthIn(a, Len(a))
  <2>1. acts'[Len(acts')].kind = "loop" /\ acts'[Len(acts')].loop = l
    BY <1>1
  <2>2. /\ Shape(loops, acts') /\ LoopsOf(acts') = LoopsOf(a) \cup {Len(acts')}
        /\ Len(acts') \notin LoopsOf(a) /\ acts' # << >> /\ Last(acts') = acts'[Len(acts')]
        /\ Kept(a, acts') /\ DepthIn(acts', Len(acts')) = DepthIn(a, Len(a))
    BY <1>1, <2>1, ShapeLoop
  <2> QED
    BY <1>1, <2>2
<1> HIDE DEF n
<1>3. /\ currloop' = l /\ looping' = looping \cup {depth}
      /\ loop_renaming' = (loop_renaming \/ loops[l].renaming)
  BY DEF Enter
<1>4. /\ LoopsOf(acts') = LoopsOf(acts) \cup {n} /\ n \notin LoopsOf(acts)
      /\ acts'[n].loop = l /\ DepthIn(acts', n) = depth
      /\ \A i \in LoopsOf(acts) : acts'[i].loop = acts[i].loop /\ DepthIn(acts', i) = DepthIn(acts, i)
  <2>1. Kept(acts, acts')
    BY <1>2, KeptFacts
  <2> QED
    BY <1>1, <1>2, <2>1 DEF Kept
<1>5. /\ Running = LoopsOf(acts) /\ Running' = LoopsOf(acts')
      /\ Forest(loops) /\ Lined(loops) /\ Grounded(loops)
      /\ looping = {DepthIn(acts, i) : i \in LoopsOf(acts)}
  BY StateFacts DEF Running, LoopsOf
<1>6. loop_renaming \in BOOLEAN /\ loops[l].renaming \in BOOLEAN /\ err \in BOOLEAN
  BY <1>5 DEF IInv, Typed, Forest, LoopSet
<1>7. loop_renaming' \in BOOLEAN
  BY <1>3, <1>6
<1>8. Typed'
  BY <1>1, <1>2, <1>3, <1>5, <1>6, <1>7 DEF Typed
<1>9. ~Stocked'
  BY DEF Stocked
<1>10. Storage'
  BY <1>3, <1>4, <1>5, <1>9 DEF Storage, Stocked
<1>11. Owned'
  <2>1. \A k \in DOMAIN loops :
           \/ \E i \in LoopsOf(acts) : RootOf(loops, acts[i].loop) = RootOf(loops, k)
           \/ RootOf(loops, l) = RootOf(loops, k)
    BY DEF IInv, Owned, OwnedIn
  <2>2. l # NULL
    BY <1>5, NullFacts DEF Forest
  <2>3. \A k \in DOMAIN loops :
           \E i \in LoopsOf(acts') : RootOf(loops, acts'[i].loop) = RootOf(loops, k)
    <3>1. n \in LoopsOf(acts') /\ acts'[n].loop = l
      BY <1>4
    <3>2. \A i \in LoopsOf(acts) : i \in LoopsOf(acts') /\ acts'[i].loop = acts[i].loop
      BY <1>4
    <3> SUFFICES ASSUME NEW k \in DOMAIN loops
                 PROVE  \E i \in LoopsOf(acts') : RootOf(loops, acts'[i].loop) = RootOf(loops, k)
      OBVIOUS
    <3>3. CASE RootOf(loops, l) = RootOf(loops, k)
      BY <3>1, <3>3
    <3>4. CASE \E i \in LoopsOf(acts) : RootOf(loops, acts[i].loop) = RootOf(loops, k)
      BY <3>2, <3>4
    <3> QED
      BY <2>1, <3>3, <3>4
  <2> QED
    BY <2>3 DEF Owned, OwnedIn
<1>12. Marked'
  BY <1>3, <1>4, <1>5 DEF Marked
<1>13. ASSUME Quiet,
              loops[l].parent = NULL => \A i \in LoopsOf(acts) : ~loops[acts[i].loop].renaming
       PROVE  Quiet'
  <2>1. RenamingHolds'
    BY <1>3, <1>4, <1>5, <1>13 DEF Quiet, RenamingHolds
  <2>2. \A i, j \in Running' :
           (i < j /\ loops'[acts'[j].loop].parent = NULL) => ~loops'[acts'[i].loop].renaming
    <3>1. /\ LoopsOf(acts) \subseteq 1 .. Len(acts) /\ LoopsOf(a) \subseteq 1 .. Len(a)
          /\ Len(a) \in Nat /\ n = Len(a) + 1
      BY <1>1, StateFacts, ActsFacts DEF Shape, LoopsOf, n
    <3>2. \A i \in LoopsOf(acts) : i \in Nat /\ i < n
      BY <3>1
    <3>3. n \in Nat
      BY <3>1
    <3>4. ASSUME NEW i \in LoopsOf(acts'), NEW j \in LoopsOf(acts'), i < j,
                 loops[acts'[j].loop].parent = NULL
          PROVE  ~loops[acts'[i].loop].renaming
      <4>1. i \in LoopsOf(acts) /\ acts'[i].loop = acts[i].loop
        <5>1. j \in LoopsOf(acts) \/ j = n
          BY <1>4
        <5>2. j \in Nat /\ j <= n
          BY <3>2, <3>3, <5>1
        <5>3. i # n
          BY <3>3, <3>4, <5>2
        <5> QED
          BY <1>4, <5>3
      <4>2. CASE j = n
        BY <1>4, <1>13, <3>4, <4>1, <4>2
      <4>3. CASE j # n
        <5>1. j \in LoopsOf(acts) /\ acts'[j].loop = acts[j].loop
          BY <1>4, <4>3
        <5> QED
          BY <1>5, <1>13, <3>4, <4>1, <5>1 DEF Quiet, Alone
      <4> QED
        BY <4>2, <4>3
    <3> QED
      BY <1>5, <3>4
  <2> QED
    BY <1>9, <2>1, <2>2 DEF Quiet, Alone
<1> QED
  BY <1>2, <1>8, <1>10, <1>11, <1>12, <1>13 DEF IInv, Shape

\* The complete loop is executed.
LEMMA StepRunLoop == ASSUME IInv, RunLoop PROVE IInv' /\ (Quiet => Quiet')
<1> DEFINE x == [kind |-> "loop", loop |-> currloop, at |-> 0]
<1>1. /\ acts # << >> /\ ~err /\ loop_execute /\ loop_execute' = FALSE
      /\ loops' = loops /\ compile_level' = compile_level
  BY DEF RunLoop, Reading
<1>2. /\ compile_level = 0 /\ currloop # NULL /\ loops[currloop].parent = NULL
      /\ Last(acts).kind # "loop" /\ Running = LoopsOf(acts)
      /\ \A i \in LoopsOf(acts) : RootOf(loops, acts[i].loop) # RootOf(loops, currloop)
      /\ Quiet => \A i \in LoopsOf(acts) : ~loops[acts[i].loop].renaming
  <2>1. Storage /\ Stocked /\ Running = LoopsOf(acts) /\ compile_level \in Nat
    BY <1>1, StateFacts DEF IInv, Typed, Stocked
  <2>2. ~(compile_level > 0)
    BY <1>1, <2>1 DEF Storage
  <2>3. /\ Last(acts).kind \in {"script", "func"}
        /\ currloop # NULL /\ loops[currloop].parent = NULL
        /\ \A i \in LoopsOf(acts) : RootOf(loops, acts[i].loop) # RootOf(loops, currloop)
    BY <1>1, <2>1 DEF Storage
  <2>4. Quiet => \A i \in LoopsOf(acts) : ~loops[acts[i].loop].renaming
    BY <2>1 DEF Quiet, Alone
  <2> QED
    BY <2>1, <2>2, <2>3, <2>4
<1>3. /\ Enter(currloop) /\ acts' = Append(acts, x) /\ err' = err
  BY <1>2 DEF RunLoop, Push
<1>4. /\ Shape(loops, acts) /\ Kept(acts, acts) /\ DepthIn(acts, Len(acts)) = depth
      /\ currloop \in DOMAIN loops /\ Forest(loops)
  BY <1>2, StateFacts DEF Kept
<1>5. x \in Activity /\ x.kind = "loop" /\ x.loop = currloop
  BY <1>4 DEF Forest, Activity
<1>6. RootOf(loops, currloop) = currloop
  BY <1>2, <1>4, RootFacts
<1> HIDE DEF x
<1>7. ~loop_execute' /\ loop_execute' \in BOOLEAN
  BY <1>1
<1>8. Fits(loops, acts, currloop)
  BY <1>2, <1>6 DEF Fits
<1> QED
  BY <1>1, <1>2, <1>3, <1>4, <1>5, <1>7, <1>8, LoopBegins

\* A line of a loop begins the loop inside.
LEMMA StepInnerLoop == ASSUME IInv, InnerLoop PROVE IInv' /\ (Quiet => Quiet')
<1>1. /\ acts # << >> /\ Top.kind = "loop" /\ ~err /\ loop_execute' = FALSE
      /\ loops' = loops /\ compile_level' = compile_level /\ err' = err
  BY DEF InnerLoop, AtLine, InLoop
<1>2. PICK child \in ChildAt(Top.loop, Top.at) :
         /\ Enter(child)
         /\ acts' = Append([acts EXCEPT ![Len(acts)].at = @ + 1],
                           [kind |-> "loop", loop |-> child, at |-> 0])
  BY DEF InnerLoop
<1> DEFINE x == [kind |-> "loop", loop |-> child, at |-> 0]
           j == Top.at + 1
           a == [acts EXCEPT ![Len(acts)].at = j]
<1>3. /\ Shape(loops, acts) /\ Top = acts[Len(acts)] /\ Top = Last(acts) /\ Forest(loops)
      /\ Top \in Activity /\ Len(acts) \in LoopsOf(acts) /\ Running = LoopsOf(acts)
      /\ depth = DepthIn(acts, Len(acts)) /\ acts[Len(acts)].loop \in DOMAIN loops
  BY <1>1, StateFacts DEF LoopsOf
<1>4. j \in Nat
  BY <1>1, <1>3, ActivityFacts
<1>5. acts' = Append(a, x)
  BY <1>2, <1>3
<1>6. /\ child \in DOMAIN loops /\ loops[child].parent = Top.loop /\ loops[child].parent # NULL
  <2>1. child \in Kids(loops, Top.loop) /\ Top.loop \in DOMAIN loops
    BY <1>3 DEF ChildAt, Kids
  <2> QED
    BY <1>3, <2>1, ParentFacts
<1>7. x \in Activity /\ x.kind = "loop" /\ x.loop = child
  BY <1>3, <1>6 DEF Forest, Activity
<1> HIDE DEF x, j
<1>8. /\ Shape(loops, a) /\ LoopsOf(a) = LoopsOf(acts) /\ a # << >>
      /\ Last(a).kind = "loop" /\ Last(a).loop = Last(acts).loop
      /\ Kept(acts, a) /\ DepthIn(a, Len(a)) = DepthIn(acts, Len(acts))
  <2>1. Shape(loops, acts) /\ acts # << >> /\ Last(acts).kind = "loop"
    BY <1>1, <1>3
  <2>2. Moved(acts, a, j)
    BY DEF Moved
  <2> QED
    BY <1>4, <2>1, <2>2, MoveFacts
<1> HIDE DEF a
<1>9. /\ compile_level = 0
      /\ currloop # NULL =>
           \E i \in LoopsOf(acts) : RootOf(loops, acts[i].loop) = RootOf(loops, currloop)
  BY <1>1, IdleFacts
<1>10. /\ DepthIn(a, Len(a)) = depth /\ Fits(loops, a, child)
       /\ ~loop_execute' /\ loop_execute' \in BOOLEAN
  BY <1>1, <1>3, <1>6, <1>8 DEF Fits
<1> QED
  BY <1>1, <1>2, <1>5, <1>6, <1>7, <1>8, <1>9, <1>10, LoopBegins

\* A loop ends; the one that no other contains is freed with its tree.
LEMMA StepLoopEnds == ASSUME IInv, LoopEnds PROVE IInv' /\ (Quiet => Quiet')
<1> DEFINE n == Len(acts)
           r == Top.loop
<1>1. /\ acts # << >> /\ Top.kind = "loop" /\ acts' = Front(acts)
      /\ compile_level' = compile_level /\ loop_execute' = loop_execute /\ err' = err
  BY DEF LoopEnds, Pop
<1>2. /\ Shape(loops, acts) /\ Nesting(loops, acts) /\ Deeper(acts) /\ Top = acts[n]
      /\ Forest(loops) /\ Lined(loops) /\ Grounded(loops)
      /\ n \in LoopsOf(acts) /\ n \in DOMAIN acts /\ DOMAIN acts = 1 .. n /\ n \in Nat
      /\ Running = LoopsOf(acts) /\ depth = DepthIn(acts, n)
      /\ looping = {DepthIn(acts, i) : i \in LoopsOf(acts)}
      /\ acts[n].kind = "loop" /\ r \in DOMAIN loops
      /\ LoopsOf(acts) \subseteq 1 .. n
      /\ loop_renaming \in BOOLEAN /\ err \in BOOLEAN
  BY <1>1, StateFacts DEF Shape, LoopsOf, IInv, Typed
<1>3. /\ ~Stocked /\ compile_level = 0 /\ ~loop_execute
      /\ currloop # NULL =>
           \E i \in LoopsOf(acts) : RootOf(loops, acts[i].loop) = RootOf(loops, currloop)
  BY <1>1, IdleFacts
<1>4. /\ Shape(loops, acts') /\ LoopsOf(acts') = LoopsOf(acts) \ {n} /\ Kept(acts', acts)
      /\ Len(acts') = n - 1
  BY <1>1, <1>2, ShapePop
<1>5. /\ n > 1 /\ n - 1 \in DOMAIN acts
      /\ loops[r].parent = NULL => acts[n - 1].kind # "loop"
      /\ loops[r].parent # NULL =>
           acts[n - 1].kind = "loop" /\ acts[n - 1].loop = loops[r].parent
  BY <1>2 DEF Nesting
<1>6. acts' # << >>
  <2>1. acts' \in Seq(Activity) /\ Len(acts') > 0
    BY <1>2, <1>4, <1>5 DEF Shape
  <2> QED
    BY <2>1, ActsFacts
<1>7. \A i \in LoopsOf(acts') : /\ i \in LoopsOf(acts) /\ i \in Nat /\ i < n
                                /\ acts'[i].loop = acts[i].loop
                                /\ DepthIn(acts', i) = DepthIn(acts, i)
  BY <1>2, <1>4 DEF Kept
<1> HIDE DEF n
<1>8. CASE loops[r].parent = NULL
  <2>1. /\ currloop' = NULL /\ loop_renaming' = FALSE /\ looping' = looping \ {depth}
        /\ gretl_loop_destroy(r)
    BY <1>8 DEF LoopEnds
  <2>2. RootOf(loops, r) = r
    BY <1>2, <1>8, RootFacts
  <2>3. \A i \in LoopsOf(acts') : RootOf(loops, acts'[i].loop) # r
    <3>1. acts[n].loop = r /\ \A i \in LoopsOf(acts) : i \in DOMAIN acts /\ acts[i].kind = "loop"
      BY <1>2 DEF LoopsOf
    <3>2. \A i \in LoopsOf(acts) : i < n => RootOf(loops, acts[i].loop) # r
      BY <1>2, <1>8, <3>1 DEF Nesting
    <3> QED
      BY <1>7, <3>2
  <2>4. /\ Forest(loops') /\ Lined(loops') /\ Grounded(loops') /\ Similar(loops, loops')
        /\ DOMAIN loops' = {l \in DOMAIN loops : RootOf(loops, l) # r}
        /\ \A l \in DOMAIN loops' : loops'[l] = loops[l]
    BY <1>2, <1>8, <2>1, DestroyFacts
  <2>5. \A l \in DOMAIN loops : RootOf(loops, l) # r =>
          \E i \in LoopsOf(acts') : RootOf(loops, acts'[i].loop) = RootOf(loops, l)
    <3>1. \A l \in DOMAIN loops :
             \E i \in LoopsOf(acts) : RootOf(loops, acts[i].loop) = RootOf(loops, l)
      BY <1>3 DEF IInv, Owned, OwnedIn
    <3> QED
      BY <1>2, <1>4, <1>7, <2>2, <3>1
  <2>6. Shape(loops', acts') /\ OwnedIn(loops', acts', NULL)
    BY <1>4, <2>3, <2>4, <2>5, DropTree
  <2>7. looping' = {DepthIn(acts', i) : i \in LoopsOf(acts')}
    <3>1. \A i \in LoopsOf(acts') : i < n - 1
      BY <1>2, <1>5, <1>7, <1>8 DEF LoopsOf
    <3>2. \A i \in LoopsOf(acts') : DepthIn(acts, i) < DepthIn(acts, n - 1)
      BY <1>2, <1>5, <1>7, <1>8, <3>1 DEF Deeper, LoopsOf
    <3>3. n - 1 \in Nat /\ n - 1 <= n
      BY <1>2, <1>5
    <3>4. DepthIn(acts, n - 1) <= DepthIn(acts, n)
      BY <1>2, <3>3, DepthFacts
    <3>5. \A i \in LoopsOf(acts') : DepthIn(acts, i) \in Nat
      BY <1>7, DepthFacts
    <3>6. DepthIn(acts, n - 1) \in Nat /\ DepthIn(acts, n) \in Nat
      BY <1>2, <3>3, DepthFacts
    <3>7. \A i \in LoopsOf(acts') : DepthIn(acts, i) # depth
      BY <1>2, <3>2, <3>4, <3>5, <3>6
    <3> QED
      BY <1>2, <1>4, <1>7, <2>1, <3>7
  <2>8. IInv'
    <3>1. /\ compile_level' = 0 /\ ~loop_execute' /\ loop_execute' \in BOOLEAN
          /\ loop_renaming' \in BOOLEAN /\ err' \in BOOLEAN
      BY <1>1, <1>2, <1>3, <2>1 DEF IInv, Typed
    <3> QED
      BY <1>6, <2>1, <2>4, <2>6, <2>7, <3>1, RestStep
  <2>9. Quiet => Quiet'
    <3>1. ~Stocked'
      BY <1>1, <1>3 DEF Stocked
    <3>2. Quiet => \A i \in LoopsOf(acts') : ~loops[acts[i].loop].renaming
      BY <1>1, <1>2, <1>7, <1>8 DEF Quiet, Alone
    <3>3. \A i \in LoopsOf(acts') : acts'[i].loop \in DOMAIN loops'
      BY <2>6 DEF Shape, Nesting, LoopsOf
    <3> QED
      BY <1>7, <2>4, <3>1, <3>2, <3>3, RestQuiet
  <2> QED
    BY <2>8, <2>9
<1>9. CASE loops[r].parent # NULL
  <2>1. UNCHANGED <<loops, currloop, loop_renaming, looping>>
    BY <1>9 DEF LoopEnds, flags
  <2>2. n - 1 \in LoopsOf(acts')
    BY <1>2, <1>4, <1>5, <1>9 DEF LoopsOf
  <2>3. RootOf(loops, acts[n - 1].loop) = RootOf(loops, r)
    BY <1>2, <1>5, <1>9, RootFacts
  <2>4. \A i \in LoopsOf(acts) : \E k \in LoopsOf(acts') :
           RootOf(loops, acts'[k].loop) = RootOf(loops, acts[i].loop)
    BY <1>1, <1>2, <1>4, <1>7, <2>2, <2>3
  <2>5. DepthIn(acts, n) = DepthIn(acts, n - 1)
    <3>1. n - 1 \in Nat /\ (n - 1) + 1 = n
      BY <1>2, <1>5
    <3>2. acts[(n - 1) + 1].kind # "func"
      BY <1>2, <3>1
    <3> QED
      BY <3>1, <3>2, DepthFacts
  <2>6. /\ Running' = LoopsOf(acts') /\ ~Stocked'
    BY <1>1, <1>3 DEF Running, LoopsOf, Stocked
  <2>7. Typed'
    BY <1>1, <1>4, <1>6, <2>1 DEF IInv, Typed, Shape
  <2>8. Storage'
    <3>1. currloop' # NULL =>
            \E i \in LoopsOf(acts') : RootOf(loops', acts'[i].loop) = RootOf(loops', currloop')
      BY <1>3, <2>1, <2>4
    <3> QED
      BY <2>6, <3>1 DEF Storage, Stocked
  <2>9. Owned'
    <3>1. \A l \in DOMAIN loops :
             \E i \in LoopsOf(acts) : RootOf(loops, acts[i].loop) = RootOf(loops, l)
      BY <1>3 DEF IInv, Owned, OwnedIn
    <3>2. \A l \in DOMAIN loops :
             \E i \in LoopsOf(acts') : RootOf(loops, acts'[i].loop) = RootOf(loops, l)
      BY <2>4, <3>1
    <3> QED
      BY <2>1, <3>2 DEF Owned, OwnedIn
  <2>10. Marked'
    BY <1>2, <1>4, <1>7, <2>1, <2>2, <2>5, <2>6 DEF Marked
  <2>11. Quiet => Quiet'
    BY <1>2, <1>7, <2>1, <2>6 DEF Quiet, Alone, RenamingHolds
  <2>12. Nesting(loops', acts') /\ Deeper(acts')
    BY <1>4, <2>1 DEF Shape
  <2> QED
    BY <2>7, <2>8, <2>9, <2>10, <2>11, <2>12 DEF IInv
<1> QED
  BY <1>8, <1>9

----------------------------------------------------------------------------
(* The invariant and the properties.                                       *)

\* The invariant holds at the start.
LEMMA InitFacts == Init => IInv /\ Quiet
<1> SUFFICES ASSUME Init PROVE IInv /\ Quiet
  OBVIOUS
<1>1. /\ loops = << >> /\ acts = << >> /\ currloop = NULL /\ compile_level = 0 /\ ~loop_execute
      /\ loop_execute \in BOOLEAN /\ loop_renaming \in BOOLEAN /\ err \in BOOLEAN /\ ~err
      /\ looping = {}
  BY DEF Init
<1>2. DOMAIN loops = {} /\ DOMAIN acts = {} /\ acts \in Seq(Activity)
  BY <1>1
<1>3. Running = {}
  BY <1>2 DEF Running
<1>4. Forest(loops)
  <2>1. loops \in [DOMAIN loops -> LoopSet]
    BY <1>1, <1>2
  <2>2. Linked(loops)
    <3>1. 0 \in Nat
      OBVIOUS
    <3> QED
      BY <1>2, <3>1 DEF Linked
  <2> QED
    BY <1>2, <2>1, <2>2 DEF Forest
<1>5. Lined(loops) /\ Grounded(loops) /\ Owned
  BY <1>2 DEF Lined, Grounded, Owned, OwnedIn
<1>6. Typed
  <2>1. compile_level \in Nat /\ currloop \in DOMAIN loops \cup {NULL}
    BY <1>1
  <2> QED
    BY <1>1, <1>2, <1>4, <1>5, <2>1 DEF Typed
<1>7. Nesting(loops, acts) /\ Deeper(acts)
  BY <1>1, <1>2 DEF Nesting, Deeper
<1>8. ~Stocked /\ Storage
  BY <1>1 DEF Stocked, Storage
<1>9. Marked
  BY <1>1, <1>3 DEF Marked
<1>10. Quiet
  BY <1>3, <1>8 DEF Quiet, Alone, RenamingHolds
<1> QED
  BY <1>5, <1>6, <1>7, <1>8, <1>9, <1>10 DEF IInv

\* Every step keeps the invariant.
LEMMA NextStep ==
  ASSUME Orderly, IInv, [Next]_vars
  PROVE  IInv' /\ ("renaming" \notin Faults /\ Quiet => Quiet')
<1>1. CASE StartScript
  BY <1>1, StepStartScript
<1>2. CASE EndScript
  BY <1>2, StepEndScript
<1>3. CASE Return
  BY <1>3, StepReturn
<1>4. CASE BeginLoop
  BY <1>4, StepBeginLoop
<1>5. CASE BeginFails
  BY <1>5, StepBeginFails
<1>6. CASE StoreLine
  BY <1>6, StepStoreLine
<1>7. CASE Refused
  BY <1>7, StepRefused
<1>8. CASE Unparsed
  BY <1>8, StepUnparsed
<1>9. CASE EndLoop
  BY <1>9, StepEndLoop
<1>10. CASE Call
  BY <1>10, StepCall
<1>11. CASE Run
  BY <1>11, StepRun
<1>12. CASE Fails \/ LoopFails
  BY <1>12, StepRaises
<1>13. CASE RunLoop
  BY <1>13, StepRunLoop
<1>14. CASE Iterate \/ LoopLine \/ EndOfBody
  BY <1>14, StepGoto
<1>15. CASE LoopCall
  BY <1>15, StepLoopCall
<1>16. CASE InnerLoop
  BY <1>16, StepInnerLoop
<1>17. CASE LoopEnds
  BY <1>17, StepLoopEnds
<1>18. CASE UNCHANGED vars
  <2>1. UNCHANGED <<loops, currloop, compile_level, loop_execute, loop_renaming, looping, acts, err>>
    BY <1>18 DEF vars
  <2>2. (Running' = Running) /\ (Stocked' <=> Stocked)
    BY <2>1 DEF Running, Stocked
  <2>3. Typed'
    BY <2>1 DEF IInv, Typed
  <2>4. Storage'
    BY <2>1, <2>2 DEF IInv, Storage
  <2>5. Owned' /\ Marked' /\ Nesting(loops', acts') /\ Deeper(acts')
    BY <2>1, <2>2 DEF IInv, Owned, Marked
  <2>6. Quiet => Quiet'
    BY <2>1, <2>2 DEF Quiet, Alone, RenamingHolds
  <2> QED
    BY <2>3, <2>4, <2>5, <2>6 DEF IInv
<1> QED
  BY <1>1, <1>2, <1>3, <1>4, <1>5, <1>6, <1>7, <1>8, <1>9, <1>10, <1>11, <1>12, <1>13,
     <1>14, <1>15, <1>16, <1>17, <1>18 DEF Next

\* The invariant holds in every state.
LEMMA Inductive == ASSUME Orderly PROVE Spec => []IInv
<1>1. Init => IInv
  BY InitFacts
<1>2. IInv /\ [Next]_vars => IInv'
  BY NextStep
<1> QED
  BY <1>1, <1>2, PTL DEF Spec

\* It implies the type invariant.
LEMMA TypeFacts == IInv => TypeOK
<1> SUFFICES ASSUME IInv PROVE TypeOK
  OBVIOUS
<1>1. /\ Typed /\ Forest(loops) /\ Lined(loops) /\ Live = DOMAIN loops
      /\ acts \in Seq(Activity) /\ \A i \in DOMAIN acts : acts[i] \in Activity
      /\ currloop \in DOMAIN loops \cup {NULL}
  BY ActsFacts DEF IInv, Typed, Live
<1>2. Live \subseteq Address /\ currloop \in Address \cup {NULL}
  BY <1>1 DEF Forest
<1>3. \A l \in Live :
         /\ DOMAIN loops[l] = DOMAIN gretl_loop_init
         /\ Range(loops[l].cmds) \subseteq Op
  <2>1. TAKE l \in Live
  <2>2. loops[l] \in LoopSet
    BY <1>1 DEF Forest
  <2>3. DOMAIN loops[l] = DOMAIN gretl_loop_init
    BY <2>2 DEF LoopSet, gretl_loop_init
  <2>4. loops[l].cmds \in Seq(Op)
    BY <2>2 DEF LoopSet
  <2>5. Range(loops[l].cmds) \subseteq Op
    BY <2>4, ElementOfSeq DEF Range
  <2> QED
    BY <2>3, <2>5
<1>4. \A l \in Live :
         /\ \A c \in Range(loops[l].children) : c \in Live /\ loops[c].parent = l
         /\ loops[l].parent # NULL =>
              /\ loops[l].parent \in Live
              /\ l \in Range(loops[loops[l].parent].children)
              /\ loops[l].level = loops[loops[l].parent].level + 1
  BY <1>1 DEF Forest, Linked, Kids
<1>5. \A l \in Live : \A j \in DOMAIN loops[l].cmds :
         Cardinality(ChildAt(l, j)) = IF loops[l].cmds[j] = "loop" THEN 1 ELSE 0
  <2>1. \A l, j : ChildAt(l, j) = KidsAt(loops, l, j)
    BY DEF ChildAt, KidsAt, Kids
  <2>2. TAKE l \in Live
  <2>3. TAKE j \in DOMAIN loops[l].cmds
  <2>4. CASE loops[l].cmds[j] = "loop"
    <3>1. PICK c : ChildAt(l, j) = {c}
      BY <1>1, <2>1, <2>4 DEF Lined
    <3> QED
      BY <2>4, <3>1, FS_Singleton
  <2>5. CASE loops[l].cmds[j] # "loop"
    <3>1. ChildAt(l, j) = {}
      BY <1>1, <2>1, <2>5 DEF Lined
    <3> QED
      BY <2>5, <3>1, FS_EmptySet
  <2> QED
    BY <2>4, <2>5
<1>6. /\ compile_level \in Nat /\ {loop_execute, loop_renaming, err} \subseteq BOOLEAN
      /\ err => acts # << >>
  BY <1>1 DEF Typed
<1> QED
  BY <1>1, <1>2, <1>3, <1>4, <1>5, <1>6 DEF TypeOK

\* The structures and what is executed are what they should be (monte_carlo.c):
\* loop_attach_child() ties both ends of every pointer, and the first line of a
\* loop inside finds one child.
THEOREM TypeCorrect == ASSUME Orderly PROVE Spec => []TypeOK
  BY Inductive, TypeFacts, PTL

\* Neither gretl_loop_exec() nor destroy_loop_stack() frees a structure that is
\* executed or stored, and none is lost.
THEOREM StructuresAreOwned == ASSUME Orderly PROVE Spec => []NoneLost
<1>1. IInv => NoneLost
  <2> SUFFICES ASSUME IInv PROVE NoneLost
    OBVIOUS
  <2> DEFINE used == {acts[i].loop : i \in Running} \cup ({currloop} \ {NULL})
  <2>1. /\ Live = DOMAIN loops /\ Running = LoopsOf(acts)
        /\ \A i \in LoopsOf(acts) : acts[i].loop \in DOMAIN loops
        /\ currloop # NULL => currloop \in DOMAIN loops
    BY StateFacts
  <2>2. used \subseteq Live
    BY <2>1
  <2>3. \A l \in Live : \E u \in used : Root(l) = Root(u)
    <3>1. \A l \in DOMAIN loops :
             \/ \E i \in LoopsOf(acts) : RootOf(loops, acts[i].loop) = RootOf(loops, l)
             \/ currloop # NULL /\ RootOf(loops, currloop) = RootOf(loops, l)
      BY DEF IInv, Owned, OwnedIn
    <3>2. \A l \in DOMAIN loops : \E u \in used : RootOf(loops, l) = RootOf(loops, u)
      BY <2>1, <3>1
    <3> HIDE DEF used
    <3> QED
      BY <2>1, <3>2, OwnRoot
  <2> HIDE DEF used
  <2> QED
    BY <2>2, <2>3 DEF NoneLost, used
<1> QED
  BY <1>1, Inductive, PTL

\* The static variables of monte_carlo.c describe the reader that is on top.
THEOREM StateIsOfReader == ASSUME Orderly PROVE Spec => []StateOfReader
<1>1. IInv => StateOfReader
  <2> SUFFICES ASSUME IInv PROVE StateOfReader
    OBVIOUS
  <2>1. Storage /\ compile_level \in Nat /\ loop_execute \in BOOLEAN
    BY DEF IInv, Typed
  <2>2. compile_level > 0 =>
          /\ acts # << >> /\ Top.kind # "loop"
          /\ currloop # NULL /\ compile_level = loops[currloop].level + 1
          /\ ~loop_execute
    BY <2>1 DEF Storage, Top
  <2>3. loop_execute => currloop # NULL /\ Top.kind \in {"script", "func"}
    BY <2>1 DEF Storage, Top
  <2>4. acts = << >> => currloop = NULL /\ compile_level = 0 /\ ~loop_execute
    <3>1. SUFFICES ASSUME acts = << >> PROVE currloop = NULL /\ compile_level = 0 /\ ~loop_execute
      OBVIOUS
    <3>2. /\ compile_level = 0 /\ ~loop_execute
          /\ currloop # NULL =>
               \E i \in LoopsOf(acts) : RootOf(loops, acts[i].loop) = RootOf(loops, currloop)
      BY <3>1, IdleFacts
    <3>3. LoopsOf(acts) = {}
      BY <3>1 DEF LoopsOf
    <3> QED
      BY <3>2, <3>3
  <2> QED
    BY <2>2, <2>3, <2>4 DEF StateOfReader
<1> QED
  BY <1>1, Inductive, PTL

\* gretl_looping() tells at each depth whether a loop is executed there, though
\* the end of every loop resets the entry of its depth.
THEOREM LoopingIsExact == ASSUME Orderly PROVE Spec => []LoopingExact
<1>1. IInv => LoopingExact
  BY DEF IInv, Marked, LoopingExact, DepthOf, DepthIn, FunsTo
<1> QED
  BY <1>1, Inductive, PTL

\* While a loop that renames series is executed they are looked up by name: so
\* long as it calls no function with loops, as the end of any loop turns the
\* flag off.
THEOREM RenamingIsKept ==
  ASSUME Orderly, "renaming" \notin Faults
  PROVE  Spec => []RenamingHolds
<1>1. Init => IInv /\ Quiet
  BY InitFacts
<1>2. (IInv /\ Quiet) /\ [Next]_vars => (IInv /\ Quiet)'
  BY NextStep
<1>3. IInv /\ Quiet => RenamingHolds
  BY DEF Quiet
<1> QED
  BY <1>1, <1>2, <1>3, PTL DEF Spec

----------------------------------------------------------------------------
(* Sequences, whatever their elements are.                                 *)

\* A sequence of something.
Row(s) == \E T : s \in Seq(T)

\* The length of a sequence is a number.
LEMMA RowLen ==
  ASSUME NEW s, Row(s)
  PROVE  Len(s) \in Nat /\ DOMAIN s = 1 .. Len(s) /\ (s # << >> <=> Len(s) > 0)
<1>1. PICK T : s \in Seq(T)
  BY DEF Row
<1>2. Len(s) \in Nat /\ DOMAIN s = 1 .. Len(s)
  BY <1>1, LenProperties
<1> QED
  BY <1>1, <1>2, EmptySeq

\* Two sequences are equal when they have the same elements.
LEMMA RowEqual ==
  ASSUME NEW s, Row(s), NEW t, Row(t), Len(s) = Len(t), \A i \in 1 .. Len(s) : s[i] = t[i]
  PROVE  s = t
<1>1. PICK S : s \in Seq(S)
  BY DEF Row
<1>2. PICK T : t \in Seq(T)
  BY DEF Row
<1>3. s \in Seq(S \cup T) /\ t \in Seq(S \cup T)
  BY <1>1, <1>2, SeqMonotonic
<1> QED
  BY <1>3, SeqEqual

\* A function on the numbers to n is a sequence.
LEMMA RowIs ==
  ASSUME NEW n \in Nat, NEW s, s = [i \in 1 .. n |-> s[i]]
  PROVE  Row(s) /\ Len(s) = n
<1> DEFINE T == {s[i] : i \in 1 .. n}
<1>1. \A i \in 1 .. n : s[i] \in T
  OBVIOUS
<1> HIDE DEF T
<1>2. s \in [1 .. n -> T]
  BY <1>1
<1>3. s \in Seq(T)
  BY <1>2, SeqDef
<1>4. Len(s) \in Nat /\ DOMAIN s = 1 .. Len(s)
  BY <1>3, LenProperties
<1>5. Len(s) = n
  BY <1>2, <1>4
<1> QED
  BY <1>3, <1>5 DEF Row

\* The elements before the last.
LEMMA RowFront ==
  ASSUME NEW s, Row(s), Len(s) > 0
  PROVE  /\ Row(Front(s)) /\ Len(Front(s)) = Len(s) - 1
         /\ \A i \in 1 .. Len(s) - 1 : Front(s)[i] = s[i]
<1>1. PICK T : s \in Seq(T)
  BY DEF Row
<1>2. Len(s) \in Nat /\ \A i \in 1 .. Len(s) - 1 : s[i] \in T
  BY <1>1, LenProperties
<1>3. /\ SubSeq(s, 1, Len(s) - 1) \in Seq(T)
      /\ Len(SubSeq(s, 1, Len(s) - 1)) = IF 1 <= Len(s) - 1 THEN Len(s) - 1 - 1 + 1 ELSE 0
      /\ \A i \in 1 .. Len(s) - 1 - 1 + 1 : SubSeq(s, 1, Len(s) - 1)[i] = s[1 + i - 1]
  BY <1>2, SubSeqProperties
<1>4. Len(Front(s)) = Len(s) - 1 /\ Front(s) \in Seq(T)
  <2> DEFINE q == SubSeq(s, 1, Len(s) - 1)
  <2>1. Front(s) = q
    BY DEF Front
  <2>2. q \in Seq(T) /\ Len(q) = IF 1 <= Len(s) - 1 THEN Len(s) - 1 - 1 + 1 ELSE 0
    BY <1>3
  <2> HIDE DEF q
  <2>3. Len(s) \in Nat /\ Len(s) >= 1
    BY <1>2
  <2>4. Len(q) = Len(s) - 1
    <3>1. \A n \in Nat : n >= 1 => (IF 1 <= n - 1 THEN n - 1 - 1 + 1 ELSE 0) = n - 1
      OBVIOUS
    <3> QED
      BY <2>2, <2>3, <3>1
  <2> QED
    BY <2>1, <2>2, <2>4
<1>5. \A i \in 1 .. Len(s) - 1 : Front(s)[i] = s[i]
  <2> TAKE i \in 1 .. Len(s) - 1
  <2>1. i \in 1 .. Len(s) - 1 - 1 + 1 /\ 1 + i - 1 = i
    BY <1>2
  <2>2. SubSeq(s, 1, Len(s) - 1)[i] = s[1 + i - 1]
    BY <1>3, <2>1
  <2> QED
    BY <2>1, <2>2 DEF Front
<1> QED
  BY <1>4, <1>5 DEF Row

\* One element more.
LEMMA RowAppend ==
  ASSUME NEW s, Row(s), NEW e
  PROVE  /\ Row(Append(s, e)) /\ Len(Append(s, e)) = Len(s) + 1
         /\ Append(s, e)[Len(s) + 1] = e /\ \A i \in 1 .. Len(s) : Append(s, e)[i] = s[i]
<1>1. PICK T : s \in Seq(T)
  BY DEF Row
<1>2. s \in Seq(T \cup {e}) /\ e \in T \cup {e}
  BY <1>1, SeqMonotonic
<1> QED
  BY <1>2, AppendProperties DEF Row

\* What Front and Last are of a sequence with one element more.
LEMMA FrontOfAppend ==
  ASSUME NEW s, Row(s), NEW e
  PROVE  Front(Append(s, e)) = s
<1>1. /\ Row(Append(s, e)) /\ Len(Append(s, e)) = Len(s) + 1 /\ Len(s) \in Nat
      /\ \A i \in 1 .. Len(s) : Append(s, e)[i] = s[i]
  BY RowAppend, RowLen
<1> DEFINE t == Append(s, e)
<1> HIDE DEF t
<1>2. Row(t) /\ Len(t) > 0 /\ Len(t) - 1 = Len(s)
  BY <1>1 DEF t
<1>3. /\ Row(Front(t)) /\ Len(Front(t)) = Len(s)
      /\ \A i \in 1 .. Len(s) : Front(t)[i] = t[i]
  BY <1>2, RowFront
<1>4. \A i \in 1 .. Len(s) : t[i] = s[i]
  BY <1>1 DEF t
<1>5. Front(t) = s
  BY <1>3, <1>4, RowEqual
<1> QED
  BY <1>5 DEF t

\* The last element put back.
LEMMA AppendOfFront ==
  ASSUME NEW s, Row(s), Len(s) > 0
  PROVE  Append(Front(s), s[Len(s)]) = s
<1>1. /\ Row(Front(s)) /\ Len(Front(s)) = Len(s) - 1 /\ Len(s) \in Nat
      /\ \A i \in 1 .. Len(s) - 1 : Front(s)[i] = s[i]
  BY RowFront, RowLen
<1> DEFINE t == Append(Front(s), s[Len(s)])
<1>2. /\ Row(t) /\ Len(t) = Len(Front(s)) + 1 /\ t[Len(Front(s)) + 1] = s[Len(s)]
      /\ \A i \in 1 .. Len(Front(s)) : t[i] = Front(s)[i]
  BY <1>1, RowAppend
<1> HIDE DEF t
<1>3. Len(t) = Len(s) /\ \A i \in 1 .. Len(s) : t[i] = s[i]
  BY <1>1, <1>2
<1>4. t = s
  BY <1>2, <1>3, RowEqual
<1> QED
  BY <1>4 DEF t

----------------------------------------------------------------------------
(* The values of loops.                                                    *)

\* A line of l, when V has the values of the loops inside.
LineOf(S, V, l, j) ==
    IF S[l].cmds[j] = "loop"
    THEN [op |-> "loop", body |-> V[CHOOSE c \in KidsAt(S, l, j) : TRUE]]
    ELSE [op |-> S[l].cmds[j], body |-> << >>]

\* The lines of l.
LinesOf(S, V, l) == [j \in DOMAIN S[l].cmds |-> LineOf(S, V, l, j)]

\* The function that Value defines by recursion, of any structures.
ValueFcn(S) == CHOOSE V : V = [l \in DOMAIN S |-> LinesOf(S, V, l)]

\* What Value is of those structures.
ValueOf(S, l) == ValueFcn(S)[l]

\* The loops around l, as OpenBodies defines them by recursion.
BeforeFcn(S) ==
    CHOOSE F : F = [l \in DOMAIN S |->
                      IF S[l].parent = NULL THEN << >>
                      ELSE Append(F[S[l].parent], Front(ValueOf(S, S[l].parent)))]

\* What the loops around l have before the first line of the next.
BeforeOf(S, l) == BeforeFcn(S)[l]

\* Value is that function of the variable, before and after a step.
LEMMA OwnValue == \A l : Value(l) = ValueOf(loops, l) /\ Value(l)' = ValueOf(loops', l)
  BY DEF Value, ValueOf, ValueFcn, LinesOf, LineOf, KidsAt, Kids, ChildAt, Live

\* The same of the loops around.
LEMMA OwnOpen ==
  /\ OpenBodies = Append(BeforeOf(loops, currloop), ValueOf(loops, currloop))
  /\ OpenBodies' = Append(BeforeOf(loops', currloop'), ValueOf(loops', currloop'))
  BY DEF OpenBodies, BeforeOf, BeforeFcn, Value, ValueOf, ValueFcn, LinesOf, LineOf, KidsAt, Kids, ChildAt, Live

\* The recursive definition of values has a solution: level by level, from the
\* innermost loops.
LEMMA ValueExists ==
  ASSUME NEW S, Forest(S), Lined(S)
  PROVE  \E V : V = [l \in DOMAIN S |-> LinesOf(S, V, l)]
<1>1. PICK b \in Nat : \A l \in DOMAIN S : S[l].level <= b
  BY DEF Forest, Linked
<1> DEFINE Deep(k) == {l \in DOMAIN S : b < S[l].level + k}
           Solved(k) == \E V : V = [l \in Deep(k) |-> LinesOf(S, V, l)]
           T == {k \in Nat : ~Solved(k)}
<1>2. \A l \in DOMAIN S : S[l].level \in Nat
  BY ParentFacts
<1>3. T = {}
  <2> SUFFICES ASSUME T # {} PROVE FALSE
    OBVIOUS
  <2>1. PICK k \in T : \A y \in T : k <= y
    <3>1. T \subseteq Nat
      OBVIOUS
    <3> HIDE DEF T
    <3> QED
      BY <3>1, Least
  <2>2. CASE k = 0
    <3>1. Deep(k) = {}
      BY <1>1, <1>2, <2>2
    <3> DEFINE V == [l \in Deep(k) |-> 0]
    <3>2. V = [l \in Deep(k) |-> LinesOf(S, V, l)]
      BY <3>1
    <3> QED
      BY <2>1, <3>2
  <2>3. CASE k # 0
    <3>1. k - 1 \in Nat /\ k - 1 \notin T
      <4>1. k \in Nat
        OBVIOUS
      <4>2. k - 1 \in Nat /\ ~(k <= k - 1)
        BY <2>3, <4>1
      <4> HIDE DEF T
      <4> QED
        BY <2>1, <4>2
    <3>2. PICK V : V = [l \in Deep(k - 1) |-> LinesOf(S, V, l)]
      BY <3>1
    <3> DEFINE W == [l \in Deep(k) |-> LinesOf(S, V, l)]
    <3>3. Deep(k - 1) \subseteq Deep(k)
      BY <1>1, <1>2, <2>1, <3>1
    <3>4. \A l \in Deep(k - 1) : W[l] = V[l]
      BY <3>2, <3>3
    <3>5. ASSUME NEW l \in Deep(k), NEW j \in DOMAIN S[l].cmds
          PROVE  LineOf(S, W, l, j) = LineOf(S, V, l, j)
      <4>1. CASE S[l].cmds[j] # "loop"
        BY <4>1 DEF LineOf
      <4>2. CASE S[l].cmds[j] = "loop"
        <5>1. PICK c \in Kids(S, l) : KidsAt(S, l, j) = {c}
          BY <4>2 DEF Lined
        <5>2. (CHOOSE d \in KidsAt(S, l, j) : TRUE) = c
          BY <5>1
        <5>3. c \in DOMAIN S /\ S[c].level = S[l].level + 1
          BY ParentFacts
        <5>4. c \in Deep(k - 1)
          BY <1>1, <1>2, <2>1, <3>1, <5>3
        <5>5. W[c] = V[c]
          BY <3>4, <5>4
        <5> HIDE DEF W, Deep
        <5> QED
          BY <5>2, <5>5 DEF LineOf
      <4> QED
        BY <4>1, <4>2
    <3>6. \A l \in Deep(k) : LinesOf(S, W, l) = LinesOf(S, V, l)
      <4> HIDE DEF W, Deep
      <4> QED
        BY <3>5 DEF LinesOf
    <3>7. W = [l \in Deep(k) |-> LinesOf(S, W, l)]
      <4>1. W = [l \in Deep(k) |-> LinesOf(S, V, l)]
        OBVIOUS
      <4> HIDE DEF W, Deep
      <4> QED
        BY <3>6, <4>1
    <3> QED
      BY <2>1, <3>7
  <2> QED
    BY <2>2, <2>3
<1>4. Solved(b + 1)
  <2>1. b + 1 \in Nat
    OBVIOUS
  <2> HIDE DEF Solved
  <2> QED
    BY <1>3, <2>1
<1>5. Deep(b + 1) = DOMAIN S
  BY <1>2
<1> QED
  BY <1>4, <1>5

\* v has the lines of l, with the values of the loops inside.
IsBody(S, l, v) ==
    /\ Row(v) /\ Len(v) = Len(S[l].cmds)
    /\ \A j \in 1 .. Len(S[l].cmds) :
         /\ S[l].cmds[j] # "loop" => v[j] = [op |-> S[l].cmds[j], body |-> << >>]
         /\ \A c \in KidsAt(S, l, j) :
              S[l].cmds[j] = "loop" => v[j] = [op |-> "loop", body |-> ValueOf(S, c)]

\* What the value of a loop is.
LEMMA ValueFacts ==
  ASSUME NEW S, Forest(S), Lined(S), NEW l \in DOMAIN S
  PROVE  IsBody(S, l, ValueOf(S, l))
<1> DEFINE V == ValueFcn(S)
<1>1. V = [k \in DOMAIN S |-> LinesOf(S, V, k)]
  BY ValueExists DEF ValueFcn
<1>2. \A k : ValueOf(S, k) = V[k]
  BY DEF ValueOf
<1> HIDE DEF V
<1>3. ValueOf(S, l) = LinesOf(S, V, l)
  BY <1>1, <1>2
<1>4. S[l].cmds \in Seq(Op)
  BY DEF Forest, LoopSet
<1>5. DOMAIN S[l].cmds = 1 .. Len(S[l].cmds) /\ Len(S[l].cmds) \in Nat
  BY <1>4, LenProperties
<1>6. ValueOf(S, l) = [j \in 1 .. Len(S[l].cmds) |-> LineOf(S, V, l, j)]
  BY <1>3, <1>5 DEF LinesOf
<1>7. Row(ValueOf(S, l)) /\ Len(ValueOf(S, l)) = Len(S[l].cmds)
  <2>1. ValueOf(S, l) = [j \in 1 .. Len(S[l].cmds) |-> ValueOf(S, l)[j]]
    BY <1>6
  <2> QED
    BY <1>5, <2>1, RowIs
<1>8. ASSUME NEW j \in 1 .. Len(S[l].cmds)
      PROVE  /\ S[l].cmds[j] # "loop" =>
                  ValueOf(S, l)[j] = [op |-> S[l].cmds[j], body |-> << >>]
             /\ \A c \in KidsAt(S, l, j) : S[l].cmds[j] = "loop" =>
                  ValueOf(S, l)[j] = [op |-> "loop", body |-> ValueOf(S, c)]
  <2>1. ValueOf(S, l)[j] = LineOf(S, V, l, j)
    BY <1>6
  <2>2. CASE S[l].cmds[j] # "loop"
    BY <2>1, <2>2 DEF LineOf
  <2>3. CASE S[l].cmds[j] = "loop"
    <3>1. PICK c : KidsAt(S, l, j) = {c}
      BY <1>5, <2>3 DEF Lined
    <3>2. (CHOOSE d \in KidsAt(S, l, j) : TRUE) = c
      BY <3>1
    <3>3. ValueOf(S, l)[j] = [op |-> "loop", body |-> V[c]]
      BY <2>1, <2>3, <3>2 DEF LineOf
    <3> QED
      BY <1>2, <2>3, <3>1, <3>3
  <2> QED
    BY <2>2, <2>3
<1> QED
  BY <1>7, <1>8 DEF IsBody

\* Values are the same where the lines and the loops inside are.
LEMMA ValueKept ==
  ASSUME NEW S, Forest(S), Lined(S), NEW U, Forest(U), Lined(U),
         NEW X, X \subseteq DOMAIN S, X \subseteq DOMAIN U, Closed(S, X),
         \A l \in X : /\ U[l].cmds = S[l].cmds
                      /\ \A j : KidsAt(U, l, j) = KidsAt(S, l, j)
  PROVE  \A l \in X : ValueOf(U, l) = ValueOf(S, l)
<1> DEFINE T == {l \in X : ValueOf(U, l) # ValueOf(S, l)}
<1> SUFFICES ASSUME T # {} PROVE FALSE
  OBVIOUS
<1>1. PICK x \in T : \A y \in T : S[y].level <= S[x].level
  <2> HIDE DEF T
  <2>1. T \subseteq DOMAIN S
    BY DEF T
  <2> QED
    BY <2>1, Innermost
<1>2. x \in X /\ x \in DOMAIN S /\ x \in DOMAIN U
  OBVIOUS
<1>3. \A c \in Kids(S, x) : c \in X /\ c \notin T
  <2> SUFFICES ASSUME NEW c \in Kids(S, x) PROVE c \in X /\ c \notin T
    OBVIOUS
  <2>1. S[c].level = S[x].level + 1 /\ S[x].level \in Nat
    BY <1>2, ParentFacts
  <2>2. ~(S[c].level <= S[x].level)
    BY <2>1
  <2>3. c \in X
    BY <1>2 DEF Closed
  <2> QED
    BY <1>1, <2>2, <2>3
<1>4. \A c \in Kids(S, x) : ValueOf(U, c) = ValueOf(S, c)
  BY <1>3
<1>5. IsBody(S, x, ValueOf(S, x)) /\ IsBody(U, x, ValueOf(U, x))
  BY <1>2, ValueFacts
<1>6. U[x].cmds = S[x].cmds /\ \A j : KidsAt(U, x, j) = KidsAt(S, x, j)
  BY <1>2
<1>7. ASSUME NEW j \in 1 .. Len(S[x].cmds) PROVE ValueOf(U, x)[j] = ValueOf(S, x)[j]
  <2>1. CASE S[x].cmds[j] # "loop"
    BY <1>5, <1>6, <2>1 DEF IsBody
  <2>2. CASE S[x].cmds[j] = "loop"
    <3>1. S[x].cmds \in Seq(Op)
      BY <1>2 DEF Forest, LoopSet
    <3>2. j \in DOMAIN S[x].cmds
      BY <3>1, LenProperties
    <3>3. PICK c \in Kids(S, x) : KidsAt(S, x, j) = {c}
      BY <1>2, <2>2, <3>2 DEF Lined
    <3>4. c \in KidsAt(S, x, j) /\ c \in KidsAt(U, x, j)
      BY <1>6, <3>3
    <3>5. ValueOf(S, x)[j] = [op |-> "loop", body |-> ValueOf(S, c)]
      BY <1>5, <2>2, <3>4 DEF IsBody
    <3>6. ValueOf(U, x)[j] = [op |-> "loop", body |-> ValueOf(U, c)]
      BY <1>5, <1>6, <2>2, <3>4 DEF IsBody
    <3> QED
      BY <1>4, <3>3, <3>5, <3>6
  <2> QED
    BY <2>1, <2>2
<1> HIDE DEF T
<1>8. /\ Row(ValueOf(S, x)) /\ Row(ValueOf(U, x))
      /\ Len(ValueOf(S, x)) = Len(S[x].cmds) /\ Len(ValueOf(U, x)) = Len(S[x].cmds)
  BY <1>5, <1>6 DEF IsBody
<1>9. ValueOf(U, x) = ValueOf(S, x)
  BY <1>7, <1>8, RowEqual
<1> QED
  BY <1>9 DEF T

\* The recursive definition of the loops around has a solution: level by
\* level, from the outermost loops.
LEMMA BeforeExists ==
  ASSUME NEW S, Forest(S)
  PROVE  \E F : F = [l \in DOMAIN S |->
                       IF S[l].parent = NULL THEN << >>
                       ELSE Append(F[S[l].parent], Front(ValueOf(S, S[l].parent)))]
<1> DEFINE E(F, l) == IF S[l].parent = NULL THEN << >>
                      ELSE Append(F[S[l].parent], Front(ValueOf(S, S[l].parent)))
           Shallow(k) == {l \in DOMAIN S : S[l].level < k}
           Solved(k) == \E F : F = [l \in Shallow(k) |-> E(F, l)]
           T == {k \in Nat : ~Solved(k)}
<1>1. \A l \in DOMAIN S : S[l].level \in Nat
  BY ParentFacts
<1>2. T = {}
  <2> SUFFICES ASSUME T # {} PROVE FALSE
    OBVIOUS
  <2>1. PICK k \in T : \A y \in T : k <= y
    <3>1. T \subseteq Nat
      OBVIOUS
    <3> HIDE DEF T
    <3> QED
      BY <3>1, Least
  <2>2. CASE k = 0
    <3>1. Shallow(k) = {}
      BY <1>1, <2>2
    <3> DEFINE F == [l \in Shallow(k) |-> 0]
    <3>2. F = [l \in Shallow(k) |-> E(F, l)]
      BY <3>1
    <3> QED
      BY <2>1, <3>2
  <2>3. CASE k # 0
    <3>1. k - 1 \in Nat /\ k - 1 \notin T
      <4>1. k \in Nat
        OBVIOUS
      <4>2. k - 1 \in Nat /\ ~(k <= k - 1)
        BY <2>3, <4>1
      <4> HIDE DEF T
      <4> QED
        BY <2>1, <4>2
    <3>2. PICK F : F = [l \in Shallow(k - 1) |-> E(F, l)]
      BY <3>1
    <3> DEFINE W == [l \in Shallow(k) |-> E(F, l)]
    <3>3. Shallow(k - 1) \subseteq Shallow(k)
      BY <1>1, <2>1, <3>1
    <3>4. \A l \in Shallow(k - 1) : W[l] = F[l]
      BY <3>2, <3>3
    <3>5. ASSUME NEW l \in Shallow(k) PROVE E(W, l) = E(F, l)
      <4>1. CASE S[l].parent = NULL
        BY <4>1
      <4>2. CASE S[l].parent # NULL
        <5>1. /\ S[l].parent \in DOMAIN S /\ S[l].level = S[S[l].parent].level + 1
              /\ S[l].level \in Nat /\ S[S[l].parent].level \in Nat
          BY <4>2, ParentFacts
        <5>2. S[l].parent \in Shallow(k - 1)
          BY <2>1, <3>1, <5>1
        <5>3. W[S[l].parent] = F[S[l].parent]
          BY <3>4, <5>2
        <5> HIDE DEF W, Shallow
        <5> QED
          BY <5>3
      <4> QED
        BY <4>1, <4>2
    <3>6. W = [l \in Shallow(k) |-> E(W, l)]
      <4>1. W = [l \in Shallow(k) |-> E(F, l)]
        OBVIOUS
      <4> HIDE DEF W, Shallow, E
      <4> QED
        BY <3>5, <4>1
    <3> QED
      BY <2>1, <3>6
  <2> QED
    BY <2>2, <2>3
<1>3. PICK b \in Nat : \A l \in DOMAIN S : S[l].level <= b
  BY DEF Forest, Linked
<1>4. Solved(b + 1)
  <2>1. b + 1 \in Nat
    OBVIOUS
  <2> HIDE DEF Solved
  <2> QED
    BY <1>2, <2>1
<1>5. Shallow(b + 1) = DOMAIN S
  <2>1. \A l \in DOMAIN S : S[l].level \in Nat /\ S[l].level <= b
    BY <1>1, <1>3
  <2>2. \A l \in DOMAIN S : S[l].level < b + 1
    BY <2>1
  <2> QED
    BY <2>2
<1> QED
  BY <1>4, <1>5

\* One step of that recursion.
LEMMA BeforeStep ==
  ASSUME NEW S, Forest(S), NEW l \in DOMAIN S
  PROVE  BeforeOf(S, l) = IF S[l].parent = NULL THEN << >>
                          ELSE Append(BeforeOf(S, S[l].parent), Front(ValueOf(S, S[l].parent)))
<1> DEFINE F == BeforeFcn(S)
<1>1. F = [k \in DOMAIN S |->
             IF S[k].parent = NULL THEN << >>
             ELSE Append(F[S[k].parent], Front(ValueOf(S, S[k].parent)))]
  BY BeforeExists DEF BeforeFcn
<1>2. \A k : BeforeOf(S, k) = F[k]
  BY DEF BeforeOf
<1> HIDE DEF F
<1> QED
  BY <1>1, <1>2

\* The loops around a loop are a sequence.
LEMMA BeforeIsRow ==
  ASSUME NEW S, Forest(S), NEW l \in DOMAIN S
  PROVE  Row(BeforeOf(S, l))
<1> DEFINE T == {k \in DOMAIN S : ~Row(BeforeOf(S, k))}
<1> SUFFICES ASSUME T # {} PROVE FALSE
  OBVIOUS
<1>1. PICK x \in T : \A y \in T : S[x].level <= S[y].level
  <2> HIDE DEF T
  <2>1. T \subseteq DOMAIN S
    BY DEF T
  <2> QED
    BY <2>1, Outermost
<1>2. S[x].parent # NULL
  <2>1. Row(<< >>)
    BY EmptySeq DEF Row
  <2> QED
    BY <2>1, BeforeStep
<1>3. /\ S[x].parent \in DOMAIN S /\ S[x].level = S[S[x].parent].level + 1
      /\ S[S[x].parent].level \in Nat
  BY <1>2, ParentFacts
<1>4. S[x].parent \notin T
  BY <1>1, <1>3
<1>5. Row(BeforeOf(S, S[x].parent))
  BY <1>3, <1>4
<1>6. BeforeOf(S, x) = Append(BeforeOf(S, S[x].parent), Front(ValueOf(S, S[x].parent)))
  BY <1>2, BeforeStep
<1>7. Row(BeforeOf(S, x))
  BY <1>5, <1>6, RowAppend
<1> QED
  BY <1>7

\* They are the same where they have the same lines, but for the last.
LEMMA BeforeKept ==
  ASSUME NEW S, Forest(S), NEW U, Forest(U),
         NEW P, P \subseteq DOMAIN S, P \subseteq DOMAIN U,
         \A m \in P : /\ U[m].parent = S[m].parent
                      /\ S[m].parent # NULL =>
                           /\ S[m].parent \in P
                           /\ Front(ValueOf(U, S[m].parent)) = Front(ValueOf(S, S[m].parent))
  PROVE  \A m \in P : BeforeOf(U, m) = BeforeOf(S, m)
<1> DEFINE T == {m \in P : BeforeOf(U, m) # BeforeOf(S, m)}
<1> SUFFICES ASSUME T # {} PROVE FALSE
  OBVIOUS
<1>1. PICK x \in T : \A y \in T : S[x].level <= S[y].level
  <2> HIDE DEF T
  <2>1. T \subseteq DOMAIN S
    BY DEF T
  <2> QED
    BY <2>1, Outermost
<1>2. x \in P /\ x \in DOMAIN S /\ x \in DOMAIN U /\ U[x].parent = S[x].parent
  OBVIOUS
<1>3. S[x].parent # NULL
  BY <1>2, BeforeStep
<1>4. /\ S[x].parent \in P /\ S[x].level = S[S[x].parent].level + 1
      /\ S[S[x].parent].level \in Nat
      /\ Front(ValueOf(U, S[x].parent)) = Front(ValueOf(S, S[x].parent))
  BY <1>2, <1>3, ParentFacts
<1>5. S[x].parent \notin T
  BY <1>1, <1>4
<1>6. BeforeOf(U, S[x].parent) = BeforeOf(S, S[x].parent)
  BY <1>4, <1>5
<1>7. BeforeOf(S, x) = Append(BeforeOf(S, S[x].parent), Front(ValueOf(S, S[x].parent)))
  BY <1>2, <1>3, BeforeStep
<1>8. BeforeOf(U, x) = Append(BeforeOf(U, S[x].parent), Front(ValueOf(U, S[x].parent)))
  BY <1>2, <1>3, BeforeStep
<1>9. BeforeOf(U, x) = BeforeOf(S, x)
  BY <1>4, <1>6, <1>7, <1>8
<1> QED
  BY <1>9

\* What is under a loop is in the same tree, and deeper.
LEMMA UnderDeeper ==
  ASSUME NEW S, Forest(S), NEW l \in DOMAIN S, NEW y \in Under(S, l)
  PROVE  /\ S[l].level <= S[y].level /\ RootOf(S, y) = RootOf(S, l)
<1> DEFINE X == {x \in DOMAIN S : S[l].level <= S[x].level /\ RootOf(S, x) = RootOf(S, l)}
<1>1. X \in SUBSET DOMAIN S
  OBVIOUS
<1>2. l \in X
  BY ParentFacts
<1>3. Closed(S, X)
  <2> SUFFICES ASSUME NEW x \in X, NEW c \in Kids(S, x) PROVE c \in X
    BY DEF Closed
  <2>1. /\ c \in DOMAIN S /\ S[c].parent = x /\ S[c].parent # NULL
        /\ S[c].level = S[x].level + 1 /\ S[x].level \in Nat /\ S[l].level \in Nat
    BY ParentFacts
  <2>2. RootOf(S, c) = RootOf(S, x)
    BY <2>1, RootFacts
  <2>3. S[l].level <= S[c].level
    BY <2>1
  <2> QED
    BY <2>1, <2>2, <2>3
<1> HIDE DEF X
<1>4. y \in X
  BY <1>1, <1>2, <1>3, UnderFacts
<1> QED
  BY <1>4 DEF X

\* The loop c, and those around it, are the last in what contains them.
AtLast(S, c) ==
    \A m \in DOMAIN S : (c \in Under(S, m) /\ S[m].parent # NULL) =>
        S[m].parent_line = Len(S[S[m].parent].cmds)

\* U is S but for what p contains.
Edited(S, U, p) ==
    /\ DOMAIN S \subseteq DOMAIN U
    /\ \A l \in DOMAIN S : l # p => U[l] = S[l]
    /\ U[p].parent = S[p].parent /\ U[p].parent_line = S[p].parent_line

\* The loops that do not contain p are not changed by that.
LEMMA EditedValues ==
  ASSUME NEW S, Forest(S), Lined(S), NEW U, Forest(U), Lined(U), NEW p \in DOMAIN S,
         Edited(S, U, p)
  PROVE  \A l \in DOMAIN S : p \notin Under(S, l) => ValueOf(U, l) = ValueOf(S, l)
<1> DEFINE X == {l \in DOMAIN S : p \notin Under(S, l)}
<1>1. Closed(S, X)
  <2> SUFFICES ASSUME NEW x \in X, NEW c \in Kids(S, x) PROVE c \in X
    BY DEF Closed
  <2>1. c \in DOMAIN S
    BY ParentFacts
  <2>2. Under(S, c) \subseteq Under(S, x)
    BY UnderChildren
  <2> QED
    BY <2>1, <2>2
<1>2. \A l \in X : l # p /\ U[l] = S[l]
  BY UnderFacts DEF Edited
<1>3. \A c \in DOMAIN S : U[c].parent_line = S[c].parent_line
  BY DEF Edited
<1>4. ASSUME NEW l \in X, NEW j PROVE KidsAt(U, l, j) = KidsAt(S, l, j)
  <2>1. Kids(U, l) = Kids(S, l)
    BY <1>2 DEF Kids
  <2>2. \A c \in Kids(S, l) : c \in DOMAIN S
    BY ParentFacts
  <2> HIDE DEF X
  <2> QED
    BY <1>3, <2>1, <2>2 DEF KidsAt
<1>5. X \subseteq DOMAIN S /\ X \subseteq DOMAIN U
  BY DEF Edited
<1> HIDE DEF X
<1>6. \A l \in X : /\ U[l].cmds = S[l].cmds
                   /\ \A j : KidsAt(U, l, j) = KidsAt(S, l, j)
  BY <1>2, <1>4
<1>7. \A l \in X : ValueOf(U, l) = ValueOf(S, l)
  BY <1>1, <1>5, <1>6, ValueKept
<1> QED
  BY <1>7 DEF X

\* Nor are the loops inside p.
LEMMA EditedInside ==
  ASSUME NEW S, Forest(S), Lined(S), NEW U, Forest(U), Lined(U), NEW p \in DOMAIN S,
         Edited(S, U, p), NEW c \in Kids(S, p)
  PROVE  ValueOf(U, c) = ValueOf(S, c)
<1>1. c \in DOMAIN S /\ S[c].level = S[p].level + 1 /\ S[p].level \in Nat
  BY ParentFacts
<1>2. ASSUME p \in Under(S, c) PROVE FALSE
  <2>1. S[c].level <= S[p].level
    BY <1>1, <1>2, UnderDeeper
  <2> QED
    BY <1>1, <2>1
<1> QED
  BY <1>1, <1>2, EditedValues

\* The loops around p have the same lines before it, if it is at the last.
LEMMA EditedBefore ==
  ASSUME NEW S, Forest(S), Lined(S), NEW U, Forest(U), Lined(U), NEW p \in DOMAIN S,
         Edited(S, U, p), AtLast(S, p)
  PROVE  BeforeOf(U, p) = BeforeOf(S, p)
<1> DEFINE P == {m \in DOMAIN S : p \in Under(S, m)}
<1>1. ASSUME NEW m \in P, S[m].parent # NULL
      PROVE  /\ S[m].parent \in P
             /\ Front(ValueOf(U, S[m].parent)) = Front(ValueOf(S, S[m].parent))
  <2> DEFINE q == S[m].parent
  <2>1. /\ q \in DOMAIN S /\ m \in Kids(S, q) /\ S[m].level = S[q].level + 1
        /\ S[q].level \in Nat /\ S[m].parent_line = Len(S[q].cmds)
    BY <1>1, ParentFacts DEF AtLast
  <2>2. p \in Under(S, q)
    BY <2>1, UnderChildren
  <2>3. q # p
    <3>1. S[m].level <= S[p].level
      BY UnderDeeper
    <3> QED
      BY <2>1, <3>1
  <2>4. U[q] = S[q] /\ q \in DOMAIN U
    BY <2>1, <2>3 DEF Edited
  <2> HIDE DEF q
  <2>5. IsBody(S, q, ValueOf(S, q)) /\ IsBody(U, q, ValueOf(U, q))
    BY <2>1, <2>4, ValueFacts
  <2>6. S[q].cmds \in Seq(Op)
    BY <2>1 DEF Forest, LoopSet
  <2>7. DOMAIN S[q].cmds = 1 .. Len(S[q].cmds) /\ Len(S[q].cmds) \in Nat
    BY <2>6, LenProperties
  <2>8. S[m].parent_line \in DOMAIN S[q].cmds
    BY <2>1 DEF Lined
  <2>9. ASSUME NEW j \in 1 .. Len(S[q].cmds) - 1
        PROVE  ValueOf(U, q)[j] = ValueOf(S, q)[j]
    <3>1. j \in 1 .. Len(S[q].cmds) /\ j # Len(S[q].cmds)
      BY <2>7
    <3>2. CASE S[q].cmds[j] # "loop"
      BY <2>4, <2>5, <3>1, <3>2 DEF IsBody
    <3>3. CASE S[q].cmds[j] = "loop"
      <4>1. PICK c \in Kids(S, q) : KidsAt(S, q, j) = {c}
        BY <2>1, <2>7, <3>1, <3>3 DEF Lined
      <4>2. c \in DOMAIN S /\ S[c].parent = q /\ S[c].parent # NULL /\ S[c].parent_line = j
        BY <2>1, <4>1, ParentFacts DEF KidsAt
      <4>3. p \notin Under(S, c)
        BY <3>1, <4>2 DEF AtLast
      <4>4. ValueOf(U, c) = ValueOf(S, c)
        BY <4>2, <4>3, EditedValues
      <4>5. c \in KidsAt(S, q, j) /\ c \in KidsAt(U, q, j)
        BY <2>4, <4>1, <4>2 DEF KidsAt, Kids, Edited
      <4>6. ValueOf(S, q)[j] = [op |-> "loop", body |-> ValueOf(S, c)]
        BY <2>5, <3>1, <3>3, <4>5 DEF IsBody
      <4>7. ValueOf(U, q)[j] = [op |-> "loop", body |-> ValueOf(U, c)]
        BY <2>4, <2>5, <3>1, <3>3, <4>5 DEF IsBody
      <4> QED
        BY <4>4, <4>6, <4>7
    <3> QED
      BY <3>2, <3>3
  <2>10. /\ Row(ValueOf(S, q)) /\ Row(ValueOf(U, q))
         /\ Len(ValueOf(S, q)) = Len(S[q].cmds) /\ Len(ValueOf(U, q)) = Len(S[q].cmds)
    BY <2>4, <2>5 DEF IsBody
  <2>11. Len(S[q].cmds) > 0
    BY <2>7, <2>8
  <2>12. /\ Row(Front(ValueOf(S, q))) /\ Row(Front(ValueOf(U, q)))
         /\ Len(Front(ValueOf(S, q))) = Len(S[q].cmds) - 1
         /\ Len(Front(ValueOf(U, q))) = Len(S[q].cmds) - 1
         /\ \A j \in 1 .. Len(S[q].cmds) - 1 : /\ Front(ValueOf(S, q))[j] = ValueOf(S, q)[j]
                                               /\ Front(ValueOf(U, q))[j] = ValueOf(U, q)[j]
    BY <2>10, <2>11, RowFront
  <2>13. Front(ValueOf(U, q)) = Front(ValueOf(S, q))
    BY <2>9, <2>12, RowEqual
  <2> QED
    BY <2>1, <2>2, <2>13 DEF q
<1>2. \A m \in P : U[m].parent = S[m].parent
  BY DEF Edited
<1>3. P \subseteq DOMAIN S /\ P \subseteq DOMAIN U
  BY DEF Edited
<1>4. p \in P
  BY UnderFacts
<1> HIDE DEF P
<1>5. \A m \in P : BeforeOf(U, m) = BeforeOf(S, m)
  BY <1>1, <1>2, <1>3, BeforeKept
<1> QED
  BY <1>4, <1>5

\* p has one line more: its value has that.
LEMMA EditedBody ==
  ASSUME NEW S, Forest(S), Lined(S), NEW U, Forest(U), Lined(U), NEW p \in DOMAIN S,
         Edited(S, U, p), NEW op \in Op, U[p].cmds = Append(S[p].cmds, op),
         \A j \in DOMAIN S[p].cmds : KidsAt(U, p, j) = KidsAt(S, p, j)
  PROVE  /\ Row(ValueOf(S, p)) /\ Row(ValueOf(U, p)) /\ Len(ValueOf(U, p)) > 0
         /\ Front(ValueOf(U, p)) = ValueOf(S, p)
         /\ op # "loop" =>
              ValueOf(U, p) = Append(ValueOf(S, p), [op |-> op, body |-> << >>])
<1>1. p \in DOMAIN U /\ S[p].cmds \in Seq(Op)
  BY DEF Edited, Forest, LoopSet
<1> DEFINE v == ValueOf(S, p)
           w == ValueOf(U, p)
           n == Len(S[p].cmds)
<1>2. /\ n \in Nat /\ DOMAIN S[p].cmds = 1 .. n /\ Len(U[p].cmds) = n + 1
      /\ U[p].cmds[n + 1] = op /\ \A j \in 1 .. n : U[p].cmds[j] = S[p].cmds[j]
  BY <1>1, LenProperties, AppendProperties
<1>3. IsBody(S, p, v) /\ IsBody(U, p, w)
  BY <1>1, ValueFacts
<1>4. Row(v) /\ Row(w) /\ Len(v) = n /\ Len(w) = n + 1
  BY <1>2, <1>3 DEF IsBody
<1>5. ASSUME NEW j \in 1 .. n PROVE w[j] = v[j]
  <2>1. j \in 1 .. n + 1 /\ U[p].cmds[j] = S[p].cmds[j]
    BY <1>2
  <2>2. CASE S[p].cmds[j] # "loop"
    BY <1>2, <1>3, <2>1, <2>2 DEF IsBody
  <2>3. CASE S[p].cmds[j] = "loop"
    <3>1. PICK c \in Kids(S, p) : KidsAt(S, p, j) = {c}
      BY <1>2, <2>3 DEF Lined
    <3>2. c \in KidsAt(S, p, j) /\ c \in KidsAt(U, p, j)
      BY <1>2, <3>1
    <3>3. v[j] = [op |-> "loop", body |-> ValueOf(S, c)]
      BY <1>3, <2>3, <3>2 DEF IsBody
    <3>4. w[j] = [op |-> "loop", body |-> ValueOf(U, c)]
      BY <1>2, <1>3, <2>1, <2>3, <3>2 DEF IsBody
    <3> QED
      BY <3>1, <3>3, <3>4, EditedInside
  <2> QED
    BY <2>2, <2>3
<1>6. op # "loop" => w[n + 1] = [op |-> op, body |-> << >>]
  <2>1. n + 1 \in 1 .. Len(U[p].cmds)
    BY <1>2
  <2> QED
    BY <1>2, <1>3, <2>1 DEF IsBody
<1> HIDE DEF v, w, n
<1>7. Front(w) = v
  <2>1. /\ Row(Front(w)) /\ Len(Front(w)) = n /\ \A j \in 1 .. n : Front(w)[j] = w[j]
    <3>1. Len(w) > 0 /\ Len(w) - 1 = n
      BY <1>2, <1>4
    <3> QED
      BY <1>4, <3>1, RowFront
  <2> QED
    BY <1>4, <1>5, <2>1, RowEqual
<1>8. Len(w) > 0 /\ Append(v, w[n + 1]) = w
  <2>1. Len(w) > 0
    BY <1>2, <1>4
  <2> QED
    BY <1>4, <1>7, <2>1, AppendOfFront
<1> QED
  BY <1>4, <1>6, <1>7, <1>8 DEF v, w

----------------------------------------------------------------------------
(* The loop being stored, and those around it, are the last lines.         *)

\* A loop does not contain the loop around it.
LEMMA NotAround ==
  ASSUME NEW S, Forest(S), NEW m \in DOMAIN S, S[m].parent # NULL
  PROVE  S[m].parent \notin Under(S, m)
<1>1. /\ S[m].parent \in DOMAIN S /\ S[m].level = S[S[m].parent].level + 1
      /\ S[S[m].parent].level \in Nat
  BY ParentFacts
<1>2. ASSUME S[m].parent \in Under(S, m) PROVE FALSE
  <2>1. S[m].level <= S[S[m].parent].level
    BY <1>2, UnderDeeper
  <2> QED
    BY <1>1, <2>1
<1> QED
  BY <1>2

\* What StoreLine does to the structures.
LEMMA StoreLineFacts ==
  ASSUME IInv, StoreLine
  PROVE  \E op \in {"stmt", "rename"} :
           /\ Edited(loops, loops', currloop) /\ DOMAIN loops' = DOMAIN loops
           /\ loops'[currloop].cmds = Append(loops[currloop].cmds, op)
           /\ \A l \in DOMAIN loops : Kids(loops', l) = Kids(loops, l)
           /\ \A l, j : l \in DOMAIN loops => KidsAt(loops', l, j) = KidsAt(loops, l, j)
<1>1. compile_level > 0
  BY DEF StoreLine, Storing
<1>2. currloop # NULL /\ currloop \in DOMAIN loops /\ Forest(loops)
  BY <1>1, StoringFacts, StateFacts
<1>3. PICK op \in {"stmt", "rename"} : loops' = [loops EXCEPT ![currloop] = Stored(currloop, op)]
  BY <1>2 DEF StoreLine
<1> DEFINE s == Stored(currloop, op)
<1>4. /\ s.parent = loops[currloop].parent /\ s.parent_line = loops[currloop].parent_line
      /\ s.children = loops[currloop].children
      /\ s.cmds = Append(loops[currloop].cmds, op)
  BY <1>2, StoredFacts DEF Op
<1> HIDE DEF s
<1>5. /\ DOMAIN loops' = DOMAIN loops
      /\ loops'[currloop] = s /\ \A k \in DOMAIN loops : k # currloop => loops'[k] = loops[k]
  BY <1>2, <1>3 DEF Forest, s
<1>6. Edited(loops, loops', currloop)
  BY <1>4, <1>5 DEF Edited
<1>7. \A l \in DOMAIN loops : Kids(loops', l) = Kids(loops, l)
  BY <1>4, <1>5 DEF Kids
<1>8. ASSUME NEW l \in DOMAIN loops, NEW j PROVE KidsAt(loops', l, j) = KidsAt(loops, l, j)
  <2>1. \A c \in Kids(loops, l) : c \in DOMAIN loops
    BY <1>2, ParentFacts
  <2>2. \A c \in DOMAIN loops : loops'[c].parent_line = loops[c].parent_line
    BY <1>4, <1>5
  <2> QED
    BY <1>7, <2>1, <2>2 DEF KidsAt
<1> QED
  BY <1>4, <1>5, <1>6, <1>7, <1>8

\* What BeginLoop does to them: a loop inside the current one.
LEMMA BeginInside ==
  ASSUME Orderly, IInv, BeginLoop, Nested
  PROVE  /\ currloop' \in Address /\ currloop' \notin DOMAIN loops
         /\ currloop \in DOMAIN loops
         /\ Attached(loops, loops', currloop, currloop')
<1> DEFINE n == Min(Address \ Live)
           p == currloop
           s == Stored(p, "loop")
           t == [s EXCEPT !.children = Append(@, n)]
           V == [loops EXCEPT ![p] = t]
           c == ChildOf(p)
<1>1. /\ MayBegin /\ Address \ Live # {} /\ currloop' = n
      /\ loops' = Allocated(n, c, V)
  BY DEF BeginLoop
<1>2. n \in Address /\ n \notin DOMAIN loops
  BY <1>1, FreshFacts
<1>3. p \in DOMAIN loops /\ Forest(loops)
  BY <1>1, BeginFacts, StateFacts
<1>4. /\ s \in LoopSet
      /\ s.parent = loops[p].parent /\ s.level = loops[p].level
      /\ s.parent_line = loops[p].parent_line /\ s.children = loops[p].children
      /\ s.cmds = Append(loops[p].cmds, "loop")
  <2>1. "loop" \in Op
    BY DEF Op
  <2> QED
    BY <1>3, <2>1, StoredFacts
<1> HIDE DEF s, n
<1>5. /\ t \in LoopSet
      /\ t.parent = loops[p].parent /\ t.level = loops[p].level
      /\ t.parent_line = loops[p].parent_line /\ t.children = Append(loops[p].children, n)
      /\ t.cmds = Append(loops[p].cmds, "loop")
  <2>1. Append(s.children, n) \in Seq(Address)
    BY <1>2, <1>4, AppendProperties DEF LoopSet
  <2> QED
    BY <1>4, <2>1 DEF LoopSet
<1>6. /\ c \in LoopSet /\ c.parent = p /\ c.level = loops[p].level + 1
      /\ c.parent_line = Len(loops[p].cmds) + 1 /\ c.cmds = << >> /\ c.children = << >>
  BY <1>3, ChildFacts
<1> HIDE DEF t, c
<1>7. /\ DOMAIN V = DOMAIN loops /\ V[p] = t
      /\ \A l \in DOMAIN loops : l # p => V[l] = loops[l]
  BY <1>3 DEF Forest
<1> HIDE DEF V
<1>8. /\ DOMAIN loops' = DOMAIN loops \cup {n} /\ loops'[n] = c
      /\ \A l \in DOMAIN loops : loops'[l] = V[l]
  <2>1. n \notin DOMAIN V
    BY <1>2, <1>7
  <2>2. /\ DOMAIN loops' = DOMAIN V \cup {n} /\ loops'[n] = c
        /\ \A l \in DOMAIN V : loops'[l] = V[l]
    BY <1>1, <2>1 DEF Allocated
  <2> QED
    BY <1>7, <2>2
<1>9. loops' \in [DOMAIN loops' -> LoopSet]
  <2>1. loops' = [l \in DOMAIN V \cup {n} |-> IF l = n THEN c ELSE V[l]]
    BY <1>1 DEF Allocated
  <2>2. \A l \in DOMAIN loops : loops[l] \in LoopSet
    BY <1>3 DEF Forest
  <2> QED
    BY <1>5, <1>6, <1>7, <2>1, <2>2
<1>10. /\ loops'[p] = t /\ \A l \in DOMAIN loops : l # p => loops'[l] = loops[l]
  BY <1>3, <1>7, <1>8
<1>11. /\ loops'[p].parent = loops[p].parent /\ loops'[p].level = loops[p].level
       /\ loops'[p].parent_line = loops[p].parent_line
       /\ loops'[p].children = Append(loops[p].children, n)
       /\ loops'[p].cmds = Append(loops[p].cmds, "loop")
  BY <1>5, <1>10
<1>12. /\ loops'[n].parent = p /\ loops'[n].level = loops[p].level + 1
       /\ loops'[n].parent_line = Len(loops[p].cmds) + 1
       /\ loops'[n].children = << >> /\ loops'[n].cmds = << >>
  BY <1>6, <1>8
<1>13. Attached(loops, loops', p, n)
  BY <1>8, <1>9, <1>10, <1>11, <1>12 DEF Attached
<1> QED
  BY <1>1, <1>2, <1>3, <1>13

\* Or an independent one.
LEMMA BeginOutside ==
  ASSUME BeginLoop, ~Nested
  PROVE  /\ currloop' \in Address /\ currloop' \notin DOMAIN loops
         /\ DOMAIN loops' = DOMAIN loops \cup {currloop'} /\ loops'[currloop'] = gretl_loop_init
         /\ \A l \in DOMAIN loops : loops'[l] = loops[l]
<1> DEFINE n == Min(Address \ Live)
<1>1. /\ Address \ Live # {} /\ currloop' = n
      /\ loops' = Allocated(n, gretl_loop_init, loops)
  BY DEF BeginLoop
<1>2. n \in Address /\ n \notin DOMAIN loops
  BY <1>1, FreshFacts
<1> HIDE DEF n
<1>3. /\ DOMAIN loops' = DOMAIN loops \cup {n} /\ loops'[n] = gretl_loop_init
      /\ \A l \in DOMAIN loops : loops'[l] = loops[l]
  BY <1>1, <1>2 DEF Allocated
<1> QED
  BY <1>1, <1>2, <1>3 DEF n

\* The loop stored, and those around it, are the last.
Placed == compile_level > 0 => AtLast(loops, currloop)

\* A line is stored.
LEMMA PlacedStore ==
  ASSUME NEW S, Forest(S), NEW U, NEW p \in DOMAIN S, Edited(S, U, p), DOMAIN U = DOMAIN S,
         \A l \in DOMAIN S : Kids(U, l) = Kids(S, l), AtLast(S, p)
  PROVE  AtLast(U, p)
<1> SUFFICES ASSUME NEW m \in DOMAIN S, p \in Under(U, m), U[m].parent # NULL
             PROVE  U[m].parent_line = Len(U[U[m].parent].cmds)
  BY DEF AtLast
<1>1. p \in Under(S, m)
  BY DEF Under, Closed
<1>2. U[m].parent = S[m].parent /\ U[m].parent_line = S[m].parent_line
  BY DEF Edited
<1>3. S[m].parent # p /\ S[m].parent \in DOMAIN S
  BY <1>1, <1>2, NotAround, ParentFacts
<1>4. S[m].parent_line = Len(S[S[m].parent].cmds)
  BY <1>1, <1>2 DEF AtLast
<1> QED
  BY <1>2, <1>3, <1>4 DEF Edited

\* A loop begins inside.
LEMMA PlacedInside ==
  ASSUME NEW S, Forest(S), NEW U, Forest(U), NEW p \in DOMAIN S, NEW n, n \notin DOMAIN S,
         Attached(S, U, p, n), AtLast(S, p)
  PROVE  AtLast(U, n)
<1> SUFFICES ASSUME NEW m \in DOMAIN U, n \in Under(U, m), U[m].parent # NULL
             PROVE  U[m].parent_line = Len(U[U[m].parent].cmds)
  BY DEF AtLast
<1>1. S[p].cmds \in Seq(Op) /\ "loop" \in Op
  BY DEF Forest, LoopSet, Op
<1>2. CASE m = n
  <2>1. Len(U[p].cmds) = Len(S[p].cmds) + 1
    BY <1>1, AppendProperties DEF Attached
  <2> QED
    BY <1>2, <2>1 DEF Attached
<1>3. CASE m # n
  <2>1. m \in DOMAIN S
    BY <1>3 DEF Attached
  <2>2. p \in Under(S, m)
    <3> SUFFICES ASSUME p \notin Under(S, m) PROVE FALSE
      OBVIOUS
    <3>1. Under(S, m) \subseteq DOMAIN S /\ m \in Under(S, m) /\ Closed(S, Under(S, m))
      BY <2>1, UnderFacts
    <3>2. Closed(U, Under(S, m))
      <4> SUFFICES ASSUME NEW x \in Under(S, m) PROVE Kids(U, x) \subseteq Under(S, m)
        BY DEF Closed
      <4>1. U[x] = S[x]
        BY <3>1 DEF Attached
      <4> QED
        BY <3>1, <4>1 DEF Closed, Kids
    <3>3. Under(S, m) \subseteq DOMAIN U
      BY <3>1 DEF Attached
    <3>4. Under(U, m) \subseteq Under(S, m)
      BY <3>1, <3>2, <3>3, UnderFacts
    <3> QED
      BY <3>1, <3>4
  <2>3. U[m].parent = S[m].parent /\ U[m].parent_line = S[m].parent_line
    BY <2>1 DEF Attached
  <2>4. S[m].parent # p /\ S[m].parent \in DOMAIN S
    BY <2>1, <2>2, <2>3, NotAround, ParentFacts
  <2>5. S[m].parent_line = Len(S[S[m].parent].cmds)
    BY <2>1, <2>2, <2>3 DEF AtLast
  <2>6. U[S[m].parent] = S[S[m].parent]
    BY <2>4 DEF Attached
  <2> QED
    BY <2>3, <2>5, <2>6
<1> QED
  BY <1>2, <1>3

\* A loop that no other contains.
LEMMA PlacedAlone ==
  ASSUME NEW S, Forest(S), NEW n \in DOMAIN S, S[n].parent = NULL PROVE AtLast(S, n)
<1> SUFFICES ASSUME NEW m \in DOMAIN S, n \in Under(S, m), S[m].parent # NULL PROVE FALSE
  BY DEF AtLast
<1>1. S[n].parent \in Under(S, m)
  BY UnderFacts
<1> QED
  BY <1>1, UnderFacts, ParentFacts

\* A loop ends that is inside another.
LEMMA PlacedParent ==
  ASSUME NEW S, Forest(S), NEW c \in DOMAIN S, S[c].parent # NULL, AtLast(S, c)
  PROVE  AtLast(S, S[c].parent)
<1>1. S[c].parent \in DOMAIN S /\ c \in Kids(S, S[c].parent)
  BY ParentFacts
<1>2. \A m \in DOMAIN S : S[c].parent \in Under(S, m) => c \in Under(S, m)
  BY <1>1, UnderFacts DEF Closed
<1> QED
  BY <1>2 DEF AtLast

\* Every step keeps that.
LEMMA PlacedStep ==
  ASSUME Orderly, IInv, Placed, [Next]_vars
  PROVE  Placed'
<1>1. IInv' /\ Forest(loops) /\ Forest(loops') /\ compile_level \in Nat
  <2>1. IInv'
    BY NextStep
  <2> QED
    BY <2>1 DEF IInv, Typed
<1>2. ASSUME UNCHANGED <<loops, currloop, compile_level>> PROVE Placed'
  BY <1>2 DEF Placed
<1>3. ASSUME compile_level' = 0 PROVE Placed'
  BY <1>3 DEF Placed
<1>4. CASE StoreLine
  <2>1. compile_level > 0 /\ UNCHANGED <<currloop, compile_level>>
    BY <1>4 DEF StoreLine, Storing, compiler
  <2>2. AtLast(loops, currloop) /\ currloop \in DOMAIN loops
    BY <2>1, StoringFacts DEF Placed
  <2>3. /\ Edited(loops, loops', currloop) /\ DOMAIN loops' = DOMAIN loops
        /\ \A l \in DOMAIN loops : Kids(loops', l) = Kids(loops, l)
    BY <1>4, StoreLineFacts
  <2>4. AtLast(loops', currloop)
    BY <1>1, <2>2, <2>3, PlacedStore
  <2> QED
    BY <2>1, <2>4 DEF Placed
<1>5. CASE BeginLoop
  <2>1. CASE Nested
    <3>1. compile_level > 0
      BY <1>5, <2>1, BeginFacts DEF BeginLoop
    <3>2. AtLast(loops, currloop)
      BY <3>1 DEF Placed
    <3>3. /\ currloop' \notin DOMAIN loops /\ currloop \in DOMAIN loops
          /\ Attached(loops, loops', currloop, currloop')
      BY <1>5, <2>1, BeginInside
    <3>4. AtLast(loops', currloop')
      BY <1>1, <3>2, <3>3, PlacedInside
    <3> QED
      BY <3>4 DEF Placed
  <2>2. CASE ~Nested
    <3>1. currloop' \in DOMAIN loops' /\ loops'[currloop'].parent = NULL
      BY <1>5, <2>2, BeginOutside, BornFacts
    <3>2. AtLast(loops', currloop')
      BY <1>1, <3>1, PlacedAlone
    <3> QED
      BY <3>2 DEF Placed
  <2> QED
    BY <2>1, <2>2
<1>6. CASE EndLoop
  <2>1. /\ compile_level > 0 /\ loops' = loops /\ compile_level' = compile_level - 1
        /\ compile_level # 1 => currloop' = loops[currloop].parent
    BY <1>6 DEF EndLoop, Storing
  <2>2. AtLast(loops, currloop) /\ currloop \in DOMAIN loops
    BY <2>1, StoringFacts DEF Placed
  <2>3. CASE compile_level = 1
    BY <1>3, <2>1, <2>3
  <2>4. CASE compile_level # 1
    <3>1. compile_level = loops[currloop].level + 1 /\ loops[currloop].level \in Nat
      BY <1>1, <2>1, <2>2, StoringFacts, ParentFacts
    <3>2. loops[currloop].level # 0 /\ Grounded(loops)
      BY <2>4, <3>1, StateFacts
    <3>3. loops[currloop].parent # NULL
      BY <2>2, <3>2 DEF Grounded
    <3>4. AtLast(loops, loops[currloop].parent)
      BY <1>1, <2>2, <3>3, PlacedParent
    <3> QED
      BY <2>1, <2>4, <3>4 DEF Placed
  <2> QED
    BY <2>3, <2>4
<1>7. CASE StartScript \/ Return \/ Call \/ Run \/ Fails \/ Unparsed \/ Iterate \/ LoopLine
           \/ LoopCall \/ LoopFails \/ EndOfBody \/ UNCHANGED vars
  <2>1. UNCHANGED <<loops, currloop, compile_level>>
    BY <1>7 DEF StartScript, Return, Call, Run, Fails, Unparsed, Iterate, LoopLine, LoopCall,
                LoopFails, EndOfBody, vars, compiler
  <2> QED
    BY <1>2, <2>1
<1>8. CASE BeginFails
  BY <1>3, <1>8 DEF BeginFails
<1>9. CASE Refused
  <2>1. currloop # NULL /\ DestroyStack(currloop)
    BY <1>9, StoringFacts DEF Refused, Storing
  <2> QED
    BY <1>3, <2>1 DEF DestroyStack
<1>10. CASE EndScript
  <2>1. CASE compile_level = Top.comp0
    BY <1>2, <1>10, <2>1 DEF EndScript
  <2>2. CASE compile_level # Top.comp0
    <3>1. DestroyStack(currloop)
      BY <1>10, <2>2 DEF EndScript
    <3>2. CASE currloop = NULL
      BY <1>2, <3>1, <3>2 DEF DestroyStack
    <3>3. CASE currloop # NULL
      BY <1>3, <3>1, <3>3 DEF DestroyStack
    <3> QED
      BY <3>2, <3>3
  <2> QED
    BY <2>1, <2>2
<1>11. CASE RunLoop \/ InnerLoop \/ LoopEnds
  <2>1. compile_level' = compile_level
    BY <1>11 DEF RunLoop, InnerLoop, LoopEnds
  <2>2. compile_level = 0
    <3>1. CASE RunLoop
      BY <1>1, <3>1, StoringFacts DEF RunLoop
    <3>2. CASE InnerLoop \/ LoopEnds
      BY <3>2, IdleFacts DEF InnerLoop, LoopEnds, AtLine, InLoop
    <3> QED
      BY <1>11, <3>1, <3>2
  <2> QED
    BY <1>3, <2>1, <2>2
<1> QED
  BY <1>4, <1>5, <1>6, <1>7, <1>8, <1>9, <1>10, <1>11 DEF Next

----------------------------------------------------------------------------
(* What LoopBodies sees of the activities.                                 *)

\* An activity that stores nothing and has no loop to execute.
Low(S, x) ==
    IF x.kind = "loop" THEN [body |-> ValueOf(S, x.loop), at |-> x.at]
                       ELSE [open |-> << >>, due |-> << >>]

\* All of them, when that is so.
Lows(S, a) == [i \in DOMAIN a |-> Low(S, a[i])]

\* The reader on top, by the static variables.
Storer(S, c, lv, ex) ==
    [open |-> IF lv > 0 THEN Append(BeforeOf(S, c), ValueOf(S, c)) ELSE << >>,
     due  |-> IF ex THEN <<ValueOf(S, c)>> ELSE << >>]

\* What Activities is, of any state.
Shows(S, a, c, lv, ex) ==
    [i \in DOMAIN a |->
       IF a[i].kind = "loop"
       THEN [body |-> ValueOf(S, a[i].loop), at |-> a[i].at]
       ELSE [open |-> IF i = Len(a) /\ lv > 0 THEN Append(BeforeOf(S, c), ValueOf(S, c)) ELSE << >>,
             due  |-> IF i = Len(a) /\ ex THEN <<ValueOf(S, c)>> ELSE << >>]]

\* It is that of the variables, before and after a step.
LEMMA OwnActivities ==
  /\ Activities = Shows(loops, acts, currloop, compile_level, loop_execute)
  /\ Activities' = Shows(loops', acts', currloop', compile_level', loop_execute')
  BY DEF Activities, Shows, OpenBodies, BeforeOf, BeforeFcn, Value, ValueOf, ValueFcn,
         LinesOf, LineOf, KidsAt, Kids, ChildAt, Live

\* The operators of the sequences of LoopBodies are those used here.
LEMMA OwnEnds == \A s : B!Front(s) = Front(s) /\ B!Last(s) = s[Len(s)]
  BY DEF B!Front, Front, B!Last

\* As many as there are activities.
LEMMA LowsRow ==
  ASSUME NEW S, NEW a \in Seq(Activity)
  PROVE  /\ Row(Lows(S, a)) /\ Len(Lows(S, a)) = Len(a)
         /\ \A i \in 1 .. Len(a) : Lows(S, a)[i] = Low(S, a[i])
<1>1. Len(a) \in Nat /\ DOMAIN a = 1 .. Len(a)
  BY LenProperties
<1>2. /\ Lows(S, a) = [i \in 1 .. Len(a) |-> Lows(S, a)[i]]
      /\ \A i \in 1 .. Len(a) : Lows(S, a)[i] = Low(S, a[i])
  BY <1>1 DEF Lows
<1> QED
  BY <1>1, <1>2, RowIs

\* A sequence of activities is one.
LEMMA ActsRow == ASSUME NEW a \in Seq(Activity) PROVE Row(a)
  BY DEF Row

\* They do not change when the values do not.
LEMMA LowsKept ==
  ASSUME NEW S, NEW U, NEW a \in Seq(Activity),
         \A i \in LoopsOf(a) : ValueOf(U, a[i].loop) = ValueOf(S, a[i].loop)
  PROVE  Lows(U, a) = Lows(S, a)
<1>1. \A i \in DOMAIN a : Low(U, a[i]) = Low(S, a[i])
  BY DEF Low, LoopsOf
<1> QED
  BY <1>1 DEF Lows

\* One activity more.
LEMMA LowsAppend ==
  ASSUME NEW S, NEW a \in Seq(Activity), NEW x \in Activity
  PROVE  Lows(S, Append(a, x)) = Append(Lows(S, a), Low(S, x))
<1> DEFINE b == Append(a, x)
           s == Lows(S, b)
           t == Append(Lows(S, a), Low(S, x))
<1>1. /\ b \in Seq(Activity) /\ Len(b) = Len(a) + 1 /\ b[Len(a) + 1] = x
      /\ \A i \in 1 .. Len(a) : b[i] = a[i]
  BY AppendProperties
<1>2. Len(a) \in Nat
  BY LenProperties
<1> HIDE DEF b
<1>3. Row(s) /\ Len(s) = Len(a) + 1 /\ \A i \in 1 .. Len(a) + 1 : s[i] = Low(S, b[i])
  BY <1>1, LowsRow
<1>4. /\ Row(Lows(S, a)) /\ Len(Lows(S, a)) = Len(a)
      /\ \A i \in 1 .. Len(a) : Lows(S, a)[i] = Low(S, a[i])
  BY LowsRow
<1>5. /\ Row(t) /\ Len(t) = Len(a) + 1 /\ t[Len(a) + 1] = Low(S, x)
      /\ \A i \in 1 .. Len(a) : t[i] = Low(S, a[i])
  BY <1>4, RowAppend
<1> HIDE DEF s, t
<1>6. \A i \in 1 .. Len(a) + 1 : s[i] = t[i]
  <2> TAKE i \in 1 .. Len(a) + 1
  <2>1. i = Len(a) + 1 \/ i \in 1 .. Len(a)
    BY <1>2
  <2> QED
    BY <1>1, <1>3, <1>5, <2>1
<1>7. s = t
  BY <1>3, <1>5, <1>6, RowEqual
<1> QED
  BY <1>7 DEF s, t, b

\* The activities below the top.
LEMMA LowsFront ==
  ASSUME NEW S, NEW a \in Seq(Activity), a # << >>
  PROVE  /\ Front(a) \in Seq(Activity) /\ Lows(S, Front(a)) = Front(Lows(S, a))
         /\ Lows(S, a) = Append(Lows(S, Front(a)), Low(S, a[Len(a)]))
<1>1. Row(a) /\ Len(a) \in Nat /\ Len(a) > 0 /\ a[Len(a)] \in Activity
  BY ActsFacts, ActsRow
<1>2. Front(a) \in Seq(Activity)
  <2>1. \A i \in 1 .. Len(a) - 1 : a[i] \in Activity
    BY <1>1, ElementOfSeq
  <2> QED
    BY <1>1, <2>1, SubSeqProperties DEF Front
<1>3. Append(Front(a), a[Len(a)]) = a
  BY <1>1, AppendOfFront
<1>4. Lows(S, Append(Front(a), a[Len(a)])) = Append(Lows(S, Front(a)), Low(S, a[Len(a)]))
  BY <1>1, <1>2, LowsAppend
<1>5. Lows(S, a) = Append(Lows(S, Front(a)), Low(S, a[Len(a)]))
  BY <1>3, <1>4
<1>6. Row(Lows(S, Front(a)))
  BY <1>2, LowsRow
<1>7. Front(Lows(S, a)) = Lows(S, Front(a))
  BY <1>5, <1>6, FrontOfAppend
<1> QED
  BY <1>2, <1>5, <1>7

\* The loop on top goes to another line.
LEMMA LowsMoved ==
  ASSUME NEW S, NEW a \in Seq(Activity), a # << >>, a[Len(a)].kind = "loop",
         NEW j \in Nat, NEW b, Moved(a, b, j)
  PROVE  /\ b \in Seq(Activity)
         /\ Lows(S, b) = Append(Front(Lows(S, a)), [body |-> ValueOf(S, a[Len(a)].loop), at |-> j])
<1> DEFINE n == Len(a)
           x == [a[n] EXCEPT !.at = j]
<1>1. Row(a) /\ n \in Nat /\ n > 0 /\ a[n] \in Activity /\ n \in 1 .. n /\ DOMAIN a = 1 .. n
  BY ActsFacts, ActsRow
<1>2. /\ x \in Activity /\ x.kind = "loop" /\ x.loop = a[n].loop /\ x.at = j
  BY <1>1, ActivityFacts
<1>3. b = [a EXCEPT ![n] = x]
  BY DEF Moved
<1> HIDE DEF x
<1>4. Front(a) \in Seq(Activity) /\ Lows(S, Front(a)) = Front(Lows(S, a))
  BY LowsFront
<1>5. /\ b \in Seq(Activity) /\ Len(b) = n
      /\ \A i \in 1 .. n : b[i] = IF i = n THEN x ELSE a[i]
  BY <1>1, <1>2, <1>3, ExceptSeq
<1> HIDE DEF n
<1>6. b = Append(Front(a), x)
  <2> DEFINE t == Append(Front(a), x)
  <2>1. /\ Row(Front(a)) /\ Len(Front(a)) = n - 1 /\ \A i \in 1 .. n - 1 : Front(a)[i] = a[i]
    BY <1>1, RowFront DEF n
  <2>2. /\ Row(t) /\ Len(t) = n - 1 + 1 /\ t[n - 1 + 1] = x
        /\ \A i \in 1 .. n - 1 : t[i] = a[i]
    BY <2>1, RowAppend
  <2>3. n - 1 + 1 = n
    BY <1>1
  <2> HIDE DEF t
  <2>4. Row(b)
    BY <1>5, ActsRow
  <2>5. \A i \in 1 .. n : b[i] = t[i]
    <3> TAKE i \in 1 .. n
    <3>1. i = n \/ (i # n /\ i \in 1 .. n - 1)
      BY <1>1
    <3> QED
      BY <1>5, <2>2, <2>3, <3>1
  <2>6. b = t
    BY <1>5, <2>2, <2>3, <2>4, <2>5, RowEqual
  <2> QED
    BY <2>6 DEF t
<1>7. Lows(S, b) = Append(Lows(S, Front(a)), Low(S, x))
  BY <1>2, <1>4, <1>6, LowsAppend
<1>8. Low(S, x) = [body |-> ValueOf(S, a[n].loop), at |-> j]
  BY <1>2 DEF Low
<1> QED
  BY <1>4, <1>5, <1>7, <1>8 DEF n

\* Nothing is stored.
LEMMA ShowsIdle ==
  ASSUME NEW S, NEW a, NEW c, NEW lv, NEW ex, ~(lv > 0), ~ex
  PROVE  Shows(S, a, c, lv, ex) = Lows(S, a)
<1>1. ASSUME NEW i \in DOMAIN a PROVE Shows(S, a, c, lv, ex)[i] = Low(S, a[i])
  BY DEF Shows, Low
<1> QED
  BY <1>1 DEF Shows, Lows

\* A reader is on top.
LEMMA ShowsStorer ==
  ASSUME NEW S, NEW a \in Seq(Activity), a # << >>, a[Len(a)].kind # "loop",
         NEW c, NEW lv, NEW ex
  PROVE  Shows(S, a, c, lv, ex) = Append(Front(Lows(S, a)), Storer(S, c, lv, ex))
<1> DEFINE n == Len(a)
           s == Shows(S, a, c, lv, ex)
           q == Lows(S, a)
           t == Append(Front(q), Storer(S, c, lv, ex))
<1>1. n \in Nat /\ n > 0 /\ DOMAIN a = 1 .. n
  BY ActsFacts
<1>2. Row(q) /\ Len(q) = n /\ \A i \in 1 .. n : q[i] = Low(S, a[i])
  BY LowsRow
<1>3. Row(s) /\ Len(s) = n
  <2>1. s = [i \in 1 .. n |-> s[i]]
    BY <1>1 DEF Shows
  <2> HIDE DEF s, n
  <2> QED
    BY <1>1, <2>1, RowIs
<1>4. \A i \in 1 .. n : i # n => s[i] = Low(S, a[i])
  BY <1>1 DEF Shows, Low
<1>5. s[n] = Storer(S, c, lv, ex)
  BY <1>1 DEF Shows, Storer
<1> HIDE DEF s, q, n
<1>6. Row(Front(q)) /\ Len(Front(q)) = n - 1 /\ \A i \in 1 .. n - 1 : Front(q)[i] = q[i]
  BY <1>1, <1>2, RowFront
<1>7. /\ Row(t) /\ Len(t) = n - 1 + 1 /\ t[n - 1 + 1] = Storer(S, c, lv, ex)
      /\ \A i \in 1 .. n - 1 : t[i] = q[i]
  BY <1>6, RowAppend
<1> HIDE DEF t
<1>8. n - 1 + 1 = n
  BY <1>1
<1>9. \A i \in 1 .. n : s[i] = t[i]
  <2> TAKE i \in 1 .. n
  <2>1. i = n \/ (i # n /\ i \in 1 .. n - 1)
    BY <1>1
  <2> QED
    BY <1>2, <1>4, <1>5, <1>7, <1>8, <2>1
<1>10. s = t
  BY <1>3, <1>7, <1>8, <1>9, RowEqual
<1> QED
  BY <1>10 DEF s, t, q

----------------------------------------------------------------------------
(* Every step is one of LoopBodies, or none.                               *)

\* The loops executed after a step have the values they had.
Held == \A i \in LoopsOf(acts') : ValueOf(loops', acts'[i].loop) = ValueOf(loops, acts'[i].loop)

\* A step of LoopBodies, or none.
Mapped == B!Next \/ UNCHANGED Activities

\* One element more, written in another way.
LEMMA RowConcat == ASSUME NEW s, Row(s), NEW e PROVE s \o <<e>> = Append(s, e)
<1>1. PICK T : s \in Seq(T)
  BY DEF Row
<1>2. s \in Seq(T \cup {e}) /\ e \in T \cup {e}
  BY <1>1, SeqMonotonic
<1> QED
  BY <1>2, AppendIsConcat

\* What LoopBodies sees when nothing is stored.
LEMMA ViewIdle ==
  ASSUME IInv, acts # << >>, ~Stocked
  PROVE  /\ Activities = Lows(loops, acts) /\ Activities # << >>
         /\ Row(Activities)
         /\ B!Top = Low(loops, Top)
         /\ B!Front(Activities) = Front(Lows(loops, acts))
<1>1. Activities = Lows(loops, acts)
  BY OwnActivities, ShowsIdle DEF Stocked
<1>2. /\ acts \in Seq(Activity) /\ Len(acts) \in Nat /\ Len(acts) > 0 /\ Top = acts[Len(acts)]
  BY StateFacts
<1>3. /\ Row(Activities) /\ Len(Activities) = Len(acts)
      /\ Activities[Len(acts)] = Low(loops, acts[Len(acts)])
  BY <1>1, <1>2, LowsRow
<1>4. Activities # << >>
  BY <1>2, <1>3, RowLen
<1>5. B!Top = Low(loops, Top)
  BY <1>2, <1>3, OwnEnds DEF B!Top
<1> QED
  BY <1>1, <1>3, <1>4, <1>5, OwnEnds

\* What it sees when a reader is on top.
LEMMA ViewStorer ==
  ASSUME IInv, acts # << >>, Top.kind # "loop"
  PROVE  /\ Activities # << >> /\ B!IsReader(B!Top)
         /\ B!Top = Storer(loops, currloop, compile_level, loop_execute)
         /\ B!Front(Activities) = Front(Lows(loops, acts))
<1> DEFINE r == Storer(loops, currloop, compile_level, loop_execute)
           F == Front(Lows(loops, acts))
<1>1. /\ acts \in Seq(Activity) /\ Len(acts) \in Nat /\ Len(acts) > 0 /\ Top = acts[Len(acts)]
  BY StateFacts
<1>2. Activities = Append(F, r)
  BY <1>1, OwnActivities, ShowsStorer
<1>3. Row(F)
  BY <1>1, LowsRow, RowFront
<1>4. "open" \in DOMAIN r
  BY DEF Storer
<1> HIDE DEF r, F
<1>5. /\ Row(Append(F, r)) /\ Len(Append(F, r)) = Len(F) + 1 /\ Len(F) \in Nat
      /\ Append(F, r)[Len(F) + 1] = r
  BY <1>3, RowAppend, RowLen
<1>6. Activities # << >>
  BY <1>2, <1>5, RowLen
<1>7. B!Top = r
  BY <1>2, <1>5, OwnEnds DEF B!Top
<1>8. B!Front(Activities) = F
  BY <1>2, <1>3, OwnEnds, FrontOfAppend
<1> QED
  BY <1>4, <1>6, <1>7, <1>8 DEF r, F, B!IsReader

\* What it sees after a step.
LEMMA ViewNext ==
  /\ ~Stocked' => Activities' = Lows(loops', acts')
  /\ (acts' \in Seq(Activity) /\ acts' # << >> /\ acts'[Len(acts')].kind # "loop") =>
        Activities' = Append(Front(Lows(loops', acts')),
                             Storer(loops', currloop', compile_level', loop_execute'))
<1>1. ~Stocked' => Activities' = Lows(loops', acts')
  BY OwnActivities, ShowsIdle DEF Stocked
<1>2. (acts' \in Seq(Activity) /\ acts' # << >> /\ acts'[Len(acts')].kind # "loop") =>
        Activities' = Append(Front(Lows(loops', acts')),
                             Storer(loops', currloop', compile_level', loop_execute'))
  BY OwnActivities, ShowsStorer
<1> QED
  BY <1>1, <1>2

\* What the reader on top stores changes, and nothing else.
LEMMA TopSet ==
  ASSUME IInv, acts # << >>, Top.kind # "loop", acts' = acts, Held
  PROVE  B!SetTop(Storer(loops', currloop', compile_level', loop_execute'))
<1>1. acts \in Seq(Activity) /\ Top = acts[Len(acts)]
  BY StateFacts
<1>2. Activities' = Append(Front(Lows(loops', acts)),
                           Storer(loops', currloop', compile_level', loop_execute'))
  BY <1>1, ViewNext
<1>3. Lows(loops', acts) = Lows(loops, acts)
  BY <1>1, LowsKept DEF Held
<1>4. B!Front(Activities) = Front(Lows(loops, acts))
  BY ViewStorer
<1> QED
  BY <1>2, <1>3, <1>4 DEF B!SetTop

\* What is on top ends, and what is below stores nothing.
LEMMA TopEnds ==
  ASSUME IInv, acts # << >>, Top.kind = "loop" => ~Stocked, acts' = Front(acts), ~Stocked', Held
  PROVE  Activities # << >> /\ Activities' = B!Front(Activities)
<1>1. acts \in Seq(Activity)
  BY StateFacts
<1>2. acts' \in Seq(Activity) /\ Lows(loops, acts') = Front(Lows(loops, acts))
  BY <1>1, LowsFront
<1>3. Lows(loops', acts') = Lows(loops, acts')
  BY <1>2, LowsKept DEF Held
<1>4. Activities # << >> /\ B!Front(Activities) = Front(Lows(loops, acts))
  BY ViewIdle, ViewStorer
<1> QED
  BY <1>2, <1>3, <1>4, ViewNext

\* A reader is put on top of what stores nothing.
LEMMA ReaderAbove ==
  ASSUME IInv, ~Stocked, ~Stocked', loops' = loops, NEW x \in Activity, x.kind # "loop",
         acts' = Append(acts, x)
  PROVE  Activities' = Append(Activities, B!Reader)
<1>1. acts \in Seq(Activity) /\ Activities = Lows(loops, acts)
  BY StateFacts, OwnActivities, ShowsIdle DEF Stocked
<1>2. Activities' = Lows(loops, Append(acts, x))
  BY ViewNext
<1>3. Low(loops, x) = B!Reader
  BY DEF Low, B!Reader
<1> QED
  BY <1>1, <1>2, <1>3, LowsAppend

\* A script starts.
LEMMA SimStartScript == ASSUME IInv, StartScript PROVE Mapped
<1> DEFINE x == [kind |-> "script", comp0 |-> compile_level]
<1>1. ~Stocked /\ compile_level = 0 /\ acts = << >>
  BY IdleFacts DEF StartScript
<1>2. /\ loops' = loops /\ acts' = Append(acts, x) /\ ~Stocked'
  BY <1>1 DEF StartScript, Push, compiler, Stocked
<1>3. x \in Activity /\ x.kind # "loop"
  BY <1>1, Readers
<1> HIDE DEF x
<1>4. Activities' = Append(Activities, B!Reader)
  BY <1>1, <1>2, <1>3, ReaderAbove
<1>5. Activities = << >>
  <2>1. DOMAIN acts = {}
    BY <1>1
  <2>2. DOMAIN Activities = {}
    BY <2>1, OwnActivities DEF Shows
  <2>3. Activities = Lows(loops, acts) /\ acts \in Seq(Activity) /\ Len(acts) = 0
    BY <1>1, StateFacts, OwnActivities, ShowsIdle DEF Stocked
  <2>4. Row(Activities) /\ Len(Activities) = 0
    BY <2>3, LowsRow
  <2> QED
    BY <2>4, RowLen
<1>6. Activities' = <<B!Reader>>
  BY <1>4, <1>5
<1> QED
  BY <1>5, <1>6 DEF Mapped, B!Next, B!Start

\* A line calls a function, or runs a script.
LEMMA SimCall == ASSUME IInv, Call \/ Run PROVE Mapped
<1> DEFINE x == IF Call THEN [kind |-> "func"]
                ELSE IF Top.kind = "script" THEN [kind |-> "script", comp0 |-> compile_level]
                ELSE [kind |-> "run"]
<1>1. Executing /\ acts # << >> /\ Top.kind # "loop"
  BY DEF Call, Run, Executing, NextLine, Reading
<1>2. ~Stocked /\ compile_level = 0 /\ ~loop_execute
  BY <1>1, IdleFacts
<1>3. loops' = loops /\ acts' = Append(acts, x) /\ ~Stocked'
  BY <1>2 DEF Call, Run, Push, compiler, Stocked
<1>4. x \in Activity /\ x.kind # "loop"
  BY <1>2, Readers
<1> HIDE DEF x
<1>5. Activities' = Append(Activities, B!Reader)
  BY <1>2, <1>3, <1>4, ReaderAbove
<1>6. /\ Activities # << >> /\ B!IsReader(B!Top)
      /\ B!Top = Storer(loops, currloop, compile_level, loop_execute)
  BY <1>1, ViewStorer
<1>7. B!Top.due = << >> /\ B!Top.open = << >>
  BY <1>2, <1>6 DEF Storer
<1>8. B!Call
  BY <1>5, <1>6, <1>7 DEF B!Call, B!Reads
<1> QED
  BY <1>8 DEF Mapped, B!Next

\* Only an error is raised.
LEMMA SimRaises == ASSUME IInv, Fails \/ LoopFails \/ Unparsed PROVE Mapped
<1>1. UNCHANGED <<loops, acts, currloop, compile_level, loop_execute>>
  BY DEF Fails, LoopFails, Unparsed, compiler
<1> QED
  BY <1>1, OwnActivities DEF Mapped

\* The lines of the loop on top, as a value.
LEMMA BodyFacts ==
  ASSUME IInv, acts # << >>, Top.kind = "loop"
  PROVE  /\ Top.loop \in DOMAIN loops /\ Top.at \in Nat
         /\ B!Runs /\ Activities = Lows(loops, acts) /\ Row(Activities)
         /\ B!Top = [body |-> ValueOf(loops, Top.loop), at |-> Top.at]
         /\ B!Front(Activities) = Front(Lows(loops, acts))
         /\ ValueOf(loops, Top.loop) = B!Top.body
         /\ Len(B!Top.body) = Len(Body) /\ DOMAIN B!Top.body = DOMAIN Body
         /\ \A j \in DOMAIN Body : Body[j] # "loop" => B!Top.body[j].op # "loop"
         /\ \A j \in DOMAIN Body : \A c \in ChildAt(Top.loop, j) : Body[j] = "loop" =>
              B!Top.body[j] = [op |-> "loop", body |-> ValueOf(loops, c)]
<1> DEFINE l == Top.loop
           v == ValueOf(loops, l)
<1>1. /\ acts \in Seq(Activity) /\ Top = acts[Len(acts)] /\ Top \in Activity
      /\ Len(acts) \in LoopsOf(acts) /\ Forest(loops) /\ Lined(loops)
  BY StateFacts DEF LoopsOf
<1>2. l \in DOMAIN loops /\ Top.at \in Nat
  BY <1>1, StateFacts, ActivityFacts
<1>3. ~Stocked
  BY IdleFacts
<1>4. /\ Activities = Lows(loops, acts) /\ Activities # << >> /\ Row(Activities)
      /\ B!Top = Low(loops, Top)
      /\ B!Front(Activities) = Front(Lows(loops, acts))
  BY <1>3, ViewIdle
<1>5. B!Top = [body |-> v, at |-> Top.at]
  BY <1>4 DEF Low
<1>6. B!Runs
  BY <1>4, <1>5 DEF B!Runs, B!IsReader
<1>7. IsBody(loops, l, v)
  BY <1>1, <1>2, ValueFacts
<1>8. Body \in Seq(Op)
  BY <1>1, <1>2 DEF Forest, LoopSet, Body
<1>9. DOMAIN Body = 1 .. Len(Body) /\ Body = loops[l].cmds
  BY <1>8, LenProperties DEF Body
<1> HIDE DEF v, l
<1>10. Row(v) /\ Len(v) = Len(Body)
  BY <1>7, <1>9 DEF IsBody
<1>11. DOMAIN v = DOMAIN Body
  BY <1>9, <1>10, RowLen
<1>12. \A j \in DOMAIN Body : Body[j] # "loop" => v[j].op # "loop"
  <2> SUFFICES ASSUME NEW j \in DOMAIN Body, Body[j] # "loop" PROVE v[j].op # "loop"
    OBVIOUS
  <2>1. v[j] = [op |-> Body[j], body |-> << >>]
    BY <1>7, <1>9 DEF IsBody
  <2> QED
    BY <2>1
<1>13. \A j : ChildAt(l, j) = KidsAt(loops, l, j)
  BY DEF ChildAt, KidsAt, Kids
<1>14. \A j \in DOMAIN Body : \A c \in ChildAt(l, j) : Body[j] = "loop" =>
           v[j] = [op |-> "loop", body |-> ValueOf(loops, c)]
  BY <1>7, <1>9, <1>13 DEF IsBody
<1>15. B!Top.body = v
  BY <1>5
<1> QED
  BY <1>2, <1>4, <1>5, <1>6, <1>10, <1>11, <1>12, <1>14, <1>15 DEF v, l

\* The loop on top goes to another line.
LEMMA TopMoves ==
  ASSUME IInv, acts # << >>, Top.kind = "loop", NEW j \in Nat, Moved(acts, acts', j),
         UNCHANGED <<loops, currloop, compile_level, loop_execute>>
  PROVE  B!Goto(j)
<1>1. acts \in Seq(Activity) /\ Top = acts[Len(acts)]
  BY StateFacts
<1>2. Lows(loops, acts') = Append(Front(Lows(loops, acts)),
                                  [body |-> ValueOf(loops, Top.loop), at |-> j])
  BY <1>1, LowsMoved
<1>3. ~Stocked'
  BY IdleFacts DEF Stocked
<1>4. Activities' = Lows(loops, acts')
  BY <1>3, ViewNext
<1>5. /\ B!Top = [body |-> ValueOf(loops, Top.loop), at |-> Top.at]
      /\ B!Front(Activities) = Front(Lows(loops, acts))
  BY BodyFacts
<1>6. [B!Top EXCEPT !.at = j] = [body |-> ValueOf(loops, Top.loop), at |-> j]
  BY <1>5
<1> QED
  BY <1>2, <1>4, <1>5, <1>6 DEF B!Goto, B!SetTop

\* A loop goes to another line, and back to its condition.
LEMMA SimGoto == ASSUME IInv, Iterate \/ LoopLine \/ EndOfBody PROVE Mapped
<1>1. /\ acts # << >> /\ Top.kind = "loop"
      /\ UNCHANGED <<loops, currloop, compile_level, loop_execute>>
  BY DEF Iterate, LoopLine, EndOfBody, AtLine, InLoop, compiler
<1>2. /\ B!Runs /\ B!Top.at = Top.at /\ Top.at \in Nat
      /\ Len(B!Top.body) = Len(Body) /\ DOMAIN B!Top.body = DOMAIN Body
      /\ \A j \in DOMAIN Body : Body[j] # "loop" => B!Top.body[j].op # "loop"
  BY <1>1, BodyFacts
<1>3. CASE Iterate
  <2>1. Top.at = 0 /\ Moved(acts, acts', 1)
    BY <1>3 DEF Iterate, Goto, Moved
  <2>2. B!Goto(1)
    BY <1>1, <2>1, TopMoves
  <2> QED
    BY <1>2, <2>1, <2>2 DEF Mapped, B!Next, B!Iterate
<1>4. CASE LoopLine
  <2>1. Top.at \in DOMAIN Body /\ Body[Top.at] # "loop" /\ Moved(acts, acts', Top.at + 1)
    BY <1>4 DEF LoopLine, AtLine, Goto, Moved
  <2>2. B!Goto(Top.at + 1)
    BY <1>1, <1>2, <2>1, TopMoves
  <2>3. B!Step
    BY <1>2, <2>1, <2>2 DEF B!Step
  <2> QED
    BY <2>3 DEF Mapped, B!Next
<1>5. CASE EndOfBody
  <2>1. Top.at = Len(Body) + 1 /\ Moved(acts, acts', 0)
    BY <1>5 DEF EndOfBody, Goto, Moved
  <2>2. B!Goto(0)
    BY <1>1, <2>1, TopMoves
  <2> QED
    BY <1>2, <2>1, <2>2 DEF Mapped, B!Next, B!Again
<1> QED
  BY <1>3, <1>4, <1>5

\* Something is put on top of a loop that goes to another line.
LEMMA LoopGoesOn ==
  ASSUME IInv, acts # << >>, Top.kind = "loop", ~Stocked', loops' = loops,
         NEW j \in Nat, NEW a, Moved(acts, a, j), NEW x \in Activity, acts' = Append(a, x)
  PROVE  Activities' = Append(B!Front(Activities), [B!Top EXCEPT !.at = j]) \o <<Low(loops, x)>>
<1>1. acts \in Seq(Activity) /\ Top = acts[Len(acts)]
  BY StateFacts
<1>2. /\ a \in Seq(Activity)
      /\ Lows(loops, a) = Append(Front(Lows(loops, acts)),
                                 [body |-> ValueOf(loops, Top.loop), at |-> j])
  BY <1>1, LowsMoved
<1>3. Activities' = Append(Lows(loops, a), Low(loops, x))
  BY <1>2, ViewNext, LowsAppend
<1>4. /\ B!Top = [body |-> ValueOf(loops, Top.loop), at |-> Top.at]
      /\ B!Front(Activities) = Front(Lows(loops, acts))
  BY BodyFacts
<1>5. [B!Top EXCEPT !.at = j] = [body |-> ValueOf(loops, Top.loop), at |-> j]
  BY <1>4
<1>6. Lows(loops, a) = Append(B!Front(Activities), [B!Top EXCEPT !.at = j])
  BY <1>2, <1>4, <1>5
<1>7. Lows(loops, a) \o <<Low(loops, x)>> = Append(Lows(loops, a), Low(loops, x))
  BY <1>2, LowsRow, RowConcat
<1> QED
  BY <1>3, <1>6, <1>7

\* A line of a loop, or its condition, calls a function.
LEMMA SimLoopCall == ASSUME IInv, LoopCall PROVE Mapped
<1> DEFINE x == [kind |-> "func"]
           j == IF Top.at = 0 THEN 0 ELSE Top.at + 1
           a == [acts EXCEPT ![Len(acts)].at = j]
<1>1. /\ acts # << >> /\ Top.kind = "loop"
      /\ UNCHANGED <<loops, currloop, compile_level, loop_execute>>
      /\ Top.at = 0 \/ (Top.at \in DOMAIN Body /\ Body[Top.at] # "loop")
  BY DEF LoopCall, AtLine, InLoop, compiler
<1>2. Top = acts[Len(acts)]
  BY <1>1, StateFacts
<1>3. acts' = Append(a, x)
  BY <1>2 DEF LoopCall
<1>4. /\ B!Runs /\ B!Top.at = Top.at /\ Top.at \in Nat
      /\ DOMAIN B!Top.body = DOMAIN Body
      /\ \A k \in DOMAIN Body : Body[k] # "loop" => B!Top.body[k].op # "loop"
  BY <1>1, BodyFacts
<1>5. x \in Activity /\ Low(loops, x) = B!Reader
  BY Readers DEF Low, B!Reader
<1>6. j \in Nat /\ j = B!Next1
  BY <1>4 DEF B!Next1
<1>7. Moved(acts, a, j)
  BY DEF Moved
<1>8. ~Stocked'
  BY <1>1, IdleFacts DEF Stocked
<1> HIDE DEF x, j, a
<1>9. Activities' = Append(B!Front(Activities), [B!Top EXCEPT !.at = j]) \o <<Low(loops, x)>>
  BY <1>1, <1>3, <1>5, <1>6, <1>7, <1>8, LoopGoesOn
<1>10. B!CallInLoop
  BY <1>1, <1>4, <1>5, <1>6, <1>9 DEF B!CallInLoop
<1> QED
  BY <1>10 DEF Mapped, B!Next

\* A line of a loop begins the loop inside.
LEMMA SimInnerLoop == ASSUME IInv, InnerLoop PROVE Mapped
<1>1. /\ acts # << >> /\ Top.kind = "loop" /\ loops' = loops /\ compile_level' = compile_level
      /\ loop_execute' = FALSE /\ Top.at \in DOMAIN Body /\ Body[Top.at] = "loop"
  BY DEF InnerLoop, AtLine, InLoop
<1>2. PICK child \in ChildAt(Top.loop, Top.at) :
         acts' = Append([acts EXCEPT ![Len(acts)].at = @ + 1],
                        [kind |-> "loop", loop |-> child, at |-> 0])
  BY DEF InnerLoop
<1> DEFINE x == [kind |-> "loop", loop |-> child, at |-> 0]
           j == Top.at + 1
           a == [acts EXCEPT ![Len(acts)].at = j]
<1>3. Top = acts[Len(acts)] /\ Forest(loops)
  BY <1>1, StateFacts
<1>4. acts' = Append(a, x)
  BY <1>2, <1>3
<1>5. /\ B!Runs /\ B!Top.at = Top.at /\ Top.at \in Nat
      /\ DOMAIN B!Top.body = DOMAIN Body /\ Top.loop \in DOMAIN loops
      /\ B!Top.body[Top.at] = [op |-> "loop", body |-> ValueOf(loops, child)]
  BY <1>1, BodyFacts
<1>6. child \in Address
  <2>1. child \in Kids(loops, Top.loop)
    BY DEF ChildAt, Kids
  <2>2. child \in DOMAIN loops
    BY <1>3, <1>5, <2>1, ParentFacts
  <2> QED
    BY <1>3, <2>2 DEF Forest
<1>7. x \in Activity /\ Low(loops, x) = B!Executing(ValueOf(loops, child))
  BY <1>6 DEF Activity, Low, B!Executing
<1>8. Top.at # 0
  <2>1. Body \in Seq(Op)
    BY <1>3, <1>5 DEF Forest, LoopSet, Body
  <2>2. DOMAIN Body = 1 .. Len(Body)
    BY <2>1, LenProperties
  <2> QED
    BY <1>1, <2>2
<1>9. j \in Nat /\ j = B!Next1
  BY <1>5, <1>8 DEF B!Next1
<1>10. Moved(acts, a, j)
  BY DEF Moved
<1>11. ~Stocked'
  BY <1>1, IdleFacts DEF Stocked
<1> HIDE DEF x, j, a
<1>12. Activities' = Append(B!Front(Activities), [B!Top EXCEPT !.at = j]) \o <<Low(loops, x)>>
  BY <1>1, <1>4, <1>7, <1>9, <1>10, <1>11, LoopGoesOn
<1>13. B!Enter
  BY <1>1, <1>5, <1>7, <1>9, <1>12 DEF B!Enter
<1> QED
  BY <1>13 DEF Mapped, B!Next

\* The complete loop is executed.
LEMMA SimRunLoop == ASSUME IInv, RunLoop PROVE Mapped
<1> DEFINE x == [kind |-> "loop", loop |-> currloop, at |-> 0]
<1>1. /\ acts # << >> /\ ~err /\ loop_execute /\ loop_execute' = FALSE
      /\ loops' = loops /\ compile_level' = compile_level /\ Top.kind # "loop"
  BY DEF RunLoop, Reading
<1>2. compile_level = 0 /\ currloop # NULL
  <2>1. Storage /\ compile_level \in Nat
    BY DEF IInv, Typed
  <2> QED
    BY <1>1, <2>1 DEF Storage
<1>3. acts' = Append(acts, x)
  BY <1>2 DEF RunLoop, Push
<1>4. acts \in Seq(Activity) /\ currloop \in Address /\ Top = acts[Len(acts)]
  BY <1>2, StateFacts DEF Forest
<1>5. x \in Activity /\ Low(loops, x) = B!Executing(ValueOf(loops, currloop))
  BY <1>4 DEF Activity, Low, B!Executing
<1>6. ~Stocked'
  BY <1>1, <1>2 DEF Stocked
<1> HIDE DEF x
<1>7. Activities' = Append(Lows(loops, acts), Low(loops, x))
  BY <1>1, <1>3, <1>4, <1>5, <1>6, ViewNext, LowsAppend
<1>8. /\ Front(acts) \in Seq(Activity) /\ Lows(loops, Front(acts)) = Front(Lows(loops, acts))
      /\ Lows(loops, acts) = Append(Front(Lows(loops, acts)), B!Reader)
  <2>1. Low(loops, acts[Len(acts)]) = B!Reader
    BY <1>1, <1>4 DEF Low, B!Reader
  <2> QED
    BY <1>1, <1>4, <2>1, LowsFront
<1>9. /\ Activities # << >> /\ B!IsReader(B!Top)
      /\ B!Top = Storer(loops, currloop, compile_level, loop_execute)
      /\ B!Front(Activities) = Front(Lows(loops, acts))
  BY <1>1, ViewStorer
<1>10. B!Top.due = <<ValueOf(loops, currloop)>>
  BY <1>1, <1>9 DEF Storer
<1>11. B!Top.due # << >> /\ B!Top.due[1] = ValueOf(loops, currloop)
  BY <1>10
<1>12. Lows(loops, acts) \o <<Low(loops, x)>> = Append(Lows(loops, acts), Low(loops, x))
  BY <1>4, LowsRow, RowConcat
<1>13. Activities' = Append(B!Front(Activities), B!Reader) \o <<B!Executing(B!Top.due[1])>>
  BY <1>5, <1>7, <1>8, <1>9, <1>11, <1>12
<1>14. B!Run
  BY <1>9, <1>11, <1>13 DEF B!Run
<1> QED
  BY <1>14 DEF Mapped, B!Next

\* A tree goes: the values of the others stay.
LEMMA DestroyValues ==
  ASSUME IInv, NEW r \in DOMAIN loops, loops[r].parent = NULL, gretl_loop_destroy(r)
  PROVE  \A l \in DOMAIN loops : RootOf(loops, l) # r => ValueOf(loops', l) = ValueOf(loops, l)
<1>1. Forest(loops) /\ Lined(loops) /\ Grounded(loops)
  BY StateFacts
<1>2. /\ Forest(loops') /\ Lined(loops')
      /\ DOMAIN loops' = {l \in DOMAIN loops : RootOf(loops, l) # r}
      /\ \A l \in DOMAIN loops' : loops'[l] = loops[l]
  BY <1>1, DestroyFacts
<1> DEFINE X == DOMAIN loops'
<1>3. Closed(loops, X)
  <2> SUFFICES ASSUME NEW x \in X, NEW c \in Kids(loops, x) PROVE c \in X
    BY DEF Closed
  <2>1. x \in DOMAIN loops /\ RootOf(loops, x) # r
    BY <1>2
  <2>2. c \in DOMAIN loops /\ loops[c].parent = x /\ loops[c].parent # NULL
    BY <1>1, <2>1, ParentFacts
  <2>3. RootOf(loops, c) = RootOf(loops, x)
    BY <1>1, <2>2, RootFacts
  <2> QED
    BY <1>2, <2>1, <2>2, <2>3
<1>4. \A l \in X : /\ loops'[l].cmds = loops[l].cmds
                   /\ \A j : KidsAt(loops', l, j) = KidsAt(loops, l, j)
  BY <1>2, <1>3 DEF KidsAt, Kids, Closed
<1>5. X \subseteq DOMAIN loops
  BY <1>2
<1> HIDE DEF X
<1>6. \A l \in X : ValueOf(loops', l) = ValueOf(loops, l)
  <2>1. X \subseteq DOMAIN loops'
    BY DEF X
  <2> QED
    BY <1>1, <1>2, <1>3, <1>4, <1>5, <2>1, ValueKept
<1> QED
  BY <1>2, <1>6 DEF X

\* What is stored goes: the loops executed stay.
LEMMA StackValues ==
  ASSUME IInv, compile_level > 0, gretl_loop_destroy(Root(currloop))
  PROVE  \A i \in LoopsOf(acts) : ValueOf(loops', acts[i].loop) = ValueOf(loops, acts[i].loop)
<1> DEFINE r == RootOf(loops, currloop)
<1>1. /\ currloop \in DOMAIN loops
      /\ \A i \in LoopsOf(acts) : RootOf(loops, acts[i].loop) # r
  BY StoringFacts
<1>2. Forest(loops) /\ \A i \in LoopsOf(acts) : acts[i].loop \in DOMAIN loops
  BY StateFacts
<1>3. r \in DOMAIN loops /\ loops[r].parent = NULL /\ Root(currloop) = r
  BY <1>1, <1>2, RootFacts, OwnRoot
<1>4. gretl_loop_destroy(r)
  BY <1>3
<1> HIDE DEF r
<1> QED
  BY <1>1, <1>2, <1>3, <1>4, DestroyValues

\* What a reader that stores a loop is to LoopBodies.
LEMMA StorerFacts ==
  ASSUME IInv, compile_level > 0
  PROVE  LET open == Append(BeforeOf(loops, currloop), ValueOf(loops, currloop))
         IN  /\ B!Reads /\ B!Top = [open |-> open, due |-> << >>]
             /\ Row(BeforeOf(loops, currloop)) /\ Row(ValueOf(loops, currloop))
             /\ open # << >> /\ B!Last(open) = ValueOf(loops, currloop)
             /\ B!Front(open) = BeforeOf(loops, currloop)
<1> DEFINE b == BeforeOf(loops, currloop)
           v == ValueOf(loops, currloop)
<1>1. acts # << >> /\ Top.kind # "loop" /\ ~loop_execute /\ currloop \in DOMAIN loops
  BY StoringFacts
<1>2. /\ Activities # << >> /\ B!IsReader(B!Top)
      /\ B!Top = Storer(loops, currloop, compile_level, loop_execute)
  BY <1>1, ViewStorer
<1>3. B!Top = [open |-> Append(b, v), due |-> << >>]
  BY <1>1, <1>2 DEF Storer
<1>4. B!Reads
  BY <1>2, <1>3 DEF B!Reads
<1>5. Row(b) /\ Row(v)
  BY <1>1, StateFacts, BeforeIsRow, ValueFacts DEF IsBody
<1> HIDE DEF b, v
<1>6. /\ Row(Append(b, v)) /\ Len(Append(b, v)) = Len(b) + 1 /\ Len(b) \in Nat
      /\ Append(b, v)[Len(b) + 1] = v
  BY <1>5, RowAppend, RowLen
<1>7. Append(b, v) # << >> /\ B!Last(Append(b, v)) = v
  <2> DEFINE t == Append(b, v)
  <2>1. Row(t) /\ Len(t) = Len(b) + 1 /\ Len(b) \in Nat /\ t[Len(b) + 1] = v
    BY <1>6
  <2> HIDE DEF t
  <2>2. t # << >>
    BY <2>1, RowLen
  <2>3. B!Last(t) = t[Len(t)]
    BY OwnEnds
  <2> QED
    BY <2>1, <2>2, <2>3 DEF t
<1>8. B!Front(Append(b, v)) = b
  BY <1>5, FrontOfAppend, OwnEnds
<1> QED
  BY <1>3, <1>4, <1>5, <1>7, <1>8 DEF b, v

\* The loops being stored go.
LEMMA SimDrop ==
  ASSUME IInv, compile_level > 0, gretl_loop_destroy(Root(currloop)), acts' = acts,
         compile_level' = 0, loop_execute' = loop_execute
  PROVE  Mapped
<1>1. acts # << >> /\ Top.kind # "loop" /\ ~loop_execute
  BY StoringFacts
<1>2. Held
  BY StackValues DEF Held
<1>3. B!SetTop(Storer(loops', currloop', compile_level', loop_execute'))
  BY <1>1, <1>2, TopSet
<1>4. Storer(loops', currloop', compile_level', loop_execute') = B!Reader
  BY <1>1 DEF Storer, B!Reader
<1>5. B!Reads /\ B!Top.open # << >>
  BY StorerFacts
<1>6. B!Drop
  BY <1>3, <1>4, <1>5 DEF B!Drop
<1> QED
  BY <1>6 DEF Mapped, B!Next

\* A line is not allowed in loops.
LEMMA SimRefused == ASSUME IInv, Refused PROVE Mapped
<1>1. /\ compile_level > 0 /\ acts' = acts
      /\ loop_execute' = loop_execute /\ DestroyStack(currloop)
  BY DEF Refused, Storing
<1>2. currloop # NULL
  BY <1>1, StoringFacts
<1>3. gretl_loop_destroy(Root(currloop)) /\ compile_level' = 0
  BY <1>1, <1>2 DEF DestroyStack
<1> QED
  BY <1>1, <1>3, SimDrop

\* The first line of a loop is in error.
LEMMA SimBeginFails == ASSUME Orderly, IInv, BeginFails PROVE Mapped
<1>1. /\ MayBegin /\ compile_level' = 0 /\ loop_execute' = loop_execute /\ acts' = acts
      /\ Nested => gretl_loop_destroy(Root(currloop))
      /\ ~Nested => loops' = loops
  BY DEF BeginFails
<1>2. ~loop_execute /\ compile_level \in Nat /\ (Nested <=> compile_level > 0)
  BY <1>1, BeginFacts
<1>3. CASE Nested
  BY <1>1, <1>2, <1>3, SimDrop
<1>4. CASE ~Nested
  <2>1. ~(compile_level > 0) /\ ~(compile_level' > 0) /\ ~loop_execute'
    BY <1>1, <1>2, <1>4
  <2>2. Activities = Lows(loops, acts) /\ Activities' = Lows(loops', acts')
    BY <1>2, <2>1, OwnActivities, ShowsIdle
  <2> QED
    BY <1>1, <1>4, <2>2 DEF Mapped
<1> QED
  BY <1>3, <1>4

\* The last element of a sequence is replaced.
LEMMA RowExcept ==
  ASSUME NEW s, Row(s), NEW v, NEW w
  PROVE  [Append(s, v) EXCEPT ![Len(Append(s, v))] = w] = Append(s, w)
<1> DEFINE a == Append(s, v)
           n == Len(s)
           b == [a EXCEPT ![n + 1] = w]
           c == Append(s, w)
<1>1. /\ Row(a) /\ Len(a) = n + 1 /\ n \in Nat /\ DOMAIN a = 1 .. n + 1
      /\ \A i \in 1 .. n : a[i] = s[i]
  BY RowAppend, RowLen
<1>2. Row(c) /\ Len(c) = n + 1 /\ c[n + 1] = w /\ \A i \in 1 .. n : c[i] = s[i]
  BY RowAppend
<1> HIDE DEF a, c, n
<1>3. /\ b[n + 1] = w /\ \A i \in 1 .. n : b[i] = s[i]
  BY <1>1
<1>4. b = [i \in 1 .. n + 1 |-> b[i]]
  <2>1. a = [i \in 1 .. n + 1 |-> a[i]]
    <3>1. PICK T : a \in Seq(T)
      BY <1>1 DEF Row
    <3>2. a \in [1 .. n + 1 -> T]
      BY <1>1, <3>1, LenProperties
    <3> QED
      BY <3>2
  <2> QED
    BY <1>1, <2>1
<1> HIDE DEF b
<1>5. Row(b) /\ Len(b) = n + 1
  BY <1>1, <1>4, RowIs
<1>6. \A i \in 1 .. n + 1 : b[i] = c[i]
  <2> TAKE i \in 1 .. n + 1
  <2>1. i = n + 1 \/ i \in 1 .. n
    BY <1>1
  <2> QED
    BY <1>2, <1>3, <2>1
<1>7. b = c
  BY <1>2, <1>5, <1>6, RowEqual
<1> QED
  BY <1>1, <1>7 DEF a, b, c

\* What is stored is not executed.
LEMMA StoringHeld ==
  ASSUME IInv, compile_level > 0, Forest(loops'), Lined(loops'), acts' = acts,
         Edited(loops, loops', currloop)
  PROVE  Held
<1>1. /\ currloop \in DOMAIN loops
      /\ \A i \in LoopsOf(acts) : RootOf(loops, acts[i].loop) # RootOf(loops, currloop)
  BY StoringFacts
<1>2. Forest(loops) /\ Lined(loops) /\ \A i \in LoopsOf(acts) : acts[i].loop \in DOMAIN loops
  BY StateFacts
<1>3. \A i \in LoopsOf(acts) : currloop \notin Under(loops, acts[i].loop)
  BY <1>1, <1>2, UnderDeeper
<1>4. \A l \in DOMAIN loops :
         currloop \notin Under(loops, l) => ValueOf(loops', l) = ValueOf(loops, l)
  BY <1>1, <1>2, EditedValues
<1> QED
  BY <1>2, <1>3, <1>4 DEF Held

\* A line is stored.
LEMMA SimStoreLine == ASSUME IInv, IInv', Placed, StoreLine PROVE Mapped
<1> DEFINE c == currloop
           b == BeforeOf(loops, c)
           v == ValueOf(loops, c)
<1>1. /\ compile_level > 0
      /\ UNCHANGED <<currloop, compile_level, loop_execute, acts>>
  BY DEF StoreLine, Storing, compiler
<1>2. /\ acts # << >> /\ Top.kind # "loop" /\ ~loop_execute /\ currloop \in DOMAIN loops
      /\ Forest(loops) /\ Lined(loops) /\ AtLast(loops, currloop)
  BY <1>1, StoringFacts, StateFacts DEF Placed
<1>3. Forest(loops') /\ Lined(loops')
  BY DEF IInv, Typed
<1>4. PICK op \in {"stmt", "rename"} :
         /\ Edited(loops, loops', currloop)
         /\ loops'[currloop].cmds = Append(loops[currloop].cmds, op)
         /\ \A l, j : l \in DOMAIN loops => KidsAt(loops', l, j) = KidsAt(loops, l, j)
  BY StoreLineFacts
<1>5. BeforeOf(loops', c) = b
  BY <1>2, <1>3, <1>4, EditedBefore
<1>6. ValueOf(loops', c) = Append(v, B!Line(op))
  <2>1. op \in Op /\ op # "loop"
    BY DEF Op
  <2>2. ValueOf(loops', c) = Append(v, [op |-> op, body |-> << >>])
    BY <1>2, <1>3, <1>4, <2>1, EditedBody
  <2> QED
    BY <2>2 DEF B!Line
<1>7. /\ B!Reads /\ B!Top = [open |-> Append(b, v), due |-> << >>] /\ Row(b)
      /\ Append(b, v) # << >> /\ B!Last(Append(b, v)) = v
  BY <1>1, StorerFacts
<1>8. Held
  BY <1>1, <1>3, <1>4, StoringHeld
<1>9. B!SetTop(Storer(loops', currloop', compile_level', loop_execute'))
  BY <1>1, <1>2, <1>8, TopSet
<1> HIDE DEF b, v
<1>10. Storer(loops', currloop', compile_level', loop_execute')
         = [open |-> Append(b, Append(v, B!Line(op))), due |-> << >>]
  BY <1>1, <1>2, <1>5, <1>6 DEF Storer
<1>11. [B!Top EXCEPT !.open[Len(B!Top.open)] = Append(@, B!Line(op))]
         = [open |-> Append(b, Append(v, B!Line(op))), due |-> << >>]
  <2> DEFINE t == Append(b, v)
             w == Append(v, B!Line(op))
             r == B!Top
  <2>1. t[Len(t)] = v
    BY <1>7, OwnEnds
  <2>2. [t EXCEPT ![Len(t)] = w] = Append(b, w)
    <3> HIDE DEF w
    <3> QED
      BY <1>7, RowExcept
  <2>3. r = [open |-> t, due |-> << >>]
    BY <1>7
  <2> HIDE DEF t, w, r
  <2>4. /\ DOMAIN r = {"open", "due"} /\ r.open = t /\ r.due = << >>
        /\ r = [open |-> r.open, due |-> r.due]
    BY <2>3
  <2>5. [r EXCEPT !.open[Len(r.open)] = Append(@, B!Line(op))]
          = [r EXCEPT !.open = [t EXCEPT ![Len(t)] = w]]
    BY <2>1, <2>4 DEF w
  <2>6. [r EXCEPT !.open = [t EXCEPT ![Len(t)] = w]]
          = [open |-> [t EXCEPT ![Len(t)] = w], due |-> << >>]
    BY <2>3
  <2> QED
    BY <2>2, <2>5, <2>6 DEF r, w
<1>12. B!Store(op)
  BY <1>7, <1>9, <1>10, <1>11 DEF B!Store
<1> QED
  BY <1>12 DEF Mapped, B!Next

\* A loop begins.
LEMMA SimBeginLoop == ASSUME Orderly, IInv, IInv', Placed, BeginLoop PROVE Mapped
<1> DEFINE n == currloop'
<1>1. /\ MayBegin /\ compile_level' = compile_level + 1 /\ UNCHANGED <<loop_execute, acts>>
  BY DEF BeginLoop
<1>2. /\ acts # << >> /\ Top.kind # "loop" /\ ~loop_execute
      /\ compile_level \in Nat /\ (Nested <=> compile_level > 0) /\ compile_level' > 0
  BY <1>1, BeginFacts
<1>3. Forest(loops') /\ Lined(loops') /\ Forest(loops) /\ Lined(loops)
  BY DEF IInv, Typed
<1>4. Storer(loops', currloop', compile_level', loop_execute')
        = [open |-> Append(BeforeOf(loops', n), ValueOf(loops', n)), due |-> << >>]
  BY <1>1, <1>2 DEF Storer
<1>5. ASSUME n \in DOMAIN loops', loops'[n].cmds = << >> PROVE ValueOf(loops', n) = << >>
  <2>1. IsBody(loops', n, ValueOf(loops', n))
    BY <1>3, <1>5, ValueFacts
  <2>2. Row(ValueOf(loops', n)) /\ Len(ValueOf(loops', n)) = 0
    BY <1>5, <2>1 DEF IsBody
  <2> QED
    BY <2>2, RowLen
<1>6. CASE Nested
  <2> DEFINE p == currloop
             b == BeforeOf(loops, p)
             v == ValueOf(loops, p)
  <2>1. /\ n \notin DOMAIN loops /\ p \in DOMAIN loops /\ Attached(loops, loops', p, n)
    BY <1>6, BeginInside
  <2>2. Edited(loops, loops', p)
    BY <2>1 DEF Edited, Attached
  <2>3. AtLast(loops, p)
    BY <1>2, <1>6 DEF Placed
  <2>4. BeforeOf(loops', p) = b
    BY <1>3, <2>1, <2>2, <2>3, EditedBefore
  <2>5. \A j \in DOMAIN loops[p].cmds : KidsAt(loops', p, j) = KidsAt(loops, p, j)
    <3>1. loops[p].children \in Seq(Address) /\ loops[p].cmds \in Seq(Op) /\ n \in Address
      BY <1>3, <1>6, <2>1, BeginInside DEF Forest, LoopSet
    <3>2. Kids(loops', p) = Kids(loops, p) \cup {n}
      BY <2>1, <3>1, RangeOfAppend DEF Kids, Attached
    <3>3. \A j \in DOMAIN loops[p].cmds : loops'[n].parent_line # j
      <4>1. DOMAIN loops[p].cmds = 1 .. Len(loops[p].cmds) /\ Len(loops[p].cmds) \in Nat
        BY <3>1, LenProperties
      <4> QED
        BY <2>1, <4>1 DEF Attached
    <3>4. \A c \in Kids(loops, p) : c \in DOMAIN loops
      BY <1>3, <2>1, ParentFacts
    <3>5. \A c \in DOMAIN loops : loops'[c].parent_line = loops[c].parent_line
      BY <2>2 DEF Edited
    <3> QED
      BY <3>2, <3>3, <3>4, <3>5 DEF KidsAt
  <2>6. Front(ValueOf(loops', p)) = v
    <3>1. "loop" \in Op /\ loops'[p].cmds = Append(loops[p].cmds, "loop")
      BY <2>1 DEF Op, Attached
    <3> QED
      BY <1>3, <2>1, <2>2, <2>5, <3>1, EditedBody
  <2>7. n \in DOMAIN loops' /\ loops'[n].cmds = << >> /\ loops'[n].parent = p /\ p # NULL
    <3>1. p # NULL
      BY <1>2, <1>6, StoringFacts
    <3> QED
      BY <2>1, <3>1 DEF Attached
  <2>8. BeforeOf(loops', n) = Append(b, v)
    BY <1>3, <2>4, <2>6, <2>7, BeforeStep
  <2>9. B!Reads /\ B!Top = [open |-> Append(b, v), due |-> << >>]
    BY <1>2, <1>6, StorerFacts
  <2>10. Held
    BY <1>1, <1>2, <1>3, <1>6, <2>2, StoringHeld
  <2>11. B!SetTop(Storer(loops', currloop', compile_level', loop_execute'))
    BY <1>1, <1>2, <2>10, TopSet
  <2> HIDE DEF b, v
  <2>12. [B!Top EXCEPT !.open = Append(@, << >>)]
           = [open |-> Append(Append(b, v), << >>), due |-> << >>]
    <3> DEFINE r == B!Top
               t == Append(b, v)
    <3>1. r = [open |-> t, due |-> << >>]
      BY <2>9
    <3> HIDE DEF r, t
    <3>2. [r EXCEPT !.open = Append(@, << >>)] = [open |-> Append(t, << >>), due |-> << >>]
      BY <3>1
    <3> QED
      BY <3>2 DEF r, t
  <2>13. ValueOf(loops', n) = << >>
    BY <1>5, <2>7
  <2>14. B!Open
    BY <1>4, <2>8, <2>9, <2>11, <2>12, <2>13 DEF B!Open
  <2> QED
    BY <2>14 DEF Mapped, B!Next
<1>7. CASE ~Nested
  <2>1. /\ DOMAIN loops' = DOMAIN loops \cup {n} /\ loops'[n].parent = NULL
        /\ loops'[n].cmds = << >> /\ \A l \in DOMAIN loops : loops'[l] = loops[l]
    BY <1>7, BeginOutside, BornFacts
  <2>2. BeforeOf(loops', n) = << >> /\ ValueOf(loops', n) = << >>
    BY <1>3, <1>5, <2>1, BeforeStep
  <2>3. Held
    <3>1. Closed(loops, DOMAIN loops)
      BY <1>3, ParentFacts DEF Closed
    <3>2. \A l \in DOMAIN loops : /\ loops'[l].cmds = loops[l].cmds
                                  /\ \A j : KidsAt(loops', l, j) = KidsAt(loops, l, j)
      BY <2>1, <3>1 DEF KidsAt, Kids, Closed
    <3>3. \A l \in DOMAIN loops : ValueOf(loops', l) = ValueOf(loops, l)
      BY <1>3, <2>1, <3>1, <3>2, ValueKept
    <3> QED
      BY <1>1, <3>3, StateFacts DEF Held
  <2>4. B!SetTop(Storer(loops', currloop', compile_level', loop_execute'))
    BY <1>1, <1>2, <2>3, TopSet
  <2>5. ~(compile_level > 0)
    BY <1>2, <1>7
  <2>6. /\ Activities # << >> /\ B!IsReader(B!Top)
        /\ B!Top = [open |-> << >>, due |-> << >>]
    BY <1>2, <2>5, ViewStorer DEF Storer
  <2>7. B!Reads
    BY <2>6 DEF B!Reads
  <2>8. [B!Top EXCEPT !.open = Append(@, << >>)]
          = [open |-> Append(<< >>, << >>), due |-> << >>]
    BY <2>6
  <2>9. B!Open
    BY <1>4, <2>2, <2>4, <2>7, <2>8 DEF B!Open
  <2> QED
    BY <2>9 DEF Mapped, B!Next
<1> QED
  BY <1>6, <1>7

\* A loop inside is the last line of the one around it.
LEMMA LastIsInner ==
  ASSUME NEW S, Forest(S), Lined(S), NEW c \in DOMAIN S, S[c].parent # NULL, AtLast(S, c)
  PROVE  LET w == ValueOf(S, S[c].parent)
         IN  Row(w) /\ Append(Front(w), [op |-> "loop", body |-> ValueOf(S, c)]) = w
<1> DEFINE q == S[c].parent
           w == ValueOf(S, q)
           n == Len(S[q].cmds)
<1>1. q \in DOMAIN S /\ c \in Kids(S, q)
  BY ParentFacts
<1>2. S[c].parent_line = n
  BY UnderFacts DEF AtLast
<1>3. S[q].cmds \in Seq(Op) /\ n \in DOMAIN S[q].cmds
  BY <1>1, <1>2 DEF Forest, LoopSet, Lined
<1>4. n \in Nat /\ n > 0 /\ n \in 1 .. n
  BY <1>3, LenProperties
<1>5. c \in KidsAt(S, q, n)
  BY <1>1, <1>2 DEF KidsAt
<1>6. S[q].cmds[n] = "loop"
  BY <1>1, <1>3, <1>5 DEF Lined
<1>7. IsBody(S, q, w)
  BY <1>1, ValueFacts
<1>8. Row(w) /\ Len(w) = n /\ w[n] = [op |-> "loop", body |-> ValueOf(S, c)]
  BY <1>4, <1>5, <1>6, <1>7 DEF IsBody
<1> HIDE DEF w, n
<1>9. Append(Front(w), w[Len(w)]) = w
  BY <1>4, <1>8, AppendOfFront
<1> QED
  BY <1>8, <1>9 DEF w

\* A loop is complete, or is part of the one around it.
LEMMA SimEndLoop == ASSUME IInv, Placed, EndLoop PROVE Mapped
<1> DEFINE c == currloop
           b == BeforeOf(loops, c)
           v == ValueOf(loops, c)
           o == Append(b, v)
           new == Storer(loops', currloop', compile_level', loop_execute')
<1>1. /\ compile_level > 0 /\ acts # << >> /\ Top.kind # "loop" /\ ~loop_execute
      /\ c \in DOMAIN loops
      /\ loops' = loops /\ acts' = acts /\ compile_level' = compile_level - 1
      /\ compile_level = 1 => loops[c].parent = NULL /\ currloop' = c /\ loop_execute'
      /\ compile_level # 1 =>
           /\ loops[c].parent # NULL /\ currloop' = loops[c].parent
           /\ compile_level' > 0 /\ ~loop_execute'
  BY EndLoopFacts
<1>2. Forest(loops) /\ Lined(loops) /\ AtLast(loops, c)
  BY <1>1, StateFacts DEF Placed
<1>3. Held
  BY <1>1 DEF Held
<1>4. B!SetTop(new)
  BY <1>1, <1>3, TopSet
<1>5. /\ B!Reads /\ B!Top = [open |-> o, due |-> << >>] /\ Row(b) /\ Row(v)
      /\ o # << >> /\ B!Last(o) = v /\ B!Front(o) = b
  BY <1>1, StorerFacts
<1>6. CASE compile_level = 1
  <2>1. b = << >>
    BY <1>1, <1>2, <1>6, BeforeStep
  <2>2. new = [open |-> << >>, due |-> <<v>>]
    BY <1>1, <1>6 DEF Storer
  <2> HIDE DEF b, v, o, new
  <2>3. B!Close
    BY <1>4, <1>5, <2>1, <2>2 DEF B!Close
  <2> QED
    BY <2>3 DEF Mapped, B!Next
<1>7. CASE compile_level # 1
  <2> DEFINE q == loops[c].parent
             d == BeforeOf(loops, q)
             w == ValueOf(loops, q)
  <2>1. b = Append(d, Front(w))
    BY <1>1, <1>2, <1>7, BeforeStep
  <2>2. q \in DOMAIN loops
    BY <1>1, <1>2, <1>7, ParentFacts
  <2>3. Row(d)
    BY <1>2, <2>2, BeforeIsRow
  <2>4. new = [open |-> Append(d, w), due |-> << >>]
    BY <1>1, <1>7 DEF Storer
  <2>5. Append(Front(w), B!InnerLoop(v)) = w
    BY <1>1, <1>2, <1>7, LastIsInner DEF B!InnerLoop
  <2> HIDE DEF v, d, w, new, o
  <2>6. /\ Row(b) /\ Len(b) = Len(d) + 1 /\ Len(d) \in Nat /\ b[Len(d) + 1] = Front(w)
    BY <2>1, <2>3, RowAppend, RowLen
  <2>7. Front(b) = d
    BY <2>1, <2>3, FrontOfAppend
  <2> HIDE DEF b
  <2>8. b # << >> /\ B!Last(b) = Front(w) /\ B!Front(b) = d
    BY <2>6, <2>7, RowLen, OwnEnds
  <2>9. [B!Top EXCEPT !.open = Append(d, w)] = [open |-> Append(d, w), due |-> << >>]
    <3> DEFINE e == Append(d, w)
               r == B!Top
    <3>1. r = [open |-> o, due |-> << >>]
      BY <1>5
    <3> HIDE DEF e, r
    <3>2. [r EXCEPT !.open = e] = [open |-> e, due |-> << >>]
      BY <3>1
    <3> QED
      BY <3>2 DEF e, r
  <2>10. B!Top.open = o
    BY <1>5
  <2>11. B!SetTop([B!Top EXCEPT !.open =
            Append(B!Front(b), Append(B!Last(b), B!InnerLoop(v)))])
    BY <1>4, <2>4, <2>5, <2>8, <2>9
  <2>12. B!Close
    BY <1>5, <2>8, <2>10, <2>11 DEF B!Close
  <2> QED
    BY <2>12 DEF Mapped, B!Next
<1> QED
  BY <1>6, <1>7

\* A function or a script is at its end.
LEMMA SimReaderEnds ==
  ASSUME IInv, acts # << >>, Top.kind # "loop", acts' = Front(acts), ~Stocked', Held
  PROVE  Mapped
<1>1. Activities' = B!Front(Activities)
  BY TopEnds
<1>2. Activities # << >> /\ B!IsReader(B!Top)
  BY ViewStorer
<1> QED
  BY <1>1, <1>2 DEF Mapped, B!Next, B!End

\* The loops executed under a reader that ends.
LEMMA HeldBelow ==
  ASSUME IInv, acts # << >>, Top.kind # "loop", acts' = Front(acts),
         \A i \in LoopsOf(acts) : ValueOf(loops', acts[i].loop) = ValueOf(loops, acts[i].loop)
  PROVE  Held
<1>1. LoopsOf(acts') = LoopsOf(acts) /\ \A i \in LoopsOf(acts') : acts'[i].loop = acts[i].loop
  BY ReaderEnds DEF Kept
<1> QED
  BY <1>1 DEF Held

\* A function, or a script run from one, ends.
LEMMA SimReturn == ASSUME Orderly, IInv, Return PROVE Mapped
<1>1. /\ acts # << >> /\ Top.kind \in {"func", "run"} /\ acts' = Front(acts)
      /\ UNCHANGED <<loops, compile_level, loop_execute>>
  BY DEF Return, Pop, compiler
<1>2. compile_level = 0 /\ ~loop_execute
  BY <1>1, ReturnFacts
<1>3. ~Stocked'
  BY <1>1, <1>2 DEF Stocked
<1>4. Held
  BY <1>1, HeldBelow
<1> QED
  BY <1>1, <1>3, <1>4, SimReaderEnds

\* A script ends, and the loops it was storing go.
LEMMA SimEndScript == ASSUME IInv, EndScript PROVE Mapped
<1>1. /\ acts # << >> /\ Top.kind = "script" /\ acts' = Front(acts)
      /\ loop_execute' = loop_execute
  BY DEF EndScript, Pop
<1>2. Top.comp0 = 0 /\ compile_level \in Nat /\ ~loop_execute
  BY EndScriptFacts
<1>3. CASE compile_level = 0
  <2>1. loops' = loops /\ compile_level' = 0
    BY <1>2, <1>3 DEF EndScript
  <2>2. Held /\ ~Stocked'
    BY <1>1, <1>2, <2>1, HeldBelow DEF Stocked
  <2> QED
    BY <1>1, <2>2, SimReaderEnds
<1>4. CASE compile_level > 0
  <2>1. DestroyStack(currloop) /\ currloop # NULL
    BY <1>2, <1>4, StoringFacts DEF EndScript
  <2>2. gretl_loop_destroy(Root(currloop)) /\ compile_level' = 0
    BY <2>1 DEF DestroyStack
  <2>3. \A i \in LoopsOf(acts) : ValueOf(loops', acts[i].loop) = ValueOf(loops, acts[i].loop)
    BY <1>4, <2>2, StackValues
  <2>4. Held /\ ~Stocked'
    BY <1>1, <1>2, <2>2, <2>3, HeldBelow DEF Stocked
  <2> QED
    BY <1>1, <2>4, SimReaderEnds
<1> QED
  BY <1>2, <1>3, <1>4

\* A loop ends; the others executed stay.
LEMMA SimLoopEnds == ASSUME IInv, LoopEnds PROVE Mapped
<1> DEFINE n == Len(acts)
           r == Top.loop
<1>1. /\ acts # << >> /\ Top.kind = "loop" /\ acts' = Front(acts)
      /\ compile_level' = compile_level /\ loop_execute' = loop_execute
      /\ IF loops[r].parent = NULL THEN gretl_loop_destroy(r) ELSE loops' = loops
  BY DEF LoopEnds, Pop
<1>2. ~Stocked /\ ~Stocked'
  BY <1>1, IdleFacts DEF Stocked
<1>3. /\ Shape(loops, acts) /\ Nesting(loops, acts) /\ Top = acts[n]
      /\ n \in LoopsOf(acts) /\ DOMAIN acts = 1 .. n /\ n \in Nat /\ r \in DOMAIN loops
      /\ Forest(loops)
  BY <1>1, StateFacts DEF Shape, LoopsOf
<1>4. /\ LoopsOf(acts') = LoopsOf(acts) \ {n} /\ Kept(acts', acts)
  BY <1>1, <1>3, ShapePop
<1>5. \A i \in LoopsOf(acts') : /\ i \in LoopsOf(acts) /\ i \in DOMAIN acts /\ i < n
                                /\ acts'[i].loop = acts[i].loop
  BY <1>3, <1>4 DEF Kept, LoopsOf
<1> HIDE DEF n
<1>6. Held
  <2>1. CASE loops[r].parent = NULL
    <3>1. \A i \in LoopsOf(acts') : RootOf(loops, acts'[i].loop) # r
      BY <1>3, <1>5, <2>1 DEF Nesting, LoopsOf
    <3>2. \A i \in LoopsOf(acts') : acts'[i].loop \in DOMAIN loops
      BY <1>5, StateFacts
    <3>3. \A l \in DOMAIN loops : RootOf(loops, l) # r => ValueOf(loops', l) = ValueOf(loops, l)
      BY <1>1, <1>3, <2>1, DestroyValues
    <3> QED
      BY <3>1, <3>2, <3>3 DEF Held
  <2>2. CASE loops[r].parent # NULL
    BY <1>1, <2>2 DEF Held
  <2> QED
    BY <2>1, <2>2
<1>7. Activities' = B!Front(Activities)
  BY <1>1, <1>2, <1>6, TopEnds
<1>8. B!Runs
  BY <1>1, BodyFacts
<1> QED
  BY <1>7, <1>8 DEF Mapped, B!Next, B!Leave

\* Every step is one of LoopBodies, or none.
LEMMA SimNext ==
  ASSUME Orderly, IInv, Placed, [Next]_vars
  PROVE  Mapped
<1>1. IInv'
  BY NextStep
<1>2. CASE StartScript
  BY <1>2, SimStartScript
<1>3. CASE EndScript
  BY <1>3, SimEndScript
<1>4. CASE Return
  BY <1>4, SimReturn
<1>5. CASE BeginLoop
  BY <1>1, <1>5, SimBeginLoop
<1>6. CASE BeginFails
  BY <1>6, SimBeginFails
<1>7. CASE StoreLine
  BY <1>1, <1>7, SimStoreLine
<1>8. CASE Refused
  BY <1>8, SimRefused
<1>9. CASE EndLoop
  BY <1>9, SimEndLoop
<1>10. CASE Call \/ Run
  BY <1>10, SimCall
<1>11. CASE Fails \/ LoopFails \/ Unparsed
  BY <1>11, SimRaises
<1>12. CASE RunLoop
  BY <1>12, SimRunLoop
<1>13. CASE Iterate \/ LoopLine \/ EndOfBody
  BY <1>13, SimGoto
<1>14. CASE LoopCall
  BY <1>14, SimLoopCall
<1>15. CASE InnerLoop
  BY <1>15, SimInnerLoop
<1>16. CASE LoopEnds
  BY <1>16, SimLoopEnds
<1>17. CASE UNCHANGED vars
  <2>1. UNCHANGED <<loops, acts, currloop, compile_level, loop_execute>>
    BY <1>17 DEF vars
  <2> QED
    BY <2>1, OwnActivities DEF Mapped
<1> QED
  BY <1>2, <1>3, <1>4, <1>5, <1>6, <1>7, <1>8, <1>9, <1>10, <1>11, <1>12, <1>13, <1>14,
     <1>15, <1>16, <1>17 DEF Next

\* Nothing is under execution at first.
LEMMA SimInit == Init => B!Init /\ Placed
<1> SUFFICES ASSUME Init PROVE B!Init /\ Placed
  OBVIOUS
<1>1. IInv /\ acts = << >> /\ compile_level = 0 /\ ~loop_execute
  BY InitFacts DEF Init
<1>2. Activities = Lows(loops, acts) /\ acts \in Seq(Activity) /\ Len(acts) = 0
  BY <1>1, OwnActivities, ShowsIdle, StateFacts
<1>3. Row(Activities) /\ Len(Activities) = 0
  BY <1>2, LowsRow
<1>4. Activities = << >>
  BY <1>3, RowLen
<1> QED
  BY <1>1, <1>4 DEF B!Init, Placed

\* The structures tied by pointers and the static variables that every script,
\* function and loop uses implement loops that are values: each is stored by
\* its own reader, and what is executed is what was read.
THEOREM BodiesImplemented == ASSUME Orderly PROVE Spec => ImplementsBodies
<1>1. Init => B!Init /\ IInv /\ Placed
  BY InitFacts, SimInit
<1>2. IInv /\ Placed /\ [Next]_vars => IInv' /\ Placed' /\ [B!Next]_Activities
  BY NextStep, PlacedStep, SimNext DEF Mapped
<1> QED
  BY <1>1, <1>2, PTL DEF Spec, ImplementsBodies, B!Spec
=============================================================================
