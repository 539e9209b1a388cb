---------------------------- MODULE CallsProofs -----------------------------
(***************************************************************************)
(* Proofs about Calls, for any functions, names, variables and depth of    *)
(* calls.                                                                  *)
(*                                                                         *)
(* The invariant, IInv, says for each level of execution what is lent to   *)
(* it: LoansOf derives that from what the calls recorded and from the      *)
(* flags as they are now, as the end of a call does.  What is lent has     *)
(* been moved up from one level to the next, so that there is a place for  *)
(* it to come back to (Lending), and nothing else takes its name there     *)
(* (Named); the owner of the value of a shell is lent to a level at which  *)
(* the shell stays (Shells); the series a call has found are still there   *)
(* (Keeping).  These make up Sound, with what is lent (G) and what was     *)
(* found (O) as parameters, so that it can be stated in the middle of a    *)
(* call and of a return as well.                                           *)
(*                                                                         *)
(* The second half is the refinement of Scopes, by the invariant RInv.     *)
(***************************************************************************)
EXTENDS Calls, SequenceTheorems, FiniteSetTheorems, WellFoundedInduction, TLAPS

-----------------------------------------------------------------------------
(***************************************************************************)
(* The invariant                                                           *)
(***************************************************************************)

\* Without the disagreements after which a variable is lent twice, or the flags
\* of a call that is under way are those of another one.
Distinct == Faults \cap {"shared", "twice"} = {}

\* What the fields of a variable are.
Variable == [name : Names, level : Nat, val : 0 .. 2, of : Nat]

\* What a call records of an argument.
Argument == [var : Nat, upname : Names \cup {None}, shifted : BOOLEAN]

\* What a call records.
Frame == [fun : Funs, args : Seq(Argument), ptrvars : SUBSET Nat, orig : SUBSET Nat]

\* A variable is lent: its name at the caller's level and that of the parameter.
Loan == [var : Nat, up : Names, par : Names]

\* GoesBack for the given flags.
Back(imm, c, k) ==
    LET arg == c.args[k]
    IN  IF ByRef(c.fun, k) \/ arg.upname \notin Series
        THEN ByRef(c.fun, k) \/ arg.shifted
        ELSE imm[c.fun][k]

\* The k-th argument of a call, as a loan.
LoanOf(c, k) ==
    [var |-> c.args[k].var, up |-> c.args[k].upname, par |-> Params[c.fun][k].name]

\* What is lent to a call.
Loans(imm, c) == {LoanOf(c, k) : k \in {j \in DOMAIN c.args : Back(imm, c, j)}}

\* The same for each of the running calls.
LoansOf(imm, cs) == [i \in 1 .. Len(cs) |-> Loans(imm, cs[i])]

\* The series that each of them found.
OrigsOf(cs) == [i \in 1 .. Len(cs) |-> cs[i].orig]

\* The variables that are lent.
Borrowed(L) == {l.var : l \in L}

\* Variables with levels up to n, of which some are lent.
Typed(U, G, n) ==
    /\ U \in [DOMAIN U -> Variable] /\ DOMAIN U \subseteq Nat \ {0} /\ IsFiniteSet(DOMAIN U)
    /\ n \in Nat /\ \A v \in DOMAIN U : U[v].level <= n
    /\ \A i \in 1 .. n : G[i] \subseteq Loan

\* The loan l to level i: the variable has been moved up from one level to the
\* next, and is to be found under the name of the parameter of the last.
IsLent(U, G, n, i, l) ==
    /\ l.var \in DOMAIN U /\ i <= U[l.var].level
    /\ (l.up \in Series) = (l.par \in Series)
    /\ U[l.var].level = i => U[l.var].name = l.par
    /\ \A j \in i + 1 .. U[l.var].level : l.var \in Borrowed(G[j])
    /\ i < n => \A m \in G[i + 1] : m.var = l.var => m.up = l.par
    /\ \A m \in G[i] : m.var = l.var => m = l

\* Everything that is lent is lent in this way.
Lending(U, G, n) == \A i \in 1 .. n : \A l \in G[i] : IsLent(U, G, n, i, l)

\* x is the name of v at level i, where it is or from where it is lent.
IsCalled(U, G, n, i, v, x) ==
    \/ (U[v].level = i /\ U[v].name = x)
    \/ (i < n /\ \E l \in G[i + 1] : l.var = v /\ l.up = x)

\* At each level a name is that of one variable, those that are lent included.
Named(U, G, n) ==
    \A i \in 0 .. n : \A v, w \in DOMAIN U : \A x \in Names :
        IsCalled(U, G, n, i, v, x) /\ IsCalled(U, G, n, i, w, x) => v = w

\* The owner o of the value of a shell v: it is lent to a level at which the
\* shell stays.
IsShell(U, G, v, o) ==
    /\ o \in DOMAIN U /\ U[o].of = 0
    /\ U[v].name \notin Series
    /\ \E i \in 1 .. U[v].level :
          /\ o \in Borrowed(G[i])
          /\ \A j \in 1 .. i : v \notin Borrowed(G[j])

\* Every shell has an owner of this kind.
Shells(U, G) == \A v \in DOMAIN U : U[v].of # 0 => IsShell(U, G, v, U[v].of)

\* The series that there were at a call to level i are below it, or lent to it.
Kept(U, G, i, orig) ==
    \A v \in orig :
        /\ v \in DOMAIN U /\ U[v].name \in Series
        /\ (U[v].level < i \/ v \in Borrowed(G[i]))

\* The same at every level.
Keeping(U, G, O, n) == \A i \in 1 .. n : Kept(U, G, i, O[i])

\* The variables U, with what is lent to each level and the series that each
\* call has found.
Sound(U, G, O, n) ==
    /\ Typed(U, G, n) /\ Lending(U, G, n) /\ Named(U, G, n) /\ Shells(U, G)
    /\ Keeping(U, G, O, n)

\* A flag for each parameter of each function.
Flags(imm) == DOMAIN imm = Funs /\ \A f \in Funs : imm[f] \in [DOMAIN Params[f] -> BOOLEAN]

\* What a call has recorded of its arguments: one that is no series and was
\* moved without being a pointer is constant.
Recorded(imm, c) ==
    /\ DOMAIN c.args \subseteq DOMAIN Params[c.fun]
    /\ \A k \in DOMAIN c.args : c.args[k].shifted => imm[c.fun][k]

\* The variables are within bounds, and none has lost its value.
Bounded(U) ==
    /\ DOMAIN U \subseteq 1 .. MaxVars
    /\ "return" \notin Faults => \A v \in DOMAIN U : U[v].val \in 0 .. 1

\* The invariant.
IInv ==
    /\ callstack \in Seq(Frame) /\ Depth <= MaxDepth /\ Flags(immut)
    /\ Sound(uvars, LoansOf(immut, callstack), OrigsOf(callstack), Depth)
    /\ \A i \in 1 .. Depth : Recorded(immut, callstack[i])
    /\ Bounded(uvars)

-----------------------------------------------------------------------------
(***************************************************************************)
(* Sets of numbers, and new variables                                      *)
(***************************************************************************)

\* A set of numbers has a least element.
LEMMA Least ==
  ASSUME NEW T, T \subseteq Nat, T # {} PROVE \E x \in T : \A y \in T : x <= y
<1> DEFINE LT == {ss \in Nat \X Nat : ss[1] < ss[2]}
<1>1. OpToRel(<, Nat) = LT
  BY DEF OpToRel
<1>2. IsWellFoundedOn(LT, Nat)
  BY <1>1, NatLessThanWellFounded
<1>3. PICK x \in T : \A y \in T : <<y, x>> \notin LT
  <2> HIDE DEF LT
  <2> QED
    BY <1>2, WFMin
<1>4. \A y \in T : ~(y < x)
  BY <1>3
<1> QED
  BY <1>4

\* Min of a set of numbers is its least element.
LEMMA MinFacts ==
  ASSUME NEW T, T \subseteq Nat, T # {} PROVE Min(T) \in T
<1>1. PICK x \in T : \A y \in T : x <= y
  BY Least
<1> QED
  BY <1>1 DEF Min

\* A new variable has a number that is not in use.
LEMMA FreshFacts ==
  ASSUME NEW U, DOMAIN U \subseteq Nat \ {0}, IsFiniteSet(DOMAIN U)
  PROVE  /\ Fresh(U) \notin DOMAIN U /\ Fresh(U) \in Nat \ {0}
         /\ Fresh(U) <= Cardinality(DOMAIN U) + 1 /\ Cardinality(DOMAIN U) \in Nat
<1> DEFINE D == DOMAIN U
           c == Cardinality(D)
           T == (1 .. c + 1) \ D
<1>1. c \in Nat
  BY FS_CardinalityType
<1>2. T # {}
  <2> SUFFICES ASSUME T = {} PROVE FALSE
    OBVIOUS
  <2>1. 1 .. c + 1 \in SUBSET D
    OBVIOUS
  <2>2. Cardinality(1 .. c + 1) <= c
    <3>1. IsFiniteSet(D)
      OBVIOUS
    <3> HIDE DEF D
    <3> QED
      BY <2>1, <3>1, FS_Subset
  <2>3. Cardinality(1 .. c + 1) = c + 1
    <3>1. 1 \in Int /\ c + 1 \in Int /\ ~(1 > c + 1) /\ (c + 1) - 1 + 1 = c + 1
      BY <1>1
    <3> HIDE DEF c
    <3> QED
      BY <3>1, FS_Interval
  <2> HIDE DEF c
  <2> QED
    BY <2>2, <2>3, <1>1
<1>3. T \subseteq Nat
  OBVIOUS
<1>4. Min(T) \in T
  <2> HIDE DEF T
  <2> QED
    BY <1>2, <1>3, MinFacts
<1>5. Fresh(U) = Min(T)
  BY DEF Fresh
<1> HIDE DEF c
<1>6. \A x \in T : x \notin D /\ x \in Nat \ {0} /\ x <= c + 1
  BY <1>1
<1> QED
  BY <1>1, <1>4, <1>5, <1>6 DEF c

\* A variable is added, and the others stay.
LEMMA AddFacts ==
  ASSUME NEW U, DOMAIN U \subseteq Nat \ {0}, IsFiniteSet(DOMAIN U),
         NEW x, NEW n, NEW val, NEW of
  PROVE  /\ DOMAIN Add(U, x, n, val, of) = DOMAIN U \cup {Fresh(U)}
         /\ Add(U, x, n, val, of)[Fresh(U)] =
                [name |-> x, level |-> n, val |-> val, of |-> of]
         /\ \A v \in DOMAIN U : Add(U, x, n, val, of)[v] = U[v]
         /\ IsFiniteSet(DOMAIN U \cup {Fresh(U)})
         /\ Cardinality(DOMAIN U \cup {Fresh(U)}) = Cardinality(DOMAIN U) + 1
         /\ Add(U, x, n, val, of) \in [DOMAIN U \cup {Fresh(U)} ->
                {U[v] : v \in DOMAIN U} \cup {[name |-> x, level |-> n, val |-> val, of |-> of]}]
<1>1. Fresh(U) \notin DOMAIN U
  BY FreshFacts
<1>2. IsFiniteSet(DOMAIN U \cup {Fresh(U)}) /\ Cardinality(DOMAIN U \cup {Fresh(U)}) = Cardinality(DOMAIN U) + 1
  BY <1>1, FS_AddElement
<1> HIDE DEF Fresh
<1> QED
  BY <1>1, <1>2 DEF Add

-----------------------------------------------------------------------------
(***************************************************************************)
(* Changes of the variables that leave them sound                          *)
(***************************************************************************)

\* What is lent is a variable there is, at the level it is lent to or above.
LEMMA BorrowedFacts ==
  ASSUME NEW U, NEW G, NEW O, NEW n, Sound(U, G, O, n),
         NEW i \in 1 .. n, NEW v \in Borrowed(G[i])
  PROVE  /\ v \in DOMAIN U /\ i <= U[v].level /\ U[v].level \in 0 .. n
         /\ \A j \in i + 1 .. U[v].level : v \in Borrowed(G[j])
         /\ \E l \in G[i] : l.var = v /\ l \in Loan /\ IsLent(U, G, n, i, l)
<1>1. PICK l \in G[i] : l.var = v
  BY DEF Borrowed
<1>2. IsLent(U, G, n, i, l) /\ l \in Loan
  BY DEF Sound, Lending, Typed
<1>3. v \in DOMAIN U /\ i <= U[v].level /\ \A j \in i + 1 .. U[v].level : v \in Borrowed(G[j])
  BY <1>1, <1>2 DEF IsLent
<1>4. U[v] \in Variable /\ U[v].level <= n /\ n \in Nat
  BY <1>3 DEF Sound, Typed
<1>5. U[v].level \in 0 .. n
  BY <1>4 DEF Variable
<1> QED
  BY <1>1, <1>2, <1>3, <1>5

\* A variable of the current level, or a shell for something that is lent.
LEMMA SoundAdd ==
  ASSUME NEW U, NEW G, NEW O, NEW n, Sound(U, G, O, n),
         NEW x \in Names, NEW val \in 0 .. 2, NEW of \in Nat,
         \A v \in DOMAIN U : ~(U[v].level = n /\ U[v].name = x),
         of # 0 => /\ of \in DOMAIN U /\ U[of].of = 0 /\ x \notin Series
                   /\ \E i \in 1 .. n : of \in Borrowed(G[i])
  PROVE  Sound(Add(U, x, n, val, of), G, O, n)
<1> DEFINE V == Add(U, x, n, val, of)
           new == Fresh(U)
           r == [name |-> x, level |-> n, val |-> val, of |-> of]
<1>1. /\ U \in [DOMAIN U -> Variable] /\ DOMAIN U \subseteq Nat \ {0} /\ IsFiniteSet(DOMAIN U)
      /\ n \in Nat /\ \A v \in DOMAIN U : U[v].level <= n
      /\ \A i \in 1 .. n : G[i] \subseteq Loan
  BY DEF Sound, Typed
<1>2. /\ DOMAIN V = DOMAIN U \cup {new} /\ V[new] = r /\ \A v \in DOMAIN U : V[v] = U[v]
      /\ IsFiniteSet(DOMAIN V) /\ V \in [DOMAIN V -> {U[v] : v \in DOMAIN U} \cup {r}]
  BY <1>1, AddFacts
<1>3. new \notin DOMAIN U /\ new \in Nat \ {0}
  BY <1>1, FreshFacts
<1>4. r \in Variable /\ r.name = x /\ r.level = n /\ r.of = of
  BY <1>1 DEF Variable
<1> HIDE DEF V, new, r
<1>5. \A i \in 1 .. n : new \notin Borrowed(G[i])
  BY <1>3, BorrowedFacts
<1>6. Typed(V, G, n)
  <2>1. {U[v] : v \in DOMAIN U} \cup {r} \subseteq Variable
    BY <1>1, <1>4
  <2>2. V \in [DOMAIN V -> Variable]
    BY <1>2, <2>1
  <2>3. \A v \in DOMAIN V : V[v].level <= n
    BY <1>1, <1>2, <1>4
  <2>4. DOMAIN V \subseteq Nat \ {0}
    BY <1>1, <1>2, <1>3
  <2> QED
    BY <1>1, <1>2, <2>2, <2>3, <2>4 DEF Typed
<1>7. Lending(V, G, n)
  <2> SUFFICES ASSUME NEW i \in 1 .. n, NEW l \in G[i] PROVE IsLent(V, G, n, i, l)
    BY DEF Lending
  <2>1. IsLent(U, G, n, i, l)
    BY DEF Sound, Lending
  <2>2. l.var \in DOMAIN U
    BY <2>1 DEF IsLent
  <2>3. V[l.var] = U[l.var] /\ l.var \in DOMAIN V
    BY <2>2, <1>2
  <2> QED
    BY <2>1, <2>3 DEF IsLent
<1>8. Named(V, G, n)
  <2>1. \A i \in 0 .. n : \A v \in DOMAIN V : \A y \in Names :
           IsCalled(V, G, n, i, v, y) =>
              IF v = new THEN i = n /\ y = x ELSE IsCalled(U, G, n, i, v, y)
    <3> SUFFICES ASSUME NEW i \in 0 .. n, NEW v \in DOMAIN V, NEW y \in Names,
                        IsCalled(V, G, n, i, v, y)
                 PROVE  IF v = new THEN i = n /\ y = x ELSE IsCalled(U, G, n, i, v, y)
      OBVIOUS
    <3>1. CASE v = new
      <4>1. ~(i < n /\ \E l \in G[i + 1] : l.var = v /\ l.up = y)
        <5> SUFFICES ASSUME i < n, NEW l \in G[i + 1], l.var = v PROVE FALSE
          OBVIOUS
        <5>1. i + 1 \in 1 .. n
          BY <1>1
        <5> QED
          BY <5>1, <1>5, <3>1 DEF Borrowed
      <4> QED
        BY <3>1, <4>1, <1>2, <1>4 DEF IsCalled
    <3>2. CASE v # new
      <4>1. V[v] = U[v]
        BY <3>2, <1>2
      <4> QED
        BY <3>2, <4>1 DEF IsCalled
    <3> QED
      BY <3>1, <3>2
  <2>2. \A v \in DOMAIN U : ~IsCalled(U, G, n, n, v, x)
    BY <1>1 DEF IsCalled
  <2>3. \A i \in 0 .. n : \A v, w \in DOMAIN U : \A y \in Names :
           IsCalled(U, G, n, i, v, y) /\ IsCalled(U, G, n, i, w, y) => v = w
    BY DEF Sound, Named
  <2> SUFFICES ASSUME NEW i \in 0 .. n, NEW v \in DOMAIN V, NEW w \in DOMAIN V, NEW y \in Names,
                      IsCalled(V, G, n, i, v, y), IsCalled(V, G, n, i, w, y)
               PROVE  v = w
    BY DEF Named
  <2>4. CASE v # new /\ w # new
    BY <2>1, <2>3, <2>4, <1>2
  <2>5. CASE v = new /\ w # new
    BY <2>1, <2>2, <2>5, <1>2
  <2>6. CASE v # new /\ w = new
    BY <2>1, <2>2, <2>6, <1>2
  <2> QED
    BY <2>4, <2>5, <2>6
<1>9. Shells(V, G)
  <2> SUFFICES ASSUME NEW v \in DOMAIN V, V[v].of # 0 PROVE IsShell(V, G, v, V[v].of)
    BY DEF Shells
  <2>1. CASE v # new
    <3>1. v \in DOMAIN U /\ V[v] = U[v]
      BY <2>1, <1>2
    <3>2. IsShell(U, G, v, U[v].of)
      BY <3>1 DEF Sound, Shells
    <3>3. U[v].of \in DOMAIN U
      BY <3>2 DEF IsShell
    <3> QED
      BY <3>1, <3>2, <3>3, <1>2 DEF IsShell
  <2>2. CASE v = new
    <3>1. V[v].of = of /\ V[v].name = x /\ V[v].level = n
      BY <2>2, <1>2, <1>4
    <3>2. of \in DOMAIN U /\ U[of].of = 0 /\ x \notin Series
      BY <3>1
    <3>3. PICK i \in 1 .. n : of \in Borrowed(G[i])
      BY <3>1
    <3>4. \A j \in 1 .. i : j \in 1 .. n
      BY <1>1
    <3> QED
      BY <3>1, <3>2, <3>3, <3>4, <1>2, <1>5, <2>2 DEF IsShell
  <2> QED
    BY <2>1, <2>2
<1>10. Keeping(V, G, O, n)
  <2>1. Keeping(U, G, O, n)
    BY DEF Sound
  <2> QED
    BY <2>1, <1>2 DEF Keeping, Kept
<1> QED
  BY <1>6, <1>7, <1>8, <1>9, <1>10 DEF Sound, V

\* A new level, with nothing at it yet.
LEMMA SoundOpen ==
  ASSUME NEW U, NEW G, NEW O, NEW n, Sound(U, G, O, n), NEW H, NEW P,
         \A i \in 1 .. n : H[i] = G[i] /\ P[i] = O[i],
         H[n + 1] = {}, P[n + 1] = {v \in DOMAIN U : U[v].name \in Series}
  PROVE  Sound(U, H, P, n + 1)
<1>1. /\ U \in [DOMAIN U -> Variable] /\ DOMAIN U \subseteq Nat \ {0} /\ IsFiniteSet(DOMAIN U)
      /\ n \in Nat /\ \A v \in DOMAIN U : U[v].level <= n
      /\ \A i \in 1 .. n : G[i] \subseteq Loan
  BY DEF Sound, Typed
<1>2. \A v \in DOMAIN U : U[v].level \in 0 .. n
  <2>1. \A v \in DOMAIN U : U[v] \in Variable
    BY <1>1
  <2> QED
    BY <1>1, <2>1 DEF Variable
<1>3. \A i \in 1 .. n + 1 : i = n + 1 \/ i \in 1 .. n
  BY <1>1
<1>4. Typed(U, H, n + 1)
  <2>1. n + 1 \in Nat /\ \A v \in DOMAIN U : U[v].level <= n + 1
    BY <1>1, <1>2
  <2>2. \A i \in 1 .. n + 1 : H[i] \subseteq Loan
    BY <1>1, <1>3
  <2> QED
    BY <1>1, <2>1, <2>2 DEF Typed
<1>5. Lending(U, H, n + 1)
  <2> SUFFICES ASSUME NEW i \in 1 .. n + 1, NEW l \in H[i] PROVE IsLent(U, H, n + 1, i, l)
    BY DEF Lending
  <2>1. i \in 1 .. n /\ H[i] = G[i]
    BY <1>3
  <2>2. IsLent(U, G, n, i, l)
    BY <2>1 DEF Sound, Lending
  <2>3. l.var \in DOMAIN U /\ U[l.var].level \in 0 .. n
    BY <1>2, <2>2 DEF IsLent
  <2>4. \A j \in i + 1 .. U[l.var].level : l.var \in Borrowed(H[j])
    <3>1. \A j \in i + 1 .. U[l.var].level : j \in 1 .. n
      BY <2>1, <2>3, <1>1
    <3> QED
      BY <3>1, <2>2 DEF IsLent
  <2>5. i < n + 1 => \A m \in H[i + 1] : m.var = l.var => m.up = l.par
    <3>1. i + 1 = n + 1 \/ (i < n /\ i + 1 \in 1 .. n)
      BY <2>1, <1>1
    <3> QED
      BY <3>1, <2>2 DEF IsLent
  <2>6. \A m \in H[i] : m.var = l.var => m = l
    BY <2>1, <2>2 DEF IsLent
  <2>7. /\ l.var \in DOMAIN U /\ i <= U[l.var].level
        /\ (l.up \in Series) = (l.par \in Series)
        /\ U[l.var].level = i => U[l.var].name = l.par
    BY <2>2 DEF IsLent
  <2> QED
    BY <2>4, <2>5, <2>6, <2>7 DEF IsLent
<1>6. Named(U, H, n + 1)
  <2>1. \A i \in 0 .. n + 1 : \A v \in DOMAIN U : \A x \in Names :
           IsCalled(U, H, n + 1, i, v, x) => i \in 0 .. n /\ IsCalled(U, G, n, i, v, x)
    <3> SUFFICES ASSUME NEW i \in 0 .. n + 1, NEW v \in DOMAIN U, NEW x \in Names,
                        IsCalled(U, H, n + 1, i, v, x)
                 PROVE  i \in 0 .. n /\ IsCalled(U, G, n, i, v, x)
      OBVIOUS
    <3>1. CASE U[v].level = i /\ U[v].name = x
      BY <3>1, <1>2 DEF IsCalled
    <3>2. CASE i < n + 1 /\ \E l \in H[i + 1] : l.var = v /\ l.up = x
      <4>1. i + 1 = n + 1 \/ (i < n /\ i + 1 \in 1 .. n /\ i \in 0 .. n)
        BY <1>1, <3>2
      <4> QED
        BY <4>1, <3>2 DEF IsCalled
    <3> QED
      BY <3>1, <3>2 DEF IsCalled
  <2> QED
    BY <2>1 DEF Sound, Named
<1>7. Shells(U, H)
  <2> SUFFICES ASSUME NEW v \in DOMAIN U, U[v].of # 0 PROVE IsShell(U, H, v, U[v].of)
    BY DEF Shells
  <2>1. IsShell(U, G, v, U[v].of)
    BY DEF Sound, Shells
  <2>2. U[v].level \in 0 .. n
    BY <1>2
  <2>3. \A i \in 1 .. U[v].level : \A j \in 1 .. i : H[i] = G[i] /\ H[j] = G[j]
    <3>1. \A i \in 1 .. U[v].level : i \in 1 .. n /\ \A j \in 1 .. i : j \in 1 .. n
      BY <2>2, <1>1
    <3> QED
      BY <3>1
  <2> QED
    BY <2>1, <2>3 DEF IsShell
<1>8. Keeping(U, H, P, n + 1)
  <2>1. \A i \in 1 .. n : Kept(U, G, i, O[i])
    BY DEF Sound, Keeping
  <2>2. \A i \in 1 .. n : Kept(U, H, i, P[i])
    BY <2>1 DEF Kept
  <2>3. Kept(U, H, n + 1, P[n + 1])
    <3>1. \A v \in DOMAIN U : U[v].level < n + 1
      BY <1>1, <1>2
    <3> QED
      BY <3>1 DEF Kept
  <2> QED
    BY <2>2, <2>3, <1>3 DEF Keeping
<1> QED
  BY <1>4, <1>5, <1>6, <1>7, <1>8 DEF Sound

\* Only what is said of the levels in use matters.
LEMMA SoundSame ==
  ASSUME NEW U, NEW G, NEW O, NEW n, Sound(U, G, O, n), NEW H, NEW P,
         \A i \in 1 .. n : H[i] = G[i] /\ P[i] = O[i]
  PROVE  Sound(U, H, P, n)
<1>1. /\ n \in Nat /\ \A v \in DOMAIN U : U[v] \in Variable /\ U[v].level <= n
  BY DEF Sound, Typed
<1>2. \A v \in DOMAIN U : U[v].level \in 0 .. n
  BY <1>1 DEF Variable
<1>3. Typed(U, H, n)
  BY DEF Sound, Typed
<1>4. \A i \in 1 .. n : \A l \in G[i] : IsLent(U, H, n, i, l)
  <2> SUFFICES ASSUME NEW i \in 1 .. n, NEW l \in G[i] PROVE IsLent(U, H, n, i, l)
    OBVIOUS
  <2>1. IsLent(U, G, n, i, l)
    BY DEF Sound, Lending
  <2>2. l.var \in DOMAIN U /\ U[l.var].level \in 0 .. n
    BY <1>2, <2>1 DEF IsLent
  <2>3. \A j \in i + 1 .. U[l.var].level : j \in 1 .. n
    BY <1>1, <2>2
  <2>4. i < n => i + 1 \in 1 .. n
    BY <1>1
  <2>5. \A j \in i + 1 .. U[l.var].level : l.var \in Borrowed(H[j])
    BY <2>1, <2>3 DEF IsLent
  <2>6. i < n => \A m \in H[i + 1] : m.var = l.var => m.up = l.par
    BY <2>1, <2>4 DEF IsLent
  <2>7. \A m \in H[i] : m.var = l.var => m = l
    BY <2>1 DEF IsLent
  <2>8. /\ l.var \in DOMAIN U /\ i <= U[l.var].level
        /\ (l.up \in Series) = (l.par \in Series)
        /\ U[l.var].level = i => U[l.var].name = l.par
    BY <2>1 DEF IsLent
  <2> QED
    BY <2>5, <2>6, <2>7, <2>8 DEF IsLent
<1>5. Lending(U, H, n)
  BY <1>4 DEF Lending
<1>6. Named(U, H, n)
  <2>1. \A i \in 0 .. n : i < n => i + 1 \in 1 .. n
    BY <1>1
  <2>2. \A i \in 0 .. n : \A v \in DOMAIN U : \A x \in Names :
           IsCalled(U, H, n, i, v, x) => IsCalled(U, G, n, i, v, x)
    BY <2>1 DEF IsCalled
  <2> QED
    BY <2>2 DEF Sound, Named
<1>7. Shells(U, H)
  <2> SUFFICES ASSUME NEW v \in DOMAIN U, U[v].of # 0 PROVE IsShell(U, H, v, U[v].of)
    BY DEF Shells
  <2>1. IsShell(U, G, v, U[v].of)
    BY DEF Sound, Shells
  <2>2. U[v].level \in 0 .. n
    BY <1>2
  <2>3. \A i \in 1 .. U[v].level : i \in 1 .. n /\ \A j \in 1 .. i : j \in 1 .. n
    BY <2>2, <1>1
  <2>4. \A i \in 1 .. U[v].level : \A j \in 1 .. i : H[i] = G[i] /\ H[j] = G[j]
    BY <2>3
  <2> QED
    BY <2>1, <2>4 DEF IsShell
<1>8. Keeping(U, H, P, n)
  BY DEF Sound, Keeping, Kept
<1> QED
  BY <1>3, <1>5, <1>6, <1>7, <1>8 DEF Sound

\* Values do not matter.
LEMMA SoundValue ==
  ASSUME NEW U, NEW G, NEW O, NEW n, Sound(U, G, O, n), NEW V,
         V \in [DOMAIN U -> Variable],
         \A v \in DOMAIN U : V[v].name = U[v].name /\ V[v].level = U[v].level /\ V[v].of = U[v].of
  PROVE  Sound(V, G, O, n)
<1>1. DOMAIN V = DOMAIN U
  OBVIOUS
<1>2. Typed(V, G, n)
  BY <1>1 DEF Sound, Typed
<1>3. Lending(V, G, n)
  <2> SUFFICES ASSUME NEW i \in 1 .. n, NEW l \in G[i] PROVE IsLent(V, G, n, i, l)
    BY DEF Lending
  <2>1. IsLent(U, G, n, i, l)
    BY DEF Sound, Lending
  <2> QED
    BY <2>1, <1>1 DEF IsLent
<1>4. Named(V, G, n)
  BY <1>1 DEF Sound, Named, IsCalled
<1>5. Shells(V, G)
  <2> SUFFICES ASSUME NEW v \in DOMAIN U, U[v].of # 0 PROVE IsShell(V, G, v, U[v].of)
    BY <1>1 DEF Shells
  <2>1. IsShell(U, G, v, U[v].of)
    BY DEF Sound, Shells
  <2> QED
    BY <2>1, <1>1 DEF IsShell
<1>6. Keeping(V, G, O, n)
  BY <1>1 DEF Sound, Keeping, Kept
<1> QED
  BY <1>2, <1>3, <1>4, <1>5, <1>6 DEF Sound

\* A variable that is not lent, and no series, can go.
LEMMA SoundDrop ==
  ASSUME NEW U, NEW G, NEW O, NEW n, Sound(U, G, O, n), NEW v \in DOMAIN U,
         U[v].level = n, U[v].name \notin Series, n # 0 => v \notin Borrowed(G[n])
  PROVE  Sound(Without(U, {v}), G, O, n)
<1> DEFINE V == Without(U, {v})
<1>1. /\ U \in [DOMAIN U -> Variable] /\ DOMAIN U \subseteq Nat \ {0} /\ IsFiniteSet(DOMAIN U)
      /\ n \in Nat /\ \A w \in DOMAIN U : U[w].level <= n
      /\ \A i \in 1 .. n : G[i] \subseteq Loan
  BY DEF Sound, Typed
<1>2. DOMAIN V = DOMAIN U \ {v} /\ \A w \in DOMAIN V : V[w] = U[w]
  BY DEF Without
<1>3. V \in [DOMAIN V -> Variable]
  BY <1>1 DEF Without
<1> HIDE DEF V
<1>4. \A i \in 1 .. n : v \notin Borrowed(G[i])
  <2> SUFFICES ASSUME NEW i \in 1 .. n, v \in Borrowed(G[i]) PROVE FALSE
    OBVIOUS
  <2>1. \A j \in i + 1 .. n : v \in Borrowed(G[j])
    BY BorrowedFacts
  <2>2. n # 0 /\ (i = n \/ n \in i + 1 .. n)
    BY <1>1
  <2> QED
    BY <2>1, <2>2
<1>5. Typed(V, G, n)
  <2>1. IsFiniteSet(DOMAIN V)
    BY <1>1, <1>2, FS_Subset
  <2> QED
    BY <2>1, <1>1, <1>2, <1>3 DEF Typed
<1>6. Lending(V, G, n)
  <2> SUFFICES ASSUME NEW i \in 1 .. n, NEW l \in G[i] PROVE IsLent(V, G, n, i, l)
    BY DEF Lending
  <2>1. IsLent(U, G, n, i, l)
    BY DEF Sound, Lending
  <2>2. l.var # v
    BY <1>4 DEF Borrowed
  <2>3. l.var \in DOMAIN V /\ V[l.var] = U[l.var]
    BY <2>1, <2>2, <1>2 DEF IsLent
  <2> QED
    BY <2>1, <2>3 DEF IsLent
<1>7. Named(V, G, n)
  <2>1. \A i \in 0 .. n : \A w \in DOMAIN V : \A x \in Names :
           IsCalled(V, G, n, i, w, x) => w \in DOMAIN U /\ IsCalled(U, G, n, i, w, x)
    BY <1>2 DEF IsCalled
  <2> QED
    BY <2>1 DEF Sound, Named
<1>8. Shells(V, G)
  <2> SUFFICES ASSUME NEW w \in DOMAIN V, V[w].of # 0 PROVE IsShell(V, G, w, V[w].of)
    BY DEF Shells
  <2>1. V[w] = U[w] /\ w \in DOMAIN U
    BY <1>2
  <2>2. IsShell(U, G, w, U[w].of)
    BY <2>1 DEF Sound, Shells
  <2>3. PICK i \in 1 .. U[w].level : /\ U[w].of \in Borrowed(G[i])
                                     /\ \A j \in 1 .. i : w \notin Borrowed(G[j])
    BY <2>2 DEF IsShell
  <2>4. i \in 1 .. n
    <3>1. U[w] \in Variable /\ U[w].level <= n
      BY <1>1, <2>1
    <3>2. U[w].level \in Nat
      BY <3>1 DEF Variable
    <3> QED
      BY <3>1, <3>2, <1>1
  <2>5. U[w].of # v
    BY <2>3, <2>4, <1>4
  <2>6. U[w].of \in DOMAIN V /\ V[U[w].of] = U[U[w].of]
    BY <2>2, <2>5, <1>2 DEF IsShell
  <2> QED
    BY <2>1, <2>2, <2>3, <2>6 DEF IsShell
<1>9. Keeping(V, G, O, n)
  <2> SUFFICES ASSUME NEW i \in 1 .. n, NEW w \in O[i]
               PROVE  /\ w \in DOMAIN V /\ V[w].name \in Series
                      /\ (V[w].level < i \/ w \in Borrowed(G[i]))
    BY DEF Keeping, Kept
  <2>1. /\ w \in DOMAIN U /\ U[w].name \in Series
        /\ (U[w].level < i \/ w \in Borrowed(G[i]))
    BY DEF Sound, Keeping, Kept
  <2> QED
    BY <2>1, <1>2
<1> QED
  BY <1>5, <1>6, <1>7, <1>8, <1>9 DEF Sound, V

\* A variable of the level below is moved up, for a parameter whose name nobody
\* has.
LEMMA SoundLend ==
  ASSUME NEW U, NEW G, NEW O, NEW n, Sound(U, G, O, n), n # 0,
         NEW v \in DOMAIN U, U[v].level = n - 1,
         NEW x \in Names, (U[v].name \in Series) = (x \in Series),
         \A w \in DOMAIN U : ~(U[w].level = n /\ U[w].name = x),
         NEW H, \A i \in 1 .. n - 1 : H[i] = G[i],
         H[n] = G[n] \cup {[var |-> v, up |-> U[v].name, par |-> x]}
  PROVE  Sound(Lend(U, v, x), H, O, n)
<1> DEFINE V == Lend(U, v, x)
           l0 == [var |-> v, up |-> U[v].name, par |-> x]
<1>1. /\ U \in [DOMAIN U -> Variable] /\ DOMAIN U \subseteq Nat \ {0} /\ IsFiniteSet(DOMAIN U)
      /\ n \in Nat /\ \A w \in DOMAIN U : U[w].level <= n
      /\ \A i \in 1 .. n : G[i] \subseteq Loan
  BY DEF Sound, Typed
<1>2. /\ DOMAIN V = DOMAIN U /\ \A w \in DOMAIN U : w # v => V[w] = U[w]
      /\ V[v].level = n /\ V[v].name = x /\ V[v].of = U[v].of /\ V[v] \in Variable
  <2>1. U[v] \in Variable
    BY <1>1
  <2>2. (n - 1) + 1 = n
    BY <1>1
  <2> DEFINE r == U[v]
             r2 == [[r EXCEPT !.level = @ + 1] EXCEPT !.name = x]
  <2>3. V[v] = r2 /\ DOMAIN V = DOMAIN U /\ \A w \in DOMAIN U : w # v => V[w] = U[w]
    BY <1>1 DEF Lend
  <2> HIDE DEF V
  <2>4. r \in [name : Names, level : Nat, val : 0 .. 2, of : Nat] /\ r.level = n - 1
    BY <2>1 DEF Variable
  <2>5. r2.level = n /\ r2.name = x /\ r2.of = r.of /\ r2 \in [name : Names, level : Nat, val : 0 .. 2, of : Nat]
    <3> HIDE DEF r
    <3> QED
      BY <2>2, <2>4, <1>1
  <2> QED
    BY <2>3, <2>5 DEF Variable
<1>3. l0 \in Loan /\ l0.var = v /\ l0.up = U[v].name /\ l0.par = x
  <2>1. v \in Nat /\ U[v].name \in Names
    BY <1>1 DEF Variable
  <2> QED
    BY <2>1 DEF Loan
<1> HIDE DEF V, l0
<1>4. n \in 1 .. n /\ H[n] = G[n] \cup {l0} /\ \A i \in 1 .. n : i # n => i \in 1 .. n - 1 /\ H[i] = G[i]
  <2>1. n \in 1 .. n /\ \A i \in 1 .. n : i # n => i \in 1 .. n - 1
    BY <1>1
  <2> QED
    BY <2>1 DEF l0
<1>5. v \notin Borrowed(G[n])
  <2> SUFFICES ASSUME v \in Borrowed(G[n]) PROVE FALSE
    OBVIOUS
  <2>1. n <= U[v].level
    BY <1>4, BorrowedFacts
  <2> QED
    BY <2>1, <1>1
<1>6. \A i \in 1 .. n : Borrowed(G[i]) \subseteq Borrowed(H[i])
  <2>1. \A i \in 1 .. n : G[i] \subseteq H[i]
    BY <1>4
  <2> QED
    BY <2>1 DEF Borrowed
<1>7. v \in Borrowed(H[n]) /\ \A w \in Borrowed(H[n]) : w = v \/ w \in Borrowed(G[n])
  BY <1>3, <1>4 DEF Borrowed
<1>8. \A w \in DOMAIN U : U[w].level \in 0 .. n
  <2>1. \A w \in DOMAIN U : U[w] \in Variable
    BY <1>1
  <2> QED
    BY <1>1, <2>1 DEF Variable
<1>9. Typed(V, H, n)
  <2>1. \A w \in DOMAIN V : V[w] \in Variable /\ V[w].level <= n
    BY <1>1, <1>2
  <2>2. V \in [DOMAIN V -> Variable]
    <3>1. V = [w \in DOMAIN V |-> V[w]]
      BY DEF V, Lend
    <3> QED
      BY <2>1, <3>1
  <2>3. \A i \in 1 .. n : H[i] \subseteq Loan
    BY <1>1, <1>3, <1>4
  <2> QED
    BY <1>1, <1>2, <2>1, <2>2, <2>3 DEF Typed
<1>10. Lending(V, H, n)
  <2> SUFFICES ASSUME NEW i \in 1 .. n, NEW l \in H[i] PROVE IsLent(V, H, n, i, l)
    BY DEF Lending
  <2>1. CASE i = n /\ l = l0
    <3>1. l.var \in DOMAIN V /\ i <= V[l.var].level /\ V[l.var].level = n /\ V[l.var].name = l.par
      BY <2>1, <1>1, <1>2, <1>3
    <3>2. (l.up \in Series) = (l.par \in Series)
      BY <2>1, <1>3
    <3>3. \A j \in i + 1 .. V[l.var].level : FALSE
      BY <2>1, <3>1, <1>1
    <3>4. ~(i < n)
      BY <2>1, <1>1
    <3>5. \A m \in H[i] : m.var = l.var => m = l
      BY <2>1, <1>3, <1>4, <1>5 DEF Borrowed
    <3> QED
      BY <3>1, <3>2, <3>3, <3>4, <3>5 DEF IsLent
  <2>2. CASE ~(i = n /\ l = l0)
    <3>1. l \in G[i]
      BY <2>2, <1>4
    <3>2. IsLent(U, G, n, i, l)
      BY <3>1 DEF Sound, Lending
    <3>3. l.var \in DOMAIN U /\ i <= U[l.var].level /\ (l.up \in Series) = (l.par \in Series)
      BY <3>2 DEF IsLent
    <3>4. l.var \in Borrowed(G[i])
      BY <3>1 DEF Borrowed
    <3>5. CASE l.var # v
      <4>1. V[l.var] = U[l.var] /\ U[l.var].level \in 0 .. n
        BY <3>3, <3>5, <1>2, <1>8
      <4>2. \A j \in i + 1 .. V[l.var].level : l.var \in Borrowed(H[j])
        <5>1. \A j \in i + 1 .. U[l.var].level : j \in 1 .. n
          BY <4>1, <1>1
        <5> QED
          BY <4>1, <5>1, <3>2, <1>6 DEF IsLent
      <4>3. i < n => \A m \in H[i + 1] : m.var = l.var => m.up = l.par
        <5> SUFFICES ASSUME i < n, NEW m \in H[i + 1], m.var = l.var PROVE m.up = l.par
          OBVIOUS
        <5>1. i + 1 \in 1 .. n
          BY <1>1
        <5>2. m \in G[i + 1]
          BY <5>1, <1>4, <1>3, <3>5
        <5> QED
          BY <5>2, <3>2 DEF IsLent
      <4>4. \A m \in H[i] : m.var = l.var => m = l
        <5> SUFFICES ASSUME NEW m \in H[i], m.var = l.var PROVE m = l
          OBVIOUS
        <5>1. m \in G[i]
          BY <1>4, <1>3, <3>5
        <5> QED
          BY <5>1, <3>2 DEF IsLent
      <4>5. V[l.var].level = i => V[l.var].name = l.par
        BY <4>1, <3>2 DEF IsLent
      <4> QED
        BY <4>1, <4>2, <4>3, <4>4, <4>5, <3>3, <1>2 DEF IsLent
    <3>6. CASE l.var = v
      <4>1. i \in 1 .. n - 1 /\ i # n /\ i < n
        <5>1. i # n
          BY <3>6, <3>4, <1>5
        <5> QED
          BY <5>1, <1>1
      <4>2. \A j \in i + 1 .. V[l.var].level : l.var \in Borrowed(H[j])
        <5> SUFFICES ASSUME NEW j \in i + 1 .. n PROVE v \in Borrowed(H[j])
          BY <3>6, <1>2
        <5>1. CASE j = n
          BY <5>1, <1>7
        <5>2. CASE j # n
          <6>1. j \in i + 1 .. U[v].level /\ j \in 1 .. n
            BY <5>2, <1>1, <4>1
          <6> QED
            BY <6>1, <3>2, <3>6, <1>6 DEF IsLent
        <5> QED
          BY <5>1, <5>2
      <4>3. i < n => \A m \in H[i + 1] : m.var = l.var => m.up = l.par
        <5> SUFFICES ASSUME NEW m \in H[i + 1], m.var = v PROVE m.up = l.par
          BY <3>6
        <5>1. i + 1 \in 1 .. n
          BY <1>1, <4>1
        <5>2. CASE i + 1 = n
          <6>1. m = l0
            BY <5>2, <1>4, <1>5 DEF Borrowed
          <6>2. U[v].level = i
            BY <5>2, <1>1, <4>1
          <6>3. U[v].name = l.par
            BY <6>2, <3>2, <3>6 DEF IsLent
          <6> QED
            BY <6>1, <6>3, <1>3
        <5>3. CASE i + 1 # n
          <6>1. m \in G[i + 1]
            BY <5>1, <5>3, <1>4
          <6> QED
            BY <6>1, <3>2, <3>6, <4>1 DEF IsLent
        <5> QED
          BY <5>2, <5>3
      <4>4. \A m \in H[i] : m.var = l.var => m = l
        <5>1. H[i] = G[i]
          BY <4>1, <1>4
        <5> QED
          BY <5>1, <3>2 DEF IsLent
      <4>5. V[l.var].level = n /\ i <= V[l.var].level /\ V[l.var].level # i
        BY <3>6, <1>2, <4>1, <1>1
      <4> QED
        BY <4>2, <4>3, <4>4, <4>5, <3>3, <1>2 DEF IsLent
    <3> QED
      BY <3>5, <3>6
  <2> QED
    BY <2>1, <2>2
<1>11. Named(V, H, n)
  <2>1. \A i \in 0 .. n : \A w \in DOMAIN U : \A y \in Names :
           IsCalled(V, H, n, i, w, y) =>
              IsCalled(U, G, n, i, w, y) \/ (i = n /\ w = v /\ y = x)
    <3> SUFFICES ASSUME NEW i \in 0 .. n, NEW w \in DOMAIN U, NEW y \in Names,
                        IsCalled(V, H, n, i, w, y)
                 PROVE  IsCalled(U, G, n, i, w, y) \/ (i = n /\ w = v /\ y = x)
      OBVIOUS
    <3>1. CASE V[w].level = i /\ V[w].name = y
      BY <3>1, <1>2 DEF IsCalled
    <3>2. CASE i < n /\ \E l \in H[i + 1] : l.var = w /\ l.up = y
      <4>1. PICK l \in H[i + 1] : l.var = w /\ l.up = y
        BY <3>2
      <4>2. i + 1 \in 1 .. n
        BY <3>2, <1>1
      <4>3. CASE l \in G[i + 1]
        BY <3>2, <4>1, <4>3 DEF IsCalled
      <4>4. CASE l \notin G[i + 1]
        <5>1. i + 1 = n /\ l = l0
          BY <4>1, <4>2, <4>4, <1>4
        <5>2. i = n - 1
          BY <5>1, <1>1
        <5>3. w = v /\ y = U[v].name
          BY <4>1, <5>1, <1>3
        <5> QED
          BY <5>2, <5>3 DEF IsCalled
      <4> QED
        BY <4>3, <4>4
    <3> QED
      BY <3>1, <3>2 DEF IsCalled
  <2>2. \A w \in DOMAIN U : ~IsCalled(U, G, n, n, w, x)
    BY <1>1 DEF IsCalled
  <2>3. \A i \in 0 .. n : \A u, w \in DOMAIN U : \A y \in Names :
           IsCalled(U, G, n, i, u, y) /\ IsCalled(U, G, n, i, w, y) => u = w
    BY DEF Sound, Named
  <2> SUFFICES ASSUME NEW i \in 0 .. n, NEW u \in DOMAIN U, NEW w \in DOMAIN U, NEW y \in Names,
                      IsCalled(V, H, n, i, u, y), IsCalled(V, H, n, i, w, y)
               PROVE  u = w
    BY <1>2 DEF Named
  <2>4. IsCalled(U, G, n, i, u, y) \/ (i = n /\ u = v /\ y = x)
    BY <2>1
  <2>5. IsCalled(U, G, n, i, w, y) \/ (i = n /\ w = v /\ y = x)
    BY <2>1
  <2> QED
    BY <2>2, <2>3, <2>4, <2>5
<1>12. Shells(V, H)
  <2> SUFFICES ASSUME NEW w \in DOMAIN U, V[w].of # 0 PROVE IsShell(V, H, w, V[w].of)
    BY <1>2 DEF Shells
  <2>1. V[w].of = U[w].of /\ U[w].of # 0
    BY <1>2
  <2>2. IsShell(U, G, w, U[w].of)
    BY <2>1 DEF Sound, Shells
  <2>3. U[w].of \in DOMAIN U /\ U[U[w].of].of = 0
    BY <2>2 DEF IsShell
  <2>4. U[w].of \in DOMAIN V /\ V[U[w].of].of = 0
    BY <2>3, <1>2
  <2>5. V[w].name \notin Series
    BY <2>2, <1>2 DEF IsShell
  <2>6. PICK i \in 1 .. U[w].level : /\ U[w].of \in Borrowed(G[i])
                                     /\ \A j \in 1 .. i : w \notin Borrowed(G[j])
    BY <2>2 DEF IsShell
  <2>7. i \in 1 .. n /\ \A j \in 1 .. i : j \in 1 .. n
    BY <1>8, <1>1
  <2>8. U[w].of \in Borrowed(H[i])
    BY <2>6, <2>7, <1>6
  <2>9. \A j \in 1 .. i : w \notin Borrowed(H[j])
    <3> SUFFICES ASSUME NEW j \in 1 .. i PROVE w \notin Borrowed(H[j])
      OBVIOUS
    <3>1. CASE j # n
      BY <3>1, <2>6, <2>7, <1>4
    <3>2. CASE j = n
      <4>1. U[w].level = n
        BY <3>2, <1>8, <1>1
      <4>2. w # v
        BY <4>1, <1>1
      <4> QED
        BY <4>2, <3>2, <2>6, <1>7
    <3> QED
      BY <3>1, <3>2
  <2>10. i \in 1 .. V[w].level
    <3>1. CASE w # v
      BY <3>1, <1>2
    <3>2. CASE w = v
      BY <3>2, <1>2, <2>7
    <3> QED
      BY <3>1, <3>2
  <2> QED
    BY <2>1, <2>4, <2>5, <2>8, <2>9, <2>10 DEF IsShell
<1>13. Keeping(V, H, O, n)
  <2> SUFFICES ASSUME NEW i \in 1 .. n, NEW w \in O[i]
               PROVE  /\ w \in DOMAIN V /\ V[w].name \in Series
                      /\ (V[w].level < i \/ w \in Borrowed(H[i]))
    BY DEF Keeping, Kept
  <2>1. /\ w \in DOMAIN U /\ U[w].name \in Series
        /\ (U[w].level < i \/ w \in Borrowed(G[i]))
    BY DEF Sound, Keeping, Kept
  <2>2. V[w].name \in Series
    BY <2>1, <1>2
  <2>3. CASE w \in Borrowed(G[i])
    BY <2>1, <2>2, <2>3, <1>2, <1>6
  <2>4. CASE U[w].level < i /\ w # v
    BY <2>1, <2>2, <2>4, <1>2
  <2>5. CASE U[w].level < i /\ w = v
    <3>1. i = n
      BY <2>5, <1>1
    <3> QED
      BY <3>1, <2>1, <2>2, <2>5, <1>2, <1>7
  <2> QED
    BY <2>1, <2>3, <2>4, <2>5
<1> QED
  BY <1>9, <1>10, <1>11, <1>12, <1>13 DEF Sound, V

\* The end of a level: what is lent to it goes back, and the rest is gone.
LEMMA SoundClose ==
  ASSUME NEW U, NEW G, NEW O, NEW n \in Nat, Sound(U, G, O, n + 1),
         NEW V,
         DOMAIN V = {w \in DOMAIN U : U[w].level # n + 1 \/ w \in Borrowed(G[n + 1])},
         V \in [DOMAIN V -> Variable],
         \A w \in DOMAIN V : V[w].of = U[w].of,
         \A w \in DOMAIN V : w \notin Borrowed(G[n + 1]) =>
            V[w].level = U[w].level /\ V[w].name = U[w].name,
         \A l \in G[n + 1] : V[l.var].level = n /\ V[l.var].name = l.up
  PROVE  Sound(V, G, O, n)
<1>1. /\ U \in [DOMAIN U -> Variable] /\ DOMAIN U \subseteq Nat \ {0} /\ IsFiniteSet(DOMAIN U)
      /\ \A w \in DOMAIN U : U[w].level <= n + 1
      /\ \A i \in 1 .. n + 1 : G[i] \subseteq Loan
  BY DEF Sound, Typed
<1>2. \A w \in DOMAIN U : U[w].level \in 0 .. n + 1
  <2>1. \A w \in DOMAIN U : U[w] \in Variable
    BY <1>1
  <2> QED
    BY <1>1, <2>1 DEF Variable
<1>3. n + 1 \in 1 .. n + 1 /\ \A i \in 1 .. n : i \in 1 .. n + 1
  OBVIOUS
<1>4. \A l \in G[n + 1] :
         /\ l.var \in DOMAIN V /\ l.var \in DOMAIN U /\ l.var \in Borrowed(G[n + 1])
         /\ U[l.var].level = n + 1 /\ U[l.var].name = l.par
         /\ V[l.var].level = n /\ V[l.var].name = l.up
         /\ (l.up \in Series) = (l.par \in Series)
  <2> SUFFICES ASSUME NEW l \in G[n + 1]
               PROVE  /\ l.var \in DOMAIN V /\ l.var \in DOMAIN U /\ l.var \in Borrowed(G[n + 1])
                      /\ U[l.var].level = n + 1 /\ U[l.var].name = l.par
                      /\ V[l.var].level = n /\ V[l.var].name = l.up
                      /\ (l.up \in Series) = (l.par \in Series)
    OBVIOUS
  <2>1. IsLent(U, G, n + 1, n + 1, l)
    BY <1>3 DEF Sound, Lending
  <2>2. l.var \in DOMAIN U /\ n + 1 <= U[l.var].level /\ (l.up \in Series) = (l.par \in Series)
    BY <2>1 DEF IsLent
  <2>3. U[l.var].level = n + 1
    BY <2>2, <1>2
  <2>4. U[l.var].name = l.par
    BY <2>1, <2>3 DEF IsLent
  <2>5. l.var \in Borrowed(G[n + 1])
    BY DEF Borrowed
  <2> QED
    BY <2>2, <2>3, <2>4, <2>5
<1>5. \A w \in DOMAIN V : w \in DOMAIN U /\ (w \in Borrowed(G[n + 1]) \/ (U[w].level \in 0 .. n /\ V[w].level = U[w].level /\ V[w].name = U[w].name))
  <2> SUFFICES ASSUME NEW w \in DOMAIN V, w \notin Borrowed(G[n + 1])
               PROVE  U[w].level \in 0 .. n /\ V[w].level = U[w].level /\ V[w].name = U[w].name
    OBVIOUS
  <2>1. U[w].level # n + 1 /\ U[w].level \in 0 .. n + 1
    BY <1>2
  <2>2. U[w].level \in 0 .. n
    BY <2>1
  <2> QED
    BY <2>2
<1>6. \A w \in Borrowed(G[n + 1]) : \E l \in G[n + 1] : l.var = w
  BY DEF Borrowed
<1>7. \A w \in DOMAIN V : V[w].level \in 0 .. n
  BY <1>4, <1>5, <1>6
<1>8. \A i \in 1 .. n : \A w \in Borrowed(G[i]) : w \in DOMAIN V /\ i <= V[w].level
  <2> SUFFICES ASSUME NEW i \in 1 .. n, NEW w \in Borrowed(G[i])
               PROVE  w \in DOMAIN V /\ i <= V[w].level
    OBVIOUS
  <2>1. /\ w \in DOMAIN U /\ i <= U[w].level
        /\ \A j \in i + 1 .. U[w].level : w \in Borrowed(G[j])
    BY <1>3, BorrowedFacts
  <2>2. CASE w \in Borrowed(G[n + 1])
    BY <2>2, <1>4, <1>6
  <2>3. CASE w \notin Borrowed(G[n + 1])
    <3>1. U[w].level # n + 1
      <4>1. n + 1 \in i + 1 .. n + 1
        OBVIOUS
      <4> QED
        BY <4>1, <2>1, <2>3
    <3>2. w \in DOMAIN V
      BY <2>1, <3>1
    <3> QED
      BY <3>2, <2>1, <2>3, <1>5
  <2> QED
    BY <2>2, <2>3
<1>9. Typed(V, G, n)
  <2>1. DOMAIN V \subseteq DOMAIN U
    OBVIOUS
  <2>2. IsFiniteSet(DOMAIN V)
    BY <1>1, <2>1, FS_Subset
  <2>3. \A w \in DOMAIN V : V[w].level <= n
    BY <1>7
  <2> QED
    BY <1>1, <1>3, <2>1, <2>2, <2>3 DEF Typed
<1>10. Lending(V, G, n)
  <2> SUFFICES ASSUME NEW i \in 1 .. n, NEW l \in G[i] PROVE IsLent(V, G, n, i, l)
    BY DEF Lending
  <2>1. IsLent(U, G, n + 1, i, l)
    BY <1>3 DEF Sound, Lending
  <2>2. l.var \in DOMAIN V /\ i <= V[l.var].level
    BY <1>8 DEF Borrowed
  <2>3. /\ (l.up \in Series) = (l.par \in Series)
        /\ \A m \in G[i] : m.var = l.var => m = l
        /\ i + 1 \in 1 .. n + 1 /\ i < n + 1
        /\ \A m \in G[i + 1] : m.var = l.var => m.up = l.par
    <3>1. i < n + 1 /\ i + 1 \in 1 .. n + 1
      OBVIOUS
    <3> QED
      BY <2>1, <3>1 DEF IsLent
  <2>4. CASE l.var \in Borrowed(G[n + 1])
    <3>1. PICK m \in G[n + 1] : m.var = l.var
      BY <2>4, <1>6
    <3>2. U[l.var].level = n + 1 /\ V[l.var].level = n /\ V[l.var].name = m.up
      BY <3>1, <1>4
    <3>3. V[l.var].level = i => V[l.var].name = l.par
      BY <2>3, <3>1, <3>2
    <3>4. \A j \in i + 1 .. n : j \in i + 1 .. n + 1
      OBVIOUS
    <3>5. \A j \in i + 1 .. V[l.var].level : l.var \in Borrowed(G[j])
      BY <2>1, <3>2, <3>4 DEF IsLent
    <3> QED
      BY <2>2, <2>3, <3>3, <3>5 DEF IsLent
  <2>5. CASE l.var \notin Borrowed(G[n + 1])
    <3>1. V[l.var].level = U[l.var].level /\ V[l.var].name = U[l.var].name
      BY <2>2, <2>5, <1>5
    <3> QED
      BY <2>1, <2>2, <2>3, <3>1 DEF IsLent
  <2> QED
    BY <2>4, <2>5
<1>11. Named(V, G, n)
  <2>1. \A i \in 0 .. n : \A w \in DOMAIN V : \A x \in Names :
           IsCalled(V, G, n, i, w, x) => IsCalled(U, G, n + 1, i, w, x)
    <3> SUFFICES ASSUME NEW i \in 0 .. n, NEW w \in DOMAIN V, NEW x \in Names,
                        IsCalled(V, G, n, i, w, x)
                 PROVE  IsCalled(U, G, n + 1, i, w, x)
      OBVIOUS
    <3>1. CASE V[w].level = i /\ V[w].name = x
      <4>1. CASE w \in Borrowed(G[n + 1])
        <5>1. PICK l \in G[n + 1] : l.var = w
          BY <4>1, <1>6
        <5>2. i = n /\ l.up = x
          BY <3>1, <5>1, <1>4
        <5> QED
          BY <5>1, <5>2 DEF IsCalled
      <4>2. CASE w \notin Borrowed(G[n + 1])
        BY <3>1, <4>2, <1>5 DEF IsCalled
      <4> QED
        BY <4>1, <4>2
    <3>2. CASE i < n /\ \E l \in G[i + 1] : l.var = w /\ l.up = x
      <4>1. i < n + 1
        OBVIOUS
      <4> QED
        BY <3>2, <4>1 DEF IsCalled
    <3> QED
      BY <3>1, <3>2 DEF IsCalled
  <2>2. \A i \in 0 .. n : i \in 0 .. n + 1
    OBVIOUS
  <2> QED
    BY <2>1, <2>2 DEF Sound, Named
<1>12. Shells(V, G)
  <2> SUFFICES ASSUME NEW w \in DOMAIN V, V[w].of # 0 PROVE IsShell(V, G, w, V[w].of)
    BY DEF Shells
  <2>1. V[w].of = U[w].of /\ U[w].of # 0 /\ w \in DOMAIN U
    OBVIOUS
  <2>2. IsShell(U, G, w, U[w].of)
    BY <2>1 DEF Sound, Shells
  <2>3. PICK i \in 1 .. U[w].level : /\ U[w].of \in Borrowed(G[i])
                                     /\ \A j \in 1 .. i : w \notin Borrowed(G[j])
    BY <2>2 DEF IsShell
  <2>4. i \in 1 .. n /\ i \in 1 .. V[w].level
    <3>1. CASE w \in Borrowed(G[n + 1])
      <4>1. U[w].level = n + 1 /\ V[w].level = n
        BY <3>1, <1>4, <1>6
      <4>2. i # n + 1
        <5>1. i = n + 1 => n + 1 \in 1 .. i
          OBVIOUS
        <5> QED
          BY <5>1, <2>3, <3>1
      <4> QED
        BY <4>1, <4>2
    <3>2. CASE w \notin Borrowed(G[n + 1])
      <4>1. U[w].level \in 0 .. n /\ V[w].level = U[w].level
        BY <3>2, <1>5
      <4> QED
        BY <4>1
    <3> QED
      BY <3>1, <3>2
  <2>5. U[w].of \in DOMAIN V
    BY <2>3, <2>4, <1>8
  <2>6. V[U[w].of].of = 0
    BY <2>2, <2>5 DEF IsShell
  <2>7. V[w].name \notin Series
    <3>1. CASE w \in Borrowed(G[n + 1])
      <4>1. PICK l \in G[n + 1] : l.var = w
        BY <3>1, <1>6
      <4>2. U[w].name = l.par /\ V[w].name = l.up /\ (l.up \in Series) = (l.par \in Series)
        BY <4>1, <1>4
      <4> QED
        BY <4>2, <2>2 DEF IsShell
    <3>2. CASE w \notin Borrowed(G[n + 1])
      BY <3>2, <2>2, <1>5 DEF IsShell
    <3> QED
      BY <3>1, <3>2
  <2> QED
    BY <2>1, <2>3, <2>4, <2>5, <2>6, <2>7 DEF IsShell
<1>13. Keeping(V, G, O, n)
  <2> SUFFICES ASSUME NEW i \in 1 .. n, NEW w \in O[i]
               PROVE  /\ w \in DOMAIN V /\ V[w].name \in Series
                      /\ (V[w].level < i \/ w \in Borrowed(G[i]))
    BY DEF Keeping, Kept
  <2>1. /\ w \in DOMAIN U /\ U[w].name \in Series
        /\ (U[w].level < i \/ w \in Borrowed(G[i]))
    BY <1>3 DEF Sound, Keeping, Kept
  <2>2. w \in DOMAIN V
    <3>1. CASE w \in Borrowed(G[i])
      BY <3>1, <1>8
    <3>2. CASE U[w].level < i
      <4>1. U[w].level # n + 1
        BY <3>2, <1>2, <2>1
      <4> QED
        BY <4>1, <2>1
    <3> QED
      BY <2>1, <3>1, <3>2
  <2>3. CASE w \in Borrowed(G[n + 1])
    <3>1. PICK l \in G[n + 1] : l.var = w
      BY <2>3, <1>6
    <3>2. U[w].name = l.par /\ V[w].name = l.up /\ (l.up \in Series) = (l.par \in Series) /\ U[w].level = n + 1
      BY <3>1, <1>4
    <3>3. ~(U[w].level < i)
      BY <3>2
    <3> QED
      BY <3>2, <3>3, <2>1, <2>2
  <2>4. CASE w \notin Borrowed(G[n + 1])
    BY <2>4, <2>1, <2>2, <1>5
  <2> QED
    BY <2>3, <2>4
<1> QED
  BY <1>9, <1>10, <1>11, <1>12, <1>13 DEF Sound

-----------------------------------------------------------------------------
(***************************************************************************)
(* Definitions, assignments and deletions                                  *)
(***************************************************************************)

\* The constants.
LEMMA ConstantFacts ==
  /\ Series \subseteq Names /\ None \notin Names
  /\ MaxVars \in Nat /\ MaxDepth \in Nat
  /\ \A f \in Funs : Params[f] \in Seq([name : Names, mode : {"val", "const", "ref"}])
BY CallsAssumption

\* No two parameters of a function have the same name.
LEMMA ParamFacts ==
  ASSUME NEW f \in Funs
  PROVE  /\ Len(Params[f]) \in Nat /\ DOMAIN Params[f] = 1 .. Len(Params[f])
         /\ \A k \in DOMAIN Params[f] : Params[f][k].name \in Names
         /\ \A j, k \in DOMAIN Params[f] : Params[f][j].name = Params[f][k].name => j = k
<1>1. Params[f] \in Seq([name : Names, mode : {"val", "const", "ref"}])
  BY ConstantFacts
<1>2. \A k \in DOMAIN Params[f] : Params[f][k] \in [name : Names, mode : {"val", "const", "ref"}]
  <2> DEFINE R == [name : Names, mode : {"val", "const", "ref"}]
             s == Params[f]
  <2>1. s \in Seq(R)
    BY <1>1
  <2> HIDE DEF R, s
  <2>2. DOMAIN s = 1 .. Len(s) /\ \A k \in 1 .. Len(s) : s[k] \in R
    BY <2>1
  <2>3. \A k \in DOMAIN s : s[k] \in R
    BY <2>2
  <2> QED
    BY <2>3 DEF R, s
<1>3. \A k \in DOMAIN Params[f] : Params[f][k].name \in Names
  BY <1>2
<1>4. Len(Params[f]) \in Nat /\ DOMAIN Params[f] = 1 .. Len(Params[f])
  BY <1>1
<1> QED
  BY <1>3, <1>4, CallsAssumption

\* The variables and the depth under the invariant.
LEMMA UvarsFacts ==
  ASSUME IInv
  PROVE  /\ Depth \in Nat /\ Depth = Len(callstack)
         /\ uvars \in [DOMAIN uvars -> Variable]
         /\ DOMAIN uvars \subseteq Nat \ {0} /\ IsFiniteSet(DOMAIN uvars)
         /\ \A v \in DOMAIN uvars : uvars[v] \in Variable /\ uvars[v].level \in 0 .. Depth
         /\ \A v \in DOMAIN uvars :
               uvars[v].name \in Names /\ uvars[v].val \in 0 .. 2 /\ uvars[v].of \in Nat
<1>1. /\ Depth \in Nat /\ uvars \in [DOMAIN uvars -> Variable]
      /\ DOMAIN uvars \subseteq Nat \ {0} /\ IsFiniteSet(DOMAIN uvars)
      /\ \A v \in DOMAIN uvars : uvars[v].level <= Depth
  BY DEF IInv, Sound, Typed
<1>2. \A v \in DOMAIN uvars : uvars[v] \in Variable
  BY <1>1
<1> HIDE DEF Depth
<1>3. \A v \in DOMAIN uvars :
         /\ uvars[v].name \in Names /\ uvars[v].level \in Nat
         /\ uvars[v].val \in 0 .. 2 /\ uvars[v].of \in Nat
  BY <1>2 DEF Variable
<1>4. \A v \in DOMAIN uvars : uvars[v].level \in 0 .. Depth
  BY <1>1, <1>3
<1> QED
  BY <1>1, <1>2, <1>3, <1>4 DEF Depth

\* Looking up a name gives a variable of the current level.
LEMMA VarFacts ==
  ASSUME IInv, NEW x, Exists(x)
  PROVE  /\ Var(x) \in DOMAIN uvars /\ uvars[Var(x)].name = x
         /\ uvars[Var(x)].level = Depth
<1>1. LookUp(uvars, x) \subseteq Nat /\ LookUp(uvars, x) # {}
  BY UvarsFacts DEF LookUp, Exists
<1>2. Var(x) \in LookUp(uvars, x)
  BY <1>1, MinFacts DEF Var
<1>3. Var(x) \in DOMAIN uvars /\ uvars[Var(x)].name = x /\ (uvars[Var(x)].level = Depth \/ Depth = 0)
  BY <1>2 DEF LookUp
<1>4. uvars[Var(x)].level \in 0 .. Depth /\ Depth \in Nat
  BY <1>3, UvarsFacts
<1> HIDE DEF Depth
<1> QED
  BY <1>3, <1>4

\* A name that is not found is that of no variable of the current level.
LEMMA NoVarFacts ==
  ASSUME NEW x, ~Exists(x)
  PROVE  \A v \in DOMAIN uvars : ~(uvars[v].level = Depth /\ uvars[v].name = x)
BY DEF Exists, LookUp

\* A value has an owner.
LEMMA CellFacts ==
  ASSUME IInv, NEW v \in DOMAIN uvars
  PROVE  /\ Cell(uvars, v) \in DOMAIN uvars /\ uvars[Cell(uvars, v)].of = 0
         /\ uvars[Cell(uvars, v)].val \in 0 .. 2
<1>1. Shells(uvars, LoansOf(immut, callstack))
  BY DEF IInv, Sound
<1>2. Cell(uvars, v) \in DOMAIN uvars /\ uvars[Cell(uvars, v)].of = 0
  BY <1>1 DEF Cell, Shells, IsShell
<1> QED
  BY <1>2, UvarsFacts

\* A step that leaves the flags and the calls alone.
LEMMA SameCalls ==
  ASSUME IInv, UNCHANGED <<immut, callstack>>,
         Sound(uvars', LoansOf(immut, callstack), OrigsOf(callstack), Depth),
         Bounded(uvars')
  PROVE  IInv'
<1>1. immut' = immut /\ callstack' = callstack
  OBVIOUS
<1> QED
  BY <1>1 DEF IInv, Depth

\* A variable is found or added within the bounds.
LEMMA BoundedAdd ==
  ASSUME NEW U, Bounded(U), DOMAIN U \subseteq Nat \ {0}, IsFiniteSet(DOMAIN U),
         NEW x, NEW n, NEW of, NEW val \in 0 .. 1,
         Cardinality(DOMAIN Add(U, x, n, val, of)) <= MaxVars
  PROVE  Bounded(Add(U, x, n, val, of))
<1> DEFINE V == Add(U, x, n, val, of)
<1>1. /\ DOMAIN V = DOMAIN U \cup {Fresh(U)} /\ V[Fresh(U)].val = val
      /\ \A v \in DOMAIN U : V[v] = U[v]
      /\ Cardinality(DOMAIN V) = Cardinality(DOMAIN U) + 1
  <2>1. /\ DOMAIN V = DOMAIN U \cup {Fresh(U)}
        /\ V[Fresh(U)] = [name |-> x, level |-> n, val |-> val, of |-> of]
        /\ \A v \in DOMAIN U : V[v] = U[v]
        /\ Cardinality(DOMAIN U \cup {Fresh(U)}) = Cardinality(DOMAIN U) + 1
    BY AddFacts
  <2> HIDE DEF V
  <2> QED
    BY <2>1
<1> HIDE DEF V
<1>2. Fresh(U) \in Nat \ {0} /\ Fresh(U) <= Cardinality(DOMAIN U) + 1
  BY FreshFacts
<1>3. Cardinality(DOMAIN U) + 1 <= MaxVars /\ Cardinality(DOMAIN U) \in Nat /\ MaxVars \in Nat
  BY <1>1, FreshFacts, ConstantFacts DEF V
<1>4. Fresh(U) \in 1 .. MaxVars
  BY <1>2, <1>3
<1>5. DOMAIN V \subseteq 1 .. MaxVars
  BY <1>1, <1>4 DEF Bounded
<1> QED
  BY <1>1, <1>5 DEF Bounded, V

\* At the start there is nothing.
LEMMA InitIInv == Init => IInv
<1> SUFFICES ASSUME Init PROVE IInv
  OBVIOUS
<1>1. uvars = << >> /\ callstack = << >> /\ Depth = 0 /\ DOMAIN uvars = {}
  BY DEF Init, Depth
<1>2. IsFiniteSet(DOMAIN uvars)
  BY <1>1, FS_EmptySet
<1>3. Sound(uvars, LoansOf(immut, callstack), OrigsOf(callstack), 0)
  <2>1. Typed(uvars, LoansOf(immut, callstack), 0)
    BY <1>1, <1>2 DEF Typed
  <2>2. Lending(uvars, LoansOf(immut, callstack), 0) /\ Keeping(uvars, LoansOf(immut, callstack), OrigsOf(callstack), 0)
    BY DEF Lending, Keeping
  <2>3. Named(uvars, LoansOf(immut, callstack), 0) /\ Shells(uvars, LoansOf(immut, callstack))
    BY <1>1 DEF Named, Shells
  <2> QED
    BY <2>1, <2>2, <2>3 DEF Sound
<1>4. Flags(immut)
  <2>1. \A f \in Funs : [k \in DOMAIN Params[f] |-> Params[f][k].mode = "const"] \in [DOMAIN Params[f] -> BOOLEAN]
    OBVIOUS
  <2> QED
    BY <2>1 DEF Init, Flags, Declared
<1>5. Bounded(uvars)
  BY <1>1 DEF Bounded
<1>6. callstack \in Seq(Frame) /\ 0 <= MaxDepth
  BY <1>1, ConstantFacts
<1> QED
  BY <1>1, <1>3, <1>4, <1>5, <1>6 DEF IInv

\* A new variable gets a name that none of its level has.
LEMMA StepDefine ==
  ASSUME IInv, NEW x \in Names, Define(x) PROVE IInv'
<1>1. uvars' = Add(uvars, x, Depth, 0, 0)
  BY DEF Define
<1>2. Sound(Add(uvars, x, Depth, 0, 0), LoansOf(immut, callstack), OrigsOf(callstack), Depth)
  <2>1. Sound(uvars, LoansOf(immut, callstack), OrigsOf(callstack), Depth)
    BY DEF IInv
  <2>2. \A v \in DOMAIN uvars : ~(uvars[v].level = Depth /\ uvars[v].name = x)
    BY NoVarFacts DEF Define
  <2>3. 0 \in 0 .. 2 /\ 0 \in Nat
    OBVIOUS
  <2> QED
    BY <2>1, <2>2, <2>3, SoundAdd
<1>3. Bounded(Add(uvars, x, Depth, 0, 0))
  <2>1. Cardinality(DOMAIN Add(uvars, x, Depth, 0, 0)) <= MaxVars
    BY <1>1 DEF Define
  <2>2. Bounded(uvars)
    BY DEF IInv
  <2>3. 0 \in 0 .. 1
    OBVIOUS
  <2> QED
    BY <2>1, <2>2, <2>3, UvarsFacts, BoundedAdd
<1>4. UNCHANGED <<immut, callstack>>
  BY DEF Define
<1> QED
  BY <1>1, <1>2, <1>3, <1>4, SameCalls

\* A variable gets a value.
LEMMA ValueSet ==
  ASSUME IInv, NEW c \in DOMAIN uvars, NEW y \in 0 .. 2
  PROVE  /\ [uvars EXCEPT ![c].val = y] \in [DOMAIN uvars -> Variable]
         /\ \A v \in DOMAIN uvars :
               /\ [uvars EXCEPT ![c].val = y][v].name = uvars[v].name
               /\ [uvars EXCEPT ![c].val = y][v].level = uvars[v].level
               /\ [uvars EXCEPT ![c].val = y][v].of = uvars[v].of
               /\ [uvars EXCEPT ![c].val = y][v].val = IF v = c THEN y ELSE uvars[v].val
         /\ Sound([uvars EXCEPT ![c].val = y], LoansOf(immut, callstack), OrigsOf(callstack), Depth)
<1> DEFINE V == [uvars EXCEPT ![c].val = y]
           r == uvars[c]
           r2 == [r EXCEPT !.val = y]
<1>1. V \in [DOMAIN uvars -> {uvars[v] : v \in DOMAIN uvars} \cup {r2}]
  BY UvarsFacts
<1>2. r \in [name : Names, level : Nat, val : 0 .. 2, of : Nat]
  BY UvarsFacts DEF Variable
<1>3. r2 \in Variable /\ r2.name = r.name /\ r2.level = r.level /\ r2.of = r.of /\ r2.val = y
  <2> HIDE DEF r
  <2> QED
    BY <1>2 DEF Variable
<1>4. V[c] = r2 /\ \A v \in DOMAIN uvars : v # c => V[v] = uvars[v]
  BY UvarsFacts
<1> HIDE DEF r2
<1>5. {uvars[v] : v \in DOMAIN uvars} \cup {r2} \subseteq Variable
  BY <1>3, UvarsFacts
<1> HIDE DEF V
<1>6. V \in [DOMAIN uvars -> Variable]
  BY <1>1, <1>5
<1>7. \A v \in DOMAIN uvars : V[v].name = uvars[v].name /\ V[v].level = uvars[v].level
                              /\ V[v].of = uvars[v].of /\ V[v].val = IF v = c THEN y ELSE uvars[v].val
  BY <1>3, <1>4
<1>8. Sound(uvars, LoansOf(immut, callstack), OrigsOf(callstack), Depth)
  BY DEF IInv
<1>9. Sound(V, LoansOf(immut, callstack), OrigsOf(callstack), Depth)
  BY <1>6, <1>7, <1>8, SoundValue
<1> QED
  BY <1>6, <1>7, <1>9 DEF V

\* An assignment changes a value.
LEMMA StepAssign ==
  ASSUME IInv, NEW x \in Names, Assign(x) PROVE IInv'
<1> DEFINE c == Cell(uvars, Var(x))
           y == 1 - uvars[c].val
<1>1. Exists(x) /\ uvars[c].val # Gone /\ uvars' = [uvars EXCEPT ![c].val = 1 - @]
  BY DEF Assign
<1>2. c \in DOMAIN uvars /\ uvars[c].val \in 0 .. 2
  BY <1>1, VarFacts, CellFacts
<1>3. uvars[c].val \in 0 .. 1
  BY <1>1, <1>2 DEF Gone
<1>4. y \in 0 .. 1 /\ y \in 0 .. 2
  BY <1>3
<1>5. uvars' = [uvars EXCEPT ![c].val = y]
  BY <1>1
<1> HIDE DEF c, y
<1>6. /\ Sound(uvars', LoansOf(immut, callstack), OrigsOf(callstack), Depth)
      /\ DOMAIN uvars' = DOMAIN uvars
      /\ \A v \in DOMAIN uvars : uvars'[v].val = IF v = c THEN y ELSE uvars[v].val
  BY <1>2, <1>4, <1>5, ValueSet
<1>7. Bounded(uvars')
  BY <1>4, <1>6 DEF IInv, Bounded
<1>8. UNCHANGED <<immut, callstack>>
  BY DEF Assign
<1> QED
  BY <1>6, <1>7, <1>8, SameCalls

\* What is lent to the current function has the name of one of its parameters.
LEMMA TopLoans ==
  ASSUME IInv, Depth # 0, NEW v, v \in Borrowed(LoansOf(immut, callstack)[Depth])
  PROVE  /\ Last(callstack) = callstack[Depth] /\ Last(callstack) \in Frame
         /\ \E k \in DOMAIN Last(callstack).args :
               /\ k \in DOMAIN Params[Last(callstack).fun]
               /\ Back(immut, Last(callstack), k)
               /\ Last(callstack).args[k].var = v
               /\ uvars[v].name = Params[Last(callstack).fun][k].name
               /\ uvars[v].level = Depth
<1> DEFINE c == callstack[Depth]
           G == LoansOf(immut, callstack)
<1>1. Depth \in 1 .. Depth /\ Depth \in 1 .. Len(callstack) /\ Depth \in Nat
  <2>1. Depth \in Nat /\ Depth = Len(callstack)
    BY UvarsFacts
  <2> HIDE DEF Depth
  <2> QED
    BY <2>1
<1>2. c \in Frame /\ Last(callstack) = c
  BY <1>1 DEF IInv, Last, Depth
<1>3. G[Depth] = Loans(immut, c)
  BY <1>1 DEF LoansOf, Depth
<1>4. Sound(uvars, G, OrigsOf(callstack), Depth)
  BY DEF IInv
<1>5. Recorded(immut, c)
  BY <1>1 DEF IInv
<1> HIDE DEF G, c, Depth
<1>6. v \in Borrowed(G[Depth])
  BY DEF G
<1>7. PICK l \in G[Depth] : l.var = v /\ IsLent(uvars, G, Depth, Depth, l)
  <2>1. PICK l \in G[Depth] : l.var = v
    BY <1>6 DEF Borrowed
  <2> QED
    BY <2>1, <1>1, <1>4 DEF Sound, Lending
<1>8. v \in DOMAIN uvars /\ Depth <= uvars[v].level /\ (uvars[v].level = Depth => uvars[v].name = l.par)
  BY <1>7 DEF IsLent
<1>9. uvars[v].level = Depth
  <2>1. uvars[v].level \in 0 .. Depth
    BY <1>8, UvarsFacts
  <2> QED
    BY <2>1, <1>1, <1>8
<1>10. PICK k \in DOMAIN c.args : Back(immut, c, k) /\ l = LoanOf(c, k)
  BY <1>3, <1>7 DEF Loans
<1>11. c.args[k].var = v /\ l.par = Params[c.fun][k].name
  BY <1>7, <1>10 DEF LoanOf
<1>12. k \in DOMAIN Params[c.fun]
  BY <1>5, <1>10 DEF Recorded
<1> QED
  BY <1>2, <1>8, <1>9, <1>10, <1>11, <1>12 DEF c

\* A variable that is deleted is neither lent nor the owner of what is shared:
\* what is lent to the function is found under the name of a parameter.
LEMMA StepDelete ==
  ASSUME IInv, NEW x \in Names, Delete(x) PROVE IInv'
<1> DEFINE v == Var(x)
           G == LoansOf(immut, callstack)
<1>1. /\ x \notin Series /\ Exists(x) /\ ~ObjectIsFunctionArg(x)
      /\ uvars' = Without(uvars, {v}) /\ UNCHANGED <<immut, callstack>>
  BY DEF Delete
<1>2. v \in DOMAIN uvars /\ uvars[v].name = x /\ uvars[v].level = Depth
  BY <1>1, VarFacts
<1> HIDE DEF v
<1>3. Depth # 0 => v \notin Borrowed(G[Depth])
  <2> SUFFICES ASSUME Depth # 0, v \in Borrowed(G[Depth]) PROVE FALSE
    OBVIOUS
  <2>1. \E k \in DOMAIN Params[Last(callstack).fun] :
           uvars[v].name = Params[Last(callstack).fun][k].name
    BY TopLoans
  <2>2. Depth > 0
    <3>1. Depth \in Nat
      BY UvarsFacts
    <3> HIDE DEF Depth
    <3> QED
      BY <3>1
  <2> QED
    BY <2>1, <2>2, <1>1, <1>2 DEF ObjectIsFunctionArg
<1>4. Sound(uvars, G, OrigsOf(callstack), Depth)
  BY DEF IInv
<1> HIDE DEF G, Depth
<1>5. Sound(uvars', G, OrigsOf(callstack), Depth)
  BY <1>1, <1>2, <1>3, <1>4, SoundDrop
<1>6. Bounded(uvars')
  <2>1. DOMAIN Without(uvars, {v}) \subseteq DOMAIN uvars /\ \A w \in DOMAIN Without(uvars, {v}) : Without(uvars, {v})[w] = uvars[w]
    BY DEF Without
  <2> QED
    BY <2>1, <1>1 DEF IInv, Bounded
<1> QED
  BY <1>1, <1>5, <1>6, SameCalls DEF G

-----------------------------------------------------------------------------
(***************************************************************************)
(* The end of a function: what is lent goes back, argument by argument     *)
(***************************************************************************)

\* The k-th argument goes back, or not.
GivenAt(c, U, st, k) ==
    IF k = 0 THEN U
    ELSE IF GoesBack(c, k)
         THEN GiveBack(st[k-1], c.args[k].var, c.args[k].upname)
         ELSE st[k-1]

\* st is what there is after each of the first m arguments.
GivesUpTo(c, U, m, st) == st = [k \in 0 .. m |-> GivenAt(c, U, st, k)]

\* The recursive function of ArgsGivenBack.
LEMMA GivesIs ==
  ASSUME NEW c, NEW U
  PROVE  ArgsGivenBack(c, U) = (CHOOSE st : GivesUpTo(c, U, Len(c.args), st))[Len(c.args)]
BY DEF ArgsGivenBack, GivesUpTo, GivenAt

\* There is one.
LEMMA GivesExists ==
  ASSUME NEW c, NEW U, NEW n \in Nat
  PROVE  \E st : GivesUpTo(c, U, n, st)
<1> DEFINE T == {m \in 0 .. n : ~\E st : GivesUpTo(c, U, m, st)}
<1> SUFFICES ASSUME n \in T PROVE FALSE
  OBVIOUS
<1>1. T \subseteq Nat /\ T # {}
  OBVIOUS
<1>2. PICK m \in T : \A y \in T : m <= y
  <2> HIDE DEF T
  <2> QED
    BY <1>1, Least
<1>3. m # 0
  <2>1. GivesUpTo(c, U, 0, [k \in 0 .. 0 |-> U])
    <3>1. \A k \in 0 .. 0 : GivenAt(c, U, [j \in 0 .. 0 |-> U], k) = U
      BY DEF GivenAt
    <3> QED
      BY <3>1 DEF GivesUpTo
  <2> QED
    BY <2>1, <1>2
<1>4. m \in Nat /\ m - 1 \in 0 .. n /\ m - 1 \notin T
  BY <1>2, <1>3
<1>5. PICK st : GivesUpTo(c, U, m - 1, st)
  BY <1>4
<1> DEFINE s2 == [k \in 0 .. m |-> IF k = m THEN GivenAt(c, U, st, m) ELSE st[k]]
<1>6. \A k \in 0 .. m : s2[k] = GivenAt(c, U, s2, k)
  <2> SUFFICES ASSUME NEW k \in 0 .. m PROVE s2[k] = GivenAt(c, U, s2, k)
    OBVIOUS
  <2>1. k # 0 => k - 1 \in 0 .. m /\ k - 1 # m
    BY <1>4
  <2>2. k # 0 => s2[k - 1] = st[k - 1]
    BY <2>1
  <2>3. s2[k] = GivenAt(c, U, st, k)
    <3>1. CASE k = m
      BY <3>1
    <3>2. CASE k # m
      <4>1. k \in 0 .. m - 1 /\ s2[k] = st[k]
        BY <3>2, <1>4
      <4>2. st = [j \in 0 .. m - 1 |-> GivenAt(c, U, st, j)]
        BY <1>5 DEF GivesUpTo
      <4>3. st[k] = GivenAt(c, U, st, k)
        BY <4>1, <4>2
      <4> QED
        BY <4>1, <4>3
    <3> QED
      BY <3>1, <3>2
  <2> HIDE DEF s2
  <2> QED
    BY <2>2, <2>3 DEF GivenAt
<1>7. s2 = [k \in 0 .. m |-> s2[k]]
  OBVIOUS
<1> HIDE DEF s2
<1>8. GivesUpTo(c, U, m, s2)
  BY <1>6, <1>7 DEF GivesUpTo
<1> QED
  BY <1>8, <1>2

\* A variable has its name and its level back.
LEMMA GiveBackFacts ==
  ASSUME NEW D, NEW W \in [D -> Variable], NEW v \in D, NEW x \in Names, W[v].level # 0
  PROVE  /\ GiveBack(W, v, x) \in [D -> Variable]
         /\ \A w \in D : w # v => GiveBack(W, v, x)[w] = W[w]
         /\ GiveBack(W, v, x)[v].name = x /\ GiveBack(W, v, x)[v].level = W[v].level - 1
         /\ GiveBack(W, v, x)[v].of = W[v].of /\ GiveBack(W, v, x)[v].val = W[v].val
<1> DEFINE V == GiveBack(W, v, x)
           r == W[v]
           r2 == [[r EXCEPT !.level = @ - 1] EXCEPT !.name = x]
<1>1. V[v] = r2 /\ DOMAIN V = D /\ \A w \in D : w # v => V[w] = W[w]
  BY DEF GiveBack
<1>2. V = [w \in DOMAIN V |-> V[w]]
  BY DEF GiveBack
<1> HIDE DEF V
<1>3. r \in [name : Names, level : Nat, val : 0 .. 2, of : Nat] /\ r.level # 0
  BY DEF Variable
<1> HIDE DEF r
<1>4. r.level \in Nat /\ r.level - 1 \in Nat
  BY <1>3
<1>5. /\ r2 \in Variable /\ r2.name = x /\ r2.level = r.level - 1 /\ r2.of = r.of /\ r2.val = r.val
  BY <1>3, <1>4 DEF Variable
<1> HIDE DEF r2
<1>6. \A w \in D : V[w] \in Variable
  BY <1>1, <1>5
<1>7. V \in [D -> Variable]
  BY <1>1, <1>2, <1>6
<1> QED
  BY <1>1, <1>5, <1>7 DEF V, r

\* The first k arguments of c have been given back.
GivenTo(c, U, k, W) ==
    /\ W \in [DOMAIN U -> Variable]
    /\ \A w \in DOMAIN U :
          /\ W[w].of = U[w].of /\ W[w].val = U[w].val
          /\ \/ \E i \in 1 .. k : GoesBack(c, i) /\ c.args[i].var = w
             \/ W[w] = U[w]
    /\ \A i \in 1 .. k : GoesBack(c, i) =>
          /\ W[c.args[i].var].level = U[c.args[i].var].level - 1
          /\ W[c.args[i].var].name = c.args[i].upname

\* What goes back.
LEMMA GivenBack ==
  ASSUME NEW c, NEW U, U \in [DOMAIN U -> Variable], Len(c.args) \in Nat,
         \A i \in 1 .. Len(c.args) : GoesBack(c, i) =>
            /\ c.args[i].var \in DOMAIN U /\ U[c.args[i].var].level # 0
            /\ c.args[i].upname \in Names,
         \A i, j \in 1 .. Len(c.args) :
            GoesBack(c, i) /\ GoesBack(c, j) /\ c.args[i].var = c.args[j].var => i = j
  PROVE  GivenTo(c, U, Len(c.args), ArgsGivenBack(c, U))
<1> DEFINE n == Len(c.args)
           st == CHOOSE st : GivesUpTo(c, U, Len(c.args), st)
<1>1. GivesUpTo(c, U, n, st)
  BY GivesExists
<1>2. ArgsGivenBack(c, U) = st[n]
  BY GivesIs
<1> HIDE DEF st
<1>3. \A k \in 0 .. n : st[k] = GivenAt(c, U, st, k)
  <2>1. st = [k \in 0 .. n |-> GivenAt(c, U, st, k)]
    BY <1>1 DEF GivesUpTo
  <2> QED
    BY <2>1
<1> DEFINE T == {k \in 0 .. n : ~GivenTo(c, U, k, st[k])}
<1>4. T = {}
  <2> SUFFICES ASSUME T # {} PROVE FALSE
    OBVIOUS
  <2>1. T \subseteq Nat
    OBVIOUS
  <2>2. PICK k \in T : \A y \in T : k <= y
    <3> HIDE DEF T
    <3> QED
      BY <2>1, Least
  <2>3. k # 0
    <3>1. 0 \in 0 .. n
      OBVIOUS
    <3>2. st[0] = U
      BY <3>1, <1>3 DEF GivenAt
    <3>3. GivenTo(c, U, 0, U)
      BY DEF GivenTo
    <3> QED
      BY <2>2, <3>2, <3>3
  <2>4. k \in 1 .. n /\ k - 1 \in 0 .. n /\ k - 1 \notin T
    BY <2>2, <2>3
  <2> DEFINE W == st[k - 1]
             v == c.args[k].var
  <2>5. GivenTo(c, U, k - 1, W)
    BY <2>4
  <2>6. \A i \in 1 .. k : i = k \/ i \in 1 .. k - 1
    BY <2>4
  <2>7. \A i \in 1 .. k - 1 : i \in 1 .. k /\ i \in 1 .. n /\ i # k
    BY <2>4
  <2>8. ~GivenTo(c, U, k, st[k])
    BY <2>2
  <2>9. st[k] = IF GoesBack(c, k) THEN GiveBack(W, v, c.args[k].upname) ELSE W
    <3>1. st[k] = GivenAt(c, U, st, k)
      BY <2>4, <1>3
    <3> QED
      BY <3>1, <2>3 DEF GivenAt
  <2> HIDE DEF W, T, n
  <2>10. CASE ~GoesBack(c, k)
    <3>1. st[k] = W
      BY <2>9, <2>10
    <3> HIDE <2>9
    <3>2. \A i \in 1 .. k : GoesBack(c, i) => i \in 1 .. k - 1
      BY <2>6, <2>10
    <3>3. GivenTo(c, U, k, W)
      BY <2>5, <2>7, <3>2 DEF GivenTo
    <3> QED
      BY <2>8, <3>1, <3>3
  <2>11. CASE GoesBack(c, k)
    <3>1. v \in DOMAIN U /\ c.args[k].upname \in Names /\ U[v].level # 0
      BY <2>4, <2>11 DEF n
    <3>2. \A i \in 1 .. k - 1 : GoesBack(c, i) => c.args[i].var # v /\ c.args[i].var \in DOMAIN U
      BY <2>4, <2>7, <2>11 DEF n
    <3>3. W \in [DOMAIN U -> Variable] /\ W[v] = U[v]
      BY <2>5, <3>1, <3>2 DEF GivenTo
    <3> DEFINE V == GiveBack(W, v, c.args[k].upname)
    <3>4. /\ V \in [DOMAIN U -> Variable]
          /\ \A w \in DOMAIN U : w # v => V[w] = W[w]
          /\ V[v].name = c.args[k].upname /\ V[v].level = W[v].level - 1
          /\ V[v].of = W[v].of /\ V[v].val = W[v].val
      BY <3>1, <3>3, GiveBackFacts
    <3>5. st[k] = V
      BY <2>9, <2>11
    <3> HIDE DEF V
    <3>6. \A w \in DOMAIN U : V[w].of = U[w].of /\ V[w].val = U[w].val
      <4>1. \A w \in DOMAIN U : W[w].of = U[w].of /\ W[w].val = U[w].val
        BY <2>5 DEF GivenTo
      <4> QED
        BY <4>1, <3>3, <3>4
    <3>7. \A w \in DOMAIN U :
             (\E i \in 1 .. k : GoesBack(c, i) /\ c.args[i].var = w) \/ V[w] = U[w]
      <4> SUFFICES ASSUME NEW w \in DOMAIN U
                   PROVE  (\E i \in 1 .. k : GoesBack(c, i) /\ c.args[i].var = w) \/ V[w] = U[w]
        OBVIOUS
      <4>1. CASE w = v
        <5>1. k \in 1 .. k
          BY <2>4 DEF n
        <5> QED
          BY <4>1, <5>1, <2>11
      <4>2. CASE w # v
        <5>1. V[w] = W[w]
          BY <4>2, <3>4
        <5>2. (\E i \in 1 .. k - 1 : GoesBack(c, i) /\ c.args[i].var = w) \/ W[w] = U[w]
          BY <2>5 DEF GivenTo
        <5> QED
          BY <5>1, <5>2, <2>7
      <4> QED
        BY <4>1, <4>2
    <3>8. \A i \in 1 .. k : GoesBack(c, i) =>
             /\ V[c.args[i].var].level = U[c.args[i].var].level - 1
             /\ V[c.args[i].var].name = c.args[i].upname
      <4> SUFFICES ASSUME NEW i \in 1 .. k, GoesBack(c, i)
                   PROVE  /\ V[c.args[i].var].level = U[c.args[i].var].level - 1
                          /\ V[c.args[i].var].name = c.args[i].upname
        OBVIOUS
      <4>1. CASE i = k
        BY <4>1, <3>3, <3>4
      <4>2. CASE i # k
        <5>1. i \in 1 .. k - 1
          BY <4>2, <2>6
        <5>2. V[c.args[i].var] = W[c.args[i].var]
          BY <5>1, <3>2, <3>4
        <5>3. /\ W[c.args[i].var].level = U[c.args[i].var].level - 1
              /\ W[c.args[i].var].name = c.args[i].upname
          BY <5>1, <2>5 DEF GivenTo
        <5> QED
          BY <5>2, <5>3
      <4> QED
        BY <4>1, <4>2
    <3>9. GivenTo(c, U, k, V)
      BY <3>4, <3>6, <3>7, <3>8 DEF GivenTo
    <3> QED
      BY <2>8, <3>5, <3>9
  <2> QED
    BY <2>10, <2>11
<1>5. n \notin T /\ n \in 0 .. n
  BY <1>4
<1>6. GivenTo(c, U, n, st[n])
  BY <1>5
<1> QED
  BY <1>2, <1>6 DEF st

\* Which arguments go back is a matter of the flags of the function.
LEMMA LoansSame ==
  ASSUME NEW c, NEW imm, NEW im2, imm[c.fun] = im2[c.fun]
  PROVE  /\ \A k : Back(imm, c, k) <=> Back(im2, c, k)
         /\ Loans(imm, c) = Loans(im2, c)
         /\ Recorded(imm, c) <=> Recorded(im2, c)
<1>1. \A k : Back(imm, c, k) <=> Back(im2, c, k)
  BY DEF Back
<1> QED
  BY <1>1 DEF Loans, Recorded

\* What the current function has borrowed.
LEMMA TopFrame ==
  ASSUME IInv, Depth # 0, NEW c, c = Last(callstack)
  PROVE  /\ c = callstack[Depth] /\ c \in Frame /\ Recorded(immut, c)
         /\ LoansOf(immut, callstack)[Depth] = Loans(immut, c)
         /\ OrigsOf(callstack)[Depth] = c.orig
         /\ Len(c.args) \in Nat /\ DOMAIN c.args = 1 .. Len(c.args)
         /\ Depth \in 1 .. Depth /\ Depth > 0 /\ Depth - 1 \in Nat /\ (Depth - 1) + 1 = Depth
<1>1. Depth \in 1 .. Depth /\ Depth \in 1 .. Len(callstack) /\ Depth > 0 /\ Depth - 1 \in Nat /\ (Depth - 1) + 1 = Depth
  <2>1. Depth \in Nat /\ Depth = Len(callstack)
    BY UvarsFacts
  <2> HIDE DEF Depth
  <2> QED
    BY <2>1
<1>2. c = callstack[Depth] /\ c \in Frame
  BY <1>1 DEF IInv, Last, Depth
<1>3. LoansOf(immut, callstack)[Depth] = Loans(immut, c) /\ OrigsOf(callstack)[Depth] = c.orig
  BY <1>1, <1>2 DEF LoansOf, OrigsOf
<1>4. Recorded(immut, c)
  BY <1>1, <1>2 DEF IInv
<1>5. c.args \in Seq(Argument)
  BY <1>2 DEF Frame
<1>6. Len(c.args) \in Nat /\ DOMAIN c.args = 1 .. Len(c.args)
  BY <1>5
<1> QED
  BY <1>1, <1>2, <1>3, <1>4, <1>6

\* Each of those is one variable, at the level of the function.
LEMMA TopLent ==
  ASSUME IInv, Depth # 0, NEW c, c = Last(callstack),
         NEW k \in DOMAIN c.args, Back(immut, c, k)
  PROVE  /\ LoanOf(c, k) \in LoansOf(immut, callstack)[Depth]
         /\ c.args[k].var \in DOMAIN uvars /\ c.args[k].upname \in Names
         /\ uvars[c.args[k].var].level = Depth
         /\ c.args[k].var \in Borrowed(LoansOf(immut, callstack)[Depth])
         /\ \A j \in DOMAIN c.args :
               Back(immut, c, j) /\ c.args[j].var = c.args[k].var => j = k
<1> DEFINE G == LoansOf(immut, callstack)
<1>1. /\ Depth \in 1 .. Depth /\ G[Depth] = Loans(immut, c) /\ Recorded(immut, c)
      /\ c \in Frame
  BY TopFrame
<1>2. Sound(uvars, G, OrigsOf(callstack), Depth)
  BY DEF IInv
<1> HIDE DEF G, Depth
<1>3. \A j \in DOMAIN c.args : Back(immut, c, j) => LoanOf(c, j) \in G[Depth]
  BY <1>1 DEF Loans
<1>4. \A j \in DOMAIN c.args : Back(immut, c, j) =>
         LoanOf(c, j) \in Loan /\ IsLent(uvars, G, Depth, Depth, LoanOf(c, j))
  BY <1>1, <1>2, <1>3 DEF Sound, Lending, Typed
<1>5. \A j \in DOMAIN c.args :
         /\ LoanOf(c, j).var = c.args[j].var /\ LoanOf(c, j).up = c.args[j].upname
         /\ LoanOf(c, j).par = Params[c.fun][j].name
  BY DEF LoanOf
<1>6. c.args[k].var \in DOMAIN uvars /\ c.args[k].upname \in Names /\ Depth <= uvars[c.args[k].var].level
  BY <1>4, <1>5 DEF Loan, IsLent
<1>7. uvars[c.args[k].var].level = Depth
  <2>1. uvars[c.args[k].var].level \in 0 .. Depth /\ Depth \in Nat
    BY <1>6, UvarsFacts
  <2> QED
    BY <2>1, <1>6
<1>8. c.args[k].var \in Borrowed(G[Depth])
  BY <1>3, <1>5 DEF Borrowed
<1>9. \A j \in DOMAIN c.args :
         Back(immut, c, j) /\ c.args[j].var = c.args[k].var => j = k
  <2> SUFFICES ASSUME NEW j \in DOMAIN c.args, Back(immut, c, j), c.args[j].var = c.args[k].var
               PROVE  j = k
    OBVIOUS
  <2>1. LoanOf(c, j) = LoanOf(c, k)
    <3>1. LoanOf(c, j) \in G[Depth] /\ LoanOf(c, j).var = LoanOf(c, k).var
      BY <1>3, <1>5
    <3>2. \A m \in G[Depth] : m.var = LoanOf(c, k).var => m = LoanOf(c, k)
      BY <1>4 DEF IsLent
    <3> QED
      BY <3>1, <3>2
  <2>2. Params[c.fun][j].name = Params[c.fun][k].name
    BY <2>1, <1>5
  <2>3. j \in DOMAIN Params[c.fun] /\ k \in DOMAIN Params[c.fun]
    BY <1>1 DEF Recorded
  <2>4. c.fun \in Funs
    BY <1>1 DEF Frame
  <2> QED
    BY <2>2, <2>3, <2>4, ParamFacts
<1> QED
  BY <1>3, <1>6, <1>7, <1>8, <1>9 DEF G

\* The value of a variable is taken.
LEMMA TakeFacts ==
  ASSUME IInv, NEW c, NEW x, x # None => Exists(x)
  PROVE  /\ TakeValue(c, x) \in [DOMAIN uvars -> Variable]
         /\ \A v \in DOMAIN uvars :
               /\ TakeValue(c, x)[v].name = uvars[v].name
               /\ TakeValue(c, x)[v].level = uvars[v].level
               /\ TakeValue(c, x)[v].of = uvars[v].of
               /\ \/ TakeValue(c, x)[v].val = uvars[v].val
                  \/ v = Var(x) /\ x # None /\ ~IsPointerArg(c, x)
         /\ Sound(TakeValue(c, x), LoansOf(immut, callstack), OrigsOf(callstack), Depth)
<1>1. CASE x = None \/ IsPointerArg(c, x)
  <2>1. TakeValue(c, x) = uvars
    BY <1>1 DEF TakeValue
  <2>2. Sound(uvars, LoansOf(immut, callstack), OrigsOf(callstack), Depth)
    BY DEF IInv
  <2> QED
    BY <2>1, <2>2, UvarsFacts
<1>2. CASE ~(x = None \/ IsPointerArg(c, x))
  <2> DEFINE y == 2
  <2>1. TakeValue(c, x) = [uvars EXCEPT ![Var(x)].val = y]
    BY <1>2 DEF TakeValue, Gone
  <2>2. Var(x) \in DOMAIN uvars /\ y \in 0 .. 2
    BY <1>2, VarFacts
  <2> HIDE DEF y
  <2>3. /\ [uvars EXCEPT ![Var(x)].val = y] \in [DOMAIN uvars -> Variable]
        /\ \A v \in DOMAIN uvars :
               /\ [uvars EXCEPT ![Var(x)].val = y][v].name = uvars[v].name
               /\ [uvars EXCEPT ![Var(x)].val = y][v].level = uvars[v].level
               /\ [uvars EXCEPT ![Var(x)].val = y][v].of = uvars[v].of
               /\ [uvars EXCEPT ![Var(x)].val = y][v].val = IF v = Var(x) THEN y ELSE uvars[v].val
        /\ Sound([uvars EXCEPT ![Var(x)].val = y], LoansOf(immut, callstack), OrigsOf(callstack), Depth)
    BY <2>2, ValueSet
  <2> HIDE DEF Depth
  <2> QED
    BY <2>1, <2>3, <1>2
<1> QED
  BY <1>1, <1>2

\* The series of the main script are at its level already.
LEMMA InMain ==
  ASSUME NEW V, V \in [DOMAIN V -> Variable],
         Depth \in Nat, Depth # 0, \A v \in DOMAIN V : V[v].level < Depth
  PROVE  BackInMain(V) = V
<1>1. CASE Depth > 1
  BY <1>1 DEF BackInMain
<1>2. CASE ~(Depth > 1)
  <2>1. Depth = 1
    BY <1>2
  <2>2. \A v \in DOMAIN V : [V[v] EXCEPT !.level = 0] = V[v]
    <3> SUFFICES ASSUME NEW v \in DOMAIN V PROVE [V[v] EXCEPT !.level = 0] = V[v]
      OBVIOUS
    <3> DEFINE r == V[v]
    <3>1. r \in [name : Names, level : Nat, val : 0 .. 2, of : Nat] /\ r.level < 1
      BY <2>1 DEF Variable
    <3> HIDE DEF r
    <3>2. r.level = 0
      BY <3>1
    <3>3. [r EXCEPT !.level = 0] = r
      BY <3>1, <3>2
    <3> QED
      BY <3>3 DEF r
  <2>3. BackInMain(V) = [v \in DOMAIN V |-> IF V[v].name \in Series THEN [V[v] EXCEPT !.level = 0] ELSE V[v]]
    BY <1>2 DEF BackInMain
  <2>4. BackInMain(V) = [v \in DOMAIN V |-> V[v]]
    BY <2>2, <2>3
  <2> QED
    BY <2>4
<1> QED
  BY <1>1, <1>2

\* V is what the end of the current function leaves: what is lent to it has gone
\* back to the level of the caller.
Returned(V) ==
    LET lent == LoansOf(immut, callstack)[Depth]
    IN  /\ DOMAIN V = {w \in DOMAIN uvars : uvars[w].level # Depth \/ w \in Borrowed(lent)}
        /\ \A w \in DOMAIN V : V[w].of = uvars[w].of
        /\ \A w \in DOMAIN V : w \notin Borrowed(lent) =>
              V[w].level = uvars[w].level /\ V[w].name = uvars[w].name
        /\ \A l \in lent : V[l.var].level = Depth - 1 /\ V[l.var].name = l.up

\* The variables after a return, at the level of the caller.
LEMMA ReturnSound ==
  ASSUME IInv, Depth # 0, NEW c, c = Last(callstack), NEW x, x # None => Exists(x),
         NEW V, V = BackInMain(Cleared(c, ArgsGivenBack(c, TakeValue(c, x))))
  PROVE  /\ Sound(V, LoansOf(immut, callstack), OrigsOf(callstack), Depth - 1)
         /\ DOMAIN V \subseteq DOMAIN uvars
         /\ \A w \in DOMAIN V :
               \/ V[w].val = uvars[w].val
               \/ /\ x # None /\ w = Var(x) /\ ~IsPointerArg(c, x)
                  /\ w \in Borrowed(LoansOf(immut, callstack)[Depth])
         /\ Returned(V)
<1> DEFINE G == LoansOf(immut, callstack)
           O == OrigsOf(callstack)
           U == TakeValue(c, x)
           W == ArgsGivenBack(c, U)
           Z == Cleared(c, W)
           n == Depth - 1
<1>1. /\ c = callstack[Depth] /\ c \in Frame /\ Recorded(immut, c)
      /\ G[Depth] = Loans(immut, c) /\ O[Depth] = c.orig
      /\ Len(c.args) \in Nat /\ DOMAIN c.args = 1 .. Len(c.args)
      /\ Depth \in 1 .. Depth /\ Depth > 0 /\ n \in Nat /\ n + 1 = Depth
  BY TopFrame
<1>2. /\ U \in [DOMAIN uvars -> Variable] /\ DOMAIN U = DOMAIN uvars
      /\ \A v \in DOMAIN uvars :
               /\ U[v].name = uvars[v].name /\ U[v].level = uvars[v].level
               /\ U[v].of = uvars[v].of
               /\ \/ U[v].val = uvars[v].val
                  \/ v = Var(x) /\ x # None /\ ~IsPointerArg(c, x)
      /\ Sound(U, G, O, Depth)
  BY TakeFacts
<1>3. \A k \in DOMAIN c.args : Back(immut, c, k) =>
         /\ LoanOf(c, k) \in G[Depth]
         /\ c.args[k].var \in DOMAIN uvars /\ c.args[k].upname \in Names
         /\ uvars[c.args[k].var].level = Depth
         /\ c.args[k].var \in Borrowed(G[Depth])
         /\ \A j \in DOMAIN c.args :
               Back(immut, c, j) /\ c.args[j].var = c.args[k].var => j = k
  BY TopLent
<1>4. \A k : GoesBack(c, k) = Back(immut, c, k)
  BY DEF GoesBack, Back
<1>5. Depth \in Nat /\ \A v \in DOMAIN uvars : uvars[v].level \in 0 .. Depth
  BY UvarsFacts
<1> HIDE DEF U, G, O, Depth
<1>6. GivenTo(c, U, Len(c.args), W)
  <2>1. \A i \in 1 .. Len(c.args) : GoesBack(c, i) =>
            /\ c.args[i].var \in DOMAIN U /\ U[c.args[i].var].level # 0
            /\ c.args[i].upname \in Names
    BY <1>1, <1>2, <1>3, <1>4
  <2>2. \A i, j \in 1 .. Len(c.args) :
            GoesBack(c, i) /\ GoesBack(c, j) /\ c.args[i].var = c.args[j].var => i = j
    BY <1>1, <1>3, <1>4
  <2>3. U \in [DOMAIN U -> Variable] /\ Len(c.args) \in Nat
    BY <1>1, <1>2
  <2> QED
    BY <2>1, <2>2, <2>3, GivenBack
<1> HIDE DEF W
<1>7. W \in [DOMAIN uvars -> Variable] /\ DOMAIN W = DOMAIN uvars
  BY <1>2, <1>6 DEF GivenTo
<1>8. \A w \in DOMAIN uvars :
         /\ W[w].of = U[w].of /\ W[w].val = U[w].val
         /\ w \notin Borrowed(G[Depth]) => W[w] = U[w]
  <2> SUFFICES ASSUME NEW w \in DOMAIN uvars
               PROVE  /\ W[w].of = U[w].of /\ W[w].val = U[w].val
                      /\ w \notin Borrowed(G[Depth]) => W[w] = U[w]
    OBVIOUS
  <2>1. (\E i \in 1 .. Len(c.args) : GoesBack(c, i) /\ c.args[i].var = w) \/ W[w] = U[w]
    BY <1>2, <1>6 DEF GivenTo
  <2>2. W[w].of = U[w].of /\ W[w].val = U[w].val
    BY <1>2, <1>6 DEF GivenTo
  <2> QED
    BY <2>1, <2>2, <1>1, <1>3, <1>4
<1>9. \A l \in G[Depth] : W[l.var].level = n /\ W[l.var].name = l.up /\ l.var \in DOMAIN uvars
  <2> SUFFICES ASSUME NEW l \in G[Depth]
               PROVE  W[l.var].level = n /\ W[l.var].name = l.up /\ l.var \in DOMAIN uvars
    OBVIOUS
  <2>1. PICK k \in DOMAIN c.args : Back(immut, c, k) /\ l = LoanOf(c, k)
    BY <1>1 DEF Loans
  <2>2. l.var = c.args[k].var /\ l.up = c.args[k].upname
    BY <2>1 DEF LoanOf
  <2>3. W[c.args[k].var].level = U[c.args[k].var].level - 1 /\ W[c.args[k].var].name = c.args[k].upname
    BY <2>1, <1>1, <1>4, <1>6 DEF GivenTo
  <2>4. c.args[k].var \in DOMAIN uvars /\ uvars[c.args[k].var].level = Depth
    BY <2>1, <1>3
  <2>5. U[c.args[k].var].level = Depth
    BY <2>4, <1>2
  <2> QED
    BY <2>2, <2>3, <2>4, <2>5
<1>10. \A w \in DOMAIN uvars : W[w].level = Depth <=> uvars[w].level = Depth /\ w \notin Borrowed(G[Depth])
  <2> SUFFICES ASSUME NEW w \in DOMAIN uvars
               PROVE  W[w].level = Depth <=> uvars[w].level = Depth /\ w \notin Borrowed(G[Depth])
    OBVIOUS
  <2>1. CASE w \in Borrowed(G[Depth])
    <3>1. W[w].level = n
      BY <2>1, <1>9 DEF Borrowed
    <3> QED
      BY <2>1, <3>1, <1>1
  <2>2. CASE w \notin Borrowed(G[Depth])
    BY <2>2, <1>2, <1>8
  <2> QED
    BY <2>1, <2>2
<1>11. \A w \in c.orig : w \in DOMAIN uvars => W[w].level # Depth
  <2> SUFFICES ASSUME NEW w \in c.orig, w \in DOMAIN uvars PROVE W[w].level # Depth
    OBVIOUS
  <2>1. U[w].level < Depth \/ w \in Borrowed(G[Depth])
    BY <1>1, <1>2 DEF Sound, Keeping, Kept
  <2>2. uvars[w].level < Depth \/ w \in Borrowed(G[Depth])
    BY <2>1, <1>2
  <2> QED
    BY <2>2, <1>5, <1>10
<1>12. /\ DOMAIN Z = {w \in DOMAIN uvars : uvars[w].level # Depth \/ w \in Borrowed(G[Depth])}
       /\ \A w \in DOMAIN Z : Z[w] = W[w]
       /\ Z \in [DOMAIN Z -> Variable]
  <2> DEFINE gone == {v \in {v \in DOMAIN W : W[v].level = Depth} : W[v].name \in Series => v \notin c.orig}
  <2>1. gone = {v \in DOMAIN uvars : W[v].level = Depth}
    BY <1>7, <1>11
  <2>2. Z = [w \in DOMAIN W \ gone |-> W[w]]
    BY DEF Cleared, Without
  <2> HIDE DEF gone, Z
  <2>3. DOMAIN Z = DOMAIN uvars \ gone /\ \A w \in DOMAIN Z : Z[w] = W[w]
    BY <2>2, <1>7
  <2>4. \A w \in DOMAIN Z : W[w] \in Variable
    BY <2>3, <1>7
  <2>5. Z \in [DOMAIN Z -> Variable]
    BY <2>2, <2>3, <2>4
  <2>6. DOMAIN Z = {w \in DOMAIN uvars : uvars[w].level # Depth \/ w \in Borrowed(G[Depth])}
    BY <2>1, <2>3, <1>10
  <2> QED
    BY <2>3, <2>5, <2>6
<1> HIDE DEF Z
<1>13. Sound(Z, G, O, n)
  <2>1. DOMAIN Z = {w \in DOMAIN U : U[w].level # n + 1 \/ w \in Borrowed(G[n + 1])}
    BY <1>1, <1>2, <1>12
  <2>2. \A w \in DOMAIN Z : Z[w].of = U[w].of
    BY <1>8, <1>12
  <2>3. \A w \in DOMAIN Z : w \notin Borrowed(G[n + 1]) =>
            Z[w].level = U[w].level /\ Z[w].name = U[w].name
    BY <1>1, <1>8, <1>12
  <2>4. \A l \in G[n + 1] : Z[l.var].level = n /\ Z[l.var].name = l.up
    <3> SUFFICES ASSUME NEW l \in G[Depth] PROVE Z[l.var].level = n /\ Z[l.var].name = l.up
      BY <1>1
    <3>1. l.var \in Borrowed(G[Depth])
      BY DEF Borrowed
    <3> QED
      BY <3>1, <1>9, <1>12
  <2>5. Sound(U, G, O, n + 1)
    BY <1>1, <1>2
  <2>6. n \in Nat /\ Z \in [DOMAIN Z -> Variable]
    BY <1>1, <1>12
  <2> HIDE DEF n
  <2> QED
    BY <2>1, <2>2, <2>3, <2>4, <2>5, <2>6, SoundClose
<1>14. V = Z
  <2>1. \A w \in DOMAIN Z : Z[w].level < Depth
    <3>1. \A w \in DOMAIN Z : Z[w] \in Variable /\ Z[w].level <= n
      BY <1>13 DEF Sound, Typed
    <3>2. \A w \in DOMAIN Z : Z[w].level \in Nat /\ Z[w].level <= n
      BY <3>1 DEF Variable
    <3> QED
      BY <3>2, <1>5
  <2>2. V = BackInMain(Z)
    BY DEF Z, W, U
  <2> QED
    BY <2>1, <2>2, <1>5, <1>12, InMain
<1>15. \A w \in DOMAIN V :
          \/ V[w].val = uvars[w].val
          \/ /\ x # None /\ w = Var(x) /\ ~IsPointerArg(c, x)
             /\ w \in Borrowed(G[Depth])
  <2> SUFFICES ASSUME NEW w \in DOMAIN V, V[w].val # uvars[w].val
               PROVE  /\ x # None /\ w = Var(x) /\ ~IsPointerArg(c, x)
                      /\ w \in Borrowed(G[Depth])
    OBVIOUS
  <2>1. w \in DOMAIN uvars /\ V[w].val = U[w].val
    BY <1>8, <1>12, <1>14
  <2>2. w = Var(x) /\ x # None /\ ~IsPointerArg(c, x)
    BY <2>1, <1>2
  <2>3. uvars[w].level = Depth
    BY <2>2, VarFacts
  <2> QED
    BY <2>2, <2>3, <1>12, <1>14
<1>16. Returned(V)
  <2>1. DOMAIN V = {w \in DOMAIN uvars : uvars[w].level # Depth \/ w \in Borrowed(G[Depth])}
    BY <1>12, <1>14
  <2>2. \A w \in DOMAIN V : V[w] = W[w] /\ w \in DOMAIN uvars
    BY <1>12, <1>14
  <2>3. \A w \in DOMAIN V : V[w].of = uvars[w].of
    BY <2>2, <1>2, <1>8
  <2>4. \A w \in DOMAIN V : w \notin Borrowed(G[Depth]) =>
           V[w].level = uvars[w].level /\ V[w].name = uvars[w].name
    BY <2>2, <1>2, <1>8
  <2>5. \A l \in G[Depth] : V[l.var].level = n /\ V[l.var].name = l.up
    <3> SUFFICES ASSUME NEW l \in G[Depth] PROVE V[l.var].level = n /\ V[l.var].name = l.up
      OBVIOUS
    <3>1. l.var \in Borrowed(G[Depth]) /\ l.var \in DOMAIN uvars
      BY <1>9 DEF Borrowed
    <3>2. l.var \in DOMAIN V
      BY <3>1, <2>1
    <3> QED
      BY <3>2, <2>2, <1>9
  <2> QED
    BY <2>1, <2>3, <2>4, <2>5 DEF Returned, G, n
<1>17. Sound(V, G, O, n) /\ DOMAIN V \subseteq DOMAIN uvars
  BY <1>12, <1>13, <1>14
<1> QED
  BY <1>15, <1>16, <1>17 DEF G, O, n

\* The flags of the functions that are still running stay.
LEMMA FrontFacts ==
  ASSUME IInv, Depth # 0, NEW s, s = Front(callstack)
  PROVE  /\ s \in Seq(Frame) /\ Len(s) = Depth - 1 /\ Len(s) \in Nat
         /\ \A i \in 1 .. Len(s) : s[i] = callstack[i] /\ i \in 1 .. Depth /\ s[i] \in Frame
         /\ Flags(Settled(immut, s))
         /\ \A i \in 1 .. Len(s) :
               /\ LoansOf(Settled(immut, s), s)[i] = LoansOf(immut, callstack)[i]
               /\ OrigsOf(s)[i] = OrigsOf(callstack)[i]
               /\ Recorded(Settled(immut, s), s[i])
               /\ Settled(immut, s)[s[i].fun] = immut[s[i].fun]
<1> DEFINE n == Depth - 1
           imm == Settled(immut, s)
<1>1. n \in Nat /\ Depth \in Nat /\ Len(callstack) = Depth /\ callstack \in Seq(Frame)
  <2>1. Depth \in Nat /\ Depth = Len(callstack) /\ callstack \in Seq(Frame)
    BY UvarsFacts DEF IInv
  <2> HIDE DEF Depth
  <2> QED
    BY <2>1
<1>2. s = SubSeq(callstack, 1, n)
  BY DEF Front, Depth
<1> HIDE DEF Depth
<1>3. /\ s \in Seq(Frame) /\ Len(s) = n
      /\ \A i \in 1 .. n : s[i] = callstack[i] /\ i \in 1 .. Depth
  BY <1>1, <1>2
<1>4. \A i \in 1 .. n : s[i] \in Frame
  BY <1>1, <1>3
<1>5. \A i \in 1 .. n : s[i].fun \in Funs /\ imm[s[i].fun] = immut[s[i].fun]
  <2> SUFFICES ASSUME NEW i \in 1 .. n PROVE s[i].fun \in Funs /\ imm[s[i].fun] = immut[s[i].fun]
    OBVIOUS
  <2>1. s[i].fun \in Funs
    BY <1>4 DEF Frame
  <2>2. i \in DOMAIN s
    BY <1>1, <1>3
  <2> QED
    BY <2>1, <2>2 DEF Settled
<1>6. Flags(imm)
  <2>1. DOMAIN imm = Funs /\ \A f \in Funs : imm[f] = immut[f] \/ imm[f] = Declared(f)
    BY DEF Settled
  <2>2. \A f \in Funs : [k \in DOMAIN Params[f] |-> Params[f][k].mode = "const"] \in [DOMAIN Params[f] -> BOOLEAN]
    OBVIOUS
  <2> HIDE DEF imm
  <2>3. \A f \in Funs : Declared(f) \in [DOMAIN Params[f] -> BOOLEAN]
    BY <2>2 DEF Declared
  <2> QED
    BY <2>1, <2>3 DEF IInv, Flags
<1>7. \A i \in 1 .. n :
         /\ LoansOf(imm, s)[i] = Loans(imm, s[i]) /\ LoansOf(immut, callstack)[i] = Loans(immut, s[i])
         /\ OrigsOf(s)[i] = OrigsOf(callstack)[i]
  BY <1>1, <1>3 DEF LoansOf, OrigsOf
<1>8. \A i \in 1 .. n : Recorded(immut, s[i])
  BY <1>3 DEF IInv
<1> HIDE DEF imm
<1>9. \A i \in 1 .. n : Loans(imm, s[i]) = Loans(immut, s[i]) /\ Recorded(imm, s[i])
  BY <1>5, <1>8, LoansSame
<1> QED
  BY <1>1, <1>3, <1>4, <1>5, <1>6, <1>7, <1>9 DEF imm

\* What the end of a function does: a value that is taken is that of a variable
\* that goes.
LEMMA ReturnFacts ==
  ASSUME IInv, NEW x \in Names \cup {None}, Return(x)
  PROVE  /\ Depth # 0 /\ callstack' = Front(callstack)
         /\ immut' = Settled(immut, Front(callstack))
         /\ Sound(uvars', LoansOf(immut, callstack), OrigsOf(callstack), Depth - 1)
         /\ DOMAIN uvars' \subseteq DOMAIN uvars
         /\ "return" \notin Faults => \A w \in DOMAIN uvars' : uvars'[w].val = uvars[w].val
         /\ Returned(uvars')
<1> DEFINE c == Last(callstack)
<1>1. /\ Depth > 0
      /\ x # None => Exists(x)
      /\ x # None => \/ "return" \in Faults
                     \/ IsPointerArg(c, x) \/ ~Flagged(immut, x)
      /\ uvars' = BackInMain(Cleared(c, ArgsGivenBack(c, TakeValue(c, x))))
      /\ callstack' = Front(callstack) /\ immut' = Settled(immut, Front(callstack))
  BY DEF Return
<1>2. Depth # 0 /\ Depth \in Nat
  <2>1. Depth \in Nat
    BY UvarsFacts
  <2> HIDE DEF Depth
  <2> QED
    BY <1>1, <2>1
<1> HIDE DEF c
<1> DEFINE V == BackInMain(Cleared(c, ArgsGivenBack(c, TakeValue(c, x))))
<1>3. c = Last(callstack) /\ (x # None => Exists(x)) /\ uvars' = V
  BY <1>1 DEF c
<1>4. V = BackInMain(Cleared(c, ArgsGivenBack(c, TakeValue(c, x))))
  OBVIOUS
<1> HIDE DEF V
<1>5. Sound(V, LoansOf(immut, callstack), OrigsOf(callstack), Depth - 1)
  BY <1>2, <1>3, <1>4, ReturnSound
<1>6. DOMAIN V \subseteq DOMAIN uvars
  BY <1>2, <1>3, <1>4, ReturnSound
<1>7. \A w \in DOMAIN V :
         \/ V[w].val = uvars[w].val
         \/ /\ x # None /\ w = Var(x) /\ ~IsPointerArg(c, x)
            /\ w \in Borrowed(LoansOf(immut, callstack)[Depth])
  BY <1>2, <1>3, <1>4, ReturnSound
<1>8. Returned(V)
  BY <1>2, <1>3, <1>4, ReturnSound
<1>9. ASSUME "return" \notin Faults, NEW w \in DOMAIN V PROVE V[w].val = uvars[w].val
  <2> SUFFICES ASSUME x # None, w = Var(x), ~IsPointerArg(c, x),
                      w \in Borrowed(LoansOf(immut, callstack)[Depth])
               PROVE  FALSE
    BY <1>7
  <2>1. PICK k \in DOMAIN c.args :
           /\ k \in DOMAIN Params[c.fun]
           /\ Back(immut, c, k)
           /\ uvars[w].name = Params[c.fun][k].name
    BY <1>2, TopLoans DEF c
  <2>2. uvars[w].name = x
    BY <1>1, VarFacts
  <2>3. ~ByRef(c.fun, k)
    BY <2>1, <2>2 DEF IsPointerArg
  <2>4. Recorded(immut, c)
    BY <1>2, TopFrame DEF c
  <2>5. immut[c.fun][k]
    BY <2>1, <2>3, <2>4 DEF Back, Recorded
  <2>6. FlaggedIn(immut, c, x)
    BY <2>1, <2>2, <2>5 DEF FlaggedIn
  <2>7. Flagged(immut, x)
    BY <2>6, <1>1 DEF Flagged, c
  <2> QED
    BY <2>7, <1>9, <1>1
<1> HIDE DEF Depth
<1> QED
  BY <1>1, <1>2, <1>3, <1>5, <1>6, <1>8, <1>9

\* What is lent goes back, and the rest of the level of the function goes.
LEMMA StepReturn ==
  ASSUME IInv, NEW x \in Names \cup {None}, Return(x) PROVE IInv'
<1> DEFINE s == Front(callstack)
<1>1. /\ Depth # 0 /\ callstack' = s /\ immut' = Settled(immut, s)
      /\ Sound(uvars', LoansOf(immut, callstack), OrigsOf(callstack), Depth - 1)
      /\ DOMAIN uvars' \subseteq DOMAIN uvars
      /\ "return" \notin Faults => \A w \in DOMAIN uvars' : uvars'[w].val = uvars[w].val
  BY ReturnFacts
<1> HIDE DEF s
<1>2. /\ s \in Seq(Frame) /\ Len(s) = Depth - 1 /\ Len(s) \in Nat
      /\ \A i \in 1 .. Len(s) : s[i] = callstack[i] /\ i \in 1 .. Depth /\ s[i] \in Frame
      /\ Flags(Settled(immut, s))
      /\ \A i \in 1 .. Len(s) :
            /\ LoansOf(Settled(immut, s), s)[i] = LoansOf(immut, callstack)[i]
            /\ OrigsOf(s)[i] = OrigsOf(callstack)[i]
            /\ Recorded(Settled(immut, s), s[i])
  BY <1>1, FrontFacts DEF s
<1>3. Sound(uvars', LoansOf(immut', callstack'), OrigsOf(callstack'), Len(s))
  <2>1. \A i \in 1 .. Len(s) :
           /\ LoansOf(immut', callstack')[i] = LoansOf(immut, callstack)[i]
           /\ OrigsOf(callstack')[i] = OrigsOf(callstack)[i]
    BY <1>1, <1>2
  <2>2. Sound(uvars', LoansOf(immut, callstack), OrigsOf(callstack), Len(s))
    BY <1>1, <1>2
  <2> QED
    BY <2>1, <2>2, SoundSame
<1>4. Bounded(uvars')
  BY <1>1 DEF IInv, Bounded
<1>5. Len(s) <= MaxDepth
  <2>1. Depth <= MaxDepth /\ MaxDepth \in Nat /\ Depth \in Nat
    BY ConstantFacts, UvarsFacts DEF IInv
  <2> HIDE DEF Depth
  <2> QED
    BY <2>1, <1>2
<1>6. Depth' = Len(s)
  BY <1>1 DEF Depth
<1>7. \A i \in 1 .. Len(s) : Recorded(immut', callstack'[i])
  BY <1>1, <1>2
<1>8. callstack' \in Seq(Frame) /\ Flags(immut')
  BY <1>1, <1>2
<1> QED
  BY <1>3, <1>4, <1>5, <1>6, <1>7, <1>8 DEF IInv

-----------------------------------------------------------------------------
(***************************************************************************)
(* Passing an argument: the states in between                              *)
(***************************************************************************)

\* A function on an interval is a sequence.
LEMMA SeqFcn ==
  ASSUME NEW X, NEW n \in Nat, NEW s \in [1 .. n -> X]
  PROVE  s \in Seq(X) /\ Len(s) = n /\ DOMAIN s = 1 .. n
<1>1. s \in Seq(X)
  BY SeqDef
<1>2. DOMAIN s = 1 .. Len(s) /\ Len(s) \in Nat
  BY <1>1
<1>3. Len(s) = n
  BY <1>2
<1> QED
  BY <1>1, <1>3

\* The arguments of a call.
LEMMA ArgsFacts ==
  ASSUME NEW f \in Funs, NEW a \in Args(f)
  PROVE  /\ Len(a) = Len(Params[f]) /\ Len(a) \in Nat
         /\ DOMAIN a = 1 .. Len(a) /\ DOMAIN Params[f] = 1 .. Len(a)
         /\ \A k \in 1 .. Len(a) :
               /\ a[k] \in Names \cup {None}
               /\ a[k] = None => ~ByRef(f, k)
               /\ a[k] # None => /\ (a[k] \in Series) = (Params[f][k].name \in Series)
                                 /\ Exists(a[k]) /\ uvars[Cell(uvars, Var(a[k]))].val # Gone
<1>1. Len(Params[f]) \in Nat /\ DOMAIN Params[f] = 1 .. Len(Params[f])
  BY ParamFacts
<1>2. a \in [1 .. Len(Params[f]) -> Names \cup {None}]
  BY <1>1 DEF Args
<1>3. Len(a) = Len(Params[f]) /\ DOMAIN a = 1 .. Len(a)
  BY <1>1, <1>2, SeqFcn
<1>4. \A k \in DOMAIN a :
         IF a[k] = None THEN ~ByRef(f, k)
         ELSE /\ a[k] \in Series <=> Params[f][k].name \in Series
              /\ Exists(a[k]) /\ uvars[Cell(uvars, Var(a[k]))].val # Gone
  BY DEF Args
<1> QED
  BY <1>1, <1>2, <1>3, <1>4

\* The state after the j-th argument.
PassedAt(f, a, st, j) ==
    IF j = 0 THEN Passing(f)
    ELSE IF st[j-1].ok THEN PassArg(f, a, j, st[j-1])
    ELSE st[j-1]

\* st is the state after each of the first m arguments.
PassesUpTo(f, a, m, st) == st = [j \in 0 .. m |-> PassedAt(f, a, st, j)]

\* The recursive function of Passed.
LEMMA PassedIs ==
  ASSUME NEW f, NEW a, NEW n
  PROVE  Passed(f, a, n) = (CHOOSE st : PassesUpTo(f, a, n, st))[n]
BY DEF Passed, PassesUpTo, PassedAt

\* There is one.
LEMMA PassesExists ==
  ASSUME NEW f, NEW a, NEW n \in Nat
  PROVE  \E st : PassesUpTo(f, a, n, st)
<1> DEFINE T == {m \in 0 .. n : ~\E st : PassesUpTo(f, a, m, st)}
<1> SUFFICES ASSUME n \in T PROVE FALSE
  OBVIOUS
<1>1. T \subseteq Nat /\ T # {}
  OBVIOUS
<1>2. PICK m \in T : \A y \in T : m <= y
  <2> HIDE DEF T
  <2> QED
    BY <1>1, Least
<1>3. m # 0
  <2>1. PassesUpTo(f, a, 0, [j \in 0 .. 0 |-> Passing(f)])
    <3>1. \A k \in 0 .. 0 : PassedAt(f, a, [j \in 0 .. 0 |-> Passing(f)], k) = Passing(f)
      BY DEF PassedAt
    <3> QED
      BY <3>1 DEF PassesUpTo
  <2> QED
    BY <2>1, <1>2
<1>4. m \in Nat /\ m - 1 \in 0 .. n /\ m - 1 \notin T
  BY <1>2, <1>3
<1>5. PICK st : PassesUpTo(f, a, m - 1, st)
  BY <1>4
<1> DEFINE s2 == [k \in 0 .. m |-> IF k = m THEN PassedAt(f, a, st, m) ELSE st[k]]
<1>6. \A k \in 0 .. m : s2[k] = PassedAt(f, a, s2, k)
  <2> SUFFICES ASSUME NEW k \in 0 .. m PROVE s2[k] = PassedAt(f, a, s2, k)
    OBVIOUS
  <2>1. k # 0 => k - 1 \in 0 .. m /\ k - 1 # m
    BY <1>4
  <2>2. k # 0 => s2[k - 1] = st[k - 1]
    BY <2>1
  <2>3. s2[k] = PassedAt(f, a, st, k)
    <3>1. CASE k = m
      BY <3>1
    <3>2. CASE k # m
      <4>1. k \in 0 .. m - 1 /\ s2[k] = st[k]
        BY <3>2, <1>4
      <4>2. st = [j \in 0 .. m - 1 |-> PassedAt(f, a, st, j)]
        BY <1>5 DEF PassesUpTo
      <4>3. st[k] = PassedAt(f, a, st, k)
        BY <4>1, <4>2
      <4> QED
        BY <4>1, <4>3
    <3> QED
      BY <3>1, <3>2
  <2> HIDE DEF s2
  <2> QED
    BY <2>2, <2>3 DEF PassedAt
<1>7. s2 = [k \in 0 .. m |-> s2[k]]
  OBVIOUS
<1> HIDE DEF s2
<1>8. PassesUpTo(f, a, m, s2)
  BY <1>6, <1>7 DEF PassesUpTo
<1> QED
  BY <1>8, <1>2

\* A state while arguments are passed.
Passage(U, imm, A, P, ok) ==
    [uvars |-> U, immut |-> imm, args |-> A, ptrvars |-> P, ok |-> ok]

\* The parts of such a state.
LEMMA PassageFacts ==
  ASSUME NEW U, NEW imm, NEW A, NEW P, NEW ok
  PROVE  /\ Passage(U, imm, A, P, ok).uvars = U /\ Passage(U, imm, A, P, ok).immut = imm
         /\ Passage(U, imm, A, P, ok).args = A /\ Passage(U, imm, A, P, ok).ptrvars = P
         /\ Passage(U, imm, A, P, ok).ok = ok
BY DEF Passage

\* The updates of such a state.
WithTwo(st, V, B) == [st EXCEPT !.uvars = V, !.args = B]

\* The same for a variable that is moved.
WithThree(st, V, B, Q) == [st EXCEPT !.uvars = V, !.args = B, !.ptrvars = Q]

\* The flags are computed before the argument is passed.
WithFlags(st, imm) == [st EXCEPT !.immut = imm]

\* The call is refused.
WithOk(st, ok) == [st EXCEPT !.ok = ok]

\* A change of two parts.
LEMMA PassageTwo ==
  ASSUME NEW U, NEW imm, NEW A, NEW P, NEW ok, NEW V, NEW B
  PROVE  WithTwo(Passage(U, imm, A, P, ok), V, B) = Passage(V, imm, B, P, ok)
<1> DEFINE X == [Passage(U, imm, A, P, ok) EXCEPT !.uvars = V]
           Y == [X EXCEPT !.args = B]
<1>1. X = Passage(V, imm, A, P, ok)
  BY DEF Passage
<1>2. Y = Passage(V, imm, B, P, ok)
  <2> HIDE DEF X
  <2> QED
    BY <1>1 DEF Passage
<1>3. WithTwo(Passage(U, imm, A, P, ok), V, B) = Y
  BY DEF WithTwo
<1> HIDE DEF Y
<1> QED
  BY <1>2, <1>3

\* Of three.
LEMMA PassageThree ==
  ASSUME NEW U, NEW imm, NEW A, NEW P, NEW ok, NEW V, NEW B, NEW Q
  PROVE  WithThree(Passage(U, imm, A, P, ok), V, B, Q) = Passage(V, imm, B, Q, ok)
<1> DEFINE X == [Passage(U, imm, A, P, ok) EXCEPT !.uvars = V]
           Y == [X EXCEPT !.args = B]
           Z == [Y EXCEPT !.ptrvars = Q]
<1>1. X = Passage(V, imm, A, P, ok)
  BY DEF Passage
<1>2. Y = Passage(V, imm, B, P, ok)
  <2> HIDE DEF X
  <2> QED
    BY <1>1 DEF Passage
<1>3. Z = Passage(V, imm, B, Q, ok)
  <2> HIDE DEF Y
  <2> QED
    BY <1>2 DEF Passage
<1>4. WithThree(Passage(U, imm, A, P, ok), V, B, Q) = Z
  BY DEF WithThree
<1> HIDE DEF Z
<1> QED
  BY <1>3, <1>4

\* Of one.
LEMMA PassageOne ==
  ASSUME NEW U, NEW imm, NEW A, NEW P, NEW ok, NEW Q
  PROVE  /\ WithFlags(Passage(U, imm, A, P, ok), Q) = Passage(U, Q, A, P, ok)
         /\ WithOk(Passage(U, imm, A, P, ok), Q) = Passage(U, imm, A, P, Q)
<1>1. WithFlags(Passage(U, imm, A, P, ok), Q) = Passage(U, Q, A, P, ok)
  BY DEF WithFlags, Passage
<1>2. WithOk(Passage(U, imm, A, P, ok), Q) = Passage(U, imm, A, P, Q)
  BY DEF WithOk, Passage
<1> QED
  BY <1>1, <1>2

\* The variable and its name are recorded.
ArgUpdate(arg, v, x) == [arg EXCEPT !.var = v, !.upname = x]

\* A change of two fields of what is recorded of an argument.
LEMMA ArgWith ==
  ASSUME NEW x, NEW y, NEW z, NEW v, NEW w
  PROVE  ArgUpdate([var |-> x, upname |-> y, shifted |-> z], v, w) =
            [var |-> v, upname |-> w, shifted |-> z]
<1> DEFINE X == [[var |-> x, upname |-> y, shifted |-> z] EXCEPT !.var = v]
           Y == [X EXCEPT !.upname = w]
<1>1. X = [var |-> v, upname |-> y, shifted |-> z]
  OBVIOUS
<1>2. Y = [var |-> v, upname |-> w, shifted |-> z]
  <2> HIDE DEF X
  <2> QED
    BY <1>1
<1>3. ArgUpdate([var |-> x, upname |-> y, shifted |-> z], v, w) = Y
  BY DEF ArgUpdate
<1> HIDE DEF Y
<1> QED
  BY <1>2, <1>3

\* No argument, but for a variable and its name.
LEMMA NoArgWith ==
  ASSUME NEW v, NEW w
  PROVE  ArgUpdate(NoArg, v, w) = [var |-> v, upname |-> w, shifted |-> FALSE]
<1> DEFINE x == 0
           y == None
           z == FALSE
<1>1. NoArg = [var |-> x, upname |-> y, shifted |-> z]
  BY DEF NoArg
<1> HIDE DEF x, y, z
<1>2. ArgUpdate([var |-> x, upname |-> y, shifted |-> z], v, w) =
         [var |-> v, upname |-> w, shifted |-> z]
  BY ArgWith
<1>3. ArgUpdate(NoArg, v, w) = [var |-> v, upname |-> w, shifted |-> z]
  BY <1>1, <1>2
<1> QED
  BY <1>3 DEF z

\* The value of the k-th argument, and what is recorded of it.
CopyVal(a, k) == IF a[k] = None THEN 0 ELSE uvars[Cell(uvars, Var(a[k]))].val

\* What is recorded of an argument that is copied.
CopyArg(a, k) ==
    IF a[k] = None THEN NoArg ELSE [var |-> Var(a[k]), upname |-> a[k], shifted |-> FALSE]

\* A copy adds a variable.
LEMMA CopyIs ==
  ASSUME IInv, NEW f, NEW a, NEW k, NEW U, NEW imm, NEW A, NEW P, NEW ok,
         a[k] # None => Exists(a[k])
  PROVE  PassCopy(f, a, k, Passage(U, imm, A, P, ok)) =
            Passage(Add(U, Params[f][k].name, Depth + 1, CopyVal(a, k), 0), imm,
                    Append(A, CopyArg(a, k)), P, ok)
<1> DEFINE st == Passage(U, imm, A, P, ok)
           v == IF a[k] = None THEN 0 ELSE Var(a[k])
           val == IF v = 0 THEN 0 ELSE uvars[Cell(uvars, v)].val
           arg == IF v = 0 THEN NoArg ELSE [NoArg EXCEPT !.var = v, !.upname = a[k]]
           V == Add(st.uvars, Params[f][k].name, Depth + 1, val, 0)
           B == Append(st.args, arg)
<1>1. PassCopy(f, a, k, st) = WithTwo(st, V, B)
  BY DEF PassCopy, WithTwo
<1>2. a[k] # None => Var(a[k]) # 0
  BY VarFacts, UvarsFacts
<1>3. val = CopyVal(a, k)
  BY <1>2 DEF CopyVal
<1>4. arg = CopyArg(a, k)
  <2>1. CASE a[k] = None
    BY <2>1 DEF CopyArg
  <2>2. CASE a[k] # None
    <3>1. v = Var(a[k]) /\ v # 0
      BY <2>2, <1>2
    <3> HIDE DEF v
    <3>2. ArgUpdate(NoArg, v, a[k]) = [var |-> v, upname |-> a[k], shifted |-> FALSE]
      BY NoArgWith
    <3> QED
      BY <2>2, <3>1, <3>2 DEF CopyArg, ArgUpdate
  <2> QED
    BY <2>1, <2>2
<1>5. st.uvars = U /\ st.args = A
  BY PassageFacts
<1> HIDE DEF val, arg
<1>6. V = Add(U, Params[f][k].name, Depth + 1, CopyVal(a, k), 0) /\ B = Append(A, CopyArg(a, k))
  BY <1>3, <1>4, <1>5
<1> HIDE DEF V, B
<1>7. WithTwo(st, V, B) = Passage(V, imm, B, P, ok)
  BY PassageTwo
<1> QED
  BY <1>1, <1>6, <1>7

\* What is recorded of an argument that is moved.
MovedArg(f, a, k) ==
    [var |-> Var(a[k]), upname |-> a[k], shifted |-> ~ByRef(f, k) /\ a[k] \notin Series]

\* The caller's variable is moved.
VariablePassage(f, a, k, U, imm, A, P, ok) ==
    Passage(Lend(U, Var(a[k]), Params[f][k].name), imm, Append(A, MovedArg(f, a, k)),
            IF a[k] \in Series THEN P \cup {Var(a[k])} ELSE P, ok)

\* PassVariable in these terms.
LEMMA VariableIs ==
  ASSUME NEW f, NEW a, NEW k, NEW U, NEW imm, NEW A, NEW P, NEW ok
  PROVE  PassVariable(f, a, k, Passage(U, imm, A, P, ok)) =
            VariablePassage(f, a, k, U, imm, A, P, ok)
<1> DEFINE st == Passage(U, imm, A, P, ok)
           V == Lend(st.uvars, Var(a[k]), Params[f][k].name)
           B == Append(st.args, MovedArg(f, a, k))
           Q == IF a[k] \in Series THEN st.ptrvars \cup {Var(a[k])} ELSE st.ptrvars
<1>1. PassVariable(f, a, k, st) = WithThree(st, V, B, Q)
  BY DEF PassVariable, MovedArg, WithThree
<1>2. st.uvars = U /\ st.args = A /\ st.ptrvars = P
  BY PassageFacts
<1>3. /\ V = Lend(U, Var(a[k]), Params[f][k].name) /\ B = Append(A, MovedArg(f, a, k))
      /\ Q = IF a[k] \in Series THEN P \cup {Var(a[k])} ELSE P
  BY <1>2
<1> HIDE DEF V, B, Q
<1>4. WithThree(st, V, B, Q) = Passage(V, imm, B, Q, ok)
  BY PassageThree
<1> QED
  BY <1>1, <1>3, <1>4 DEF VariablePassage

\* What is recorded of an argument for which there is a shell.
ShellArg(a, k) == [var |-> Var(a[k]), upname |-> a[k], shifted |-> FALSE]

\* The caller's variable is moved already.
AgainPassage(f, a, k, U, imm, A, P, ok) ==
    IF ByRef(f, k) THEN Passage(U, imm, A, P, FALSE)
    ELSE Passage(Add(U, Params[f][k].name, Depth + 1, 0, Cell(uvars, Var(a[k]))), imm,
                 Append(A, ShellArg(a, k)), P, ok)

\* PassAgain in these terms.
LEMMA AgainIs ==
  ASSUME NEW f, NEW a, NEW k, NEW U, NEW imm, NEW A, NEW P, NEW ok
  PROVE  PassAgain(f, a, k, Passage(U, imm, A, P, ok)) =
            AgainPassage(f, a, k, U, imm, A, P, ok)
<1> DEFINE st == Passage(U, imm, A, P, ok)
           V == Add(st.uvars, Params[f][k].name, Depth + 1, 0, Cell(uvars, Var(a[k])))
           B == Append(st.args, ShellArg(a, k))
<1>1. PassAgain(f, a, k, st) = IF ByRef(f, k) THEN WithOk(st, FALSE) ELSE WithTwo(st, V, B)
  BY DEF PassAgain, ShellArg, WithTwo, WithOk
<1>2. st.uvars = U /\ st.args = A
  BY PassageFacts
<1>3. /\ V = Add(U, Params[f][k].name, Depth + 1, 0, Cell(uvars, Var(a[k])))
      /\ B = Append(A, ShellArg(a, k))
  BY <1>2
<1> HIDE DEF V, B
<1>4. WithTwo(st, V, B) = Passage(V, imm, B, P, ok)
  BY PassageTwo
<1>5. WithOk(st, FALSE) = Passage(U, imm, A, P, FALSE)
  <2> DEFINE no == FALSE
  <2> HIDE DEF no
  <2>1. WithOk(st, no) = Passage(U, imm, A, P, no)
    BY PassageOne
  <2> QED
    BY <2>1 DEF no
<1> QED
  BY <1>1, <1>3, <1>4, <1>5 DEF AgainPassage

\* The flags when the k-th argument is passed.
NewFlags(f, a, k, imm) ==
    [imm EXCEPT ![f][k] = @ \/ (a[k] # None /\ Flagged(imm, a[k]))]

\* The variable was moved for an earlier argument.
IsAgain(a, k, U, A) ==
    /\ a[k] \notin Series
    /\ \E j \in 1 .. k - 1 : A[j].var = Var(a[k]) /\ U[Var(a[k])].level # Depth

\* The ways in which an argument is passed.
LEMMA PassArgIs ==
  ASSUME NEW f, NEW a, NEW k, NEW U, NEW imm, NEW A, NEW P, NEW ok,
         NEW im2, im2 = NewFlags(f, a, k, imm)
  PROVE  PassArg(f, a, k, Passage(U, imm, A, P, ok)) =
            IF a[k] = None \/ ~(im2[f][k] \/ ByRef(f, k))
            THEN PassCopy(f, a, k, Passage(U, im2, A, P, ok))
            ELSE IF IsAgain(a, k, U, A)
            THEN PassAgain(f, a, k, Passage(U, im2, A, P, ok))
            ELSE PassVariable(f, a, k, Passage(U, im2, A, P, ok))
<1> DEFINE st == Passage(U, imm, A, P, ok)
           jmm == NewFlags(f, a, k, st.immut)
<1>1. PassArg(f, a, k, st) =
         IF a[k] = None \/ ~(jmm[f][k] \/ ByRef(f, k))
         THEN PassCopy(f, a, k, WithFlags(st, jmm))
         ELSE IF IsAgain(a, k, st.uvars, st.args)
         THEN PassAgain(f, a, k, WithFlags(st, jmm))
         ELSE PassVariable(f, a, k, WithFlags(st, jmm))
  BY DEF PassArg, WithFlags, IsAgain, NewFlags
<1>2. st.uvars = U /\ st.args = A /\ st.immut = imm
  BY PassageFacts
<1>3. jmm = im2
  BY <1>2
<1> HIDE DEF jmm
<1>4. WithFlags(st, im2) = Passage(U, im2, A, P, ok)
  BY PassageOne
<1> QED
  BY <1>1, <1>2, <1>3, <1>4

\* One flag is set, or none.
LEMMA NewFlagsFacts ==
  ASSUME NEW f \in Funs, NEW a, NEW k \in DOMAIN Params[f], NEW imm, Flags(imm)
  PROVE  /\ Flags(NewFlags(f, a, k, imm))
         /\ \A i \in DOMAIN Params[f] : i # k => NewFlags(f, a, k, imm)[f][i] = imm[f][i]
<1> DEFINE b == imm[f][k] \/ (a[k] # None /\ Flagged(imm, a[k]))
           r == imm[f]
           r2 == [r EXCEPT ![k] = b]
           im2 == [imm EXCEPT ![f] = r2]
<1>1. NewFlags(f, a, k, imm) = im2
  BY DEF NewFlags
<1>2. b \in BOOLEAN
  OBVIOUS
<1>3. r \in [DOMAIN Params[f] -> BOOLEAN] /\ DOMAIN imm = Funs
  BY DEF Flags
<1> HIDE DEF b, r
<1>4. r2 \in [DOMAIN Params[f] -> BOOLEAN] /\ \A i \in DOMAIN Params[f] : i # k => r2[i] = r[i]
  BY <1>2, <1>3
<1> HIDE DEF r2
<1>5. im2[f] = r2 /\ \A g \in Funs : g # f => im2[g] = imm[g]
  BY <1>3
<1>6. DOMAIN im2 = Funs
  BY <1>3
<1> HIDE DEF im2
<1>7. Flags(im2)
  BY <1>4, <1>5, <1>6 DEF Flags
<1> QED
  BY <1>1, <1>4, <1>5, <1>7 DEF r

\* It is set if the argument is constant for the caller.
LEMMA NewFlagsSet ==
  ASSUME NEW f \in Funs, NEW a, NEW k \in DOMAIN Params[f], NEW imm, Flags(imm)
  PROVE  NewFlags(f, a, k, imm)[f][k] <=> imm[f][k] \/ (a[k] # None /\ Flagged(imm, a[k]))
<1> DEFINE b == imm[f][k] \/ (a[k] # None /\ Flagged(imm, a[k]))
           r == imm[f]
           r2 == [r EXCEPT ![k] = b]
           im2 == [imm EXCEPT ![f] = r2]
<1>1. NewFlags(f, a, k, imm) = im2
  BY DEF NewFlags
<1>2. r \in [DOMAIN Params[f] -> BOOLEAN] /\ DOMAIN imm = Funs
  BY DEF Flags
<1> HIDE DEF b, r
<1>3. r2[k] = b
  BY <1>2
<1> HIDE DEF r2
<1>4. im2[f] = r2
  BY <1>2
<1> HIDE DEF im2
<1> QED
  BY <1>1, <1>3, <1>4 DEF b, r

\* Those of other functions stay.
LEMMA NewFlagsOther ==
  ASSUME NEW f \in Funs, NEW a, NEW k, NEW imm, Flags(imm), NEW g \in Funs, g # f
  PROVE  NewFlags(f, a, k, imm)[g] = imm[g]
<1> DEFINE b == imm[f][k] \/ (a[k] # None /\ Flagged(imm, a[k]))
<1>1. NewFlags(f, a, k, imm) = [imm EXCEPT ![f] = [imm[f] EXCEPT ![k] = b]]
  BY DEF NewFlags
<1> HIDE DEF b
<1> QED
  BY <1>1 DEF Flags

\* While arguments of f are passed, the flags of other functions stay.
IsPassing(f, x) ==
    /\ \E U, imm, A, P, ok : x = Passage(U, imm, A, P, ok)
    /\ Flags(x.immut) /\ \A g \in Funs : g # f => x.immut[g] = immut[g]

\* One argument.
LEMMA PassingStep ==
  ASSUME IInv, NEW f \in Funs, NEW a \in Args(f), NEW k \in 1 .. Len(a),
         NEW x, IsPassing(f, x), NEW y, y = IF x.ok THEN PassArg(f, a, k, x) ELSE x
  PROVE  /\ IsPassing(f, y)
         /\ \A i \in 1 .. Len(a) : i # k => y.immut[f][i] = x.immut[f][i]
         /\ x.ok => y.immut = NewFlags(f, a, k, x.immut)
<1>1. CASE ~x.ok
  <2>1. y = x
    BY <1>1
  <2> QED
    BY <2>1, <1>1
<1>2. CASE x.ok
  <2>2. PICK U, imm, A, P, ok : x = Passage(U, imm, A, P, ok)
    BY DEF IsPassing
  <2> DEFINE im2 == NewFlags(f, a, k, imm)
  <2>3. x.immut = imm
    BY <2>2, PassageFacts
  <2>4. k \in DOMAIN Params[f] /\ DOMAIN Params[f] = 1 .. Len(a) /\ (a[k] # None => Exists(a[k]))
    BY ArgsFacts
  <2>5. /\ Flags(im2) /\ \A g \in Funs : g # f => im2[g] = imm[g]
        /\ \A i \in DOMAIN Params[f] : i # k => im2[f][i] = imm[f][i]
    <3>1. Flags(imm)
      BY <2>3 DEF IsPassing
    <3>2. k \in DOMAIN Params[f]
      BY <2>4
    <3>3. Flags(NewFlags(f, a, k, imm))
      BY <3>1, <3>2, NewFlagsFacts
    <3>4. \A g \in Funs : g # f => NewFlags(f, a, k, imm)[g] = imm[g]
      <4> SUFFICES ASSUME NEW g \in Funs, g # f PROVE NewFlags(f, a, k, imm)[g] = imm[g]
        OBVIOUS
      <4> QED
        BY <3>1, <3>2, NewFlagsOther
    <3>5. \A i \in DOMAIN Params[f] : i # k => NewFlags(f, a, k, imm)[f][i] = imm[f][i]
      <4> SUFFICES ASSUME NEW i \in DOMAIN Params[f], i # k
                   PROVE  NewFlags(f, a, k, imm)[f][i] = imm[f][i]
        OBVIOUS
      <4> QED
        BY <3>1, <3>2, NewFlagsFacts
    <3> QED
      BY <3>3, <3>4, <3>5
  <2> HIDE DEF im2
  <2>6. \E V, B, Q, no : y = Passage(V, im2, B, Q, no)
    <3>1. y = PassArg(f, a, k, Passage(U, imm, A, P, ok))
      BY <1>2, <2>2
    <3>2. PassArg(f, a, k, Passage(U, imm, A, P, ok)) =
            IF a[k] = None \/ ~(im2[f][k] \/ ByRef(f, k))
            THEN PassCopy(f, a, k, Passage(U, im2, A, P, ok))
            ELSE IF IsAgain(a, k, U, A)
            THEN PassAgain(f, a, k, Passage(U, im2, A, P, ok))
            ELSE PassVariable(f, a, k, Passage(U, im2, A, P, ok))
      BY PassArgIs DEF im2
    <3>3. \E V, B, Q, no :
             PassCopy(f, a, k, Passage(U, im2, A, P, ok)) = Passage(V, im2, B, Q, no)
      BY <2>4, CopyIs
    <3>4. \E V, B, Q, no :
             PassVariable(f, a, k, Passage(U, im2, A, P, ok)) = Passage(V, im2, B, Q, no)
      <4>1. PassVariable(f, a, k, Passage(U, im2, A, P, ok)) = VariablePassage(f, a, k, U, im2, A, P, ok)
        BY VariableIs
      <4> QED
        BY <4>1 DEF VariablePassage
    <3>5. \E V, B, Q, no :
             PassAgain(f, a, k, Passage(U, im2, A, P, ok)) = Passage(V, im2, B, Q, no)
      <4>0. PassAgain(f, a, k, Passage(U, im2, A, P, ok)) = AgainPassage(f, a, k, U, im2, A, P, ok)
        BY AgainIs
      <4>1. PassAgain(f, a, k, Passage(U, im2, A, P, ok)) =
              IF ByRef(f, k) THEN Passage(U, im2, A, P, FALSE)
              ELSE Passage(Add(U, Params[f][k].name, Depth + 1, 0, Cell(uvars, Var(a[k]))), im2,
                           Append(A, ShellArg(a, k)), P, ok)
        BY <4>0 DEF AgainPassage
      <4> DEFINE no == FALSE
      <4>3. CASE ByRef(f, k)
        <5>1. PassAgain(f, a, k, Passage(U, im2, A, P, ok)) = Passage(U, im2, A, P, no)
          BY <4>1, <4>3
        <5> HIDE DEF no
        <5> QED
          BY <5>1
      <4>4. CASE ~ByRef(f, k)
        BY <4>1, <4>4
      <4> QED
        BY <4>3, <4>4
    <3> QED
      BY <3>1, <3>2, <3>3, <3>4, <3>5
  <2>7. PICK V, B, Q, no : y = Passage(V, im2, B, Q, no)
    BY <2>6
  <2>8. y.immut = im2
    BY <2>7, PassageFacts
  <2>9. IsPassing(f, y)
    BY <2>3, <2>5, <2>7, <2>8 DEF IsPassing
  <2> QED
    BY <2>3, <2>4, <2>5, <2>8, <2>9 DEF im2
<1> QED
  BY <1>1, <1>2

\* Before the first argument.
LEMMA PassingStart ==
  ASSUME IInv, NEW f \in Funs
  PROVE  /\ Passing(f) = Passage(uvars, Unchecked(f), << >>, {}, TRUE)
         /\ IsPassing(f, Passing(f))
<1>1. Passing(f) = Passage(uvars, Unchecked(f), << >>, {}, TRUE)
  BY DEF Passing, Passage
<1> DEFINE imm == Unchecked(f)
           none == << >>
           no == {}
           ok == TRUE
<1>2. Passing(f) = Passage(uvars, imm, none, no, ok)
  BY <1>1
<1>3. Flags(imm) /\ \A g \in Funs : g # f => imm[g] = immut[g]
  <2>1. [k \in DOMAIN Params[f] |-> Params[f][k].mode = "const"] \in [DOMAIN Params[f] -> BOOLEAN]
    OBVIOUS
  <2>2. Declared(f) \in [DOMAIN Params[f] -> BOOLEAN]
    BY <2>1 DEF Declared
  <2>3. Flags(immut)
    BY DEF IInv
  <2> QED
    BY <2>2, <2>3 DEF Flags, Unchecked
<1> HIDE DEF imm, none, no, ok
<1>4. Passing(f).immut = imm
  BY <1>2, PassageFacts
<1> QED
  BY <1>1, <1>2, <1>3, <1>4 DEF IsPassing

\* All of the states while arguments are passed.
LEMMA PassingAll ==
  ASSUME IInv, NEW f \in Funs, NEW a \in Args(f),
         NEW st, PassesUpTo(f, a, Len(a), st)
  PROVE  /\ st[0] = Passing(f)
         /\ \A k \in 1 .. Len(a) :
               st[k] = IF st[k-1].ok THEN PassArg(f, a, k, st[k-1]) ELSE st[k-1]
         /\ \A k \in 0 .. Len(a) : IsPassing(f, st[k])
         /\ \A k \in 1 .. Len(a) : st[k].immut[f][k] = st[Len(a)].immut[f][k]
<1> DEFINE n == Len(a)
<1>1. n \in Nat
  BY ArgsFacts
<1>2. \A k \in 0 .. n : st[k] = PassedAt(f, a, st, k)
  <2>1. st = [k \in 0 .. n |-> PassedAt(f, a, st, k)]
    BY DEF PassesUpTo
  <2> QED
    BY <2>1
<1> HIDE DEF n
<1>3. st[0] = Passing(f)
  BY <1>1, <1>2 DEF PassedAt
<1>4. \A k \in 1 .. n : st[k] = IF st[k-1].ok THEN PassArg(f, a, k, st[k-1]) ELSE st[k-1]
  <2>1. \A k \in 1 .. n : k \in 0 .. n /\ k # 0
    BY <1>1
  <2> QED
    BY <2>1, <1>2 DEF PassedAt
<1>5. \A k \in 1 .. n : IsPassing(f, st[k-1]) =>
         /\ IsPassing(f, st[k])
         /\ \A i \in 1 .. n : i # k => st[k].immut[f][i] = st[k-1].immut[f][i]
  BY <1>4, PassingStep DEF n
<1>6. \A k \in 0 .. n : IsPassing(f, st[k])
  <2> DEFINE T == {k \in 0 .. n : ~IsPassing(f, st[k])}
  <2> SUFFICES ASSUME T # {} PROVE FALSE
    OBVIOUS
  <2>1. T \subseteq Nat
    OBVIOUS
  <2>2. PICK k \in T : \A y \in T : k <= y
    <3> HIDE DEF T
    <3> QED
      BY <2>1, Least
  <2>3. k # 0
    BY <2>2, <1>3, PassingStart
  <2>4. k \in 1 .. n /\ k - 1 \in 0 .. n /\ k - 1 \notin T
    BY <2>2, <2>3, <1>1
  <2> QED
    BY <2>2, <2>4, <1>5
<1>7. \A k \in 1 .. n : st[k].immut[f][k] = st[n].immut[f][k]
  <2> SUFFICES ASSUME NEW k \in 1 .. n PROVE st[n].immut[f][k] = st[k].immut[f][k]
    OBVIOUS
  <2> DEFINE T == {m \in k .. n : st[m].immut[f][k] # st[k].immut[f][k]}
  <2> SUFFICES ASSUME T # {} PROVE FALSE
    <3>1. n \in k .. n
      BY <1>1
    <3> QED
      BY <3>1
  <2>1. T \subseteq Nat
    BY <1>1
  <2>2. PICK m \in T : \A y \in T : m <= y
    <3> HIDE DEF T
    <3> QED
      BY <2>1, Least
  <2>3. m # k
    BY <2>2
  <2>4. m \in 1 .. n /\ m - 1 \in k .. n /\ m - 1 \notin T /\ m - 1 \in 0 .. n
    BY <2>2, <2>3, <1>1
  <2>5. st[m - 1].immut[f][k] = st[k].immut[f][k]
    BY <2>4
  <2>6. st[m].immut[f][k] = st[m - 1].immut[f][k]
    BY <2>3, <2>4, <1>5, <1>6
  <2> QED
    BY <2>2, <2>5, <2>6
<1> QED
  BY <1>3, <1>4, <1>6, <1>7 DEF n

\* A flag that is set stays set, and that of the argument is if the caller's is.
LEMMA FlagsGrow ==
  ASSUME IInv, NEW f \in Funs, NEW a \in Args(f), NEW k \in 1 .. Len(a),
         NEW x, IsPassing(f, x), NEW y, y = IF x.ok THEN PassArg(f, a, k, x) ELSE x
  PROVE  /\ \A i \in 1 .. Len(a) : x.immut[f][i] => y.immut[f][i]
         /\ x.ok /\ a[k] # None /\ Flagged(x.immut, a[k]) => y.immut[f][k]
         /\ y.ok => x.ok
<1>1. CASE ~x.ok
  <2>1. y = x
    BY <1>1
  <2> QED
    BY <2>1, <1>1
<1>2. CASE x.ok
  <2>1. /\ \A i \in 1 .. Len(a) : i # k => y.immut[f][i] = x.immut[f][i]
        /\ y.immut = NewFlags(f, a, k, x.immut)
    BY <1>2, PassingStep
  <2>2. k \in DOMAIN Params[f] /\ Flags(x.immut)
    BY ArgsFacts DEF IsPassing
  <2> DEFINE imm == x.immut
  <2>3. Flags(imm) /\ y.immut = NewFlags(f, a, k, imm)
    BY <2>1, <2>2
  <2> HIDE DEF imm
  <2>4. y.immut[f][k] <=> imm[f][k] \/ (a[k] # None /\ Flagged(imm, a[k]))
    BY <2>2, <2>3, NewFlagsSet
  <2> QED
    BY <2>1, <2>4, <1>2 DEF imm
<1> QED
  BY <1>1, <1>2

\* What is constant for the caller is for the function that it is passed to.
LEMMA FlagsSeen ==
  ASSUME IInv, "shared" \notin Faults, NEW f \in Funs, NEW a \in Args(f),
         NEW st, PassesUpTo(f, a, Len(a), st), st[Len(a)].ok,
         Shares(f, st[Len(a)].immut),
         NEW k \in 1 .. Len(a), a[k] # None, Flagged(immut, a[k])
  PROVE  st[Len(a)].immut[f][k]
<1> DEFINE n == Len(a)
<1>1. n \in Nat /\ DOMAIN Params[f] = 1 .. n /\ n \in 0 .. n
  BY ArgsFacts
<1>2. /\ st[0] = Passing(f)
      /\ \A j \in 1 .. n : st[j] = IF st[j-1].ok THEN PassArg(f, a, j, st[j-1]) ELSE st[j-1]
      /\ \A j \in 0 .. n : IsPassing(f, st[j])
      /\ \A j \in 1 .. n : st[j].immut[f][j] = st[n].immut[f][j]
  BY PassingAll
<1>3. \A j \in 1 .. n :
         /\ \A i \in 1 .. n : st[j-1].immut[f][i] => st[j].immut[f][i]
         /\ st[j-1].ok /\ a[j] # None /\ Flagged(st[j-1].immut, a[j]) => st[j].immut[f][j]
         /\ st[j].ok => st[j-1].ok
  <2> SUFFICES ASSUME NEW j \in 1 .. n
               PROVE  /\ \A i \in 1 .. n : st[j-1].immut[f][i] => st[j].immut[f][i]
                      /\ st[j-1].ok /\ a[j] # None /\ Flagged(st[j-1].immut, a[j])
                            => st[j].immut[f][j]
                      /\ st[j].ok => st[j-1].ok
    OBVIOUS
  <2> DEFINE x == st[j-1]
             y == st[j]
  <2>1. IsPassing(f, x) /\ y = (IF x.ok THEN PassArg(f, a, j, x) ELSE x) /\ j \in 1 .. Len(a)
    <3>1. j - 1 \in 0 .. n
      BY <1>1
    <3> QED
      BY <3>1, <1>2
  <2> HIDE DEF x, y
  <2>2. /\ \A i \in 1 .. Len(a) : x.immut[f][i] => y.immut[f][i]
        /\ x.ok /\ a[j] # None /\ Flagged(x.immut, a[j]) => y.immut[f][j]
        /\ y.ok => x.ok
    BY <2>1, FlagsGrow
  <2> QED
    BY <2>2 DEF x, y
<1> HIDE DEF n
<1>4. st[k - 1].ok
  <2> DEFINE T == {m \in k - 1 .. n : st[m].ok}
  <2>1. k - 1 \in Nat /\ n \in T
    BY <1>1 DEF n
  <2>2. PICK m \in T : \A y \in T : m <= y
    <3>1. T \subseteq Nat /\ T # {}
      BY <2>1, <1>1
    <3> HIDE DEF T
    <3> QED
      BY <3>1, Least
  <2>3. CASE m = k - 1
    BY <2>3
  <2>4. CASE m # k - 1
    <3>1. m \in 1 .. n /\ m - 1 \in k - 1 .. n /\ ~(m <= m - 1)
      BY <2>1, <2>4, <1>1
    <3>2. m - 1 \in T
      BY <3>1, <1>3
    <3> QED
      BY <3>1, <3>2, <2>2
  <2> QED
    BY <2>3, <2>4
<1> DEFINE c == Last(callstack)
<1>5. Depth > 0 /\ FlaggedIn(immut, c, a[k])
  BY DEF Flagged
<1>6. c \in Frame /\ c = callstack[Depth] /\ Depth \in DOMAIN callstack
  <2>1. Depth # 0 /\ callstack \in Seq(Frame)
    BY <1>5 DEF IInv
  <2>2. c \in Frame /\ c = callstack[Depth] /\ Depth \in 1 .. Depth
    BY <2>1, TopFrame
  <2> QED
    BY <2>1, <2>2 DEF Depth
<1>7. c.fun \in Funs
  BY <1>6 DEF Frame
<1> HIDE DEF c, Depth
<1>8. PICK p \in DOMAIN Params[c.fun] : Params[c.fun][p].name = a[k] /\ immut[c.fun][p]
  BY <1>5 DEF FlaggedIn
<1>9. k - 1 \in 0 .. n /\ k \in 1 .. n
  BY <1>1 DEF n
<1>10. st[k - 1].immut[c.fun][p]
  <2>1. CASE c.fun # f
    BY <2>1, <1>2, <1>7, <1>8, <1>9 DEF IsPassing
  <2>2. CASE c.fun = f
    <3>1. immut[f] = Declared(f)
      BY <2>2, <1>6 DEF Shares, Running, c
    <3>2. st[0].immut[f][p]
      <4>1. st[0].immut = Unchecked(f)
        <5> DEFINE U == uvars
                   imm == Unchecked(f)
                   A == << >>
                   P == {}
                   ok == TRUE
        <5>1. st[0] = Passage(U, imm, A, P, ok)
          BY <1>2, PassingStart
        <5> HIDE DEF U, imm, A, P, ok
        <5>2. st[0].immut = imm
          BY <5>1, PassageFacts
        <5> QED
          BY <5>2 DEF imm
      <4>2. Unchecked(f)[f] = Declared(f)
        BY DEF Unchecked, IInv, Flags
      <4> QED
        BY <4>1, <4>2, <3>1, <1>8, <2>2
    <3> DEFINE T == {m \in 0 .. n : ~st[m].immut[f][p]}
    <3>3. T = {}
      <4> SUFFICES ASSUME T # {} PROVE FALSE
        OBVIOUS
      <4>1. PICK m \in T : \A y \in T : m <= y
        <5>1. T \subseteq Nat
          OBVIOUS
        <5> HIDE DEF T
        <5> QED
          BY <5>1, Least
      <4>2. m # 0
        BY <3>2, <4>1
      <4>3. m \in 1 .. n /\ m - 1 \in 0 .. n /\ ~(m <= m - 1) /\ p \in 1 .. n
        BY <4>2, <1>1, <1>8, <2>2
      <4>4. m - 1 \in T
        BY <4>1, <4>3, <1>3
      <4> QED
        BY <4>1, <4>3, <4>4
    <3> QED
      BY <3>3, <1>9, <2>2
  <2> QED
    BY <2>1, <2>2
<1>11. Flagged(st[k - 1].immut, a[k])
  BY <1>5, <1>8, <1>10 DEF Flagged, FlaggedIn, c
<1>12. st[k].immut[f][k]
  BY <1>3, <1>4, <1>9, <1>11
<1> QED
  BY <1>2, <1>9, <1>12 DEF n

-----------------------------------------------------------------------------
(***************************************************************************)
(* Passing an argument: what has been passed so far is sound,              *)
(* with what would be lent if these were all                               *)
(***************************************************************************)

\* What a call of f would record, with these arguments.
FrameOf(f, A, P) ==
    [fun |-> f, args |-> A, ptrvars |-> P,
     orig |-> {v \in DOMAIN uvars : uvars[v].name \in Series}]

\* What is lent to each level, L being lent to the next one.
GWith(L) ==
    [i \in 1 .. Depth + 1 |-> IF i <= Depth THEN LoansOf(immut, callstack)[i] ELSE L]

\* The series that each call has found, and those that the next one finds.
OWith ==
    [i \in 1 .. Depth + 1 |->
        IF i <= Depth THEN OrigsOf(callstack)[i]
        ELSE {v \in DOMAIN uvars : uvars[v].name \in Series}]

\* The variables have numbers that will be within bounds, and values.
Within(U) ==
    /\ \A v \in DOMAIN U : v \in 1 .. MaxVars \/ v <= Cardinality(DOMAIN U)
    /\ "return" \notin Faults => \A v \in DOMAIN U : U[v].val \in 0 .. 1

\* The k-th argument is recorded.
Remembered(f, a, F, k, A) ==
    IF a[k] = None THEN A[k] = NoArg
    ELSE A[k].var = Var(a[k]) /\ A[k].upname = a[k] /\ (A[k].shifted => F[f][k])

\* What would be lent to the call.
LentTo(f, F, A, P) == Loans(F, FrameOf(f, A, P))

\* The i-th parameter is w: a copy, the variable of the caller, or a shell of it.
Binds(f, a, F, i, U, w) ==
    /\ U[w].level = Depth + 1 /\ U[w].name = Params[f][i].name
    /\ \/ w \notin DOMAIN uvars /\ U[w].of = 0
       \/ /\ a[i] # None /\ (F[f][i] \/ ByRef(f, i))
          /\ \/ w = Var(a[i])
             \/ w \notin DOMAIN uvars /\ U[w].of = Cell(uvars, Var(a[i])) /\ F[f][i]

\* The series among the first j arguments that are moved.
SeriesMoved(f, a, F, j) ==
    {Var(a[i]) : i \in {m \in 1 .. j : a[m] \in Series /\ (F[f][m] \/ ByRef(f, m))}}

\* There is a variable for each of the first j parameters.
Bindings(f, a, F, j, U, P) ==
    /\ \A v \in DOMAIN uvars : U[v].val = uvars[v].val
    /\ \A w \in DOMAIN U : w \notin DOMAIN uvars => U[w].level = Depth + 1
    /\ \A i \in 1 .. j : \E w \in DOMAIN U : Binds(f, a, F, i, U, w)
    /\ P = SeriesMoved(f, a, F, j)

\* The first j arguments have been passed: the flags will be F.
PassedSome(f, a, F, j, U, A, P) ==
    /\ A \in Seq(Argument) /\ Len(A) = j /\ P \subseteq Nat
    /\ \A i \in 1 .. j : Remembered(f, a, F, i, A)
    /\ Sound(U, GWith(LentTo(f, F, A, P)), OWith, Depth + 1)
    /\ \A v \in DOMAIN uvars :
          /\ v \in DOMAIN U /\ U[v].of = uvars[v].of
          /\ (U[v] = uvars[v] \/ v \in Borrowed(LentTo(f, F, A, P)))
    /\ \A w \in DOMAIN U : U[w].level = Depth + 1 =>
          \E i \in 1 .. j : U[w].name = Params[f][i].name
    /\ Within(U)
    /\ Bindings(f, a, F, j, U, P)

\* A sequence with one more element.
LEMMA AppendFacts ==
  ASSUME NEW A \in Seq(Argument), NEW arg \in Argument, NEW k, k = Len(A) + 1,
         NEW B, B = Append(A, arg)
  PROVE  /\ B \in Seq(Argument) /\ Len(B) = k /\ B[k] = arg
         /\ \A i \in 1 .. k - 1 : B[i] = A[i]
OBVIOUS

\* What would be lent when one more argument is recorded.
GrownLoans(f, F, A, arg, P, k, B, Q) ==
    LentTo(f, F, A, P) \cup
        IF Back(F, FrameOf(f, B, Q), k)
        THEN {[var |-> arg.var, up |-> arg.upname, par |-> Params[f][k].name]}
        ELSE {}

\* What is lent with and without the last argument.
GrowTo(f, F, A, arg, P, k, B, Q) ==
    LentTo(f, F, B, Q) = GrownLoans(f, F, A, arg, P, k, B, Q)

\* k comes after A.
IsNext(A, k) == k \in Nat /\ k = Len(A) + 1

\* One more argument is recorded.
LEMMA LoansGrow ==
  ASSUME NEW f, NEW F, NEW A \in Seq(Argument), NEW arg \in Argument, NEW P, NEW Q,
         NEW k, IsNext(A, k), NEW B, B = Append(A, arg)
  PROVE  GrowTo(f, F, A, arg, P, k, B, Q)
<1>1. /\ B \in Seq(Argument) /\ Len(B) = k /\ B[k] = arg /\ Len(A) \in Nat
      /\ \A i \in 1 .. Len(A) : B[i] = A[i]
      /\ DOMAIN A = 1 .. k - 1 /\ DOMAIN B = 1 .. k /\ k - 1 = Len(A)
      /\ k \in Nat
  BY DEF IsNext
<1> DEFINE c == FrameOf(f, A, P)
           d == FrameOf(f, B, Q)
<1>2. c.fun = f /\ c.args = A /\ d.fun = f /\ d.args = B
  BY DEF FrameOf
<1> HIDE DEF c, d
<1>3. \A i \in 1 .. k - 1 : (Back(F, d, i) <=> Back(F, c, i)) /\ LoanOf(d, i) = LoanOf(c, i)
  <2> SUFFICES ASSUME NEW i \in 1 .. k - 1
               PROVE  (Back(F, d, i) <=> Back(F, c, i)) /\ LoanOf(d, i) = LoanOf(c, i)
    OBVIOUS
  <2>1. d.args[i] = c.args[i] /\ d.fun = c.fun
    BY <1>1, <1>2
  <2> QED
    BY <2>1 DEF Back, LoanOf
<1>4. \A i \in 1 .. k : i = k \/ i \in 1 .. k - 1
  BY <1>1
<1>5. k \in 1 .. k /\ \A i \in 1 .. k - 1 : i \in 1 .. k
  BY <1>1
<1>6. Loans(F, c) = {LoanOf(c, i) : i \in {j \in 1 .. k - 1 : Back(F, c, j)}}
  BY <1>1, <1>2 DEF Loans
<1>7. Loans(F, d) = {LoanOf(d, i) : i \in {j \in 1 .. k : Back(F, d, j)}}
  BY <1>1, <1>2 DEF Loans
<1>8. LoanOf(d, k) = [var |-> arg.var, up |-> arg.upname, par |-> Params[f][k].name]
  BY <1>1, <1>2 DEF LoanOf
<1> HIDE DEF LoanOf, Back
<1>9. ASSUME Back(F, d, k) PROVE Loans(F, d) = Loans(F, c) \cup {LoanOf(d, k)}
  BY <1>3, <1>4, <1>5, <1>6, <1>7, <1>9
<1>10. ASSUME ~Back(F, d, k) PROVE Loans(F, d) = Loans(F, c)
  BY <1>3, <1>4, <1>5, <1>6, <1>7, <1>10
<1>11. CASE Back(F, d, k)
  BY <1>8, <1>9, <1>11 DEF GrowTo, LentTo, GrownLoans, c, d
<1>12. CASE ~Back(F, d, k)
  BY <1>10, <1>12 DEF GrowTo, LentTo, GrownLoans, c, d
<1> QED
  BY <1>11, <1>12

\* A name of a parameter is not in use before the argument is passed.
LEMMA NotYetCalled ==
  ASSUME NEW f \in Funs, NEW a \in Args(f), NEW F, NEW k \in 1 .. Len(a), NEW U, NEW A, NEW P,
         PassedSome(f, a, F, k - 1, U, A, P)
  PROVE  /\ \A w \in DOMAIN U : ~(U[w].level = Depth + 1 /\ U[w].name = Params[f][k].name)
         /\ Params[f][k].name \in Names
<1>1. Len(a) \in Nat /\ k \in DOMAIN Params[f] /\ DOMAIN Params[f] = 1 .. Len(a)
  BY ArgsFacts
<1>2. \A i \in 1 .. k - 1 : i \in DOMAIN Params[f] /\ i # k
  BY <1>1
<1>3. \A i \in 1 .. k - 1 : Params[f][i].name # Params[f][k].name
  BY <1>1, <1>2, ParamFacts
<1>4. Params[f][k].name \in Names
  BY <1>1, ParamFacts
<1> QED
  BY <1>3, <1>4 DEF PassedSome

\* A level more than there are.
LEMMA DepthFacts ==
  ASSUME IInv
  PROVE  /\ Depth \in Nat /\ Depth + 1 \in 1 .. Depth + 1 /\ Depth + 1 # 0 /\ (Depth + 1) - 1 = Depth
         /\ \A L : GWith(L)[Depth + 1] = L
         /\ \A L, M : \A i \in 1 .. Depth : GWith(L)[i] = GWith(M)[i]
<1>1. Depth \in Nat
  BY UvarsFacts
<1> HIDE DEF Depth
<1>2. Depth + 1 \in 1 .. Depth + 1 /\ Depth + 1 # 0 /\ (Depth + 1) - 1 = Depth /\ ~(Depth + 1 <= Depth)
  BY <1>1
<1>3. \A i \in 1 .. Depth : i \in 1 .. Depth + 1 /\ i <= Depth
  BY <1>1
<1> QED
  BY <1>1, <1>2, <1>3 DEF GWith

\* V is U with one more variable.
AddedTo(U, V, x, n, val, of) ==
    /\ DOMAIN V = DOMAIN U \cup {Fresh(U)}
    /\ V[Fresh(U)] = [name |-> x, level |-> n, val |-> val, of |-> of]
    /\ \A v \in DOMAIN U : V[v] = U[v]

\* AddFacts for a variable that is given.
LEMMA AddIs ==
  ASSUME NEW U, DOMAIN U \subseteq Nat \ {0}, IsFiniteSet(DOMAIN U),
         NEW x, NEW n, NEW val, NEW of, NEW V, V = Add(U, x, n, val, of)
  PROVE  AddedTo(U, V, x, n, val, of)
<1>1. Fresh(U) \notin DOMAIN U
  BY FreshFacts
<1> HIDE DEF Fresh
<1> QED
  BY <1>1 DEF Add, AddedTo

\* A variable is added within the bounds.
LEMMA WithinAdd ==
  ASSUME NEW U, Within(U), DOMAIN U \subseteq Nat \ {0}, IsFiniteSet(DOMAIN U),
         NEW x, NEW n, NEW of, NEW val, "return" \notin Faults => val \in 0 .. 1
  PROVE  Within(Add(U, x, n, val, of))
<1> DEFINE V == Add(U, x, n, val, of)
<1>1. /\ DOMAIN V = DOMAIN U \cup {Fresh(U)} /\ V[Fresh(U)].val = val
      /\ \A v \in DOMAIN U : V[v] = U[v]
      /\ Cardinality(DOMAIN V) = Cardinality(DOMAIN U) + 1
  <2>1. /\ DOMAIN V = DOMAIN U \cup {Fresh(U)}
        /\ V[Fresh(U)] = [name |-> x, level |-> n, val |-> val, of |-> of]
        /\ \A v \in DOMAIN U : V[v] = U[v]
        /\ Cardinality(DOMAIN U \cup {Fresh(U)}) = Cardinality(DOMAIN U) + 1
    BY AddFacts
  <2> HIDE DEF V
  <2> QED
    BY <2>1
<1> HIDE DEF V
<1>2. Fresh(U) \in Nat \ {0} /\ Fresh(U) <= Cardinality(DOMAIN U) + 1 /\ Cardinality(DOMAIN U) \in Nat
  BY FreshFacts
<1>3. \A v \in DOMAIN U : v \in Nat /\ (v \in 1 .. MaxVars \/ v <= Cardinality(DOMAIN U))
  BY DEF Within
<1>4. \A v \in DOMAIN U : v \in 1 .. MaxVars \/ v <= Cardinality(DOMAIN U) + 1
  BY <1>2, <1>3
<1>5. \A v \in DOMAIN V : v \in 1 .. MaxVars \/ v <= Cardinality(DOMAIN V)
  BY <1>1, <1>2, <1>4
<1>6. ASSUME "return" \notin Faults PROVE \A v \in DOMAIN V : V[v].val \in 0 .. 1
  BY <1>1, <1>6 DEF Within
<1> QED
  BY <1>5, <1>6 DEF Within, V

\* The series that are moved, with one more argument.
LEMMA MovedMore ==
  ASSUME NEW f, NEW a, NEW F, NEW k, k \in Nat, k # 0
  PROVE  SeriesMoved(f, a, F, k) = IF a[k] \in Series /\ (F[f][k] \/ ByRef(f, k))
                                   THEN SeriesMoved(f, a, F, k - 1) \cup {Var(a[k])}
                                   ELSE SeriesMoved(f, a, F, k - 1)
<1> DEFINE Moves(i) == a[i] \in Series /\ (F[f][i] \/ ByRef(f, i))
<1>1. \A j, v : v \in SeriesMoved(f, a, F, j) <=> \E i \in 1 .. j : Moves(i) /\ v = Var(a[i])
  BY DEF SeriesMoved
<1>2. \A i : i \in 1 .. k <=> i = k \/ i \in 1 .. k - 1
  OBVIOUS
<1> HIDE DEF Moves
<1>3. \A v : v \in SeriesMoved(f, a, F, k) <=>
               v \in SeriesMoved(f, a, F, k - 1) \/ (Moves(k) /\ v = Var(a[k]))
  BY <1>1, <1>2
<1>4. SeriesMoved(f, a, F, k) = IF Moves(k) THEN SeriesMoved(f, a, F, k - 1) \cup {Var(a[k])}
                                ELSE SeriesMoved(f, a, F, k - 1)
  BY <1>3
<1> QED
  BY <1>4 DEF Moves

\* What stays bound when the variable v is added or moved, and bound to what.
LEMMA BindingsMore ==
  ASSUME NEW f, NEW a, NEW F, NEW k, k \in Nat, k # 0, NEW U, NEW V, NEW P, NEW Q,
         Bindings(f, a, F, k - 1, U, P),
         NEW v, \A w \in DOMAIN U : w # v => w \in DOMAIN V /\ V[w] = U[w],
         v \in DOMAIN V, Binds(f, a, F, k, V, v),
         v \in DOMAIN U => U[v].level # Depth + 1 /\ V[v].val = U[v].val,
         \A w \in DOMAIN V : w = v \/ w \in DOMAIN U, DOMAIN uvars \subseteq DOMAIN U,
         Q = IF a[k] \in Series /\ (F[f][k] \/ ByRef(f, k)) THEN P \cup {Var(a[k])} ELSE P
  PROVE  Bindings(f, a, F, k, V, Q)
<1> DEFINE n == Depth + 1
<1>1. /\ \A w \in DOMAIN uvars : U[w].val = uvars[w].val
      /\ \A w \in DOMAIN U : w \notin DOMAIN uvars => U[w].level = n
      /\ \A i \in 1 .. k - 1 : \E w \in DOMAIN U : Binds(f, a, F, i, U, w)
      /\ P = SeriesMoved(f, a, F, k - 1)
  BY DEF Bindings
<1>2. V[v].level = n
  BY DEF Binds
<1>3. v \in DOMAIN U => U[v].level # n /\ V[v].val = U[v].val
  OBVIOUS
<1>4. \A i, w : w \in DOMAIN U /\ Binds(f, a, F, i, U, w) => w \in DOMAIN V /\ Binds(f, a, F, i, V, w)
  <2> SUFFICES ASSUME NEW i, NEW w, w \in DOMAIN U, Binds(f, a, F, i, U, w)
               PROVE  w \in DOMAIN V /\ Binds(f, a, F, i, V, w)
    OBVIOUS
  <2>1. U[w].level = n
    BY DEF Binds
  <2>2. w # v
    BY <2>1, <1>3
  <2>3. w \in DOMAIN V /\ V[w] = U[w]
    BY <2>2
  <2> QED
    BY <2>3 DEF Binds
<1> HIDE DEF n
<1>5. \A i \in 1 .. k : i = k \/ i \in 1 .. k - 1
  OBVIOUS
<1>6. \A i \in 1 .. k : \E w \in DOMAIN V : Binds(f, a, F, i, V, w)
  BY <1>1, <1>4, <1>5
<1>7. \A w \in DOMAIN uvars : V[w].val = uvars[w].val
  BY <1>1, <1>3
<1>8. \A w \in DOMAIN V : w \notin DOMAIN uvars => V[w].level = n
  BY <1>1, <1>2
<1>9. Q = SeriesMoved(f, a, F, k)
  BY <1>1, MovedMore
<1> QED
  BY <1>6, <1>7, <1>8, <1>9 DEF Bindings, n

\* What is asked of a copy or a shell that is passed for the k-th parameter.
Adding(f, a, F, k, U, A, P, val, of, arg, B) ==
    /\ f \in Funs /\ a \in Args(f) /\ k \in 1 .. Len(a)
    /\ PassedSome(f, a, F, k - 1, U, A, P)
    /\ val \in 0 .. 2
    /\ "return" \notin Faults => val \in 0 .. 1
    /\ of \in Nat
    /\ of # 0 => /\ of \in DOMAIN U /\ U[of].of = 0 /\ Params[f][k].name \notin Series
                 /\ \E i \in 1 .. Depth + 1 : of \in Borrowed(GWith(LentTo(f, F, A, P))[i])
    /\ arg \in Argument /\ B = Append(A, arg)
    /\ Remembered(f, a, F, k, B)
    /\ ~Back(F, FrameOf(f, B, P), k)
    /\ of # 0 => a[k] # None /\ F[f][k] /\ of = Cell(uvars, Var(a[k]))
    /\ a[k] \in Series => ~(F[f][k] \/ ByRef(f, k))

\* A copy or a shell.
LEMMA AddSome ==
  ASSUME IInv, NEW f, NEW a, NEW F, NEW k, NEW U, NEW A, NEW P,
         NEW val, NEW of, NEW arg, NEW B, Adding(f, a, F, k, U, A, P, val, of, arg, B)
  PROVE  PassedSome(f, a, F, k, Add(U, Params[f][k].name, Depth + 1, val, of), B, P)
<1> DEFINE x == Params[f][k].name
           V == Add(U, x, Depth + 1, val, of)
           L == LentTo(f, F, A, P)
<1>0. f \in Funs /\ a \in Args(f) /\ k \in 1 .. Len(a) /\ PassedSome(f, a, F, k - 1, U, A, P)
  BY DEF Adding
<1>1. A \in Seq(Argument) /\ Len(A) = k - 1 /\ P \subseteq Nat
  BY <1>0 DEF PassedSome
<1>2. Len(a) \in Nat /\ k \in Nat /\ k = Len(A) + 1 /\ k \in 1 .. k /\ \A i \in 1 .. k : i = k \/ i \in 1 .. k - 1
  BY <1>0, <1>1, ArgsFacts
<1>3. /\ B \in Seq(Argument) /\ Len(B) = k /\ B[k] = arg
      /\ \A i \in 1 .. k - 1 : B[i] = A[i]
      /\ LentTo(f, F, B, P) = L
  <2>1. /\ B \in Seq(Argument) /\ Len(B) = k /\ B[k] = arg
        /\ \A i \in 1 .. k - 1 : B[i] = A[i]
    BY <1>1, <1>2, AppendFacts DEF Adding
  <2>2. GrowTo(f, F, A, arg, P, k, B, P)
    <3>1. arg \in Argument /\ B = Append(A, arg)
      BY DEF Adding
    <3>2. IsNext(A, k)
      BY <1>2 DEF IsNext
    <3> QED
      BY <1>1, <3>1, <3>2, LoansGrow
  <2>3. LentTo(f, F, B, P) = L
    BY <2>2 DEF GrowTo, GrownLoans, Adding
  <2> QED
    BY <2>1, <2>3
<1>4. /\ \A w \in DOMAIN U : ~(U[w].level = Depth + 1 /\ U[w].name = x)
      /\ x \in Names
  BY <1>0, NotYetCalled
<1>5. Sound(U, GWith(L), OWith, Depth + 1)
  BY <1>0 DEF PassedSome
<1>6. DOMAIN U \subseteq Nat \ {0} /\ IsFiniteSet(DOMAIN U)
  BY <1>5 DEF Sound, Typed
<1>7. DOMAIN V = DOMAIN U \cup {Fresh(U)} /\ V[Fresh(U)].name = x /\ \A v \in DOMAIN U : V[v] = U[v]
  <2> DEFINE m == Depth + 1
  <2>1. AddedTo(U, V, x, m, val, of)
    <3>1. V = Add(U, x, m, val, of)
      OBVIOUS
    <3> HIDE DEF m, x, V
    <3> QED
      BY <1>6, <3>1, AddIs
  <2> HIDE DEF V
  <2> QED
    BY <2>1 DEF AddedTo
<1> DEFINE n == Depth + 1
<1>8. Sound(V, GWith(L), OWith, n)
  <2>1. Sound(U, GWith(L), OWith, n)
    BY <1>5
  <2>2. \A w \in DOMAIN U : ~(U[w].level = n /\ U[w].name = x)
    BY <1>4
  <2>3. of # 0 => /\ of \in DOMAIN U /\ U[of].of = 0 /\ x \notin Series
                  /\ \E i \in 1 .. n : of \in Borrowed(GWith(L)[i])
    BY DEF Adding
  <2>4. V = Add(U, x, n, val, of) /\ x \in Names
    BY <1>4
  <2>5. val \in 0 .. 2 /\ of \in Nat
    BY DEF Adding
  <2> HIDE DEF V, n, L, x
  <2> QED
    BY <2>1, <2>2, <2>3, <2>4, <2>5, SoundAdd
<1>9. Within(V)
  <2>1. Within(U)
    BY <1>0 DEF PassedSome
  <2>2. "return" \notin Faults => val \in 0 .. 1
    BY DEF Adding
  <2> QED
    BY <2>1, <2>2, <1>6, WithinAdd
<1> HIDE DEF V, x, L, n
<1>10. \A i \in 1 .. k : Remembered(f, a, F, i, B)
  <2>1. \A i \in 1 .. k - 1 : Remembered(f, a, F, i, A)
    BY <1>0 DEF PassedSome
  <2>2. \A i \in 1 .. k - 1 : Remembered(f, a, F, i, B)
    BY <2>1, <1>3 DEF Remembered
  <2> QED
    BY <2>2, <1>2 DEF Adding
<1>11. \A v \in DOMAIN uvars :
          /\ v \in DOMAIN V /\ V[v].of = uvars[v].of
          /\ (V[v] = uvars[v] \/ v \in Borrowed(L))
  BY <1>0, <1>7 DEF PassedSome, L
<1>12. \A w \in DOMAIN V : V[w].level = Depth + 1 => \E i \in 1 .. k : V[w].name = Params[f][i].name
  <2> SUFFICES ASSUME NEW w \in DOMAIN V, V[w].level = Depth + 1
               PROVE  \E i \in 1 .. k : V[w].name = Params[f][i].name
    OBVIOUS
  <2>1. CASE w = Fresh(U)
    BY <2>1, <1>2, <1>7 DEF x
  <2>2. CASE w # Fresh(U)
    <3>1. w \in DOMAIN U /\ V[w] = U[w]
      BY <2>2, <1>7
    <3>2. \E i \in 1 .. k - 1 : U[w].name = Params[f][i].name
      BY <1>0, <3>1 DEF PassedSome
    <3>3. \A i \in 1 .. k - 1 : i \in 1 .. k
      BY <1>2
    <3> QED
      BY <3>1, <3>2, <3>3
  <2> QED
    BY <2>1, <2>2
<1>13. Sound(V, GWith(LentTo(f, F, B, P)), OWith, Depth + 1)
  BY <1>3, <1>8 DEF n
<1>14. Bindings(f, a, F, k, V, P)
  <2> DEFINE new == Fresh(U)
  <2>1. new \notin DOMAIN U /\ DOMAIN uvars \subseteq DOMAIN U
    BY <1>0, <1>6, FreshFacts DEF PassedSome
  <2>2. DOMAIN V = DOMAIN U \cup {new} /\ \A w \in DOMAIN U : V[w] = U[w]
    BY <1>7
  <2>3. V[new] = [name |-> x, level |-> n, val |-> val, of |-> of]
    <3>1. V = Add(U, x, n, val, of)
      BY DEF V, n
    <3> HIDE DEF V
    <3>2. AddedTo(U, V, x, n, val, of)
      BY <1>6, <3>1, AddIs
    <3> QED
      BY <3>2 DEF AddedTo
  <2> HIDE DEF new
  <2>4. V[new].level = Depth + 1 /\ V[new].name = Params[f][k].name /\ V[new].of = of
    BY <2>3 DEF x, n
  <2>5. of # 0 => a[k] # None /\ F[f][k] /\ of = Cell(uvars, Var(a[k]))
    BY DEF Adding
  <2>6. Binds(f, a, F, k, V, new)
    BY <2>1, <2>4, <2>5 DEF Binds
  <2>7. Bindings(f, a, F, k - 1, U, P) /\ k # 0
    BY <1>0, <1>2 DEF PassedSome
  <2>8. P = IF a[k] \in Series /\ (F[f][k] \/ ByRef(f, k)) THEN P \cup {Var(a[k])} ELSE P
    BY DEF Adding
  <2> QED
    BY <1>2, <2>1, <2>2, <2>6, <2>7, <2>8, BindingsMore
<1>15. PassedSome(f, a, F, k, V, B, P)
  BY <1>1, <1>3, <1>9, <1>10, <1>11, <1>12, <1>13, <1>14 DEF PassedSome
<1> QED
  BY <1>15 DEF V, x

\* What is asked of a variable that is passed for the k-th parameter.
Moving(f, a, F, k, U, A, P, v, arg, B, Q) ==
    /\ f \in Funs /\ a \in Args(f) /\ k \in 1 .. Len(a)
    /\ PassedSome(f, a, F, k - 1, U, A, P)
    /\ a[k] # None /\ v = Var(a[k]) /\ v \notin Borrowed(LentTo(f, F, A, P))
    /\ arg \in Argument /\ arg.var = v /\ arg.upname = a[k]
    /\ B = Append(A, arg) /\ Q \subseteq Nat
    /\ F[f][k] \/ ByRef(f, k)
    /\ Q = IF a[k] \in Series THEN P \cup {v} ELSE P
    /\ Remembered(f, a, F, k, B)
    /\ Back(F, FrameOf(f, B, Q), k)

\* The variable of the caller.
LEMMA LendSome ==
  ASSUME IInv, NEW f, NEW a, NEW F, NEW k, NEW U, NEW A, NEW P,
         NEW v, NEW arg, NEW B, NEW Q, Moving(f, a, F, k, U, A, P, v, arg, B, Q)
  PROVE  PassedSome(f, a, F, k, Lend(U, v, Params[f][k].name), B, Q)
<1> DEFINE x == Params[f][k].name
           V == Lend(U, v, x)
           L == LentTo(f, F, A, P)
           M == LentTo(f, F, B, Q)
           n == Depth + 1
<1>0. f \in Funs /\ a \in Args(f) /\ k \in 1 .. Len(a) /\ PassedSome(f, a, F, k - 1, U, A, P)
  BY DEF Moving
<1>1. A \in Seq(Argument) /\ Len(A) = k - 1
  BY <1>0 DEF PassedSome
<1>2. Len(a) \in Nat /\ k \in Nat /\ k = Len(A) + 1 /\ k \in 1 .. k /\ \A i \in 1 .. k : i = k \/ i \in 1 .. k - 1
  BY <1>0, <1>1, ArgsFacts
<1>3. /\ B \in Seq(Argument) /\ Len(B) = k /\ B[k] = arg
      /\ \A i \in 1 .. k - 1 : B[i] = A[i]
      /\ M = L \cup {[var |-> v, up |-> a[k], par |-> x]}
  <2>1. /\ B \in Seq(Argument) /\ Len(B) = k /\ B[k] = arg
        /\ \A i \in 1 .. k - 1 : B[i] = A[i]
    BY <1>1, <1>2, AppendFacts DEF Moving
  <2>2. GrowTo(f, F, A, arg, P, k, B, Q)
    <3>1. arg \in Argument /\ B = Append(A, arg)
      BY DEF Moving
    <3>2. IsNext(A, k)
      BY <1>2 DEF IsNext
    <3> QED
      BY <1>1, <3>1, <3>2, LoansGrow
  <2>3. M = L \cup {[var |-> v, up |-> a[k], par |-> x]}
    BY <2>2 DEF GrowTo, GrownLoans, Moving
  <2> QED
    BY <2>1, <2>3
<1>4. /\ \A w \in DOMAIN U : ~(U[w].level = n /\ U[w].name = x)
      /\ x \in Names
  BY <1>0, NotYetCalled
<1>5. Sound(U, GWith(L), OWith, n)
  BY <1>0 DEF PassedSome
<1>6. (a[k] \in Series) = (x \in Series) /\ Exists(a[k])
  BY <1>0, ArgsFacts DEF Moving
<1>7. v \in DOMAIN uvars /\ uvars[v].name = a[k] /\ uvars[v].level = Depth
  BY <1>6, VarFacts DEF Moving
<1>8. \A w \in DOMAIN uvars :
         /\ w \in DOMAIN U /\ U[w].of = uvars[w].of
         /\ (U[w] = uvars[w] \/ w \in Borrowed(L))
  BY <1>0 DEF PassedSome
<1>9. v \in DOMAIN U /\ U[v].name = a[k] /\ U[v].level = n - 1
  <2>1. v \in DOMAIN U /\ U[v].name = a[k] /\ U[v].level = Depth
    <3>1. v \notin Borrowed(L)
      BY DEF Moving
    <3> HIDE DEF L
    <3> QED
      BY <1>7, <1>8, <3>1
  <2> QED
    BY <2>1, DepthFacts
<1>10. /\ n # 0 /\ GWith(M)[n] = GWith(L)[n] \cup {[var |-> v, up |-> U[v].name, par |-> x]}
       /\ \A i \in 1 .. n - 1 : GWith(M)[i] = GWith(L)[i]
  <2>1. n # 0 /\ GWith(M)[n] = M /\ GWith(L)[n] = L /\ n - 1 = Depth
    BY DepthFacts
  <2>2. \A i \in 1 .. Depth : GWith(M)[i] = GWith(L)[i]
    BY DepthFacts
  <2> HIDE DEF L, M, n
  <2> QED
    BY <2>1, <2>2, <1>3, <1>9
<1>11. Within(U) /\ U \in [DOMAIN U -> Variable]
  BY <1>0, <1>5 DEF PassedSome, Sound, Typed
<1>12. /\ DOMAIN V = DOMAIN U /\ V[v].name = x /\ V[v].of = U[v].of /\ V[v].val = U[v].val
       /\ V[v].level = U[v].level + 1
       /\ \A w \in DOMAIN U : w # v => V[w] = U[w]
  <2> DEFINE r == U[v]
             r2 == [[r EXCEPT !.level = @ + 1] EXCEPT !.name = x]
  <2>1. V[v] = r2 /\ DOMAIN V = DOMAIN U /\ \A w \in DOMAIN U : w # v => V[w] = U[w]
    BY <1>9 DEF Lend
  <2>2. r \in [name : Names, level : Nat, val : 0 .. 2, of : Nat]
    BY <1>9, <1>11 DEF Variable
  <2> HIDE DEF V, r
  <2>3. r2.name = x /\ r2.of = r.of /\ r2.val = r.val /\ r2.level = r.level + 1
    BY <2>2
  <2> QED
    BY <2>1, <2>3 DEF r
<1>13. Sound(V, GWith(M), OWith, n)
  <2>1. V = Lend(U, v, x)
    OBVIOUS
  <2>2. (U[v].name \in Series) = (x \in Series)
    BY <1>6, <1>9
  <2>3. v \in DOMAIN U /\ U[v].level = n - 1 /\ x \in Names
    BY <1>4, <1>9
  <2>4. \A w \in DOMAIN U : ~(U[w].level = n /\ U[w].name = x)
    BY <1>4
  <2> DEFINE G == GWith(L)
             H == GWith(M)
  <2>5. /\ Sound(U, G, OWith, n) /\ n # 0 /\ \A i \in 1 .. n - 1 : H[i] = G[i]
        /\ H[n] = G[n] \cup {[var |-> v, up |-> U[v].name, par |-> x]}
    BY <1>5, <1>10
  <2> HIDE DEF V, n, x, G, H
  <2>6. Sound(V, H, OWith, n)
    BY <2>1, <2>2, <2>3, <2>4, <2>5, SoundLend
  <2> QED
    BY <2>6 DEF H
<1> HIDE DEF V, x, L, M, n
<1>14. Within(V)
  <2>1. \A w \in DOMAIN U : V[w].val = U[w].val
    BY <1>12
  <2> QED
    BY <2>1, <1>11, <1>12 DEF Within
<1>15. \A i \in 1 .. k : Remembered(f, a, F, i, B)
  <2>1. \A i \in 1 .. k - 1 : Remembered(f, a, F, i, A)
    BY <1>0 DEF PassedSome
  <2>2. \A i \in 1 .. k - 1 : Remembered(f, a, F, i, B)
    BY <2>1, <1>3 DEF Remembered
  <2> QED
    BY <2>2, <1>2 DEF Moving
<1>16. Borrowed(L) \subseteq Borrowed(M) /\ v \in Borrowed(M)
  <2> DEFINE l == [var |-> v, up |-> a[k], par |-> x]
  <2>1. l.var = v /\ M = L \cup {l}
    BY <1>3
  <2> HIDE DEF l
  <2> QED
    BY <2>1 DEF Borrowed
<1>17. \A w \in DOMAIN uvars :
          /\ w \in DOMAIN V /\ V[w].of = uvars[w].of
          /\ (V[w] = uvars[w] \/ w \in Borrowed(M))
  BY <1>8, <1>12, <1>16
<1>18. \A w \in DOMAIN V : V[w].level = Depth + 1 => \E i \in 1 .. k : V[w].name = Params[f][i].name
  <2> SUFFICES ASSUME NEW w \in DOMAIN V, V[w].level = Depth + 1
               PROVE  \E i \in 1 .. k : V[w].name = Params[f][i].name
    OBVIOUS
  <2>1. CASE w = v
    BY <2>1, <1>2, <1>12 DEF x
  <2>2. CASE w # v
    <3>1. w \in DOMAIN U /\ V[w] = U[w]
      BY <2>2, <1>12
    <3>2. \E i \in 1 .. k - 1 : U[w].name = Params[f][i].name
      BY <1>0, <3>1 DEF PassedSome
    <3>3. \A i \in 1 .. k - 1 : i \in 1 .. k
      BY <1>2
    <3> QED
      BY <3>1, <3>2, <3>3
  <2> QED
    BY <2>1, <2>2
<1>19. Bindings(f, a, F, k, V, Q)
  <2>1. Bindings(f, a, F, k - 1, U, P) /\ DOMAIN uvars \subseteq DOMAIN U /\ k # 0
    BY <1>0, <1>2, <1>8 DEF PassedSome
  <2>2. n \in Nat /\ n - 1 \in Nat /\ n = Depth + 1
    BY DepthFacts DEF n
  <2>3. V[v].level = n /\ V[v].name = Params[f][k].name /\ U[v].level # n
    BY <2>2, <1>9, <1>12 DEF x
  <2>4. /\ v = Var(a[k]) /\ a[k] # None /\ (F[f][k] \/ ByRef(f, k))
        /\ Q = IF a[k] \in Series THEN P \cup {v} ELSE P
    BY DEF Moving
  <2>5. Binds(f, a, F, k, V, v)
    BY <2>2, <2>3, <2>4 DEF Binds
  <2>6. Q = IF a[k] \in Series /\ (F[f][k] \/ ByRef(f, k)) THEN P \cup {Var(a[k])} ELSE P
    BY <2>4
  <2>7. v \in DOMAIN U => U[v].level # Depth + 1 /\ V[v].val = U[v].val
    BY <2>2, <2>3, <1>12
  <2>8. v \in DOMAIN V /\ DOMAIN V = DOMAIN U /\ \A w \in DOMAIN U : w # v => V[w] = U[w]
    BY <1>9, <1>12
  <2> QED
    BY <1>2, <2>1, <2>5, <2>6, <2>7, <2>8, BindingsMore
<1>20. PassedSome(f, a, F, k, V, B, Q)
  <2>1. Q \subseteq Nat
    BY DEF Moving
  <2> QED
    BY <2>1, <1>3, <1>13, <1>14, <1>15, <1>17, <1>18, <1>19 DEF PassedSome, M, n
<1> QED
  BY <1>20 DEF V, x

\* When the last argument goes back.
LEMMA BackIs ==
  ASSUME NEW f, NEW F, NEW k, NEW B, NEW Q
  PROVE  Back(F, FrameOf(f, B, Q), k) <=>
            IF ByRef(f, k) \/ B[k].upname \notin Series THEN ByRef(f, k) \/ B[k].shifted
            ELSE F[f][k]
<1>1. FrameOf(f, B, Q).fun = f /\ FrameOf(f, B, Q).args = B
  BY DEF FrameOf
<1> QED
  BY <1>1 DEF Back

\* The argument that is looked at.
Given(f, a, F, k, U, A, P) ==
    /\ f \in Funs /\ a \in Args(f) /\ k \in 1 .. Len(a)
    /\ PassedSome(f, a, F, k - 1, U, A, P)

\* What is known of it.
LEMMA GivenFacts ==
  ASSUME NEW f, NEW a, NEW F, NEW k, NEW U, NEW A, NEW P, Given(f, a, F, k, U, A, P)
  PROVE  /\ a[k] \in Names \cup {None}
         /\ a[k] = None => ~ByRef(f, k)
         /\ a[k] # None => /\ (a[k] \in Series) = (Params[f][k].name \in Series)
                           /\ Exists(a[k]) /\ uvars[Cell(uvars, Var(a[k]))].val # Gone
BY ArgsFacts DEF Given

\* An element.
Holds(B, k, arg) == B[k] = arg

\* The last element.
LEMMA GivenLast ==
  ASSUME NEW f, NEW a, NEW F, NEW k, NEW U, NEW A, NEW P, Given(f, a, F, k, U, A, P),
         NEW arg \in Argument, NEW B, B = Append(A, arg)
  PROVE  Holds(B, k, arg)
<1>1. A \in Seq(Argument) /\ Len(A) = k - 1 /\ Len(a) \in Nat /\ k \in 1 .. Len(a)
  BY ArgsFacts DEF Given, PassedSome
<1>2. k \in Nat /\ k = Len(A) + 1
  BY <1>1
<1> QED
  BY <1>1, <1>2, AppendFacts DEF Holds

\* A copy is passed.
LEMMA CopyPassed ==
  ASSUME IInv, NEW f, NEW a, NEW F, NEW k, NEW U, NEW A, NEW P, Given(f, a, F, k, U, A, P),
         NEW B, B = Append(A, CopyArg(a, k)), a[k] = None \/ ~(F[f][k] \/ ByRef(f, k))
  PROVE  PassedSome(f, a, F, k, Add(U, Params[f][k].name, Depth + 1, CopyVal(a, k), 0), B, P)
<1> DEFINE arg == CopyArg(a, k)
           val == CopyVal(a, k)
<1>1. a[k] # None => Var(a[k]) \in DOMAIN uvars /\ Var(a[k]) \in Nat
  BY GivenFacts, VarFacts, UvarsFacts
<1>2. arg \in Argument
  <2>1. CASE a[k] = None
    BY <2>1 DEF CopyArg, NoArg, Argument
  <2>2. CASE a[k] # None
    BY <2>2, <1>1, GivenFacts DEF CopyArg, Argument
  <2> QED
    BY <2>1, <2>2
<1>3. val \in 0 .. 1
  <2>1. CASE a[k] = None
    BY <2>1 DEF CopyVal
  <2>2. CASE a[k] # None
    <3>1. uvars[Cell(uvars, Var(a[k]))].val \in 0 .. 2
      BY <2>2, <1>1, CellFacts
    <3>2. uvars[Cell(uvars, Var(a[k]))].val # 2
      BY <2>2, GivenFacts DEF Gone
    <3> QED
      BY <3>1, <3>2, <2>2 DEF CopyVal
  <2> QED
    BY <2>1, <2>2
<1> HIDE DEF arg, val
<1>4. B = Append(A, arg)
  BY DEF arg
<1>5. B[k] = arg
  <2>1. Holds(B, k, arg)
    BY <1>2, <1>4, GivenLast
  <2> QED
    BY <2>1 DEF Holds
<1>6. Remembered(f, a, F, k, B)
  <2>1. CASE a[k] = None
    <3>1. arg = NoArg
      BY <2>1 DEF arg, CopyArg
    <3> QED
      BY <2>1, <3>1, <1>5 DEF Remembered
  <2>2. CASE a[k] # None
    <3>1. arg = [var |-> Var(a[k]), upname |-> a[k], shifted |-> FALSE]
      BY <2>2 DEF arg, CopyArg
    <3>2. arg.var = Var(a[k]) /\ arg.upname = a[k] /\ ~arg.shifted
      BY <3>1
    <3> QED
      BY <2>2, <3>2, <1>5 DEF Remembered
  <2> QED
    BY <2>1, <2>2
<1>7. ~Back(F, FrameOf(f, B, P), k)
  <2>1. ~ByRef(f, k)
    BY GivenFacts
  <2>2. arg.shifted = FALSE
    BY DEF arg, CopyArg, NoArg
  <2>3. B[k].upname \notin Series \/ ~F[f][k]
    <3>1. CASE a[k] = None
      <4>1. arg = NoArg
        BY <3>1 DEF arg, CopyArg
      <4>2. arg.upname = None
        BY <4>1 DEF NoArg
      <4> QED
        BY <4>2, <1>5, ConstantFacts
    <3>2. CASE a[k] # None
      BY <3>2
    <3> QED
      BY <3>1, <3>2
  <2> QED
    BY <2>1, <2>2, <2>3, <1>5, BackIs
<1>8. Adding(f, a, F, k, U, A, P, val, 0, arg, B)
  <2>1. val \in 0 .. 2 /\ 0 \in Nat
    BY <1>3
  <2>2. a[k] \in Series => ~(F[f][k] \/ ByRef(f, k))
    BY ConstantFacts
  <2> QED
    BY <1>2, <1>3, <1>4, <1>6, <1>7, <2>1, <2>2 DEF Adding, Given
<1>9. PassedSome(f, a, F, k, Add(U, Params[f][k].name, Depth + 1, val, 0), B, P)
  BY <1>8, AddSome
<1> QED
  BY <1>9 DEF val

\* A variable that has been moved for another argument is constant in both.
LEMMA MovedBefore ==
  ASSUME IInv, NEW f, NEW a, NEW F, NEW k, NEW U, NEW A, NEW P, Given(f, a, F, k, U, A, P),
         "twice" \notin Faults, PassedOnce(f, a, F), a[k] # None, F[f][k] \/ ByRef(f, k),
         Var(a[k]) \in Borrowed(LentTo(f, F, A, P))
  PROVE  IsAgain(a, k, U, A)
<1> DEFINE v == Var(a[k])
           c == FrameOf(f, A, P)
<1>1. A \in Seq(Argument) /\ Len(A) = k - 1 /\ Len(a) \in Nat /\ k \in 1 .. Len(a)
  BY ArgsFacts DEF Given, PassedSome
<1>2. DOMAIN A = 1 .. k - 1
  BY <1>1
<1>3. c.fun = f /\ c.args = A
  BY DEF FrameOf
<1> HIDE DEF c
<1>4. PICK i \in DOMAIN A : Back(F, c, i) /\ LoanOf(c, i).var = v
  <2>1. PICK l \in Loans(F, c) : l.var = v
    BY DEF Borrowed, LentTo, c
  <2> QED
    BY <2>1, <1>3 DEF Loans
<1>5. A[i].var = v
  BY <1>3, <1>4 DEF LoanOf
<1>6. i \in 1 .. k - 1 /\ i # k /\ i \in 1 .. Len(a) /\ i \in DOMAIN a /\ k \in DOMAIN a
  <2>1. DOMAIN a = 1 .. Len(a)
    BY ArgsFacts DEF Given
  <2> QED
    BY <2>1, <1>1, <1>2, <1>4
<1>7. Remembered(f, a, F, i, A)
  BY <1>6 DEF Given, PassedSome
<1>8. IF ByRef(f, i) \/ A[i].upname \notin Series THEN ByRef(f, i) \/ A[i].shifted ELSE F[f][i]
  BY <1>3, <1>4 DEF Back
<1>9. a[i] # None
  <2> SUFFICES ASSUME a[i] = None PROVE FALSE
    OBVIOUS
  <2>1. A[i] = NoArg
    BY <1>7 DEF Remembered
  <2>2. A[i].upname = None /\ A[i].shifted = FALSE
    BY <2>1 DEF NoArg
  <2>3. ~ByRef(f, i)
    BY <1>6, ArgsFacts DEF Given
  <2> QED
    BY <1>8, <2>2, <2>3, ConstantFacts
<1>10. Var(a[i]) = v /\ (F[f][i] \/ ByRef(f, i))
  BY <1>5, <1>7, <1>8, <1>9 DEF Remembered
<1>11. a[i] = a[k]
  <2>1. Exists(a[i]) /\ Exists(a[k])
    BY <1>6, <1>9, ArgsFacts DEF Given
  <2> QED
    BY <2>1, <1>10, VarFacts
<1>12. a[k] \notin Series
  BY <1>6, <1>9, <1>10, <1>11 DEF PassedOnce
<1>13. U[v].level # Depth
  <2> DEFINE n == Depth + 1
             G == GWith(LentTo(f, F, A, P))
  <2>1. Sound(U, G, OWith, n) /\ n \in 1 .. n /\ G[n] = LentTo(f, F, A, P) /\ Depth \in Nat
    BY DepthFacts DEF Given, PassedSome
  <2>2. v \in Borrowed(G[n])
    BY <2>1
  <2> HIDE DEF n, G
  <2>3. n <= U[v].level
    BY <2>1, <2>2, BorrowedFacts
  <2> QED
    BY <2>1, <2>3 DEF n
<1> QED
  BY <1>5, <1>6, <1>12, <1>13 DEF IsAgain

\* The caller's variable is passed.
LEMMA VariablePassed ==
  ASSUME IInv, NEW f, NEW a, NEW F, NEW k, NEW U, NEW A, NEW P, Given(f, a, F, k, U, A, P),
         "twice" \notin Faults, PassedOnce(f, a, F), a[k] # None, F[f][k] \/ ByRef(f, k),
         ~IsAgain(a, k, U, A),
         NEW B, B = Append(A, MovedArg(f, a, k)),
         NEW Q, Q = IF a[k] \in Series THEN P \cup {Var(a[k])} ELSE P
  PROVE  PassedSome(f, a, F, k, Lend(U, Var(a[k]), Params[f][k].name), B, Q)
<1> DEFINE arg == MovedArg(f, a, k)
           v == Var(a[k])
<1>1. v \notin Borrowed(LentTo(f, F, A, P))
  BY MovedBefore
<1>2. v \in Nat /\ a[k] \in Names
  BY GivenFacts, VarFacts, UvarsFacts
<1>3. arg \in Argument /\ arg.var = v /\ arg.upname = a[k]
  <2>1. (~ByRef(f, k) /\ a[k] \notin Series) \in BOOLEAN
    OBVIOUS
  <2> QED
    BY <1>2, <2>1 DEF MovedArg, Argument
<1>4. arg.shifted <=> (~ByRef(f, k) /\ a[k] \notin Series)
  BY DEF MovedArg
<1> HIDE DEF arg
<1>5. B = Append(A, arg)
  BY DEF arg
<1>6. B[k] = arg
  <2>1. Holds(B, k, arg)
    BY <1>3, <1>5, GivenLast
  <2> QED
    BY <2>1 DEF Holds
<1>7. Remembered(f, a, F, k, B)
  BY <1>3, <1>4, <1>6 DEF Remembered
<1>8. Back(F, FrameOf(f, B, Q), k)
  <2>1. IF ByRef(f, k) \/ B[k].upname \notin Series THEN ByRef(f, k) \/ B[k].shifted
        ELSE F[f][k]
    BY <1>3, <1>4, <1>6
  <2> QED
    BY <2>1, BackIs
<1>9. Q \subseteq Nat
  BY <1>2 DEF Given, PassedSome
<1>10. Moving(f, a, F, k, U, A, P, v, arg, B, Q)
  BY <1>1, <1>3, <1>5, <1>7, <1>8, <1>9 DEF Moving, Given
<1> QED
  BY <1>10, LendSome

\* A shell is passed.
LEMMA ShellPassed ==
  ASSUME IInv, NEW f, NEW a, NEW F, NEW k, NEW U, NEW A, NEW P, Given(f, a, F, k, U, A, P),
         a[k] # None, ~ByRef(f, k), F[f][k], IsAgain(a, k, U, A),
         NEW B, B = Append(A, ShellArg(a, k))
  PROVE  PassedSome(f, a, F, k,
            Add(U, Params[f][k].name, Depth + 1, 0, Cell(uvars, Var(a[k]))), B, P)
<1> DEFINE arg == ShellArg(a, k)
           v == Var(a[k])
           of == Cell(uvars, v)
           G == GWith(LentTo(f, F, A, P))
           n == Depth + 1
<1>1. v \in DOMAIN uvars /\ v \in Nat /\ a[k] \in Names /\ uvars[v].level = Depth
  BY GivenFacts, VarFacts, UvarsFacts
<1>2. arg \in Argument /\ arg.var = v /\ arg.upname = a[k] /\ arg.shifted = FALSE
  BY <1>1 DEF ShellArg, Argument
<1> HIDE DEF arg
<1>3. B = Append(A, arg)
  BY DEF arg
<1>4. B[k] = arg
  <2>1. Holds(B, k, arg)
    BY <1>2, <1>3, GivenLast
  <2> QED
    BY <2>1 DEF Holds
<1>5. Remembered(f, a, F, k, B)
  BY <1>2, <1>4 DEF Remembered
<1>6. a[k] \notin Series /\ U[v].level # Depth
  BY DEF IsAgain
<1>7. ~Back(F, FrameOf(f, B, P), k)
  BY <1>2, <1>4, <1>6, BackIs
<1>8. \A w \in DOMAIN uvars :
         /\ w \in DOMAIN U /\ U[w].of = uvars[w].of
         /\ (U[w] = uvars[w] \/ w \in Borrowed(LentTo(f, F, A, P)))
  BY DEF Given, PassedSome
<1>9. of \in DOMAIN uvars /\ uvars[of].of = 0 /\ of \in Nat
  BY <1>1, CellFacts, UvarsFacts
<1>10. of \in DOMAIN U /\ U[of].of = 0
  BY <1>8, <1>9
<1>11. Params[f][k].name \notin Series
  BY <1>6, GivenFacts
<1>12. \E i \in 1 .. n : of \in Borrowed(G[i])
  <2>1. Sound(U, G, OWith, n) /\ n \in 1 .. n /\ G[n] = LentTo(f, F, A, P)
    BY DepthFacts DEF Given, PassedSome
  <2>2. CASE uvars[v].of = 0
    <3>1. of = v
      BY <2>2 DEF Cell
    <3>2. v \in Borrowed(LentTo(f, F, A, P))
      BY <1>1, <1>6, <1>8
    <3> HIDE DEF of, v, G, n
    <3> QED
      BY <2>1, <3>1, <3>2
  <2>3. CASE uvars[v].of # 0
    <3>1. of = uvars[v].of
      BY <2>3 DEF Cell
    <3>2. v \in DOMAIN U /\ U[v].of = of
      BY <3>1, <1>1, <1>8
    <3> HIDE DEF of, v, G, n
    <3>3. IsShell(U, G, v, of)
      BY <2>1, <2>3, <3>1, <3>2 DEF Sound, Shells
    <3>4. PICK i \in 1 .. U[v].level : of \in Borrowed(G[i])
      BY <3>3 DEF IsShell
    <3>5. U[v].level <= n /\ U[v] \in Variable /\ n \in Nat
      BY <3>2, <2>1 DEF Sound, Typed
    <3>6. U[v].level \in Nat
      BY <3>5 DEF Variable
    <3>7. i \in 1 .. n
      BY <3>4, <3>5, <3>6
    <3> QED
      BY <3>4, <3>7
  <2> QED
    BY <2>2, <2>3
<1>0. of = Cell(uvars, Var(a[k]))
  OBVIOUS
<1> HIDE DEF of
<1>13. Adding(f, a, F, k, U, A, P, 0, of, arg, B)
  <2>1. 0 \in 0 .. 2 /\ 0 \in 0 .. 1
    OBVIOUS
  <2> QED
    BY <1>0, <1>2, <1>3, <1>5, <1>6, <1>7, <1>9, <1>10, <1>11, <1>12, <2>1 DEF Adding, Given
<1>14. PassedSome(f, a, F, k, Add(U, Params[f][k].name, Depth + 1, 0, of), B, P)
  BY <1>13, AddSome
<1> QED
  BY <1>14 DEF of

-----------------------------------------------------------------------------
(***************************************************************************)
(* A call                                                                  *)
(***************************************************************************)

\* What has been passed, unless an argument was refused.
Through(f, a, F, j, x) == x.ok => PassedSome(f, a, F, j, x.uvars, x.args, x.ptrvars)

\* The parts of a state that is given.
LEMMA PassageParts ==
  ASSUME NEW y, NEW U, NEW imm, NEW A, NEW P, NEW ok, y = Passage(U, imm, A, P, ok),
         NEW f, NEW a, NEW F, NEW j, PassedSome(f, a, F, j, U, A, P)
  PROVE  Through(f, a, F, j, y)
<1>1. y.uvars = U /\ y.args = A /\ y.ptrvars = P
  BY PassageFacts
<1> QED
  BY <1>1 DEF Through

\* One more argument.
LEMMA ThroughOne ==
  ASSUME IInv, NEW f, NEW a, NEW F, NEW k, NEW U, NEW imm, NEW A, NEW P, NEW ok,
         Given(f, a, F, k, U, A, P), "twice" \notin Faults, PassedOnce(f, a, F),
         NEW im2, im2 = NewFlags(f, a, k, imm), F[f][k] = im2[f][k],
         NEW y, y = PassArg(f, a, k, Passage(U, imm, A, P, ok)), y.ok
  PROVE  Through(f, a, F, k, y)
<1>1. y = IF a[k] = None \/ ~(im2[f][k] \/ ByRef(f, k))
          THEN PassCopy(f, a, k, Passage(U, im2, A, P, ok))
          ELSE IF IsAgain(a, k, U, A)
          THEN PassAgain(f, a, k, Passage(U, im2, A, P, ok))
          ELSE PassVariable(f, a, k, Passage(U, im2, A, P, ok))
  BY PassArgIs
<1>2. CASE a[k] = None \/ ~(im2[f][k] \/ ByRef(f, k))
  <2> DEFINE V == Add(U, Params[f][k].name, Depth + 1, CopyVal(a, k), 0)
             B == Append(A, CopyArg(a, k))
  <2>1. PassCopy(f, a, k, Passage(U, im2, A, P, ok)) = Passage(V, im2, B, P, ok)
    BY GivenFacts, CopyIs
  <2>2. PassedSome(f, a, F, k, V, B, P)
    <3>1. a[k] = None \/ ~(F[f][k] \/ ByRef(f, k))
      BY <1>2
    <3> HIDE DEF B
    <3>2. B = Append(A, CopyArg(a, k))
      BY DEF B
    <3> QED
      BY <3>1, <3>2, CopyPassed
  <2>3. y = Passage(V, im2, B, P, ok)
    BY <1>1, <1>2, <2>1
  <2> HIDE DEF V, B
  <2> QED
    BY <2>2, <2>3, PassageParts
<1>3. CASE a[k] # None /\ (im2[f][k] \/ ByRef(f, k)) /\ ~IsAgain(a, k, U, A)
  <2> DEFINE V == Lend(U, Var(a[k]), Params[f][k].name)
             B == Append(A, MovedArg(f, a, k))
             Q == IF a[k] \in Series THEN P \cup {Var(a[k])} ELSE P
  <2>1. PassVariable(f, a, k, Passage(U, im2, A, P, ok)) = Passage(V, im2, B, Q, ok)
    <3>1. PassVariable(f, a, k, Passage(U, im2, A, P, ok)) = VariablePassage(f, a, k, U, im2, A, P, ok)
      BY VariableIs
    <3> QED
      BY <3>1 DEF VariablePassage
  <2>2. PassedSome(f, a, F, k, V, B, Q)
    <3>1. F[f][k] \/ ByRef(f, k)
      BY <1>3
    <3>2. Q = (IF a[k] \in Series THEN P \cup {Var(a[k])} ELSE P) /\ B = Append(A, MovedArg(f, a, k))
      OBVIOUS
    <3> HIDE DEF B, Q
    <3> QED
      BY <1>3, <3>1, <3>2, VariablePassed
  <2>3. y = Passage(V, im2, B, Q, ok)
    BY <1>1, <1>3, <2>1
  <2> HIDE DEF V, B, Q
  <2> QED
    BY <2>2, <2>3, PassageParts
<1>4. CASE a[k] # None /\ (im2[f][k] \/ ByRef(f, k)) /\ IsAgain(a, k, U, A)
  <2> DEFINE V == Add(U, Params[f][k].name, Depth + 1, 0, Cell(uvars, Var(a[k])))
             B == Append(A, ShellArg(a, k))
  <2>1. PassAgain(f, a, k, Passage(U, im2, A, P, ok)) = AgainPassage(f, a, k, U, im2, A, P, ok)
    BY AgainIs
  <2>2. y = AgainPassage(f, a, k, U, im2, A, P, ok)
    BY <1>1, <1>4, <2>1
  <2>3. ~ByRef(f, k)
    <3> SUFFICES ASSUME ByRef(f, k) PROVE FALSE
      OBVIOUS
    <3> DEFINE no == FALSE
    <3>1. y = Passage(U, im2, A, P, no)
      BY <2>2 DEF AgainPassage
    <3> HIDE DEF no
    <3>2. y.ok = no
      BY <3>1 DEF Passage
    <3> QED
      BY <3>2 DEF no
  <2>4. y = Passage(V, im2, B, P, ok)
    BY <2>2, <2>3 DEF AgainPassage
  <2>5. PassedSome(f, a, F, k, V, B, P)
    <3> HIDE DEF B
    <3>1. B = Append(A, ShellArg(a, k))
      BY DEF B
    <3>2. F[f][k]
      BY <1>4, <2>3
    <3> QED
      BY <1>4, <2>3, <3>1, <3>2, ShellPassed
  <2> HIDE DEF V, B
  <2> QED
    BY <2>4, <2>5, PassageParts
<1> QED
  BY <1>2, <1>3, <1>4

\* The same as a step of the recursion.
LEMMA PassedStep ==
  ASSUME IInv, NEW f \in Funs, NEW a \in Args(f), NEW F, NEW k, k \in 1 .. Len(a),
         NEW x, IsPassing(f, x), NEW y, y = IF x.ok THEN PassArg(f, a, k, x) ELSE x,
         Through(f, a, F, k - 1, x), F[f][k] = y.immut[f][k],
         "twice" \notin Faults, PassedOnce(f, a, F)
  PROVE  Through(f, a, F, k, y)
<1> SUFFICES ASSUME y.ok PROVE Through(f, a, F, k, y)
  BY DEF Through
<1>1. x.ok /\ y = PassArg(f, a, k, x)
  <2>1. CASE x.ok
    BY <2>1
  <2>2. CASE ~x.ok
    <3>1. y = x
      BY <2>2
    <3> QED
      BY <3>1, <2>2
  <2> QED
    BY <2>1, <2>2
<1>2. PICK U, imm, A, P, ok : x = Passage(U, imm, A, P, ok)
  BY DEF IsPassing
<1>3. x.uvars = U /\ x.args = A /\ x.ptrvars = P /\ x.immut = imm
  BY <1>2, PassageFacts
<1>4. Given(f, a, F, k, U, A, P)
  BY <1>1, <1>3 DEF Through, Given
<1> DEFINE im2 == NewFlags(f, a, k, imm)
<1>5. y.immut = im2
  BY <1>1, <1>3, PassingStep
<1>6. F[f][k] = im2[f][k]
  BY <1>5
<1>7. im2 = NewFlags(f, a, k, imm)
  OBVIOUS
<1>8. y = PassArg(f, a, k, Passage(U, imm, A, P, ok))
  BY <1>1, <1>2
<1> HIDE DEF im2
<1> QED
  BY <1>4, <1>6, <1>7, <1>8, ThroughOne

\* Nothing has been passed.
LEMMA NoneLent ==
  ASSUME NEW f, NEW F, NEW P
  PROVE  LentTo(f, F, << >>, P) = {}
<1>1. FrameOf(f, << >>, P).args = << >>
  BY DEF FrameOf
<1>2. DOMAIN FrameOf(f, << >>, P).args = {}
  BY <1>1
<1> QED
  BY <1>2 DEF LentTo, Loans

\* A set of variables is within the bounds.
LEMMA WithinNow ==
  ASSUME IInv PROVE Within(uvars)
BY DEF IInv, Bounded, Within

\* Before the first argument.
LEMMA PassedNone ==
  ASSUME IInv, NEW f \in Funs, NEW a \in Args(f), NEW F
  PROVE  PassedSome(f, a, F, 0, uvars, << >>, {})
<1> DEFINE none == << >>
           no == {}
           L == LentTo(f, F, << >>, {})
           n == Depth
           G == LoansOf(immut, callstack)
           O == OrigsOf(callstack)
           H == GWith(L)
<1>1. L = {}
  BY NoneLent
<1>2. none \in Seq(Argument) /\ Len(none) = 0 /\ no \subseteq Nat
  OBVIOUS
<1>3. \A i \in 1 .. 0 : Remembered(f, a, F, i, none)
  OBVIOUS
<1>4. n \in Nat /\ n + 1 \in 1 .. n + 1 /\ ~(n + 1 <= n) /\ \A i \in 1 .. n : i \in 1 .. n + 1 /\ i <= n
  <2>1. n \in Nat
    BY UvarsFacts
  <2> HIDE DEF n
  <2> QED
    BY <2>1
<1>5. Sound(uvars, H, OWith, n + 1)
  <2>1. \A i \in 1 .. n : H[i] = G[i] /\ OWith[i] = O[i]
    BY <1>4 DEF GWith, OWith
  <2>2. H[n + 1] = {} /\ OWith[n + 1] = {v \in DOMAIN uvars : uvars[v].name \in Series}
    BY <1>1, <1>4 DEF GWith, OWith
  <2>3. Sound(uvars, G, O, n)
    BY DEF IInv
  <2> HIDE DEF H, G, O, n
  <2> QED
    BY <2>1, <2>2, <2>3, SoundOpen
<1>6. \A w \in DOMAIN uvars : uvars[w].level = n + 1 =>
          \E i \in 1 .. 0 : uvars[w].name = Params[f][i].name
  <2>1. \A w \in DOMAIN uvars : uvars[w].level \in 0 .. n
    BY UvarsFacts
  <2> HIDE DEF n
  <2> QED
    BY <2>1, <1>4
<1>7. Within(uvars)
  BY WithinNow
<1>8. Bindings(f, a, F, 0, uvars, no)
  <2>1. SeriesMoved(f, a, F, 0) = {}
    BY DEF SeriesMoved
  <2>2. \A i \in 1 .. 0 : \E w \in DOMAIN uvars : Binds(f, a, F, i, uvars, w)
    OBVIOUS
  <2> QED
    BY <2>1, <2>2 DEF Bindings
<1> HIDE DEF L
<1>9. PassedSome(f, a, F, 0, uvars, none, no)
  BY <1>2, <1>3, <1>5, <1>6, <1>7, <1>8 DEF PassedSome, L
<1> QED
  BY <1>9

\* All of the arguments.
LEMMA PassedAll ==
  ASSUME IInv, NEW f \in Funs, NEW a \in Args(f), NEW F,
         NEW st, PassesUpTo(f, a, Len(a), st), F = st[Len(a)].immut,
         "twice" \notin Faults, PassedOnce(f, a, F)
  PROVE  Through(f, a, F, Len(a), st[Len(a)])
<1> DEFINE n == Len(a)
<1>1. n \in Nat
  BY ArgsFacts
<1>2. /\ st[0] = Passing(f)
      /\ \A k \in 1 .. n : st[k] = IF st[k-1].ok THEN PassArg(f, a, k, st[k-1]) ELSE st[k-1]
      /\ \A k \in 0 .. n : IsPassing(f, st[k])
      /\ \A k \in 1 .. n : st[k].immut[f][k] = st[n].immut[f][k]
  BY PassingAll
<1>3. Through(f, a, F, 0, st[0])
  <2> DEFINE U == uvars
             imm == Unchecked(f)
             A == << >>
             P == {}
             ok == TRUE
  <2>1. st[0] = Passage(U, imm, A, P, ok)
    BY <1>2, PassingStart
  <2>2. PassedSome(f, a, F, 0, U, A, P)
    BY PassedNone
  <2> HIDE DEF U, imm, A, P, ok
  <2> QED
    BY <2>1, <2>2, PassageParts
<1>4. \A k \in 1 .. n : Through(f, a, F, k - 1, st[k-1]) => Through(f, a, F, k, st[k])
  <2> SUFFICES ASSUME NEW k, k \in 1 .. n, Through(f, a, F, k - 1, st[k-1])
               PROVE  Through(f, a, F, k, st[k])
    OBVIOUS
  <2> DEFINE x == st[k-1]
             y == st[k]
  <2>1. k - 1 \in 0 .. n /\ k \in 1 .. Len(a)
    BY <1>1
  <2>2. IsPassing(f, x) /\ y = (IF x.ok THEN PassArg(f, a, k, x) ELSE x) /\ F[f][k] = y.immut[f][k]
    BY <1>2, <2>1
  <2>3. Through(f, a, F, k - 1, x)
    OBVIOUS
  <2> HIDE DEF x, y
  <2>4. Through(f, a, F, k, y)
    BY <2>1, <2>2, <2>3, PassedStep
  <2> QED
    BY <2>4 DEF y
<1> HIDE DEF n
<1>5. \A k \in 0 .. n : Through(f, a, F, k, st[k])
  <2> DEFINE T == {k \in 0 .. n : ~Through(f, a, F, k, st[k])}
  <2> SUFFICES ASSUME T # {} PROVE FALSE
    OBVIOUS
  <2>1. T \subseteq Nat
    OBVIOUS
  <2>2. PICK k \in T : \A y \in T : k <= y
    <3> HIDE DEF T
    <3> QED
      BY <2>1, Least
  <2>3. k # 0
    BY <2>2, <1>3
  <2>4. k \in 1 .. n /\ k - 1 \in 0 .. n /\ k - 1 \notin T
    BY <2>2, <2>3, <1>1
  <2> QED
    BY <2>2, <2>4, <1>4
<1>6. n \in 0 .. n
  BY <1>1
<1> QED
  BY <1>5, <1>6 DEF n

\* A variable is within the bounds when their number is.
LEMMA WithinBounds ==
  ASSUME NEW U, Within(U), DOMAIN U \subseteq Nat \ {0}, IsFiniteSet(DOMAIN U),
         Cardinality(DOMAIN U) <= MaxVars
  PROVE  Bounded(U)
<1>1. Cardinality(DOMAIN U) \in Nat /\ MaxVars \in Nat
  BY FS_CardinalityType, ConstantFacts
<1>2. \A v \in DOMAIN U : v \in Nat \ {0} /\ (v \in 1 .. MaxVars \/ v <= Cardinality(DOMAIN U))
  BY DEF Within
<1>3. \A v \in DOMAIN U : v \in 1 .. MaxVars
  BY <1>1, <1>2
<1> QED
  BY <1>3 DEF Within, Bounded

\* What a call has recorded of the arguments that were passed.
LEMMA RecordedAll ==
  ASSUME NEW f \in Funs, NEW a \in Args(f), NEW F, NEW U, NEW A, NEW P,
         PassedSome(f, a, F, Len(a), U, A, P)
  PROVE  Recorded(F, FrameOf(f, A, P))
<1> DEFINE c == FrameOf(f, A, P)
           n == Len(a)
<1>1. c.fun = f /\ c.args = A
  BY DEF FrameOf
<1>2. A \in Seq(Argument) /\ Len(A) = n /\ \A i \in 1 .. n : Remembered(f, a, F, i, A)
  BY DEF PassedSome
<1>3. DOMAIN A = 1 .. n /\ DOMAIN Params[f] = 1 .. n
  BY <1>2, ArgsFacts
<1> HIDE DEF c, n
<1>4. \A k \in DOMAIN A : A[k].shifted => F[f][k]
  <2> SUFFICES ASSUME NEW k \in DOMAIN A, A[k].shifted PROVE F[f][k]
    OBVIOUS
  <2>1. Remembered(f, a, F, k, A)
    BY <1>2, <1>3
  <2>2. CASE a[k] = None
    <3>1. A[k] = NoArg
      BY <2>1, <2>2 DEF Remembered
    <3>2. A[k].shifted = FALSE
      BY <3>1 DEF NoArg
    <3> QED
      BY <3>2
  <2>3. CASE a[k] # None
    BY <2>1, <2>3 DEF Remembered
  <2> QED
    BY <2>2, <2>3
<1>5. DOMAIN c.args \subseteq DOMAIN Params[c.fun]
  BY <1>1, <1>3
<1>6. \A k \in DOMAIN c.args : c.args[k].shifted => F[c.fun][k]
  BY <1>1, <1>4
<1>7. Recorded(F, c)
  BY <1>5, <1>6 DEF Recorded
<1> QED
  BY <1>7 DEF c

\* s is the calls with c.
Pushed(s, c) ==
    /\ s \in Seq(Frame) /\ Len(s) = Depth + 1 /\ s[Depth + 1] = c
    /\ \A i \in 1 .. Depth : s[i] = callstack[i] /\ i \in 1 .. Depth + 1 /\ callstack[i] \in Frame
                             /\ i \in DOMAIN callstack
    /\ \A i \in 1 .. Depth + 1 : i \in 1 .. Depth \/ i = Depth + 1

\* One more call.
LEMMA PushFacts ==
  ASSUME IInv, NEW c \in Frame, NEW s, s = Append(callstack, c)
  PROVE  Pushed(s, c)
<1>1. callstack \in Seq(Frame) /\ Depth = Len(callstack)
  BY DEF IInv, Depth
<1> HIDE DEF Depth
<1> QED
  BY <1>1 DEF Pushed

\* The flags of the calls that are under way stay.
LEMMA FlagsStay ==
  ASSUME IInv, "shared" \notin Faults, NEW f \in Funs, NEW F, Shares(f, F),
         \A g \in Funs : g # f => F[g] = immut[g], NEW i \in 1 .. Depth
  PROVE  F[callstack[i].fun] = immut[callstack[i].fun]
<1>1. callstack \in Seq(Frame) /\ Depth = Len(callstack)
  BY DEF IInv, Depth
<1>2. i \in DOMAIN callstack /\ callstack[i] \in Frame
  BY <1>1
<1>3. callstack[i].fun \in Funs
  BY <1>2 DEF Frame
<1>4. CASE callstack[i].fun = f
  BY <1>2, <1>4 DEF Shares, Running
<1> QED
  BY <1>3, <1>4

\* What a call leaves.
LEMMA CallLeaves ==
  ASSUME IInv, "shared" \notin Faults, NEW f \in Funs, NEW a \in Args(f),
         NEW F, Shares(f, F), Flags(F), \A g \in Funs : g # f => F[g] = immut[g],
         NEW U, NEW A, NEW P, PassedSome(f, a, F, Len(a), U, A, P),
         uvars' = U, immut' = F, callstack' = Append(callstack, FrameOf(f, A, P)),
         Depth < MaxDepth, Cardinality(DOMAIN U) <= MaxVars
  PROVE  IInv'
<1> DEFINE c == FrameOf(f, A, P)
           s == Append(callstack, c)
           n == Depth + 1
           G == GWith(LentTo(f, F, A, P))
<1>1. A \in Seq(Argument) /\ P \subseteq Nat /\ Sound(U, G, OWith, n) /\ Within(U)
  BY DEF PassedSome
<1>2. c \in Frame /\ c.orig = {v \in DOMAIN uvars : uvars[v].name \in Series}
  BY <1>1, UvarsFacts DEF FrameOf, Frame
<1>3. Depth \in Nat /\ n \in 1 .. n /\ G[n] = LentTo(f, F, A, P)
  BY DepthFacts
<1>4. ~(n <= Depth) /\ \A i \in 1 .. Depth : i <= Depth
  BY <1>3
<1> HIDE DEF c, s, Depth
<1>5. s = Append(callstack, c)
  BY DEF s
<1>6. /\ s \in Seq(Frame) /\ Len(s) = n /\ s[n] = c
      /\ \A i \in 1 .. Depth : s[i] = callstack[i] /\ i \in 1 .. n /\ callstack[i] \in Frame
      /\ \A i \in 1 .. n : i \in 1 .. Depth \/ i = n
  <2>1. Pushed(s, c)
    BY <1>2, <1>5, PushFacts
  <2> QED
    BY <2>1 DEF Pushed
<1>7. callstack' = s /\ Depth' = n
  <2>1. callstack' = s
    BY DEF s, c
  <2>2. Depth' = Len(callstack')
    BY DEF Depth
  <2> QED
    BY <2>1, <2>2, <1>6
<1>8. \A i \in 1 .. Depth :
         /\ Loans(F, callstack[i]) = Loans(immut, callstack[i])
         /\ Recorded(F, callstack[i])
  <2> SUFFICES ASSUME NEW i \in 1 .. Depth
               PROVE  /\ Loans(F, callstack[i]) = Loans(immut, callstack[i])
                      /\ Recorded(F, callstack[i])
    OBVIOUS
  <2>1. F[callstack[i].fun] = immut[callstack[i].fun]
    BY FlagsStay
  <2>2. Recorded(immut, callstack[i])
    BY DEF IInv
  <2> QED
    BY <2>1, <2>2, LoansSame
<1>9. \A i \in 1 .. n : LoansOf(F, s)[i] = Loans(F, s[i]) /\ OrigsOf(s)[i] = s[i].orig
  BY <1>6 DEF LoansOf, OrigsOf
<1>10. \A i \in 1 .. Depth :
          /\ LoansOf(immut, callstack)[i] = Loans(immut, callstack[i])
          /\ OrigsOf(callstack)[i] = callstack[i].orig
  BY DEF LoansOf, OrigsOf, Depth
<1>11. \A i \in 1 .. n : LoansOf(F, s)[i] = G[i] /\ OrigsOf(s)[i] = OWith[i]
  <2> SUFFICES ASSUME NEW i \in 1 .. n PROVE LoansOf(F, s)[i] = G[i] /\ OrigsOf(s)[i] = OWith[i]
    OBVIOUS
  <2>1. CASE i \in 1 .. Depth
    <3>1. G[i] = LoansOf(immut, callstack)[i] /\ OWith[i] = OrigsOf(callstack)[i]
      BY <2>1, <1>4 DEF GWith, OWith
    <3> QED
      BY <3>1, <2>1, <1>6, <1>8, <1>9, <1>10
  <2>2. CASE i = n
    <3>1. LoansOf(F, s)[i] = Loans(F, c) /\ OrigsOf(s)[i] = c.orig
      BY <2>2, <1>6, <1>9
    <3>2. G[i] = Loans(F, c)
      BY <2>2, <1>3 DEF LentTo, c
    <3>3. OWith[i] = {v \in DOMAIN uvars : uvars[v].name \in Series}
      BY <2>2, <1>3, <1>4 DEF OWith
    <3> QED
      BY <3>1, <3>2, <3>3, <1>2
  <2> QED
    BY <2>1, <2>2, <1>6
<1> HIDE DEF n, G
<1>12. Sound(U, LoansOf(F, s), OrigsOf(s), n)
  BY <1>1, <1>11, SoundSame
<1>13. \A i \in 1 .. n : Recorded(F, s[i])
  <2>1. Recorded(F, c)
    BY RecordedAll DEF c
  <2> QED
    BY <2>1, <1>6, <1>8
<1>14. Bounded(U)
  <2>1. DOMAIN U \subseteq Nat \ {0} /\ IsFiniteSet(DOMAIN U)
    BY <1>1 DEF Sound, Typed
  <2> QED
    BY <2>1, <1>1, WithinBounds
<1>15. n <= MaxDepth
  BY <1>3, ConstantFacts DEF n
<1> QED
  BY <1>6, <1>7, <1>12, <1>13, <1>14, <1>15 DEF IInv

\* What a call leaves: its arguments have been passed.
CallLeft(f, a, F, U, A, P) ==
    /\ uvars' = U /\ immut' = F /\ callstack' = Append(callstack, FrameOf(f, A, P))
    /\ Cardinality(DOMAIN U) <= MaxVars /\ Depth < MaxDepth
    /\ Shares(f, F) /\ PassedOnce(f, a, F)
    /\ Flags(F) /\ \A g \in Funs : g # f => F[g] = immut[g]
    /\ PassedSome(f, a, F, Len(a), U, A, P)
    /\ \A k \in 1 .. Len(a) : a[k] # None /\ Flagged(immut, a[k]) => F[f][k]

LEMMA CallFacts ==
  ASSUME IInv, Distinct, NEW f \in Funs, NEW a \in Args(f), Call(f, a)
  PROVE  \E F, U, A, P : CallLeft(f, a, F, U, A, P)
<1> DEFINE n == Len(a)
           x == Passed(f, a, n)
<1>1. /\ Depth < MaxDepth /\ x.ok
      /\ Shares(f, x.immut) /\ PassedOnce(f, a, x.immut)
      /\ uvars' = x.uvars /\ immut' = x.immut
      /\ Cardinality(DOMAIN x.uvars) <= MaxVars
      /\ callstack' = Append(callstack, FrameOf(f, x.args, x.ptrvars))
  BY DEF Call, FrameOf
<1>2. "shared" \notin Faults /\ "twice" \notin Faults
  BY DEF Distinct
<1> DEFINE st == CHOOSE s : PassesUpTo(f, a, n, s)
<1>3. PassesUpTo(f, a, n, st) /\ x = st[n] /\ n \in Nat
  <2>1. n \in Nat
    BY ArgsFacts
  <2>2. \E s : PassesUpTo(f, a, n, s)
    BY <2>1, PassesExists
  <2> QED
    BY <2>1, <2>2, PassedIs
<1> HIDE DEF st
<1>4. IsPassing(f, x)
  <2>1. \A k \in 0 .. n : IsPassing(f, st[k])
    BY <1>3, PassingAll
  <2>2. n \in 0 .. n
    BY <1>3
  <2> QED
    BY <2>1, <2>2, <1>3
<1> HIDE DEF x
<1> DEFINE F == x.immut
<1>5. Through(f, a, F, n, x)
  <2>1. F = st[Len(a)].immut /\ PassesUpTo(f, a, Len(a), st) /\ PassedOnce(f, a, F)
    BY <1>1, <1>3
  <2>2. Through(f, a, F, Len(a), st[Len(a)])
    BY <2>1, <1>2, PassedAll
  <2> QED
    BY <2>2, <1>3
<1>6. Flags(F) /\ \A g \in Funs : g # f => F[g] = immut[g]
  BY <1>4 DEF IsPassing
<1> DEFINE U == x.uvars
           A == x.args
           P == x.ptrvars
<1>7. PassedSome(f, a, F, Len(a), U, A, P)
  BY <1>1, <1>5 DEF Through
<1>8. \A k \in 1 .. Len(a) : a[k] # None /\ Flagged(immut, a[k]) => F[f][k]
  <2> SUFFICES ASSUME NEW k \in 1 .. Len(a), a[k] # None, Flagged(immut, a[k]) PROVE F[f][k]
    OBVIOUS
  <2>1. PassesUpTo(f, a, Len(a), st) /\ st[Len(a)].ok /\ Shares(f, st[Len(a)].immut)
    BY <1>1, <1>3
  <2>2. st[Len(a)].immut[f][k]
    BY <2>1, <1>2, FlagsSeen
  <2> QED
    BY <2>2, <1>3
<1>9. /\ uvars' = U /\ immut' = F /\ callstack' = Append(callstack, FrameOf(f, A, P))
      /\ Cardinality(DOMAIN U) <= MaxVars /\ Depth < MaxDepth
      /\ Shares(f, F) /\ PassedOnce(f, a, F)
  BY <1>1
<1> HIDE DEF F, U, A, P
<1>10. CallLeft(f, a, F, U, A, P)
  BY <1>6, <1>7, <1>8, <1>9 DEF CallLeft
<1> QED
  BY <1>10

\* A call.
LEMMA StepCall ==
  ASSUME IInv, Distinct, NEW f \in Funs, NEW a \in Args(f), Call(f, a) PROVE IInv'
<1>1. PICK F, U, A, P : CallLeft(f, a, F, U, A, P)
  BY CallFacts
<1>2. /\ uvars' = U /\ immut' = F /\ callstack' = Append(callstack, FrameOf(f, A, P))
      /\ Cardinality(DOMAIN U) <= MaxVars /\ Depth < MaxDepth /\ Shares(f, F)
      /\ Flags(F) /\ \A g \in Funs : g # f => F[g] = immut[g]
      /\ PassedSome(f, a, F, Len(a), U, A, P)
  BY <1>1 DEF CallLeft
<1>3. "shared" \notin Faults
  BY DEF Distinct
<1> QED
  BY <1>2, <1>3, CallLeaves

-----------------------------------------------------------------------------
(***************************************************************************)
(* Theorems                                                                *)
(***************************************************************************)

\* Every step.
LEMMA NextIInv == IInv /\ Distinct /\ [Next]_vars => IInv'
<1> SUFFICES ASSUME IInv, Distinct, [Next]_vars PROVE IInv'
  OBVIOUS
<1>1. ASSUME NEW f \in Funs, NEW a \in Args(f), Call(f, a) PROVE IInv'
  BY <1>1, StepCall
<1>2. ASSUME NEW x \in Names, Define(x) PROVE IInv'
  BY <1>2, StepDefine
<1>3. ASSUME NEW x \in Names, Assign(x) PROVE IInv'
  BY <1>3, StepAssign
<1>4. ASSUME NEW x \in Names, Delete(x) PROVE IInv'
  BY <1>4, StepDelete
<1>5. ASSUME NEW x \in Names \cup {None}, Return(x) PROVE IInv'
  BY <1>5, StepReturn
<1>6. CASE UNCHANGED vars
  BY <1>6 DEF vars, IInv, Depth
<1> QED
  BY <1>1, <1>2, <1>3, <1>4, <1>5, <1>6 DEF Next

\* The invariant holds: what allocate_function_args() lends to a function is
\* found by function_assign_returns() and stop_fncall() where they look for it.
THEOREM CallsInvariant == ASSUME Distinct PROVE Spec => []IInv
<1>1. IInv /\ [Next]_vars => IInv'
  BY NextIInv
<1> QED
  BY <1>1, InitIInv, PTL DEF Spec

\* One variable of each name at each level.
LEMMA IInvName == IInv => OneOfEachName
<1> SUFFICES ASSUME IInv, NEW v \in DOMAIN uvars, NEW w \in DOMAIN uvars,
                    uvars[v].name = uvars[w].name, uvars[v].level = uvars[w].level
             PROVE  v = w
  BY DEF OneOfEachName
<1> DEFINE i == uvars[v].level
           x == uvars[v].name
           G == LoansOf(immut, callstack)
<1>1. i \in 0 .. Depth /\ x \in Names
  BY UvarsFacts
<1>2. IsCalled(uvars, G, Depth, i, v, x) /\ IsCalled(uvars, G, Depth, i, w, x)
  BY DEF IsCalled
<1>3. Named(uvars, G, Depth)
  BY DEF IInv, Sound
<1> HIDE DEF i, x, G
<1> QED
  BY <1>1, <1>2, <1>3 DEF Named

\* The types.
LEMMA IInvType == "return" \notin Faults /\ IInv => TypeOK
<1> SUFFICES ASSUME IInv, "return" \notin Faults PROVE TypeOK
  OBVIOUS
<1>1. DOMAIN uvars \subseteq 1 .. MaxVars /\ \A v \in DOMAIN uvars : uvars[v].val \in 0 .. 1
  BY DEF IInv, Bounded
<1>2. \A v \in DOMAIN uvars : uvars[v].name \in Names /\ uvars[v].level \in 0 .. Depth
  BY UvarsFacts
<1>3. \A v \in DOMAIN uvars : uvars[v].of # 0 => uvars[v].of \in DOMAIN uvars
  BY DEF IInv, Sound, Shells, IsShell
<1>4. \A f \in Funs : immut[f] \in [DOMAIN Params[f] -> BOOLEAN]
  BY DEF IInv, Flags
<1> QED
  BY <1>1, <1>2, <1>3, <1>4 DEF TypeOK, IInv

\* At each level of execution a name designates one variable: when
\* push_object_to_caller() and push_series_to_caller() move an argument down,
\* under the name it had there (function_assign_returns()), no other variable is
\* found under it, whatever the functions in between have defined, deleted or
\* passed on.
THEOREM OneVariable == ASSUME Distinct PROVE Spec => []OneOfEachName
<1>1. Spec => []IInv
  BY CallsInvariant
<1> QED
  BY <1>1, IInvName, PTL

\* No variable is a shell of one that is gone (arg_add_as_shell() borrows the
\* value, stop_fncall() destroys the level), none that stays has had its value
\* taken as a return value (handle_matrix_return()), and each is at a level that
\* is running.
THEOREM TypesHold == ASSUME Faults = {} PROVE Spec => []TypeOK
<1>1. Distinct /\ "return" \notin Faults
  BY DEF Distinct
<1>2. IInv => TypeOK
  BY <1>1, IInvType
<1>3. Spec => []IInv
  BY <1>1, CallsInvariant
<1> QED
  BY <1>2, <1>3, PTL

-----------------------------------------------------------------------------
(***************************************************************************)
(* The refinement of Scopes.  A level of execution is a scope, in which a  *)
(* name is that of one variable, those included that are lent away; the    *)
(* cell that it is bound to is the variable that owns the value.           *)
(***************************************************************************)

\* x is the name of v at level i, when G is lent to the levels up to n.
NamedAt(U, G, n, i, v, x) == v \in DOMAIN U /\ IsCalled(U, G, n, i, v, x)

\* The same with what calls have recorded.
Called(U, imm, cs, i, v, x) == NamedAt(U, LoansOf(imm, cs), Len(cs), i, v, x)

\* x is constant at level i.
Const(imm, cs, i, x) == i > 0 /\ FlaggedIn(imm, cs[i], x)

\* The series that a call has moved are among its ptrvars, and no others are.
Pointers(imm, c) ==
    \A k \in DOMAIN c.args : c.args[k].upname \in Series =>
        /\ Back(imm, c, k) => c.args[k].var \in c.ptrvars
        /\ c.args[k].var \in c.ptrvars =>
              \E j \in DOMAIN c.args :
                 /\ Back(imm, c, j) /\ c.args[j].var = c.args[k].var
                 /\ c.args[j].upname = c.args[k].upname

\* A function has a variable for each of its parameters.
Supplied(U, imm, cs, i) ==
    i > 0 => \A k \in DOMAIN Params[cs[i].fun] :
                \E v : Called(U, imm, cs, i, v, Params[cs[i].fun][k].name)

\* Two variables of a level with the same value are constant there.
Twins(U, imm, cs, i) ==
    \A v, w, x, y :
        /\ Called(U, imm, cs, i, v, x) /\ Called(U, imm, cs, i, w, y)
        /\ v # w /\ Cell(U, v) = Cell(U, w)
        => Const(imm, cs, i, x) /\ Const(imm, cs, i, y)

\* The invariant of the refinement.
RInv ==
    /\ IInv
    /\ \A i \in 1 .. Depth : Pointers(immut, callstack[i])
    /\ \A i \in 0 .. Depth :
          /\ Supplied(uvars, immut, callstack, i) /\ Twins(uvars, immut, callstack, i)

\* A variable has one name at a level, and a name one variable.
OneName(U, G, n) ==
    \A i \in 0 .. n : \A v, w, x, y :
        /\ NamedAt(U, G, n, i, v, x) => x \in Names /\ U[v].level \in i .. n
        /\ NamedAt(U, G, n, i, v, x) /\ NamedAt(U, G, n, i, w, x) => v = w
        /\ NamedAt(U, G, n, i, v, x) /\ NamedAt(U, G, n, i, v, y) => x = y

LEMMA NamedFacts ==
  ASSUME NEW U, NEW G, NEW O, NEW n, Sound(U, G, O, n) PROVE OneName(U, G, n)
<1>1. /\ n \in Nat /\ \A v \in DOMAIN U : U[v] \in Variable /\ U[v].level <= n
      /\ \A i \in 1 .. n : G[i] \subseteq Loan
  BY DEF Sound, Typed
<1>2. \A v \in DOMAIN U : U[v].name \in Names /\ U[v].level \in 0 .. n
  BY <1>1 DEF Variable
<1>3. ASSUME NEW i \in 0 .. n, NEW v, NEW x, NamedAt(U, G, n, i, v, x)
      PROVE  /\ v \in DOMAIN U /\ x \in Names /\ U[v].level \in i .. n
             /\ \/ U[v].level = i /\ U[v].name = x
                \/ /\ i < n /\ i + 1 \in 1 .. n /\ i + 1 <= U[v].level
                   /\ \E l \in G[i + 1] : /\ l.var = v /\ l.up = x
                                          /\ \A m \in G[i + 1] : m.var = v => m = l
  <2>1. CASE U[v].level = i /\ U[v].name = x
    BY <2>1, <1>2, <1>3 DEF NamedAt
  <2>2. CASE i < n /\ \E l \in G[i + 1] : l.var = v /\ l.up = x
    <3>1. PICK l \in G[i + 1] : l.var = v /\ l.up = x
      BY <2>2
    <3>2. i + 1 \in 1 .. n /\ l \in Loan
      BY <1>1, <2>2, <3>1
    <3>3. IsLent(U, G, n, i + 1, l)
      BY <3>1, <3>2 DEF Sound, Lending
    <3>4. v \in DOMAIN U /\ i + 1 <= U[v].level /\ \A m \in G[i + 1] : m.var = v => m = l
      BY <3>1, <3>3 DEF IsLent
    <3>5. x \in Names
      BY <3>1, <3>2 DEF Loan
    <3> QED
      BY <1>1, <1>2, <2>2, <3>1, <3>2, <3>4, <3>5
  <2> QED
    BY <1>3, <2>1, <2>2 DEF NamedAt, IsCalled
<1>4. ASSUME NEW i \in 0 .. n, NEW v, NEW w, NEW x, NamedAt(U, G, n, i, v, x),
             NamedAt(U, G, n, i, w, x)
      PROVE  v = w
  BY <1>3, <1>4 DEF Sound, Named, NamedAt
<1>5. ASSUME NEW i \in 0 .. n, NEW v, NEW x, NEW y, NamedAt(U, G, n, i, v, x),
             NamedAt(U, G, n, i, v, y)
      PROVE  x = y
  <2>1. /\ \/ U[v].level = i /\ U[v].name = x
           \/ /\ i < n /\ i + 1 \in 1 .. n /\ i + 1 <= U[v].level
              /\ \E l \in G[i + 1] : /\ l.var = v /\ l.up = x
                                     /\ \A m \in G[i + 1] : m.var = v => m = l
        /\ \/ U[v].level = i /\ U[v].name = y
           \/ /\ i < n /\ i + 1 \in 1 .. n /\ i + 1 <= U[v].level
              /\ \E l \in G[i + 1] : /\ l.var = v /\ l.up = y
                                     /\ \A m \in G[i + 1] : m.var = v => m = l
        /\ U[v].level \in i .. n
    BY <1>3, <1>5
  <2>2. CASE U[v].level = i
    BY <2>1, <2>2, <1>1
  <2>3. CASE U[v].level # i
    BY <2>1, <2>3
  <2> QED
    BY <2>2, <2>3
<1> QED
  BY <1>3, <1>4, <1>5 DEF OneName

\* The loans of the levels, and the names of the variables where they are.
LEMMA CalledFacts ==
  ASSUME IInv
  PROVE  /\ Depth = Len(callstack) /\ Depth \in Nat
         /\ OneName(uvars, LoansOf(immut, callstack), Depth)
         /\ \A i \in 1 .. Depth : LoansOf(immut, callstack)[i] = Loans(immut, callstack[i])
<1>1. Depth = Len(callstack) /\ Depth \in Nat
  BY UvarsFacts
<1>2. Sound(uvars, LoansOf(immut, callstack), OrigsOf(callstack), Depth)
  BY DEF IInv
<1>3. OneName(uvars, LoansOf(immut, callstack), Depth)
  BY <1>2, NamedFacts
<1> QED
  BY <1>1, <1>3 DEF LoansOf

\* The names that Lent derives from the record of a call are those of its loans.
LEMMA LentIs ==
  ASSUME NEW imm, NEW c, Pointers(imm, c), Loans(imm, c) \subseteq Loan, NEW v, NEW x
  PROVE  (\E k \in Lent(c) : c.args[k].upname = x /\ c.args[k].var = v)
            <=> (\E l \in Loans(imm, c) : l.var = v /\ l.up = x)
<1>1. ASSUME NEW k \in Lent(c), c.args[k].upname = x, c.args[k].var = v
      PROVE  \E l \in Loans(imm, c) : l.var = v /\ l.up = x
  <2>1. \E j \in DOMAIN c.args : Back(imm, c, j) /\ c.args[j].var = v /\ c.args[j].upname = x
    <3>1. CASE c.args[k].upname \in Series
      BY <1>1, <3>1 DEF Lent, Pointers
    <3>2. CASE c.args[k].upname \notin Series
      BY <1>1, <3>2 DEF Lent, Back
    <3> QED
      BY <3>1, <3>2
  <2>2. PICK j \in DOMAIN c.args : Back(imm, c, j) /\ c.args[j].var = v /\ c.args[j].upname = x
    BY <2>1
  <2>3. LoanOf(c, j) \in Loans(imm, c)
    BY <2>2 DEF Loans
  <2>4. LoanOf(c, j).var = v /\ LoanOf(c, j).up = x
    BY <2>2 DEF LoanOf
  <2> QED
    BY <2>3, <2>4
<1>2. ASSUME NEW l \in Loans(imm, c), l.var = v, l.up = x
      PROVE  \E k \in Lent(c) : c.args[k].upname = x /\ c.args[k].var = v
  <2>1. PICK k \in DOMAIN c.args : Back(imm, c, k) /\ l = LoanOf(c, k)
    BY DEF Loans
  <2>2. c.args[k].var = v /\ c.args[k].upname = x
    BY <1>2, <2>1 DEF LoanOf
  <2>3. x \in Names
    BY <1>2 DEF Loan
  <2>4. x # None
    BY <2>3, ConstantFacts
  <2>5. k \in Lent(c)
    <3>1. CASE x \in Series
      BY <2>1, <2>2, <3>1 DEF Lent, Pointers
    <3>2. CASE x \notin Series
      BY <2>1, <2>2, <2>4, <3>2 DEF Lent, Back
    <3> QED
      BY <3>1, <3>2
  <2> QED
    BY <2>2, <2>5
<1> QED
  BY <1>1, <1>2

\* s is the scope of level i.
IsScope(U, imm, cs, i, s) ==
    /\ s = [x \in DOMAIN s |-> s[x]]
    /\ \A x : x \in DOMAIN s <=> \E v : Called(U, imm, cs, i, v, x)
    /\ \A v, x : Called(U, imm, cs, i, v, x) =>
          s[x] = [cell |-> Cell(U, v), const |-> Const(imm, cs, i, x)]

\* The scopes of the mapping.
ScopesAre ==
    /\ ScopesOf = [i \in 1 .. Depth + 1 |-> ScopesOf[i]]
    /\ \A i \in 0 .. Depth :
          /\ i + 1 \in 1 .. Depth + 1
          /\ IsScope(uvars, immut, callstack, i, ScopesOf[i + 1])

LEMMA NamesAtIs ==
  ASSUME IInv, \A i \in 1 .. Depth : Pointers(immut, callstack[i]), NEW i \in 0 .. Depth, NEW v, NEW x
  PROVE  <<x, v>> \in NamesAt(i) <=> Called(uvars, immut, callstack, i, v, x)
<1> DEFINE G == LoansOf(immut, callstack)
<1>1. /\ Depth = Len(callstack) /\ Depth \in Nat
      /\ \A j \in 1 .. Depth : G[j] = Loans(immut, callstack[j])
      /\ \A j \in 1 .. Depth : G[j] \subseteq Loan
      /\ \A j \in 1 .. Depth : \A l \in G[j] : l.var \in DOMAIN uvars
  <2>1. \A j \in 1 .. Depth : \A l \in G[j] : IsLent(uvars, G, Depth, j, l)
    BY DEF IInv, Sound, Lending
  <2>2. \A j \in 1 .. Depth : G[j] \subseteq Loan
    BY DEF IInv, Sound, Typed
  <2> HIDE DEF G
  <2>3. \A j \in 1 .. Depth : \A l \in G[j] : l.var \in DOMAIN uvars
    BY <2>1 DEF IsLent
  <2> QED
    BY <2>2, <2>3, CalledFacts DEF G
<1> DEFINE here == {<<uvars[w].name, w>> : w \in {u \in DOMAIN uvars : uvars[u].level = i}}
           c == callstack[i + 1]
           away == {<<c.args[k].upname, c.args[k].var>> : k \in Lent(c)}
<1>2. <<x, v>> \in here <=> v \in DOMAIN uvars /\ uvars[v].level = i /\ uvars[v].name = x
  OBVIOUS
<1>3. <<x, v>> \in away <=> \E k \in Lent(c) : c.args[k].upname = x /\ c.args[k].var = v
  OBVIOUS
<1>4. NamesAt(i) = here \cup (IF i = Depth THEN {} ELSE away)
  BY DEF NamesAt
<1>5. Called(uvars, immut, callstack, i, v, x) <=>
        /\ v \in DOMAIN uvars
        /\ \/ uvars[v].level = i /\ uvars[v].name = x
           \/ i < Depth /\ \E l \in G[i + 1] : l.var = v /\ l.up = x
  BY <1>1 DEF Called, NamedAt, IsCalled
<1> HIDE DEF here, away, G, Depth
<1>6. CASE i = Depth
  BY <1>1, <1>2, <1>4, <1>5, <1>6
<1>7. CASE i # Depth
  <2>1. i + 1 \in 1 .. Depth /\ i < Depth
    BY <1>1, <1>7
  <2>2. Pointers(immut, c) /\ Loans(immut, c) \subseteq Loan /\ G[i + 1] = Loans(immut, c)
    BY <2>1, <1>1
  <2> HIDE DEF c
  <2>3. (\E k \in Lent(c) : c.args[k].upname = x /\ c.args[k].var = v)
            <=> (\E l \in Loans(immut, c) : l.var = v /\ l.up = x)
    BY <2>2, LentIs
  <2>4. (\E l \in G[i + 1] : l.var = v /\ l.up = x) => v \in DOMAIN uvars
    BY <2>1, <1>1
  <2> QED
    BY <2>1, <2>2, <2>3, <2>4, <1>2, <1>3, <1>4, <1>5, <1>7
<1> QED
  BY <1>6, <1>7

\* The pairs of NamesAt are pairs.
LEMMA NamesAtPairs ==
  ASSUME NEW i, NEW p \in NamesAt(i) PROVE p = <<p[1], p[2]>>
BY DEF NamesAt

LEMMA ScopeIs ==
  ASSUME IInv, \A i \in 1 .. Depth : Pointers(immut, callstack[i]), NEW i \in 0 .. Depth
  PROVE  IsScope(uvars, immut, callstack, i, Scope(i))
<1> DEFINE at == NamesAt(i)
           Var1(x) == CHOOSE nv \in at : nv[1] = x
           s == Scope(i)
<1>1. s = [n \in {nv[1] : nv \in at} |->
              [cell |-> Cell(uvars, Var1(n)[2]),
               const |-> i > 0 /\ FlaggedIn(immut, callstack[i], n)]]
  BY DEF Scope
<1>2. \A v, x : <<x, v>> \in at <=> Called(uvars, immut, callstack, i, v, x)
  BY NamesAtIs
<1>3. \A p \in at : p = <<p[1], p[2]>>
  BY NamesAtPairs
<1> HIDE DEF at, s
<1>4. DOMAIN s = {nv[1] : nv \in at} /\ s = [x \in DOMAIN s |-> s[x]]
  BY <1>1
<1>5. ASSUME NEW x PROVE x \in DOMAIN s <=> \E v : Called(uvars, immut, callstack, i, v, x)
  <2>1. ASSUME x \in DOMAIN s PROVE \E v : Called(uvars, immut, callstack, i, v, x)
    <3>1. PICK p \in at : x = p[1]
      BY <2>1, <1>4
    <3>2. <<x, p[2]>> \in at
      BY <3>1, <1>3
    <3> QED
      BY <3>2, <1>2
  <2>2. ASSUME NEW v, Called(uvars, immut, callstack, i, v, x) PROVE x \in DOMAIN s
    <3>1. <<x, v>> \in at /\ <<x, v>>[1] = x
      BY <2>2, <1>2
    <3> QED
      BY <3>1, <1>4
  <2> QED
    BY <2>1, <2>2
<1>6. ASSUME NEW v, NEW x, Called(uvars, immut, callstack, i, v, x)
      PROVE  s[x] = [cell |-> Cell(uvars, v), const |-> Const(immut, callstack, i, x)]
  <2>1. <<x, v>> \in at /\ <<x, v>>[1] = x
    BY <1>2, <1>6
  <2>2. Var1(x) \in at /\ Var1(x)[1] = x
    BY <2>1
  <2> DEFINE p == Var1(x)
  <2>3. p \in at /\ p[1] = x
    BY <2>2
  <2> HIDE DEF p
  <2>4. <<x, p[2]>> \in at
    BY <2>3, <1>3
  <2>5. Called(uvars, immut, callstack, i, p[2], x)
    BY <2>4, <1>2
  <2>6. p[2] = v
    BY <2>5, <1>6, CalledFacts DEF Called, OneName
  <2>7. x \in DOMAIN s
    BY <1>5, <1>6
  <2>8. s[x] = [cell |-> Cell(uvars, p[2]), const |-> i > 0 /\ FlaggedIn(immut, callstack[i], x)]
    BY <2>7, <1>1, <1>4 DEF p
  <2> QED
    BY <2>6, <2>8 DEF Const
<1> QED
  BY <1>4, <1>5, <1>6 DEF IsScope, s

LEMMA ScopesFound == RInv => ScopesAre
<1> SUFFICES ASSUME RInv PROVE ScopesAre
  OBVIOUS
<1>1. IInv /\ \A i \in 1 .. Depth : Pointers(immut, callstack[i])
  BY DEF RInv
<1>2. Depth \in Nat
  BY <1>1, CalledFacts
<1>3. \A i \in 0 .. Depth : IsScope(uvars, immut, callstack, i, Scope(i))
  BY <1>1, ScopeIs
<1> HIDE DEF Depth, Scope
<1>4. \A i \in 0 .. Depth : i + 1 \in 1 .. Depth + 1 /\ (i + 1) - 1 = i
  BY <1>2
<1>5. ScopesOf = [i \in 1 .. Depth + 1 |-> ScopesOf[i]] /\ \A i \in 1 .. Depth + 1 : ScopesOf[i] = Scope(i - 1)
  BY DEF ScopesOf
<1>6. \A i \in 0 .. Depth : ScopesOf[i + 1] = Scope(i)
  BY <1>4, <1>5
<1> QED
  BY <1>3, <1>4, <1>5, <1>6 DEF ScopesAre

\* Level i is the same in two states: the variables have the names and owners
\* that they had, and what is constant is that.
SameLevel(U, imm, cs, V, jmm, ds, i) ==
    /\ \A v, x : Called(V, jmm, ds, i, v, x) <=> Called(U, imm, cs, i, v, x)
    /\ \A v, x : Called(U, imm, cs, i, v, x) => Cell(V, v) = Cell(U, v)
    /\ \A x : Const(jmm, ds, i, x) <=> Const(imm, cs, i, x)
    /\ i > 0 => ds[i].fun = cs[i].fun

\* Then it is the same scope.
LEMMA SameScope ==
  ASSUME NEW U, NEW imm, NEW cs, NEW V, NEW jmm, NEW ds, NEW i,
         SameLevel(U, imm, cs, V, jmm, ds, i),
         NEW s, IsScope(U, imm, cs, i, s), NEW t, IsScope(V, jmm, ds, i, t)
  PROVE  t = s
<1>1. DOMAIN t = DOMAIN s
  BY DEF SameLevel, IsScope
<1>2. ASSUME NEW x \in DOMAIN s PROVE t[x] = s[x]
  <2>1. PICK v : Called(U, imm, cs, i, v, x)
    BY DEF IsScope
  <2>2. Called(V, jmm, ds, i, v, x) /\ Cell(V, v) = Cell(U, v)
    BY <2>1 DEF SameLevel
  <2>3. Const(jmm, ds, i, x) = Const(imm, cs, i, x)
    BY DEF SameLevel, Const
  <2>4. s[x] = [cell |-> Cell(U, v), const |-> Const(imm, cs, i, x)]
    BY <2>1 DEF IsScope
  <2>5. t[x] = [cell |-> Cell(V, v), const |-> Const(jmm, ds, i, x)]
    BY <2>2 DEF IsScope
  <2> QED
    BY <2>2, <2>3, <2>4, <2>5
<1>3. s = [x \in DOMAIN s |-> s[x]] /\ t = [x \in DOMAIN t |-> t[x]]
  BY DEF IsScope
<1> QED
  BY <1>1, <1>2, <1>3

\* And what the invariant says of it stays.
LEMMA SameKept ==
  ASSUME NEW U, NEW imm, NEW cs, NEW V, NEW jmm, NEW ds, NEW i,
         SameLevel(U, imm, cs, V, jmm, ds, i)
  PROVE  /\ Supplied(U, imm, cs, i) => Supplied(V, jmm, ds, i)
         /\ Twins(U, imm, cs, i) => Twins(V, jmm, ds, i)
<1>1. ASSUME Supplied(U, imm, cs, i) PROVE Supplied(V, jmm, ds, i)
  BY <1>1 DEF Supplied, SameLevel
<1>2. ASSUME Twins(U, imm, cs, i), NEW v, NEW w, NEW x, NEW y,
             Called(V, jmm, ds, i, v, x), Called(V, jmm, ds, i, w, y),
             v # w, Cell(V, v) = Cell(V, w)
      PROVE  Const(jmm, ds, i, x) /\ Const(jmm, ds, i, y)
  <2>1. Called(U, imm, cs, i, v, x) /\ Called(U, imm, cs, i, w, y) /\ Cell(U, v) = Cell(U, w)
    BY <1>2 DEF SameLevel
  <2>2. Const(imm, cs, i, x) /\ Const(imm, cs, i, y)
    BY <1>2, <2>1 DEF Twins
  <2> QED
    BY <2>2 DEF SameLevel
<1> QED
  BY <1>1, <1>2 DEF Twins

\* The cells of the mapping are those that are bound, and have values.
ValuesAre ==
    /\ ValueOf = [c \in DOMAIN ValueOf |-> ValueOf[c]]
    /\ DOMAIN ValueOf = {Cell(uvars, v) : v \in DOMAIN uvars}
    /\ DOMAIN ValueOf \subseteq DOMAIN uvars
    /\ \A c \in DOMAIN ValueOf : ValueOf[c] = uvars[c].val /\ uvars[c].val \in 0 .. 1
    /\ S!InUse(ScopesOf) = DOMAIN ValueOf

LEMMA ValuesFound == RInv /\ "return" \notin Faults => ValuesAre
<1> SUFFICES ASSUME RInv, "return" \notin Faults PROVE ValuesAre
  OBVIOUS
<1>1. IInv /\ ScopesAre
  BY ScopesFound DEF RInv
<1>2. /\ ValueOf = [c \in DOMAIN ValueOf |-> ValueOf[c]]
      /\ DOMAIN ValueOf = {Cell(uvars, v) : v \in DOMAIN uvars}
      /\ \A c \in DOMAIN ValueOf : ValueOf[c] = uvars[c].val
  BY DEF ValueOf
<1>3. DOMAIN ValueOf \subseteq DOMAIN uvars
  BY <1>1, <1>2, CellFacts
<1>4. \A c \in DOMAIN uvars : uvars[c].val \in 0 .. 1
  BY <1>1 DEF IInv, Bounded
<1>5. \A c : c \in S!InUse(ScopesOf) <=>
              \E i \in DOMAIN ScopesOf : \E x \in DOMAIN ScopesOf[i] : ScopesOf[i][x].cell = c
  BY DEF S!InUse, S!Bound
<1>6. DOMAIN ScopesOf = 1 .. Depth + 1 /\ Depth \in Nat
  BY <1>1, CalledFacts DEF ScopesAre
<1>7. ASSUME NEW c \in S!InUse(ScopesOf) PROVE c \in DOMAIN ValueOf
  <2>1. PICK i \in 1 .. Depth + 1 : \E x \in DOMAIN ScopesOf[i] : ScopesOf[i][x].cell = c
    BY <1>5, <1>6, <1>7
  <2>2. PICK x \in DOMAIN ScopesOf[i] : ScopesOf[i][x].cell = c
    BY <2>1
  <2> DEFINE j == i - 1
  <2>3. j \in 0 .. Depth /\ i = j + 1
    <3> HIDE DEF Depth
    <3> QED
      BY <1>6
  <2> HIDE DEF j
  <2>4. IsScope(uvars, immut, callstack, j, ScopesOf[i])
    BY <1>1, <2>3 DEF ScopesAre
  <2>5. PICK v : Called(uvars, immut, callstack, j, v, x)
    BY <2>2, <2>4 DEF IsScope
  <2>6. ScopesOf[i][x] = [cell |-> Cell(uvars, v), const |-> Const(immut, callstack, j, x)]
    BY <2>4, <2>5 DEF IsScope
  <2>7. c = Cell(uvars, v) /\ v \in DOMAIN uvars
    BY <2>2, <2>5, <2>6 DEF Called, NamedAt
  <2> QED
    BY <2>7, <1>2
<1>8. ASSUME NEW c \in DOMAIN ValueOf PROVE c \in S!InUse(ScopesOf)
  <2>1. PICK v \in DOMAIN uvars : c = Cell(uvars, v)
    BY <1>2
  <2> DEFINE i == uvars[v].level
             x == uvars[v].name
  <2>2. i \in 0 .. Depth
    BY <1>1, UvarsFacts
  <2>3. Called(uvars, immut, callstack, i, v, x)
    BY DEF Called, NamedAt, IsCalled
  <2> HIDE DEF i, x
  <2>4. i + 1 \in 1 .. Depth + 1 /\ IsScope(uvars, immut, callstack, i, ScopesOf[i + 1])
    BY <1>1, <2>2 DEF ScopesAre
  <2>5. x \in DOMAIN ScopesOf[i + 1]
    BY <2>3, <2>4 DEF IsScope
  <2>6. ScopesOf[i + 1][x] = [cell |-> Cell(uvars, v), const |-> Const(immut, callstack, i, x)]
    BY <2>3, <2>4 DEF IsScope
  <2>7. ScopesOf[i + 1][x].cell = c
    BY <2>1, <2>6
  <2> QED
    BY <2>4, <2>5, <2>7, <1>5, <1>6
<1>9. S!InUse(ScopesOf) = DOMAIN ValueOf
  BY <1>7, <1>8
<1> QED
  BY <1>2, <1>3, <1>4, <1>9 DEF ValuesAre

\* A step that moves the scopes and leaves the values.
LEMMA MoveStep ==
  ASSUME RInv, RInv', "return" \notin Faults,
         S!Moves(ScopesOf, ScopesOf', DOMAIN ValueOf),
         \A c \in DOMAIN uvars : c \in DOMAIN uvars' /\ uvars[c].of = 0 =>
            uvars'[c].val = uvars[c].val
  PROVE  S!Move
<1>1. IInv /\ ValuesAre
  BY ValuesFound DEF RInv
<1>2. ValuesAre'
  BY ValuesFound, PTL
<1>3. \A c \in DOMAIN ValueOf : uvars[c].of = 0 /\ c \in DOMAIN uvars /\ ValueOf[c] = uvars[c].val
  BY <1>1, CellFacts DEF ValuesAre
<1>4. /\ (ValueOf)' = [c \in DOMAIN (ValueOf)' |-> (ValueOf)'[c]]
      /\ DOMAIN (ValueOf)' \subseteq DOMAIN uvars'
      /\ \A c \in DOMAIN (ValueOf)' : (ValueOf)'[c] = uvars'[c].val /\ uvars'[c].val \in 0 .. 1
      /\ S!InUse(ScopesOf') = DOMAIN (ValueOf)'
  BY <1>2 DEF ValuesAre
<1>5. (ValueOf)' \in [S!InUse(ScopesOf') -> 0 .. 1]
  BY <1>4
<1>6. \A c \in DOMAIN ValueOf \cap DOMAIN (ValueOf)' : (ValueOf)'[c] = ValueOf[c]
  BY <1>3, <1>4
<1> QED
  BY <1>5, <1>6 DEF S!Move

-----------------------------------------------------------------------------
(***************************************************************************)
(* The stack of scopes                                                     *)
(***************************************************************************)

\* s is a stack of n + 1 scopes.
Stack(s, n) ==
    /\ Len(s) = n + 1 /\ Last(s) = s[n + 1] /\ S!Callers(s) = [i \in 1 .. n |-> s[i]]
    /\ s = [i \in 1 .. n + 1 |-> s[i]]

LEMMA IsStack ==
  ASSUME NEW n \in Nat, NEW s, s = [i \in 1 .. n + 1 |-> s[i]]
  PROVE  Stack(s, n)
<1> DEFINE X == {s[i] : i \in 1 .. n + 1}
           m == n + 1
<1>1. m \in Nat /\ m - 1 = n
  OBVIOUS
<1>2. s \in [1 .. m -> X]
  OBVIOUS
<1> HIDE DEF m, X
<1>3. s \in Seq(X) /\ Len(s) = m
  BY <1>1, <1>2, SeqFcn
<1>4. SubSeq(s, 1, n) = [i \in 1 .. n |-> s[i]]
  <2>1. 1 <= n + 1 /\ n <= Len(s) /\ \A i \in 1 .. n : i + 1 - 1 = i /\ n - 1 + 1 = n
    BY <1>3 DEF m
  <2>2. SubSeq(s, 1, n) \in Seq(X) /\ Len(SubSeq(s, 1, n)) = n /\ \A i \in 1 .. n : SubSeq(s, 1, n)[i] = s[i]
    BY <1>3, <2>1, SubSeqProperties
  <2> QED
    BY <2>2
<1>5. Len(s) - 1 = n
  BY <1>1, <1>3
<1> QED
  BY <1>3, <1>4, <1>5 DEF Stack, Last, S!Callers, m

\* The scopes of a state.
LEMMA ScopesStack ==
  ASSUME RInv
  PROVE  /\ Stack(ScopesOf, Depth) /\ ScopesAre /\ Depth = Len(callstack) /\ Depth \in Nat
         /\ IsScope(uvars, immut, callstack, Depth, ScopesOf[Depth + 1])
<1>1. IInv /\ ScopesAre
  BY ScopesFound DEF RInv
<1>2. Depth \in Nat /\ Depth = Len(callstack)
  BY <1>1, CalledFacts
<1>3. Stack(ScopesOf, Depth)
  BY <1>1, <1>2, IsStack DEF ScopesAre
<1> HIDE DEF Depth
<1>4. Depth \in 0 .. Depth
  BY <1>2
<1> QED
  BY <1>1, <1>2, <1>3, <1>4 DEF ScopesAre

\* Those of the next one.
LEMMA ScopesFacts == RInv => ScopesAre /\ IInv
BY ScopesFound DEF RInv

LEMMA LevelsFacts == RInv => Len(callstack) \in Nat
BY CalledFacts DEF Depth, RInv

LEMMA ScopesNext ==
  ASSUME RInv'
  PROVE  /\ Stack(ScopesOf', Len(callstack')) /\ Len(callstack') \in Nat
         /\ \A i \in 0 .. Len(callstack') : IsScope(uvars', immut', callstack', i, ScopesOf'[i + 1])
<1>1. ScopesAre' /\ IInv'
  BY ScopesFacts, PTL
<1>2. Depth' = Len(callstack')
  BY DEF Depth
<1>3. (Len(callstack) \in Nat)'
  BY LevelsFacts, PTL
<1>4. Len(callstack') \in Nat
  BY <1>3
<1>5. /\ ScopesOf' = [i \in 1 .. Len(callstack') + 1 |-> ScopesOf'[i]]
      /\ \A i \in 0 .. Len(callstack') : IsScope(uvars', immut', callstack', i, ScopesOf'[i + 1])
  BY <1>1, <1>2 DEF ScopesAre
<1> QED
  BY <1>4, <1>5, IsStack

\* The levels up to m are the same after a step.
SameLevels(m) ==
    \A i \in 0 .. m : SameLevel(uvars, immut, callstack, uvars', immut', callstack', i)

\* Then the scopes are.
LEMMA SameScopes ==
  ASSUME RInv, RInv', NEW m, m \in Nat, m <= Len(callstack), m <= Len(callstack'), SameLevels(m)
  PROVE  \A i \in 0 .. m : ScopesOf'[i + 1] = ScopesOf[i + 1]
<1> SUFFICES ASSUME NEW i \in 0 .. m PROVE ScopesOf'[i + 1] = ScopesOf[i + 1]
  OBVIOUS
<1>1. /\ ScopesAre /\ Depth = Len(callstack) /\ Depth \in Nat
      /\ Len(callstack') \in Nat
      /\ \A j \in 0 .. Len(callstack') : IsScope(uvars', immut', callstack', j, ScopesOf'[j + 1])
  BY ScopesStack, ScopesNext
<1> HIDE DEF Depth
<1>2. i \in 0 .. Depth /\ i \in 0 .. Len(callstack')
  BY <1>1
<1>3. IsScope(uvars, immut, callstack, i, ScopesOf[i + 1])
  BY <1>1, <1>2 DEF ScopesAre
<1>4. IsScope(uvars', immut', callstack', i, ScopesOf'[i + 1])
  BY <1>1, <1>2
<1> DEFINE s == ScopesOf[i + 1]
           t == ScopesOf'[i + 1]
<1>5. SameLevel(uvars, immut, callstack, uvars', immut', callstack', i)
  BY DEF SameLevels
<1> HIDE DEF s, t
<1>6. t = s
  BY <1>3, <1>4, <1>5, SameScope DEF s, t
<1> QED
  BY <1>6 DEF s, t

\* A step within a function.
LEMMA InFunction ==
  ASSUME RInv, RInv', Len(callstack') = Len(callstack),
         \A i \in 0 .. Depth : i < Depth =>
            SameLevel(uvars, immut, callstack, uvars', immut', callstack', i)
  PROVE  S!Callers(ScopesOf') = S!Callers(ScopesOf)
<1>1. /\ Stack(ScopesOf, Depth) /\ Depth \in Nat /\ Depth = Len(callstack) /\ Stack(ScopesOf', Depth)
  BY ScopesStack, ScopesNext
<1> HIDE DEF Depth
<1>2. CASE Depth = 0
  <2>1. 1 .. 0 = {}
    OBVIOUS
  <2>2. \A f, g : [i \in {} |-> f[i]] = [i \in {} |-> g[i]]
    OBVIOUS
  <2> QED
    BY <1>1, <1>2, <2>1, <2>2 DEF Stack
<1>3. CASE Depth # 0
  <2> DEFINE m == Depth - 1
  <2>1. m \in Nat /\ m <= Depth /\ \A i \in 0 .. m : i \in 0 .. Depth /\ i < Depth
    BY <1>1, <1>3
  <2>2. SameLevels(m)
    BY <2>1 DEF SameLevels
  <2>3. \A j \in 1 .. Depth : j - 1 \in 0 .. m /\ (j - 1) + 1 = j
    BY <1>1
  <2> HIDE DEF m
  <2>4. \A i \in 0 .. m : ScopesOf'[i + 1] = ScopesOf[i + 1]
    BY <1>1, <2>1, <2>2, SameScopes
  <2>5. \A j \in 1 .. Depth : ScopesOf'[j] = ScopesOf[j]
    BY <2>3, <2>4
  <2> QED
    BY <1>1, <2>5 DEF Stack
<1> QED
  BY <1>2, <1>3

\* A call.
LEMMA IntoFunction ==
  ASSUME RInv, RInv', Len(callstack') = Len(callstack) + 1, SameLevels(Depth)
  PROVE  S!Callers(ScopesOf') = ScopesOf
<1>1. /\ Stack(ScopesOf, Depth) /\ Depth \in Nat /\ Depth = Len(callstack)
      /\ Stack(ScopesOf', Depth + 1)
  BY ScopesStack, ScopesNext
<1> HIDE DEF Depth
<1>2. Depth <= Len(callstack) /\ Depth <= Len(callstack')
  BY <1>1
<1>3. \A i \in 0 .. Depth : ScopesOf'[i + 1] = ScopesOf[i + 1]
  BY <1>1, <1>2, SameScopes
<1>4. \A j \in 1 .. Depth + 1 : j - 1 \in 0 .. Depth /\ (j - 1) + 1 = j
  BY <1>1
<1>5. \A j \in 1 .. Depth + 1 : ScopesOf'[j] = ScopesOf[j]
  BY <1>3, <1>4
<1> QED
  BY <1>1, <1>5 DEF Stack

\* A return.
LEMMA OutOfFunction ==
  ASSUME RInv, RInv', Depth # 0, Len(callstack') = Depth - 1, SameLevels(Depth - 1)
  PROVE  ScopesOf' = S!Callers(ScopesOf) /\ ScopesOf' # << >>
<1>1. /\ Stack(ScopesOf, Depth) /\ Depth \in Nat /\ Depth = Len(callstack)
      /\ Stack(ScopesOf', Len(callstack')) /\ Len(callstack') \in Nat
  BY ScopesStack, ScopesNext
<1> DEFINE n == Depth
           m == Depth - 1
<1>2. n \in Nat /\ m \in Nat /\ m + 1 = n /\ m <= n /\ n = Len(callstack) /\ m = Len(callstack')
  <2>1. n \in Nat /\ n # 0
    BY <1>1
  <2>2. m = n - 1
    OBVIOUS
  <2> HIDE DEF m, n
  <2>3. m \in Nat /\ m + 1 = n /\ m <= n
    BY <2>1, <2>2
  <2> QED
    BY <2>3, <1>1 DEF m, n
<1>3. SameLevels(m)
  OBVIOUS
<1>4. Stack(ScopesOf, n) /\ Stack(ScopesOf', m)
  BY <1>1, <1>2
<1> HIDE DEF n, m
<1>5. \A i \in 0 .. m : ScopesOf'[i + 1] = ScopesOf[i + 1]
  BY <1>2, <1>3, SameScopes
<1>6. \A j \in 1 .. n : j - 1 \in 0 .. m /\ (j - 1) + 1 = j
  BY <1>2
<1>7. \A j \in 1 .. n : ScopesOf'[j] = ScopesOf[j]
  BY <1>5, <1>6
<1>8. ScopesOf' = S!Callers(ScopesOf)
  BY <1>2, <1>4, <1>7 DEF Stack
<1>9. Len(ScopesOf') # 0
  BY <1>2, <1>4 DEF Stack
<1> QED
  BY <1>8, <1>9

-----------------------------------------------------------------------------
(***************************************************************************)
(* Steps of the current function: variables of its level                   *)
(***************************************************************************)

\* Where variables are called by a name: with what is lent, unless i is the
\* current level.
LEMMA CalledIs ==
  ASSUME IInv
  PROVE  \A U, i, v, x : Called(U, immut, callstack, i, v, x) <=>
            /\ v \in DOMAIN U
            /\ \/ U[v].level = i /\ U[v].name = x
               \/ i < Depth /\ \E l \in LoansOf(immut, callstack)[i + 1] : l.var = v /\ l.up = x
<1>1. Depth = Len(callstack)
  BY UvarsFacts
<1> QED
  BY <1>1 DEF Called, NamedAt, IsCalled

\* The names at the current level are those of the variables there.
LEMMA CalledHere ==
  ASSUME IInv, NEW U, NEW v, NEW x
  PROVE  Called(U, immut, callstack, Depth, v, x) <=>
            v \in DOMAIN U /\ U[v].level = Depth /\ U[v].name = x
<1>1. Depth \in Nat
  BY UvarsFacts
<1> HIDE DEF Depth
<1>2. ~(Depth < Depth)
  BY <1>1
<1> QED
  BY <1>2, CalledIs

\* The variables K stay, and the others are at the current level and not lent.
Stay(K) ==
    /\ K \subseteq DOMAIN uvars /\ K \subseteq DOMAIN uvars'
    /\ \A v \in K : /\ uvars'[v].name = uvars[v].name /\ uvars'[v].level = uvars[v].level
                    /\ uvars'[v].of = uvars[v].of
    /\ \A v \in DOMAIN uvars \ K : uvars[v].level = Depth
    /\ \A v \in DOMAIN uvars' \ K : uvars'[v].level = Depth
    /\ \A v : v \notin K => \A j \in 1 .. Depth : v \notin Borrowed(LoansOf(immut, callstack)[j])

\* Then the scopes of the callers are the same.
LEMMA StayBelow ==
  ASSUME IInv, UNCHANGED <<immut, callstack>>, NEW K, Stay(K)
  PROVE  /\ \A i : \A v \in K : \A x :
               Called(uvars', immut, callstack, i, v, x) <=> Called(uvars, immut, callstack, i, v, x)
         /\ \A v \in K : Cell(uvars', v) = Cell(uvars, v)
         /\ \A i \in 0 .. Depth : i < Depth =>
               SameLevel(uvars, immut, callstack, uvars', immut', callstack', i)
<1> DEFINE G == LoansOf(immut, callstack)
<1>1. \A U, i, v, x : Called(U, immut, callstack, i, v, x) <=>
            /\ v \in DOMAIN U
            /\ \/ U[v].level = i /\ U[v].name = x
               \/ i < Depth /\ \E l \in G[i + 1] : l.var = v /\ l.up = x
  BY CalledIs
<1>2. /\ K \subseteq DOMAIN uvars /\ K \subseteq DOMAIN uvars'
      /\ \A v \in K : /\ uvars'[v].name = uvars[v].name /\ uvars'[v].level = uvars[v].level
                      /\ uvars'[v].of = uvars[v].of
      /\ \A v \in DOMAIN uvars \ K : uvars[v].level = Depth
      /\ \A v \in DOMAIN uvars' \ K : uvars'[v].level = Depth
      /\ \A v : v \notin K => \A j \in 1 .. Depth : v \notin Borrowed(G[j])
  BY DEF Stay
<1>3. Depth \in Nat
  BY UvarsFacts
<1> HIDE DEF G, Depth
<1>4. \A i : \A v \in K : \A x :
         Called(uvars', immut, callstack, i, v, x) <=> Called(uvars, immut, callstack, i, v, x)
  BY <1>1, <1>2
<1>5. \A v \in K : Cell(uvars', v) = Cell(uvars, v)
  BY <1>2 DEF Cell
<1>6. ASSUME NEW i \in 0 .. Depth, i < Depth
      PROVE  SameLevel(uvars, immut, callstack, uvars', immut', callstack', i)
  <2>1. i + 1 \in 1 .. Depth /\ i # Depth
    BY <1>3, <1>6
  <2>2. \A v : v \notin K => \A l \in G[i + 1] : l.var # v
    BY <2>1, <1>2 DEF Borrowed
  <2>3. \A v, x : Called(uvars, immut, callstack, i, v, x) => v \in K
    BY <2>1, <2>2, <1>1, <1>2
  <2>4. \A v, x : Called(uvars', immut, callstack, i, v, x) => v \in K
    BY <2>1, <2>2, <1>1, <1>2
  <2>5. \A v, x : Called(uvars', immut, callstack, i, v, x) <=> Called(uvars, immut, callstack, i, v, x)
    BY <2>3, <2>4, <1>4
  <2>6. \A v, x : Called(uvars, immut, callstack, i, v, x) => Cell(uvars', v) = Cell(uvars, v)
    BY <2>3, <1>5
  <2>7. immut' = immut /\ callstack' = callstack
    OBVIOUS
  <2> QED
    BY <2>5, <2>6, <2>7 DEF SameLevel
<1> QED
  BY <1>4, <1>5, <1>6

\* The invariant stays if it does at the current level.
LEMMA StayKept ==
  ASSUME RInv, IInv', UNCHANGED <<immut, callstack>>, NEW K, Stay(K),
         Supplied(uvars', immut, callstack, Depth), Twins(uvars', immut, callstack, Depth)
  PROVE  RInv'
<1>1. IInv /\ Depth \in Nat
  BY UvarsFacts DEF RInv
<1>2. immut' = immut /\ callstack' = callstack /\ Depth' = Depth
  BY DEF Depth
<1>3. \A i \in 0 .. Depth : i < Depth =>
         SameLevel(uvars, immut, callstack, uvars', immut', callstack', i)
  BY <1>1, StayBelow
<1>4. /\ \A i \in 1 .. Depth : Pointers(immut, callstack[i])
      /\ \A i \in 0 .. Depth :
            Supplied(uvars, immut, callstack, i) /\ Twins(uvars, immut, callstack, i)
  BY DEF RInv
<1>5. ASSUME NEW i \in 0 .. Depth
      PROVE  Supplied(uvars', immut', callstack', i) /\ Twins(uvars', immut', callstack', i)
  <2>1. CASE i = Depth
    BY <2>1, <1>2
  <2>2. CASE i # Depth
    <3>1. i < Depth
      <4> HIDE DEF Depth
      <4> QED
        BY <2>2, <1>1
    <3>2. SameLevel(uvars, immut, callstack, uvars', immut', callstack', i)
      BY <3>1, <1>3
    <3>3. Supplied(uvars, immut, callstack, i) /\ Twins(uvars, immut, callstack, i)
      BY <1>4
    <3> QED
      BY <3>2, <3>3, SameKept
  <2> QED
    BY <2>1, <2>2
<1>6. \A i \in 1 .. Depth' : Pointers(immut', callstack'[i])
  BY <1>2, <1>4
<1> HIDE DEF Depth
<1> QED
  BY <1>2, <1>5, <1>6 DEF RInv

\* The scope of the current function, in two states.
LEMMA TopScopes ==
  ASSUME RInv, RInv', UNCHANGED <<immut, callstack>>
  PROVE  /\ IsScope(uvars, immut, callstack, Depth, Last(ScopesOf))
         /\ IsScope(uvars', immut, callstack, Depth, Last(ScopesOf'))
<1>1. /\ Stack(ScopesOf, Depth) /\ Depth = Len(callstack) /\ Depth \in Nat
      /\ IsScope(uvars, immut, callstack, Depth, ScopesOf[Depth + 1])
  BY ScopesStack
<1>2. /\ Stack(ScopesOf', Len(callstack'))
      /\ \A i \in 0 .. Len(callstack') : IsScope(uvars', immut', callstack', i, ScopesOf'[i + 1])
  BY ScopesNext
<1>3. immut' = immut /\ callstack' = callstack /\ Len(callstack') = Depth
  BY DEF Depth
<1> HIDE DEF Depth
<1>4. Depth \in 0 .. Depth
  BY <1>1
<1>5. IsScope(uvars', immut, callstack, Depth, ScopesOf'[Depth + 1])
  BY <1>2, <1>3, <1>4
<1> QED
  BY <1>1, <1>2, <1>3, <1>5 DEF Stack

\* A constant name of the current function is that of a variable.
LEMMA ConstExists ==
  ASSUME RInv, NEW x, Const(immut, callstack, Depth, x) PROVE Exists(x)
<1>1. IInv /\ Depth \in Nat /\ Supplied(uvars, immut, callstack, Depth)
  <2>1. IInv /\ Depth \in Nat
    BY UvarsFacts DEF RInv
  <2>2. Depth \in 0 .. Depth
    <3> HIDE DEF Depth
    <3> QED
      BY <2>1
  <2> QED
    BY <2>1, <2>2 DEF RInv
<1>2. PICK k \in DOMAIN Params[callstack[Depth].fun] : Params[callstack[Depth].fun][k].name = x
  BY DEF Const, FlaggedIn
<1>3. \E v : Called(uvars, immut, callstack, Depth, v, x)
  BY <1>1, <1>2 DEF Supplied, Const
<1>4. \E v : v \in DOMAIN uvars /\ uvars[v].level = Depth /\ uvars[v].name = x
  BY <1>1, <1>3, CalledHere
<1> QED
  BY <1>4 DEF Exists, LookUp

\* What a step of Scopes is.
AbstractStep == [S!Next]_(S!vars)

\* Scopes takes Last from the same module.
LEMMA SameLast == \A s : S!Last(s) = Last(s)
BY DEF S!Last, Last

\* A new variable is a new name in the current scope.
LEMMA DefineScopes ==
  ASSUME RInv, IInv', "return" \notin Faults, NEW x \in Names, Define(x)
  PROVE  RInv' /\ AbstractStep
<1> DEFINE new == Fresh(uvars)
           K == DOMAIN uvars
<1>1. IInv /\ Depth \in Nat
  BY UvarsFacts DEF RInv
<1>2. /\ DOMAIN uvars' = K \cup {new} /\ new \notin K
      /\ uvars'[new].name = x /\ uvars'[new].level = Depth /\ uvars'[new].of = 0
      /\ \A v \in K : uvars'[v] = uvars[v]
  <2>1. uvars' = Add(uvars, x, Depth, 0, 0)
    BY DEF Define
  <2>2. DOMAIN uvars \subseteq Nat \ {0} /\ IsFiniteSet(DOMAIN uvars)
    BY <1>1, UvarsFacts
  <2>3. /\ DOMAIN uvars' = DOMAIN uvars \cup {new}
        /\ uvars'[new] = [name |-> x, level |-> Depth, val |-> 0, of |-> 0]
        /\ \A v \in DOMAIN uvars : uvars'[v] = uvars[v]
    BY <2>1, <2>2, AddFacts
  <2>4. new \notin DOMAIN uvars
    BY <2>2, FreshFacts
  <2> HIDE DEF new, Depth
  <2> QED
    BY <2>3, <2>4
<1>3. UNCHANGED <<immut, callstack>> /\ ~Exists(x)
  BY DEF Define
<1>4. \A v : v \notin K => \A j \in 1 .. Depth : v \notin Borrowed(LoansOf(immut, callstack)[j])
  BY <1>1, BorrowedFacts DEF IInv
<1> HIDE DEF new
<1>5. Stay(K)
  BY <1>2, <1>4 DEF Stay
<1>6. /\ \A v \in K : \A y : Called(uvars', immut, callstack, Depth, v, y)
                                <=> Called(uvars, immut, callstack, Depth, v, y)
      /\ \A v \in K : Cell(uvars', v) = Cell(uvars, v)
      /\ \A i \in 0 .. Depth : i < Depth =>
               SameLevel(uvars, immut, callstack, uvars', immut', callstack', i)
  BY <1>1, <1>3, <1>5, StayBelow
<1>7. /\ \A v, y : Called(uvars, immut, callstack, Depth, v, y) => v \in K
      /\ \A v, y : Called(uvars', immut, callstack, Depth, v, y) => v \in K \/ (v = new /\ y = x)
      /\ Called(uvars', immut, callstack, Depth, new, x)
  BY <1>1, <1>2, CalledHere
<1>8. Cell(uvars', new) = new /\ \A v \in K : Cell(uvars', v) # new
  <2>1. Cell(uvars', new) = new
    BY <1>2 DEF Cell
  <2>2. \A v \in K : Cell(uvars, v) \in K
    BY <1>1, CellFacts
  <2> QED
    BY <2>1, <2>2, <1>2, <1>6
<1>9. Supplied(uvars, immut, callstack, Depth) /\ Twins(uvars, immut, callstack, Depth)
  <2>1. Depth \in 0 .. Depth
    <3> HIDE DEF Depth
    <3> QED
      BY <1>1
  <2> QED
    BY <2>1 DEF RInv
<1>10. Supplied(uvars', immut, callstack, Depth)
  BY <1>6, <1>7, <1>9 DEF Supplied
<1>11. Twins(uvars', immut, callstack, Depth)
  <2> SUFFICES ASSUME NEW v, NEW w, NEW y, NEW z,
                      Called(uvars', immut, callstack, Depth, v, y),
                      Called(uvars', immut, callstack, Depth, w, z),
                      v # w, Cell(uvars', v) = Cell(uvars', w)
               PROVE  Const(immut, callstack, Depth, y) /\ Const(immut, callstack, Depth, z)
    BY DEF Twins
  <2>1. v \in K /\ w \in K
    BY <1>7, <1>8
  <2> QED
    BY <2>1, <1>6, <1>9 DEF Twins
<1>12. RInv'
  BY <1>3, <1>5, <1>10, <1>11, StayKept
<1>13. S!Callers(ScopesOf') = S!Callers(ScopesOf)
  BY <1>3, <1>6, <1>12, InFunction
<1> DEFINE top == Last(ScopesOf)
           next == Last(ScopesOf')
<1>14. IsScope(uvars, immut, callstack, Depth, top) /\ IsScope(uvars', immut, callstack, Depth, next)
  BY <1>3, <1>12, TopScopes
<1>15. ValuesAre
  BY ValuesFound
<1> HIDE DEF top, next, Depth, ValueOf, ScopesOf
<1>16. /\ \A y : y \in DOMAIN top <=> \E v : Called(uvars, immut, callstack, Depth, v, y)
       /\ \A y : y \in DOMAIN next <=> \E v : Called(uvars', immut, callstack, Depth, v, y)
       /\ \A v, y : Called(uvars, immut, callstack, Depth, v, y) =>
             top[y] = [cell |-> Cell(uvars, v), const |-> Const(immut, callstack, Depth, y)]
       /\ \A v, y : Called(uvars', immut, callstack, Depth, v, y) =>
             next[y] = [cell |-> Cell(uvars', v), const |-> Const(immut, callstack, Depth, y)]
  BY <1>14 DEF IsScope
<1>17. ~\E v : Called(uvars, immut, callstack, Depth, v, x)
  <2>1. \A v \in DOMAIN uvars : ~(uvars[v].level = Depth /\ uvars[v].name = x)
    BY <1>3, NoVarFacts
  <2> QED
    BY <2>1, <1>1, CalledHere
<1>18. DOMAIN next = DOMAIN top \cup {x} /\ x \notin DOMAIN top
  BY <1>6, <1>7, <1>16, <1>17
<1>19. ASSUME NEW y \in DOMAIN top PROVE next[y] = top[y]
  <2>1. PICK v \in K : Called(uvars, immut, callstack, Depth, v, y)
    BY <1>7, <1>16
  <2>2. Called(uvars', immut, callstack, Depth, v, y) /\ Cell(uvars', v) = Cell(uvars, v)
    BY <2>1, <1>6
  <2> QED
    BY <2>1, <2>2, <1>16
<1>20. next[x].cell = new /\ ~next[x].const
  <2>1. next[x] = [cell |-> new, const |-> Const(immut, callstack, Depth, x)]
    BY <1>7, <1>8, <1>16
  <2>2. ~Const(immut, callstack, Depth, x)
    BY <1>3, ConstExists
  <2> QED
    BY <2>1, <2>2
<1>21. new \notin DOMAIN ValueOf
  BY <1>2, <1>15 DEF ValuesAre
<1>22. S!Defines(top, next, DOMAIN ValueOf)
  BY <1>18, <1>19, <1>20, <1>21 DEF S!Defines
<1>23. S!Moves(ScopesOf, ScopesOf', DOMAIN ValueOf)
  BY <1>13, <1>22, SameLast DEF S!Moves, top, next
<1>24. \A c \in DOMAIN uvars : c \in DOMAIN uvars' /\ uvars[c].of = 0 => uvars'[c].val = uvars[c].val
  BY <1>2
<1>25. S!Move
  BY <1>12, <1>23, <1>24, MoveStep
<1> QED
  BY <1>12, <1>25 DEF AbstractStep, S!Next

\* A variable that is deleted is a name less.
LEMMA DeleteScopes ==
  ASSUME RInv, IInv', "return" \notin Faults, NEW x \in Names, Delete(x)
  PROVE  RInv' /\ AbstractStep
<1> DEFINE d == Var(x)
           K == DOMAIN uvars \ {d}
           G == LoansOf(immut, callstack)
<1>1. IInv /\ Depth \in Nat
  BY UvarsFacts DEF RInv
<1>2. /\ x \notin Series /\ Exists(x) /\ ~ObjectIsFunctionArg(x)
      /\ uvars' = Without(uvars, {d}) /\ UNCHANGED <<immut, callstack>>
  BY DEF Delete
<1>3. d \in DOMAIN uvars /\ uvars[d].name = x /\ uvars[d].level = Depth
  BY <1>1, <1>2, VarFacts
<1>4. DOMAIN uvars' = K /\ \A v \in K : uvars'[v] = uvars[v]
  <2> HIDE DEF d
  <2> QED
    BY <1>2 DEF Without
<1> HIDE DEF d
<1>5. Depth # 0 => d \notin Borrowed(G[Depth])
  <2> SUFFICES ASSUME Depth # 0, d \in Borrowed(G[Depth]) PROVE FALSE
    OBVIOUS
  <2>1. \E k \in DOMAIN Params[Last(callstack).fun] :
           uvars[d].name = Params[Last(callstack).fun][k].name
    BY <1>1, TopLoans
  <2>2. Depth > 0
    <3> HIDE DEF Depth
    <3> QED
      BY <1>1
  <2> QED
    BY <2>1, <2>2, <1>2, <1>3 DEF ObjectIsFunctionArg
<1>6. Sound(uvars, G, OrigsOf(callstack), Depth)
  BY <1>1 DEF IInv
<1>7. \A v : v \notin K => \A j \in 1 .. Depth : v \notin Borrowed(G[j])
  <2> HIDE DEF G, Depth
  <2> SUFFICES ASSUME NEW v, v \notin K, NEW j \in 1 .. Depth, v \in Borrowed(G[j]) PROVE FALSE
    OBVIOUS
  <2>1. v \in DOMAIN uvars /\ \A i \in j + 1 .. uvars[v].level : v \in Borrowed(G[i])
    BY <1>6, BorrowedFacts
  <2>2. v = d
    BY <2>1
  <2>3. CASE j = Depth
    BY <2>2, <2>3, <1>5, <1>1
  <2>4. CASE j # Depth
    <3>1. Depth \in j + 1 .. Depth /\ Depth # 0
      BY <2>4, <1>1
    <3> QED
      BY <3>1, <2>1, <2>2, <1>3, <1>5
  <2> QED
    BY <2>3, <2>4
<1>8. Stay(K)
  <2>1. K \subseteq DOMAIN uvars /\ K \subseteq DOMAIN uvars'
    BY <1>4
  <2> QED
    BY <2>1, <1>3, <1>4, <1>7 DEF Stay
<1>9. /\ \A v \in K : \A y : Called(uvars', immut, callstack, Depth, v, y)
                                <=> Called(uvars, immut, callstack, Depth, v, y)
      /\ \A v \in K : Cell(uvars', v) = Cell(uvars, v)
      /\ \A i \in 0 .. Depth : i < Depth =>
               SameLevel(uvars, immut, callstack, uvars', immut', callstack', i)
  BY <1>1, <1>2, <1>8, StayBelow
<1>10. /\ \A v, y : Called(uvars, immut, callstack, Depth, v, y) => v \in K \/ (v = d /\ y = x)
       /\ \A v, y : Called(uvars', immut, callstack, Depth, v, y) => v \in K
       /\ Called(uvars, immut, callstack, Depth, d, x)
  BY <1>1, <1>3, <1>4, CalledHere
<1>11. Supplied(uvars, immut, callstack, Depth) /\ Twins(uvars, immut, callstack, Depth)
  <2>1. Depth \in 0 .. Depth
    <3> HIDE DEF Depth
    <3> QED
      BY <1>1
  <2> QED
    BY <2>1 DEF RInv
<1>12. Supplied(uvars', immut, callstack, Depth)
  <2>1. Depth > 0 => \A k \in DOMAIN Params[callstack[Depth].fun] :
                        Params[callstack[Depth].fun][k].name # x
    <3>1. Last(callstack) = callstack[Depth]
      BY <1>1 DEF Last, Depth
    <3> QED
      BY <3>1, <1>2 DEF ObjectIsFunctionArg
  <2> HIDE DEF Depth
  <2> QED
    BY <2>1, <1>9, <1>10, <1>11 DEF Supplied
<1>13. Twins(uvars', immut, callstack, Depth)
  BY <1>9, <1>10, <1>11 DEF Twins
<1>14. RInv'
  BY <1>2, <1>8, <1>12, <1>13, StayKept
<1>15. S!Callers(ScopesOf') = S!Callers(ScopesOf)
  BY <1>2, <1>9, <1>14, InFunction
<1> DEFINE top == Last(ScopesOf)
           next == Last(ScopesOf')
<1>16. IsScope(uvars, immut, callstack, Depth, top) /\ IsScope(uvars', immut, callstack, Depth, next)
  BY <1>2, <1>14, TopScopes
<1> HIDE DEF top, next, Depth, ValueOf, ScopesOf
<1>17. /\ \A y : y \in DOMAIN top <=> \E v : Called(uvars, immut, callstack, Depth, v, y)
       /\ \A y : y \in DOMAIN next <=> \E v : Called(uvars', immut, callstack, Depth, v, y)
       /\ \A v, y : Called(uvars, immut, callstack, Depth, v, y) =>
             top[y] = [cell |-> Cell(uvars, v), const |-> Const(immut, callstack, Depth, y)]
       /\ \A v, y : Called(uvars', immut, callstack, Depth, v, y) =>
             next[y] = [cell |-> Cell(uvars', v), const |-> Const(immut, callstack, Depth, y)]
       /\ next = [y \in DOMAIN next |-> next[y]]
  BY <1>16 DEF IsScope
<1>18. \A v : Called(uvars, immut, callstack, Depth, v, x) => v = d
  <2>1. Depth \in 0 .. Depth
    BY <1>1
  <2>2. OneName(uvars, G, Depth) /\ Depth = Len(callstack)
    BY <1>1, CalledFacts
  <2> QED
    BY <2>1, <2>2, <1>10 DEF OneName, Called
<1>19. DOMAIN next = DOMAIN top \ {x} /\ x \in DOMAIN top
  <2>1. \A v \in K : ~Called(uvars, immut, callstack, Depth, v, x)
    BY <1>18
  <2>2. \A y : y \in DOMAIN next <=> y \in DOMAIN top /\ y # x
    BY <2>1, <1>9, <1>10, <1>17
  <2> QED
    BY <2>2, <1>10, <1>17
<1>20. ASSUME NEW y \in DOMAIN next PROVE next[y] = top[y]
  <2>1. PICK v \in K : Called(uvars', immut, callstack, Depth, v, y)
    BY <1>10, <1>17
  <2>2. Called(uvars, immut, callstack, Depth, v, y) /\ Cell(uvars', v) = Cell(uvars, v)
    BY <2>1, <1>9
  <2>3. next[y] = [cell |-> Cell(uvars', v), const |-> Const(immut, callstack, Depth, y)]
    BY <2>1, <1>17
  <2>4. top[y] = [cell |-> Cell(uvars, v), const |-> Const(immut, callstack, Depth, y)]
    BY <2>2, <1>17
  <2> QED
    BY <2>2, <2>3, <2>4
<1>21. next = [y \in DOMAIN top \ {x} |-> top[y]]
  BY <1>17, <1>19, <1>20
<1>22. S!Deletes(top, next)
  BY <1>19, <1>21 DEF S!Deletes
<1>23. S!Moves(ScopesOf, ScopesOf', DOMAIN ValueOf)
  BY <1>15, <1>22, SameLast DEF S!Moves, top, next
<1>24. \A c \in DOMAIN uvars : c \in DOMAIN uvars' /\ uvars[c].of = 0 => uvars'[c].val = uvars[c].val
  BY <1>4
<1>25. S!Move
  BY <1>14, <1>23, <1>24, MoveStep
<1> QED
  BY <1>14, <1>25 DEF AbstractStep, S!Next

\* An assignment leaves the scopes, and a name that is not constant gets a value.
LEMMA AssignScopes ==
  ASSUME RInv, IInv', "return" \notin Faults, NEW x \in Names, Assign(x)
  PROVE  RInv' /\ AbstractStep
<1> DEFINE c == Cell(uvars, Var(x))
           y == 1 - uvars[c].val
           K == DOMAIN uvars
<1>1. IInv /\ Depth \in Nat /\ Depth = Len(callstack)
  BY UvarsFacts DEF RInv
<1>2. /\ Exists(x) /\ ~ObjectIsConst(x, Var(x)) /\ uvars' = [uvars EXCEPT ![c].val = y]
      /\ UNCHANGED <<immut, callstack>> /\ uvars[c].val # Gone
  BY DEF Assign
<1>3. Var(x) \in DOMAIN uvars /\ uvars[Var(x)].name = x /\ uvars[Var(x)].level = Depth
  BY <1>1, <1>2, VarFacts
<1>4. c \in DOMAIN uvars /\ uvars[c].of = 0 /\ uvars[c].val \in 0 .. 2
  BY <1>1, <1>3, CellFacts
<1>5. y \in 0 .. 1 /\ y \in 0 .. 2
  BY <1>2, <1>4 DEF Gone
<1> HIDE DEF c, y
<1>6. /\ DOMAIN uvars' = K
      /\ \A v \in K : /\ uvars'[v].name = uvars[v].name /\ uvars'[v].level = uvars[v].level
                      /\ uvars'[v].of = uvars[v].of
                      /\ uvars'[v].val = IF v = c THEN y ELSE uvars[v].val
  BY <1>1, <1>2, <1>4, <1>5, ValueSet
<1>7. \A v : v \notin K => \A j \in 1 .. Depth : v \notin Borrowed(LoansOf(immut, callstack)[j])
  BY <1>1, BorrowedFacts DEF IInv
<1>8. Stay(K)
  BY <1>6, <1>7 DEF Stay
<1>9. /\ \A i : \A v \in K : \A z :
             Called(uvars', immut, callstack, i, v, z) <=> Called(uvars, immut, callstack, i, v, z)
      /\ \A v \in K : Cell(uvars', v) = Cell(uvars, v)
  BY <1>1, <1>2, <1>8, StayBelow
<1>10. \A i \in 0 .. Depth : SameLevel(uvars, immut, callstack, uvars', immut', callstack', i)
  <2>1. \A i, v, z : /\ Called(uvars, immut, callstack, i, v, z) => v \in K
                     /\ Called(uvars', immut, callstack, i, v, z) => v \in K
    BY <1>6 DEF Called, NamedAt
  <2>2. immut' = immut /\ callstack' = callstack
    BY <1>2
  <2> QED
    BY <2>1, <2>2, <1>9 DEF SameLevel
<1>11. Supplied(uvars', immut, callstack, Depth) /\ Twins(uvars', immut, callstack, Depth)
  <2>1. Depth \in 0 .. Depth
    <3> HIDE DEF Depth
    <3> QED
      BY <1>1
  <2>2. Supplied(uvars, immut, callstack, Depth) /\ Twins(uvars, immut, callstack, Depth)
    BY <2>1 DEF RInv
  <2>3. SameLevel(uvars, immut, callstack, uvars', immut', callstack', Depth)
    BY <2>1, <1>10
  <2>4. Supplied(uvars', immut', callstack', Depth) /\ Twins(uvars', immut', callstack', Depth)
    BY <2>2, <2>3, SameKept
  <2>5. immut' = immut /\ callstack' = callstack
    BY <1>2
  <2> QED
    BY <2>4, <2>5
<1>12. RInv'
  BY <1>2, <1>8, <1>11, StayKept
<1>13. ScopesOf' = ScopesOf
  <2>1. /\ Stack(ScopesOf, Depth) /\ Stack(ScopesOf', Len(callstack'))
    BY <1>12, ScopesStack, ScopesNext
  <2>2. Len(callstack') = Depth
    BY <1>1, <1>2
  <2>3. SameLevels(Depth)
    BY <1>10 DEF SameLevels
  <2> HIDE DEF Depth
  <2>4. Depth <= Len(callstack) /\ Depth <= Len(callstack')
    BY <2>2, <1>1
  <2>5. \A i \in 0 .. Depth : ScopesOf'[i + 1] = ScopesOf[i + 1]
    BY <2>3, <2>4, <1>1, <1>12, SameScopes
  <2>6. \A j \in 1 .. Depth + 1 : j - 1 \in 0 .. Depth /\ (j - 1) + 1 = j
    BY <1>1
  <2>7. \A j \in 1 .. Depth + 1 : ScopesOf'[j] = ScopesOf[j]
    BY <2>5, <2>6
  <2> QED
    BY <2>1, <2>2, <2>7 DEF Stack
<1> DEFINE top == Last(ScopesOf)
<1>14. IsScope(uvars, immut, callstack, Depth, top)
  BY <1>2, <1>12, TopScopes
<1>15. Called(uvars, immut, callstack, Depth, Var(x), x)
  BY <1>1, <1>3, CalledHere
<1>16. ~Const(immut, callstack, Depth, x)
  <2>1. Last(callstack) = callstack[Depth]
    BY <1>1 DEF Last, Depth
  <2> QED
    BY <2>1, <1>2 DEF Const, ObjectIsConst, Flagged
<1>17. ValuesAre
  BY ValuesFound
<1>18. ValuesAre'
  BY <1>12, ValuesFound, PTL
<1> HIDE DEF top, Depth, ValueOf, ScopesOf
<1>19. x \in DOMAIN top /\ top[x].cell = c /\ ~top[x].const
  <2>1. x \in DOMAIN top
    BY <1>14, <1>15 DEF IsScope
  <2>2. top[x] = [cell |-> c, const |-> Const(immut, callstack, Depth, x)]
    BY <1>14, <1>15 DEF IsScope, c
  <2> QED
    BY <2>1, <2>2, <1>16
<1>20. ValueOf' = [ValueOf EXCEPT ![c] = y]
  <2>1. DOMAIN ValueOf' = DOMAIN ValueOf
    <3>1. DOMAIN ValueOf = {Cell(uvars, v) : v \in K}
      BY <1>17 DEF ValuesAre
    <3>2. DOMAIN ValueOf' = {Cell(uvars', v) : v \in K}
      BY <1>6, <1>18 DEF ValuesAre
    <3> QED
      BY <3>1, <3>2, <1>9
  <2>2. /\ ValueOf = [d \in DOMAIN ValueOf |-> ValueOf[d]]
        /\ \A d \in DOMAIN ValueOf : ValueOf[d] = uvars[d].val
        /\ DOMAIN ValueOf \subseteq K
    BY <1>17 DEF ValuesAre
  <2>3. /\ ValueOf' = [d \in DOMAIN ValueOf' |-> ValueOf'[d]]
        /\ \A d \in DOMAIN ValueOf' : ValueOf'[d] = uvars'[d].val
    BY <1>18 DEF ValuesAre
  <2>4. \A d \in DOMAIN ValueOf : ValueOf'[d] = IF d = c THEN y ELSE ValueOf[d]
    BY <2>1, <2>2, <2>3, <1>6
  <2> HIDE DEF K
  <2> QED
    BY <2>1, <2>2, <2>3, <2>4
<1>21. S!Assigns(top)
  BY <1>5, <1>19, <1>20 DEF S!Assigns
<1>22. S!Assign
  BY <1>13, <1>21, SameLast DEF S!Assign, top
<1> QED
  BY <1>12, <1>22 DEF AbstractStep, S!Next

\* What is lent at a level is that of the record of the call.
LEMMA LentFacts ==
  ASSUME IInv, NEW i \in 1 .. Depth, NEW v, v \in Borrowed(LoansOf(immut, callstack)[i])
  PROVE  /\ v \in DOMAIN uvars /\ i <= uvars[v].level /\ uvars[v].level \in 0 .. Depth
         /\ uvars[v].level = Depth => v \in Borrowed(LoansOf(immut, callstack)[Depth])
<1> DEFINE G == LoansOf(immut, callstack)
<1>1. Sound(uvars, G, OrigsOf(callstack), Depth) /\ Depth \in Nat
  BY UvarsFacts DEF IInv
<1> HIDE DEF G, Depth
<1>2. /\ v \in DOMAIN uvars /\ i <= uvars[v].level /\ uvars[v].level \in 0 .. Depth
      /\ \A j \in i + 1 .. uvars[v].level : v \in Borrowed(G[j])
  BY <1>1, BorrowedFacts DEF G
<1>3. ASSUME uvars[v].level = Depth PROVE v \in Borrowed(G[Depth])
  <2>1. CASE i = Depth
    BY <2>1 DEF G
  <2>2. CASE i # Depth
    <3>1. Depth \in i + 1 .. uvars[v].level
      BY <1>1, <1>2, <1>3, <2>2
    <3> QED
      BY <3>1, <1>2
  <2> QED
    BY <2>1, <2>2
<1> QED
  BY <1>2, <1>3 DEF G

\* What goes back is known at the caller's level by the name it was lent under.
LEMMA ReturnedCalled ==
  ASSUME IInv, Depth # 0, NEW V, Returned(V), NEW s, s = Front(callstack),
         NEW imm, imm = Settled(immut, s), NEW i, i \in 0 .. Depth - 1, NEW v, NEW x
  PROVE  Called(V, imm, s, i, v, x) <=> Called(uvars, immut, callstack, i, v, x)
<1> DEFINE G == LoansOf(immut, callstack)
           n == Depth - 1
<1>1. /\ Len(s) = n /\ n \in Nat /\ Depth = n + 1 /\ Depth \in Nat
      /\ \A j \in 1 .. n : LoansOf(imm, s)[j] = G[j]
  <2>1. Len(s) = Depth - 1 /\ Len(s) \in Nat /\ \A j \in 1 .. Len(s) : LoansOf(imm, s)[j] = G[j]
    BY FrontFacts
  <2>2. Depth \in Nat
    BY UvarsFacts
  <2> HIDE DEF Depth, G
  <2> QED
    BY <2>1, <2>2
<1>2. /\ DOMAIN V = {w \in DOMAIN uvars : uvars[w].level # Depth \/ w \in Borrowed(G[Depth])}
      /\ \A w \in DOMAIN V : w \notin Borrowed(G[Depth]) =>
            V[w].level = uvars[w].level /\ V[w].name = uvars[w].name
      /\ \A l \in G[Depth] : V[l.var].level = n /\ V[l.var].name = l.up
  BY DEF Returned
<1>3. \A j \in 1 .. Depth : \A w \in Borrowed(G[j]) :
         /\ w \in DOMAIN uvars /\ j <= uvars[w].level /\ uvars[w].level \in 0 .. Depth
         /\ uvars[w].level = Depth => w \in Borrowed(G[Depth])
  BY LentFacts
<1>4. Called(uvars, immut, callstack, i, v, x) <=>
            /\ v \in DOMAIN uvars
            /\ \/ uvars[v].level = i /\ uvars[v].name = x
               \/ i < Depth /\ \E l \in G[i + 1] : l.var = v /\ l.up = x
  BY CalledIs
<1>5. Called(V, imm, s, i, v, x) <=>
            /\ v \in DOMAIN V
            /\ \/ V[v].level = i /\ V[v].name = x
               \/ i < n /\ \E l \in LoansOf(imm, s)[i + 1] : l.var = v /\ l.up = x
  BY <1>1 DEF Called, NamedAt, IsCalled
<1> HIDE DEF G, n, Depth
<1>6. i \in 0 .. n /\ i + 1 \in 1 .. Depth /\ i < Depth /\ i # Depth
  BY <1>1
<1>7. Depth \in 1 .. Depth
  BY <1>1
<1>8. \A w \in Borrowed(G[Depth]) : \E l \in G[Depth] : l.var = w
  BY DEF Borrowed
<1>9. \A j : \A l \in G[j] : l.var \in Borrowed(G[j])
  BY DEF Borrowed
<1>10. CASE i = n
  <2>1. ASSUME Called(V, imm, s, i, v, x) PROVE Called(uvars, immut, callstack, i, v, x)
    <3>1. v \in DOMAIN V /\ V[v].level = n /\ V[v].name = x
      BY <1>5, <1>10, <1>1, <2>1
    <3>2. CASE v \in Borrowed(G[Depth])
      <4>1. PICK l \in G[Depth] : l.var = v
        BY <3>2, <1>8
      <4>2. l.up = x
        BY <4>1, <3>1, <1>2
      <4>3. l \in G[i + 1] /\ v \in DOMAIN uvars
        BY <4>1, <1>1, <1>10, <3>1, <1>2
      <4> QED
        BY <4>1, <4>2, <4>3, <1>4, <1>6
    <3>3. CASE v \notin Borrowed(G[Depth])
      BY <3>1, <3>3, <1>2, <1>4, <1>10
    <3> QED
      BY <3>2, <3>3
  <2>2. ASSUME Called(uvars, immut, callstack, i, v, x) PROVE Called(V, imm, s, i, v, x)
    <3>1. CASE uvars[v].level = i /\ uvars[v].name = x
      <4>1. v \in DOMAIN uvars
        BY <1>4, <2>2
      <4>2. v \notin Borrowed(G[Depth])
        <5> SUFFICES ASSUME v \in Borrowed(G[Depth]) PROVE FALSE
          OBVIOUS
        <5>1. Depth <= uvars[v].level
          BY <1>3, <1>7
        <5> QED
          BY <5>1, <3>1, <1>6, <1>1
      <4> QED
        BY <4>1, <4>2, <3>1, <1>2, <1>5, <1>6
    <3>2. CASE \E l \in G[i + 1] : l.var = v /\ l.up = x
      <4>1. PICK l \in G[Depth] : l.var = v /\ l.up = x
        BY <3>2, <1>1, <1>10
      <4>2. v \in Borrowed(G[Depth]) /\ v \in DOMAIN uvars
        BY <4>1, <1>9, <1>4, <2>2
      <4> QED
        BY <4>1, <4>2, <1>2, <1>5, <1>10
    <3> QED
      BY <3>1, <3>2, <2>2, <1>4
  <2> QED
    BY <2>1, <2>2
<1>11. CASE i # n
  <2>1. i < n /\ i + 1 \in 1 .. n /\ LoansOf(imm, s)[i + 1] = G[i + 1]
    BY <1>1, <1>6, <1>11
  <2>2. \A w \in Borrowed(G[Depth]) : w \in DOMAIN V => V[w].level = n
    BY <1>2, <1>8
  <2>3. v \in DOMAIN uvars /\ uvars[v].level = i /\ uvars[v].name = x
           <=> v \in DOMAIN V /\ V[v].level = i /\ V[v].name = x
    <3>1. v \in DOMAIN uvars /\ uvars[v].level = i => v \notin Borrowed(G[Depth]) /\ v \in DOMAIN V
      <4> SUFFICES ASSUME v \in DOMAIN uvars, uvars[v].level = i
                   PROVE  v \notin Borrowed(G[Depth]) /\ v \in DOMAIN V
        OBVIOUS
      <4>1. v \in DOMAIN V
        BY <1>2, <1>6
      <4>2. v \in Borrowed(G[Depth]) => Depth <= uvars[v].level
        BY <1>3, <1>7
      <4> QED
        BY <4>1, <4>2, <1>1, <1>6
    <3>2. v \in DOMAIN V /\ V[v].level = i => v \notin Borrowed(G[Depth]) /\ v \in DOMAIN uvars
      BY <2>2, <1>2, <1>11
    <3> QED
      BY <3>1, <3>2, <1>2
  <2>4. (\E l \in G[i + 1] : l.var = v /\ l.up = x) => v \in DOMAIN V /\ v \in DOMAIN uvars
    <3> SUFFICES ASSUME NEW l \in G[i + 1], l.var = v PROVE v \in DOMAIN V /\ v \in DOMAIN uvars
      OBVIOUS
    <3>1. v \in Borrowed(G[i + 1])
      BY <1>9
    <3> QED
      BY <3>1, <1>2, <1>3, <1>6
  <2> QED
    BY <2>1, <2>3, <2>4, <1>4, <1>5, <1>6
<1> QED
  BY <1>10, <1>11

\* Leaving a function leaves the scopes of its callers.
LEMMA ReturnScopes ==
  ASSUME RInv, IInv', "return" \notin Faults, NEW x \in Names \cup {None}, Return(x)
  PROVE  RInv' /\ AbstractStep
<1> DEFINE s == Front(callstack)
           imm == Settled(immut, s)
<1>1. /\ IInv /\ \A i \in 1 .. Depth : Pointers(immut, callstack[i])
      /\ \A i \in 0 .. Depth :
            Supplied(uvars, immut, callstack, i) /\ Twins(uvars, immut, callstack, i)
  BY DEF RInv
<1>2. /\ Depth # 0 /\ callstack' = s /\ immut' = imm
      /\ DOMAIN uvars' \subseteq DOMAIN uvars
      /\ \A w \in DOMAIN uvars' : uvars'[w].val = uvars[w].val
      /\ Returned(uvars')
  BY <1>1, ReturnFacts
<1>3. /\ Len(s) = Depth - 1 /\ Len(s) \in Nat
      /\ \A i \in 1 .. Len(s) : s[i] = callstack[i] /\ i \in 1 .. Depth /\ s[i] \in Frame
      /\ \A i \in 1 .. Len(s) : imm[s[i].fun] = immut[s[i].fun]
  BY <1>1, <1>2, FrontFacts
<1>4. s = Front(callstack) /\ imm = Settled(immut, s)
  OBVIOUS
<1> HIDE DEF s, imm
<1>5. ASSUME NEW i, i \in 0 .. Depth - 1
      PROVE  SameLevel(uvars, immut, callstack, uvars', immut', callstack', i)
  <2>1. \A v, y : Called(uvars', imm, s, i, v, y) <=> Called(uvars, immut, callstack, i, v, y)
    BY <1>1, <1>2, <1>4, <1>5, ReturnedCalled
  <2>2. ASSUME NEW v, NEW y, Called(uvars, immut, callstack, i, v, y)
        PROVE  Cell(uvars', v) = Cell(uvars, v)
    <3>1. v \in DOMAIN uvars'
      BY <2>1, <2>2 DEF Called, NamedAt
    <3>2. uvars'[v].of = uvars[v].of
      BY <3>1, <1>2 DEF Returned
    <3> QED
      BY <3>2 DEF Cell
  <2>3. i > 0 => s[i] = callstack[i] /\ imm[s[i].fun] = immut[s[i].fun]
    <3>1. Depth - 1 \in Nat /\ Len(s) = Depth - 1
      BY <1>3
    <3> HIDE DEF Depth
    <3>2. i > 0 => i \in 1 .. Len(s)
      BY <3>1, <1>5
    <3> QED
      BY <3>2, <1>3
  <2>4. \A y : Const(imm, s, i, y) <=> Const(immut, callstack, i, y)
    BY <2>3 DEF Const, FlaggedIn
  <2>5. i > 0 => s[i].fun = callstack[i].fun
    BY <2>3
  <2> QED
    BY <2>1, <2>2, <2>4, <2>5, <1>2 DEF SameLevel
<1>6. Depth' = Depth - 1 /\ Len(callstack') = Depth - 1 /\ Depth \in Nat
  <2>1. Depth' = Len(callstack')
    BY DEF Depth
  <2> QED
    BY <2>1, <1>1, <1>2, <1>3, UvarsFacts
<1>7. RInv'
  <2>1. ASSUME NEW i \in 1 .. Depth' PROVE Pointers(immut', callstack'[i])
    <3>1. i \in 1 .. Len(s)
      BY <1>3, <1>6
    <3>2. s[i] = callstack[i] /\ i \in 1 .. Depth /\ imm[s[i].fun] = immut[s[i].fun]
      BY <3>1, <1>3
    <3>3. Pointers(immut, s[i])
      BY <3>2, <1>1
    <3>4. \A k : Back(imm, s[i], k) <=> Back(immut, s[i], k)
      BY <3>2, LoansSame
    <3> QED
      BY <3>3, <3>4, <1>2 DEF Pointers
  <2>2. ASSUME NEW i \in 0 .. Depth'
        PROVE  Supplied(uvars', immut', callstack', i) /\ Twins(uvars', immut', callstack', i)
    <3>1. i \in 0 .. Depth - 1
      BY <1>6
    <3>2. i \in 0 .. Depth
      <4>1. Depth \in Nat /\ Depth - 1 \in Nat
        BY <1>3, <1>6
      <4> HIDE DEF Depth
      <4> QED
        BY <3>1, <4>1
    <3>3. SameLevel(uvars, immut, callstack, uvars', immut', callstack', i)
      BY <3>1, <1>5
    <3>4. Supplied(uvars, immut, callstack, i) /\ Twins(uvars, immut, callstack, i)
      BY <3>2, <1>1
    <3> QED
      BY <3>3, <3>4, SameKept
  <2> QED
    BY <2>1, <2>2 DEF RInv
<1>8. SameLevels(Depth - 1)
  BY <1>5 DEF SameLevels
<1>9. ScopesOf' = S!Callers(ScopesOf) /\ ScopesOf' # << >>
  BY <1>2, <1>6, <1>7, <1>8, OutOfFunction
<1> HIDE DEF ScopesOf, ValueOf, Depth
<1>10. S!Moves(ScopesOf, ScopesOf', DOMAIN ValueOf)
  BY <1>9 DEF S!Moves
<1>11. S!Move
  BY <1>2, <1>7, <1>10, MoveStep
<1> QED
  BY <1>7, <1>11 DEF AbstractStep, S!Next

-----------------------------------------------------------------------------
(***************************************************************************)
(* A call: the scope of the function                                       *)
(***************************************************************************)

\* A loan to the call is an argument of it.
LEMMA LentGiven ==
  ASSUME NEW f \in Funs, NEW a \in Args(f), NEW F, NEW U, NEW A, NEW P,
         PassedSome(f, a, F, Len(a), U, A, P), NEW l \in LentTo(f, F, A, P)
  PROVE  \E k \in 1 .. Len(a) :
            a[k] # None /\ Exists(a[k]) /\ l.var = Var(a[k]) /\ l.up = a[k]
<1> DEFINE c == FrameOf(f, A, P)
<1>1. A \in Seq(Argument) /\ Len(A) = Len(a)
  BY DEF PassedSome
<1>2. DOMAIN A = 1 .. Len(a)
  BY <1>1
<1>3. c.fun = f /\ c.args = A
  BY DEF FrameOf
<1> HIDE DEF c
<1>4. PICK k \in DOMAIN A : Back(F, c, k) /\ l = LoanOf(c, k)
  BY <1>3 DEF Loans, LentTo, c
<1>5. l.var = A[k].var /\ l.up = A[k].upname /\ k \in 1 .. Len(a)
  BY <1>2, <1>3, <1>4 DEF LoanOf
<1>6. Remembered(f, a, F, k, A)
  BY <1>5 DEF PassedSome
<1>7. IF ByRef(f, k) \/ A[k].upname \notin Series THEN ByRef(f, k) \/ A[k].shifted ELSE F[f][k]
  BY <1>3, <1>4 DEF Back
<1>8. a[k] # None
  <2> SUFFICES ASSUME a[k] = None PROVE FALSE
    OBVIOUS
  <2>1. A[k] = NoArg
    BY <1>6 DEF Remembered
  <2>2. A[k].upname = None /\ A[k].shifted = FALSE
    BY <2>1 DEF NoArg
  <2>3. ~ByRef(f, k)
    BY <1>5, ArgsFacts
  <2> QED
    BY <1>7, <2>2, <2>3, ConstantFacts
<1>9. Exists(a[k])
  BY <1>5, <1>8, ArgsFacts
<1> QED
  BY <1>5, <1>6, <1>8, <1>9 DEF Remembered

\* The series that the call has moved are those it lists.
LEMMA CallPointers ==
  ASSUME IInv, NEW f \in Funs, NEW a \in Args(f), NEW F, NEW U, NEW A, NEW P,
         PassedSome(f, a, F, Len(a), U, A, P)
  PROVE  Pointers(F, FrameOf(f, A, P))
<1> DEFINE c == FrameOf(f, A, P)
           n == Len(a)
           Given1(k) == a[k] \in Series /\ A[k].var = Var(a[k]) /\ A[k].upname = a[k]
<1>1. A \in Seq(Argument) /\ Len(A) = n /\ \A i \in 1 .. n : Remembered(f, a, F, i, A)
  BY DEF PassedSome
<1>2. DOMAIN A = 1 .. n
  BY <1>1
<1>3. c.fun = f /\ c.args = A /\ c.ptrvars = P
  BY DEF FrameOf
<1>4. \A v : v \in P <=> \E m \in 1 .. n : a[m] \in Series /\ (F[f][m] \/ ByRef(f, m)) /\ v = Var(a[m])
  BY DEF PassedSome, Bindings, SeriesMoved
<1>5. \A k \in 1 .. n : A[k].upname \in Series => Given1(k)
  <2> SUFFICES ASSUME NEW k \in 1 .. n, A[k].upname \in Series PROVE Given1(k)
    OBVIOUS
  <2>1. Remembered(f, a, F, k, A)
    BY <1>1
  <2>2. CASE a[k] = None
    <3>1. A[k] = NoArg
      BY <2>1, <2>2 DEF Remembered
    <3>2. A[k].upname = None
      BY <3>1 DEF NoArg
    <3> QED
      BY <3>2, ConstantFacts
  <2>3. CASE a[k] # None
    BY <2>1, <2>3 DEF Remembered
  <2> QED
    BY <2>2, <2>3
<1>6. \A k \in 1 .. n : a[k] \in Series =>
         /\ A[k].var = Var(a[k]) /\ A[k].upname = a[k]
         /\ Exists(a[k])
         /\ Back(F, c, k) <=> F[f][k] \/ ByRef(f, k)
  <2> SUFFICES ASSUME NEW k \in 1 .. n, a[k] \in Series
               PROVE  /\ A[k].var = Var(a[k]) /\ A[k].upname = a[k]
                      /\ Exists(a[k])
                      /\ Back(F, c, k) <=> F[f][k] \/ ByRef(f, k)
    OBVIOUS
  <2>1. a[k] # None
    BY ConstantFacts
  <2>2. Remembered(f, a, F, k, A)
    BY <1>1
  <2>3. A[k].var = Var(a[k]) /\ A[k].upname = a[k]
    BY <2>1, <2>2 DEF Remembered
  <2>4. Back(F, c, k) <=> IF ByRef(f, k) \/ A[k].upname \notin Series THEN ByRef(f, k) \/ A[k].shifted
                          ELSE F[f][k]
    BY <1>3 DEF Back
  <2>5. Exists(a[k])
    BY <2>1, ArgsFacts
  <2> QED
    BY <2>3, <2>4, <2>5
<1> HIDE DEF c, n
<1>7. ASSUME NEW k \in DOMAIN c.args, c.args[k].upname \in Series
      PROVE  /\ Back(F, c, k) => c.args[k].var \in c.ptrvars
             /\ c.args[k].var \in c.ptrvars =>
                  \E j \in DOMAIN c.args : /\ Back(F, c, j) /\ c.args[j].var = c.args[k].var
                                           /\ c.args[j].upname = c.args[k].upname
  <2>1. k \in 1 .. n /\ Given1(k)
    BY <1>2, <1>3, <1>5, <1>7
  <2>2. Back(F, c, k) => A[k].var \in P
    BY <2>1, <1>4, <1>6
  <2>3. ASSUME A[k].var \in P
        PROVE  \E j \in 1 .. n : Back(F, c, j) /\ A[j].var = A[k].var /\ A[j].upname = A[k].upname
    <3>1. PICK m \in 1 .. n : a[m] \in Series /\ (F[f][m] \/ ByRef(f, m)) /\ A[k].var = Var(a[m])
      BY <2>3, <1>4
    <3>2. Exists(a[m]) /\ Exists(a[k]) /\ Var(a[m]) = Var(a[k])
      BY <3>1, <2>1, <1>6
    <3>3. a[m] = a[k]
      BY <3>2, VarFacts
    <3> QED
      BY <3>1, <3>3, <2>1, <1>6
  <2> QED
    BY <2>2, <2>3, <1>2, <1>3
<1> QED
  BY <1>7 DEF Pointers, c

\* The variable of a parameter.
LEMMA CallBinds ==
  ASSUME NEW f \in Funs, NEW a \in Args(f), NEW F, NEW U, NEW A, NEW P,
         PassedSome(f, a, F, Len(a), U, A, P), Depth \in Nat,
         NEW w \in DOMAIN U, U[w].level = Depth + 1
  PROVE  \E i \in 1 .. Len(a) : Binds(f, a, F, i, U, w) /\ U[w].name = Params[f][i].name
<1> DEFINE n == Depth + 1
           G == GWith(LentTo(f, F, A, P))
<1>1. PICK i \in 1 .. Len(a) : U[w].name = Params[f][i].name
  BY DEF PassedSome
<1>2. PICK u \in DOMAIN U : Binds(f, a, F, i, U, u)
  BY DEF PassedSome, Bindings
<1>3. U[u].level = n /\ U[u].name = U[w].name
  BY <1>1, <1>2 DEF Binds
<1>4. U[w].name \in Names
  BY <1>1, ParamFacts, ArgsFacts
<1>5. n \in 0 .. n /\ Named(U, G, n)
  BY DEF PassedSome, Sound
<1>6. IsCalled(U, G, n, n, u, U[w].name) /\ IsCalled(U, G, n, n, w, U[w].name)
  BY <1>3 DEF IsCalled
<1> HIDE DEF n, G
<1>7. u = w
  BY <1>4, <1>5, <1>6 DEF Named
<1> QED
  BY <1>1, <1>2, <1>7

\* It has a cell of its own, or that of the argument.
OwnCell(U, w) == w \notin DOMAIN uvars /\ Cell(U, w) = w

LentCell(f, a, F, i, U, w) ==
    /\ a[i] # None /\ Exists(a[i]) /\ (F[f][i] \/ ByRef(f, i))
    /\ Cell(U, w) = Cell(uvars, Var(a[i])) /\ Cell(U, w) \in DOMAIN uvars

LEMMA BoundCell ==
  ASSUME IInv, NEW f \in Funs, NEW a \in Args(f), NEW F, NEW U, NEW i \in 1 .. Len(a), NEW w,
         Binds(f, a, F, i, U, w), \A v \in DOMAIN uvars : U[v].of = uvars[v].of
  PROVE  OwnCell(U, w) \/ LentCell(f, a, F, i, U, w)
<1>1. CASE w \notin DOMAIN uvars /\ U[w].of = 0
  BY <1>1 DEF OwnCell, Cell
<1>2. CASE /\ a[i] # None /\ (F[f][i] \/ ByRef(f, i))
           /\ w = Var(a[i]) \/ U[w].of = Cell(uvars, Var(a[i]))
  <2>1. Exists(a[i])
    BY <1>2, ArgsFacts
  <2> DEFINE v == Var(a[i])
  <2>2. v \in DOMAIN uvars
    BY <2>1, VarFacts
  <2> HIDE DEF v
  <2>3. Cell(uvars, v) \in DOMAIN uvars /\ Cell(uvars, v) # 0
    BY <2>2, CellFacts, UvarsFacts
  <2>4. CASE w = v
    <3>1. Cell(U, w) = Cell(uvars, v)
      BY <2>2, <2>4 DEF Cell
    <3> QED
      BY <3>1, <2>1, <2>3, <1>2 DEF LentCell, v
  <2>5. CASE U[w].of = Cell(uvars, v)
    <3>1. Cell(U, w) = Cell(uvars, v)
      BY <2>3, <2>5 DEF Cell
    <3> QED
      BY <3>1, <2>1, <2>3, <1>2 DEF LentCell, v
  <2> QED
    BY <2>4, <2>5, <1>2 DEF v
<1> QED
  BY <1>1, <1>2 DEF Binds

\* What is lent to each level after the call.
LEMMA CallLoans ==
  ASSUME IInv, "shared" \notin Faults, NEW f \in Funs, NEW a \in Args(f),
         NEW F, NEW U, NEW A, NEW P, CallLeft(f, a, F, U, A, P)
  PROVE  /\ Len(callstack') = Depth + 1 /\ callstack'[Depth + 1] = FrameOf(f, A, P)
         /\ \A i \in 1 .. Depth : /\ callstack'[i] = callstack[i]
                                  /\ F[callstack[i].fun] = immut[callstack[i].fun]
                                  /\ LoansOf(F, callstack')[i] = LoansOf(immut, callstack)[i]
         /\ LoansOf(F, callstack')[Depth + 1] = LentTo(f, F, A, P)
<1> DEFINE c == FrameOf(f, A, P)
           s == callstack'
           n == Depth + 1
<1>1. /\ A \in Seq(Argument) /\ P \subseteq Nat /\ s = Append(callstack, c)
      /\ Shares(f, F) /\ \A g \in Funs : g # f => F[g] = immut[g]
  BY DEF CallLeft, PassedSome
<1>2. c \in Frame
  BY <1>1, UvarsFacts DEF FrameOf, Frame
<1>3. Depth \in Nat /\ Depth = Len(callstack)
  BY UvarsFacts
<1> HIDE DEF c, s
<1>4. Pushed(s, c)
  BY <1>1, <1>2, PushFacts
<1>5. \A i \in 1 .. Depth : F[callstack[i].fun] = immut[callstack[i].fun]
  BY <1>1, FlagsStay
<1> HIDE DEF Depth
<1>6. /\ Len(s) = n /\ s[n] = c /\ n \in 1 .. n
      /\ \A i \in 1 .. Depth : s[i] = callstack[i] /\ i \in 1 .. n
  BY <1>3, <1>4 DEF Pushed
<1>7. \A i \in 1 .. n : LoansOf(F, s)[i] = Loans(F, s[i])
  BY <1>6 DEF LoansOf
<1>8. \A i \in 1 .. Depth : LoansOf(immut, callstack)[i] = Loans(immut, callstack[i])
  BY <1>3 DEF LoansOf
<1>9. \A i \in 1 .. Depth : Loans(F, callstack[i]) = Loans(immut, callstack[i])
  BY <1>5, LoansSame
<1>10. LoansOf(F, s)[n] = LentTo(f, F, A, P)
  BY <1>6, <1>7 DEF LentTo, c
<1> QED
  BY <1>5, <1>6, <1>7, <1>8, <1>9, <1>10 DEF c, s

\* What was lent before is at the level it was lent to, or above.
LEMMA LentBefore ==
  ASSUME IInv, NEW i \in 1 .. Depth, NEW l, l \in LoansOf(immut, callstack)[i]
  PROVE  l.var \in DOMAIN uvars
BY LentFacts DEF Borrowed

\* The levels of the callers are as they were.
LEMMA CallSame ==
  ASSUME IInv, "shared" \notin Faults, NEW f \in Funs, NEW a \in Args(f),
         NEW F, NEW U, NEW A, NEW P, CallLeft(f, a, F, U, A, P)
  PROVE  SameLevels(Depth)
<1> DEFINE s == callstack'
           n == Depth + 1
           G == LoansOf(immut, callstack)
           H == LoansOf(F, s)
           L == LentTo(f, F, A, P)
<1>1. /\ Len(s) = n
      /\ \A i \in 1 .. Depth : s[i] = callstack[i] /\ F[callstack[i].fun] = immut[callstack[i].fun]
                               /\ H[i] = G[i]
      /\ H[n] = L
  BY CallLoans
<1>2. /\ Sound(U, GWith(L), OWith, n)
      /\ \A v \in DOMAIN uvars : /\ v \in DOMAIN U /\ U[v].of = uvars[v].of
                                 /\ (U[v] = uvars[v] \/ v \in Borrowed(L))
      /\ \A w \in DOMAIN U : w \notin DOMAIN uvars => U[w].level = n
  BY DEF CallLeft, PassedSome, Bindings
<1>3. uvars' = U /\ immut' = F
  BY DEF CallLeft
<1>4. n \in Nat /\ n \in 1 .. n /\ GWith(L)[n] = L /\ Depth \in Nat
  BY DepthFacts
<1>5. \A v \in Borrowed(L) : n <= U[v].level
  <2> DEFINE K == GWith(L)
  <2>1. Sound(U, K, OWith, n) /\ K[n] = L
    BY <1>2, <1>4
  <2> HIDE DEF K, L, n
  <2> QED
    BY <2>1, <1>4, BorrowedFacts
<1>6. \A l \in L : \E k \in 1 .. Len(a) :
         a[k] # None /\ Exists(a[k]) /\ l.var = Var(a[k]) /\ l.up = a[k]
  BY LentGiven DEF CallLeft
<1>7. \A l \in L : l.var \in DOMAIN uvars /\ uvars[l.var].level = Depth /\ uvars[l.var].name = l.up
  BY <1>6, VarFacts
<1>8. \A v \in Borrowed(L) : \E l \in L : l.var = v
  BY DEF Borrowed
<1>9. \A l \in L : l.var \in Borrowed(L)
  BY DEF Borrowed
<1>10. \A i, v, x : Called(uvars, immut, callstack, i, v, x) <=>
            /\ v \in DOMAIN uvars
            /\ \/ uvars[v].level = i /\ uvars[v].name = x
               \/ i < Depth /\ \E l \in G[i + 1] : l.var = v /\ l.up = x
  BY CalledIs
<1>11. \A i, v, x : Called(U, F, s, i, v, x) <=>
            /\ v \in DOMAIN U
            /\ \/ U[v].level = i /\ U[v].name = x
               \/ i < n /\ \E l \in H[i + 1] : l.var = v /\ l.up = x
  BY <1>1 DEF Called, NamedAt, IsCalled
<1>12. \A i \in 1 .. Depth : \A l \in G[i] : l.var \in DOMAIN uvars
  BY LentBefore
<1> HIDE DEF s, G, H, L, Depth
<1>13. ASSUME NEW i \in 0 .. Depth, NEW v, NEW x
       PROVE  Called(U, F, s, i, v, x) <=> Called(uvars, immut, callstack, i, v, x)
  <2>1. i < n /\ i # n /\ ~(n <= i)
    BY <1>4
  <2>2. CASE i = Depth
    <3>1. H[i + 1] = L /\ ~(i < Depth)
      BY <2>2, <1>1, <1>4
    <3>2. CASE v \in DOMAIN uvars /\ v \notin Borrowed(L)
      <4>1. U[v] = uvars[v] /\ v \in DOMAIN U
        BY <3>2, <1>2
      <4>2. ~ \E l \in L : l.var = v
        BY <3>2, <1>9
      <4> QED
        BY <2>1, <3>1, <4>1, <4>2, <3>2, <1>10, <1>11
    <3>3. CASE v \in Borrowed(L)
      <4>1. PICK l \in L : l.var = v
        BY <3>3, <1>8
      <4>2. v \in DOMAIN uvars /\ uvars[v].level = i /\ uvars[v].name = l.up /\ v \in DOMAIN U
        BY <4>1, <2>2, <1>7, <1>2
      <4>3. \A m \in L : m.var = v => uvars[v].name = m.up
        BY <1>7
      <4>4. ~(U[v].level = i)
        BY <3>3, <1>5, <2>1
      <4>5. Called(uvars, immut, callstack, i, v, x) <=> uvars[v].name = x
        BY <4>2, <3>1, <1>10
      <4>6. Called(U, F, s, i, v, x) <=> \E m \in L : m.var = v /\ m.up = x
        BY <4>2, <4>4, <2>1, <3>1, <1>11
      <4> QED
        BY <4>1, <4>2, <4>3, <4>5, <4>6
    <3>4. CASE v \notin DOMAIN uvars
      <4>1. ~ \E l \in L : l.var = v
        BY <3>4, <1>7
      <4>2. v \in DOMAIN U => U[v].level = n
        BY <3>4, <1>2
      <4> QED
        BY <2>1, <3>1, <3>4, <4>1, <4>2, <1>10, <1>11
    <3> QED
      BY <3>2, <3>3, <3>4
  <2>3. CASE i # Depth
    <3>1. i + 1 \in 1 .. Depth /\ i < Depth
      BY <2>3, <1>4
    <3>2. H[i + 1] = G[i + 1]
      BY <3>1, <1>1
    <3>3. CASE v \in DOMAIN uvars /\ v \notin Borrowed(L)
      <4>1. U[v] = uvars[v] /\ v \in DOMAIN U
        BY <3>3, <1>2
      <4> QED
        BY <2>1, <3>1, <3>2, <3>3, <4>1, <1>10, <1>11
    <3>4. CASE v \in Borrowed(L)
      <4>1. PICK l \in L : l.var = v
        BY <3>4, <1>8
      <4>2. v \in DOMAIN uvars /\ uvars[v].level # i /\ v \in DOMAIN U
        BY <4>1, <2>3, <1>7, <1>2
      <4>3. ~(U[v].level = i)
        BY <3>4, <1>5, <2>1
      <4> QED
        BY <2>1, <3>1, <3>2, <4>2, <4>3, <1>10, <1>11
    <3>5. CASE v \notin DOMAIN uvars
      <4>1. ~ \E l \in G[i + 1] : l.var = v
        BY <3>1, <3>5, <1>12
      <4>2. v \in DOMAIN U => U[v].level = n
        BY <3>5, <1>2
      <4> QED
        BY <2>1, <3>1, <3>2, <3>5, <4>1, <4>2, <1>10, <1>11
    <3> QED
      BY <3>3, <3>4, <3>5
  <2> QED
    BY <2>2, <2>3
<1>14. ASSUME NEW i \in 0 .. Depth
       PROVE  SameLevel(uvars, immut, callstack, U, F, s, i)
  <2>1. \A v, x : Called(U, F, s, i, v, x) <=> Called(uvars, immut, callstack, i, v, x)
    BY <1>13
  <2>2. \A v, x : Called(uvars, immut, callstack, i, v, x) => Cell(U, v) = Cell(uvars, v)
    BY <1>2, <1>10 DEF Cell
  <2>3. i > 0 => s[i] = callstack[i] /\ F[callstack[i].fun] = immut[callstack[i].fun]
    <3>1. i > 0 => i \in 1 .. Depth
      BY <1>4
    <3> QED
      BY <3>1, <1>1
  <2>4. \A x : Const(F, s, i, x) <=> Const(immut, callstack, i, x)
    BY <2>3 DEF Const, FlaggedIn
  <2> QED
    BY <2>1, <2>2, <2>3, <2>4 DEF SameLevel
<1> QED
  BY <1>3, <1>14 DEF SameLevels, s

\* The level of the call: its names are those of the parameters, each of them
\* bound, and constant if its flag is set.
NewLevel(f, a, F, U) ==
    /\ \A w, x : Called(U, F, callstack', Depth + 1, w, x) =>
          \E i \in 1 .. Len(a) : /\ Binds(f, a, F, i, U, w) /\ x = Params[f][i].name
                                 /\ OwnCell(U, w) \/ LentCell(f, a, F, i, U, w)
                                 /\ F[f][i] => Const(F, callstack', Depth + 1, x)
    /\ \A i \in 1 .. Len(a) : \E w : Called(U, F, callstack', Depth + 1, w, Params[f][i].name)
    /\ \A v, w, x, y :
          Called(U, F, callstack', Depth + 1, v, x) /\ Called(U, F, callstack', Depth + 1, w, y)
             => (v = w <=> x = y)

LEMMA CallLevel ==
  ASSUME IInv, "shared" \notin Faults, NEW f \in Funs, NEW a \in Args(f),
         NEW F, NEW U, NEW A, NEW P, CallLeft(f, a, F, U, A, P)
  PROVE  NewLevel(f, a, F, U)
<1> DEFINE s == callstack'
           n == Depth + 1
<1>1. /\ Len(s) = n /\ s[n] = FrameOf(f, A, P)
  BY CallLoans
<1>2. /\ PassedSome(f, a, F, Len(a), U, A, P)
      /\ \A v \in DOMAIN uvars : U[v].of = uvars[v].of
      /\ \A i \in 1 .. Len(a) : \E w \in DOMAIN U : Binds(f, a, F, i, U, w)
      /\ Sound(U, GWith(LentTo(f, F, A, P)), OWith, n)
  BY DEF CallLeft, PassedSome, Bindings
<1>3. Depth \in Nat /\ n \in Nat /\ n \in 0 .. n /\ n > 0
  <2>1. Depth \in Nat
    BY UvarsFacts
  <2> HIDE DEF Depth
  <2> QED
    BY <2>1
<1>4. s[n].fun = f
  BY <1>1 DEF FrameOf
<1>5. \A w, x : Called(U, F, s, n, w, x) <=> w \in DOMAIN U /\ U[w].level = n /\ U[w].name = x
  <2>1. Len(s) = n /\ ~(n < n)
    BY <1>1, <1>3
  <2> HIDE DEF n, s
  <2> QED
    BY <2>1 DEF Called, NamedAt, IsCalled
<1>6. \A w \in DOMAIN U : U[w].level = n =>
         \E i \in 1 .. Len(a) : Binds(f, a, F, i, U, w) /\ U[w].name = Params[f][i].name
  BY <1>2, <1>3, CallBinds
<1>7. \A i, w : Binds(f, a, F, i, U, w) => U[w].level = n /\ U[w].name = Params[f][i].name
  BY DEF Binds
<1>8. DOMAIN Params[f] = 1 .. Len(a)
  BY ArgsFacts
<1>9. \A i \in 1 .. Len(a) : F[f][i] => Const(F, s, n, Params[f][i].name)
  BY <1>3, <1>4, <1>8 DEF Const, FlaggedIn
<1>10. \A i \in 1 .. Len(a) : \A w : Binds(f, a, F, i, U, w) =>
          OwnCell(U, w) \/ LentCell(f, a, F, i, U, w)
  BY <1>2, BoundCell
<1>11. \A v, w \in DOMAIN U : U[v].level = n /\ U[w].level = n /\ U[v].name = U[w].name => v = w
  <2> DEFINE G == GWith(LentTo(f, F, A, P))
  <2> SUFFICES ASSUME NEW v \in DOMAIN U, NEW w \in DOMAIN U, U[v].level = n, U[w].level = n,
                      U[v].name = U[w].name
               PROVE  v = w
    OBVIOUS
  <2>1. Sound(U, G, OWith, n)
    BY <1>2
  <2> HIDE DEF G, n
  <2>2. U[v] \in Variable
    BY <2>1 DEF Sound, Typed
  <2>3. U[v].name \in Names
    BY <2>2 DEF Variable
  <2>4. IsCalled(U, G, n, n, v, U[v].name) /\ IsCalled(U, G, n, n, w, U[v].name)
    BY DEF IsCalled
  <2> QED
    BY <2>1, <2>3, <2>4, <1>3 DEF Sound, Named
<1> HIDE DEF n, s
<1>12. ASSUME NEW w, NEW x, Called(U, F, s, n, w, x)
       PROVE  \E i \in 1 .. Len(a) : /\ Binds(f, a, F, i, U, w) /\ x = Params[f][i].name
                                     /\ OwnCell(U, w) \/ LentCell(f, a, F, i, U, w)
                                     /\ F[f][i] => Const(F, s, n, x)
  <2>1. w \in DOMAIN U /\ U[w].level = n /\ U[w].name = x
    BY <1>5, <1>12
  <2>2. PICK i \in 1 .. Len(a) : Binds(f, a, F, i, U, w) /\ U[w].name = Params[f][i].name
    BY <1>6, <2>1
  <2> QED
    BY <2>1, <2>2, <1>9, <1>10
<1>13. \A i \in 1 .. Len(a) : \E w : Called(U, F, s, n, w, Params[f][i].name)
  BY <1>2, <1>5, <1>7
<1>14. \A v, w, x, y : Called(U, F, s, n, v, x) /\ Called(U, F, s, n, w, y) => (v = w <=> x = y)
  BY <1>5, <1>11
<1> QED
  BY <1>12, <1>13, <1>14 DEF NewLevel, n, s

\* What is constant at the current level.
LEMMA ConstHere ==
  ASSUME IInv, NEW x PROVE Const(immut, callstack, Depth, x) <=> Flagged(immut, x)
<1>1. Depth \in Nat
  BY UvarsFacts
<1>2. Depth > 0 => Last(callstack) = callstack[Depth]
  <2>1. Depth > 0 => Depth # 0
    <3> HIDE DEF Depth
    <3> QED
      BY <1>1
  <2> QED
    BY <2>1, TopFrame
<1> QED
  BY <1>2 DEF Const, Flagged

\* Two parameters have one cell only as constants.
LEMMA CallTwins ==
  ASSUME IInv, "twice" \notin Faults, Twins(uvars, immut, callstack, Depth),
         NEW f \in Funs, NEW a \in Args(f),
         NEW F, NEW U, NEW A, NEW P, CallLeft(f, a, F, U, A, P), NewLevel(f, a, F, U)
  PROVE  Twins(U, F, callstack', Depth + 1)
<1> DEFINE s == callstack'
           n == Depth + 1
<1>1. ASSUME NEW v, NEW w, NEW x, NEW y, Called(U, F, s, n, v, x), Called(U, F, s, n, w, y),
             v # w, Cell(U, v) = Cell(U, w)
      PROVE  Const(F, s, n, x) /\ Const(F, s, n, y)
  <2>1. x # y
    BY <1>1 DEF NewLevel
  <2>2. PICK i \in 1 .. Len(a) : /\ Binds(f, a, F, i, U, v) /\ x = Params[f][i].name
                                 /\ OwnCell(U, v) \/ LentCell(f, a, F, i, U, v)
                                 /\ F[f][i] => Const(F, s, n, x)
    BY <1>1 DEF NewLevel
  <2>3. PICK j \in 1 .. Len(a) : /\ Binds(f, a, F, j, U, w) /\ y = Params[f][j].name
                                 /\ OwnCell(U, w) \/ LentCell(f, a, F, j, U, w)
                                 /\ F[f][j] => Const(F, s, n, y)
    BY <1>1 DEF NewLevel
  <2>4. LentCell(f, a, F, i, U, v) /\ LentCell(f, a, F, j, U, w)
    BY <2>2, <2>3, <1>1 DEF OwnCell, LentCell
  <2>5. /\ a[i] # None /\ Exists(a[i]) /\ (F[f][i] \/ ByRef(f, i))
        /\ a[j] # None /\ Exists(a[j]) /\ (F[f][j] \/ ByRef(f, j))
        /\ Cell(uvars, Var(a[i])) = Cell(uvars, Var(a[j]))
    BY <2>4, <1>1 DEF LentCell
  <2>6. F[f][i] /\ F[f][j]
    <3>1. CASE a[i] = a[j]
      <4>1. i # j
        BY <2>1, <2>2, <2>3
      <4>2. i \in DOMAIN a /\ j \in DOMAIN a
        BY ArgsFacts
      <4>3. PassedOnce(f, a, F)
        BY DEF CallLeft
      <4>4. ~ByRef(f, i) /\ ~ByRef(f, j)
        BY <3>1, <4>1, <4>2, <4>3, <2>5 DEF PassedOnce
      <4> QED
        BY <4>4, <2>5
    <3>2. CASE a[i] # a[j]
      <4> DEFINE p == Var(a[i])
                 q == Var(a[j])
      <4>1. /\ p \in DOMAIN uvars /\ uvars[p].name = a[i] /\ uvars[p].level = Depth
            /\ q \in DOMAIN uvars /\ uvars[q].name = a[j] /\ uvars[q].level = Depth
            /\ Cell(uvars, p) = Cell(uvars, q)
        BY <2>5, VarFacts
      <4> HIDE DEF p, q
      <4>2. Called(uvars, immut, callstack, Depth, p, a[i]) /\ Called(uvars, immut, callstack, Depth, q, a[j])
        BY <4>1, CalledHere
      <4>3. p # q
        BY <4>1, <3>2
      <4>4. Const(immut, callstack, Depth, a[i]) /\ Const(immut, callstack, Depth, a[j])
        BY <4>1, <4>2, <4>3 DEF Twins
      <4>5. Flagged(immut, a[i]) /\ Flagged(immut, a[j])
        BY <4>4, ConstHere
      <4> QED
        BY <4>5, <2>5 DEF CallLeft
    <3> QED
      BY <3>1, <3>2
  <2> QED
    BY <2>2, <2>3, <2>6
<1> HIDE DEF n, s
<1> QED
  BY <1>1 DEF Twins, n, s

\* Calling a function makes it a scope of its own.
LEMMA CallScopes ==
  ASSUME RInv, IInv', Distinct, "return" \notin Faults,
         NEW f \in Funs, NEW a \in Args(f), Call(f, a)
  PROVE  RInv' /\ AbstractStep
<1> DEFINE s == callstack'
           n == Depth + 1
<1>1. /\ IInv /\ \A i \in 1 .. Depth : Pointers(immut, callstack[i])
      /\ \A i \in 0 .. Depth :
            Supplied(uvars, immut, callstack, i) /\ Twins(uvars, immut, callstack, i)
  BY DEF RInv
<1>2. "shared" \notin Faults /\ "twice" \notin Faults
  BY DEF Distinct
<1>3. PICK F, U, A, P : CallLeft(f, a, F, U, A, P)
  BY <1>1, CallFacts
<1>4. Depth \in Nat /\ Depth = Len(callstack) /\ Depth \in 0 .. Depth
  <2>1. Depth \in Nat /\ Depth = Len(callstack)
    BY <1>1, UvarsFacts
  <2>2. Depth \in 0 .. Depth
    <3> HIDE DEF Depth
    <3> QED
      BY <2>1
  <2> QED
    BY <2>1, <2>2
<1>5. Supplied(uvars, immut, callstack, Depth) /\ Twins(uvars, immut, callstack, Depth)
  BY <1>1, <1>4
<1>6. NewLevel(f, a, F, U)
  BY <1>1, <1>2, <1>3, CallLevel
<1>7. Twins(U, F, s, n)
  BY <1>1, <1>2, <1>3, <1>5, <1>6, CallTwins
<1>8. SameLevels(Depth)
  BY <1>1, <1>2, <1>3, CallSame
<1>9. /\ Len(s) = n /\ s[n] = FrameOf(f, A, P)
      /\ \A i \in 1 .. Depth : s[i] = callstack[i] /\ F[callstack[i].fun] = immut[callstack[i].fun]
  BY <1>1, <1>2, <1>3, CallLoans
<1>10. uvars' = U /\ immut' = F /\ PassedSome(f, a, F, Len(a), U, A, P)
  BY <1>3 DEF CallLeft
<1>11. Depth' = n
  BY <1>9 DEF Depth
<1>12. Pointers(F, s[n])
  BY <1>1, <1>9, <1>10, CallPointers
<1>13. Supplied(U, F, s, n)
  <2>1. s[n].fun = f
    BY <1>9 DEF FrameOf
  <2>2. DOMAIN Params[f] = 1 .. Len(a)
    BY ArgsFacts
  <2>3. \A i \in 1 .. Len(a) : \E w : Called(U, F, s, n, w, Params[f][i].name)
    BY <1>6 DEF NewLevel
  <2> HIDE DEF n, s
  <2> QED
    BY <2>1, <2>2, <2>3 DEF Supplied
<1>14. RInv'
  <2>1. ASSUME NEW i \in 1 .. n PROVE Pointers(F, s[i])
    <3>1. CASE i = n
      BY <3>1, <1>12
    <3>2. CASE i # n
      <4>1. i \in 1 .. Depth
        <5> HIDE DEF Depth
        <5> QED
          BY <1>4, <3>2
      <4>2. s[i] = callstack[i] /\ F[s[i].fun] = immut[s[i].fun] /\ Pointers(immut, s[i])
        BY <4>1, <1>1, <1>9
      <4>3. \A k : Back(F, s[i], k) <=> Back(immut, s[i], k)
        BY <4>2, LoansSame
      <4> QED
        BY <4>2, <4>3 DEF Pointers
    <3> QED
      BY <3>1, <3>2
  <2>2. ASSUME NEW i \in 0 .. n PROVE Supplied(U, F, s, i) /\ Twins(U, F, s, i)
    <3>1. CASE i = n
      BY <3>1, <1>7, <1>13
    <3>2. CASE i # n
      <4>1. i \in 0 .. Depth
        <5> HIDE DEF Depth
        <5> QED
          BY <1>4, <3>2
      <4>2. SameLevel(uvars, immut, callstack, U, F, s, i)
        BY <4>1, <1>8, <1>10 DEF SameLevels
      <4>3. Supplied(uvars, immut, callstack, i) /\ Twins(uvars, immut, callstack, i)
        BY <4>1, <1>1
      <4> QED
        BY <4>2, <4>3, SameKept
    <3> QED
      BY <3>1, <3>2
  <2> HIDE DEF n
  <2> QED
    BY <2>1, <2>2, <1>10, <1>11 DEF RInv
<1>15. S!Callers(ScopesOf') = ScopesOf
  BY <1>8, <1>4, <1>9, <1>14, IntoFunction
<1>16. Stack(ScopesOf, Depth) /\ IsScope(uvars, immut, callstack, Depth, ScopesOf[Depth + 1])
  BY ScopesStack
<1>17. Stack(ScopesOf', n) /\ IsScope(U, F, s, n, ScopesOf'[n + 1])
  <2>1. /\ Stack(ScopesOf', Len(s)) /\ Len(s) \in Nat
        /\ \A i \in 0 .. Len(s) : IsScope(uvars', immut', s, i, ScopesOf'[i + 1])
    BY <1>14, ScopesNext
  <2>2. n \in 0 .. n
    <3> HIDE DEF Depth
    <3> QED
      BY <1>4
  <2> HIDE DEF n, s
  <2> QED
    BY <2>1, <2>2, <1>9, <1>10
<1> DEFINE caller == Last(ScopesOf)
           callee == Last(ScopesOf')
           used == DOMAIN ValueOf
<1>18. IsScope(uvars, immut, callstack, Depth, caller) /\ IsScope(U, F, s, n, callee)
  BY <1>16, <1>17 DEF Stack
<1>19. used \subseteq DOMAIN uvars
  BY ValuesFound DEF ValuesAre
<1>20. \A x \in DOMAIN callee : \E w \in DOMAIN U :
          Called(U, F, s, n, w, x) /\ callee[x].cell = Cell(U, w) /\ callee[x].const = Const(F, s, n, x)
  <2> HIDE DEF callee, s, n
  <2> SUFFICES ASSUME NEW x \in DOMAIN callee
               PROVE  \E w \in DOMAIN U : /\ Called(U, F, s, n, w, x)
                                          /\ callee[x].cell = Cell(U, w)
                                          /\ callee[x].const = Const(F, s, n, x)
    OBVIOUS
  <2>1. PICK w : Called(U, F, s, n, w, x)
    BY <1>18 DEF IsScope
  <2>2. callee[x] = [cell |-> Cell(U, w), const |-> Const(F, s, n, x)]
    BY <2>1, <1>18 DEF IsScope
  <2>3. w \in DOMAIN U
    BY <2>1 DEF Called, NamedAt
  <2> QED
    BY <2>1, <2>2, <2>3
<1> HIDE DEF caller, callee, used
<1>21. ASSUME NEW x \in DOMAIN callee, callee[x].cell \in used
       PROVE  \E m \in DOMAIN caller : /\ caller[m].cell = callee[x].cell
                                       /\ caller[m].const => callee[x].const
  <2>1. PICK w \in DOMAIN U : /\ Called(U, F, s, n, w, x) /\ callee[x].cell = Cell(U, w)
                              /\ callee[x].const = Const(F, s, n, x)
    BY <1>20
  <2>2. PICK i \in 1 .. Len(a) : /\ OwnCell(U, w) \/ LentCell(f, a, F, i, U, w)
                                 /\ F[f][i] => Const(F, s, n, x)
    BY <2>1, <1>6 DEF NewLevel
  <2>3. LentCell(f, a, F, i, U, w)
    BY <2>1, <2>2, <1>19, <1>21 DEF OwnCell
  <2> DEFINE v == Var(a[i])
             m == a[i]
  <2>4. m # None /\ Exists(m) /\ Cell(U, w) = Cell(uvars, v)
    BY <2>3 DEF LentCell
  <2>5. v \in DOMAIN uvars /\ uvars[v].name = m /\ uvars[v].level = Depth
    BY <2>4, <1>1, VarFacts
  <2>6. Called(uvars, immut, callstack, Depth, v, m)
    <3> HIDE DEF v, m
    <3> QED
      BY <2>5, <1>1, CalledHere
  <2>7. Const(immut, callstack, Depth, m) => F[f][i]
    <3>1. Const(immut, callstack, Depth, m) => Flagged(immut, m)
      BY <1>1, ConstHere
    <3> QED
      BY <3>1, <2>4, <1>3 DEF CallLeft
  <2> HIDE DEF v, m, s, n, Depth
  <2>8. m \in DOMAIN caller /\ caller[m] = [cell |-> Cell(uvars, v), const |-> Const(immut, callstack, Depth, m)]
    BY <2>6, <1>18 DEF IsScope
  <2>9. caller[m].cell = callee[x].cell
    BY <2>1, <2>4, <2>8
  <2>10. caller[m].const => callee[x].const
    BY <2>1, <2>2, <2>7, <2>8
  <2> QED
    BY <2>8, <2>9, <2>10
<1>22. ASSUME NEW x \in DOMAIN callee, NEW y \in DOMAIN callee, x # y, callee[x].cell = callee[y].cell
       PROVE  callee[x].const /\ callee[y].const
  <2>1. PICK v \in DOMAIN U : /\ Called(U, F, s, n, v, x) /\ callee[x].cell = Cell(U, v)
                              /\ callee[x].const = Const(F, s, n, x)
    BY <1>20
  <2>2. PICK w \in DOMAIN U : /\ Called(U, F, s, n, w, y) /\ callee[y].cell = Cell(U, w)
                              /\ callee[y].const = Const(F, s, n, y)
    BY <1>20
  <2>3. v # w
    BY <2>1, <2>2, <1>6, <1>22 DEF NewLevel
  <2> HIDE DEF s, n
  <2>4. Const(F, s, n, x) /\ Const(F, s, n, y)
    BY <2>1, <2>2, <2>3, <1>7, <1>22 DEF Twins
  <2> QED
    BY <2>1, <2>2, <2>4
<1>23. S!Lends(caller, callee, used)
  BY <1>21, <1>22 DEF S!Lends
<1>24. S!Last(ScopesOf) = caller /\ S!Last(ScopesOf') = callee
  BY SameLast DEF caller, callee
<1> HIDE DEF ScopesOf, ValueOf, Depth
<1>25. S!Moves(ScopesOf, ScopesOf', used)
  BY <1>15, <1>23, <1>24 DEF S!Moves
<1>26. \A c \in DOMAIN uvars : c \in DOMAIN uvars' /\ uvars[c].of = 0 =>
            uvars'[c].val = uvars[c].val
  BY <1>10 DEF PassedSome, Bindings
<1>27. S!Move
  BY <1>14, <1>25, <1>26, MoveStep DEF used
<1> QED
  BY <1>14, <1>27 DEF AbstractStep, S!Next

-----------------------------------------------------------------------------
(***************************************************************************)
(* The refinement                                                          *)
(***************************************************************************)

\* Before anything is defined there is the scope of the main script.
LEMMA InitScopes == Init => RInv /\ S!Init
<1> SUFFICES ASSUME Init PROVE RInv /\ S!Init
  OBVIOUS
<1>1. IInv /\ uvars = << >> /\ callstack = << >>
  BY InitIInv DEF Init
<1>2. Depth = 0 /\ DOMAIN uvars = {}
  BY <1>1 DEF Depth
<1>3. \A i, v, x : ~Called(uvars, immut, callstack, i, v, x)
  BY <1>2 DEF Called, NamedAt
<1>4. RInv
  <2>1. \A i \in 0 .. 0 : Supplied(uvars, immut, callstack, i) /\ Twins(uvars, immut, callstack, i)
    BY <1>3 DEF Supplied, Twins
  <2> HIDE DEF Depth
  <2>2. \A i \in 1 .. Depth : Pointers(immut, callstack[i])
    BY <1>2
  <2> QED
    BY <1>1, <1>2, <2>1, <2>2 DEF RInv
<1> DEFINE none == << >>
<1>5. none \in Seq({}) /\ Len(none) = 0 /\ DOMAIN none = {}
  OBVIOUS
<1>6. none = [x \in {} |-> none[x]]
  OBVIOUS
<1>7. Scope(0) = none
  <2>1. IsScope(uvars, immut, callstack, 0, Scope(0))
    <3>1. 0 \in 0 .. Depth
      BY <1>2
    <3> QED
      BY <3>1, <1>4, ScopeIs DEF RInv
  <2> DEFINE s == Scope(0)
  <2>2. s = [x \in DOMAIN s |-> s[x]] /\ DOMAIN s = {}
    BY <2>1, <1>3 DEF IsScope
  <2> HIDE DEF s, none
  <2> QED
    BY <2>2, <1>6 DEF s
<1>8. ScopesOf = << none >>
  <2>1. ScopesOf = [i \in 1 .. 1 |-> Scope(i - 1)]
    BY <1>2 DEF ScopesOf
  <2>2. ScopesOf[1] = Scope(0)
    BY <2>1
  <2> HIDE DEF Scope, none
  <2>3. << none >> = [i \in 1 .. 1 |-> none]
    OBVIOUS
  <2>4. \A i \in 1 .. 1 : Scope(i - 1) = none
    BY <1>7
  <2> QED
    BY <2>1, <2>3, <2>4
<1>9. ValueOf = none
  <2>1. DOMAIN ValueOf = {} /\ ValueOf = [c \in DOMAIN ValueOf |-> ValueOf[c]]
    BY <1>2 DEF ValueOf
  <2> HIDE DEF ValueOf, none
  <2> QED
    BY <2>1, <1>6
<1> QED
  BY <1>4, <1>8, <1>9 DEF S!Init

\* Every step.
LEMMA NextScopes ==
  RInv /\ Distinct /\ "return" \notin Faults /\ [Next]_vars => RInv' /\ AbstractStep
<1> SUFFICES ASSUME RInv, Distinct, "return" \notin Faults, [Next]_vars PROVE RInv' /\ AbstractStep
  OBVIOUS
<1>1. IInv'
  BY NextIInv DEF RInv
<1>2. ASSUME NEW f \in Funs, NEW a \in Args(f), Call(f, a) PROVE RInv' /\ AbstractStep
  BY <1>1, <1>2, CallScopes
<1>3. ASSUME NEW x \in Names, Define(x) PROVE RInv' /\ AbstractStep
  BY <1>1, <1>3, DefineScopes
<1>4. ASSUME NEW x \in Names, Assign(x) PROVE RInv' /\ AbstractStep
  BY <1>1, <1>4, AssignScopes
<1>5. ASSUME NEW x \in Names, Delete(x) PROVE RInv' /\ AbstractStep
  BY <1>1, <1>5, DeleteScopes
<1>6. ASSUME NEW x \in Names \cup {None}, Return(x) PROVE RInv' /\ AbstractStep
  BY <1>1, <1>6, ReturnScopes
<1>7. CASE UNCHANGED vars
  <2>1. uvars' = uvars /\ immut' = immut /\ callstack' = callstack
    BY <1>7 DEF vars
  <2>2. Depth' = Depth
    BY <2>1 DEF Depth
  <2>3. RInv'
    <3> HIDE DEF Depth
    <3> QED
      BY <2>1, <2>2, <1>1 DEF RInv
  <2>4. ScopesOf' = ScopesOf /\ ValueOf' = ValueOf
    BY <2>1 DEF ScopesOf, ValueOf, Scope, NamesAt, Lent, Depth, Cell, FlaggedIn, ByRef
  <2> QED
    BY <2>3, <2>4 DEF AbstractStep, S!vars
<1> HIDE DEF AbstractStep
<1> QED
  BY <1>2, <1>3, <1>4, <1>5, <1>6, <1>7 DEF Next

\* Moving variables of the caller up, under the names of the parameters
\* (user_var_localize(), localize_series_ref(), localize_const_object()), and
\* down again (function_assign_returns()), where stop_fncall() leaves nothing
\* else, implements a scope for each running function, with which the calls it
\* makes do not interfere: no name of a caller is lost or comes to stand for
\* another value, and what is constant for it is constant for what it calls.
THEOREM ScopesImplemented == ASSUME Faults = {} PROVE Spec => ImplementsScopes
<1>1. Distinct /\ "return" \notin Faults
  BY DEF Distinct
<1>2. RInv /\ [Next]_vars => RInv' /\ [S!Next]_(S!vars)
  BY <1>1, NextScopes DEF AbstractStep
<1>3. Init => RInv /\ S!Init
  BY InitScopes
<1> QED
  BY <1>2, <1>3, PTL DEF Spec, ImplementsScopes, S!Spec
=============================================================================
