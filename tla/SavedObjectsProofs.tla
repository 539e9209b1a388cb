------------------------ MODULE SavedObjectsProofs -------------------------
(***************************************************************************)
(* Proofs about SavedObjects, for any number of objects, names, frames,    *)
(* loops and records.                                                      *)
(*                                                                         *)
(* The counts of the store cannot be reasoned about by themselves: what a  *)
(* count should be depends on the frames and the unnamed systems, which    *)
(* the store does not know.  A store is therefore called sound with        *)
(* respect to a count X of the references from outside, and each           *)
(* operation of the store is shown to keep it sound, with respect to the   *)
(* same X or to one that differs by the place the caller takes or gives    *)
(* up.  The steps then follow the commands, operation by operation.        *)
(***************************************************************************)
EXTENDS SavedObjects, SequenceTheorems, FiniteSetTheorems, TLAPS

(* Two of the ways in which the program departs from what it means to do   *)
(* leave a pointer at freed memory, which no invariant survives, and one   *)
(* makes a count wrong; the fourth only loses memory, and all but NoneLost *)
(* is proved with it.                                                      *)
Kept == Faults \cap {"unnamed", "stale", "reused"} = {}

\* The places of the store itself that hold o.
Inside(m, o) == (IF m.last = o THEN 1 ELSE 0) + (IF o \in Stacked(m) THEN 1 ELSE 0)

\* X counts the places elsewhere.
Held(m, X, o) == m.last = o \/ o \in Stacked(m) \/ X[o] > 0

Exact(m, X) == \A o \in Obj : Alive(m, o) /\ o \notin m.prot
                                  => m.refs[o] = Inside(m, o) + X[o]

HeldAlive(m, X) == \A o \in Obj : Held(m, X, o) => Alive(m, o)

\* A protected model is a single-equation model and is never saved by name, and
\* no other model is where a loop lists one.
ProtectedOnes(m) == /\ \A o \in m.prot : m.kind[o] = "eqn" /\ o \notin Stacked(m)
                    /\ \A o \in m.listed : m.kind[o] = "eqn" => o \in m.prot

\* No object is saved twice.
Once(m) == \A e, f \in m.stack : e.ptr = f.ptr => e = f

Names(m) == \A e, f \in m.stack : (e.kind = f.kind /\ e.name = f.name) => e = f

\* A system is held by the store only when it has equations: the others are
\* never freed by equation_system_destroy.
Complete(m) == \A o \in Obj : m.kind[o] = "sys" /\ (m.last = o \/ o \in Stacked(m))
                                  => m.eqns[o] > 0

Sound(m, X) == /\ m \in Stores
               /\ Exact(m, X) /\ HeldAlive(m, X) /\ ProtectedOnes(m)
               /\ Once(m) /\ Names(m) /\ Complete(m)

\* How many frames f give o back when they return, and how many depths keep it
\* as their unnamed system in a.
Prevs(f, o) == Cardinality({i \in DOMAIN f : f[i].prev = o})

Anons(a, o) == Cardinality({d \in DOMAIN a : a[d] = o})

Outside(f, a) == [o \in Obj |-> Prevs(f, o) + Anons(a, o)]

\* The records of the loops of a frame that are running.
Running(g) == UNION {Records(g.loops[l]) : l \in {k \in 1 .. 2 : g.loops[k].on}}

\* The models that are a frame's own: its working model and those records.
Own(g) == {g.model} \cup Running(g)

AllOwn(f) == UNION {Own(f[i]) : i \in DOMAIN f}

NestedLoops(g) == g.loops[2].on => g.loops[1].on

OwnDistinct(g) ==
    /\ g.model \notin Running(g)
    /\ g.loops[1].on /\ g.loops[2].on =>
           Records(g.loops[1]) \cap Records(g.loops[2]) = {}

\* Only the innermost frame is defining a system: a block calls no function.
OnlyLastDefines(f) == \A i \in DOMAIN f : f[i].sys # Null => i = Len(f)

\* No two frames own a model in common.
Apart(f) == \A i, j \in DOMAIN f : i # j => Own(f[i]) \cap Own(f[j]) = {}

\* What a frame or one inside it made is younger than what its caller gets back.
Older(f) == \A i \in DOMAIN f : \A j \in 1 .. i : f[j].prev \notin Own(f[i])

\* The frames of a state the program can be in.
Framed(f) == /\ f \in Seq(Frames) /\ Len(f) \in 1 .. MaxDepth
             /\ \A i \in DOMAIN f : NestedLoops(f[i]) /\ OwnDistinct(f[i])
             /\ OnlyLastDefines(f) /\ Apart(f) /\ Older(f)
             /\ f[1].prev = Null

\* The system being defined is held by nobody, or as the unnamed one only.
Defined(m, f, a) ==
    LET s == f[Len(f)].sys
    IN  s # Null =>
            /\ m.kind[s] = "sys" /\ m.last # s /\ s \notin Stacked(m)
            /\ Outside(f, a)[s] = IF a[Len(f)] = s THEN 1 ELSE 0

\* What a depth keeps unnamed is a system.
AnonSystems(m, a) == \A d \in DOMAIN a : a[d] # Null => m.kind[a[d]] = "sys"

\* A system that a caller gets back is complete.
PrevsComplete(m, f) ==
    \A i \in DOMAIN f : (f[i].prev # Null /\ m.kind[f[i].prev] = "sys")
                            => m.eqns[f[i].prev] > 0

\* The inductive invariant, of a store m, frames f and unnamed systems a.
Inv(m, f, a) == /\ a \in [1 .. MaxDepth -> Ptr]
                /\ Framed(f)
                /\ Sound(m, Outside(f, a))
                /\ m.prot = AllOwn(f)
                /\ Defined(m, f, a) /\ AnonSystems(m, a) /\ PrevsComplete(m, f)

IInv == Inv(store, frames, anon)

\* What nothing protects and nobody is defining has a reference.
Tidy(m, s) == \A o \in Obj : Alive(m, o) /\ o \notin m.prot /\ o # s
                              => m.refs[o] > 0 /\ (m.kind[o] = "sys" => m.eqns[o] > 0)

----------------------------------------------------------------------------
\* Nothing but o differs.
SameBut(u, m, o) == \A p \in Obj : p # o => /\ u.kind[p] = m.kind[p]
                                           /\ u.refs[p] = m.refs[p]
                                           /\ u.eqns[p] = m.eqns[p]

Rest(m, o) == {e \in m.stack : e.ptr # o}

\* The parts of a store.
LEMMA StoreParts ==
  ASSUME NEW m \in Stores
  PROVE  /\ m.kind \in [Obj -> Kind \cup {"none"}] /\ m.refs \in [Obj -> Nat]
         /\ m.eqns \in [Obj -> 0 .. 2] /\ m.prot \subseteq Obj /\ m.listed \subseteq Obj
         /\ m.last \in Ptr /\ m.stack \subseteq Entries
  BY DEF Stores

\* The stack points at addresses, never at none.
LEMMA StackedFact ==
  ASSUME NEW m \in Stores
  PROVE  /\ Stacked(m) \subseteq Obj /\ Null \notin Stacked(m)
         /\ \A o : o \in Stacked(m) <=> \E e \in m.stack : e.ptr = o
  BY NullAssumption, StoreParts DEF Stacked, Entries

\* Only the models of the list of protected ones are.
LEMMA ProtectedFact ==
  ASSUME NEW m, ProtectedOnes(m), NEW o
  PROVE  Protected(m, o) <=> o \in m.prot
  BY DEF Protected, ProtectedOnes

\* Each operation of the store, field by field: what it changes at one address
\* and what it leaves alone.
LEMMA NewParts ==
  ASSUME NEW m \in Stores, NEW o \in Obj, NEW k \in Kind
  PROVE  LET u == New(m, o, k)
         IN  /\ u \in Stores /\ SameBut(u, m, o)
             /\ u.kind[o] = k /\ u.refs[o] = 0 /\ u.eqns[o] = 0
             /\ u.prot = m.prot /\ u.listed = m.listed /\ u.last = m.last /\ u.stack = m.stack
<1> DEFINE K == [m.kind EXCEPT ![o] = k]
           R == [m.refs EXCEPT ![o] = 0]
           Q == [m.eqns EXCEPT ![o] = 0]
<1>1. New(m, o, k) = [m EXCEPT !.kind = K, !.refs = R, !.eqns = Q]
  BY DEF New, Stores
<1>2. /\ K \in [Obj -> Kind \cup {"none"}] /\ R \in [Obj -> Nat] /\ Q \in [Obj -> 0 .. 2]
      /\ K[o] = k /\ R[o] = 0 /\ Q[o] = 0
      /\ \A p \in Obj : p # o => K[p] = m.kind[p] /\ R[p] = m.refs[p] /\ Q[p] = m.eqns[p]
  BY StoreParts
<1> HIDE DEF K, R, Q
<1>3. New(m, o, k) \in Stores
  BY <1>1, <1>2 DEF Stores
<1>4. LET u == [m EXCEPT !.kind = K, !.refs = R, !.eqns = Q]
      IN  /\ u.kind = K /\ u.refs = R /\ u.eqns = Q
          /\ u.prot = m.prot /\ u.listed = m.listed /\ u.last = m.last /\ u.stack = m.stack
  BY DEF Stores
<1> QED
  BY <1>1, <1>2, <1>3, <1>4 DEF SameBut

\* A working model or a record of a loop is allocated and protected at once.
LEMMA NewProtectedParts ==
  ASSUME NEW m \in Stores, NEW o \in Obj
  PROVE  LET u == NewProtected(m, o)
         IN  /\ u \in Stores /\ SameBut(u, m, o)
             /\ u.kind[o] = "eqn" /\ u.refs[o] = 0 /\ u.eqns[o] = 0
             /\ u.prot = m.prot \cup {o} /\ u.listed = m.listed /\ u.last = m.last /\ u.stack = m.stack
<1> DEFINE n == New(m, o, "eqn")
<1>1. /\ n \in Stores /\ SameBut(n, m, o)
      /\ n.kind[o] = "eqn" /\ n.refs[o] = 0 /\ n.eqns[o] = 0
      /\ n.prot = m.prot /\ n.listed = m.listed /\ n.last = m.last /\ n.stack = m.stack
  BY NewParts DEF Kind
<1> HIDE DEF n
<1>2. NewProtected(m, o) = [n EXCEPT !.prot = @ \cup {o}]
  BY DEF NewProtected, n
<1>3. [n EXCEPT !.prot = @ \cup {o}] \in Stores
  BY <1>1, StoreParts DEF Stores
<1> QED
  BY <1>1, <1>2, <1>3, StoreParts DEF SameBut

\* gretl_object_ref.
LEMMA RefParts ==
  ASSUME NEW m \in Stores, NEW o \in Obj
  PROVE  LET u == Ref(m, o)
         IN  /\ u \in Stores /\ SameBut(u, m, o)
             /\ u.kind = m.kind /\ u.eqns = m.eqns
             /\ u.refs[o] = IF o \in m.prot THEN m.refs[o] ELSE m.refs[o] + 1
             /\ u.prot = m.prot /\ u.listed = m.listed /\ u.last = m.last /\ u.stack = m.stack
<1>1. Ref(m, o) \in Stores
  BY StoreParts DEF Ref, Stores
<1> QED
  BY <1>1, StoreParts DEF Ref, SameBut

\* What is left of an object that is given up by the last place that has it.
LEMMA FreeParts ==
  ASSUME NEW m \in Stores, NEW S
  PROVE  LET u == Free(m, S)
         IN  /\ u \in Stores
             /\ \A p \in Obj : p \notin S => /\ u.kind[p] = m.kind[p]
                                            /\ u.refs[p] = m.refs[p]
                                            /\ u.eqns[p] = m.eqns[p]
             /\ \A p \in Obj : p \in S /\ Gone(m, p) =>
                    u.kind[p] = "none" /\ u.refs[p] = 0 /\ u.eqns[p] = 0
             /\ \A p \in Obj : p \in S /\ ~Gone(m, p) =>
                    /\ u.kind[p] = m.kind[p] /\ u.eqns[p] = m.eqns[p]
                    /\ u.refs[p] = IF Counted(m, p) THEN m.refs[p] - 1 ELSE m.refs[p]
             /\ u.prot = m.prot /\ u.listed = m.listed /\ u.last = m.last /\ u.stack = m.stack
<1> DEFINE K == [o \in Obj |-> IF o \in S /\ Gone(m, o) THEN "none" ELSE m.kind[o]]
           R == [o \in Obj |-> IF o \notin S THEN m.refs[o]
                               ELSE IF Gone(m, o) THEN 0
                               ELSE IF Counted(m, o) THEN m.refs[o] - 1
                               ELSE m.refs[o]]
           Q == [o \in Obj |-> IF o \in S /\ Gone(m, o) THEN 0 ELSE m.eqns[o]]
<1>1. K \in [Obj -> Kind \cup {"none"}]
  BY StoreParts
<1>2. Q \in [Obj -> 0 .. 2]
  BY StoreParts
<1>3. R \in [Obj -> Nat]
  <2> SUFFICES ASSUME NEW o \in Obj PROVE R[o] \in Nat
    OBVIOUS
  <2>1. m.refs[o] \in Nat
    BY StoreParts
  <2>2. Counted(m, o) /\ ~Gone(m, o) => m.refs[o] > 1
    BY <2>1 DEF Counted, Gone
  <2> QED
    BY <2>1, <2>2
<1>4. Free(m, S) = [m EXCEPT !.kind = K, !.refs = R, !.eqns = Q]
  BY DEF Free, Stores
<1>5. /\ \A p \in Obj : p \notin S => K[p] = m.kind[p] /\ R[p] = m.refs[p] /\ Q[p] = m.eqns[p]
      /\ \A p \in Obj : p \in S /\ Gone(m, p) => K[p] = "none" /\ R[p] = 0 /\ Q[p] = 0
      /\ \A p \in Obj : p \in S /\ ~Gone(m, p) =>
             /\ K[p] = m.kind[p] /\ Q[p] = m.eqns[p]
             /\ R[p] = IF Counted(m, p) THEN m.refs[p] - 1 ELSE m.refs[p]
  OBVIOUS
<1> HIDE DEF K, R, Q
<1>6. Free(m, S) \in Stores
  BY <1>1, <1>2, <1>3, <1>4 DEF Stores
<1>7. LET u == [m EXCEPT !.kind = K, !.refs = R, !.eqns = Q]
      IN  /\ u.kind = K /\ u.refs = R /\ u.eqns = Q
          /\ u.prot = m.prot /\ u.listed = m.listed /\ u.last = m.last /\ u.stack = m.stack
  BY DEF Stores
<1> QED
  BY <1>4, <1>5, <1>6, <1>7

\* gretl_object_unstack.
LEMMA OffStackParts ==
  ASSUME NEW m \in Stores, NEW o
  PROVE  LET u == OffStack(m, o)
         IN  /\ u \in Stores
             /\ u.kind = m.kind /\ u.refs = m.refs /\ u.eqns = m.eqns
             /\ u.prot = m.prot /\ u.listed = m.listed /\ u.last = m.last /\ u.stack = Rest(m, o)
<1>1. OffStack(m, o) \in Stores
  BY StoreParts DEF OffStack, Stores
<1> QED
  BY <1>1, StoreParts DEF OffStack, Rest

\* equation_system_destroy does nothing to a system without equations.
Stays(m, o) == m.kind[o] = "sys" /\ m.eqns[o] = 0

\* An object whose count has come down to nothing leaves every place of the
\* store, but for the entry kept for the object that replaces it.
LEMMA DestroyParts ==
  ASSUME NEW m \in Stores, NEW o \in Obj, NEW r \in BOOLEAN,
         o \notin m.prot, m.refs[o] = 0, Alive(m, o)
  PROVE  LET u == Destroy(m, o, r)
         IN  /\ u \in Stores /\ SameBut(u, m, o)
             /\ u.kind[o] = (IF Stays(m, o) THEN "sys" ELSE "none")
             /\ u.refs[o] = 0 /\ u.eqns[o] = 0
             /\ u.prot = m.prot /\ u.listed = m.listed
             /\ u.last = IF m.last = o THEN Null ELSE m.last
             /\ u.stack = IF r THEN m.stack ELSE Rest(m, o)
<1> DEFINE m1 == [m EXCEPT !.last = IF @ = o THEN Null ELSE @]
           m2 == IF r THEN m1 ELSE OffStack(m1, o)
<1>1. /\ m1 \in Stores
      /\ m1.kind = m.kind /\ m1.refs = m.refs /\ m1.eqns = m.eqns
      /\ m1.prot = m.prot /\ m1.listed = m.listed /\ m1.stack = m.stack
      /\ m1.last = IF m.last = o THEN Null ELSE m.last
  BY DEF Stores, Ptr
<1> HIDE DEF m1
<1>2. /\ m2 \in Stores
      /\ m2.kind = m.kind /\ m2.refs = m.refs /\ m2.eqns = m.eqns
      /\ m2.prot = m.prot /\ m2.listed = m.listed /\ m2.last = m1.last
      /\ m2.stack = IF r THEN m.stack ELSE Rest(m, o)
  <2>1. CASE r
    BY <1>1, <2>1
  <2>2. CASE ~r
    <3>1. m2 = OffStack(m1, o)
      BY <2>2
    <3>2. /\ OffStack(m1, o) \in Stores
          /\ OffStack(m1, o).kind = m1.kind /\ OffStack(m1, o).refs = m1.refs
          /\ OffStack(m1, o).eqns = m1.eqns /\ OffStack(m1, o).prot = m1.prot /\ OffStack(m1, o).listed = m1.listed
          /\ OffStack(m1, o).last = m1.last /\ OffStack(m1, o).stack = Rest(m1, o)
      BY <1>1, OffStackParts
    <3> QED
      BY <1>1, <2>2, <3>1, <3>2 DEF Rest
  <2> QED
    BY <2>1, <2>2
<1>3. Destroy(m, o, r) = Free(m2, {o})
  BY DEF Destroy, m2, m1
<1> HIDE DEF m2
<1>4. m.kind[o] \in Kind /\ m.eqns[o] \in 0 .. 2
  BY StoreParts DEF Alive
<1>5. Gone(m2, o) <=> ~Stays(m, o)
  BY <1>2, <1>4 DEF Gone, Stays, Kind
<1>6. ~Gone(m2, o) => ~Counted(m2, o)
  BY <1>2, <1>4, <1>5 DEF Stays, Counted
<1>7. LET u == Free(m2, {o})
      IN  /\ u \in Stores /\ SameBut(u, m2, o)
          /\ Gone(m2, o) => u.kind[o] = "none" /\ u.refs[o] = 0 /\ u.eqns[o] = 0
          /\ ~Gone(m2, o) => /\ u.kind[o] = m2.kind[o] /\ u.eqns[o] = m2.eqns[o]
                             /\ u.refs[o] = m2.refs[o]
          /\ u.prot = m2.prot /\ u.listed = m2.listed /\ u.last = m2.last /\ u.stack = m2.stack
  BY <1>2, <1>6, FreeParts DEF SameBut
<1>8. SameBut(Free(m2, {o}), m, o)
  BY <1>2, <1>7 DEF SameBut
<1> QED
  BY <1>1, <1>2, <1>3, <1>5, <1>7, <1>8 DEF Stays

\* Letting go of an object that others hold, and of one that nobody does.
LEMMA UnrefParts ==
  ASSUME NEW m \in Stores, NEW o \in Obj, NEW r \in BOOLEAN,
         o \notin m.prot, ~Protected(m, o), m.refs[o] > 0, Alive(m, o)
  PROVE  LET u == UnrefFor(m, o, r)
         IN  /\ u \in Stores /\ SameBut(u, m, o) /\ u.prot = m.prot /\ u.listed = m.listed
             /\ u.refs[o] = m.refs[o] - 1
             /\ m.refs[o] > 1 =>
                   /\ u.kind[o] = m.kind[o] /\ u.eqns[o] = m.eqns[o]
                   /\ u.last = m.last /\ u.stack = m.stack
             /\ m.refs[o] = 1 =>
                   /\ u.kind[o] = (IF Stays(m, o) THEN "sys" ELSE "none")
                   /\ u.eqns[o] = 0
                   /\ u.last = IF m.last = o THEN Null ELSE m.last
                   /\ u.stack = IF r THEN m.stack ELSE Rest(m, o)
<1> DEFINE m1 == [m EXCEPT !.refs[o] = @ - 1]
<1>0. m.refs[o] \in Nat
  BY StoreParts
<1>1. /\ m1 \in Stores
      /\ m1.kind = m.kind /\ m1.refs[o] = m.refs[o] - 1 /\ m1.eqns = m.eqns
      /\ \A p \in Obj : p # o => m1.refs[p] = m.refs[p]
      /\ m1.prot = m.prot /\ m1.listed = m.listed /\ m1.stack = m.stack /\ m1.last = m.last
  BY <1>0 DEF Stores
<1>2. o # Null
  BY NullAssumption
<1>3. UnrefFor(m, o, r) = IF m1.refs[o] <= 0 THEN Destroy(m1, o, r) ELSE m1
  BY <1>2 DEF UnrefFor
<1> HIDE DEF m1
<1>4. CASE m.refs[o] > 1
  <2>1. UnrefFor(m, o, r) = m1
    BY <1>0, <1>1, <1>3, <1>4
  <2> QED
    BY <1>1, <1>4, <2>1 DEF SameBut
<1>5. CASE m.refs[o] = 1
  <2>1. UnrefFor(m, o, r) = Destroy(m1, o, r)
    BY <1>1, <1>3, <1>5
  <2>2. /\ m1.refs[o] = 0 /\ o \notin m1.prot /\ Alive(m1, o)
        /\ Stays(m1, o) <=> Stays(m, o)
        /\ Rest(m1, o) = Rest(m, o)
    BY <1>1, <1>5 DEF Alive, Stays, Rest
  <2>3. LET u == Destroy(m1, o, r)
        IN  /\ u \in Stores /\ SameBut(u, m1, o)
            /\ u.kind[o] = (IF Stays(m1, o) THEN "sys" ELSE "none")
            /\ u.refs[o] = 0 /\ u.eqns[o] = 0
            /\ u.prot = m1.prot /\ u.listed = m1.listed
            /\ u.last = IF m1.last = o THEN Null ELSE m1.last
            /\ u.stack = IF r THEN m1.stack ELSE Rest(m1, o)
    BY <1>1, <2>2, DestroyParts
  <2> QED
    BY <1>1, <1>5, <2>1, <2>2, <2>3 DEF SameBut
<1> QED
  BY <1>0, <1>4, <1>5

\* As UnrefParts, for an object that the stack does not hold or whose entry is
\* being replaced.
LEMMA ReleaseParts ==
  ASSUME NEW m \in Stores, NEW o \in Obj, NEW r \in BOOLEAN,
         o \notin m.prot, ~Protected(m, o), m.refs[o] > 0, Alive(m, o),
         m.refs[o] = 1 /\ ~r => o \notin Stacked(m)
  PROVE  LET u == UnrefFor(m, o, r)
         IN  /\ u \in Stores /\ SameBut(u, m, o) /\ u.prot = m.prot /\ u.listed = m.listed
             /\ u.refs[o] = m.refs[o] - 1
             /\ u.kind[o] = (IF m.refs[o] > 1 \/ Stays(m, o) THEN m.kind[o] ELSE "none")
             /\ Alive(u, o) => u.eqns[o] = m.eqns[o]
             /\ u.last = (IF m.refs[o] = 1 /\ m.last = o THEN Null ELSE m.last)
             /\ u.stack = m.stack
<1>0. m.refs[o] \in Nat
  BY StoreParts
<1>1. CASE m.refs[o] > 1
  BY <1>0, <1>1, UnrefParts
<1>2. CASE m.refs[o] = 1
  <2>1. ~r => Rest(m, o) = m.stack
    BY <1>2 DEF Rest, Stacked
  <2>2. LET u == UnrefFor(m, o, r)
        IN  /\ u \in Stores /\ SameBut(u, m, o) /\ u.prot = m.prot /\ u.listed = m.listed
            /\ u.refs[o] = m.refs[o] - 1
            /\ u.kind[o] = (IF Stays(m, o) THEN "sys" ELSE "none")
            /\ u.eqns[o] = 0
            /\ u.last = (IF m.last = o THEN Null ELSE m.last)
            /\ u.stack = IF r THEN m.stack ELSE Rest(m, o)
    BY <1>2, UnrefParts
  <2>3. UnrefFor(m, o, r).stack = m.stack
    BY <2>1, <2>2
  <2> QED
    BY <1>2, <2>2, <2>3 DEF Stays, Alive
<1> QED
  BY <1>0, <1>1, <1>2

----------------------------------------------------------------------------
Counts == [Obj -> Nat]

\* Y counts one place less than X for o, and as many for the others.
OneLess(Y, X, o) == \A p \in Obj : X[p] = Y[p] + IF p = o THEN 1 ELSE 0

\* Nothing that is alive afterwards has become something else.
Keeps(u, m) == \A p \in Obj : Alive(u, p) => u.kind[p] = m.kind[p] /\ u.eqns[p] = m.eqns[p]

\* What is held is alive, counted, and not in the way of a new object.
LEMMA UnusedFacts ==
  ASSUME NEW m, NEW X \in Counts, Sound(m, X), NEW o \in Obj, ~Alive(m, o)
  PROVE  m.last # o /\ o \notin Stacked(m) /\ X[o] = 0 /\ o \notin m.prot
  BY DEF Sound, HeldAlive, Held, ProtectedOnes, Alive, Counts

\* An object that nothing points at may take an address that is free.
LEMMA SoundNew ==
  ASSUME NEW m, NEW X \in Counts, Sound(m, X),
         NEW o \in Obj, ~Alive(m, o), NEW k \in Kind, k = "eqn" => o \notin m.listed
  PROVE  Sound(New(m, o, k), X)
<1> DEFINE u == New(m, o, k)
<1>1. /\ u \in Stores /\ SameBut(u, m, o)
      /\ u.kind[o] = k /\ u.refs[o] = 0 /\ u.eqns[o] = 0
      /\ u.prot = m.prot /\ u.listed = m.listed /\ u.last = m.last /\ u.stack = m.stack
  BY NewParts DEF Sound
<1>2. m.last # o /\ o \notin Stacked(m) /\ X[o] = 0 /\ o \notin m.prot
  BY UnusedFacts
<1>3. Stacked(u) = Stacked(m)
  BY <1>1 DEF Stacked
<1>4. m.prot \subseteq Obj /\ m.listed \subseteq Obj /\ k # "none"
  BY StoreParts DEF Sound, Kind
<1> HIDE DEF u
<1>5. Exact(u, X)
  BY <1>1, <1>2, <1>3 DEF Sound, Exact, Inside, Alive, SameBut
<1>6. HeldAlive(u, X)
  BY <1>1, <1>2, <1>3 DEF Sound, HeldAlive, Held, Alive, SameBut
<1>7. ProtectedOnes(u)
  BY <1>1, <1>2, <1>3, <1>4 DEF Sound, ProtectedOnes, SameBut
<1>8. Once(u) /\ Names(u)
  BY <1>1 DEF Sound, Once, Names
<1>9. Complete(u)
  BY <1>1, <1>2, <1>3 DEF Sound, Complete, SameBut
<1> QED
  BY <1>1, <1>5, <1>6, <1>7, <1>8, <1>9 DEF Sound, u

\* So may a protected model.
LEMMA SoundNewProtected ==
  ASSUME NEW m, NEW X \in Counts, Sound(m, X), NEW o \in Obj, ~Alive(m, o)
  PROVE  Sound(NewProtected(m, o), X)
<1> DEFINE u == NewProtected(m, o)
<1>1. /\ u \in Stores /\ SameBut(u, m, o)
      /\ u.kind[o] = "eqn" /\ u.refs[o] = 0 /\ u.eqns[o] = 0
      /\ u.prot = m.prot \cup {o} /\ u.listed = m.listed /\ u.last = m.last /\ u.stack = m.stack
  BY NewProtectedParts DEF Sound
<1>2. m.last # o /\ o \notin Stacked(m) /\ X[o] = 0 /\ o \notin m.prot
  BY UnusedFacts
<1>3. Stacked(u) = Stacked(m)
  BY <1>1 DEF Stacked
<1>4. m.prot \subseteq Obj /\ m.listed \subseteq Obj
  BY StoreParts DEF Sound
<1> HIDE DEF u
<1>5. Exact(u, X)
  BY <1>1, <1>2, <1>3 DEF Sound, Exact, Inside, Alive, SameBut
<1>6. HeldAlive(u, X)
  BY <1>1, <1>2, <1>3 DEF Sound, HeldAlive, Held, Alive, SameBut
<1>7. ProtectedOnes(u)
  BY <1>1, <1>2, <1>3, <1>4 DEF Sound, ProtectedOnes, SameBut
<1>8. Once(u) /\ Names(u)
  BY <1>1 DEF Sound, Once, Names
<1>9. Complete(u)
  BY <1>1, <1>2, <1>3 DEF Sound, Complete, SameBut
<1> QED
  BY <1>1, <1>5, <1>6, <1>7, <1>8, <1>9 DEF Sound, u

\* A reference counts one place more.
LEMMA SoundRef ==
  ASSUME NEW m, NEW X \in Counts, NEW Y \in Counts, Sound(m, X),
         NEW o \in Obj, Alive(m, o), OneLess(X, Y, o)
  PROVE  Sound(Ref(m, o), Y)
<1> DEFINE u == Ref(m, o)
<1>1. /\ u \in Stores /\ SameBut(u, m, o)
      /\ u.kind = m.kind /\ u.eqns = m.eqns
      /\ u.refs[o] = IF o \in m.prot THEN m.refs[o] ELSE m.refs[o] + 1
      /\ u.prot = m.prot /\ u.listed = m.listed /\ u.last = m.last /\ u.stack = m.stack
  BY RefParts DEF Sound
<1>2. Stacked(u) = Stacked(m)
  BY <1>1 DEF Stacked
<1>3. \A p \in Obj : p # o => Y[p] = X[p]
  BY DEF OneLess, Counts
<1>4. Y[o] = X[o] + 1 /\ X[o] \in Nat
  BY DEF OneLess, Counts
<1> HIDE DEF u
<1>5. Exact(u, Y)
  BY <1>1, <1>2, <1>3, <1>4 DEF Sound, Exact, Inside, Alive, SameBut
<1>6. HeldAlive(u, Y)
  BY <1>1, <1>2, <1>3 DEF Sound, HeldAlive, Held, Alive
<1>7. ProtectedOnes(u)
  BY <1>1, <1>2 DEF Sound, ProtectedOnes
<1>8. Once(u) /\ Names(u) /\ Complete(u)
  BY <1>1, <1>2 DEF Sound, Once, Names, Complete
<1> QED
  BY <1>1, <1>5, <1>6, <1>7, <1>8 DEF Sound, u

\* A place outside the store lets an object go: if that was the last place,
\* the object was in none of the store, so the store itself is as it was.
LEMMA SoundUnref ==
  ASSUME NEW m, NEW X \in Counts, NEW Y \in Counts, Sound(m, X),
         NEW o \in Obj, OneLess(Y, X, o)
  PROVE  LET u == Unref(m, o)
         IN  /\ Sound(u, Y) /\ SameBut(u, m, o) /\ Keeps(u, m)
             /\ u.prot = m.prot /\ u.listed = m.listed /\ u.last = m.last /\ u.stack = m.stack
             /\ Held(m, Y, o) \/ o \in m.prot => Alive(u, o)
<1> DEFINE u == Unref(m, o)
<1>0. X[o] = Y[o] + 1 /\ Y[o] \in Nat /\ Alive(m, o) /\ m \in Stores
  BY DEF OneLess, Counts, Sound, HeldAlive, Held
<1>1. \A p \in Obj : p # o => Y[p] = X[p]
  BY DEF OneLess, Counts
<1>2. CASE o \in m.prot
  <2>1. u = m
    BY <1>2, ProtectedFact DEF Unref, UnrefFor, Sound
  <2>2. Exact(m, Y) /\ HeldAlive(m, Y)
    BY <1>0, <1>1, <1>2 DEF Sound, Exact, Inside, HeldAlive, Held
  <2> QED
    BY <1>0, <2>1, <2>2 DEF Sound, SameBut, Keeps
<1>3. CASE o \notin m.prot
  <2>1. m.refs[o] = Inside(m, o) + Y[o] + 1
    BY <1>0, <1>3 DEF Sound, Exact, Inside
  <2>2. m.refs[o] > 0 /\ (m.refs[o] = 1 <=> ~Held(m, Y, o))
    BY <1>0, <2>1 DEF Inside, Held
  <2>3. m.refs[o] = 1 => m.last # o /\ o \notin Stacked(m)
    BY <2>2 DEF Held
  <2>4. /\ u \in Stores /\ SameBut(u, m, o) /\ u.prot = m.prot /\ u.listed = m.listed
        /\ u.refs[o] = m.refs[o] - 1
        /\ u.kind[o] = (IF m.refs[o] > 1 \/ Stays(m, o) THEN m.kind[o] ELSE "none")
        /\ Alive(u, o) => u.eqns[o] = m.eqns[o]
        /\ u.last = (IF m.refs[o] = 1 /\ m.last = o THEN Null ELSE m.last)
        /\ u.stack = m.stack
    <3>1. ~Protected(m, o)
      BY <1>3, ProtectedFact DEF Sound
    <3> QED
      BY <1>0, <1>3, <2>2, <2>3, <3>1, ReleaseParts DEF Unref
  <2>5. u.last = m.last /\ Stacked(u) = Stacked(m)
    BY <2>3, <2>4 DEF Stacked
  <2>6. m.refs[o] \in Nat
    BY <1>0, StoreParts
  <2> HIDE DEF u
  <2>7. Keeps(u, m) /\ (Held(m, Y, o) => Alive(u, o))
    BY <1>0, <2>2, <2>4, <2>6 DEF Keeps, SameBut, Alive
  <2>8. Exact(u, Y)
    BY <1>0, <1>1, <2>1, <2>4, <2>5, <2>7 DEF Sound, Exact, Inside, Alive, SameBut, Keeps
  <2>9. HeldAlive(u, Y)
    BY <1>0, <1>1, <2>4, <2>5, <2>7 DEF Sound, HeldAlive, Held, Alive, SameBut
  <2>10. ProtectedOnes(u)
    BY <1>3, <2>4, <2>5, <1>0, StoreParts DEF Sound, ProtectedOnes, SameBut
  <2>11. Once(u) /\ Names(u)
    BY <2>4 DEF Sound, Once, Names
  <2>12. Complete(u)
    BY <2>5, <2>7 DEF Sound, Complete, Keeps, Alive
  <2> QED
    BY <1>3, <2>4, <2>5, <2>7, <2>8, <2>9, <2>10, <2>11, <2>12 DEF Sound, u
<1> QED
  BY <1>2, <1>3

\* set_as_last_model does what it says, and takes nothing away but a former
\* last model that no other place holds.
LEMMA SoundSetLast ==
  ASSUME NEW m, NEW X \in Counts, Sound(m, X), NEW o \in Ptr,
         o # Null => Alive(m, o) /\ (m.kind[o] = "sys" => m.eqns[o] > 0)
  PROVE  LET u == SetLast(m, o)
         IN  /\ Sound(u, X) /\ Keeps(u, m)
             /\ u.last = o /\ u.prot = m.prot /\ u.listed = m.listed /\ u.stack = m.stack
             /\ \A p \in Obj : /\ Alive(m, p)
                               /\ p # m.last \/ p = o \/ p \in m.prot
                                  \/ p \in Stacked(m) \/ X[p] > 0
                               => Alive(u, p)
<1> DEFINE l == m.last
           m1 == IF l # o THEN Unref(m, l) ELSE m
           m2 == [m1 EXCEPT !.last = o]
           u == SetLast(m, o)
<1>0. m \in Stores /\ l \in Ptr
  BY StoreParts DEF Sound
<1>1. CASE l = o
  <2>1. u = m
    BY <1>1 DEF SetLast
  <2> QED
    BY <1>1, <2>1 DEF Keeps
<1>2. CASE l # o
  \* Without the former last model, whose count goes down by one.
  <2>1. /\ m1 \in Stores /\ Keeps(m1, m) /\ m1.prot = m.prot /\ m1.listed = m.listed /\ m1.stack = m.stack
        /\ \A p \in Obj : p # l => m1.refs[p] = m.refs[p] /\ m1.kind[p] = m.kind[p]
        /\ l # Null /\ l \notin m.prot => m1.refs[l] = m.refs[l] - 1
        /\ l # Null /\ (l \in m.prot \/ l \in Stacked(m) \/ X[l] > 0) => Alive(m1, l)
        /\ l # Null => Alive(m, l)
        /\ m1.last \in {l, Null}
    <3>1. CASE l = Null \/ l \in m.prot
      <4>1. m1 = m
        BY <1>2, <3>1, ProtectedFact DEF Unref, UnrefFor, Sound
      <4>2. l # Null => Alive(m, l)
        BY <1>0 DEF Sound, HeldAlive, Held, Ptr
      <4> QED
        BY <1>0, <3>1, <4>1, <4>2 DEF Keeps
    <3>2. CASE l # Null /\ l \notin m.prot
      <4>1. l \in Obj /\ Alive(m, l)
        BY <1>0, <3>2 DEF Sound, HeldAlive, Held, Ptr
      <4>2. X[l] \in Nat
        BY <4>1 DEF Counts
      <4>3. m.refs[l] = 1 + (IF l \in Stacked(m) THEN 1 ELSE 0) + X[l]
        BY <3>2, <4>1, <4>2 DEF Sound, Exact, Inside
      <4>4. m.refs[l] > 0 /\ (m.refs[l] = 1 => l \notin Stacked(m) /\ X[l] = 0)
        BY <4>2, <4>3
      <4>5. LET w == UnrefFor(m, l, FALSE)
            IN  /\ w \in Stores /\ SameBut(w, m, l) /\ w.prot = m.prot /\ w.listed = m.listed
                /\ w.refs[l] = m.refs[l] - 1
                /\ w.kind[l] = (IF m.refs[l] > 1 \/ Stays(m, l) THEN m.kind[l] ELSE "none")
                /\ Alive(w, l) => w.eqns[l] = m.eqns[l]
                /\ w.last = (IF m.refs[l] = 1 /\ m.last = l THEN Null ELSE m.last)
                /\ w.stack = m.stack
        <5>1. ~Protected(m, l)
          BY <3>2, ProtectedFact DEF Sound
        <5> QED
          BY <1>0, <3>2, <4>1, <4>4, <5>1, ReleaseParts
      <4>6. m1 = UnrefFor(m, l, FALSE)
        BY <1>2 DEF Unref
      <4> HIDE DEF m1
      <4>7. Keeps(m1, m)
        BY <4>5, <4>6 DEF Keeps, SameBut, Alive
      <4>8. \A p \in Obj : p # l => m1.refs[p] = m.refs[p] /\ m1.kind[p] = m.kind[p]
        BY <4>5, <4>6 DEF SameBut
      <4>9. m.refs[l] > 1 => Alive(m1, l)
        BY <4>1, <4>5, <4>6 DEF Alive
      <4>10. m.refs[l] \in Nat
        BY <1>0, <4>1, StoreParts
      <4>11. (l \in m.prot \/ l \in Stacked(m) \/ X[l] > 0) => Alive(m1, l)
        BY <3>2, <4>2, <4>3, <4>4, <4>9, <4>10
      <4> QED
        BY <3>2, <4>1, <4>5, <4>6, <4>7, <4>8, <4>11
    <3> QED
      BY <3>1, <3>2
  <2>2. m1.last = o => o = Null
    BY <1>2, <2>1
  <2>3. u = IF o = Null THEN m2 ELSE Ref(m2, o)
    <3>1. CASE m1.last = o
      <4>1. m2 = m1
        BY <2>1, <3>1 DEF Stores
      <4> QED
        BY <1>2, <2>2, <3>1, <4>1 DEF SetLast
    <3>2. CASE m1.last # o
      BY <1>2, <3>2 DEF SetLast
    <3> QED
      BY <3>1, <3>2
  <2>4. /\ m2 \in Stores /\ m2.kind = m1.kind /\ m2.refs = m1.refs /\ m2.eqns = m1.eqns
        /\ m2.prot = m.prot /\ m2.listed = m.listed /\ m2.stack = m.stack /\ m2.last = o
    BY <2>1 DEF Stores
  <2>5. o # Null => o \in Obj /\ o # l /\ Alive(m2, o)
    BY <1>2, <2>1, <2>4 DEF Ptr, Alive
  <2> HIDE DEF m1, m2, u
  <2>6. /\ u \in Stores /\ u.kind = m1.kind /\ u.eqns = m1.eqns
        /\ u.prot = m.prot /\ u.listed = m.listed /\ u.stack = m.stack /\ u.last = o
        /\ \A p \in Obj : u.refs[p] = m1.refs[p] + IF p = o /\ p \notin m.prot THEN 1 ELSE 0
    <3>1. \A p \in Obj : m1.refs[p] \in Nat
      BY <2>1, StoreParts
    <3>2. CASE o = Null
      BY <2>3, <2>4, <3>1, <3>2, NullAssumption
    <3>3. CASE o # Null
      <4>1. LET w == Ref(m2, o)
            IN  /\ w \in Stores /\ SameBut(w, m2, o)
                /\ w.kind = m2.kind /\ w.eqns = m2.eqns
                /\ w.refs[o] = IF o \in m2.prot THEN m2.refs[o] ELSE m2.refs[o] + 1
                /\ w.prot = m2.prot /\ w.listed = m2.listed /\ w.last = m2.last /\ w.stack = m2.stack
        BY <2>4, <2>5, <3>3, RefParts
      <4> QED
        BY <2>3, <2>4, <2>5, <3>1, <3>3, <4>1 DEF SameBut
    <3> QED
      BY <3>2, <3>3
  <2>7. Stacked(u) = Stacked(m)
    BY <2>6 DEF Stacked
  <2> HIDE DEF l
  <2>8. Keeps(u, m)
    BY <2>1, <2>6 DEF Keeps, Alive
  <2>9. \A p \in Obj : /\ Alive(m, p)
                       /\ p # l \/ p = o \/ p \in m.prot
                          \/ p \in Stacked(m) \/ X[p] > 0
                       => Alive(u, p)
    BY <1>2, <2>1, <2>6, NullAssumption DEF Alive
  <2>10. Exact(u, X)
    <3> SUFFICES ASSUME NEW p \in Obj, Alive(u, p), p \notin u.prot
                 PROVE  u.refs[p] = Inside(u, p) + X[p]
      BY DEF Exact
    <3>1. Alive(m, p) /\ p \notin m.prot /\ X[p] \in Nat
      BY <2>1, <2>6, <2>8 DEF Keeps, Alive, Counts
    <3>2. m.refs[p] = Inside(m, p) + X[p]
      BY <3>1 DEF Sound, Exact
    <3>3. m1.refs[p] = m.refs[p] - IF p = l THEN 1 ELSE 0
      <4>1. m.refs[p] \in Nat
        BY <1>0, StoreParts
      <4> QED
        BY <2>1, <3>1, <4>1, NullAssumption
    <3>4. u.refs[p] = m1.refs[p] + IF p = o THEN 1 ELSE 0
      BY <2>6, <3>1
    <3>5. Inside(m, p) = (IF p = l THEN 1 ELSE 0) + IF p \in Stacked(m) THEN 1 ELSE 0
      BY DEF Inside, l
    <3>6. Inside(u, p) = (IF p = o THEN 1 ELSE 0) + IF p \in Stacked(m) THEN 1 ELSE 0
      BY <2>6, <2>7 DEF Inside
    <3> QED
      BY <1>2, <3>1, <3>2, <3>3, <3>4, <3>5, <3>6
  <2>11. HeldAlive(u, X)
    BY <1>2, <2>6, <2>7, <2>9, NullAssumption DEF Sound, HeldAlive, Held
  <2>12. ProtectedOnes(u)
    BY <1>0, <2>6, <2>7, <2>8, <2>9, StoreParts DEF Sound, ProtectedOnes, Keeps, Alive
  <2>13. Once(u) /\ Names(u)
    BY <2>6 DEF Sound, Once, Names
  <2>14. Complete(u)
    BY <2>6, <2>7, <2>8, NullAssumption DEF Sound, Complete, Keeps, Alive
  <2>15. l = m.last
    BY DEF l
  <2> QED
    BY <2>6, <2>8, <2>9, <2>10, <2>11, <2>12, <2>13, <2>14, <2>15 DEF Sound, u
<1> QED
  BY <1>1, <1>2

\* real_stack_object adds the object under the name, in the place of the one
\* that had it; only that one may be gone.
LEMMA SoundStackAs ==
  ASSUME NEW m, NEW X \in Counts, Sound(m, X), NEW o \in Obj, NEW n \in Name,
         Alive(m, o), o \notin m.prot, m.kind[o] = "sys" => m.eqns[o] > 0
  PROVE  LET u == StackAs(m, o, n)
         IN  /\ Sound(u, X) /\ Keeps(u, m)
             /\ u.last = m.last /\ u.prot = m.prot /\ u.listed = m.listed
             /\ Stacked(u) \subseteq Stacked(m) \cup {o} /\ o \in Stacked(u)
             /\ \A p \in Obj : /\ Alive(m, p)
                               /\ p = m.last \/ p \notin Stacked(m) \/ p = o \/ X[p] > 0
                               => Alive(u, p)
<1> DEFINE u == StackAs(m, o, n)
           orig == {e \in m.stack : e.kind = m.kind[o] /\ e.name = n}
           slot == [ptr |-> o, kind |-> m.kind[o], name |-> n]
           it == (CHOOSE e \in orig : TRUE).ptr
           m1 == IF orig = {} THEN m ELSE UnrefFor(m, it, TRUE)
           m2 == [m1 EXCEPT !.stack = (@ \ orig) \cup {slot}]
<1>0. /\ m \in Stores /\ m.stack \subseteq Entries /\ m.kind[o] \in Kind
      /\ \A p : p \in Stacked(m) <=> \E e \in m.stack : e.ptr = p
  BY StoreParts, StackedFact DEF Sound, Alive
<1>1. CASE o \in Stacked(m)
  <2>1. u = m
    BY <1>1 DEF StackAs
  <2> QED
    BY <1>1, <2>1 DEF Keeps
<1>2. CASE o \notin Stacked(m)
  <2>1. u = Ref(m2, o)
    BY <1>2 DEF StackAs
  <2>2. slot \in Entries
    BY <1>0 DEF Entries
  \* The one that had the name, if any, is the only one at its address.
  <2>3. \A e \in orig : \A f \in m.stack : f.ptr = e.ptr => f = e
    BY DEF Sound, Once
  <2>4. \A e, f \in orig : e = f
    BY DEF Sound, Names
  <2>5. orig # {} => /\ it \in Obj /\ it \in Stacked(m) /\ it # o
                     /\ \A e \in orig : e.ptr = it
    <3> SUFFICES ASSUME orig # {}
                 PROVE  /\ it \in Obj /\ it \in Stacked(m) /\ it # o
                        /\ \A e \in orig : e.ptr = it
      OBVIOUS
    <3>1. PICK e \in orig : TRUE
      OBVIOUS
    <3>2. (CHOOSE x \in orig : TRUE) \in orig
      BY <3>1
    <3>3. (CHOOSE x \in orig : TRUE) = e
      BY <2>4, <3>1, <3>2
    <3>4. it = e.ptr /\ e \in m.stack
      BY <3>1, <3>3
    <3>5. e.ptr \in Obj
      BY <1>0, <3>4 DEF Entries
    <3> HIDE DEF it, orig
    <3> QED
      BY <1>0, <1>2, <2>4, <3>1, <3>4, <3>5
  <2> HIDE DEF it
  <2>6. /\ m1 \in Stores /\ Keeps(m1, m) /\ m1.prot = m.prot /\ m1.listed = m.listed /\ m1.stack = m.stack
        /\ m1.last = m.last
        /\ \A p \in Obj : orig = {} \/ p # it => m1.refs[p] = m.refs[p] /\ m1.kind[p] = m.kind[p]
        /\ orig # {} => m1.refs[it] = m.refs[it] - 1
        /\ orig # {} /\ (it = m.last \/ X[it] > 0) => Alive(m1, it)
    <3>1. CASE orig = {}
      BY <1>0, <3>1 DEF Keeps
    <3>2. CASE orig # {}
      <4>1. it \in Obj /\ it \in Stacked(m) /\ Alive(m, it) /\ it \notin m.prot
        BY <2>5, <3>2 DEF Sound, HeldAlive, Held, ProtectedOnes
      <4>2. X[it] \in Nat
        BY <4>1 DEF Counts
      <4>3. m.refs[it] = 1 + (IF m.last = it THEN 1 ELSE 0) + X[it]
        BY <4>1, <4>2 DEF Sound, Exact, Inside
      <4>4. m.refs[it] > 0 /\ (m.refs[it] = 1 => it # m.last /\ X[it] = 0)
        BY <4>2, <4>3
      <4>5. LET w == UnrefFor(m, it, TRUE)
            IN  /\ w \in Stores /\ SameBut(w, m, it) /\ w.prot = m.prot /\ w.listed = m.listed
                /\ w.refs[it] = m.refs[it] - 1
                /\ w.kind[it] = (IF m.refs[it] > 1 \/ Stays(m, it) THEN m.kind[it] ELSE "none")
                /\ Alive(w, it) => w.eqns[it] = m.eqns[it]
                /\ w.last = (IF m.refs[it] = 1 /\ m.last = it THEN Null ELSE m.last)
                /\ w.stack = m.stack
        <5>1. ~Protected(m, it)
          BY <4>1, ProtectedFact DEF Sound
        <5> QED
          BY <1>0, <4>1, <4>4, <5>1, ReleaseParts
      <4>6. m1 = UnrefFor(m, it, TRUE)
        BY <3>2
      <4> HIDE DEF m1
      <4>7. Keeps(m1, m)
        BY <4>5, <4>6 DEF Keeps, SameBut, Alive
      <4>8. \A p \in Obj : p # it => m1.refs[p] = m.refs[p] /\ m1.kind[p] = m.kind[p]
        BY <4>5, <4>6 DEF SameBut
      <4>9. m.refs[it] \in Nat
        BY <1>0, <4>1, StoreParts
      <4>10. (it = m.last \/ X[it] > 0) => Alive(m1, it)
        <5>1. (it = m.last \/ X[it] > 0) => m.refs[it] > 1
          BY <4>2, <4>3
        <5> QED
          BY <4>1, <4>5, <4>6, <5>1 DEF Alive
      <4>11. m1.last = m.last
        BY <4>4, <4>5, <4>6
      <4> QED
        BY <3>2, <4>5, <4>6, <4>7, <4>8, <4>10, <4>11
    <3> QED
      BY <3>1, <3>2
  <2> HIDE DEF m1, slot
  <2>7. /\ m2 \in Stores /\ m2.kind = m1.kind /\ m2.refs = m1.refs /\ m2.eqns = m1.eqns
        /\ m2.prot = m.prot /\ m2.listed = m.listed /\ m2.stack = (m.stack \ orig) \cup {slot} /\ m2.last = m.last
    BY <1>0, <2>2, <2>6 DEF Stores
  <2> HIDE DEF m2, u
  <2>8. /\ u \in Stores /\ u.kind = m1.kind /\ u.eqns = m1.eqns
        /\ u.prot = m.prot /\ u.listed = m.listed /\ u.stack = (m.stack \ orig) \cup {slot} /\ u.last = m.last
        /\ \A p \in Obj : u.refs[p] = m1.refs[p] + IF p = o THEN 1 ELSE 0
    <3>1. \A p \in Obj : m1.refs[p] \in Nat
      BY <2>6, StoreParts
    <3>2. LET w == Ref(m2, o)
          IN  /\ w \in Stores /\ SameBut(w, m2, o)
              /\ w.kind = m2.kind /\ w.eqns = m2.eqns
              /\ w.refs[o] = IF o \in m2.prot THEN m2.refs[o] ELSE m2.refs[o] + 1
              /\ w.prot = m2.prot /\ w.listed = m2.listed /\ w.last = m2.last /\ w.stack = m2.stack
      BY <2>7, RefParts
    <3> QED
      BY <2>1, <2>7, <3>1, <3>2 DEF SameBut
  <2>9. \A p : p \in Stacked(u) <=> (p = o \/ (p \in Stacked(m) /\ (orig = {} \/ p # it)))
    <3>1. \A p : p \in Stacked(u) <=> \E e \in u.stack : e.ptr = p
      BY DEF Stacked
    <3>2. slot.ptr = o
      BY DEF slot
    <3>3. ASSUME NEW p, p \in Stacked(u)
          PROVE  p = o \/ (p \in Stacked(m) /\ (orig = {} \/ p # it))
      <4>1. PICK e \in u.stack : e.ptr = p
        BY <3>1, <3>3
      <4>2. e = slot \/ e \in m.stack \ orig
        BY <2>8
      <4>3. ASSUME e \in m.stack \ orig PROVE  p \in Stacked(m) /\ (orig = {} \/ p # it)
        <5>1. ASSUME NEW f \in orig PROVE f.ptr # p
          BY <2>3, <4>1, <4>3, <5>1
        <5> HIDE DEF orig
        <5> QED
          BY <1>0, <2>5, <4>1, <4>3, <5>1
      <4> HIDE DEF orig
      <4> QED
        BY <3>2, <4>1, <4>2, <4>3
    <3>4. o \in Stacked(u)
      BY <2>8, <3>1, <3>2
    <3>5. ASSUME NEW p, p \in Stacked(m), orig = {} \/ p # it
          PROVE  p \in Stacked(u)
      <4>1. PICK e \in m.stack : e.ptr = p
        BY <1>0, <3>5
      <4>2. e \notin orig
        BY <2>5, <3>5, <4>1
      <4> HIDE DEF orig
      <4> QED
        BY <2>8, <3>1, <4>1, <4>2
    <3> HIDE DEF orig
    <3> QED
      BY <3>3, <3>4, <3>5
  <2>10. Keeps(u, m)
    BY <2>6, <2>8 DEF Keeps, Alive
  <2>11. ASSUME NEW p \in Obj, Alive(m, p),
                p = m.last \/ p \notin Stacked(m) \/ p = o \/ X[p] > 0
         PROVE  Alive(u, p)
    <3>1. orig = {} \/ p # it \/ p = m.last \/ X[p] > 0
      BY <1>2, <2>5, <2>11
    <3> HIDE DEF orig
    <3> QED
      BY <2>6, <2>8, <2>11, <3>1 DEF Alive
  <2>12. Once(u) /\ Names(u)
    <3>1. \A e \in m.stack \ orig : e.ptr # slot.ptr
      BY <1>0, <1>2 DEF slot
    <3>2. \A e \in m.stack \ orig : ~(e.kind = slot.kind /\ e.name = slot.name)
      BY DEF slot
    <3> HIDE DEF orig
    <3>3. Once(u)
      BY <2>8, <3>1 DEF Sound, Once
    <3>4. Names(u)
      BY <2>8, <3>2 DEF Sound, Names
    <3> QED
      BY <3>3, <3>4
  <2> HIDE DEF orig
  <2>13. Exact(u, X)
    <3> SUFFICES ASSUME NEW p \in Obj, Alive(u, p), p \notin u.prot
                 PROVE  u.refs[p] = Inside(u, p) + X[p]
      BY DEF Exact
    <3>1. Alive(m, p) /\ p \notin m.prot /\ X[p] \in Nat /\ m.refs[p] \in Nat
      BY <1>0, <2>8, <2>10, StoreParts DEF Keeps, Alive, Counts
    <3>2. m.refs[p] = Inside(m, p) + X[p]
      BY <3>1 DEF Sound, Exact
    <3>3. u.refs[p] = m.refs[p] - (IF orig # {} /\ p = it THEN 1 ELSE 0)
                                + IF p = o THEN 1 ELSE 0
      BY <2>5, <2>6, <2>8, <3>1
    <3>4. Inside(u, p) = Inside(m, p) - (IF orig # {} /\ p = it THEN 1 ELSE 0)
                                      + IF p = o THEN 1 ELSE 0
      BY <1>2, <2>5, <2>8, <2>9 DEF Inside
    <3>5. Inside(m, p) \in Nat
      BY DEF Inside
    <3> QED
      BY <3>1, <3>2, <3>3, <3>4, <3>5
  <2>14. HeldAlive(u, X)
    <3> SUFFICES ASSUME NEW p \in Obj, Held(u, X, p) PROVE Alive(u, p)
      BY DEF HeldAlive
    <3>1. p = m.last \/ X[p] > 0 \/ p = o \/ (p \in Stacked(m) /\ (orig = {} \/ p # it))
      BY <2>8, <2>9 DEF Held
    <3>2. Alive(m, p)
      BY <3>1 DEF Sound, HeldAlive, Held
    <3>3. CASE p = m.last \/ X[p] > 0 \/ p = o
      BY <2>11, <3>2, <3>3
    <3>4. CASE orig = {} \/ p # it
      BY <2>6, <2>8, <3>2, <3>4 DEF Alive
    <3> QED
      BY <3>1, <3>3, <3>4
  <2>15. ProtectedOnes(u)
    <3>0. \A p \in m.listed : u.kind[p] = "eqn" => p \in m.prot
      BY <1>0, <2>10, StoreParts DEF Sound, ProtectedOnes, Keeps, Alive
    <3> SUFFICES ASSUME NEW p \in m.prot PROVE u.kind[p] = "eqn" /\ p \notin Stacked(u)
      BY <2>8, <3>0 DEF ProtectedOnes
    <3>1. p \in Obj /\ m.kind[p] = "eqn" /\ p \notin Stacked(m)
      BY <1>0, StoreParts DEF Sound, ProtectedOnes
    <3>2. Alive(u, p)
      BY <2>11, <3>1 DEF Alive
    <3> QED
      BY <2>9, <2>10, <3>1, <3>2 DEF Keeps
  <2>16. Complete(u)
    <3> SUFFICES ASSUME NEW p \in Obj, u.kind[p] = "sys", u.last = p \/ p \in Stacked(u)
                 PROVE  u.eqns[p] > 0
      BY DEF Complete
    <3>1. m.kind[p] = "sys" /\ u.eqns[p] = m.eqns[p]
      BY <2>10 DEF Keeps, Alive
    <3>2. p = o \/ m.last = p \/ p \in Stacked(m)
      BY <2>8, <2>9
    <3> QED
      BY <3>1, <3>2 DEF Sound, Complete
  <2> QED
    BY <2>8, <2>9, <2>10, <2>11, <2>12, <2>13, <2>14, <2>15, <2>16 DEF Sound, u
<1> QED
  BY <1>1, <1>2

\* gretl_object_remove_from_stack.
LEMMA SoundRemove ==
  ASSUME NEW m, NEW X \in Counts, Sound(m, X), NEW o \in Obj, o \in Stacked(m)
  PROVE  LET u == RemoveFromStack(m, o)
         IN  /\ Sound(u, X) /\ SameBut(u, m, o) /\ Keeps(u, m)
             /\ u.prot = m.prot /\ u.listed = m.listed /\ u.last = m.last
             /\ Stacked(u) = Stacked(m) \ {o}
             /\ (m.last = o \/ X[o] > 0) => Alive(u, o)
<1> DEFINE m1 == OffStack(m, o)
           u == RemoveFromStack(m, o)
<1>0. m \in Stores /\ Alive(m, o) /\ o \notin m.prot /\ X[o] \in Nat
  BY DEF Sound, HeldAlive, Held, ProtectedOnes, Counts
<1>1. /\ m1 \in Stores
      /\ m1.kind = m.kind /\ m1.refs = m.refs /\ m1.eqns = m.eqns
      /\ m1.prot = m.prot /\ m1.listed = m.listed /\ m1.last = m.last /\ m1.stack = Rest(m, o)
  BY <1>0, OffStackParts
<1> HIDE DEF m1
<1>2. Stacked(m1) = Stacked(m) \ {o}
  BY <1>1 DEF Stacked, Rest
<1>3. m1.refs[o] = 1 + (IF m.last = o THEN 1 ELSE 0) + X[o]
  BY <1>0, <1>1 DEF Sound, Exact, Inside
<1>4. /\ m1.refs[o] > 0 /\ (m1.refs[o] = 1 => m1.last # o /\ X[o] = 0)
      /\ (m.last = o \/ X[o] > 0) => m1.refs[o] > 1
  BY <1>0, <1>1, <1>3
<1>5. Alive(m1, o) /\ o \notin m1.prot /\ o \notin Stacked(m1)
  BY <1>0, <1>1, <1>2 DEF Alive
<1>6. u = UnrefFor(m1, o, FALSE)
  BY DEF RemoveFromStack, Unref, m1
<1> HIDE DEF u
<1>7. /\ u \in Stores /\ SameBut(u, m1, o) /\ u.prot = m1.prot /\ u.listed = m1.listed
      /\ u.refs[o] = m1.refs[o] - 1
      /\ u.kind[o] = (IF m1.refs[o] > 1 \/ Stays(m1, o) THEN m1.kind[o] ELSE "none")
      /\ Alive(u, o) => u.eqns[o] = m1.eqns[o]
      /\ u.last = (IF m1.refs[o] = 1 /\ m1.last = o THEN Null ELSE m1.last)
      /\ u.stack = m1.stack
  <2>1. ~Protected(m1, o)
    BY <1>0, <1>1, <1>5, ProtectedFact DEF Sound, Protected
  <2> QED
    BY <1>1, <1>4, <1>5, <1>6, <2>1, ReleaseParts
<1>8. u.last = m.last /\ Stacked(u) = Stacked(m) \ {o}
  <2>1. Stacked(u) = Stacked(m1)
    BY <1>7 DEF Stacked
  <2> QED
    BY <1>1, <1>2, <1>4, <1>7, <2>1
<1>9. Keeps(u, m) /\ SameBut(u, m, o)
  BY <1>0, <1>1, <1>7 DEF Keeps, SameBut, Alive
<1>10. (m.last = o \/ X[o] > 0) => Alive(u, o)
  BY <1>4, <1>5, <1>7 DEF Alive
<1>11. Exact(u, X)
  <2> SUFFICES ASSUME NEW p \in Obj, Alive(u, p), p \notin u.prot
               PROVE  u.refs[p] = Inside(u, p) + X[p]
    BY DEF Exact
  <2>1. Alive(m, p) /\ p \notin m.prot /\ X[p] \in Nat /\ m.refs[p] \in Nat
    BY <1>0, <1>1, <1>7, <1>9, StoreParts DEF Keeps, Alive, Counts
  <2>2. m.refs[p] = Inside(m, p) + X[p]
    BY <2>1 DEF Sound, Exact
  <2>3. u.refs[p] = m.refs[p] - IF p = o THEN 1 ELSE 0
    BY <1>1, <1>7, <1>9, <2>1 DEF SameBut
  <2>4. Inside(u, p) = Inside(m, p) - IF p = o THEN 1 ELSE 0
    BY <1>8 DEF Inside
  <2>5. Inside(m, p) \in Nat
    BY DEF Inside
  <2> QED
    BY <2>1, <2>2, <2>3, <2>4, <2>5
<1>12. HeldAlive(u, X)
  <2> SUFFICES ASSUME NEW p \in Obj, Held(u, X, p) PROVE Alive(u, p)
    BY DEF HeldAlive
  <2>1. Held(m, X, p) /\ (p = o => m.last = o \/ X[o] > 0)
    BY <1>8 DEF Held
  <2>2. Alive(m, p)
    BY <2>1 DEF Sound, HeldAlive
  <2> QED
    BY <1>9, <1>10, <2>1, <2>2 DEF SameBut, Alive
<1>13. ProtectedOnes(u)
  <2>0. \A p \in m.listed : u.kind[p] = "eqn" => p \in m.prot
    BY <1>0, <1>9, StoreParts DEF Sound, ProtectedOnes, Keeps, Alive
  <2> SUFFICES ASSUME NEW p \in m.prot PROVE u.kind[p] = "eqn" /\ p \notin Stacked(u)
    BY <1>1, <1>7, <2>0 DEF ProtectedOnes
  <2>1. p \in Obj /\ m.kind[p] = "eqn" /\ p \notin Stacked(m) /\ p # o
    BY <1>0, StoreParts DEF Sound, ProtectedOnes
  <2> QED
    BY <1>8, <1>9, <2>1 DEF SameBut
<1>14. Once(u) /\ Names(u)
  BY <1>1, <1>7 DEF Sound, Once, Names, Rest
<1>15. Complete(u)
  BY <1>8, <1>9 DEF Sound, Complete, Keeps, Alive
<1> QED
  BY <1>1, <1>7, <1>8, <1>9, <1>10, <1>11, <1>12, <1>13, <1>14, <1>15 DEF Sound, u

\* Only what is freed, in a free of objects that nothing in the store holds.
LEMMA SoundFree ==
  ASSUME NEW m, NEW X \in Counts, Sound(m, X), NEW S \in SUBSET Obj,
         \A o \in S : Gone(m, o) => ~Held(m, X, o) /\ o \notin m.prot,
         \A o \in S : ~Gone(m, o) => ~Counted(m, o)
  PROVE  LET u == Free(m, S)
         IN  /\ Sound(u, X) /\ Keeps(u, m)
             /\ u.prot = m.prot /\ u.listed = m.listed /\ u.last = m.last /\ u.stack = m.stack
             /\ \A p \in Obj : (p \notin S \/ ~Gone(m, p)) => u.kind[p] = m.kind[p]
             /\ \A p \in S : Gone(m, p) => ~Alive(u, p)
<1> DEFINE u == Free(m, S)
<1>0. m \in Stores
  BY DEF Sound
<1>1. /\ u \in Stores
      /\ \A p \in Obj : (p \notin S \/ ~Gone(m, p)) => /\ u.kind[p] = m.kind[p]
                                                     /\ u.refs[p] = m.refs[p]
                                                     /\ u.eqns[p] = m.eqns[p]
      /\ \A p \in Obj : p \in S /\ Gone(m, p) => u.kind[p] = "none"
      /\ u.prot = m.prot /\ u.listed = m.listed /\ u.last = m.last /\ u.stack = m.stack
  BY <1>0, FreeParts
<1>2. Stacked(u) = Stacked(m)
  BY <1>1 DEF Stacked
<1> HIDE DEF u
<1>3. Keeps(u, m)
  BY <1>1 DEF Keeps, Alive
<1>4. \A p \in Obj : Alive(u, p) => u.refs[p] = m.refs[p] /\ u.kind[p] = m.kind[p]
  BY <1>1 DEF Alive
<1>5. Exact(u, X)
  BY <1>1, <1>2, <1>4 DEF Sound, Exact, Inside, Alive
<1>6. HeldAlive(u, X)
  BY <1>1, <1>2 DEF Sound, HeldAlive, Held, Alive
<1>7. ProtectedOnes(u)
  BY <1>0, <1>1, <1>2, StoreParts DEF Sound, ProtectedOnes
<1>8. Once(u) /\ Names(u)
  BY <1>1 DEF Sound, Once, Names
<1>9. Complete(u)
  BY <1>1, <1>2, <1>3 DEF Sound, Complete, Keeps, Alive
<1> QED
  BY <1>1, <1>3, <1>5, <1>6, <1>7, <1>8, <1>9 DEF Sound, u, Alive

\* A protection that ends for objects that nothing holds, which are freed.
LEMMA SoundUnprotect ==
  ASSUME NEW m, NEW X \in Counts, Sound(m, X), NEW S \in SUBSET m.prot,
         \A o \in S : m.last # o /\ X[o] = 0
  PROVE  LET w == [m EXCEPT !.prot = @ \ S]
             u == Free(w, S)
         IN  /\ Sound(u, X) /\ Keeps(u, m)
             /\ u.prot = m.prot \ S /\ u.listed = m.listed /\ u.last = m.last /\ u.stack = m.stack
             /\ \A p \in Obj \ S : u.kind[p] = m.kind[p]
             /\ \A p \in S : ~Alive(u, p)
<1> DEFINE w == [m EXCEPT !.prot = @ \ S]
           u == Free(w, S)
<1>0. m \in Stores /\ S \subseteq Obj
  BY StoreParts DEF Sound
<1>1. /\ w \in Stores
      /\ w.kind = m.kind /\ w.refs = m.refs /\ w.eqns = m.eqns
      /\ w.prot = m.prot \ S /\ w.listed = m.listed /\ w.last = m.last /\ w.stack = m.stack
  BY <1>0 DEF Stores
<1> HIDE DEF w
<1>2. \A p \in S : Gone(w, p)
  BY <1>1 DEF Gone, Sound, ProtectedOnes
<1>3. /\ u \in Stores
      /\ \A p \in Obj \ S : /\ u.kind[p] = m.kind[p] /\ u.refs[p] = m.refs[p]
                            /\ u.eqns[p] = m.eqns[p]
      /\ \A p \in S : u.kind[p] = "none"
      /\ u.prot = m.prot \ S /\ u.listed = m.listed /\ u.last = m.last /\ u.stack = m.stack
  BY <1>0, <1>1, <1>2, FreeParts
<1>4. Stacked(u) = Stacked(m)
  BY <1>3 DEF Stacked
<1> HIDE DEF u
<1>5. Keeps(u, m)
  BY <1>3 DEF Keeps, Alive
<1>6. \A p \in S : p \notin Stacked(m)
  BY DEF Sound, ProtectedOnes
<1>7. Exact(u, X)
  BY <1>3, <1>4 DEF Sound, Exact, Inside, Alive
<1>8. HeldAlive(u, X)
  BY <1>3, <1>4, <1>6 DEF Sound, HeldAlive, Held, Alive
<1>9. ProtectedOnes(u)
  BY <1>0, <1>3, <1>4, StoreParts DEF Sound, ProtectedOnes
<1>10. Once(u) /\ Names(u)
  BY <1>3 DEF Sound, Once, Names
<1>11. Complete(u)
  BY <1>3, <1>4, <1>5 DEF Sound, Complete, Keeps, Alive
<1> QED
  BY <1>3, <1>5, <1>7, <1>8, <1>9, <1>10, <1>11 DEF Sound, u, w, Alive

\* The lists of the loops that currloop leads to become other lists.
LEMMA SoundListed ==
  ASSUME NEW m, NEW X \in Counts, Sound(m, X), NEW L \in SUBSET Obj,
         \A o \in L : m.kind[o] = "eqn" => o \in m.prot
  PROVE  LET u == [m EXCEPT !.listed = L]
         IN  /\ Sound(u, X) /\ Keeps(u, m)
             /\ u.kind = m.kind /\ u.refs = m.refs /\ u.eqns = m.eqns
             /\ u.prot = m.prot /\ u.last = m.last /\ u.stack = m.stack
<1> DEFINE u == [m EXCEPT !.listed = L]
<1>1. /\ u \in Stores /\ u.listed = L
      /\ u.kind = m.kind /\ u.refs = m.refs /\ u.eqns = m.eqns
      /\ u.prot = m.prot /\ u.last = m.last /\ u.stack = m.stack
  BY DEF Sound, Stores
<1> HIDE DEF u
<1>2. Stacked(u) = Stacked(m)
  BY <1>1 DEF Stacked
<1>3. Exact(u, X) /\ HeldAlive(u, X)
  BY <1>1, <1>2 DEF Sound, Exact, HeldAlive, Held, Inside, Alive
<1>4. ProtectedOnes(u)
  BY <1>1, <1>2 DEF Sound, ProtectedOnes
<1>5. Once(u) /\ Names(u) /\ Complete(u)
  BY <1>1, <1>2 DEF Sound, Once, Names, Complete
<1>6. Sound(u, X) /\ Keeps(u, m)
  BY <1>1, <1>3, <1>4, <1>5 DEF Sound, Keeps
<1> QED
  BY <1>1, <1>6 DEF u

\* destroy_working_model, of a model that is not the last one.
LEMMA SoundDestroyWorkingModel ==
  ASSUME NEW m, NEW X \in Counts, Sound(m, X), NEW o \in m.prot,
         m.last # o, X[o] = 0
  PROVE  LET u == DestroyWorkingModel(m, o)
         IN  /\ Sound(u, X) /\ Keeps(u, m)
             /\ u.prot = m.prot \ {o} /\ u.listed = m.listed /\ u.last = m.last /\ u.stack = m.stack
             /\ \A p \in Obj \ {o} : u.kind[p] = m.kind[p]
             /\ ~Alive(u, o)
<1> DEFINE w == [m EXCEPT !.prot = @ \ {o}]
<1>1. m \in Stores /\ o \notin Stacked(m)
  BY DEF Sound, ProtectedOnes
<1>2. OffStack(m, o) = m
  <2>1. {e \in m.stack : e.ptr # o} = m.stack
    BY <1>1 DEF Stacked
  <2> QED
    BY <1>1, <2>1 DEF OffStack, Stores
<1>3. [m EXCEPT !.last = IF @ = o THEN Null ELSE @, !.prot = @ \ {o}] = w
  BY <1>1 DEF Stores
<1>4. DestroyWorkingModel(m, o) = Free(w, {o})
  BY <1>2, <1>3 DEF DestroyWorkingModel
<1>5. {o} \in SUBSET m.prot
  OBVIOUS
<1> HIDE DEF w
<1>6. LET u == Free([m EXCEPT !.prot = @ \ {o}], {o})
      IN  /\ Sound(u, X) /\ Keeps(u, m)
          /\ u.prot = m.prot \ {o} /\ u.listed = m.listed /\ u.last = m.last /\ u.stack = m.stack
          /\ \A p \in Obj \ {o} : u.kind[p] = m.kind[p]
          /\ \A p \in {o} : ~Alive(u, p)
  BY <1>5, SoundUnprotect
<1> QED
  BY <1>4, <1>6 DEF w

\* Objects freed while one place of the store lets each of them go: a system
\* that is also kept elsewhere lives on, any other is gone.
LEMMA SoundLetGo ==
  ASSUME NEW m, NEW X \in Counts, Sound(m, X), NEW S \in SUBSET Obj,
         NEW w \in Stores,
         w.kind = Free(m, S).kind, w.refs = Free(m, S).refs, w.eqns = Free(m, S).eqns,
         w.prot = m.prot, w.listed = m.listed, w.stack \subseteq m.stack, w.last \in {m.last, Null},
         \A o \in Obj : Inside(w, o) = Inside(m, o) - IF o \in S THEN 1 ELSE 0,
         \A o \in S : Inside(m, o) = 1,
         \A o \in Obj : X[o] > 0 => m.kind[o] = "sys"
  PROVE  /\ Sound(w, X) /\ Keeps(w, m)
         /\ \A p \in Obj : /\ Alive(m, p)
                           /\ p \notin S \/ X[p] > 0 \/ p \in m.prot
                           => Alive(w, p)
<1> DEFINE f == Free(m, S)
<1>0. m \in Stores
  BY DEF Sound
<1>1. \A p \in Obj : p \notin S => /\ w.kind[p] = m.kind[p] /\ w.refs[p] = m.refs[p]
                                  /\ w.eqns[p] = m.eqns[p]
  BY <1>0, FreeParts
<1>2. \A p \in S : Gone(m, p) => w.kind[p] = "none"
  BY <1>0, FreeParts
<1>3. \A p \in S : ~Gone(m, p) =>
         /\ w.kind[p] = m.kind[p] /\ w.eqns[p] = m.eqns[p]
         /\ w.refs[p] = IF Counted(m, p) THEN m.refs[p] - 1 ELSE m.refs[p]
  BY <1>0, FreeParts
<1>4. \A p \in Obj : X[p] \in Nat /\ m.refs[p] \in Nat
  BY <1>0, StoreParts DEF Counts
<1>5. \A p \in S : Alive(m, p) /\ m.kind[p] \in Kind /\ (m.kind[p] = "sys" => m.eqns[p] > 0)
  <2> SUFFICES ASSUME NEW p \in S
               PROVE  Alive(m, p) /\ m.kind[p] \in Kind /\ (m.kind[p] = "sys" => m.eqns[p] > 0)
    OBVIOUS
  <2>1. m.last = p \/ p \in Stacked(m)
    BY DEF Inside
  <2>2. Alive(m, p)
    BY <2>1 DEF Sound, HeldAlive, Held
  <2> QED
    BY <1>0, <2>1, <2>2, StoreParts DEF Sound, Complete, Alive
<1>6. \A p \in S : p \notin m.prot => m.refs[p] = 1 + X[p]
  BY <1>5 DEF Sound, Exact
<1>7. \A p \in S : p \notin m.prot =>
         IF X[p] > 0 THEN ~Gone(m, p) /\ Counted(m, p) ELSE Gone(m, p)
  BY <1>4, <1>5, <1>6 DEF Gone, Counted, Kind
<1>8. \A p \in S : p \in m.prot => ~Gone(m, p) /\ ~Counted(m, p)
  BY DEF Gone, Counted, Sound, ProtectedOnes
<1>9. ASSUME NEW p \in Obj, Alive(m, p), p \notin S \/ X[p] > 0 \/ p \in m.prot
      PROVE  Alive(w, p)
  BY <1>1, <1>3, <1>7, <1>8, <1>9 DEF Alive
<1>10. Keeps(w, m)
  BY <1>1, <1>2, <1>3 DEF Keeps, Alive
<1>11. \A p : p \in Stacked(w) => p \in Stacked(m)
  BY DEF Stacked
<1>12. Exact(w, X)
  <2> SUFFICES ASSUME NEW p \in Obj, Alive(w, p), p \notin m.prot
               PROVE  w.refs[p] = Inside(w, p) + X[p]
    BY DEF Exact
  <2>1. Alive(m, p)
    BY <1>10 DEF Keeps, Alive
  <2>2. m.refs[p] = Inside(m, p) + X[p] /\ Inside(m, p) \in Nat
    BY <2>1 DEF Sound, Exact, Inside
  <2>3. CASE p \notin S
    BY <1>1, <2>2, <2>3
  <2>4. CASE p \in S
    <3>1. ~Gone(m, p)
      BY <1>2, <2>4 DEF Alive
    <3>2. w.refs[p] = m.refs[p] - 1
      BY <1>3, <1>7, <2>4, <3>1
    <3> QED
      BY <1>4, <1>6, <2>4, <3>2
  <2> QED
    BY <2>3, <2>4
<1>13. HeldAlive(w, X)
  <2> SUFFICES ASSUME NEW p \in Obj, Held(w, X, p) PROVE Alive(w, p)
    BY DEF HeldAlive
  <2>1. Inside(w, p) > 0 \/ X[p] > 0
    BY DEF Held, Inside
  <2>2. p \notin S \/ X[p] > 0
    <3>1. p \in S => Inside(m, p) = 1
      OBVIOUS
    <3>2. p \in S => Inside(w, p) = 1 - 1
      BY <3>1
    <3> QED
      BY <2>1, <3>2
  <2>3. Inside(m, p) > 0 \/ X[p] > 0
    <3>1. Inside(m, p) \in Nat
      BY DEF Inside
    <3>2. p \notin S => Inside(w, p) = Inside(m, p) - 0
      OBVIOUS
    <3> QED
      BY <2>1, <2>2, <3>1, <3>2
  <2>4. Alive(m, p)
    BY <2>3 DEF Sound, HeldAlive, Held, Inside
  <2> QED
    BY <1>9, <2>2, <2>4
<1>14. ProtectedOnes(w)
  <2>0. \A p \in m.listed : w.kind[p] = "eqn" => p \in m.prot
    BY <1>0, <1>10, StoreParts DEF Sound, ProtectedOnes, Keeps, Alive
  <2> SUFFICES ASSUME NEW p \in m.prot PROVE w.kind[p] = "eqn" /\ p \notin Stacked(w)
    BY <2>0 DEF ProtectedOnes
  <2>1. p \in Obj /\ m.kind[p] = "eqn" /\ p \notin Stacked(m)
    BY <1>0, StoreParts DEF Sound, ProtectedOnes
  <2>2. w.kind[p] = m.kind[p]
    BY <1>9, <1>10, <2>1 DEF Keeps, Alive
  <2> QED
    BY <1>11, <2>1, <2>2
<1>15. Once(w) /\ Names(w)
  BY DEF Sound, Once, Names
<1>16. Complete(w)
  <2> SUFFICES ASSUME NEW p \in Obj, w.kind[p] = "sys", w.last = p \/ p \in Stacked(w)
               PROVE  w.eqns[p] > 0
    BY DEF Complete
  <2>1. m.kind[p] = "sys" /\ w.eqns[p] = m.eqns[p]
    BY <1>10 DEF Keeps, Alive
  <2>2. m.last = p \/ p \in Stacked(m)
    BY <1>11, NullAssumption
  <2> QED
    BY <2>1, <2>2 DEF Sound, Complete
<1> QED
  BY <1>9, <1>10, <1>12, <1>13, <1>14, <1>15, <1>16 DEF Sound

\* The cleanup first lets go of the reference of a last model that is stacked.
LEMMA SoundLastDropped ==
  ASSUME NEW m, NEW X \in Counts, Sound(m, X)
  PROVE  LET m1 == IF m.last \in Stacked(m) THEN [Unref(m, m.last) EXCEPT !.last = Null]
                   ELSE m
         IN  /\ Sound(m1, X) /\ Keeps(m1, m)
             /\ m1.prot = m.prot /\ m1.listed = m.listed /\ m1.stack = m.stack
             /\ m1.last \notin Stacked(m)
             /\ \A p \in Obj : Alive(m, p) /\ (X[p] > 0 \/ p \in m.prot) => Alive(m1, p)
<1> DEFINE both == m.last \in Stacked(m)
           m1 == IF both THEN [Unref(m, m.last) EXCEPT !.last = Null] ELSE m
<1>0. m \in Stores /\ Null \notin Stacked(m) /\ Stacked(m) \subseteq Obj
  BY StackedFact DEF Sound
<1>1. /\ Sound(m1, X) /\ Keeps(m1, m)
      /\ m1.prot = m.prot /\ m1.listed = m.listed /\ m1.stack = m.stack
      /\ m1.last \notin Stacked(m)
      /\ \A p \in Obj : Alive(m, p) /\ (X[p] > 0 \/ p \in m.prot) => Alive(m1, p)
  <2>1. CASE ~both
    <3>1. m1 = m
      BY <2>1
    <3> QED
      BY <2>1, <3>1 DEF Keeps
  <2>2. CASE both
    <3>1. m.last # Null
      BY <1>0, <2>2
    <3>2. Unref(m, m.last) \in Stores
      <4>1. m.last \in Obj /\ Alive(m, m.last) /\ m.last \notin m.prot
        BY <1>0, <2>2 DEF Sound, HeldAlive, Held, ProtectedOnes
      <4>2. m.refs[m.last] = 2 + X[m.last] /\ X[m.last] \in Nat
        BY <2>2, <4>1 DEF Sound, Exact, Inside, Counts
      <4>3. m.refs[m.last] > 0 /\ m.refs[m.last] # 1
        BY <4>2
      <4> QED
        <5>1. ~Protected(m, m.last)
          BY <4>1, ProtectedFact DEF Sound
        <5> QED
          BY <1>0, <4>1, <4>3, <5>1, ReleaseParts DEF Unref
    <3>3. SetLast(m, Null) = m1
      <4> DEFINE v == Unref(m, m.last)
      <4>1. SetLast(m, Null) = IF v.last = Null THEN v ELSE [v EXCEPT !.last = Null]
        BY <3>1 DEF SetLast
      <4>2. v.last = Null => [v EXCEPT !.last = Null] = v
        BY <3>2 DEF Stores
      <4> QED
        BY <2>2, <4>1, <4>2
    <3> HIDE DEF m1
    <3>4. LET s == SetLast(m, Null)
          IN  /\ Sound(s, X) /\ Keeps(s, m)
              /\ s.last = Null /\ s.prot = m.prot /\ s.listed = m.listed /\ s.stack = m.stack
              /\ \A p \in Obj : /\ Alive(m, p)
                                /\ p # m.last \/ p = Null \/ p \in m.prot
                                   \/ p \in Stacked(m) \/ X[p] > 0
                                => Alive(s, p)
      BY SoundSetLast DEF Ptr
    <3> QED
      BY <1>0, <2>2, <3>3, <3>4
  <2> QED
    BY <2>1, <2>2
<1> QED
  BY <1>1

\* Nothing that is saved is protected, and what is protected is not counted: no
\* test of the cleanup for a protected model makes a difference to it.
LEMMA CleanupIs ==
  ASSUME NEW m, NEW X \in Counts, Sound(m, X)
  PROVE  LET m1 == IF m.last \in Stacked(m) THEN [Unref(m, m.last) EXCEPT !.last = Null]
                   ELSE m
             m2 == [Free(m1, Stacked(m)) EXCEPT !.stack = {}]
         IN  SavedObjectsCleanup(m) =
                 IF m2.last = Null THEN m2 ELSE [Free(m2, {m2.last}) EXCEPT !.last = Null]
<1> DEFINE m1 == IF m.last \in Stacked(m) THEN [Unref(m, m.last) EXCEPT !.last = Null]
                 ELSE m
           saved == {o \in Stacked(m) : ~Protected(m1, o)}
           f == Free(m1, Stacked(m))
           m2 == [f EXCEPT !.stack = {}]
<1>1. Sound(m1, X) /\ m1.stack = m.stack
  BY SoundLastDropped
<1>2. saved = Stacked(m)
  BY <1>1 DEF Protected, Sound, ProtectedOnes, Stacked
<1>3. SavedObjectsCleanup(m) =
          IF m2.last = Null THEN m2
          ELSE IF Protected(m2, m2.last) THEN [m2 EXCEPT !.last = Null]
          ELSE [Free(m2, {m2.last}) EXCEPT !.last = Null]
  <2>1. Free(m1, saved) = f
    BY <1>2
  <2> DEFINE n2 == [Free(m1, saved) EXCEPT !.stack = {}]
  <2>2. n2 = m2
    BY <2>1
  <2>3. SavedObjectsCleanup(m) =
            IF n2.last = Null THEN n2
            ELSE IF Protected(n2, n2.last) THEN [n2 EXCEPT !.last = Null]
            ELSE [Free(n2, {n2.last}) EXCEPT !.last = Null]
    BY DEF SavedObjectsCleanup
  <2> HIDE DEF n2, m2
  <2> QED
    BY <2>2, <2>3
<1> HIDE DEF m1
<1>4. /\ m1 \in Stores /\ f \in Stores /\ f.prot = m1.prot /\ f.listed = m1.listed
      /\ \A p \in Obj : f.kind[p] \in {m1.kind[p], "none"}
  BY <1>1, FreeParts DEF Sound
<1> HIDE DEF f
<1>5. /\ m2 \in Stores /\ m2.kind = f.kind /\ m2.prot = f.prot /\ m2.listed = f.listed
  BY <1>4 DEF Stores
<1> HIDE DEF m2
<1>6. ASSUME m2.last # Null, Protected(m2, m2.last) PROVE Free(m2, {m2.last}) = m2
  <2> DEFINE l == m2.last
             u == Free(m2, {l})
  <2>1. l \in Obj
    BY <1>5, <1>6, StoreParts DEF Ptr
  <2> HIDE DEF l
  <2>2. m2.kind[l] = "eqn" /\ l \in m2.prot
    BY <1>1, <1>4, <1>5, <1>6, <2>1 DEF Protected, Sound, ProtectedOnes, l
  <2>3. ~Gone(m2, l) /\ ~Counted(m2, l)
    BY <2>2 DEF Gone, Counted
  <2>4. /\ u \in Stores
        /\ \A p \in Obj : /\ u.kind[p] = m2.kind[p] /\ u.refs[p] = m2.refs[p]
                          /\ u.eqns[p] = m2.eqns[p]
        /\ u.prot = m2.prot /\ u.listed = m2.listed
        /\ u.last = m2.last /\ u.stack = m2.stack
    <3>1. \A p \in Obj : p \in {l} => p = l
      OBVIOUS
    <3> QED
      BY <1>5, <2>3, <3>1, FreeParts
  <2> HIDE DEF u
  <2>5. u.kind = m2.kind /\ u.refs = m2.refs /\ u.eqns = m2.eqns
    BY <1>5, <2>4 DEF Stores
  <2>6. u = m2
    BY <1>5, <2>4, <2>5 DEF Stores
  <2> QED
    BY <2>6 DEF u, l
<1>7. SavedObjectsCleanup(m) =
          IF m2.last = Null THEN m2 ELSE [Free(m2, {m2.last}) EXCEPT !.last = Null]
  BY <1>3, <1>6 DEF m2
<1> QED
  BY <1>7 DEF m2, f, m1

\* gretl_saved_objects_cleanup, at a moment when only unnamed systems are kept
\* outside the store: the store is left without objects of its own.
LEMMA SoundCleanup ==
  ASSUME NEW m, NEW X \in Counts, Sound(m, X),
         \A o \in Obj : X[o] > 0 => m.kind[o] = "sys"
  PROVE  LET u == SavedObjectsCleanup(m)
         IN  /\ Sound(u, X) /\ Keeps(u, m)
             /\ u.prot = m.prot /\ u.listed = m.listed /\ u.last = Null /\ u.stack = {}
             /\ \A p \in Obj : Alive(m, p) /\ (X[p] > 0 \/ p \in m.prot) => Alive(u, p)
<1> DEFINE both == m.last \in Stacked(m)
           m1 == IF both THEN [Unref(m, m.last) EXCEPT !.last = Null] ELSE m
           m2 == [Free(m1, Stacked(m)) EXCEPT !.stack = {}]
           u == IF m2.last = Null THEN m2 ELSE [Free(m2, {m2.last}) EXCEPT !.last = Null]
<1>0. m \in Stores /\ Null \notin Stacked(m) /\ Stacked(m) \subseteq Obj
  BY StackedFact DEF Sound
<1>1. /\ Sound(m1, X) /\ Keeps(m1, m) /\ m1.prot = m.prot /\ m1.listed = m.listed /\ m1.stack = m.stack
      /\ m1.last \notin Stacked(m)
      /\ \A p \in Obj : Alive(m, p) /\ (X[p] > 0 \/ p \in m.prot) => Alive(m1, p)
  BY SoundLastDropped
<1> HIDE DEF m1
<1>2. m1 \in Stores /\ Stacked(m1) = Stacked(m)
  BY <1>1 DEF Sound, Stacked
<1>3. /\ m2 \in Stores
      /\ m2.kind = Free(m1, Stacked(m)).kind /\ m2.refs = Free(m1, Stacked(m)).refs
      /\ m2.eqns = Free(m1, Stacked(m)).eqns
      /\ m2.prot = m.prot /\ m2.listed = m.listed /\ m2.stack = {} /\ m2.last = m1.last
  <2>1. /\ Free(m1, Stacked(m)) \in Stores
        /\ Free(m1, Stacked(m)).prot = m1.prot /\ Free(m1, Stacked(m)).listed = m1.listed /\ Free(m1, Stacked(m)).last = m1.last
    BY <1>2, FreeParts
  <2> DEFINE g == Free(m1, Stacked(m))
  <2> HIDE DEF g
  <2>2. g \in Stores => /\ [g EXCEPT !.stack = {}] \in Stores
                        /\ [g EXCEPT !.stack = {}].kind = g.kind
                        /\ [g EXCEPT !.stack = {}].refs = g.refs
                        /\ [g EXCEPT !.stack = {}].eqns = g.eqns
                        /\ [g EXCEPT !.stack = {}].prot = g.prot /\ [g EXCEPT !.stack = {}].listed = g.listed
                        /\ [g EXCEPT !.stack = {}].last = g.last
                        /\ [g EXCEPT !.stack = {}].stack = {}
    BY DEF Stores
  <2> QED
    BY <1>1, <2>1, <2>2 DEF g
<1> HIDE DEF m2
<1>4. Stacked(m2) = {}
  BY <1>3 DEF Stacked
<1>5. \A o \in Obj : X[o] > 0 => m1.kind[o] = "sys"
  <2> SUFFICES ASSUME NEW o \in Obj, X[o] > 0 PROVE m1.kind[o] = "sys"
    OBVIOUS
  <2>1. Alive(m, o)
    BY DEF Sound, HeldAlive, Held
  <2> QED
    BY <1>1, <2>1 DEF Keeps
<1>6. /\ \A o \in Obj : Inside(m2, o) = Inside(m1, o) - IF o \in Stacked(m) THEN 1 ELSE 0
      /\ \A o \in Stacked(m) : Inside(m1, o) = 1
  BY <1>1, <1>2, <1>3, <1>4 DEF Inside
<1>7. /\ Sound(m2, X) /\ Keeps(m2, m1)
      /\ \A p \in Obj : /\ Alive(m1, p)
                        /\ p \notin Stacked(m) \/ X[p] > 0 \/ p \in m1.prot
                        => Alive(m2, p)
  BY <1>0, <1>1, <1>3, <1>5, <1>6, SoundLetGo
<1>8. CASE m2.last = Null
  <2>1. SavedObjectsCleanup(m) = m2
    BY <1>8, CleanupIs DEF m2, m1
  <2>2. Keeps(m2, m)
    BY <1>1, <1>7 DEF Keeps, Alive
  <2> QED
    BY <1>1, <1>3, <1>7, <1>8, <2>1, <2>2
<1>9. CASE m2.last # Null
  <2> DEFINE w == [Free(m2, {m2.last}) EXCEPT !.last = Null]
  <2>1. SavedObjectsCleanup(m) = w
    BY <1>9, CleanupIs DEF m2, m1
  <2>2. m2.last \in Obj
    BY <1>3, <1>9, StoreParts DEF Ptr
  <2>3. /\ w \in Stores
        /\ w.kind = Free(m2, {m2.last}).kind /\ w.refs = Free(m2, {m2.last}).refs
        /\ w.eqns = Free(m2, {m2.last}).eqns
        /\ w.prot = m2.prot /\ w.listed = m2.listed /\ w.stack = {} /\ w.last = Null
    <3>1. /\ Free(m2, {m2.last}) \in Stores
          /\ Free(m2, {m2.last}).prot = m2.prot /\ Free(m2, {m2.last}).listed = m2.listed /\ Free(m2, {m2.last}).stack = m2.stack
      BY <1>3, FreeParts
    <3> DEFINE g == Free(m2, {m2.last})
    <3> HIDE DEF g
    <3>2. g \in Stores => /\ [g EXCEPT !.last = Null] \in Stores
                          /\ [g EXCEPT !.last = Null].kind = g.kind
                          /\ [g EXCEPT !.last = Null].refs = g.refs
                          /\ [g EXCEPT !.last = Null].eqns = g.eqns
                          /\ [g EXCEPT !.last = Null].prot = g.prot /\ [g EXCEPT !.last = Null].listed = g.listed
                          /\ [g EXCEPT !.last = Null].last = Null
                          /\ [g EXCEPT !.last = Null].stack = g.stack
      BY DEF Stores, Ptr
    <3> QED
      BY <1>3, <3>1, <3>2 DEF g
  <2> HIDE DEF w
  <2>4. Stacked(w) = {}
    BY <2>3 DEF Stacked
  <2>5. \A o \in Obj : X[o] > 0 => m2.kind[o] = "sys"
    <3> SUFFICES ASSUME NEW o \in Obj, X[o] > 0 PROVE m2.kind[o] = "sys"
      OBVIOUS
    <3>1. Alive(m2, o)
      BY <1>7 DEF Sound, HeldAlive, Held
    <3> QED
      BY <1>5, <1>7, <3>1 DEF Keeps
  <2>6. /\ \A o \in Obj : Inside(w, o) = Inside(m2, o) - IF o \in {m2.last} THEN 1 ELSE 0
        /\ \A o \in {m2.last} : Inside(m2, o) = 1
    BY <1>4, <2>2, <2>3, <2>4, NullAssumption DEF Inside
  <2>7. /\ Sound(w, X) /\ Keeps(w, m2)
        /\ \A p \in Obj : /\ Alive(m2, p)
                          /\ p \notin {m2.last} \/ X[p] > 0 \/ p \in m2.prot
                          => Alive(w, p)
    <3>1. {m2.last} \in SUBSET Obj /\ w.stack \subseteq m2.stack /\ w.last \in {m2.last, Null}
      BY <2>2, <2>3
    <3> QED
      BY <1>7, <2>3, <2>5, <2>6, <3>1, SoundLetGo
  <2>8. Keeps(w, m)
    BY <1>1, <1>7, <2>7 DEF Keeps, Alive
  <2> QED
    BY <1>1, <1>3, <1>7, <2>1, <2>3, <2>7, <2>8
<1> QED
  BY <1>8, <1>9

----------------------------------------------------------------------------
(* Tidiness.  Each operation of the store leaves an object that     *)
(* nothing protects and nobody is defining either counted or freed.        *)

\* What is held is alive and counted, unless it is protected.
LEMMA HeldCounted ==
  ASSUME NEW m, NEW X \in Counts, Sound(m, X), NEW o \in Obj, Held(m, X, o)
  PROVE  Alive(m, o) /\ (o \notin m.prot => m.refs[o] > 0)
<1>1. Alive(m, o)
  BY DEF Sound, HeldAlive
<1>2. ASSUME o \notin m.prot PROVE m.refs[o] > 0
  <2>1. m.refs[o] = Inside(m, o) + X[o] /\ X[o] \in Nat
    BY <1>1, <1>2 DEF Sound, Exact, Counts
  <2> QED
    BY <2>1 DEF Held, Inside
<1> QED
  BY <1>1, <1>2

\* A new object is all that lacks a reference.
LEMMA TidyNew ==
  ASSUME NEW m \in Stores, NEW o \in Obj, NEW k \in Kind, Tidy(m, Null)
  PROVE  Tidy(New(m, o, k), o)
<1> DEFINE u == New(m, o, k)
<1>1. SameBut(u, m, o) /\ u.prot = m.prot
  BY NewParts
<1> HIDE DEF u
<1>2. Tidy(u, o)
  BY <1>1, NullAssumption DEF Tidy, SameBut, Alive
<1> QED
  BY <1>2 DEF u

\* A new model that is protected needs none.
LEMMA TidyNewProtected ==
  ASSUME NEW m \in Stores, NEW o \in Obj, NEW s, Tidy(m, s)
  PROVE  Tidy(NewProtected(m, o), s)
<1> DEFINE u == NewProtected(m, o)
<1>1. SameBut(u, m, o) /\ u.prot = m.prot \cup {o}
  BY NewProtectedParts
<1> HIDE DEF u
<1>2. Tidy(u, s)
  BY <1>1 DEF Tidy, SameBut, Alive
<1> QED
  BY <1>2 DEF u

\* A reference makes up for what the object lacked.
LEMMA TidyRef ==
  ASSUME NEW m \in Stores, NEW o \in Obj, NEW s, NEW t, s \in {t, o}, Tidy(m, s),
         m.kind[o] = "sys" => m.eqns[o] > 0
  PROVE  Tidy(Ref(m, o), t)
<1> DEFINE u == Ref(m, o)
<1>1. /\ SameBut(u, m, o) /\ u.prot = m.prot /\ u.kind = m.kind /\ u.eqns = m.eqns
      /\ u.refs[o] = IF o \in m.prot THEN m.refs[o] ELSE m.refs[o] + 1
  BY RefParts
<1>2. m.refs[o] \in Nat
  BY StoreParts
<1> HIDE DEF u
<1>3. Tidy(u, t)
  <2> SUFFICES ASSUME NEW p \in Obj, Alive(u, p), p \notin u.prot, p # t
               PROVE  u.refs[p] > 0 /\ (u.kind[p] = "sys" => u.eqns[p] > 0)
    BY DEF Tidy
  <2>1. CASE p = o
    BY <1>1, <1>2, <2>1
  <2>2. CASE p # o
    BY <1>1, <2>2 DEF Tidy, SameBut, Alive
  <2> QED
    BY <2>1, <2>2
<1> QED
  BY <1>3 DEF u

\* The last reference takes the object with it.
LEMMA TidyUnref ==
  ASSUME NEW m \in Stores, ProtectedOnes(m), NEW o \in Ptr,
         o # Null /\ o \notin m.prot => Alive(m, o) /\ m.refs[o] > 0,
         NEW r \in BOOLEAN, NEW s, Tidy(m, s)
  PROVE  LET u == UnrefFor(m, o, r)
         IN  /\ u \in Stores /\ Tidy(u, s) /\ u.prot = m.prot
             /\ u.last \in {m.last, Null}
             /\ \A p \in Obj : p # o => u.kind[p] = m.kind[p] /\ u.eqns[p] = m.eqns[p]
<1> DEFINE u == UnrefFor(m, o, r)
<1>2. CASE o = Null \/ o \in m.prot
  <2>1. u = m
    BY <1>2, ProtectedFact DEF UnrefFor
  <2> QED
    BY <2>1
<1>3. CASE o # Null /\ o \notin m.prot
  <2>1. o \in Obj /\ Alive(m, o) /\ m.refs[o] > 0 /\ m.refs[o] \in Nat
    BY <1>3, StoreParts DEF Ptr
  <2>2. /\ u \in Stores /\ SameBut(u, m, o) /\ u.prot = m.prot
        /\ u.refs[o] = m.refs[o] - 1
        /\ m.refs[o] > 1 =>
             /\ u.kind[o] = m.kind[o] /\ u.eqns[o] = m.eqns[o] /\ u.last = m.last
        /\ m.refs[o] = 1 =>
             /\ u.kind[o] = (IF Stays(m, o) THEN "sys" ELSE "none")
             /\ u.last = IF m.last = o THEN Null ELSE m.last
    BY <1>3, <2>1, ProtectedFact, UnrefParts
  <2> HIDE DEF u
  <2>3. m.refs[o] = 1 \/ m.refs[o] > 1
    BY <2>1
  <2>4. Tidy(u, s)
    <3> SUFFICES ASSUME NEW p \in Obj, Alive(u, p), p \notin u.prot, p # s
                 PROVE  u.refs[p] > 0 /\ (u.kind[p] = "sys" => u.eqns[p] > 0)
      BY DEF Tidy
    <3>1. CASE p # o
      BY <2>2, <3>1 DEF Tidy, SameBut, Alive
    <3>2. CASE p = o /\ m.refs[o] > 1
      BY <1>3, <2>1, <2>2, <3>2 DEF Tidy
    <3>3. CASE p = o /\ m.refs[o] = 1
      <4>1. ~Stays(m, o)
        BY <1>3, <2>1, <3>3 DEF Stays, Tidy
      <4> QED
        BY <2>2, <3>3, <4>1 DEF Alive
    <3> QED
      BY <2>3, <3>1, <3>2, <3>3
  <2>5. u.last \in {m.last, Null}
    BY <2>2, <2>3
  <2> QED
    BY <2>2, <2>4, <2>5 DEF SameBut, u
<1> QED
  BY <1>2, <1>3

\* set_as_last_model counts the new last model and lets the old one go.
LEMMA TidySetLast ==
  ASSUME NEW m, NEW X \in Counts, Sound(m, X), NEW o \in Ptr,
         o # Null => Alive(m, o) /\ (m.kind[o] = "sys" => m.eqns[o] > 0),
         NEW s, NEW t, s = t \/ (s = o /\ o # Null), Tidy(m, s)
  PROVE  Tidy(SetLast(m, o), t)
<1> DEFINE m1 == IF m.last # o THEN Unref(m, m.last) ELSE m
           m2 == [m1 EXCEPT !.last = o]
<1>1. m \in Stores /\ ProtectedOnes(m) /\ m.last \in Ptr
  BY StoreParts DEF Sound
<1>2. CASE m.last = o
  <2>1. SetLast(m, o) = m
    BY <1>2 DEF SetLast
  <2>2. o # Null => o \in Obj /\ Alive(m, o) /\ (o \notin m.prot => m.refs[o] > 0)
    BY <1>2, HeldCounted DEF Held, Ptr
  <2>3. Tidy(m, t)
    BY <2>2 DEF Tidy
  <2> QED
    BY <2>1, <2>3
<1>3. CASE m.last # o
  <2>1. m1 = UnrefFor(m, m.last, FALSE)
    BY <1>3 DEF Unref
  <2>2. m.last # Null /\ m.last \notin m.prot => Alive(m, m.last) /\ m.refs[m.last] > 0
    BY <1>1, HeldCounted DEF Held, Ptr
  <2>3. /\ m1 \in Stores /\ Tidy(m1, s) /\ m1.prot = m.prot /\ m1.last \in {m.last, Null}
        /\ \A p \in Obj : p # m.last => m1.kind[p] = m.kind[p] /\ m1.eqns[p] = m.eqns[p]
    <3>1. LET u == UnrefFor(m, m.last, FALSE)
          IN  /\ u \in Stores /\ Tidy(u, s) /\ u.prot = m.prot
              /\ u.last \in {m.last, Null}
              /\ \A p \in Obj : p # m.last => u.kind[p] = m.kind[p] /\ u.eqns[p] = m.eqns[p]
      BY <1>1, <2>2, TidyUnref
    <3> HIDE DEF m1
    <3> QED
      BY <2>1, <3>1
  <2>4. SetLast(m, o) = IF m1.last = o THEN m1 ELSE IF o = Null THEN m2 ELSE Ref(m2, o)
    BY DEF SetLast
  <2> HIDE DEF m1
  <2>5. /\ m2 \in Stores /\ m2.kind = m1.kind /\ m2.eqns = m1.eqns
        /\ m2.refs = m1.refs /\ m2.prot = m1.prot
    BY <2>3 DEF Stores
  <2> HIDE DEF m2
  <2>6. Tidy(m2, s)
    BY <2>3, <2>5 DEF Tidy, Alive
  <2>7. CASE o = Null
    BY <2>3, <2>4, <2>6, <2>7
  <2>8. CASE o # Null
    <3>1. o \in Obj /\ m1.last # o
      BY <1>3, <2>3, <2>8 DEF Ptr
    <3>2. m2.kind[o] = "sys" => m2.eqns[o] > 0
      BY <1>3, <2>3, <2>5, <2>8, <3>1
    <3>3. Tidy(Ref(m2, o), t)
      BY <2>5, <2>6, <3>1, <3>2, TidyRef
    <3> QED
      BY <2>4, <2>8, <3>1, <3>3
  <2> QED
    BY <2>7, <2>8
<1> QED
  BY <1>2, <1>3

\* real_stack_object counts what it saves and lets go what it replaces.
LEMMA TidyStackAs ==
  ASSUME NEW m, NEW X \in Counts, Sound(m, X), NEW o \in Obj, NEW n \in Name,
         Alive(m, o), m.kind[o] = "sys" => m.eqns[o] > 0,
         NEW s, NEW t, s \in {t, o}, Tidy(m, s)
  PROVE  Tidy(StackAs(m, o, n), t)
<1> DEFINE orig == {e \in m.stack : e.kind = m.kind[o] /\ e.name = n}
           m1 == IF orig = {} THEN m ELSE UnrefFor(m, (CHOOSE e \in orig : TRUE).ptr, TRUE)
           slot == [ptr |-> o, kind |-> m.kind[o], name |-> n]
           m2 == [m1 EXCEPT !.stack = (@ \ orig) \cup {slot}]
<1>1. m \in Stores /\ ProtectedOnes(m)
  BY DEF Sound
<1>2. StackAs(m, o, n) = IF o \in Stacked(m) THEN m ELSE Ref(m2, o)
  BY DEF StackAs
<1>3. CASE o \in Stacked(m)
  <2>1. o \notin m.prot => m.refs[o] > 0
    BY <1>3, HeldCounted DEF Held
  <2>2. Tidy(m, t)
    BY <2>1 DEF Tidy
  <2> QED
    BY <1>2, <1>3, <2>2
<1>4. CASE o \notin Stacked(m)
  <2>1. /\ m1 \in Stores /\ Tidy(m1, s)
        /\ m1.kind[o] = m.kind[o] /\ m1.eqns[o] = m.eqns[o]
    <3>1. CASE orig = {}
      BY <1>1, <3>1
    <3>2. CASE orig # {}
      <4> DEFINE p == (CHOOSE e \in orig : TRUE).ptr
      <4>1. p \in Stacked(m)
        BY <3>2 DEF Stacked
      <4>2. p \in Obj /\ p # o /\ p \in Ptr
        BY <1>1, <1>4, <4>1, StackedFact DEF Ptr
      <4>3. m1 = UnrefFor(m, p, TRUE)
        BY <3>2
      <4>4. p \notin m.prot => Alive(m, p) /\ m.refs[p] > 0
        BY <4>1, <4>2, HeldCounted DEF Held
      <4> HIDE DEF p, m1
      <4>5. LET u == UnrefFor(m, p, TRUE)
            IN  /\ u \in Stores /\ Tidy(u, s)
                /\ \A q \in Obj : q # p => u.kind[q] = m.kind[q] /\ u.eqns[q] = m.eqns[q]
        BY <1>1, <4>2, <4>4, TidyUnref
      <4> QED
        BY <4>2, <4>3, <4>5
    <3> QED
      BY <3>1, <3>2
  <2> HIDE DEF m1, orig
  <2>2. slot \in Entries
    <3>1. m.kind[o] \in Kind
      BY <1>1, StoreParts DEF Alive
    <3> QED
      BY <3>1 DEF Entries
  <2> HIDE DEF slot
  <2>3. /\ m2 \in Stores /\ m2.kind = m1.kind /\ m2.eqns = m1.eqns
        /\ m2.refs = m1.refs /\ m2.prot = m1.prot
    BY <2>1, <2>2 DEF Stores
  <2> HIDE DEF m2
  <2>4. Tidy(m2, s)
    BY <2>1, <2>3 DEF Tidy, Alive
  <2>5. Tidy(Ref(m2, o), t)
    BY <2>1, <2>3, <2>4, TidyRef
  <2> QED
    BY <1>2, <1>4, <2>5
<1> QED
  BY <1>3, <1>4

\* Tidiness is not about the last model or the stack.
LEMMA TidySame ==
  ASSUME NEW m, NEW u, NEW s, Tidy(m, s),
         u.kind = m.kind, u.refs = m.refs, u.eqns = m.eqns, u.prot = m.prot
  PROVE  Tidy(u, s)
  BY DEF Tidy, Alive

\* What the end of the last reference frees is gone; the rest keeps a count.
LEMMA TidyFree ==
  ASSUME NEW m \in Stores, NEW S, NEW s, Tidy(m, s)
  PROVE  Tidy(Free(m, S), s)
<1> DEFINE u == Free(m, S)
<1>1. /\ \A p \in Obj : p \notin S => /\ u.kind[p] = m.kind[p]
                                      /\ u.refs[p] = m.refs[p]
                                      /\ u.eqns[p] = m.eqns[p]
      /\ \A p \in Obj : p \in S /\ Gone(m, p) => u.kind[p] = "none"
      /\ \A p \in Obj : p \in S /\ ~Gone(m, p) =>
             /\ u.kind[p] = m.kind[p] /\ u.eqns[p] = m.eqns[p]
             /\ u.refs[p] = IF Counted(m, p) THEN m.refs[p] - 1 ELSE m.refs[p]
      /\ u.prot = m.prot
  BY FreeParts
<1> HIDE DEF u
<1> SUFFICES ASSUME NEW p \in Obj, Alive(u, p), p \notin u.prot, p # s
             PROVE  u.refs[p] > 0 /\ (u.kind[p] = "sys" => u.eqns[p] > 0)
  BY DEF Tidy, u
<1>2. CASE p \notin S
  BY <1>1, <1>2 DEF Tidy, Alive
<1>3. CASE p \in S
  <2>1. ~Gone(m, p) /\ u.kind[p] = m.kind[p] /\ u.eqns[p] = m.eqns[p]
    BY <1>1, <1>3 DEF Alive
  <2>2. /\ m.refs[p] > 0 /\ (m.kind[p] = "sys" => m.eqns[p] > 0)
        /\ p \notin m.prot /\ m.kind[p] # "none"
    BY <1>1, <2>1 DEF Tidy, Alive
  <2>3. m.kind[p] \in {"var", "sys"}
    BY <2>1, <2>2, StoreParts DEF Gone, Kind
  <2>4. m.refs[p] \in Nat /\ ~(m.refs[p] <= 1)
    BY <2>1, <2>2, <2>3, StoreParts DEF Gone
  <2>5. m.refs[p] - 1 > 0
    BY <2>4
  <2> QED
    BY <1>1, <1>3, <2>1, <2>2, <2>5
<1> QED
  BY <1>2, <1>3

\* gretl_object_remove_from_stack.
LEMMA TidyRemove ==
  ASSUME NEW m, NEW X \in Counts, Sound(m, X), NEW o \in Obj, o \in Stacked(m),
         NEW s, Tidy(m, s)
  PROVE  Tidy(RemoveFromStack(m, o), s)
<1> DEFINE w == OffStack(m, o)
<1>1. m \in Stores /\ ProtectedOnes(m)
  BY DEF Sound
<1>2. /\ w \in Stores /\ w.kind = m.kind /\ w.refs = m.refs /\ w.eqns = m.eqns
      /\ w.prot = m.prot /\ ProtectedOnes(w)
  BY <1>1, OffStackParts DEF ProtectedOnes, Stacked, Rest
<1> HIDE DEF w
<1>3. Tidy(w, s)
  BY <1>2, TidySame
<1>4. o \notin w.prot => Alive(w, o) /\ w.refs[o] > 0
  BY <1>2, HeldCounted DEF Held, Alive
<1>5. LET u == UnrefFor(w, o, FALSE) IN Tidy(u, s)
  BY <1>2, <1>3, <1>4, TidyUnref DEF Ptr
<1> QED
  BY <1>5 DEF RemoveFromStack, Unref, w

\* The records of a loop are freed as soon as they are unprotected.
LEMMA TidyUnprotect ==
  ASSUME NEW m \in Stores, NEW S \in SUBSET Obj, \A o \in S : m.kind[o] = "eqn",
         NEW s, Tidy(m, s)
  PROVE  Tidy(Free([m EXCEPT !.prot = @ \ S], S), s)
<1> DEFINE w == [m EXCEPT !.prot = @ \ S]
           u == Free(w, S)
<1>1. /\ w \in Stores /\ w.kind = m.kind /\ w.refs = m.refs /\ w.eqns = m.eqns
      /\ w.prot = m.prot \ S
  BY DEF Stores
<1>2. \A o \in S : Gone(w, o)
  BY <1>1 DEF Gone
<1> HIDE DEF w
<1>3. /\ \A p \in Obj : p \notin S => /\ u.kind[p] = w.kind[p]
                                      /\ u.refs[p] = w.refs[p]
                                      /\ u.eqns[p] = w.eqns[p]
      /\ \A p \in Obj : p \in S /\ Gone(w, p) => u.kind[p] = "none"
      /\ u.prot = w.prot
  BY <1>1, FreeParts
<1> HIDE DEF u
<1>4. Tidy(u, s)
  BY <1>1, <1>2, <1>3 DEF Tidy, Alive
<1> QED
  BY <1>4 DEF u, w

\* destroy_working_model frees the model it takes the protection from.
LEMMA TidyDestroyWorkingModel ==
  ASSUME NEW m \in Stores, NEW o \in Obj, m.kind[o] = "eqn", NEW s, Tidy(m, s)
  PROVE  Tidy(DestroyWorkingModel(m, o), s)
<1> DEFINE a == OffStack(m, o)
           b == [a EXCEPT !.last = IF @ = o THEN Null ELSE @, !.prot = @ \ {o}]
           w == [m EXCEPT !.prot = @ \ {o}]
           u == DestroyWorkingModel(m, o)
<1>1. u = Free(b, {o})
  BY DEF DestroyWorkingModel
<1>2. /\ a \in Stores /\ a.kind = m.kind /\ a.refs = m.refs /\ a.eqns = m.eqns
      /\ a.prot = m.prot
  BY OffStackParts
<1> HIDE DEF a, u
<1>3. /\ b \in Stores /\ b.kind = m.kind /\ b.refs = m.refs /\ b.eqns = m.eqns
      /\ b.prot = m.prot \ {o}
  BY <1>2 DEF Stores, Ptr
<1> HIDE DEF b
<1>4. Gone(b, o)
  BY <1>3 DEF Gone
<1>5. /\ \A p \in Obj : p \notin {o} => /\ u.kind[p] = b.kind[p]
                                        /\ u.refs[p] = b.refs[p]
                                        /\ u.eqns[p] = b.eqns[p]
      /\ \A p \in Obj : p \in {o} /\ Gone(b, p) => u.kind[p] = "none"
      /\ u.prot = b.prot
  BY <1>1, <1>3, FreeParts
<1>6. Tidy(u, s)
  BY <1>3, <1>4, <1>5 DEF Tidy, Alive
<1> QED
  BY <1>6 DEF u

\* gretl_saved_objects_cleanup.
LEMMA TidyCleanup ==
  ASSUME NEW m, NEW X \in Counts, Sound(m, X), NEW s, Tidy(m, s)
  PROVE  Tidy(SavedObjectsCleanup(m), s)
<1> DEFINE both == m.last \in Stacked(m)
           m0 == Unref(m, m.last)
           m1 == IF both THEN [m0 EXCEPT !.last = Null] ELSE m
           n2 == Free(m1, Stacked(m))
           m2 == [n2 EXCEPT !.stack = {}]
           n3 == Free(m2, {m2.last})
           m3 == [n3 EXCEPT !.last = Null]
<1>1. m \in Stores /\ ProtectedOnes(m) /\ m.last \in Ptr
  BY StoreParts DEF Sound
<1>2. m1 \in Stores /\ Tidy(m1, s)
  <2>1. CASE both
    <3>1. m.last # Null /\ m.last \notin m.prot => Alive(m, m.last) /\ m.refs[m.last] > 0
      BY <1>1, HeldCounted DEF Held, Ptr
    <3>2. m0 = UnrefFor(m, m.last, FALSE)
      BY DEF Unref
    <3> HIDE DEF m0
    <3>3. m0 \in Stores /\ Tidy(m0, s)
      <4>1. LET u == UnrefFor(m, m.last, FALSE) IN u \in Stores /\ Tidy(u, s)
        BY <1>1, <3>1, TidyUnref
      <4> QED
        BY <3>2, <4>1
    <3>4. /\ m1 \in Stores /\ m1.kind = m0.kind /\ m1.refs = m0.refs
          /\ m1.eqns = m0.eqns /\ m1.prot = m0.prot
      BY <2>1, <3>3 DEF Stores, Ptr
    <3> HIDE DEF m1
    <3> QED
      BY <3>3, <3>4, TidySame
  <2>2. CASE ~both
    BY <1>1, <2>2
  <2> QED
    BY <2>1, <2>2
<1> HIDE DEF m1
<1>3. n2 \in Stores /\ Tidy(n2, s)
  BY <1>2, FreeParts, TidyFree
<1> HIDE DEF n2
<1>4. m2 \in Stores /\ Tidy(m2, s)
  <2>1. /\ m2 \in Stores /\ m2.kind = n2.kind /\ m2.refs = n2.refs
        /\ m2.eqns = n2.eqns /\ m2.prot = n2.prot
    BY <1>3 DEF Stores
  <2> HIDE DEF m2
  <2> QED
    BY <1>3, <2>1, TidySame
<1> HIDE DEF m2
<1>5. n3 \in Stores /\ Tidy(n3, s)
  BY <1>4, FreeParts, TidyFree
<1> HIDE DEF n3
<1>6. Tidy(m3, s)
  <2>1. /\ m3.kind = n3.kind /\ m3.refs = n3.refs
        /\ m3.eqns = n3.eqns /\ m3.prot = n3.prot
    BY <1>5 DEF Stores
  <2> HIDE DEF m3
  <2> QED
    BY <1>5, <2>1, TidySame
<1>7. SavedObjectsCleanup(m) = IF m2.last = Null THEN m2 ELSE m3
  BY CleanupIs DEF both, m0, m1, n2, m2, n3, m3
<1> QED
  BY <1>4, <1>6, <1>7

----------------------------------------------------------------------------
\* The frames are a sequence.
LEMMA FramesFacts ==
  ASSUME NEW f \in Seq(Frames)
  PROVE  /\ Len(f) \in Nat /\ DOMAIN f = 1 .. Len(f)
         /\ \A i \in DOMAIN f : f[i] \in Frames
  BY LenProperties, ElementOfSeq

\* How many frames give an object back is a number, above zero when one does.
LEMMA PrevsType ==
  ASSUME NEW f \in Seq(Frames), NEW o
  PROVE  /\ IsFiniteSet({i \in DOMAIN f : f[i].prev = o}) /\ Prevs(f, o) \in Nat
         /\ Prevs(f, o) > 0 <=> \E i \in DOMAIN f : f[i].prev = o
<1> DEFINE P == {i \in DOMAIN f : f[i].prev = o}
<1>1. IsFiniteSet(1 .. Len(f)) /\ DOMAIN f = 1 .. Len(f)
  BY FramesFacts, FS_Interval
<1>2. IsFiniteSet(P)
  BY <1>1, FS_Subset
<1>3. Prevs(f, o) \in Nat /\ (Prevs(f, o) = 0 <=> P = {})
  BY <1>2, FS_CardinalityType, FS_EmptySet DEF Prevs
<1> QED
  BY <1>2, <1>3

\* So is how many depths keep it as their unnamed system.
LEMMA AnonsType ==
  ASSUME NEW a \in [1 .. MaxDepth -> Ptr], NEW o
  PROVE  /\ IsFiniteSet({d \in DOMAIN a : a[d] = o}) /\ Anons(a, o) \in Nat
         /\ Anons(a, o) > 0 <=> \E d \in DOMAIN a : a[d] = o
<1> DEFINE P == {d \in DOMAIN a : a[d] = o}
<1>1. IsFiniteSet(1 .. MaxDepth) /\ DOMAIN a = 1 .. MaxDepth
  BY DepthAssumption, FS_Interval
<1>2. IsFiniteSet(P)
  BY <1>1, FS_Subset
<1>3. Anons(a, o) \in Nat /\ (Anons(a, o) = 0 <=> P = {})
  BY <1>2, FS_CardinalityType, FS_EmptySet DEF Anons
<1> QED
  BY <1>2, <1>3

\* Outside counts both.
LEMMA OutsideType ==
  ASSUME NEW f \in Seq(Frames), NEW a \in [1 .. MaxDepth -> Ptr]
  PROVE  /\ Outside(f, a) \in Counts
         /\ \A o \in Obj : /\ Outside(f, a)[o] = Prevs(f, o) + Anons(a, o)
                           /\ Prevs(f, o) \in Nat /\ Anons(a, o) \in Nat
         /\ \A o \in Obj : Outside(f, a)[o] > 0 <=>
                              \/ \E i \in DOMAIN f : f[i].prev = o
                              \/ \E d \in DOMAIN a : a[d] = o
<1>1. \A o \in Obj : /\ Prevs(f, o) \in Nat
                     /\ Prevs(f, o) > 0 <=> \E i \in DOMAIN f : f[i].prev = o
  BY PrevsType
<1>2. \A o \in Obj : /\ Anons(a, o) \in Nat
                     /\ Anons(a, o) > 0 <=> \E d \in DOMAIN a : a[d] = o
  BY AnonsType
<1>3. \A o \in Obj : Outside(f, a)[o] = Prevs(f, o) + Anons(a, o)
  BY DEF Outside
<1>4. Outside(f, a) \in Counts
  BY <1>1, <1>2 DEF Outside, Counts
<1> QED
  BY <1>1, <1>2, <1>3, <1>4

\* A call counts the model it hides.
LEMMA PrevsAppend ==
  ASSUME NEW f \in Seq(Frames), NEW g \in Frames, NEW o
  PROVE  /\ g.prev = o => Prevs(Append(f, g), o) = Prevs(f, o) + 1
         /\ g.prev # o => Prevs(Append(f, g), o) = Prevs(f, o)
<1> DEFINE P == {i \in DOMAIN f : f[i].prev = o}
           Q == {i \in DOMAIN Append(f, g) : Append(f, g)[i].prev = o}
           n == Len(f) + 1
<1>1. /\ Append(f, g) \in Seq(Frames) /\ Len(Append(f, g)) = n
      /\ \A i \in 1 .. Len(f) : Append(f, g)[i] = f[i]
      /\ Append(f, g)[n] = g
  BY AppendProperties
<1>2. Len(f) \in Nat /\ DOMAIN f = 1 .. Len(f) /\ DOMAIN Append(f, g) = 1 .. n
  BY <1>1, FramesFacts
<1>3. n \notin P /\ DOMAIN Append(f, g) = DOMAIN f \cup {n}
  BY <1>2
<1> HIDE DEF n
<1>4. Q = IF g.prev = o THEN P \cup {n} ELSE P
  BY <1>1, <1>2, <1>3
<1>5. IsFiniteSet(P) /\ Cardinality(P) \in Nat
  BY PrevsType DEF Prevs
<1>6. Cardinality(P \cup {n}) = Cardinality(P) + 1
  BY <1>3, <1>5, FS_AddElement
<1>7. Prevs(f, o) = Cardinality(P) /\ Prevs(Append(f, g), o) = Cardinality(Q)
  BY DEF Prevs
<1> HIDE DEF P, Q
<1> QED
  BY <1>4, <1>5, <1>6, <1>7

\* The number before a number above one.
LEMMA OneDown == ASSUME NEW n \in Nat, n > 1
                 PROVE  n - 1 \in Nat \ {0} /\ n = (n - 1) + 1
  OBVIOUS

\* SubSeq(f, 1, Len(f) - 1), the frames when the innermost has returned.
LEMMA OuterFrames ==
  ASSUME NEW f \in Seq(Frames), Len(f) > 1
  PROVE  LET g == SubSeq(f, 1, Len(f) - 1)
         IN  /\ g \in Seq(Frames) /\ Len(g) = Len(f) - 1 /\ Len(g) \in Nat \ {0}
             /\ DOMAIN g = 1 .. Len(g) /\ DOMAIN f = DOMAIN g \cup {Len(f)}
             /\ Len(f) \notin DOMAIN g
             /\ \A i \in DOMAIN g : g[i] = f[i]
<1> DEFINE m == Len(f) - 1
<1>0. Len(f) \in Nat
  BY FramesFacts
<1>1. Len(f) \in Nat /\ m \in Nat \ {0} /\ Len(f) = m + 1
  BY <1>0, OneDown
<1>2. \A i \in 1 .. m : f[i] \in Frames
  BY <1>1, FramesFacts
<1> HIDE DEF m
<1>3. /\ SubSeq(f, 1, m) \in Seq(Frames)
      /\ Len(SubSeq(f, 1, m)) = IF 1 <= m THEN m - 1 + 1 ELSE 0
      /\ \A i \in 1 .. m - 1 + 1 : SubSeq(f, 1, m)[i] = f[1 + i - 1]
  BY <1>1, <1>2, SubSeqProperties
<1>4. Len(SubSeq(f, 1, m)) = m /\ 1 .. m - 1 + 1 = 1 .. m /\ \A i \in 1 .. m : 1 + i - 1 = i
  BY <1>1, <1>3
<1>5. \A i \in 1 .. m : SubSeq(f, 1, m)[i] = f[i]
  BY <1>3, <1>4
<1>6. DOMAIN SubSeq(f, 1, m) = 1 .. m /\ DOMAIN f = 1 .. m + 1
  BY <1>1, <1>3, <1>4, FramesFacts
<1> QED
  BY <1>1, <1>3, <1>4, <1>5, <1>6 DEF m

\* A return counts it no more.
LEMMA PrevsOuter ==
  ASSUME NEW f \in Seq(Frames), Len(f) > 1, NEW o
  PROVE  LET h == SubSeq(f, 1, Len(f) - 1)
         IN  /\ f[Len(f)].prev = o => Prevs(f, o) = Prevs(h, o) + 1
             /\ f[Len(f)].prev # o => Prevs(f, o) = Prevs(h, o)
<1> DEFINE g == SubSeq(f, 1, Len(f) - 1)
           n == Len(f)
           P == {i \in DOMAIN g : g[i].prev = o}
           Q == {i \in DOMAIN f : f[i].prev = o}
<1>1. /\ g \in Seq(Frames) /\ DOMAIN f = DOMAIN g \cup {n} /\ n \notin DOMAIN g
      /\ \A i \in DOMAIN g : g[i] = f[i]
  BY OuterFrames
<1> HIDE DEF g, n
<1>2. Q = IF f[n].prev = o THEN P \cup {n} ELSE P
  BY <1>1
<1>3. IsFiniteSet(P) /\ Cardinality(P) \in Nat
  BY <1>1, PrevsType DEF Prevs
<1>4. Cardinality(P \cup {n}) = Cardinality(P) + 1
  BY <1>1, <1>3, FS_AddElement
<1>5. Prevs(g, o) = Cardinality(P) /\ Prevs(f, o) = Cardinality(Q)
  BY DEF Prevs
<1>6. /\ f[n].prev = o => Prevs(f, o) = Prevs(g, o) + 1
      /\ f[n].prev # o => Prevs(f, o) = Prevs(g, o)
  <2> HIDE DEF P, Q
  <2> QED
    BY <1>2, <1>3, <1>4, <1>5
<1> QED
  BY <1>6 DEF g, n

\* Another unnamed system at one depth moves one place from one object to
\* another.
LEMMA AnonsExcept ==
  ASSUME NEW a \in [1 .. MaxDepth -> Ptr], NEW b \in [1 .. MaxDepth -> Ptr],
         NEW d \in 1 .. MaxDepth, \A e \in 1 .. MaxDepth : e # d => b[e] = a[e], NEW o
  PROVE  /\ a[d] # o /\ b[d] # o => Anons(b, o) = Anons(a, o)
         /\ a[d] = o /\ b[d] # o => Anons(a, o) = Anons(b, o) + 1
         /\ a[d] # o /\ b[d] = o => Anons(b, o) = Anons(a, o) + 1
<1> DEFINE R == {e \in DOMAIN a : e # d /\ a[e] = o}
           P == {e \in DOMAIN a : a[e] = o}
           Q == {e \in DOMAIN b : b[e] = o}
<1>1. /\ DOMAIN b = DOMAIN a /\ d \in DOMAIN a
      /\ \A e \in DOMAIN a : e # d => b[e] = a[e]
  OBVIOUS
<1>2. /\ P = (IF a[d] = o THEN R \cup {d} ELSE R)
      /\ Q = (IF b[d] = o THEN R \cup {d} ELSE R)
      /\ d \notin R
  BY <1>1
<1>3. IsFiniteSet(P) /\ R \in SUBSET P
  BY AnonsType
<1> HIDE DEF R, P, Q
<1>4. IsFiniteSet(R)
  BY <1>3, FS_Subset
<1>5. Cardinality(R \cup {d}) = Cardinality(R) + 1 /\ Cardinality(R) \in Nat
  BY <1>2, <1>4, FS_AddElement, FS_CardinalityType
<1>6. Anons(a, o) = Cardinality(P) /\ Anons(b, o) = Cardinality(Q)
  BY DEF Anons, P, Q
<1> QED
  BY <1>2, <1>5, <1>6

\* Frames that give the same models back count the same places.
LEMMA OutsideSame ==
  ASSUME NEW f, NEW h, NEW a, DOMAIN h = DOMAIN f,
         \A i \in DOMAIN f : h[i].prev = f[i].prev
  PROVE  Outside(h, a) = Outside(f, a)
<1>1. \A o : {i \in DOMAIN h : h[i].prev = o} = {i \in DOMAIN f : f[i].prev = o}
  OBVIOUS
<1>2. \A o \in Obj : Prevs(h, o) = Prevs(f, o)
  BY <1>1 DEF Prevs
<1> QED
  BY <1>2 DEF Outside

\* The innermost frame changes; what it makes (N) is new to all frames.
LEMMA FramedChange ==
  ASSUME NEW f, Framed(f), NEW g \in Frames, NEW N,
         g.model = f[Len(f)].model, g.prev = f[Len(f)].prev,
         Own(g) \subseteq Own(f[Len(f)]) \cup N,
         NestedLoops(g), OwnDistinct(g),
         \A i \in DOMAIN f : N \cap Own(f[i]) = {} /\ f[i].prev \notin N
  PROVE  LET h == [f EXCEPT ![Len(f)] = g]
         IN  /\ Framed(h) /\ Len(h) = Len(f) /\ DOMAIN h = DOMAIN f
             /\ h[Len(f)] = g /\ \A i \in DOMAIN f : i # Len(f) => h[i] = f[i]
             /\ AllOwn(h) = (AllOwn(f) \ Own(f[Len(f)])) \cup Own(g)
             /\ \A a : Outside(h, a) = Outside(f, a)
<1> DEFINE n == Len(f)
           h == [f EXCEPT ![n] = g]
<1>1. /\ f \in Seq(Frames) /\ n \in 1 .. MaxDepth /\ n \in Nat /\ n >= 1
      /\ DOMAIN f = 1 .. n /\ n \in DOMAIN f /\ \A i \in DOMAIN f : f[i] \in Frames
  <2>1. f \in Seq(Frames) /\ Len(f) \in 1 .. MaxDepth
    BY DEF Framed
  <2>2. Len(f) \in Nat /\ DOMAIN f = 1 .. Len(f) /\ \A i \in DOMAIN f : f[i] \in Frames
    BY <2>1, FramesFacts
  <2> QED
    BY <2>1, <2>2
<1>2. /\ h \in Seq(Frames) /\ Len(h) = n
      /\ \A j \in 1 .. n : h[j] = IF j = n THEN g ELSE f[j]
  BY <1>1, ExceptSeq
<1>3. DOMAIN h = DOMAIN f
  OBVIOUS
<1> HIDE DEF n, h
<1>4. h[n] = g /\ \A i \in DOMAIN f : i # n => h[i] = f[i]
  BY <1>1, <1>2
<1>5. \A i \in DOMAIN f : h[i].prev = f[i].prev
  BY <1>4 DEF n
<1>6. OnlyLastDefines(h)
  BY <1>2, <1>3, <1>4 DEF Framed, OnlyLastDefines, n
<1>7. \A i \in DOMAIN f : NestedLoops(h[i]) /\ OwnDistinct(h[i])
  BY <1>4 DEF Framed
<1>8. \A i \in DOMAIN f : Own(h[i]) \subseteq Own(f[i]) \cup (IF i = n THEN N ELSE {})
  BY <1>4 DEF n
<1>9. Apart(h)
  <2> SUFFICES ASSUME NEW i \in DOMAIN f, NEW j \in DOMAIN f, i # j,
                      NEW o, o \in Own(h[i]), o \in Own(h[j])
               PROVE  FALSE
    BY <1>3 DEF Apart
  <2>1. Own(f[i]) \cap Own(f[j]) = {}
    BY DEF Framed, Apart
  <2>2. (o \in Own(f[i]) \/ (i = n /\ o \in N)) /\ (o \in Own(f[j]) \/ (j = n /\ o \in N))
    BY <1>8
  <2> QED
    BY <2>1, <2>2
<1>10. Older(h)
  <2> SUFFICES ASSUME NEW i \in DOMAIN f, NEW j \in 1 .. i PROVE h[j].prev \notin Own(h[i])
    BY <1>3 DEF Older
  <2>1. j \in DOMAIN f
    BY <1>1
  <2>2. f[j].prev \notin Own(f[i]) /\ f[j].prev \notin N
    BY <2>1 DEF Framed, Older
  <2> QED
    BY <1>5, <1>8, <2>1, <2>2
<1>11. h[1].prev = Null
  BY <1>1, <1>5 DEF Framed
<1>12. Framed(h)
  BY <1>1, <1>2, <1>3, <1>6, <1>7, <1>9, <1>10, <1>11 DEF Framed
<1>13. AllOwn(h) = (AllOwn(f) \ Own(f[n])) \cup Own(g)
  <2>1. ASSUME NEW i \in DOMAIN f, i # n
        PROVE  Own(h[i]) = Own(f[i]) /\ Own(f[i]) \cap Own(f[n]) = {}
    BY <1>1, <1>4, <2>1 DEF Framed, Apart
  <2>2. ASSUME NEW o, o \in AllOwn(h) PROVE o \in (AllOwn(f) \ Own(f[n])) \cup Own(g)
    <3>1. PICK i \in DOMAIN f : o \in Own(h[i])
      BY <1>3, <2>2 DEF AllOwn
    <3> QED
      BY <1>4, <2>1, <3>1 DEF AllOwn
  <2>3. ASSUME NEW o, o \in (AllOwn(f) \ Own(f[n])) \cup Own(g) PROVE o \in AllOwn(h)
    <3>1. CASE o \in Own(g)
      BY <1>1, <1>3, <1>4, <3>1 DEF AllOwn
    <3>2. CASE o \in AllOwn(f) \ Own(f[n])
      <4>1. PICK i \in DOMAIN f : o \in Own(f[i])
        BY <3>2 DEF AllOwn
      <4> QED
        BY <1>3, <2>1, <3>2, <4>1 DEF AllOwn
    <3> QED
      BY <2>3, <3>1, <3>2
  <2> QED
    BY <2>2, <2>3
<1>14. \A a : Outside(h, a) = Outside(f, a)
  BY <1>3, <1>5, OutsideSame
<1> QED
  BY <1>2, <1>3, <1>4, <1>12, <1>13, <1>14 DEF h, n

\* Only which system the innermost frame is defining changes.
LEMMA FramedSys ==
  ASSUME NEW f, Framed(f), NEW s \in Ptr
  PROVE  LET h == [f EXCEPT ![Len(f)] = [f[Len(f)] EXCEPT !.sys = s]]
         IN  /\ Framed(h) /\ Len(h) = Len(f) /\ DOMAIN h = DOMAIN f
             /\ h[Len(f)].sys = s
             /\ AllOwn(h) = AllOwn(f)
             /\ \A a : Outside(h, a) = Outside(f, a)
<1> DEFINE t == f[Len(f)]
           g == [t EXCEPT !.sys = s]
           h == [f EXCEPT ![Len(f)] = g]
<1>1. f \in Seq(Frames) /\ Len(f) \in 1 .. MaxDepth /\ \A i \in DOMAIN f : NestedLoops(f[i]) /\ OwnDistinct(f[i])
  BY DEF Framed
<1>2. Len(f) \in DOMAIN f /\ t \in Frames
  BY <1>1, FramesFacts
<1> HIDE DEF t
<1>3. g \in Frames /\ g.model = t.model /\ g.prev = t.prev /\ g.loops = t.loops /\ g.sys = s
  BY <1>2 DEF Frames
<1> HIDE DEF g
<1>4. Own(g) = Own(t) /\ NestedLoops(g) /\ OwnDistinct(g)
  <2>1. NestedLoops(t) /\ OwnDistinct(t)
    BY <1>1, <1>2 DEF t
  <2>2. Running(g) = Running(t)
    BY <1>3 DEF Running
  <2> QED
    BY <1>3, <2>1, <2>2 DEF Own, NestedLoops, OwnDistinct
<1>5. /\ Framed(h) /\ Len(h) = Len(f) /\ DOMAIN h = DOMAIN f /\ h[Len(f)] = g
      /\ AllOwn(h) = (AllOwn(f) \ Own(t)) \cup Own(g)
      /\ \A a : Outside(h, a) = Outside(f, a)
  <2>1. \A i \in DOMAIN f : {} \cap Own(f[i]) = {} /\ f[i].prev \notin {}
    OBVIOUS
  <2>2. /\ g.model = f[Len(f)].model /\ g.prev = f[Len(f)].prev
        /\ Own(g) \subseteq Own(f[Len(f)]) \cup {}
    BY <1>3, <1>4 DEF t
  <2>3. LET k == [f EXCEPT ![Len(f)] = g]
        IN  /\ Framed(k) /\ Len(k) = Len(f) /\ DOMAIN k = DOMAIN f
            /\ k[Len(f)] = g /\ \A i \in DOMAIN f : i # Len(f) => k[i] = f[i]
            /\ AllOwn(k) = (AllOwn(f) \ Own(f[Len(f)])) \cup Own(g)
            /\ \A a : Outside(k, a) = Outside(f, a)
    BY <1>3, <1>4, <2>1, <2>2, FramedChange, ZenonT(60)
  <2> QED
    BY <2>3 DEF t
<1> HIDE DEF h
<1>6. Own(t) \subseteq AllOwn(f)
  BY <1>2 DEF AllOwn, t
<1> QED
  BY <1>3, <1>4, <1>5, <1>6 DEF h, g, t

\* A function is called, in a frame whose working model is new.
LEMMA FramedCall ==
  ASSUME NEW f, Framed(f), Len(f) < MaxDepth, f[Len(f)].sys = Null,
         NEW o \in Obj, NEW p \in Ptr, p # o,
         \A i \in DOMAIN f : o \notin Own(f[i]) /\ f[i].prev # o
  PROVE  LET h == Append(f, Frame(o, p))
         IN  /\ Framed(h) /\ Len(h) = Len(f) + 1
             /\ h[Len(h)] = Frame(o, p)
             /\ AllOwn(h) = AllOwn(f) \cup {o}
<1> DEFINE g == Frame(o, p)
           h == Append(f, g)
           n == Len(f) + 1
<1>1. f \in Seq(Frames) /\ Len(f) \in 1 .. MaxDepth /\ f[1].prev = Null
  BY DEF Framed
<1>2. Len(f) \in Nat /\ DOMAIN f = 1 .. Len(f) /\ \A i \in DOMAIN f : f[i] \in Frames
  BY <1>1, FramesFacts
<1>3. g \in Frames /\ g.model = o /\ g.prev = p /\ g.sys = Null /\ \A l \in 1 .. 2 : g.loops[l] = NoLoop
  <2>1. << >> \in Seq(Obj)
    BY EmptySeq
  <2>2. NoLoop \in Loops
    BY <2>1 DEF NoLoop, Loops
  <2> QED
    BY <2>2, NullAssumption DEF Frame, Frames, Ptr
<1> HIDE DEF g
<1>4. /\ h \in Seq(Frames) /\ Len(h) = n /\ h[n] = g
      /\ \A i \in 1 .. Len(f) : h[i] = f[i]
  BY <1>1, <1>3, AppendProperties
<1>5. DOMAIN h = 1 .. n
  BY <1>4, FramesFacts
<1> HIDE DEF h
<1>6. n \in 1 .. MaxDepth /\ 1 .. n = (1 .. Len(f)) \cup {n} /\ n \notin 1 .. Len(f) /\ 1 \in 1 .. Len(f)
  BY <1>1, <1>2, DepthAssumption
<1> HIDE DEF n
<1>7. Running(g) = {} /\ Own(g) = {o}
  <2>1. \A l \in 1 .. 2 : ~g.loops[l].on
    BY <1>3 DEF NoLoop
  <2>2. Running(g) = {}
    BY <2>1 DEF Running
  <2> QED
    BY <1>3, <2>2 DEF Own
<1>8. NestedLoops(g) /\ OwnDistinct(g)
  BY <1>3, <1>7 DEF NestedLoops, OwnDistinct, NoLoop
<1>9. \A i \in DOMAIN h : NestedLoops(h[i]) /\ OwnDistinct(h[i])
  BY <1>2, <1>4, <1>5, <1>6, <1>8 DEF Framed
<1>10. OnlyLastDefines(h)
  <2> SUFFICES ASSUME NEW i \in DOMAIN h, i # n PROVE h[i].sys = Null
    BY <1>4 DEF OnlyLastDefines
  <2>1. i \in DOMAIN f /\ h[i] = f[i]
    BY <1>2, <1>4, <1>5, <1>6
  <2> QED
    BY <2>1 DEF Framed, OnlyLastDefines
<1>11. Apart(h)
  BY <1>2, <1>4, <1>5, <1>6, <1>7 DEF Framed, Apart
<1>12. Older(h)
  <2> SUFFICES ASSUME NEW i \in DOMAIN h, NEW j \in 1 .. i PROVE h[j].prev \notin Own(h[i])
    BY DEF Older
  <2>1. CASE i = n
    <3>1. h[j].prev # o
      <4>1. j = n \/ j \in DOMAIN f
        BY <1>2, <1>6, <2>1
      <4> QED
        BY <1>2, <1>3, <1>4, <4>1
    <3> QED
      BY <1>4, <1>7, <2>1, <3>1
  <2>2. CASE i # n
    <3>1. i \in DOMAIN f /\ j \in DOMAIN f
      BY <1>2, <1>5, <1>6, <2>2
    <3> QED
      BY <1>2, <1>4, <3>1 DEF Framed, Older
  <2> QED
    BY <2>1, <2>2
<1>13. Framed(h)
  BY <1>1, <1>4, <1>6, <1>9, <1>10, <1>11, <1>12 DEF Framed
<1>14. AllOwn(h) = AllOwn(f) \cup {o}
  <2>1. ASSUME NEW q, q \in AllOwn(h) PROVE q \in AllOwn(f) \cup {o}
    <3>1. PICK i \in DOMAIN h : q \in Own(h[i])
      BY <2>1 DEF AllOwn
    <3>2. i = n \/ (i \in DOMAIN f /\ h[i] = f[i])
      BY <1>2, <1>4, <1>5, <1>6
    <3> QED
      BY <1>4, <1>7, <3>1, <3>2 DEF AllOwn
  <2>2. ASSUME NEW i \in DOMAIN f PROVE Own(f[i]) \subseteq AllOwn(h)
    <3>1. i \in DOMAIN h /\ h[i] = f[i]
      BY <1>2, <1>4, <1>5, <1>6
    <3> QED
      BY <3>1 DEF AllOwn
  <2>3. o \in AllOwn(h)
    <3>1. n \in DOMAIN h /\ o \in Own(h[n])
      BY <1>4, <1>5, <1>6, <1>7
    <3> QED
      BY <3>1 DEF AllOwn
  <2>4. AllOwn(f) \subseteq AllOwn(h)
    BY <2>2 DEF AllOwn
  <2> QED
    BY <2>1, <2>3, <2>4
<1> QED
  BY <1>4, <1>13, <1>14 DEF h, g, n

\* A function returns.
LEMMA FramedReturn ==
  ASSUME NEW f, Framed(f), Len(f) > 1
  PROVE  LET h == SubSeq(f, 1, Len(f) - 1)
         IN  /\ Framed(h) /\ h[Len(h)].sys = Null
             /\ AllOwn(h) = AllOwn(f) \ Own(f[Len(f)])
<1> DEFINE n == Len(f)
           h == SubSeq(f, 1, n - 1)
<1>1. f \in Seq(Frames) /\ Len(f) \in 1 .. MaxDepth /\ f[1].prev = Null
  BY DEF Framed
<1>2. /\ h \in Seq(Frames) /\ Len(h) = n - 1 /\ Len(h) \in Nat \ {0}
      /\ DOMAIN h = 1 .. Len(h) /\ DOMAIN f = DOMAIN h \cup {n} /\ n \notin DOMAIN h
      /\ \A i \in DOMAIN h : h[i] = f[i]
  BY <1>1, OuterFrames
<1> HIDE DEF h
<1>3. Len(h) \in 1 .. MaxDepth
  <2>1. n \in Nat /\ n <= MaxDepth /\ MaxDepth \in Nat
    BY <1>1, DepthAssumption
  <2>2. Len(h) \in Nat /\ Len(h) >= 1 /\ Len(h) = n - 1
    BY <1>2
  <2> HIDE DEF n
  <2>3. Len(h) <= MaxDepth
    BY <2>1, <2>2
  <2> QED
    BY <2>1, <2>2, <2>3
<1> HIDE DEF n
<1>4. 1 \in DOMAIN h /\ Len(h) \in DOMAIN h /\ \A i \in DOMAIN h : 1 .. i \subseteq DOMAIN h
  BY <1>2
<1>5. \A i \in DOMAIN h : h[i].sys = Null
  <2> SUFFICES ASSUME NEW i \in DOMAIN h PROVE f[i].sys = Null
    BY <1>2
  <2>1. i \in DOMAIN f /\ i # Len(f)
    BY <1>2 DEF n
  <2> QED
    BY <2>1 DEF Framed, OnlyLastDefines
<1>6. OnlyLastDefines(h)
  BY <1>5 DEF OnlyLastDefines
<1>7. Apart(h)
  BY <1>2 DEF Framed, Apart
<1>8. Older(h)
  <2> SUFFICES ASSUME NEW i \in DOMAIN h, NEW j \in 1 .. i PROVE h[j].prev \notin Own(h[i])
    BY DEF Older
  <2>1. j \in DOMAIN h /\ i \in DOMAIN f
    BY <1>2, <1>4
  <2> QED
    BY <1>2, <2>1 DEF Framed, Older
<1>9. Framed(h)
  BY <1>1, <1>2, <1>3, <1>4, <1>6, <1>7, <1>8 DEF Framed
<1>10. AllOwn(h) = AllOwn(f) \ Own(f[n])
  <2>1. \A i \in DOMAIN h : Own(f[i]) \cap Own(f[n]) = {} /\ Own(h[i]) = Own(f[i])
    BY <1>2 DEF Framed, Apart
  <2> QED
    BY <1>2, <2>1 DEF AllOwn
<1> QED
  BY <1>4, <1>5, <1>9, <1>10 DEF h, n

----------------------------------------------------------------------------
\* As Keeps, but for an object that is new.
KeepsBut(u, m, o) == \A p \in Obj : Alive(u, p) /\ p # o
                                       => u.kind[p] = m.kind[p] /\ u.eqns[p] = m.eqns[p]

\* What the invariant says of the shape of the state.
LEMMA StateFacts ==
  ASSUME IInv
  PROVE  /\ store \in Stores /\ frames \in Seq(Frames) /\ anon \in [1 .. MaxDepth -> Ptr]
         /\ Depth \in Nat /\ Depth \in 1 .. MaxDepth /\ DOMAIN frames = 1 .. Depth
         /\ Depth \in DOMAIN frames /\ \A i \in DOMAIN frames : frames[i] \in Frames
         /\ Top = frames[Depth] /\ Top \in Frames
         /\ DOMAIN anon = 1 .. MaxDepth /\ anon[Depth] \in Ptr
         /\ Outside(frames, anon) \in Counts
<1>1. store \in Stores /\ frames \in Seq(Frames) /\ anon \in [1 .. MaxDepth -> Ptr] /\ Depth \in 1 .. MaxDepth
  BY DEF IInv, Inv, Sound, Framed, Depth
<1>2. Len(frames) \in Nat /\ DOMAIN frames = 1 .. Len(frames) /\ \A i \in DOMAIN frames : frames[i] \in Frames
  BY <1>1, FramesFacts
<1>3. Outside(frames, anon) \in Counts
  BY <1>1, OutsideType
<1> QED
  BY <1>1, <1>2, <1>3 DEF Depth, Top

\* Whatever a frame may give back or keeps unnamed is alive.
LEMMA OutsideAlive ==
  ASSUME NEW f \in Seq(Frames), NEW a \in [1 .. MaxDepth -> Ptr], NEW m,
         Sound(m, Outside(f, a))
  PROVE  /\ \A i \in DOMAIN f : f[i].prev # Null =>
                Alive(m, f[i].prev) /\ Outside(f, a)[f[i].prev] > 0
         /\ \A d \in DOMAIN a : a[d] # Null => Alive(m, a[d]) /\ Outside(f, a)[a[d]] > 0
<1>1. \A o \in Obj : /\ Outside(f, a)[o] > 0 => Alive(m, o)
                     /\ Outside(f, a)[o] > 0 <=> \/ \E i \in DOMAIN f : f[i].prev = o
                                                 \/ \E d \in DOMAIN a : a[d] = o
  BY OutsideType DEF Sound, HeldAlive, Held
<1>2. \A i \in DOMAIN f : f[i].prev \in Ptr
  BY FramesFacts DEF Frames
<1>3. \A d \in DOMAIN a : a[d] \in Ptr
  OBVIOUS
<1> QED
  BY <1>1, <1>2, <1>3 DEF Ptr

\* Unnamed systems remain systems.
LEMMA AnonKept ==
  ASSUME IInv, NEW u, Sound(u, Outside(frames, anon)),
         NEW o, o \in Obj => ~Alive(store, o), KeepsBut(u, store, o)
  PROVE  AnonSystems(u, anon)
<1>1. frames \in Seq(Frames) /\ anon \in [1 .. MaxDepth -> Ptr]
  BY StateFacts
<1>2. AnonSystems(store, anon) /\ Sound(store, Outside(frames, anon))
  BY DEF IInv, Inv
<1>3. \A d \in DOMAIN anon : anon[d] # Null => anon[d] # o
  <2>1. \A d \in DOMAIN anon : anon[d] # Null => Alive(store, anon[d])
    BY <1>1, <1>2, OutsideAlive
  <2> QED
    BY <1>1, <2>1 DEF Ptr
<1>4. \A d \in DOMAIN anon : anon[d] # Null => Alive(u, anon[d])
  BY <1>1, OutsideAlive
<1> QED
  BY <1>1, <1>2, <1>3, <1>4 DEF AnonSystems, KeepsBut, Ptr

\* Systems that a caller gets back remain complete.
LEMMA PrevsStay ==
  ASSUME NEW f \in Seq(Frames), NEW b \in [1 .. MaxDepth -> Ptr], NEW u, NEW m,
         Sound(u, Outside(f, b)), PrevsComplete(m, f),
         NEW o, o \in Obj => \A i \in DOMAIN f : f[i].prev # o, KeepsBut(u, m, o)
  PROVE  PrevsComplete(u, f)
<1> SUFFICES ASSUME NEW i \in DOMAIN f, f[i].prev # Null, u.kind[f[i].prev] = "sys"
             PROVE  u.eqns[f[i].prev] > 0
  BY DEF PrevsComplete
<1>1. f[i].prev \in Obj /\ Alive(u, f[i].prev)
  BY FramesFacts, OutsideAlive DEF Frames, Ptr
<1>2. f[i].prev # o
  BY <1>1
<1>3. u.kind[f[i].prev] = m.kind[f[i].prev] /\ u.eqns[f[i].prev] = m.eqns[f[i].prev]
  BY <1>1, <1>2 DEF KeepsBut
<1> QED
  BY <1>3 DEF PrevsComplete

\* The same for the frames as they are, of which none gives a new object back.
LEMMA PrevsKept ==
  ASSUME IInv, NEW b \in [1 .. MaxDepth -> Ptr], NEW u, Sound(u, Outside(frames, b)),
         NEW o, o \in Obj => ~Alive(store, o), KeepsBut(u, store, o)
  PROVE  PrevsComplete(u, frames)
<1>1. /\ frames \in Seq(Frames) /\ anon \in [1 .. MaxDepth -> Ptr]
      /\ Sound(store, Outside(frames, anon)) /\ PrevsComplete(store, frames)
  BY StateFacts DEF IInv, Inv
<1>2. o \in Obj => \A i \in DOMAIN frames : frames[i].prev # o
  BY <1>1, OutsideAlive, NullAssumption
<1> QED
  BY <1>1, <1>2, PrevsStay

\* A step that changes the store alone, outside of a system block.
LEMMA StoreStep ==
  ASSUME IInv, UNCHANGED <<anon, frames>>, Top.sys = Null,
         Sound(store', Outside(frames, anon)), store'.prot = store.prot,
         NEW o, o \in Obj => ~Alive(store, o), KeepsBut(store', store, o)
  PROVE  IInv'
<1> DEFINE X == Outside(frames, anon)
<1>1. frames \in Seq(Frames) /\ anon \in [1 .. MaxDepth -> Ptr] /\ Top = frames[Len(frames)]
  BY StateFacts DEF Depth
<1>2. Framed(frames) /\ store.prot = AllOwn(frames)
  BY DEF IInv, Inv
<1>4. AnonSystems(store', anon)
  BY AnonKept
<1>5. Defined(store', frames, anon)
  BY <1>1 DEF Defined
<1>6. PrevsComplete(store', frames)
  BY <1>1, PrevsKept
<1>7. Inv(store', frames, anon)
  BY <1>1, <1>2, <1>4, <1>5, <1>6 DEF Inv
<1> QED
  BY <1>7 DEF IInv

\* What keeps every object keeps all but one.
LEMMA KeepsIsKeepsBut ==
  ASSUME NEW u, NEW m, Keeps(u, m), NEW o PROVE KeepsBut(u, m, o)
  BY DEF Keeps, KeepsBut

\* The new working model of a frame, and what a frame owns, is alive and its own.
LEMMA TopOwn ==
  ASSUME IInv
  PROVE  /\ Top.model \in Obj /\ Top.model \in store.prot /\ store.kind[Top.model] = "eqn"
         /\ Own(Top) \subseteq store.prot /\ store.prot \subseteq Obj
<1>1. Own(Top) \subseteq AllOwn(frames) /\ Top \in Frames
  BY StateFacts DEF AllOwn
<1>2. store.prot = AllOwn(frames) /\ ProtectedOnes(store) /\ store.prot \subseteq Obj
  BY StoreParts DEF IInv, Inv, Sound
<1> QED
  BY <1>1, <1>2 DEF Own, Frames, ProtectedOnes

\* print_save_model without a name: the working model, which is protected.
LEMMA StepEstimateModel ==
  ASSUME IInv, EstimateModel PROVE IInv'
<1> DEFINE X == Outside(frames, anon)
<1>1. X \in Counts /\ Sound(store, X)
  BY StateFacts DEF IInv, Inv
<1>2. Top.model \in Obj /\ Alive(store, Top.model) /\ store.kind[Top.model] = "eqn"
  BY TopOwn DEF Alive
<1>3. LET u == SetLast(store, Top.model)
      IN  Sound(u, X) /\ Keeps(u, store) /\ u.prot = store.prot
  BY <1>1, <1>2, SoundSetLast DEF Ptr
<1>4. /\ Sound(store', X) /\ KeepsBut(store', store, Null) /\ store'.prot = store.prot
      /\ UNCHANGED <<anon, frames>> /\ Top.sys = Null
  BY <1>3, KeepsIsKeepsBut DEF EstimateModel, Ready
<1> QED
  BY <1>4, StoreStep, NullAssumption

\* print_save_model with a name: a copy is stacked, then becomes the last model.
LEMMA StepEstimateNamed ==
  ASSUME IInv, Kept, NEW n \in Name, NEW o \in Obj, EstimateNamed(n, o)
  PROVE  IInv'
<1> DEFINE X == Outside(frames, anon)
           m1 == New(store, o, "eqn")
           m2 == StackAs(m1, o, n)
           u == SetLast(m2, o)
<1>1. /\ X \in Counts /\ Sound(store, X) /\ store \in Stores
      /\ ~Alive(store, o) /\ Top.sys = Null /\ store' = u /\ UNCHANGED <<anon, frames>>
      /\ o \notin store.listed
  BY StateFacts DEF IInv, Inv, EstimateNamed, Ready, Unused, Alive, Kept
<1>2. /\ Sound(m1, X) /\ SameBut(m1, store, o)
      /\ m1.kind[o] = "eqn" /\ m1.prot = store.prot
  BY <1>1, SoundNew, NewParts DEF Kind
<1>3. Alive(m1, o) /\ o \notin m1.prot
  BY <1>1, <1>2, UnusedFacts DEF Alive
<1> HIDE DEF m1, X
<1>4. Sound(m2, X) /\ Keeps(m2, m1) /\ m2.prot = m1.prot /\ Alive(m2, o)
  BY <1>1, <1>2, <1>3, SoundStackAs
<1>5. m2.kind[o] = "eqn"
  BY <1>2, <1>4 DEF Keeps
<1> HIDE DEF m2
<1>6. Sound(u, X) /\ Keeps(u, m2) /\ u.prot = m2.prot
  BY <1>1, <1>4, <1>5, SoundSetLast DEF Ptr
<1>7. KeepsBut(u, store, o)
  BY <1>2, <1>4, <1>6 DEF KeepsBut, Keeps, SameBut, Alive
<1> QED
  BY <1>1, <1>2, <1>4, <1>6, <1>7, StoreStep DEF X

\* maybe_stack_var without a name.
LEMMA StepEstimateVAR ==
  ASSUME IInv, NEW o \in Obj, EstimateVAR(o) PROVE IInv'
<1> DEFINE X == Outside(frames, anon)
           m1 == New(store, o, "var")
           u == SetLast(m1, o)
<1>1. /\ X \in Counts /\ Sound(store, X) /\ store \in Stores
      /\ ~Alive(store, o) /\ Top.sys = Null /\ store' = u /\ UNCHANGED <<anon, frames>>
  BY StateFacts DEF IInv, Inv, EstimateVAR, Ready, Unused, Alive
<1>2. /\ Sound(m1, X) /\ SameBut(m1, store, o)
      /\ m1.kind[o] = "var" /\ m1.prot = store.prot
  BY <1>1, SoundNew, NewParts DEF Kind
<1>3. Alive(m1, o)
  BY <1>2 DEF Alive
<1> HIDE DEF m1, X
<1>4. Sound(u, X) /\ Keeps(u, m1) /\ u.prot = m1.prot
  BY <1>1, <1>2, <1>3, SoundSetLast DEF Ptr
<1>5. KeepsBut(u, store, o)
  BY <1>2, <1>4 DEF KeepsBut, Keeps, SameBut, Alive
<1> QED
  BY <1>1, <1>2, <1>4, <1>5, StoreStep DEF X

\* maybe_stack_var with a name.
LEMMA StepEstimateNamedVAR ==
  ASSUME IInv, NEW n \in Name, NEW o \in Obj, EstimateNamedVAR(n, o) PROVE IInv'
<1> DEFINE X == Outside(frames, anon)
           m1 == New(store, o, "var")
           m2 == SetLast(m1, o)
           u == StackAs(m2, o, n)
<1>1. /\ X \in Counts /\ Sound(store, X) /\ store \in Stores
      /\ ~Alive(store, o) /\ Top.sys = Null /\ store' = u /\ UNCHANGED <<anon, frames>>
  BY StateFacts DEF IInv, Inv, EstimateNamedVAR, Ready, Unused, Alive
<1>2. /\ Sound(m1, X) /\ SameBut(m1, store, o)
      /\ m1.kind[o] = "var" /\ m1.prot = store.prot
  BY <1>1, SoundNew, NewParts DEF Kind
<1>3. Alive(m1, o) /\ o \notin store.prot
  BY <1>1, <1>2, UnusedFacts DEF Alive
<1> HIDE DEF m1, X
<1>4. Sound(m2, X) /\ Keeps(m2, m1) /\ m2.prot = m1.prot /\ Alive(m2, o)
  BY <1>1, <1>2, <1>3, SoundSetLast DEF Ptr
<1>5. m2.kind[o] = "var"
  BY <1>2, <1>4 DEF Keeps
<1> HIDE DEF m2
<1>6. Sound(u, X) /\ Keeps(u, m2) /\ u.prot = m2.prot
  BY <1>1, <1>2, <1>3, <1>4, <1>5, SoundStackAs
<1>7. KeepsBut(u, store, o)
  BY <1>2, <1>4, <1>6 DEF KeepsBut, Keeps, SameBut, Alive
<1> QED
  BY <1>1, <1>2, <1>4, <1>6, <1>7, StoreStep DEF X

----------------------------------------------------------------------------
\* One place less.
LEMMA CountsMinus ==
  ASSUME NEW X \in Counts, NEW o, o \in Obj => X[o] > 0
  PROVE  LET Y == [p \in Obj |-> IF p = o THEN X[p] - 1 ELSE X[p]]
         IN  Y \in Counts /\ OneLess(Y, X, o)
<1> DEFINE Y == [p \in Obj |-> IF p = o THEN X[p] - 1 ELSE X[p]]
<1>1. \A p \in Obj : X[p] \in Nat
  BY DEF Counts
<1>2. \A p \in Obj : Y[p] \in Nat /\ X[p] = Y[p] + IF p = o THEN 1 ELSE 0
  <2> SUFFICES ASSUME NEW p \in Obj
               PROVE  Y[p] \in Nat /\ X[p] = Y[p] + IF p = o THEN 1 ELSE 0
    OBVIOUS
  <2>1. X[p] \in Nat
    BY <1>1
  <2>2. CASE p = o
    <3>1. Y[p] = X[p] - 1 /\ X[p] > 0
      BY <2>2
    <3> QED
      BY <2>1, <2>2, <3>1
  <2>3. CASE p # o
    <3>1. Y[p] = X[p]
      BY <2>3
    <3> QED
      BY <2>1, <2>3, <3>1
  <2> QED
    BY <2>2, <2>3
<1>3. Y = [p \in Obj |-> Y[p]]
  OBVIOUS
<1> HIDE DEF Y
<1>4. OneLess(Y, X, o)
  BY <1>2 DEF OneLess
<1>5. Y \in Counts
  BY <1>2, <1>3 DEF Counts
<1> QED
  BY <1>4, <1>5 DEF Y

\* None is counted.
LEMMA OneLessNull ==
  ASSUME NEW X \in Counts, NEW Y \in Counts, OneLess(Y, X, Null)
  PROVE  X = Y
<1>1. ASSUME NEW p \in Obj PROVE X[p] = Y[p]
  <2>1. p # Null
    BY NullAssumption
  <2>2. Y[p] \in Nat
    BY DEF Counts
  <2>3. X[p] = Y[p] + 0
    BY <2>1 DEF OneLess
  <2> QED
    BY <2>2, <2>3
<1> QED
  BY <1>1 DEF Counts

\* Letting go of an address that may be none.
LEMMA SoundUnrefPtr ==
  ASSUME NEW m, NEW X \in Counts, NEW Y \in Counts, Sound(m, X),
         NEW o \in Ptr, OneLess(Y, X, o)
  PROVE  LET u == Unref(m, o)
         IN  /\ Sound(u, Y) /\ Keeps(u, m)
             /\ u.prot = m.prot /\ u.last = m.last /\ u.stack = m.stack
             /\ \A p \in Obj : p # o => /\ u.kind[p] = m.kind[p]
                                       /\ u.refs[p] = m.refs[p]
                                       /\ u.eqns[p] = m.eqns[p]
<1>1. CASE o \in Obj
  BY <1>1, SoundUnref DEF SameBut
<1>2. CASE o = Null
  <2>1. Unref(m, o) = m
    BY <1>2 DEF Unref, UnrefFor
  <2>2. X = Y
    BY <1>2, OneLessNull
  <2> QED
    BY <2>1, <2>2 DEF Keeps
<1> QED
  BY <1>1, <1>2 DEF Ptr

\* A step after which the innermost frame is defining another system, or none.
LEMMA SysStep ==
  ASSUME IInv, NEW s \in Ptr, SetTop([Top EXCEPT !.sys = s]),
         anon' \in [1 .. MaxDepth -> Ptr],
         Sound(store', Outside(frames, anon')), store'.prot = store.prot,
         AnonSystems(store', anon'),
         NEW o, o \in Obj => ~Alive(store, o), KeepsBut(store', store, o),
         s # Null => /\ store'.kind[s] = "sys" /\ store'.last # s /\ s \notin Stacked(store')
                     /\ Outside(frames, anon')[s] = IF anon'[Depth] = s THEN 1 ELSE 0
  PROVE  IInv'
<1>1. Framed(frames) /\ store.prot = AllOwn(frames)
  BY DEF IInv, Inv
<1>2. frames' = [frames EXCEPT ![Len(frames)] = [frames[Len(frames)] EXCEPT !.sys = s]]
  BY DEF SetTop, Top, Depth
<1>3. /\ Framed(frames') /\ Len(frames') = Len(frames) /\ frames'[Len(frames)].sys = s
      /\ AllOwn(frames') = AllOwn(frames)
      /\ Outside(frames', anon') = Outside(frames, anon')
  BY <1>1, <1>2, FramedSys
<1>4. Defined(store', frames', anon')
  BY <1>3 DEF Defined, Depth
<1>5. PrevsComplete(store', frames)
  BY PrevsKept
<1>6. frames' \in Seq(Frames) /\ DOMAIN frames' = DOMAIN frames
      /\ \A i \in DOMAIN frames : frames'[i].prev = frames[i].prev
  BY <1>1, <1>2, <1>3, StateFacts DEF Framed, Depth, Frames
<1>7. PrevsComplete(store', frames')
  BY <1>5, <1>6 DEF PrevsComplete
<1>8. Inv(store', frames', anon')
  BY <1>1, <1>3, <1>4, <1>7 DEF Inv
<1> QED
  BY <1>8 DEF IInv

\* equation_system_start with a name.
LEMMA StepStartSystem ==
  ASSUME IInv, NEW o \in Obj, StartSystem(o) PROVE IInv'
<1> DEFINE X == Outside(frames, anon)
<1>1. /\ X \in Counts /\ Sound(store, X) /\ store \in Stores /\ ~Alive(store, o)
      /\ store' = New(store, o, "sys") /\ anon' = anon
      /\ SetTop([Top EXCEPT !.sys = o]) /\ anon \in [1 .. MaxDepth -> Ptr]
      /\ frames \in Seq(Frames) /\ Depth \in DOMAIN anon
  BY StateFacts DEF IInv, Inv, StartSystem, Unused, Alive
<1>2. /\ Sound(store', X) /\ SameBut(store', store, o)
      /\ store'.kind[o] = "sys" /\ store'.prot = store.prot
      /\ store'.last = store.last /\ store'.stack = store.stack
  BY <1>1, SoundNew, NewParts DEF Kind
<1>3. store.last # o /\ o \notin Stacked(store) /\ X[o] = 0
  BY <1>1, UnusedFacts
<1>4. KeepsBut(store', store, o) /\ AnonSystems(store', anon)
  <2>1. KeepsBut(store', store, o)
    BY <1>2 DEF KeepsBut, SameBut
  <2> QED
    BY <1>1, <1>2, <2>1, AnonKept
<1>5. anon[Depth] # o
  <2>1. anon[Depth] = o => X[o] > 0
    BY <1>1, OutsideAlive, NullAssumption
  <2> QED
    BY <1>3, <2>1
<1>6. o \notin Stacked(store')
  BY <1>2, <1>3 DEF Stacked
<1> QED
  BY <1>1, <1>2, <1>3, <1>4, <1>5, <1>6, SysStep DEF Ptr

\* push_anon_system: the new system is counted by the place it takes from the
\* old one.
LEMMA StepStartUnnamedSystem ==
  ASSUME IInv, NEW o \in Obj, StartUnnamedSystem(o) PROVE IInv'
<1> DEFINE X == Outside(frames, anon)
           old == anon[Depth]
           Y == [p \in Obj |-> IF p = old THEN X[p] - 1 ELSE X[p]]
           Z == Outside(frames, anon')
           m1 == New(store, o, "sys")
           m2 == Unref(m1, old)
           u == Ref(m2, o)
<1>1. /\ X \in Counts /\ Sound(store, X) /\ store \in Stores /\ ~Alive(store, o)
      /\ anon \in [1 .. MaxDepth -> Ptr] /\ frames \in Seq(Frames)
      /\ Depth \in 1 .. MaxDepth /\ DOMAIN anon = 1 .. MaxDepth /\ old \in Ptr
  BY StateFacts DEF IInv, Inv, StartUnnamedSystem, Unused, Alive
<1>2. /\ store' = u /\ anon' = [anon EXCEPT ![Depth] = o]
      /\ SetTop([Top EXCEPT !.sys = o])
  BY DEF StartUnnamedSystem
<1>3. anon' \in [1 .. MaxDepth -> Ptr] /\ DOMAIN anon' = 1 .. MaxDepth /\ anon'[Depth] = o
      /\ \A d \in 1 .. MaxDepth : d # Depth => anon'[d] = anon[d]
  BY <1>1, <1>2 DEF Ptr
<1>4. X[o] = 0 /\ store.last # o /\ o \notin Stacked(store)
  BY <1>1, UnusedFacts
<1>5. /\ old # Null => X[old] > 0 /\ Alive(store, old)
      /\ old \in Obj => X[old] > 0
  BY <1>1, OutsideAlive, NullAssumption
<1>6. old # o
  BY <1>1, <1>5, NullAssumption
<1>7. Z \in Counts
  BY <1>1, <1>3, OutsideType
<1>8. Y \in Counts
  BY <1>1, <1>5, CountsMinus
<1>9. OneLess(Y, X, old)
  BY <1>1, <1>5, CountsMinus
<1>10. \A p \in Obj : Z[p] = Y[p] + IF p = o THEN 1 ELSE 0
  <2> SUFFICES ASSUME NEW p \in Obj PROVE Z[p] = Y[p] + IF p = o THEN 1 ELSE 0
    OBVIOUS
  <2>1. /\ X[p] = Prevs(frames, p) + Anons(anon, p) /\ Z[p] = Prevs(frames, p) + Anons(anon', p)
        /\ Prevs(frames, p) \in Nat /\ Anons(anon, p) \in Nat /\ Anons(anon', p) \in Nat
    BY <1>1, <1>3, OutsideType
  <2>2. /\ old # p /\ o # p => Anons(anon', p) = Anons(anon, p)
        /\ old = p /\ o # p => Anons(anon, p) = Anons(anon', p) + 1
        /\ old # p /\ o = p => Anons(anon', p) = Anons(anon, p) + 1
    <3>1. /\ anon \in [1 .. MaxDepth -> Ptr] /\ anon' \in [1 .. MaxDepth -> Ptr]
          /\ Depth \in 1 .. MaxDepth /\ anon'[Depth] = o /\ anon[Depth] = old
          /\ \A d \in 1 .. MaxDepth : d # Depth => anon'[d] = anon[d]
      BY <1>1, <1>3
    <3>2. /\ anon[Depth] # p /\ anon'[Depth] # p => Anons(anon', p) = Anons(anon, p)
          /\ anon[Depth] = p /\ anon'[Depth] # p => Anons(anon, p) = Anons(anon', p) + 1
          /\ anon[Depth] # p /\ anon'[Depth] = p => Anons(anon', p) = Anons(anon, p) + 1
      BY <3>1, AnonsExcept, ZenonT(60)
    <3> QED
      BY <3>1, <3>2
  <2>3. X[p] = Y[p] + IF p = old THEN 1 ELSE 0
    BY <1>9 DEF OneLess
  <2>4. Y[p] \in Nat
    BY <1>8 DEF Counts
  <2> HIDE DEF X, Y, Z, old
  <2> QED
    BY <1>6, <2>1, <2>2, <2>3, <2>4
<1>11. OneLess(Y, Z, o)
  BY <1>10 DEF OneLess
<1>12. Z[o] = 1
  BY <1>4, <1>6, <1>10
<1> HIDE DEF X, Y, Z, old
<1>13. /\ Sound(m1, X) /\ SameBut(m1, store, o) /\ m1.kind[o] = "sys" /\ m1.prot = store.prot
       /\ m1.last = store.last /\ m1.stack = store.stack
  BY <1>1, SoundNew, NewParts DEF Kind
<1> HIDE DEF m1
<1>14. /\ Sound(m2, Y) /\ Keeps(m2, m1) /\ m2.prot = store.prot
       /\ m2.last = store.last /\ m2.stack = store.stack /\ m2.kind[o] = "sys"
  BY <1>1, <1>6, <1>8, <1>9, <1>13, SoundUnrefPtr
<1> HIDE DEF m2
<1>15. /\ Sound(u, Z) /\ u.kind = m2.kind /\ u.eqns = m2.eqns /\ u.prot = store.prot
       /\ u.last = store.last /\ u.stack = store.stack
  <2>1. m2 \in Stores /\ Alive(m2, o)
    BY <1>14 DEF Sound, Alive
  <2> QED
    BY <1>7, <1>8, <1>11, <1>14, <2>1, SoundRef, RefParts
<1>16. AnonSystems(u, anon')
  <2> SUFFICES ASSUME NEW d \in DOMAIN anon', anon'[d] # Null PROVE u.kind[anon'[d]] = "sys"
    BY DEF AnonSystems
  <2>1. CASE d = Depth
    BY <1>3, <1>14, <1>15, <2>1
  <2>2. CASE d # Depth
    <3>1. anon'[d] = anon[d] /\ anon[d] \in Obj /\ d \in DOMAIN anon
      BY <1>1, <1>3, <2>2 DEF Ptr
    <3>2. Alive(u, anon[d])
      BY <1>1, <1>3, <1>15, <3>1, OutsideAlive DEF Z
    <3>3. Alive(store, anon[d]) /\ store.kind[anon[d]] = "sys"
      BY <1>1, <3>1, OutsideAlive, NullAssumption DEF X, IInv, Inv, AnonSystems
    <3> QED
      BY <1>1, <1>13, <1>14, <1>15, <3>1, <3>2, <3>3 DEF Keeps, SameBut, Alive
  <2> QED
    BY <2>1, <2>2
<1>17. o \notin Stacked(u)
  BY <1>4, <1>15 DEF Stacked
<1>18. KeepsBut(u, store, o)
  BY <1>13, <1>14, <1>15 DEF KeepsBut, Keeps, SameBut, Alive
<1> QED
  BY <1>1, <1>2, <1>3, <1>4, <1>12, <1>14, <1>15, <1>16, <1>17, <1>18, SysStep DEF Z, Ptr

\* What is known of the system being defined.
LEMMA DefiningFacts ==
  ASSUME IInv, Top.sys # Null
  PROVE  LET s == Top.sys
             X == Outside(frames, anon)
         IN  /\ s \in Obj /\ store.kind[s] = "sys" /\ store.last # s
             /\ s \notin Stacked(store) /\ s \notin store.prot
             /\ X[s] = (IF Unnamed THEN 1 ELSE 0) /\ store.refs[s] = X[s]
<1> DEFINE s == Top.sys
           X == Outside(frames, anon)
<1>1. /\ store \in Stores /\ s \in Ptr /\ X \in Counts /\ Sound(store, X)
      /\ Defined(store, frames, anon)
  BY StateFacts DEF IInv, Inv, Frames
<1>2. s \in Obj
  BY <1>1 DEF Ptr
<1>3. /\ store.kind[s] = "sys" /\ store.last # s /\ s \notin Stacked(store)
      /\ X[s] = IF Unnamed THEN 1 ELSE 0
  BY <1>1 DEF Defined, Top, Depth, Unnamed
<1>4. s \notin store.prot
  BY <1>1, <1>3 DEF Sound, ProtectedOnes
<1>5. store.refs[s] = Inside(store, s) + X[s]
  BY <1>1, <1>2, <1>3, <1>4 DEF Sound, Exact, Alive
<1>6. Inside(store, s) = 0
  BY <1>3 DEF Inside
<1>7. X[s] \in Nat
  BY <1>1, <1>2 DEF Counts
<1> HIDE DEF X, s
<1>8. store.refs[s] = X[s]
  BY <1>5, <1>6, <1>7
<1> QED
  BY <1>2, <1>3, <1>4, <1>8 DEF s, X

\* Another equation.
LEMMA StepEquation ==
  ASSUME IInv, Equation PROVE IInv'
<1> DEFINE s == Top.sys
           X == Outside(frames, anon)
<1>1. /\ s # Null /\ store.eqns[s] < 2 /\ anon' = anon /\ frames' = frames
      /\ store' = [store EXCEPT !.eqns[s] = @ + 1]
  BY DEF Equation
<1>2. /\ s \in Obj /\ store.kind[s] = "sys" /\ store.last # s /\ s \notin Stacked(store)
  BY <1>1, DefiningFacts
<1>3. /\ store \in Stores /\ Sound(store, X)
  BY StateFacts DEF IInv, Inv
<1> HIDE DEF s, X
<1>4. /\ store' \in Stores
      /\ store'.kind = store.kind /\ store'.refs = store.refs /\ store'.prot = store.prot
      /\ store'.listed = store.listed
      /\ store'.last = store.last /\ store'.stack = store.stack
      /\ \A p \in Obj : p # s => store'.eqns[p] = store.eqns[p]
  <2>1. store.eqns \in [Obj -> 0 .. 2]
    BY <1>3 DEF Stores
  <2>2. store.eqns[s] + 1 \in 0 .. 2
    BY <1>1, <1>2, <2>1
  <2>3. [store.eqns EXCEPT ![s] = @ + 1] \in [Obj -> 0 .. 2]
    BY <1>2, <2>1, <2>2
  <2>4. store' = [store EXCEPT !.eqns = [store.eqns EXCEPT ![s] = @ + 1]]
    BY <1>1
  <2> QED
    BY <1>1, <1>2, <1>3, <2>1, <2>3, <2>4 DEF Stores
<1>5. Stacked(store') = Stacked(store)
  BY <1>4 DEF Stacked
<1>6. Exact(store', X) /\ HeldAlive(store', X) /\ ProtectedOnes(store')
  BY <1>3, <1>4, <1>5
     DEF Sound, Exact, HeldAlive, ProtectedOnes, Held, Alive, Inside
<1>7. Once(store') /\ Names(store')
  BY <1>3, <1>4 DEF Sound, Once, Names
<1>8. Complete(store')
  BY <1>2, <1>3, <1>4, <1>5 DEF Sound, Complete
<1>9. Sound(store', X)
  BY <1>4, <1>6, <1>7, <1>8 DEF Sound
<1>10. Defined(store', frames, anon) /\ AnonSystems(store', anon)
  BY <1>4, <1>5 DEF IInv, Inv, Defined, AnonSystems
<1>11. PrevsComplete(store', frames)
  <2>1. store.eqns \in [Obj -> 0 .. 2] /\ store.eqns[s] + 1 > 0
        /\ \A p \in Obj : store'.eqns[p] = IF p = s THEN store.eqns[s] + 1 ELSE store.eqns[p]
    BY <1>1, <1>2, <1>3 DEF Stores
  <2>2. PrevsComplete(store, frames) /\ frames \in Seq(Frames)
    BY StateFacts DEF IInv, Inv
  <2>3. \A i \in DOMAIN frames : frames[i].prev \in Ptr
    BY <2>2, FramesFacts DEF Frames
  <2> QED
    BY <1>4, <2>1, <2>2, <2>3 DEF PrevsComplete, Ptr
<1>12. Inv(store', frames, anon)
  BY <1>4, <1>9, <1>10, <1>11 DEF IInv, Inv, X
<1> QED
  BY <1>1, <1>12 DEF IInv

\* A step that ends the block of a system.
LEMMA SysEnds ==
  ASSUME IInv, SetTop([Top EXCEPT !.sys = Null]), UNCHANGED anon,
         Sound(store', Outside(frames, anon)), store'.prot = store.prot,
         Keeps(store', store)
  PROVE  IInv'
<1>1. KeepsBut(store', store, Null) /\ AnonSystems(store', anon)
  BY KeepsIsKeepsBut, AnonKept, NullAssumption
<1>2. anon' \in [1 .. MaxDepth -> Ptr]
  BY StateFacts
<1> QED
  BY <1>1, <1>2, SysStep, NullAssumption DEF Ptr

\* equation_system_destroy does nothing to a system without equations, and frees
\* any other, which nothing holds as long as it has a name.
LEMMA StepDropSystem ==
  ASSUME IInv, Kept, DropSystem PROVE IInv'
<1> DEFINE s == Top.sys
           X == Outside(frames, anon)
<1>1. /\ s # Null /\ store' = Free(store, {s}) /\ UNCHANGED anon
      /\ SetTop([Top EXCEPT !.sys = Null])
      /\ Unnamed => ~(store.eqns[s] > 0)
  BY DEF DropSystem, Kept
<1>2. /\ s \in Obj /\ store.kind[s] = "sys" /\ store.last # s /\ s \notin Stacked(store)
      /\ s \notin store.prot
      /\ X[s] = (IF Unnamed THEN 1 ELSE 0) /\ store.refs[s] = X[s]
  BY <1>1, DefiningFacts
<1>3. X \in Counts /\ Sound(store, X)
  BY StateFacts DEF IInv, Inv
<1> HIDE DEF s, X
<1>4. Gone(store, s) => ~Held(store, X, s)
  BY <1>1, <1>2 DEF Gone, Held
<1>5. ~Gone(store, s) => ~Counted(store, s)
  BY <1>1, <1>2 DEF Gone, Counted
<1>6. /\ Sound(store', X) /\ Keeps(store', store) /\ store'.prot = store.prot
  BY <1>1, <1>2, <1>3, <1>4, <1>5, SoundFree
<1> QED
  BY <1>1, <1>6, SysEnds DEF X

\* A system found inconsistent stays where it was.
LEMMA StepEndInconsistentSystem ==
  ASSUME IInv, EndInconsistentSystem PROVE IInv'
<1>1. /\ Sound(store, Outside(frames, anon)) /\ store' = store /\ UNCHANGED anon
      /\ SetTop([Top EXCEPT !.sys = Null])
  BY DEF EndInconsistentSystem, IInv, Inv
<1> QED
  BY <1>1, SysEnds DEF Keeps

\* equation_system_finalize saves a system that has a name.
LEMMA SavedSound ==
  ASSUME IInv, NEW n \in Name, Top.sys # Null, store.eqns[Top.sys] = 2
  PROVE  LET u == Saved(n)
         IN  /\ Sound(u, Outside(frames, anon)) /\ u.prot = store.prot
             /\ Keeps(u, store) /\ Alive(u, Top.sys) /\ u.eqns[Top.sys] = 2
<1> DEFINE s == Top.sys
           X == Outside(frames, anon)
<1>1. s \in Obj /\ store.kind[s] = "sys" /\ s \notin store.prot /\ Alive(store, s)
  BY DefiningFacts DEF Alive
<1>2. X \in Counts /\ Sound(store, X)
  BY StateFacts DEF IInv, Inv
<1>3. CASE Unnamed
  BY <1>1, <1>2, <1>3 DEF Saved, Keeps
<1>4. CASE ~Unnamed
  <2>1. Saved(n) = StackAs(store, s, n)
    BY <1>4 DEF Saved
  <2>2. store.eqns[s] > 0
    OBVIOUS
  <2> HIDE DEF s, X
  <2>3. LET u == StackAs(store, s, n)
        IN  Sound(u, X) /\ Keeps(u, store) /\ u.prot = store.prot /\ Alive(u, s)
    BY <1>1, <1>2, <2>2, SoundStackAs
  <2>4. StackAs(store, s, n).eqns[s] = store.eqns[s]
    BY <1>1, <2>3 DEF Keeps
  <2> QED
    BY <2>1, <2>3, <2>4 DEF s, X
<1> QED
  BY <1>3, <1>4

\* equation_system_finalize saves what has a name.
LEMMA StepEndSystem ==
  ASSUME IInv, NEW n \in Name, EndSystem(n) PROVE IInv'
<1>1. /\ Top.sys # Null /\ store.eqns[Top.sys] = 2 /\ store' = Saved(n)
      /\ SetTop([Top EXCEPT !.sys = Null]) /\ UNCHANGED anon
  BY DEF EndSystem
<1> QED
  BY <1>1, SavedSound, SysEnds

\* equation_system_finalize saves it and estimates it.
LEMMA StepEndAndEstimateSystem ==
  ASSUME IInv, NEW n \in Name, EndAndEstimateSystem(n) PROVE IInv'
<1> DEFINE s == Top.sys
           X == Outside(frames, anon)
           m1 == Saved(n)
<1>1. /\ s # Null /\ store.eqns[s] = 2 /\ store' = SetLast(m1, s)
      /\ SetTop([Top EXCEPT !.sys = Null]) /\ UNCHANGED anon
  BY DEF EndAndEstimateSystem
<1>2. /\ Sound(m1, X) /\ m1.prot = store.prot /\ Keeps(m1, store)
      /\ Alive(m1, s) /\ m1.eqns[s] = 2
  BY <1>1, SavedSound
<1>3. s \in Ptr /\ X \in Counts
  BY StateFacts DEF Frames
<1>4. m1.eqns[s] > 0
  BY <1>2
<1> HIDE DEF s, X, m1
<1>5. LET u == SetLast(m1, s) IN Sound(u, X) /\ Keeps(u, m1) /\ u.prot = m1.prot
  BY <1>2, <1>3, <1>4, SoundSetLast
<1>6. Keeps(store', store)
  BY <1>1, <1>2, <1>5 DEF Keeps, Alive
<1> QED
  BY <1>1, <1>2, <1>5, <1>6, SysEnds DEF X

\* estimate_named_system.
LEMMA StepEstimateSystem ==
  ASSUME IInv, NEW o \in Obj, EstimateSystem(o) PROVE IInv'
<1> DEFINE X == Outside(frames, anon)
<1>1. /\ X \in Counts /\ Sound(store, X) /\ Top.sys = Null /\ store' = SetLast(store, o)
      /\ UNCHANGED <<anon, frames>> /\ Alive(store, o) /\ store.eqns[o] > 0
  BY StateFacts DEF IInv, Inv, EstimateSystem, Ready, Alive
<1>2. LET u == SetLast(store, o) IN Sound(u, X) /\ Keeps(u, store) /\ u.prot = store.prot
  BY <1>1, SoundSetLast DEF Ptr
<1>3. KeepsBut(store', store, Null)
  BY <1>1, <1>2, KeepsIsKeepsBut
<1> QED
  BY <1>1, <1>2, <1>3, StoreStep, NullAssumption

----------------------------------------------------------------------------
\* A call counts the last model of the caller once more.
LEMMA OutsideCall ==
  ASSUME NEW f \in Seq(Frames), NEW a \in [1 .. MaxDepth -> Ptr], NEW g \in Frames
  PROVE  LET h == Append(f, g)
         IN  /\ h \in Seq(Frames)
             /\ OneLess(Outside(f, a), Outside(h, a), g.prev)
<1> DEFINE h == Append(f, g)
<1>1. h \in Seq(Frames)
  BY AppendProperties
<1> HIDE DEF h
<1>2. ASSUME NEW p \in Obj
      PROVE  Outside(h, a)[p] = Outside(f, a)[p] + IF p = g.prev THEN 1 ELSE 0
  <2>1. /\ Outside(f, a)[p] = Prevs(f, p) + Anons(a, p)
        /\ Outside(h, a)[p] = Prevs(h, p) + Anons(a, p)
        /\ Prevs(f, p) \in Nat /\ Anons(a, p) \in Nat
    BY <1>1, OutsideType
  <2>2. /\ g.prev = p => Prevs(h, p) = Prevs(f, p) + 1
        /\ g.prev # p => Prevs(h, p) = Prevs(f, p)
    BY PrevsAppend DEF h
  <2> QED
    BY <2>1, <2>2
<1> QED
  BY <1>1, <1>2 DEF OneLess, h

\* gretl_exec_state_init hides the last model of the caller and counts it.
LEMMA StepCallFunction ==
  ASSUME IInv, NEW o \in Obj, CallFunction(o)
  PROVE  IInv' /\ (Tidy(store, Null) => Tidy(store', Null))
<1> DEFINE X == Outside(frames, anon)
           last == store.last
           Y == Outside(frames', anon)
           m1 == NewProtected(store, o)
           m2 == Ref(m1, last)
<1>1. /\ X \in Counts /\ Sound(store, X) /\ store \in Stores /\ ~Alive(store, o)
      /\ last \in Ptr /\ frames \in Seq(Frames) /\ anon \in [1 .. MaxDepth -> Ptr]
      /\ Framed(frames) /\ store.prot = AllOwn(frames) /\ PrevsComplete(store, frames)
      /\ AnonSystems(store, anon)
  BY StateFacts, StoreParts DEF IInv, Inv, CallFunction, Unused, Alive
<1>2. /\ Len(frames) < MaxDepth /\ frames[Len(frames)].sys = Null
      /\ store' = (IF last = Null THEN m1 ELSE SetLast(m2, Null))
      /\ frames' = Append(frames, Frame(o, last)) /\ anon' = anon
  BY DEF CallFunction, Ready, Depth, Top
<1>3. last # o /\ o \notin Stacked(store) /\ X[o] = 0 /\ o \notin store.prot
  BY <1>1, UnusedFacts
<1>4. \A i \in DOMAIN frames : o \notin Own(frames[i]) /\ frames[i].prev # o
  <2>1. \A i \in DOMAIN frames : frames[i].prev = o => X[o] > 0
    BY <1>1, OutsideAlive, NullAssumption
  <2> QED
    BY <1>1, <1>3, <2>1 DEF AllOwn
<1>5. /\ Framed(frames') /\ frames'[Len(frames')] = Frame(o, last)
      /\ AllOwn(frames') = AllOwn(frames) \cup {o}
  BY <1>1, <1>2, <1>3, <1>4, FramedCall
<1>6. frames'[Len(frames')].sys = Null /\ Frame(o, last).prev = last
  BY <1>5 DEF Frame
<1>7. Frame(o, last) \in Frames
  BY <1>1, EmptySeq DEF Frame, Frames, NoLoop, Loops, Ptr
<1>8. frames' \in Seq(Frames) /\ OneLess(X, Y, last)
  BY <1>1, <1>2, <1>6, <1>7, OutsideCall
<1>9. Y \in Counts
  BY <1>1, <1>8, OutsideType
<1>10. /\ Sound(m1, X) /\ SameBut(m1, store, o) /\ m1.kind[o] = "eqn" /\ m1 \in Stores
       /\ m1.prot = store.prot \cup {o} /\ m1.last = last
       /\ Tidy(store, Null) => Tidy(m1, Null)
  BY <1>1, SoundNewProtected, NewProtectedParts, TidyNewProtected
<1> HIDE DEF X, Y, m1, last
<1>11. /\ Sound(store', Y) /\ Keeps(store', m1) /\ store'.prot = m1.prot
       /\ Tidy(store, Null) => Tidy(store', Null)
  <2>1. CASE last = Null
    <3>1. Y = X
      BY <1>1, <1>8, <1>9, <2>1, OneLessNull
    <3> QED
      BY <1>2, <1>10, <2>1, <3>1 DEF Keeps
  <2>2. CASE last # Null
    <3>1. last \in Obj /\ Alive(store, last)
      BY <1>1, <2>2 DEF Ptr, Sound, HeldAlive, Held, last
    <3>2. Alive(m1, last)
      BY <1>3, <1>10, <3>1 DEF Alive, SameBut
    <3>3. Sound(m2, Y) /\ m2.prot = m1.prot /\ m2.kind = m1.kind /\ m2.eqns = m1.eqns
      BY <1>1, <1>8, <1>9, <1>10, <3>1, <3>2, SoundRef, RefParts
    <3>5. m1.kind[last] = "sys" => m1.eqns[last] > 0
      BY <1>1, <1>3, <1>10, <3>1 DEF Sound, Complete, SameBut, last
    <3>6. Tidy(store, Null) => Tidy(m2, Null)
      BY <1>10, <3>1, <3>5, TidyRef
    <3> HIDE DEF m2
    <3>4. LET u == SetLast(m2, Null) IN Sound(u, Y) /\ Keeps(u, m2) /\ u.prot = m2.prot
      BY <1>9, <3>3, SoundSetLast DEF Ptr
    <3>7. Tidy(store, Null) => Tidy(SetLast(m2, Null), Null)
      BY <1>9, <3>3, <3>6, TidySetLast DEF Ptr
    <3> QED
      BY <1>2, <2>2, <3>3, <3>4, <3>7 DEF Keeps
  <2> QED
    BY <2>1, <2>2
<1>12. KeepsBut(store', store, o)
  BY <1>10, <1>11 DEF KeepsBut, Keeps, SameBut, Alive
<1>13. AnonSystems(store', anon)
  <2>1. \A d \in DOMAIN anon : anon[d] # Null => Alive(store', anon[d])
    BY <1>1, <1>8, <1>11, OutsideAlive DEF Y
  <2>2. \A d \in DOMAIN anon : anon[d] # Null => Alive(store, anon[d])
    BY <1>1, OutsideAlive DEF X
  <2>3. \A d \in DOMAIN anon : anon[d] # Null => anon[d] \in Obj /\ anon[d] # o
    BY <1>1, <2>2 DEF Ptr
  <2> QED
    BY <1>1, <1>12, <2>1, <2>3 DEF AnonSystems, KeepsBut
<1>14. PrevsComplete(store', frames')
  <2>1. PrevsComplete(store, frames')
    <3> SUFFICES ASSUME NEW i \in DOMAIN frames', frames'[i].prev # Null,
                        store.kind[frames'[i].prev] = "sys"
                 PROVE  store.eqns[frames'[i].prev] > 0
      BY DEF PrevsComplete
    <3>1. /\ DOMAIN frames' = DOMAIN frames \cup {Len(frames')}
          /\ \A j \in DOMAIN frames : frames'[j] = frames[j]
      BY <1>1, <1>2, <1>7, AppendProperties, FramesFacts
    <3>2. CASE i \in DOMAIN frames
      BY <1>1, <3>1, <3>2 DEF PrevsComplete
    <3>3. CASE i = Len(frames')
      <4>1. frames'[i].prev = last
        BY <1>5, <1>6, <3>3
      <4> QED
        BY <1>1, <4>1 DEF Sound, Complete, last, Ptr
    <3> QED
      BY <3>1, <3>2, <3>3
  <2>2. \A i \in DOMAIN frames' : frames'[i].prev # o
    <3>1. /\ DOMAIN frames' = DOMAIN frames \cup {Len(frames')}
          /\ \A j \in DOMAIN frames : frames'[j] = frames[j]
      BY <1>1, <1>2, <1>7, AppendProperties, FramesFacts
    <3> QED
      BY <1>3, <1>4, <1>5, <1>6, <3>1
  <2> QED
    BY <1>1, <1>8, <1>11, <1>12, <2>1, <2>2, PrevsStay DEF Y
<1>15. Defined(store', frames', anon)
  BY <1>6 DEF Defined
<1>16. store'.prot = AllOwn(frames')
  BY <1>1, <1>5, <1>10, <1>11
<1>17. Inv(store', frames', anon)
  BY <1>1, <1>5, <1>11, <1>13, <1>14, <1>15, <1>16 DEF Inv, Y
<1> QED
  BY <1>2, <1>11, <1>17 DEF IInv

\* A return leaves the last model of the caller and the unnamed system of the
\* depth that ends counted once less.
LEMMA OutsideReturn ==
  ASSUME NEW f \in Seq(Frames), Len(f) > 1, Len(f) \in 1 .. MaxDepth,
         NEW a \in [1 .. MaxDepth -> Ptr], NEW Y \in Counts,
         OneLess(Y, Outside(f, a), f[Len(f)].prev)
  PROVE  LET h == SubSeq(f, 1, Len(f) - 1)
             b == [a EXCEPT ![Len(f)] = Null]
         IN  /\ h \in Seq(Frames) /\ b \in [1 .. MaxDepth -> Ptr]
             /\ OneLess(Outside(h, b), Y, a[Len(f)])
<1> DEFINE h == SubSeq(f, 1, Len(f) - 1)
           n == Len(f)
           b == [a EXCEPT ![n] = Null]
<1>1. h \in Seq(Frames)
  BY OuterFrames
<1>2. /\ b \in [1 .. MaxDepth -> Ptr] /\ b[n] = Null
      /\ \A e \in 1 .. MaxDepth : e # n => b[e] = a[e]
  BY DEF Ptr
<1>3. \A p \in Obj : /\ f[n].prev = p => Prevs(f, p) = Prevs(h, p) + 1
                     /\ f[n].prev # p => Prevs(f, p) = Prevs(h, p)
  BY PrevsOuter
<1>4. n \in 1 .. MaxDepth
  OBVIOUS
<1> HIDE DEF h, b, n
<1>5. ASSUME NEW p \in Obj
      PROVE  Y[p] = Outside(h, b)[p] + IF p = a[n] THEN 1 ELSE 0
  <2>1. /\ Outside(f, a)[p] = Prevs(f, p) + Anons(a, p)
        /\ Outside(h, b)[p] = Prevs(h, p) + Anons(b, p)
        /\ Prevs(f, p) \in Nat /\ Anons(a, p) \in Nat
        /\ Prevs(h, p) \in Nat /\ Anons(b, p) \in Nat
    BY <1>1, <1>2, OutsideType
  <2>2. /\ f[n].prev = p => Prevs(f, p) = Prevs(h, p) + 1
        /\ f[n].prev # p => Prevs(f, p) = Prevs(h, p)
    BY <1>3
  <2>3. b[n] # p
    BY <1>2, NullAssumption
  <2>4. /\ a[n] # p => Anons(b, p) = Anons(a, p)
        /\ a[n] = p => Anons(a, p) = Anons(b, p) + 1
    <3>1. /\ a[n] # p /\ b[n] # p => Anons(b, p) = Anons(a, p)
          /\ a[n] = p /\ b[n] # p => Anons(a, p) = Anons(b, p) + 1
          /\ a[n] # p /\ b[n] = p => Anons(b, p) = Anons(a, p) + 1
      BY <1>2, <1>4, AnonsExcept, ZenonT(60)
    <3> QED
      BY <2>3, <3>1
  <2>5. /\ f[n].prev = p => Outside(f, a)[p] = Y[p] + 1
        /\ f[n].prev # p => Outside(f, a)[p] = Y[p] + 0
    <3>1. Outside(f, a)[p] = Y[p] + IF p = f[n].prev THEN 1 ELSE 0
      BY DEF OneLess, n
    <3>2. p = f[n].prev => Outside(f, a)[p] = Y[p] + 1
      BY <3>1
    <3>3. p # f[n].prev => Outside(f, a)[p] = Y[p] + 0
      BY <3>1
    <3> QED
      BY <3>2, <3>3
  <2>6. Y[p] \in Nat
    BY DEF Counts
  <2>7. CASE f[n].prev = p
    <3>1. Outside(f, a)[p] = Y[p] + 1 /\ Prevs(f, p) = Prevs(h, p) + 1
      BY <2>2, <2>5, <2>7
    <3>2. /\ Outside(f, a)[p] = Prevs(f, p) + Anons(a, p)
          /\ Prevs(h, p) \in Nat /\ Anons(a, p) \in Nat /\ Y[p] \in Nat
      BY <2>1, <2>6
    <3>3. Y[p] = Prevs(h, p) + Anons(a, p)
      BY <3>1, <3>2, SMTT(30)
    <3> QED
      BY <2>1, <2>4, <3>3
  <2>8. CASE f[n].prev # p
    <3>1. Outside(f, a)[p] = Y[p] + 0 /\ Prevs(f, p) = Prevs(h, p)
      BY <2>2, <2>5, <2>8
    <3>2. /\ Outside(f, a)[p] = Prevs(f, p) + Anons(a, p)
          /\ Prevs(h, p) \in Nat /\ Anons(a, p) \in Nat /\ Y[p] \in Nat
      BY <2>1, <2>6
    <3>3. Y[p] = Prevs(h, p) + Anons(a, p)
      BY <3>1, <3>2, SMTT(30)
    <3> QED
      BY <2>1, <2>4, <3>3
  <2> QED
    BY <2>7, <2>8
<1> QED
  BY <1>1, <1>2, <1>5 DEF OneLess, h, b, n

\* What a frame owns is given back by no frame around it, and is no system.
LEMMA OwnApart ==
  ASSUME IInv, NEW o \in Own(Top)
  PROVE  o \in Obj /\ o \in store.prot /\ Outside(frames, anon)[o] = 0
<1>1. /\ frames \in Seq(Frames) /\ anon \in [1 .. MaxDepth -> Ptr]
      /\ Sound(store, Outside(frames, anon)) /\ DOMAIN frames = 1 .. Depth
      /\ Depth \in DOMAIN frames /\ Top = frames[Depth]
      /\ Outside(frames, anon) \in Counts
  BY StateFacts DEF IInv, Inv
<1>2. o \in Obj /\ o \in store.prot /\ store.kind[o] = "eqn"
  BY <1>1, TopOwn DEF Sound, ProtectedOnes
<1>3. \A i \in DOMAIN frames : frames[i].prev # o
  BY <1>1 DEF IInv, Inv, Framed, Older
<1>4. \A d \in DOMAIN anon : anon[d] # o
  <2>1. \A d \in DOMAIN anon : anon[d] # Null => store.kind[anon[d]] = "sys"
    BY DEF IInv, Inv, AnonSystems
  <2> QED
    BY <1>2, <2>1, NullAssumption
<1>5. ~(Outside(frames, anon)[o] > 0)
  BY <1>1, <1>2, <1>3, <1>4, OutsideType
<1>6. Outside(frames, anon)[o] \in Nat
  BY <1>1, <1>2 DEF Counts
<1> QED
  BY <1>2, <1>5, <1>6

\* A frame that runs no loop owns its working model alone.
LEMMA OwnAtReturn ==
  ASSUME IInv, ~Looping PROVE Own(Top) = {Top.model}
<1>1. NestedLoops(Top)
  BY StateFacts DEF IInv, Inv, Framed
<1>2. \A k \in 1 .. 2 : ~Top.loops[k].on
  BY <1>1 DEF NestedLoops, Looping
<1>3. Running(Top) = {}
  BY <1>2 DEF Running
<1> QED
  BY <1>3 DEF Own

\* gretl_exec_state_clear puts the last model of the caller back.
LEMMA StepReturn ==
  ASSUME IInv, Return
  PROVE  /\ IInv' /\ store'.last = Top.prev
         /\ Tidy(store, Null) => Tidy(store', Null)
<1> DEFINE X == Outside(frames, anon)
           P == Top.prev
           M == Top.model
           A == anon[Depth]
           Y == [p \in Obj |-> IF p = P THEN X[p] - 1 ELSE X[p]]
           Z == Outside(frames', anon')
           m1 == SetLast(store, P)
           m2 == Unref(m1, P)
           m3 == DestroyWorkingModel(m2, M)
           u == Unref(m3, A)
<1>1. /\ X \in Counts /\ Sound(store, X) /\ P \in Ptr /\ A \in Ptr /\ M \in Obj
      /\ frames \in Seq(Frames) /\ anon \in [1 .. MaxDepth -> Ptr]
      /\ Framed(frames) /\ store.prot = AllOwn(frames) /\ PrevsComplete(store, frames)
      /\ AnonSystems(store, anon) /\ Depth \in DOMAIN frames /\ Top = frames[Depth]
      /\ Depth \in 1 .. MaxDepth
  BY StateFacts DEF IInv, Inv, Frames
<1>2. /\ Len(frames) > 1 /\ ~Looping /\ store' = u
      /\ anon' = [anon EXCEPT ![Len(frames)] = Null]
      /\ frames' = SubSeq(frames, 1, Len(frames) - 1)
  BY DEF Return, Depth, ExecStateClear
<1>3. /\ Framed(frames') /\ frames'[Len(frames')].sys = Null
      /\ AllOwn(frames') = AllOwn(frames) \ Own(Top)
      /\ frames' \in Seq(Frames)
      /\ \A i \in DOMAIN frames' : i \in DOMAIN frames /\ frames'[i] = frames[i]
  <2>1. /\ Framed(frames') /\ frames'[Len(frames')].sys = Null
        /\ AllOwn(frames') = AllOwn(frames) \ Own(Top)
    BY <1>1, <1>2, FramedReturn, ZenonT(30) DEF Depth
  <2>2. /\ frames' \in Seq(Frames) /\ DOMAIN frames = DOMAIN frames' \cup {Len(frames)}
        /\ \A i \in DOMAIN frames' : frames'[i] = frames[i]
    BY <1>1, <1>2, OuterFrames, ZenonT(60)
  <2> QED
    BY <2>1, <2>2
<1>4. Own(Top) = {M} /\ M \in store.prot /\ X[M] = 0
  <2>1. Own(Top) = {M}
    BY <1>2, OwnAtReturn
  <2> QED
    BY <2>1, OwnApart
<1>5. M # P
  BY <1>1, <1>4 DEF Framed, Older, FramesFacts
<1>6. P # Null => /\ P \in Obj /\ X[P] > 0 /\ Alive(store, P)
                  /\ store.kind[P] = "sys" => store.eqns[P] > 0
  BY <1>1, OutsideAlive DEF PrevsComplete, Ptr
<1>7. Y \in Counts /\ OneLess(Y, X, P)
  BY <1>1, <1>6, NullAssumption, CountsMinus
<1>8. Y[M] = 0
  BY <1>1, <1>4, <1>5
<1> HIDE DEF X, Y
<1>9. /\ anon' \in [1 .. MaxDepth -> Ptr] /\ OneLess(Z, Y, A)
  BY <1>1, <1>2, <1>7, OutsideReturn DEF X, Depth
<1>10. Z \in Counts
  BY <1>3, <1>9, OutsideType
<1> HIDE DEF Z, P, M, A
<1>11. Sound(m1, X) /\ Keeps(m1, store) /\ m1.prot = store.prot /\ m1.last = P
  BY <1>1, <1>6, SoundSetLast
<1>21. Tidy(store, Null) => Tidy(m1, Null)
  BY <1>1, <1>6, TidySetLast
<1> HIDE DEF m1
<1>22. Tidy(store, Null) => Tidy(m2, Null)
  <2>1. P # Null /\ P \notin m1.prot => Alive(m1, P) /\ m1.refs[P] > 0
    BY <1>1, <1>6, <1>11, HeldCounted DEF Held
  <2>2. Tidy(m1, Null) => Tidy(UnrefFor(m1, P, FALSE), Null)
    BY <1>1, <1>11, <2>1, TidyUnref DEF Sound
  <2> QED
    BY <1>21, <2>2 DEF Unref
<1>12. Sound(m2, Y) /\ Keeps(m2, m1) /\ m2.prot = store.prot /\ m2.last = P
  BY <1>1, <1>7, <1>11, SoundUnrefPtr
<1> HIDE DEF m2
<1>23. Tidy(store, Null) => Tidy(m3, Null)
  <2>1. m2 \in Stores /\ M \in Obj /\ m2.kind[M] = "eqn"
    BY <1>1, <1>4, <1>12 DEF Sound, ProtectedOnes
  <2> QED
    BY <1>22, <2>1, TidyDestroyWorkingModel
<1>13. Sound(m3, Y) /\ Keeps(m3, m2) /\ m3.prot = store.prot \ {M} /\ m3.last = P
  BY <1>4, <1>5, <1>7, <1>8, <1>12, SoundDestroyWorkingModel
<1> HIDE DEF m3
<1>24. Tidy(store, Null) => Tidy(u, Null)
  <2>1. A # Null => A \in Obj /\ Y[A] > 0
    <3> SUFFICES ASSUME A # Null PROVE A \in Obj /\ Y[A] > 0
      OBVIOUS
    <3>1. A \in Obj
      BY <1>1 DEF Ptr
    <3>2. Y[A] = Z[A] + 1 /\ Z[A] \in Nat
      BY <1>9, <1>10, <3>1 DEF OneLess, Counts
    <3> QED
      BY <3>1, <3>2
  <2>2. A # Null /\ A \notin m3.prot => Alive(m3, A) /\ m3.refs[A] > 0
    BY <1>7, <1>13, <2>1, HeldCounted DEF Held
  <2>3. Tidy(m3, Null) => Tidy(UnrefFor(m3, A, FALSE), Null)
    BY <1>1, <1>13, <2>2, TidyUnref DEF Sound
  <2> QED
    BY <1>23, <2>3 DEF Unref
<1>14. Sound(u, Z) /\ Keeps(u, m3) /\ u.prot = store.prot \ {M} /\ u.last = P
  BY <1>1, <1>7, <1>9, <1>10, <1>13, SoundUnrefPtr
<1>15. KeepsBut(u, store, Null)
  BY <1>11, <1>12, <1>13, <1>14 DEF Keeps, KeepsBut, Alive
<1> HIDE DEF u
<1>16. AnonSystems(u, anon')
  <2>1. \A d \in DOMAIN anon' : anon'[d] # Null => /\ anon'[d] = anon[d] /\ d \in DOMAIN anon
                                                   /\ anon[d] \in Obj
    BY <1>1, <1>2, <1>9 DEF Ptr, Depth
  <2>2. \A d \in DOMAIN anon' : anon'[d] # Null => Alive(u, anon'[d])
    BY <1>3, <1>9, <1>14, OutsideAlive DEF Z
  <2> QED
    BY <1>1, <1>15, <2>1, <2>2, NullAssumption DEF AnonSystems, KeepsBut
<1>17. PrevsComplete(u, frames')
  <2>1. PrevsComplete(store, frames')
    BY <1>1, <1>3 DEF PrevsComplete
  <2> QED
    BY <1>3, <1>9, <1>14, <1>15, <2>1, NullAssumption, PrevsStay DEF Z
<1>18. Defined(u, frames', anon')
  BY <1>3 DEF Defined
<1>19. u.prot = AllOwn(frames')
  BY <1>1, <1>3, <1>4, <1>14
<1>20. Inv(u, frames', anon')
  BY <1>3, <1>9, <1>14, <1>16, <1>17, <1>18, <1>19 DEF Inv, Z
<1> QED
  BY <1>2, <1>14, <1>20, <1>24 DEF IInv, P

----------------------------------------------------------------------------
(* Loops.                                                                  *)

\* What runs in a frame, loop by loop.
LEMMA RunningIs ==
  ASSUME NEW g
  PROVE  Running(g) = (IF g.loops[1].on THEN Records(g.loops[1]) ELSE {})
                      \cup (IF g.loops[2].on THEN Records(g.loops[2]) ELSE {})
<1>1. \A k : k \in 1 .. 2 <=> k = 1 \/ k = 2
  OBVIOUS
<1> QED
  BY <1>1 DEF Running

\* A frame with another state of one of its loops.
LEMMA LoopChange ==
  ASSUME NEW f \in Frames, NEW l \in 1 .. 2, NEW r \in Loops
  PROVE  LET g == [f EXCEPT !.loops[l] = r]
         IN  /\ g \in Frames
             /\ g.model = f.model /\ g.prev = f.prev /\ g.sys = f.sys
             /\ g.loops[l] = r /\ \A k \in 1 .. 2 : k # l => g.loops[k] = f.loops[k]
<1> DEFINE g == [f EXCEPT !.loops[l] = r]
           b == [f.loops EXCEPT ![l] = r]
<1>1. f.loops \in [1 .. 2 -> Loops]
  BY DEF Frames
<1>2. /\ b \in [1 .. 2 -> Loops]
      /\ b[l] = r /\ \A k \in 1 .. 2 : k # l => b[k] = f.loops[k]
  BY <1>1
<1>3. g = [f EXCEPT !.loops = b]
  OBVIOUS
<1> HIDE DEF b, g
<1>4. g \in Frames
  BY <1>2, <1>3 DEF Frames
<1>5. g.model = f.model /\ g.prev = f.prev /\ g.sys = f.sys /\ g.loops = b
  BY <1>3 DEF Frames
<1> QED
  BY <1>2, <1>4, <1>5 DEF g

\* A new object is neither owned nor given back by a frame.
LEMMA NewApart ==
  ASSUME IInv, NEW o \in Obj, ~Alive(store, o)
  PROVE  \A i \in DOMAIN frames : o \notin Own(frames[i]) /\ frames[i].prev # o
<1> DEFINE X == Outside(frames, anon)
<1>1. /\ X \in Counts /\ Sound(store, X) /\ frames \in Seq(Frames)
      /\ anon \in [1 .. MaxDepth -> Ptr] /\ store.prot = AllOwn(frames)
  BY StateFacts DEF IInv, Inv
<1>2. X[o] = 0 /\ o \notin store.prot
  BY <1>1, UnusedFacts
<1>3. \A i \in DOMAIN frames : frames[i].prev = o => X[o] > 0
  BY <1>1, OutsideAlive, NullAssumption
<1> QED
  BY <1>1, <1>2, <1>3 DEF AllOwn

\* A step in which the innermost frame comes to own other models.
LEMMA FrameStep ==
  ASSUME IInv, UNCHANGED anon, NEW g \in Frames, SetTop(g),
         g.model = Top.model, g.prev = Top.prev, g.sys = Null,
         NestedLoops(g), OwnDistinct(g),
         NEW o, o \in Obj => ~Alive(store, o),
         Own(g) \subseteq Own(Top) \cup ({o} \cap Obj),
         Sound(store', Outside(frames, anon)), KeepsBut(store', store, o),
         store'.prot = (store.prot \ Own(Top)) \cup Own(g)
  PROVE  IInv'
<1> DEFINE N == {o} \cap Obj
<1>1. /\ Framed(frames) /\ store.prot = AllOwn(frames) /\ Top = frames[Len(frames)]
      /\ frames \in Seq(Frames) /\ anon \in [1 .. MaxDepth -> Ptr]
  BY StateFacts DEF IInv, Inv, Depth
<1>2. \A i \in DOMAIN frames : N \cap Own(frames[i]) = {} /\ frames[i].prev \notin N
  BY NewApart
<1>3. frames' = [frames EXCEPT ![Len(frames)] = g]
  BY DEF SetTop, Depth
<1> HIDE DEF N
<1>4. /\ Framed(frames') /\ Len(frames') = Len(frames) /\ frames'[Len(frames)] = g
      /\ DOMAIN frames' = DOMAIN frames
      /\ \A i \in DOMAIN frames : i # Len(frames) => frames'[i] = frames[i]
      /\ AllOwn(frames') = (AllOwn(frames) \ Own(Top)) \cup Own(g)
      /\ Outside(frames', anon) = Outside(frames, anon)
  <2>1. Own(g) \subseteq Own(frames[Len(frames)]) \cup N
    BY <1>1 DEF N
  <2>2. g.model = frames[Len(frames)].model /\ g.prev = frames[Len(frames)].prev
    BY <1>1
  <2>3. LET h == [frames EXCEPT ![Len(frames)] = g]
        IN  /\ Framed(h) /\ Len(h) = Len(frames) /\ DOMAIN h = DOMAIN frames
            /\ h[Len(frames)] = g
            /\ \A i \in DOMAIN frames : i # Len(frames) => h[i] = frames[i]
            /\ AllOwn(h) = (AllOwn(frames) \ Own(frames[Len(frames)])) \cup Own(g)
            /\ \A a : Outside(h, a) = Outside(frames, a)
    BY <1>1, <1>2, <2>1, <2>2, FramedChange, ZenonT(60)
  <2> QED
    BY <1>1, <1>3, <2>3
<1>5. AnonSystems(store', anon)
  BY AnonKept
<1>6. PrevsComplete(store', frames')
  <2>1. PrevsComplete(store', frames)
    BY <1>1, PrevsKept
  <2>2. \A i \in DOMAIN frames : frames'[i].prev = frames[i].prev
    BY <1>1, <1>4
  <2> QED
    BY <1>4, <2>1, <2>2 DEF PrevsComplete
<1>7. Defined(store', frames', anon)
  BY <1>4 DEF Defined
<1>8. Inv(store', frames', anon)
  BY <1>1, <1>4, <1>5, <1>6, <1>7 DEF Inv
<1> QED
  BY <1>8 DEF IInv

\* What the innermost frame owns is of its own kind of distinctness.
LEMMA TopLoops ==
  ASSUME IInv
  PROVE  /\ NestedLoops(Top) /\ OwnDistinct(Top) /\ Top.loops \in [1 .. 2 -> Loops]
         /\ Looping => Innermost \in 1 .. 2 /\ Top.loops[Innermost].on
         /\ \A l \in 1 .. 2 : Top.loops[l].on => Records(Top.loops[l]) \subseteq Own(Top)
<1>1. NestedLoops(Top) /\ OwnDistinct(Top) /\ Top \in Frames
  BY StateFacts DEF IInv, Inv, Framed
<1>2. Looping => Innermost \in 1 .. 2 /\ Top.loops[Innermost].on
  BY DEF Looping, Innermost
<1>3. \A l \in 1 .. 2 : Top.loops[l].on => Records(Top.loops[l]) \subseteq Own(Top)
  BY RunningIs DEF Own
<1> QED
  BY <1>1, <1>2, <1>3 DEF Frames

\* gretl_loop_exec: a loop starts with no record.
LEMMA LoopStartsEmpty ==
  ASSUME IInv, Kept, Top.sys = Null, NEW l \in 1 .. 2, ~Top.loops[l].on,
         l = 2 => Top.loops[1].on,
         NEW p \in BOOLEAN, NEW f \in BOOLEAN, LoopStarts(l, p, f)
  PROVE  IInv'
<1> DEFINE r == [on |-> TRUE, failed |-> f, prog |-> l = 2 /\ p, records |-> <<>>]
           g == [Top EXCEPT !.loops[l] = r]
           L == UNION {Records(g.loops[k]) : k \in 1 .. l}
<1>1. SetTop(g) /\ store' = [store EXCEPT !.listed = L] /\ anon' = anon
  BY DEF LoopStarts, Kept
<1>2. r \in Loops /\ r.on /\ Records(r) = {}
  BY DEF Loops, Records
<1>3. Top \in Frames /\ NestedLoops(Top) /\ OwnDistinct(Top) /\ Sound(store, Outside(frames, anon))
  BY StateFacts, TopLoops DEF IInv, Inv
<1>4. /\ g \in Frames /\ g.model = Top.model /\ g.prev = Top.prev /\ g.sys = Top.sys
      /\ g.loops[l] = r /\ \A k \in 1 .. 2 : k # l => g.loops[k] = Top.loops[k]
  <2> HIDE DEF r
  <2> QED
    BY <1>2, <1>3, LoopChange
<1> HIDE DEF g, r
<1>11. /\ Sound(store', Outside(frames, anon)) /\ store'.prot = store.prot
       /\ KeepsBut(store', store, Null)
  <2>1. L \subseteq Own(Top)
    <3>1. CASE l = 1
      BY <1>2, <1>4, <3>1
    <3>2. CASE l = 2
      BY <1>2, <1>4, <3>2, TopLoops
    <3> QED
      BY <3>1, <3>2
  <2>2. L \subseteq Obj /\ \A o \in L : o \in store.prot
    BY <2>1, TopOwn
  <2> DEFINE X == Outside(frames, anon)
  <2>3. X \in Counts
    BY StateFacts
  <2> HIDE DEF L, X
  <2>4. LET u == [store EXCEPT !.listed = L]
        IN  Sound(u, X) /\ Keeps(u, store) /\ u.prot = store.prot
    BY <1>3, <2>2, <2>3, SoundListed DEF X
  <2> QED
    BY <1>1, <2>4, KeepsIsKeepsBut DEF X
<1>5. Running(g) = Running(Top)
  <2>1. /\ Running(g) = (IF g.loops[1].on THEN Records(g.loops[1]) ELSE {})
                          \cup (IF g.loops[2].on THEN Records(g.loops[2]) ELSE {})
        /\ Running(Top) = (IF Top.loops[1].on THEN Records(Top.loops[1]) ELSE {})
                            \cup (IF Top.loops[2].on THEN Records(Top.loops[2]) ELSE {})
    BY RunningIs
  <2>2. CASE l = 1
    BY <1>2, <1>4, <2>1, <2>2
  <2>3. CASE l = 2
    BY <1>2, <1>4, <2>1, <2>3
  <2> QED
    BY <2>2, <2>3
<1>6. Own(g) = Own(Top)
  BY <1>4, <1>5 DEF Own
<1>7. NestedLoops(g)
  BY <1>2, <1>4 DEF NestedLoops
<1>8. OwnDistinct(g)
  <2>1. CASE l = 1
    BY <1>2, <1>3, <1>4, <1>5, <2>1 DEF OwnDistinct
  <2>2. CASE l = 2
    BY <1>2, <1>3, <1>4, <1>5, <2>2 DEF OwnDistinct
  <2> QED
    BY <2>1, <2>2
<1>9. store'.prot = (store.prot \ Own(Top)) \cup Own(g)
  BY <1>6, <1>11, TopOwn
<1> QED
  BY <1>1, <1>3, <1>4, <1>6, <1>7, <1>8, <1>9, <1>11, FrameStep, NullAssumption

\* A loop is started, outer or inner.
LEMMA StepStartLoop ==
  ASSUME IInv, Kept, NEW p \in BOOLEAN, NEW f \in BOOLEAN,
         StartOuterLoop(p, f) \/ StartInnerLoop(p, f)
  PROVE  IInv'
<1>1. CASE StartOuterLoop(p, f)
  BY <1>1, LoopStartsEmpty DEF StartOuterLoop, Ready, Looping
<1>2. CASE StartInnerLoop(p, f)
  BY <1>2, LoopStartsEmpty DEF StartInnerLoop, Ready, Looping
<1> QED
  BY <1>1, <1>2

\* A record is protected and goes on the list of its loop.
LEMMA SoundNewRecord ==
  ASSUME NEW m, NEW X \in Counts, Sound(m, X), NEW o \in Obj, ~Alive(m, o), NEW c
  PROVE  LET n == NewProtected(m, o)
             u == [n EXCEPT !.listed = IF c = Depth THEN @ \cup {o} ELSE @]
         IN  /\ Sound(u, X) /\ SameBut(u, m, o) /\ u.kind[o] = "eqn" /\ u \in Stores
             /\ u.prot = m.prot \cup {o}
             /\ Tidy(m, Null) => Tidy(u, Null)
<1> DEFINE n == NewProtected(m, o)
           L == IF c = Depth THEN n.listed \cup {o} ELSE n.listed
           u == [n EXCEPT !.listed = L]
<1>1. /\ Sound(n, X) /\ SameBut(n, m, o) /\ n.kind[o] = "eqn" /\ n \in Stores
      /\ n.prot = m.prot \cup {o}
  BY SoundNewProtected, NewProtectedParts DEF Sound
<1>2. Tidy(m, Null) => Tidy(n, Null)
  BY TidyNewProtected DEF Sound
<1> HIDE DEF n
<1>3. L \subseteq Obj /\ \A p \in L : n.kind[p] = "eqn" => p \in n.prot
  BY <1>1, StoreParts DEF Sound, ProtectedOnes
<1> HIDE DEF L
<1>4. /\ Sound(u, X)
      /\ u.kind = n.kind /\ u.refs = n.refs /\ u.eqns = n.eqns /\ u.prot = n.prot
  BY <1>1, <1>3, SoundListed
<1>5. u = [n EXCEPT !.listed = IF c = Depth THEN @ \cup {o} ELSE @]
  BY DEF L
<1> HIDE DEF u
<1>6. /\ Sound(u, X) /\ SameBut(u, m, o) /\ u.kind[o] = "eqn" /\ u \in Stores
      /\ u.prot = m.prot \cup {o}
  BY <1>1, <1>4 DEF SameBut, Sound
<1>7. Tidy(m, Null) => Tidy(u, Null)
  BY <1>2, <1>4, TidySame
<1> QED
  BY <1>5, <1>6, <1>7 DEF n

\* get_model_record_by_line makes a record, which the loop owns and protects.
LEMMA StepEstimateOnNewLine ==
  ASSUME IInv, NEW o \in Obj, EstimateOnNewLine(o) PROVE IInv'
<1> DEFINE X == Outside(frames, anon)
           l == Innermost
           loop == Top.loops[l]
           rs == loop.records
           r == [loop EXCEPT !.records = Append(rs, o)]
           g == [Top EXCEPT !.loops[l] = r]
           m0 == NewProtected(store, o)
           m1 == [m0 EXCEPT !.listed = IF currloop = Depth THEN @ \cup {o} ELSE @]
<1>1. /\ X \in Counts /\ Sound(store, X) /\ store \in Stores /\ ~Alive(store, o)
      /\ Top \in Frames /\ NestedLoops(Top) /\ OwnDistinct(Top)
      /\ Top.loops \in [1 .. 2 -> Loops] /\ Depth \in DOMAIN frames /\ Top = frames[Depth]
  BY StateFacts, TopLoops DEF IInv, Inv, EstimateOnNewLine, Unused, Alive
<1>2. /\ Looping /\ Top.sys = Null /\ store' = SetLast(m1, o) /\ anon' = anon
  BY DEF EstimateOnNewLine, Ready
<1>3. l \in 1 .. 2 /\ loop.on /\ loop \in Loops
  BY <1>1, <1>2, TopLoops
<1>4. SetTop(g)
  BY DEF EstimateOnNewLine
<1>5. r \in Loops /\ r.on /\ Records(r) = Records(loop) \cup {o}
  <2>1. rs \in Seq(Obj)
    BY <1>3 DEF Loops
  <2>2. /\ Append(rs, o) \in Seq(Obj) /\ Len(Append(rs, o)) = Len(rs) + 1
        /\ \A i \in 1 .. Len(rs) : Append(rs, o)[i] = rs[i]
        /\ Append(rs, o)[Len(rs) + 1] = o
    BY <2>1, AppendProperties
  <2>3. DOMAIN rs = 1 .. Len(rs) /\ Len(rs) \in Nat /\ DOMAIN Append(rs, o) = 1 .. Len(rs) + 1
    BY <2>1, <2>2
  <2>4. r \in Loops /\ r.on /\ r.records = Append(rs, o)
    BY <1>3, <2>2 DEF Loops
  <2>5. DOMAIN Append(rs, o) = DOMAIN rs \cup {Len(rs) + 1}
    BY <2>3
  <2> HIDE DEF r, loop, rs
  <2>6. Records(r) = {rs[i] : i \in DOMAIN rs} \cup {o}
    BY <2>2, <2>3, <2>4, <2>5 DEF Records
  <2> QED
    BY <2>4, <2>6 DEF Records, rs
<1>6. \A i \in DOMAIN frames : o \notin Own(frames[i]) /\ frames[i].prev # o
  BY <1>1, NewApart
<1>7. o \notin Own(Top)
  BY <1>1, <1>6
<1> HIDE DEF r
<1>8. /\ g \in Frames /\ g.model = Top.model /\ g.prev = Top.prev /\ g.sys = Top.sys
      /\ g.loops[l] = r /\ \A k \in 1 .. 2 : k # l => g.loops[k] = Top.loops[k]
  BY <1>1, <1>3, <1>5, LoopChange
<1> HIDE DEF g
<1>9. /\ Running(g) = (IF g.loops[1].on THEN Records(g.loops[1]) ELSE {})
                       \cup (IF g.loops[2].on THEN Records(g.loops[2]) ELSE {})
      /\ Running(Top) = (IF Top.loops[1].on THEN Records(Top.loops[1]) ELSE {})
                         \cup (IF Top.loops[2].on THEN Records(Top.loops[2]) ELSE {})
  BY RunningIs
<1>10. Running(g) = Running(Top) \cup {o}
  <2>1. CASE l = 1
    BY <1>3, <1>5, <1>8, <1>9, <2>1
  <2>2. CASE l = 2
    BY <1>3, <1>5, <1>8, <1>9, <2>2
  <2> QED
    BY <1>3, <2>1, <2>2
<1>11. Own(g) = Own(Top) \cup {o}
  BY <1>8, <1>10 DEF Own
<1>12. NestedLoops(g)
  <2>1. CASE l = 1
    BY <1>1, <1>3, <1>5, <1>8, <2>1 DEF NestedLoops
  <2>2. CASE l = 2
    BY <1>1, <1>3, <1>5, <1>8, <2>2 DEF NestedLoops
  <2> QED
    BY <1>3, <2>1, <2>2
<1>13. OwnDistinct(g)
  <2>1. o \notin Running(Top) /\ o # Top.model
    BY <1>7 DEF Own
  <2>2. g.model \notin Running(g)
    BY <1>1, <1>8, <1>10, <2>1 DEF OwnDistinct
  <2>3. CASE l = 1
    BY <1>1, <1>3, <1>5, <1>8, <1>9, <2>1, <2>2, <2>3 DEF OwnDistinct
  <2>4. CASE l = 2
    BY <1>1, <1>3, <1>5, <1>8, <1>9, <2>1, <2>2, <2>4 DEF OwnDistinct
  <2> QED
    BY <1>3, <2>3, <2>4
<1>14. /\ Sound(m1, X) /\ SameBut(m1, store, o) /\ m1.kind[o] = "eqn" /\ m1 \in Stores
       /\ m1.prot = store.prot \cup {o}
  BY <1>1, SoundNewRecord
<1> HIDE DEF m1, X
<1>15. LET u == SetLast(m1, o) IN Sound(u, X) /\ Keeps(u, m1) /\ u.prot = m1.prot
  <2>1. o \in Ptr /\ Alive(m1, o) /\ m1.kind[o] # "sys"
    BY <1>14 DEF Ptr, Alive
  <2> QED
    BY <1>1, <1>14, <2>1, SoundSetLast
<1>16. KeepsBut(store', store, o)
  BY <1>2, <1>14, <1>15 DEF KeepsBut, Keeps, SameBut, Alive
<1>17. store'.prot = (store.prot \ Own(Top)) \cup Own(g)
  BY <1>2, <1>11, <1>14, <1>15, TopOwn
<1>18. Own(g) \subseteq Own(Top) \cup ({o} \cap Obj) /\ g.sys = Null
  BY <1>2, <1>8, <1>11
<1>19. Sound(store', Outside(frames, anon))
  BY <1>2, <1>15 DEF X
<1>20. SetTop(g)
  BY <1>4 DEF g
<1> QED
  BY <1>1, <1>2, <1>8, <1>12, <1>13, <1>16, <1>17, <1>18, <1>19, <1>20, FrameStep

\* A record made before becomes the last model again.
LEMMA StepEstimateOnSameLine ==
  ASSUME IInv, EstimateOnSameLine PROVE IInv'
<1> DEFINE X == Outside(frames, anon)
<1>1. X \in Counts /\ Sound(store, X)
  BY StateFacts DEF IInv, Inv
<1>2. PICK i \in DOMAIN Top.loops[Innermost].records :
          store' = SetLast(store, Top.loops[Innermost].records[i])
  BY DEF EstimateOnSameLine
<1> DEFINE o == Top.loops[Innermost].records[i]
<1>3. Looping /\ Top.sys = Null /\ UNCHANGED <<anon, frames>>
  BY DEF EstimateOnSameLine, Ready
<1>4. o \in Records(Top.loops[Innermost])
  BY DEF Records
<1>5. o \in Own(Top)
  BY <1>3, <1>4, TopLoops
<1> HIDE DEF o
<1>6. o \in Obj /\ store.kind[o] = "eqn"
  BY <1>1, <1>5, OwnApart DEF Sound, ProtectedOnes
<1>7. LET u == SetLast(store, o) IN Sound(u, X) /\ Keeps(u, store) /\ u.prot = store.prot
  BY <1>1, <1>6, SoundSetLast DEF Ptr, Alive
<1>8. KeepsBut(store', store, Null)
  BY <1>2, <1>7, KeepsIsKeepsBut DEF o
<1> QED
  BY <1>2, <1>3, <1>7, <1>8, StoreStep, NullAssumption DEF o

\* The end of a loop: the last model is not one of its records any more, and
\* nothing else points at them.
LEMMA LoopModelsGone ==
  ASSUME IInv, Looping, Top.sys = Null,
         NEW w, w = LoopModelsFreed(store, Top.model, Top.loops[Innermost])
  PROVE  /\ Sound(w, Outside(frames, anon)) /\ Keeps(w, store)
         /\ w.prot = store.prot \ Records(Top.loops[Innermost])
         /\ Tidy(store, Null) => Tidy(w, Null)
<1> DEFINE X == Outside(frames, anon)
           loop == Top.loops[Innermost]
           S == Records(loop)
           swapped == /\ loop.records # <<>> /\ store.last \notin {Null, Top.model}
                      /\ store.kind[store.last] = "eqn"
           m1 == IF swapped THEN SetLast(store, Top.model) ELSE store
<1>1. /\ X \in Counts /\ Sound(store, X) /\ store \in Stores
      /\ OwnDistinct(Top) /\ loop.on /\ S \subseteq Own(Top) /\ loop \in Loops
  BY StateFacts, TopLoops DEF IInv, Inv
<1>2. S \subseteq store.prot /\ \A o \in S : o \in Obj /\ X[o] = 0 /\ store.kind[o] = "eqn"
  BY <1>1, OwnApart DEF Sound, ProtectedOnes
<1>3. Top.model \notin S
  <2>1. S \subseteq Running(Top)
    BY <1>1, RunningIs, TopLoops
  <2> QED
    BY <1>1, <2>1 DEF OwnDistinct
<1>4. /\ Sound(m1, X) /\ Keeps(m1, store) /\ m1.prot = store.prot
      /\ swapped => m1.last = Top.model
      /\ Tidy(store, Null) => Tidy(m1, Null)
  <2>1. CASE swapped
    <3>1. Top.model \in Ptr /\ Alive(store, Top.model) /\ store.kind[Top.model] # "sys"
      BY TopOwn DEF Ptr, Alive
    <3>2. LET u == SetLast(store, Top.model)
          IN  Sound(u, X) /\ Keeps(u, store) /\ u.prot = store.prot /\ u.last = Top.model
      BY <1>1, <3>1, SoundSetLast
    <3>3. Tidy(store, Null) => Tidy(SetLast(store, Top.model), Null)
      BY <1>1, <3>1, TidySetLast
    <3> QED
      BY <2>1, <3>2, <3>3
  <2>2. CASE ~swapped
    BY <1>1, <2>2 DEF Keeps
  <2> QED
    BY <2>1, <2>2
<1>5. m1.last \notin S
  <2>1. CASE swapped
    BY <1>3, <1>4, <2>1
  <2>2. CASE ~swapped
    <3>1. m1 = store
      BY <2>2
    <3>2. loop.records = <<>> => S = {}
      BY DEF Records
    <3>3. Null \notin S
      BY <1>2, NullAssumption
    <3> QED
      BY <1>2, <1>3, <2>2, <3>1, <3>2, <3>3
  <2> QED
    BY <2>1, <2>2
<1>6. w = Free([m1 EXCEPT !.prot = @ \ S], S)
  BY DEF LoopModelsFreed
<1> HIDE DEF m1, S, X
<1>7. \A o \in S : m1.last # o /\ X[o] = 0
  BY <1>2, <1>5
<1>8. LET u == Free([m1 EXCEPT !.prot = @ \ S], S)
      IN  Sound(u, X) /\ Keeps(u, m1) /\ u.prot = m1.prot \ S
  BY <1>1, <1>2, <1>4, <1>7, SoundUnprotect
<1>9. Tidy(m1, Null) => Tidy(w, Null)
  <2>1. m1 \in Stores /\ S \in SUBSET Obj /\ \A o \in S : m1.kind[o] = "eqn"
    BY <1>2, <1>4 DEF Sound, ProtectedOnes
  <2> QED
    BY <1>6, <2>1, TidyUnprotect
<1> QED
  BY <1>4, <1>6, <1>8, <1>9 DEF Keeps, Alive, S, X

\* The end of an outer loop also empties the lists that currloop leads to.
LEMMA EndLoopStore ==
  ASSUME IInv, EndLoop
  PROVE  /\ Sound(store', Outside(frames, anon)) /\ Keeps(store', store)
         /\ store'.prot = store.prot \ Records(Top.loops[Innermost])
         /\ Tidy(store, Null) => Tidy(store', Null)
<1> DEFINE X == Outside(frames, anon)
           w == LoopModelsFreed(store, Top.model, Top.loops[Innermost])
           u == [w EXCEPT !.listed = {}]
<1>1. Looping /\ Top.sys = Null /\ store' \in {w, u}
  BY DEF EndLoop
<1>2. X \in Counts
  BY StateFacts
<1>3. /\ Sound(w, X) /\ Keeps(w, store)
      /\ w.prot = store.prot \ Records(Top.loops[Innermost])
      /\ Tidy(store, Null) => Tidy(w, Null)
  BY <1>1, LoopModelsGone
<1> HIDE DEF w, X
<1>4. /\ Sound(u, X) /\ Keeps(u, w) /\ u.kind = w.kind /\ u.refs = w.refs
      /\ u.eqns = w.eqns /\ u.prot = w.prot
  BY <1>2, <1>3, SoundListed
<1>5. Keeps(u, store)
  BY <1>3, <1>4 DEF Keeps, Alive
<1>6. Tidy(w, Null) => Tidy(u, Null)
  BY <1>4, TidySame
<1> HIDE DEF u
<1>7. CASE store' = w
  BY <1>3, <1>7 DEF X
<1>8. CASE store' = u
  BY <1>3, <1>4, <1>5, <1>6, <1>8 DEF X
<1> QED
  BY <1>1, <1>7, <1>8

\* gretl_loop_exec gives the records up and destroys the inner loop with the
\* outer one.
LEMMA StepEndLoop ==
  ASSUME IInv, EndLoop PROVE IInv'
<1> DEFINE X == Outside(frames, anon)
           l == Innermost
           loop == Top.loops[l]
           ended == [loop EXCEPT !.on = FALSE, !.failed = FALSE]
           outer == [Top EXCEPT !.loops = [i \in 1 .. 2 |-> NoLoop]]
           inner == [Top EXCEPT !.loops[2] = ended]
<1>1. /\ Looping /\ Top.sys = Null /\ anon' = anon
      /\ SetTop(IF l = 1 THEN outer ELSE inner)
  BY DEF EndLoop
<1>2. /\ Sound(store', X) /\ Keeps(store', store) /\ store'.prot = store.prot \ Records(loop)
  BY EndLoopStore
<1>3. /\ Top \in Frames /\ NestedLoops(Top) /\ OwnDistinct(Top) /\ l \in 1 .. 2
      /\ Top.loops[l].on /\ Top.loops \in [1 .. 2 -> Loops] /\ loop \in Loops
  BY <1>1, StateFacts, TopLoops
<1>4. Running(Top) = (IF Top.loops[1].on THEN Records(Top.loops[1]) ELSE {})
                      \cup (IF Top.loops[2].on THEN Records(Top.loops[2]) ELSE {})
  BY RunningIs
<1>5. Own(Top) \subseteq store.prot /\ Top.model \notin Running(Top)
  BY <1>3, TopOwn DEF OwnDistinct
<1>6. KeepsBut(store', store, Null)
  BY <1>2, KeepsIsKeepsBut
<1>7. CASE l = 1
  <2>1. ~Top.loops[2].on
    BY <1>7 DEF Innermost
  <2>2. Running(Top) = Records(loop)
    BY <1>3, <1>4, <1>7, <2>1
  <2>3. [i \in 1 .. 2 |-> NoLoop] \in [1 .. 2 -> Loops] /\ ~NoLoop.on
    BY EmptySeq DEF NoLoop, Loops
  <2>4. /\ outer \in Frames /\ outer.model = Top.model /\ outer.prev = Top.prev
        /\ outer.sys = Top.sys /\ \A k \in 1 .. 2 : outer.loops[k] = NoLoop
    BY <1>3, <2>3 DEF Frames
  <2> HIDE DEF outer
  <2>5. Running(outer) = {}
    BY <2>3, <2>4 DEF Running
  <2>6. Own(outer) = {Top.model}
    BY <2>4, <2>5 DEF Own
  <2>7. NestedLoops(outer) /\ OwnDistinct(outer)
    BY <2>3, <2>4, <2>5 DEF NestedLoops, OwnDistinct
  <2>8. Own(Top) = {Top.model} \cup Records(loop)
    BY <2>2 DEF Own
  <2>9. store'.prot = (store.prot \ Own(Top)) \cup Own(outer)
    BY <1>2, <1>5, <2>2, <2>6, <2>8
  <2>10. Own(outer) \subseteq Own(Top)
    BY <2>6, <2>8
  <2>11. SetTop(outer)
    BY <1>1, <1>7
  <2> QED
    BY <1>1, <1>2, <1>6, <2>4, <2>7, <2>9, <2>10, <2>11, FrameStep, NullAssumption
<1>8. CASE l = 2
  <2>1. Top.loops[1].on /\ Top.loops[2].on
    BY <1>1, <1>3, <1>8 DEF Looping
  <2>2. Running(Top) = Records(Top.loops[1]) \cup Records(loop)
    BY <1>4, <1>8, <2>1
  <2>3. Records(Top.loops[1]) \cap Records(loop) = {}
    BY <1>3, <1>8, <2>1 DEF OwnDistinct
  <2>4. ended \in Loops /\ ~ended.on
    BY <1>3 DEF Loops
  <2> HIDE DEF ended
  <2>5. /\ inner \in Frames /\ inner.model = Top.model /\ inner.prev = Top.prev
        /\ inner.sys = Top.sys /\ inner.loops[2] = ended /\ inner.loops[1] = Top.loops[1]
    BY <1>3, <2>4, LoopChange
  <2> HIDE DEF inner
  <2>6. Running(inner) = (IF inner.loops[1].on THEN Records(inner.loops[1]) ELSE {})
                          \cup (IF inner.loops[2].on THEN Records(inner.loops[2]) ELSE {})
    BY RunningIs
  <2>7. Running(inner) = Records(Top.loops[1])
    BY <2>1, <2>4, <2>5, <2>6
  <2>8. Own(inner) = {Top.model} \cup Records(Top.loops[1])
    BY <2>5, <2>7 DEF Own
  <2>9. NestedLoops(inner) /\ OwnDistinct(inner)
    BY <1>5, <2>2, <2>4, <2>5, <2>7 DEF NestedLoops, OwnDistinct
  <2>10. Own(Top) = {Top.model} \cup Records(Top.loops[1]) \cup Records(loop)
    BY <2>2 DEF Own
  <2>11. store'.prot = (store.prot \ Own(Top)) \cup Own(inner)
    BY <1>2, <1>5, <2>2, <2>3, <2>8, <2>10
  <2>12. Own(inner) \subseteq Own(Top)
    BY <2>8, <2>10
  <2>13. SetTop(inner)
    BY <1>1, <1>8
  <2> QED
    BY <1>1, <1>2, <1>6, <2>5, <2>9, <2>11, <2>12, <2>13, FrameStep, NullAssumption
<1> QED
  BY <1>3, <1>7, <1>8

----------------------------------------------------------------------------
(* Commands that take objects away.                                        *)

\* "name.free" takes one object off the stack.
LEMMA StepFreeNamed ==
  ASSUME IInv, NEW e \in store.stack, FreeNamed(e) PROVE IInv'
<1> DEFINE X == Outside(frames, anon)
           o == e.ptr
<1>1. /\ X \in Counts /\ Sound(store, X) /\ store \in Stores /\ Top.sys = Null
      /\ store' = RemoveFromStack(store, o) /\ UNCHANGED <<anon, frames>>
  BY StateFacts DEF IInv, Inv, FreeNamed, Ready
<1>2. o \in Stacked(store) /\ o \in Obj
  BY <1>1, StackedFact
<1>3. LET u == RemoveFromStack(store, o)
      IN  Sound(u, X) /\ Keeps(u, store) /\ u.prot = store.prot
  BY <1>1, <1>2, SoundRemove
<1>4. KeepsBut(store', store, Null)
  BY <1>1, <1>3, KeepsIsKeepsBut
<1> QED
  BY <1>1, <1>3, <1>4, StoreStep, NullAssumption

\* lib_clear_data; at the top level only unnamed systems are held elsewhere.
LEMMA StepClearData ==
  ASSUME IInv, ClearData PROVE IInv'
<1> DEFINE X == Outside(frames, anon)
<1>1. /\ X \in Counts /\ Sound(store, X) /\ store \in Stores /\ Top.sys = Null
      /\ store' = SavedObjectsCleanup(store) /\ UNCHANGED <<anon, frames>>
      /\ frames \in Seq(Frames) /\ anon \in [1 .. MaxDepth -> Ptr]
      /\ Depth \in 1 .. MaxDepth /\ DOMAIN frames = 1 .. Depth /\ ~(Depth > 1)
      /\ frames[1].prev = Null /\ AnonSystems(store, anon)
  BY StateFacts DEF IInv, Inv, Framed, ClearData, InFunction, Ready
<1>2. \A i \in DOMAIN frames : frames[i].prev = Null
  <2>1. Depth = 1
    BY <1>1
  <2> QED
    BY <1>1, <2>1
<1>3. ASSUME NEW o \in Obj, X[o] > 0 PROVE store.kind[o] = "sys"
  <2>1. \/ \E i \in DOMAIN frames : frames[i].prev = o
        \/ \E d \in DOMAIN anon : anon[d] = o
    BY <1>1, <1>3, OutsideType
  <2>2. \E d \in DOMAIN anon : anon[d] = o
    BY <1>2, <2>1, NullAssumption
  <2> QED
    BY <1>1, <2>2, NullAssumption DEF AnonSystems
<1>4. LET u == SavedObjectsCleanup(store)
      IN  Sound(u, X) /\ Keeps(u, store) /\ u.prot = store.prot
  BY <1>1, <1>3, SoundCleanup
<1>5. KeepsBut(store', store, Null)
  BY <1>1, <1>4, KeepsIsKeepsBut
<1> QED
  BY <1>1, <1>4, <1>5, StoreStep, NullAssumption

\* "smpl --permanent" drops the last model.
LEMMA StepDropLastModel ==
  ASSUME IInv, DropLastModel PROVE IInv'
<1> DEFINE X == Outside(frames, anon)
<1>1. /\ X \in Counts /\ Sound(store, X) /\ Top.sys = Null
      /\ store' = SetLast(store, Null) /\ UNCHANGED <<anon, frames>>
  BY StateFacts DEF IInv, Inv, DropLastModel, Ready
<1>2. LET u == SetLast(store, Null)
      IN  Sound(u, X) /\ Keeps(u, store) /\ u.prot = store.prot
  BY <1>1, SoundSetLast DEF Ptr
<1>3. KeepsBut(store', store, Null)
  BY <1>1, <1>2, KeepsIsKeepsBut
<1> QED
  BY <1>1, <1>2, <1>3, StoreStep, NullAssumption

----------------------------------------------------------------------------
\* A script starts with one frame, one working model and nothing saved.
LEMMA InitIInv == Init => IInv
<1> SUFFICES ASSUME Init PROVE IInv
  OBVIOUS
<1>1. PICK o \in Obj : /\ store = NewProtected(EmptyStore, o)
                       /\ frames = <<Frame(o, Null)>>
  BY DEF Init
<1>2. anon = [d \in 1 .. MaxDepth |-> Null]
  BY DEF Init
<1> DEFINE g == Frame(o, Null)
           X == Outside(frames, anon)
<1>3. anon \in [1 .. MaxDepth -> Ptr] /\ \A d \in DOMAIN anon : anon[d] = Null
  BY <1>2 DEF Ptr
<1>4. /\ NoLoop \in Loops /\ ~NoLoop.on
      /\ [l \in 1 .. 2 |-> NoLoop] \in [1 .. 2 -> Loops]
  BY EmptySeq DEF NoLoop, Loops
<1>5. /\ g \in Frames /\ g.model = o /\ g.prev = Null /\ g.sys = Null
      /\ \A l \in 1 .. 2 : ~g.loops[l].on
  BY <1>4 DEF Frame, Frames, Ptr
<1> HIDE DEF g
<1>6. /\ frames \in Seq(Frames) /\ Len(frames) = 1 /\ DOMAIN frames = {1} /\ frames[1] = g
  BY <1>1, <1>5 DEF g
<1>7. Running(g) = {} /\ Own(g) = {o}
  BY <1>5 DEF Running, Own
<1>8. Framed(frames)
  <2>1. Len(frames) \in 1 .. MaxDepth
    BY <1>6, DepthAssumption
  <2>2. NestedLoops(g) /\ OwnDistinct(g)
    BY <1>5, <1>7 DEF NestedLoops, OwnDistinct
  <2>3. OnlyLastDefines(frames) /\ Apart(frames)
    BY <1>5, <1>6 DEF OnlyLastDefines, Apart
  <2>4. Older(frames)
    BY <1>5, <1>6, <1>7, NullAssumption DEF Older
  <2> QED
    BY <1>5, <1>6, <2>1, <2>2, <2>3, <2>4 DEF Framed
<1>9. X \in Counts /\ \A p \in Obj : X[p] = 0
  <2>1. X \in Counts
    BY <1>3, <1>6, OutsideType
  <2>2. \A p \in Obj : ~(X[p] > 0)
    <3> SUFFICES ASSUME NEW p \in Obj, X[p] > 0 PROVE FALSE
      OBVIOUS
    <3>1. \/ \E i \in DOMAIN frames : frames[i].prev = p
          \/ \E d \in DOMAIN anon : anon[d] = p
      BY <1>3, <1>6, OutsideType
    <3> QED
      BY <1>3, <1>5, <1>6, <3>1, NullAssumption
  <2>3. \A p \in Obj : X[p] \in Nat
    BY <2>1 DEF Counts
  <2> HIDE DEF X
  <2> QED
    BY <2>1, <2>2, <2>3
<1> HIDE DEF X
<1>10. /\ EmptyStore \in Stores /\ EmptyStore.stack = {} /\ EmptyStore.last = Null
       /\ EmptyStore.prot = {} /\ EmptyStore.listed = {}
       /\ \A p \in Obj : EmptyStore.kind[p] = "none"
  BY DEF EmptyStore, Stores, Ptr
<1>11. Stacked(EmptyStore) = {}
  BY <1>10 DEF Stacked
<1>12. Sound(EmptyStore, X)
  <2>1. Exact(EmptyStore, X)
    BY <1>10 DEF Exact, Alive
  <2>2. HeldAlive(EmptyStore, X)
    BY <1>9, <1>10, <1>11, NullAssumption DEF HeldAlive, Held
  <2>3. ProtectedOnes(EmptyStore) /\ Once(EmptyStore) /\ Names(EmptyStore)
    BY <1>10 DEF ProtectedOnes, Once, Names
  <2>4. Complete(EmptyStore)
    BY <1>10 DEF Complete
  <2> QED
    BY <1>10, <2>1, <2>2, <2>3, <2>4 DEF Sound
<1>13. Sound(store, X)
  BY <1>1, <1>9, <1>10, <1>12, SoundNewProtected DEF Alive
<1>14. store.prot = AllOwn(frames)
  <2>1. store.prot = {o}
    BY <1>1, <1>10, NewProtectedParts
  <2> QED
    BY <1>6, <1>7, <2>1 DEF AllOwn
<1>15. Defined(store, frames, anon) /\ AnonSystems(store, anon)
  BY <1>3, <1>5, <1>6 DEF Defined, AnonSystems
<1>16. PrevsComplete(store, frames)
  BY <1>5, <1>6 DEF PrevsComplete
<1> QED
  BY <1>3, <1>8, <1>13, <1>14, <1>15, <1>16 DEF IInv, Inv, X

\* Every step of the program preserves the invariant.
LEMMA NextIInv ==
  ASSUME Kept, IInv, [Next]_vars PROVE IInv'
<1>1. CASE Models
  BY <1>1, StepEstimateModel, StepEstimateNamed, StepEstimateVAR, StepEstimateNamedVAR
     DEF Models
<1>2. CASE Systems
  <2>1. CASE Equation
    BY <2>1, StepEquation
  <2>2. CASE BadSystemLine \/ EndShortSystem
    BY <2>2, StepDropSystem DEF BadSystemLine, EndShortSystem
  <2>3. CASE EndInconsistentSystem
    BY <2>3, StepEndInconsistentSystem
  <2>4. CASE \E n \in Name : EndSystem(n) \/ EndAndEstimateSystem(n)
    BY <2>4, StepEndSystem, StepEndAndEstimateSystem
  <2>5. CASE \E o \in Obj : StartSystem(o) \/ StartUnnamedSystem(o) \/ EstimateSystem(o)
    BY <2>5, StepStartSystem, StepStartUnnamedSystem, StepEstimateSystem
  <2> QED
    BY <1>2, <2>1, <2>2, <2>3, <2>4, <2>5 DEF Systems
<1>3. CASE Calls
  BY <1>3, StepReturn, StepCallFunction DEF Calls
<1>4. CASE LoopSteps
  <2>1. CASE \E p, f \in BOOLEAN : StartOuterLoop(p, f) \/ StartInnerLoop(p, f)
    BY <2>1, StepStartLoop
  <2>2. CASE \E o \in Obj : EstimateOnNewLine(o)
    BY <2>2, StepEstimateOnNewLine
  <2>3. CASE EstimateOnSameLine
    BY <2>3, StepEstimateOnSameLine
  <2>4. CASE EndLoop
    BY <2>4, StepEndLoop
  <2> QED
    BY <1>4, <2>1, <2>2, <2>3, <2>4 DEF LoopSteps
<1>5. CASE Removals
  BY <1>5, StepClearData, StepDropLastModel, StepFreeNamed DEF Removals
<1>6. CASE UNCHANGED vars
  BY <1>6 DEF vars, IInv
<1> QED
  BY <1>1, <1>2, <1>3, <1>4, <1>5, <1>6 DEF Next

----------------------------------------------------------------------------
(* The invariant holds, and with it each property of SavedObjects.         *)

\* The invariant holds at the start and is preserved.
LEMMA Inductive == ASSUME Kept PROVE Spec => []IInv
<1>1. Init => IInv
  BY InitIInv
<1>2. IInv /\ [Next]_vars => IInv'
  BY NextIInv
<1> QED
  BY <1>1, <1>2, PTL DEF Spec

\* The frames own what they run, seen from the outside.
LEMMA RunningRecordsIs ==
  RunningRecords \cup {frames[i].model : i \in DOMAIN frames} = AllOwn(frames)
<1>1. RunningRecords = UNION {Running(frames[i]) : i \in DOMAIN frames}
  BY DEF RunningRecords, Running
<1> QED
  BY <1>1 DEF AllOwn, Own

\* All that is pointed at is alive.
LEMMA IInvNoDangling == ASSUME IInv PROVE NoDangling
<1> DEFINE X == Outside(frames, anon)
<1>1. /\ X \in Counts /\ Sound(store, X) /\ store \in Stores /\ frames \in Seq(Frames)
      /\ anon \in [1 .. MaxDepth -> Ptr] /\ store.prot = AllOwn(frames)
      /\ Depth \in DOMAIN frames /\ DOMAIN frames = 1 .. Depth
  BY StateFacts DEF IInv, Inv
<1>2. \A o \in AllOwn(frames) : Alive(store, o)
  BY <1>1 DEF Sound, ProtectedOnes, Alive
<1>3. \A o \in Stacked(store) \cup {store.last} : o # Null => Alive(store, o)
  <2>1. Stacked(store) \subseteq Obj /\ store.last \in Ptr
    BY <1>1, StackedFact, StoreParts
  <2> QED
    BY <1>1, <2>1 DEF Sound, HeldAlive, Held, Ptr
<1>4. /\ \A i \in DOMAIN frames : frames[i].prev # Null => Alive(store, frames[i].prev)
      /\ \A d \in DOMAIN anon : anon[d] # Null => Alive(store, anon[d])
  BY <1>1, OutsideAlive
<1>5. \A i \in DOMAIN frames : frames[i].sys # Null => Alive(store, frames[i].sys)
  <2> SUFFICES ASSUME NEW i \in DOMAIN frames, frames[i].sys # Null
               PROVE  Alive(store, frames[i].sys)
    OBVIOUS
  <2>1. i = Len(frames)
    BY DEF IInv, Inv, Framed, OnlyLastDefines
  <2>2. store.kind[frames[i].sys] = "sys"
    BY <2>1 DEF IInv, Inv, Defined
  <2> QED
    BY <2>2 DEF Alive
<1>6. RunningRecords \subseteq AllOwn(frames)
      /\ \A i \in DOMAIN frames : frames[i].model \in AllOwn(frames)
  BY RunningRecordsIs
<1> QED
  BY <1>2, <1>3, <1>4, <1>5, <1>6 DEF NoDangling, Pointers

\* The places that Holders counts are those of Inside and of Outside.
LEMMA IInvCountsExact == ASSUME IInv PROVE CountsExact
<1> SUFFICES ASSUME NEW o \in Obj, Alive(store, o), o \notin store.prot
             PROVE  store.refs[o] = Holders(o)
  BY DEF CountsExact
<1> DEFINE X == Outside(frames, anon)
           E == {e \in store.stack : e.ptr = o}
<1>1. /\ Sound(store, X) /\ store \in Stores /\ frames \in Seq(Frames)
      /\ anon \in [1 .. MaxDepth -> Ptr]
  BY StateFacts DEF IInv, Inv
<1>2. store.refs[o] = Inside(store, o) + X[o]
  BY <1>1 DEF Sound, Exact
<1>3. X[o] = Prevs(frames, o) + Anons(anon, o) /\ Prevs(frames, o) \in Nat /\ Anons(anon, o) \in Nat
  BY <1>1, OutsideType
<1>4. Cardinality(E) = IF o \in Stacked(store) THEN 1 ELSE 0
  <2>1. CASE o \in Stacked(store)
    <3>1. PICK e \in store.stack : e.ptr = o
      BY <2>1 DEF Stacked
    <3>2. E = {e}
      BY <1>1, <3>1 DEF Sound, Once
    <3> QED
      BY <2>1, <3>2, FS_Singleton
  <2>2. CASE o \notin Stacked(store)
    <3>1. E = {}
      BY <2>2 DEF Stacked
    <3> QED
      BY <2>2, <3>1, FS_EmptySet
  <2> QED
    BY <2>1, <2>2
<1>5. Holders(o) = (IF store.last = o THEN 1 ELSE 0) + Cardinality(E)
                   + Prevs(frames, o) + Anons(anon, o)
  BY DEF Holders, Prevs, Anons
<1> HIDE DEF E, X
<1> QED
  BY <1>2, <1>3, <1>4, <1>5 DEF Inside

\* Only the start of a loop and the end of an outer one move currloop.
LEMMA CurrloopMoves ==
  ASSUME [Next]_vars PROVE currloop' \in {currloop, 0, Depth}
<1>1. Models => currloop' = currloop
  BY DEF Models, EstimateModel, EstimateNamed, EstimateVAR, EstimateNamedVAR
<1>2. Systems => currloop' = currloop
  BY DEF Systems, Equation, BadSystemLine, EndShortSystem, DropSystem, EndInconsistentSystem,
         EndSystem, EndAndEstimateSystem, StartSystem, StartUnnamedSystem, EstimateSystem
<1>3. Calls => currloop' = currloop
  BY DEF Calls, Return, CallFunction
<1>4. LoopSteps => currloop' \in {currloop, 0, Depth}
  <2>1. EndLoop => currloop' \in {currloop, 0}
    BY DEF EndLoop
  <2> QED
    BY <2>1 DEF LoopSteps, StartOuterLoop, StartInnerLoop, LoopStarts, EstimateOnNewLine,
                EstimateOnSameLine
<1>5. Removals => currloop' = currloop
  BY DEF Removals, ClearData, DropLastModel, FreeNamed
<1>6. UNCHANGED vars => currloop' = currloop
  BY DEF vars
<1> QED
  BY <1>1, <1>2, <1>3, <1>4, <1>5, <1>6 DEF Next

\* TypeOK: the store, the unnamed systems and the frames keep their shape.
THEOREM TypeCorrect == ASSUME Kept PROVE Spec => []TypeOK
<1> DEFINE C == currloop \in 0 .. MaxDepth
<1>1. Init => C
  BY DepthAssumption DEF Init
<1>2. IInv /\ C /\ [Next]_vars => C'
  <2> SUFFICES ASSUME IInv, C, [Next]_vars PROVE C'
    OBVIOUS
  <2>1. currloop' \in {currloop, 0, Depth}
    BY CurrloopMoves
  <2>2. Depth \in 1 .. MaxDepth /\ MaxDepth \in Nat
    BY StateFacts, DepthAssumption
  <2> QED
    BY <2>1, <2>2
<1>3. IInv /\ C => TypeOK
  BY StateFacts DEF TypeOK, Depth
<1> QED
  BY <1>1, <1>2, <1>3, Inductive, PTL DEF Spec

\* NoDangling: whatever objstack.c, the frames, the loops and the unnamed systems
\* point at is allocated, after any sequence of commands.
THEOREM NothingDangles == ASSUME Kept PROVE Spec => []NoDangling
<1>1. IInv => NoDangling
  BY IInvNoDangling
<1> QED
  BY <1>1, Inductive, PTL

\* CountsExact: the count an object carries is the number of places that hold
\* it, so gretl_object_unref frees it with the last one.
THEOREM CountsAreExact == ASSUME Kept PROVE Spec => []CountsExact
<1>1. IInv => CountsExact
  BY IInvCountsExact
<1> QED
  BY <1>1, Inductive, PTL

\* NamesDesignate: real_stack_object never leaves two objects of one kind under
\* one name.
THEOREM NamesAreUnique == ASSUME Kept PROVE Spec => []NamesDesignate
<1>1. IInv => NamesDesignate
  BY DEF IInv, Inv, Sound, Names, NamesDesignate
<1> QED
  BY <1>1, Inductive, PTL

\* ProtectionEnds: the list of protected models is the working models and the
\* records of running loops, so gretl_exec_state_clear and gretl_loop_exec take
\* every protection back.
THEOREM ProtectionIsExact == ASSUME Kept PROVE Spec => []ProtectionEnds
<1>1. IInv => ProtectionEnds
  BY RunningRecordsIs DEF IInv, Inv, ProtectionEnds
<1> QED
  BY <1>1, Inductive, PTL

\* Only a return takes a frame away, and what it leaves is the last model the
\* caller had.
LEMMA FramesShrink ==
  ASSUME IInv, [Next]_vars, Len(frames') < Len(frames)
  PROVE  store'.last = Top.prev
<1>1. /\ frames \in Seq(Frames) /\ Len(frames) \in Nat /\ Depth \in DOMAIN frames
  BY StateFacts DEF Depth
<1>2. frames' # frames
  BY <1>1
<1>3. \A g : ~SetTop(g)
  <2> SUFFICES ASSUME NEW g, SetTop(g) PROVE FALSE
    OBVIOUS
  <2>1. Len(frames') = Len(frames)
    BY <1>1 DEF SetTop
  <2> QED
    BY <1>1, <2>1
<1>4. \A o \in Obj : ~CallFunction(o)
  <2> SUFFICES ASSUME NEW o \in Obj, CallFunction(o) PROVE FALSE
    OBVIOUS
  <2>1. Len(frames') = Len(frames) + 1
    BY <1>1 DEF CallFunction
  <2> QED
    BY <1>1, <2>1
<1>5. ~Models /\ ~Removals
  BY <1>2 DEF Models, Removals, EstimateModel, EstimateNamed, EstimateVAR,
              EstimateNamedVAR, ClearData, DropLastModel, FreeNamed
<1>6. ~Systems
  BY <1>2, <1>3 DEF Systems, Equation, BadSystemLine, EndShortSystem, DropSystem,
       EndInconsistentSystem, EndSystem, EndAndEstimateSystem, StartSystem,
       StartUnnamedSystem, EstimateSystem
<1>7. ~LoopSteps
  BY <1>2, <1>3 DEF LoopSteps, StartOuterLoop, StartInnerLoop, LoopStarts,
       EstimateOnNewLine, EstimateOnSameLine, EndLoop
<1>8. Return
  BY <1>2, <1>4, <1>5, <1>6, <1>7 DEF Next, Calls, vars
<1> QED
  BY <1>8, StepReturn

\* CallerKeepsLast: a function that returns leaves the last model of its caller
\* as it was at the call.
THEOREM CallerGetsItsModelBack == ASSUME Kept PROVE Spec => CallerKeepsLast
<1>1. IInv /\ [Next]_vars => [Len(frames') < Len(frames) => store'.last = Top.prev]_vars
  BY FramesShrink
<1> QED
  BY <1>1, Inductive, PTL DEF Spec, CallerKeepsLast

----------------------------------------------------------------------------
(* What the steps lose: nothing, unless a fault is admitted.               *)

\* The innermost frame after a step.
LEMMA TopAfter ==
  ASSUME IInv
  PROVE  /\ frames' = frames => Top' = Top
         /\ \A g : SetTop(g) => Top' = g
         /\ \A s : SetTop([Top EXCEPT !.sys = s]) => Top'.sys = s
<1>1. frames \in Seq(Frames) /\ Depth \in DOMAIN frames /\ Top \in Frames
  BY StateFacts
<1>2. frames' = frames => Top' = Top
  BY DEF Top, Depth
<1>3. ASSUME NEW g, SetTop(g) PROVE Top' = g
  <2>1. frames' = [frames EXCEPT ![Len(frames)] = g]
    BY <1>3 DEF SetTop, Depth
  <2>2. Len(frames') = Len(frames) /\ frames'[Len(frames)] = g
    BY <1>1, <2>1 DEF Depth
  <2> QED
    BY <2>2 DEF Top, Depth
<1>4. \A s : [Top EXCEPT !.sys = s].sys = s
  BY <1>1 DEF Frames
<1> QED
  BY <1>2, <1>3, <1>4

\* An innermost frame that defines nothing.
LEMMA TidyModels ==
  ASSUME IInv, Kept, Tidy(store, Top.sys), Models PROVE Tidy(store', Top'.sys)
<1> DEFINE X == Outside(frames, anon)
<1>1. /\ X \in Counts /\ Sound(store, X) /\ store \in Stores
      /\ Top.model \in Obj /\ Alive(store, Top.model) /\ store.kind[Top.model] = "eqn"
  BY StateFacts, TopOwn DEF IInv, Inv, Alive
<1>2. Top.sys = Null /\ frames' = frames /\ Tidy(store, Null)
  BY DEF Models, EstimateModel, EstimateNamed, EstimateVAR, EstimateNamedVAR, Ready
<1>3. Top'.sys = Null
  BY <1>2, TopAfter
<1> HIDE DEF X
<1>4. CASE EstimateModel
  <2>1. store' = SetLast(store, Top.model)
    BY <1>4 DEF EstimateModel
  <2>2. Tidy(SetLast(store, Top.model), Null)
    BY <1>1, <1>2, TidySetLast DEF Ptr
  <2> QED
    BY <1>3, <2>1, <2>2
<1>5. ASSUME NEW o \in Obj, EstimateVAR(o) PROVE Tidy(store', Null)
  <2> DEFINE m1 == New(store, o, "var")
  <2>1. ~Alive(store, o) /\ store' = SetLast(m1, o)
    BY <1>5 DEF EstimateVAR, Unused, Alive
  <2>2. /\ Sound(m1, X) /\ m1.kind[o] = "var" /\ Tidy(m1, o)
    BY <1>1, <1>2, <2>1, SoundNew, NewParts, TidyNew DEF Kind
  <2> HIDE DEF m1
  <2>3. o \in Ptr /\ o # Null /\ Alive(m1, o) /\ m1.kind[o] # "sys"
    BY <2>2, NullAssumption DEF Ptr, Alive
  <2>4. Tidy(SetLast(m1, o), Null)
    BY <1>1, <2>2, <2>3, TidySetLast
  <2> QED
    BY <2>1, <2>4
<1>6. ASSUME NEW o \in Obj, NEW n \in Name, EstimateNamedVAR(n, o) PROVE Tidy(store', Null)
  <2> DEFINE m1 == New(store, o, "var")
             m2 == SetLast(m1, o)
  <2>1. ~Alive(store, o) /\ store' = StackAs(m2, o, n)
    BY <1>6 DEF EstimateNamedVAR, Unused, Alive
  <2>2. /\ Sound(m1, X) /\ m1.kind[o] = "var" /\ Tidy(m1, o)
    BY <1>1, <1>2, <2>1, SoundNew, NewParts, TidyNew DEF Kind
  <2> HIDE DEF m1
  <2>3. o \in Ptr /\ o # Null /\ Alive(m1, o) /\ m1.kind[o] # "sys"
    BY <2>2, NullAssumption DEF Ptr, Alive
  <2>4. Tidy(m2, Null) /\ Sound(m2, X) /\ Keeps(m2, m1) /\ Alive(m2, o)
    BY <1>1, <2>2, <2>3, TidySetLast, SoundSetLast
  <2>5. m2.kind[o] # "sys"
    BY <2>3, <2>4 DEF Keeps
  <2> HIDE DEF m2
  <2>6. Tidy(StackAs(m2, o, n), Null)
    BY <1>1, <2>4, <2>5, TidyStackAs
  <2> QED
    BY <2>1, <2>6
<1>7. ASSUME NEW o \in Obj, NEW n \in Name, EstimateNamed(n, o) PROVE Tidy(store', Null)
  <2> DEFINE m1 == New(store, o, "eqn")
             m2 == StackAs(m1, o, n)
  <2>1. ~Alive(store, o) /\ store' = SetLast(m2, o)
    BY <1>7 DEF EstimateNamed, Unused, Alive
  <2>0. o \notin store.listed
    BY <1>7 DEF EstimateNamed, Kept
  <2>2. /\ Sound(m1, X) /\ m1.kind[o] = "eqn" /\ m1.prot = store.prot /\ Tidy(m1, o)
    BY <1>1, <1>2, <2>0, <2>1, SoundNew, NewParts, TidyNew DEF Kind
  <2>3. o \notin store.prot
    BY <1>1, <2>1, UnusedFacts
  <2> HIDE DEF m1
  <2>4. o \in Ptr /\ o # Null /\ Alive(m1, o) /\ m1.kind[o] # "sys"
    BY <2>2, NullAssumption DEF Ptr, Alive
  <2>5. Tidy(m2, Null)
    BY <1>1, <2>2, <2>4, TidyStackAs
  <2>6. Sound(m2, X) /\ Keeps(m2, m1) /\ Alive(m2, o)
    BY <1>1, <2>2, <2>3, <2>4, SoundStackAs
  <2>7. m2.kind[o] # "sys"
    BY <2>4, <2>6 DEF Keeps
  <2> HIDE DEF m2
  <2>8. Tidy(SetLast(m2, o), Null)
    BY <1>1, <2>4, <2>5, <2>6, <2>7, TidySetLast
  <2> QED
    BY <2>1, <2>8
<1> QED
  BY <1>3, <1>4, <1>5, <1>6, <1>7 DEF Models

\* The system whose block is over is stacked, or is the unnamed one.
LEMMA TidySaved ==
  ASSUME IInv, NEW n \in Name, Top.sys # Null, store.eqns[Top.sys] = 2,
         Tidy(store, Top.sys)
  PROVE  Tidy(Saved(n), Null)
<1> DEFINE s == Top.sys
           X == Outside(frames, anon)
<1>1. /\ s \in Obj /\ Alive(store, s) /\ X[s] = (IF Unnamed THEN 1 ELSE 0)
      /\ store.refs[s] = X[s]
  BY DefiningFacts DEF Alive
<1>2. X \in Counts /\ Sound(store, X) /\ store.eqns[s] > 0
  BY StateFacts DEF IInv, Inv
<1>3. CASE Unnamed
  <2>1. store.refs[s] > 0
    BY <1>1, <1>3
  <2>2. Tidy(store, Null)
    BY <1>2, <2>1 DEF Tidy
  <2> QED
    BY <1>3, <2>2 DEF Saved
<1>4. CASE ~Unnamed
  <2> HIDE DEF X
  <2>1. Tidy(StackAs(store, s, n), Null)
    BY <1>1, <1>2, TidyStackAs
  <2> QED
    BY <1>4, <2>1 DEF Saved
<1> QED
  BY <1>3, <1>4

\* A system just started is the one object without a reference.
LEMMA TidyNewSystem ==
  ASSUME IInv, Tidy(store, Top.sys), NEW o \in Obj, StartSystem(o) \/ StartUnnamedSystem(o)
  PROVE  Tidy(store', Top'.sys)
<1> DEFINE X == Outside(frames, anon)
           m1 == New(store, o, "sys")
           old == anon[Depth]
<1>1. /\ X \in Counts /\ Sound(store, X) /\ store \in Stores /\ ~Alive(store, o)
      /\ Tidy(store, Null) /\ frames \in Seq(Frames) /\ anon \in [1 .. MaxDepth -> Ptr]
      /\ Depth \in DOMAIN anon /\ SetTop([Top EXCEPT !.sys = o])
  BY StateFacts DEF IInv, Inv, StartSystem, StartUnnamedSystem, Ready, Unused, Alive
<1>2. Top'.sys = o
  BY <1>1, TopAfter
<1>3. Tidy(m1, o) /\ Sound(m1, X) /\ m1 \in Stores /\ ProtectedOnes(m1)
  BY <1>1, TidyNew, SoundNew, NewParts DEF Kind, Sound
<1>4. CASE StartSystem(o)
  BY <1>2, <1>3, <1>4 DEF StartSystem
<1>5. CASE StartUnnamedSystem(o)
  <2> DEFINE m2 == Unref(m1, old)
  <2>1. store' = Ref(m2, o)
    BY <1>5 DEF StartUnnamedSystem
  <2>2. old \in Ptr /\ (old # Null => X[old] > 0 /\ Alive(store, old))
    BY <1>1, OutsideAlive
  <2>3. old # o
    BY <1>1, <2>2, NullAssumption
  <2> HIDE DEF m1, X, old
  <2>4. old # Null /\ old \notin m1.prot => Alive(m1, old) /\ m1.refs[old] > 0
    BY <1>1, <1>3, <2>2, HeldCounted DEF Held, Ptr
  <2>5. LET u == UnrefFor(m1, old, FALSE) IN u \in Stores /\ Tidy(u, o)
    BY <1>3, <2>2, <2>4, TidyUnref
  <2>6. m2 \in Stores /\ Tidy(m2, o)
    BY <2>5 DEF Unref
  <2> HIDE DEF m2
  <2>7. SameBut(Ref(m2, o), m2, o) /\ Ref(m2, o).prot = m2.prot
    BY <2>6, RefParts
  <2>8. Tidy(Ref(m2, o), o)
    BY <2>6, <2>7 DEF Tidy, SameBut, Alive
  <2> QED
    BY <1>2, <2>1, <2>8
<1> QED
  BY <1>4, <1>5

\* The steps of a system block. A block that is left without a fault frees its
\* system or leaves it held.
LEMMA TidySystems ==
  ASSUME Faults = {}, IInv, Tidy(store, Top.sys), Systems PROVE Tidy(store', Top'.sys)
<1> DEFINE X == Outside(frames, anon)
           s == Top.sys
<1>1. X \in Counts /\ Sound(store, X) /\ store \in Stores
  BY StateFacts DEF IInv, Inv
<1>2. CASE Equation
  <2>1. s \in Obj /\ Top' = Top /\ store' = [store EXCEPT !.eqns[s] = @ + 1]
    BY <1>2, DefiningFacts, TopAfter DEF Equation
  <2> HIDE DEF s
  <2>2. /\ store'.kind = store.kind /\ store'.refs = store.refs /\ store'.prot = store.prot
        /\ \A p \in Obj : p # s => store'.eqns[p] = store.eqns[p]
    <3>1. store.eqns \in [Obj -> 0 .. 2]
      BY <1>1, StoreParts
    <3>2. store' = [store EXCEPT !.eqns = [store.eqns EXCEPT ![s] = @ + 1]]
      BY <2>1
    <3> QED
      BY <1>1, <3>1, <3>2 DEF Stores
  <2>3. Tidy(store, s)
    BY DEF s
  <2>4. Tidy(store', s)
    BY <2>2, <2>3 DEF Tidy, Alive
  <2> QED
    BY <2>1, <2>4 DEF s
<1>3. CASE BadSystemLine \/ EndShortSystem
  <2>1. /\ s # Null /\ store.eqns[s] # 0 /\ ~Unnamed
        /\ store' = Free(store, {s}) /\ SetTop([Top EXCEPT !.sys = Null])
    <3>1. s # Null /\ store.eqns[s] \in 0 .. 2
      BY <1>1, <1>3, DefiningFacts, StoreParts DEF BadSystemLine, EndShortSystem, DropSystem
    <3> QED
      BY <1>3, <3>1 DEF BadSystemLine, EndShortSystem, DropSystem
  <2>2. /\ s \in Obj /\ store.kind[s] = "sys" /\ store.refs[s] = 0 /\ store.eqns[s] \in 0 .. 2
    BY <1>1, <2>1, DefiningFacts, StoreParts
  <2>3. Gone(store, s)
    BY <2>1, <2>2 DEF Gone
  <2>4. Top'.sys = Null
    BY <2>1, TopAfter
  <2>5. Tidy(store', s)
    BY <1>1, <2>1, TidyFree
  <2> HIDE DEF s
  <2>6. store'.kind[s] = "none"
    <3>1. \A p \in Obj : p \in {s} /\ Gone(store, p) => Free(store, {s}).kind[p] = "none"
      BY <1>1, FreeParts
    <3> QED
      BY <2>1, <2>2, <2>3, <3>1
  <2>7. Tidy(store', Null)
    BY <2>5, <2>6 DEF Tidy, Alive
  <2> QED
    BY <2>4, <2>7 DEF s
<1>4. CASE EndInconsistentSystem
  <2>1. s # Null /\ store.eqns[s] = 2 /\ Unnamed /\ store' = store
        /\ SetTop([Top EXCEPT !.sys = Null])
    BY <1>4 DEF EndInconsistentSystem
  <2>2. store.refs[s] = 1
    BY <2>1, DefiningFacts
  <2>3. store.refs[s] > 0 /\ store.eqns[s] > 0
    BY <2>1, <2>2
  <2>4. Tidy(store, Null)
    BY <2>3 DEF Tidy
  <2> QED
    BY <2>1, <2>4, TopAfter
<1>5. ASSUME NEW n \in Name, EndSystem(n) PROVE Tidy(store', Top'.sys)
  <2>1. /\ s # Null /\ store.eqns[s] = 2 /\ store' = Saved(n)
        /\ SetTop([Top EXCEPT !.sys = Null])
    BY <1>5 DEF EndSystem
  <2>2. Tidy(Saved(n), Null)
    BY <2>1, TidySaved
  <2> QED
    BY <2>1, <2>2, TopAfter
<1>6. ASSUME NEW n \in Name, EndAndEstimateSystem(n) PROVE Tidy(store', Top'.sys)
  <2> DEFINE m1 == Saved(n)
  <2>1. /\ s # Null /\ store.eqns[s] = 2 /\ store' = SetLast(m1, s)
        /\ SetTop([Top EXCEPT !.sys = Null])
    BY <1>6 DEF EndAndEstimateSystem
  <2>2. Tidy(m1, Null) /\ Sound(m1, X) /\ Alive(m1, s) /\ m1.eqns[s] = 2 /\ s \in Ptr
    BY <2>1, TidySaved, SavedSound, DefiningFacts DEF Ptr
  <2>3. m1.eqns[s] > 0
    BY <2>2
  <2> HIDE DEF m1, X, s
  <2>4. Tidy(SetLast(m1, s), Null)
    BY <1>1, <2>2, <2>3, TidySetLast
  <2> QED
    BY <2>1, <2>4, TopAfter
<1>7. ASSUME NEW o \in Obj, EstimateSystem(o) PROVE Tidy(store', Top'.sys)
  <2>1. /\ Top.sys = Null /\ store' = SetLast(store, o) /\ frames' = frames
        /\ Alive(store, o) /\ store.eqns[o] > 0
    BY <1>7 DEF EstimateSystem, Ready, Alive
  <2>2. Tidy(SetLast(store, o), Null)
    BY <1>1, <2>1, TidySetLast DEF Ptr
  <2> QED
    BY <2>1, <2>2, TopAfter
<1> QED
  BY <1>2, <1>3, <1>4, <1>5, <1>6, <1>7, TidyNewSystem DEF Systems

\* Calls and returns. A return in the middle of a block leaves its system to the
\* depth that ends, which lets it go.
LEMMA TidyCalls ==
  ASSUME Faults = {}, IInv, Tidy(store, Top.sys), Calls PROVE Tidy(store', Top'.sys)
<1>1. ASSUME NEW o \in Obj, CallFunction(o) PROVE Tidy(store', Top'.sys)
  <2>1. Top.sys = Null /\ frames' = Append(frames, Frame(o, store.last))
    BY <1>1 DEF CallFunction, Ready
  <2>2. frames' [Len(frames')] = Frame(o, store.last)
    <3>1. /\ Len(frames') = Len(frames) + 1
          /\ frames'[Len(frames) + 1] = Frame(o, store.last)
      BY <2>1, StateFacts
    <3> QED
      BY <3>1
  <2>3. Top'.sys = Null
    BY <2>2 DEF Top, Depth, Frame
  <2> QED
    BY <1>1, <2>1, <2>3, StepCallFunction
<1>2. CASE Return
  <2>1. Top'.sys = Null
    BY <1>2, FramedReturn DEF Return, IInv, Inv, Top, Depth
  <2>2. Tidy(store, Null)
    <3>1. CASE Top.sys = Null
      BY <3>1
    <3>2. CASE Top.sys # Null
      <4>1. Unnamed /\ store.eqns[Top.sys] > 0
        BY <1>2, <3>2 DEF Return
      <4>2. store.refs[Top.sys] = 1
        BY <3>2, <4>1, DefiningFacts
      <4>3. store.refs[Top.sys] > 0
        BY <4>2
      <4> QED
        BY <4>1, <4>3 DEF Tidy
    <3> QED
      BY <3>1, <3>2
  <2> QED
    BY <1>2, <2>1, <2>2, StepReturn
<1> QED
  BY <1>1, <1>2 DEF Calls

\* The steps of loops.
LEMMA TidyLoops ==
  ASSUME IInv, Tidy(store, Top.sys), LoopSteps PROVE Tidy(store', Top'.sys)
<1> DEFINE X == Outside(frames, anon)
<1>1. /\ X \in Counts /\ Sound(store, X) /\ store \in Stores /\ Top \in Frames
      /\ Top.loops \in [1 .. 2 -> Loops]
  BY StateFacts, TopLoops DEF IInv, Inv
<1>2. Top.sys = Null
  BY DEF LoopSteps, StartOuterLoop, StartInnerLoop, EstimateOnNewLine,
         EstimateOnSameLine, EndLoop, Ready
<1>3. Top'.sys = Null
  <2>1. \A v : [Top EXCEPT !.loops = v].sys = Null
    BY <1>1, <1>2 DEF Frames
  <2>2. frames' = frames \/ \E v : SetTop([Top EXCEPT !.loops = v])
    <3>1. CASE EstimateOnSameLine
      BY <3>1 DEF EstimateOnSameLine
    <3>2. CASE EndLoop
      BY <3>2 DEF EndLoop
    <3>3. ASSUME NEW o \in Obj, EstimateOnNewLine(o)
          PROVE  \E v : SetTop([Top EXCEPT !.loops = v])
      BY <3>3 DEF EstimateOnNewLine
    <3>4. ASSUME NEW p \in BOOLEAN, NEW f \in BOOLEAN,
                 StartOuterLoop(p, f) \/ StartInnerLoop(p, f)
          PROVE  \E v : SetTop([Top EXCEPT !.loops = v])
      BY <3>4 DEF StartOuterLoop, StartInnerLoop, LoopStarts
    <3> QED
      BY <3>1, <3>2, <3>3, <3>4 DEF LoopSteps
  <2> QED
    BY <1>2, <2>1, <2>2, TopAfter
<1> HIDE DEF X
<1>4. CASE EndLoop
  BY <1>2, <1>3, <1>4, EndLoopStore
<1>5. CASE EstimateOnSameLine
  <2>1. PICK i \in DOMAIN Top.loops[Innermost].records :
            store' = SetLast(store, Top.loops[Innermost].records[i])
    BY <1>5 DEF EstimateOnSameLine
  <2> DEFINE o == Top.loops[Innermost].records[i]
  <2>2. o \in Records(Top.loops[Innermost])
    BY DEF Records
  <2>3. o \in Own(Top)
    BY <1>5, <2>2, TopLoops DEF EstimateOnSameLine
  <2>4. store' = SetLast(store, o)
    BY <2>1
  <2> HIDE DEF o
  <2>5. o \in Obj /\ store.kind[o] = "eqn"
    BY <1>1, <2>3, OwnApart DEF Sound, ProtectedOnes
  <2>6. Tidy(SetLast(store, o), Null)
    BY <1>1, <1>2, <2>5, TidySetLast DEF Ptr, Alive
  <2> QED
    BY <1>3, <2>4, <2>6
<1>6. ASSUME NEW o \in Obj, EstimateOnNewLine(o) PROVE Tidy(store', Null)
  <2> DEFINE m0 == NewProtected(store, o)
             m1 == [m0 EXCEPT !.listed = IF currloop = Depth THEN @ \cup {o} ELSE @]
  <2>1. ~Alive(store, o) /\ store' = SetLast(m1, o)
    BY <1>6 DEF EstimateOnNewLine, Unused, Alive
  <2>2. Sound(m1, X) /\ m1.kind[o] = "eqn" /\ Tidy(m1, Null)
    BY <1>1, <1>2, <2>1, SoundNewRecord
  <2> HIDE DEF m1
  <2>3. Tidy(SetLast(m1, o), Null)
    BY <1>1, <2>2, TidySetLast DEF Ptr, Alive
  <2> QED
    BY <2>1, <2>3
<1>7. ASSUME NEW p \in BOOLEAN, NEW f \in BOOLEAN,
             StartOuterLoop(p, f) \/ StartInnerLoop(p, f)
      PROVE  Tidy(store', Null)
  <2>1. PICK L : store' = [store EXCEPT !.listed = L]
    BY <1>7 DEF StartOuterLoop, StartInnerLoop, LoopStarts
  <2>2. /\ store'.kind = store.kind /\ store'.refs = store.refs /\ store'.eqns = store.eqns
        /\ store'.prot = store.prot
    BY <1>1, <2>1 DEF Stores
  <2> QED
    BY <1>2, <2>2, TidySame
<1> QED
  BY <1>3, <1>4, <1>5, <1>6, <1>7 DEF LoopSteps

\* The commands that take objects away.
LEMMA TidyRemovals ==
  ASSUME IInv, Tidy(store, Top.sys), Removals PROVE Tidy(store', Top'.sys)
<1> DEFINE X == Outside(frames, anon)
<1>1. X \in Counts /\ Sound(store, X) /\ store \in Stores
  BY StateFacts DEF IInv, Inv
<1>2. Top.sys = Null /\ frames' = frames
  BY DEF Removals, ClearData, DropLastModel, FreeNamed, Ready
<1>3. Top'.sys = Null /\ Tidy(store, Null)
  BY <1>2, TopAfter
<1> HIDE DEF X
<1>4. CASE ClearData
  BY <1>1, <1>3, <1>4, TidyCleanup DEF ClearData
<1>5. CASE DropLastModel
  BY <1>1, <1>3, <1>5, TidySetLast DEF DropLastModel, Ptr
<1>6. ASSUME NEW e \in store.stack, FreeNamed(e) PROVE Tidy(store', Null)
  <2>1. e.ptr \in Stacked(store) /\ e.ptr \in Obj
    BY <1>1, StackedFact
  <2>2. Tidy(RemoveFromStack(store, e.ptr), Null)
    BY <1>1, <1>3, <2>1, TidyRemove
  <2> QED
    BY <1>6, <2>2 DEF FreeNamed
<1> QED
  BY <1>3, <1>4, <1>5, <1>6 DEF Removals

\* At the start there is one model, protected.
LEMMA InitTidy == Init => Tidy(store, Top.sys)
<1> SUFFICES ASSUME Init PROVE Tidy(store, Top.sys)
  OBVIOUS
<1>1. PICK o \in Obj : store = NewProtected(EmptyStore, o)
  BY DEF Init
<1>2. EmptyStore \in Stores /\ \A p \in Obj : EmptyStore.kind[p] = "none"
  BY DEF EmptyStore, Stores, Ptr
<1>3. Tidy(EmptyStore, Top.sys)
  BY <1>2 DEF Tidy, Alive
<1> QED
  BY <1>1, <1>2, <1>3, TidyNewProtected

\* Every step leaves the store tidy.
LEMMA NextTidy ==
  ASSUME Faults = {}, IInv, Tidy(store, Top.sys), [Next]_vars
  PROVE  Tidy(store', Top'.sys)
<1>1. CASE UNCHANGED vars
  BY <1>1 DEF vars, Top, Depth
<1> QED
  BY <1>1, TidyModels, TidySystems, TidyCalls, TidyLoops, TidyRemovals DEF Next, Kept

\* What is alive and cannot be reached would be counted by nobody.
LEMMA TidyNoneLost ==
  ASSUME IInv, Tidy(store, Top.sys) PROVE NoneLost
<1> SUFFICES ASSUME NEW o \in Obj, Alive(store, o) PROVE o \in Pointers
  BY DEF NoneLost
<1> DEFINE X == Outside(frames, anon)
<1>1. /\ X \in Counts /\ Sound(store, X) /\ frames \in Seq(Frames)
      /\ anon \in [1 .. MaxDepth -> Ptr] /\ store.prot = AllOwn(frames)
      /\ Depth \in DOMAIN frames /\ Top = frames[Depth]
  BY StateFacts DEF IInv, Inv
<1>2. CASE o \in store.prot
  BY <1>1, <1>2, RunningRecordsIs DEF Pointers
<1>3. CASE o = Top.sys
  BY <1>1, <1>3 DEF Pointers
<1>4. CASE o \notin store.prot /\ o # Top.sys
  <2>1. store.refs[o] > 0 /\ store.refs[o] = Inside(store, o) + X[o] /\ X[o] \in Nat
    BY <1>1, <1>4 DEF Tidy, Sound, Exact, Counts
  <2>2. store.last = o \/ o \in Stacked(store) \/ X[o] > 0
    <3> HIDE DEF X
    <3> QED
      BY <2>1 DEF Inside
  <2>3. X[o] > 0 => \/ \E i \in DOMAIN frames : frames[i].prev = o
                    \/ \E d \in DOMAIN anon : anon[d] = o
    BY <1>1, OutsideType
  <2> HIDE DEF X
  <2> QED
    BY <2>2, <2>3 DEF Pointers
<1> QED
  BY <1>2, <1>3, <1>4

\* NoneLost: every object allocated can still be reached, so none is leaked, as
\* long as no system block is left in one of the ways the faults stand for.
THEOREM NothingIsLost == ASSUME Faults = {} PROVE Spec => []NoneLost
<1> DEFINE J == IInv /\ Tidy(store, Top.sys)
<1>1. Init => J
  BY InitIInv, InitTidy
<1>2. J /\ [Next]_vars => J'
  BY NextIInv, NextTidy DEF Kept
<1>3. J => NoneLost
  BY TidyNoneLost
<1> HIDE DEF J
<1> QED
  BY <1>1, <1>2, <1>3, PTL DEF Spec
=============================================================================
