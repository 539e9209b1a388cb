---------------------------- MODULE ObjectStore ----------------------------
(***************************************************************************)
(* The store of estimated models of lib/src/objstack.c: the last model,    *)
(* the stack of saved objects, the list of protected models, and the       *)
(* objects they point at.  An object is a single-equation model (MODEL),   *)
(* a VAR (GRETL_VAR) or an equation system; each carries a count of its    *)
(* references and is freed when the count gives out.  The routines of the  *)
(* file call one another, so each is an operator from stores to stores;    *)
(* SavedObjects says which commands call them.                             *)
(*                                                                         *)
(* The stack is an array of pointers; here it is the set of its entries,   *)
(* each with the kind and the name it was saved under.  Its order decides  *)
(* only which of two objects of different kinds that share a name is       *)
(* found; SavedObjects takes either.                                       *)
(***************************************************************************)
EXTENDS Integers

CONSTANTS Obj,            \* the addresses at which an object may be allocated
          Name            \* the names a script saves objects under

Null == "null"

ASSUME NullAssumption == Null \notin Obj

Kind == {"eqn", "var", "sys"}

Ptr == Obj \cup {Null}

Entries == [ptr : Obj, kind : Kind, name : Name]

\* kind[o] = "none": nothing is allocated at o.  eqns[o]: the number of
\* equations of a system, 2 standing for any number of at least two.  prot:
\* the list of protected models.  listed: the addresses on the lists of models
\* of the loop that currloop points at and of the loops around it.
Stores == [kind : [Obj -> Kind \cup {"none"}], refs : [Obj -> Nat],
           eqns : [Obj -> 0 .. 2], prot : SUBSET Obj, listed : SUBSET Obj,
           last : Ptr, stack : SUBSET Entries]

EmptyStore == [kind |-> [o \in Obj |-> "none"], refs |-> [o \in Obj |-> 0],
               eqns |-> [o \in Obj |-> 0], prot |-> {}, listed |-> {},
               last |-> Null, stack |-> {}]

Alive(m, o) == m.kind[o] # "none"

Stacked(m) == {e.ptr : e \in m.stack}

\* model_is_protected, with model_is_in_loop: an address is looked up, whether
\* or not the model there is the one that was put on the list.
Protected(m, o) == m.kind[o] = "eqn" /\ (o \in m.prot \/ o \in m.listed)

----------------------------------------------------------------------------
(* Allocation.  A new object has no reference yet: gretl_model_init,       *)
(* equation_system_new and the VAR constructors set the count to zero.     *)
New(m, o, k) == [m EXCEPT !.kind[o] = k, !.refs[o] = 0, !.eqns[o] = 0]

\* allocate_working_model; the model record of a loop is made in the same way.
NewProtected(m, o) == [New(m, o, "eqn") EXCEPT !.prot = @ \cup {o}]

(* gretl_object_ref.  The count of a protected model is never read and is  *)
(* reset whenever the model is estimated again, so it is not kept.         *)
Ref(m, o) == IF o \in m.prot THEN m ELSE [m EXCEPT !.refs[o] = @ + 1]

(* gretl_model_free frees whatever the count; gretl_VAR_free and           *)
(* equation_system_destroy take one reference off and free when none is    *)
(* left, the latter doing nothing at all to a system without equations.    *)
GoneOnlyAtZero(m, o) ==                            \* faulty: != 0 for > 0
    \/ m.kind[o] = "eqn" /\ o \notin m.prot
    \/ m.kind[o] = "var" /\ m.refs[o] = 1
    \/ m.kind[o] = "sys" /\ m.refs[o] = 1 /\ m.eqns[o] > 0

Gone(m, o) == \/ m.kind[o] = "eqn" /\ o \notin m.prot
              \/ m.kind[o] = "var" /\ m.refs[o] <= 1
              \/ m.kind[o] = "sys" /\ m.refs[o] <= 1 /\ m.eqns[o] > 0

Counted(m, o) == \/ m.kind[o] = "var"
                 \/ m.kind[o] = "sys" /\ m.eqns[o] > 0

Free(m, S) ==
    [m EXCEPT !.kind = [o \in Obj |-> IF o \in S /\ Gone(m, o) THEN "none" ELSE @[o]],
              !.refs = [o \in Obj |-> IF o \notin S THEN @[o]
                                      ELSE IF Gone(m, o) THEN 0
                                      ELSE IF Counted(m, o) THEN @[o] - 1
                                      ELSE @[o]],
              !.eqns = [o \in Obj |-> IF o \in S /\ Gone(m, o) THEN 0 ELSE @[o]]]

----------------------------------------------------------------------------
\* gretl_object_unstack, UNSTACK_REMOVE.
OffStack(m, o) == [m EXCEPT !.stack = {e \in @ : e.ptr # o}]

\* gretl_object_destroy.  While an entry is being replaced (unstack_replace)
\* the entry stays for its new occupant.
Destroy(m, o, replacing) ==
    LET m1 == [m EXCEPT !.last = IF @ = o THEN Null ELSE @]
    IN  Free(IF replacing THEN m1 ELSE OffStack(m1, o), {o})

\* gretl_object_unref: a protected model is left alone.
UnrefForLate(m, o, replacing) ==                   \* faulty: < for <=
    IF o = Null \/ Protected(m, o) THEN m
    ELSE LET m1 == [m EXCEPT !.refs[o] = @ - 1]
         IN  IF m1.refs[o] < 0 THEN Destroy(m1, o, replacing) ELSE m1

UnrefFor(m, o, replacing) ==
    IF o = Null \/ Protected(m, o) THEN m
    ELSE LET m1 == [m EXCEPT !.refs[o] = @ - 1]
         IN  IF m1.refs[o] <= 0 THEN Destroy(m1, o, replacing) ELSE m1

Unref(m, o) == UnrefFor(m, o, FALSE)

SetLastAgain(m, o) ==                              \* faulty: counts twice
    LET m1 == [(IF m.last # o THEN Unref(m, m.last) ELSE m) EXCEPT !.last = o]
    IN  IF o = Null THEN m1 ELSE Ref(m1, o)

\* set_as_last_model.
SetLast(m, o) ==
    LET m1 == IF m.last # o THEN Unref(m, m.last) ELSE m
    IN  IF m1.last = o THEN m1
        ELSE LET m2 == [m1 EXCEPT !.last = o]
             IN  IF o = Null THEN m2 ELSE Ref(m2, o)

\* real_stack_object: an object saved under a name of its kind already in use
\* takes the place of the one that has it.
StackAsAppended(m, o, n) ==                        \* faulty: never replaces
    IF o \in Stacked(m) THEN m
    ELSE Ref([m EXCEPT !.stack = @ \cup {[ptr |-> o, kind |-> m.kind[o], name |-> n]}], o)

StackAs(m, o, n) ==
    LET orig == {e \in m.stack : e.kind = m.kind[o] /\ e.name = n}
        m1 == IF orig = {} THEN m
              ELSE UnrefFor(m, (CHOOSE e \in orig : TRUE).ptr, TRUE)
        slot == [ptr |-> o, kind |-> m.kind[o], name |-> n]
    IN  IF o \in Stacked(m) THEN m
        ELSE Ref([m1 EXCEPT !.stack = (@ \ orig) \cup {slot}], o)

\* gretl_object_remove_from_stack.
RemoveFromStack(m, o) == Unref(OffStack(m, o), o)

(* gretl_saved_objects_cleanup.  The reference of the last model is        *)
(* dropped when it is also stacked; every stacked object is freed, unless  *)
(* it is protected (saved_object_free); so is a last model that is not     *)
(* stacked.                                                                *)
SavedObjectsCleanup(m) ==
    LET both == m.last \in Stacked(m)
        m1 == IF both THEN [Unref(m, m.last) EXCEPT !.last = Null] ELSE m
        saved == {o \in Stacked(m) : ~Protected(m1, o)}
        m2 == [Free(m1, saved) EXCEPT !.stack = {}]
    IN  IF m2.last = Null THEN m2
        ELSE IF Protected(m2, m2.last) THEN [m2 EXCEPT !.last = Null]
        ELSE [Free(m2, {m2.last}) EXCEPT !.last = Null]

\* destroy_working_model, which takes the model off the list of protected
\* ones and off every place of the store, then frees it.
DestroyWorkingModel(m, o) ==
    LET m1 == [OffStack(m, o) EXCEPT !.last = IF @ = o THEN Null ELSE @,
                                     !.prot = @ \ {o}]
    IN  Free(m1, {o})
=============================================================================
