------------------------------- MODULE Calls --------------------------------
(***************************************************************************)
(* Arguments of user-defined functions (lib/src/gretl_func.c) and the      *)
(* stack of named variables they are found in (uservar.c, and for series   *)
(* the dataset).                                                           *)
(*                                                                         *)
(* There is one collection of variables.  A variable belongs to a level of *)
(* execution; a name is looked up among those of the current level.  An    *)
(* argument passed by reference is not copied: the caller's own variable   *)
(* is given the name of the parameter and moved one level up, and gets its *)
(* name and level back when the function returns.                          *)
(***************************************************************************)
EXTENDS Naturals, Sequences, FiniteSets, SequencesExt, FiniteSetsExt

CONSTANTS
    Names,
    Series,     \* the names that are used for series
    Funs,
    Params,     \* function -> its parameters: a sequence of names and modes
    None,       \* an argument without a name; no return value
    MaxVars,    \* bound on the number of variables
    MaxDepth,   \* bound on nested calls
    Faults      \* the disagreements with the documentation to admit

ASSUME CallsAssumption ==
    /\ Series \subseteq Names /\ None \notin Names
    /\ Params \in [Funs -> Seq([name : Names, mode : {"val", "const", "ref"}])]
    \* "duplicated parameter name"
    /\ \A f \in Funs : \A j, k \in DOMAIN Params[f] :
          Params[f][j].name = Params[f][k].name => j = k
    /\ MaxVars \in Nat /\ MaxDepth \in Nat
    \* shared   a recursive call changes what is constant for its callers
    \* twice    one variable is passed by reference to two parameters
    \* return   a function returns a parameter that is constant in this call only
    /\ Faults \subseteq {"shared", "twice", "return"}

VARIABLES
    uvars,      \* variable -> its name, level, value and what it is a shell of
    immut,      \* function -> for each parameter, whether it is immutable
    callstack   \* for each running function, what its call recorded

vars == <<uvars, immut, callstack>>

-----------------------------------------------------------------------------
(***************************************************************************)
(* Variables                                                               *)
(***************************************************************************)

\* A variable whose value has been taken away.
Gone == 2

Depth == Len(callstack)

Fresh(U) == Min((1 .. Cardinality(DOMAIN U) + 1) \ DOMAIN U)

\* of = 0: the variable owns its value; otherwise it is a shell for that of
\* another one.
Add(U, name, level, val, of) ==
    LET new == Fresh(U)
    IN  [v \in DOMAIN U \cup {new} |->
            IF v = new THEN [name |-> name, level |-> level, val |-> val, of |-> of]
            ELSE U[v]]

Without(U, gone) == [v \in DOMAIN U \ gone |-> U[v]]

\* In the main script series are looked up without regard to their level.
LookUp(U, name) ==
    {v \in DOMAIN U : /\ U[v].name = name
                      /\ U[v].level = Depth \/ (name \in Series /\ Depth = 0)}

Var(name) == Min(LookUp(uvars, name))

Exists(name) == LookUp(uvars, name) # {}

\* The variable that owns the value of v.
Cell(U, v) == IF U[v].of = 0 THEN v ELSE U[v].of

Lend(U, v, name) == [U EXCEPT ![v].level = @ + 1, ![v].name = name]

GiveBack(U, v, name) == [U EXCEPT ![v].level = @ - 1, ![v].name = name]

-----------------------------------------------------------------------------
(***************************************************************************)
(* What is constant.  The flags are attributes of the function, not of the *)
(* call: all calls of it that are under way share them.                    *)
(***************************************************************************)

Declared(f) == [k \in DOMAIN Params[f] |-> Params[f][k].mode = "const"]

ByRef(f, k) == Params[f][k].mode = "ref"

\* object_is_const() for a name of the function of call c
FlaggedIn(imm, c, name) ==
    \E k \in DOMAIN Params[c.fun] :
        Params[c.fun][k].name = name /\ imm[c.fun][k]

Flagged(imm, name) == Depth > 0 /\ FlaggedIn(imm, Last(callstack), name)

\* faulty: only what was declared constant.
ObjectIsDeclaredConst(name, v) ==
    Depth > 0 /\ FlaggedIn([f \in Funs |-> Declared(f)], Last(callstack), name)

\* A series that is not the function's own is constant unless it was moved.
ObjectIsConst(name, v) ==
    \/ Flagged(immut, name)
    \/ /\ Depth > 0 /\ name \in Series
       /\ v \in Last(callstack).orig \ Last(callstack).ptrvars

-----------------------------------------------------------------------------
(***************************************************************************)
(* Arguments.  a is a sequence of names, or None for a value without one;  *)
(* they have all been evaluated before the first is passed.                *)
(***************************************************************************)

Args(f) ==
    {a \in [DOMAIN Params[f] -> Names \cup {None}] :
        \A k \in DOMAIN a :
            IF a[k] = None THEN ~ByRef(f, k)
            ELSE /\ a[k] \in Series <=> Params[f][k].name \in Series
                 /\ Exists(a[k]) /\ uvars[Cell(uvars, Var(a[k]))].val # Gone}

\* One pointer argument given twice is noticed; other combinations are not.
DuplicatedPointer(f, a) ==
    \E j, k \in DOMAIN a : j # k /\ ByRef(f, j) /\ ByRef(f, k) /\ a[j] = a[k]

Unchecked(f) == [immut EXCEPT ![f] = Declared(f)]

\* State while arguments are passed; ok becomes FALSE when one is refused.
Passing(f) ==
    [uvars |-> uvars, immut |-> Unchecked(f), args |-> << >>, ptrvars |-> {},
     ok |-> TRUE]

NoArg == [var |-> 0, upname |-> None, shifted |-> FALSE]

\* By value, or a value without a name.
PassCopy(f, a, k, st) ==
    LET v == IF a[k] = None THEN 0 ELSE Var(a[k])
    IN  [st EXCEPT
            !.uvars = Add(@, Params[f][k].name, Depth + 1,
                          IF v = 0 THEN 0 ELSE uvars[Cell(uvars, v)].val, 0),
            !.args = Append(@, IF v = 0 THEN NoArg
                               ELSE [NoArg EXCEPT !.var = v, !.upname = a[k]])]

\* The caller's variable itself.
PassVariable(f, a, k, st) ==
    LET v == Var(a[k])
        arg == [var |-> v, upname |-> a[k], shifted |-> ~ByRef(f, k) /\ a[k] \notin Series]
    IN  [st EXCEPT
            !.uvars = Lend(@, v, Params[f][k].name),
            !.args = Append(@, arg),
            !.ptrvars = IF a[k] \in Series THEN @ \cup {v} ELSE @]

\* An object that is moved already: a shell, or no such variable.
PassAgain(f, a, k, st) ==
    LET v == Var(a[k])
    IN  IF ByRef(f, k) THEN [st EXCEPT !.ok = FALSE]
        ELSE [st EXCEPT
                !.uvars = Add(@, Params[f][k].name, Depth + 1, 0, Cell(uvars, v)),
                !.args = Append(@, [var |-> v, upname |-> a[k], shifted |-> FALSE])]

\* A parameter is immutable for the time of the call if its argument is.
PassArg(f, a, k, st) ==
    LET imm == [st.immut EXCEPT ![f][k] = @ \/ (a[k] # None /\ Flagged(st.immut, a[k]))]
        st1 == [st EXCEPT !.immut = imm]
        again == a[k] \notin Series /\ \E j \in 1 .. k - 1 :
                    st.args[j].var = Var(a[k]) /\ st.uvars[Var(a[k])].level # Depth
    IN  IF a[k] = None \/ ~(imm[f][k] \/ ByRef(f, k)) THEN PassCopy(f, a, k, st1)
        ELSE IF again THEN PassAgain(f, a, k, st1)
        ELSE PassVariable(f, a, k, st1)

\* The first k arguments passed.
Passed(f, a, k) ==
    LET st[j \in 0 .. k] == IF j = 0 THEN Passing(f)
                            ELSE IF st[j-1].ok THEN PassArg(f, a, j, st[j-1])
                            ELSE st[j-1]
    IN  st[k]

-----------------------------------------------------------------------------
(***************************************************************************)
(* Actions                                                                 *)
(***************************************************************************)

Init ==
    /\ uvars = << >>
    /\ immut = [f \in Funs |-> Declared(f)]
    /\ callstack = << >>

Running(f) == \E i \in DOMAIN callstack : callstack[i].fun = f

\* A call sets the flags before they are read: those of a function that is not
\* running are of no consequence, and kept here as they are declared.
Settled(imm, stack) ==
    [f \in Funs |-> IF \E i \in DOMAIN stack : stack[i].fun = f THEN imm[f]
                    ELSE Declared(f)]

\* What is constant for a call that is under way stays so, also while it passes
\* arguments to a call of the same function.
Shares(f, imm) ==
    \/ "shared" \in Faults
    \/ Running(f) => /\ imm[f] = immut[f]
                     /\ Last(callstack).fun = f => immut[f] = Declared(f)

\* A variable is passed by reference once, or as a constant object.
PassedOnce(f, a, imm) ==
    \/ "twice" \in Faults
    \/ \A j, k \in DOMAIN a :
          /\ j # k /\ a[j] = a[k] /\ a[j] # None
          /\ imm[f][j] \/ ByRef(f, j)
          /\ imm[f][k] \/ ByRef(f, k)
          => a[j] \notin Series /\ ~ByRef(f, j) /\ ~ByRef(f, k)

Call(f, a) ==
    /\ Depth < MaxDepth
    /\ ~DuplicatedPointer(f, a)
    /\ LET st == Passed(f, a, Len(a))
       IN  /\ st.ok
           /\ Shares(f, st.immut) /\ PassedOnce(f, a, st.immut)
           /\ uvars' = st.uvars /\ immut' = st.immut
           /\ Cardinality(DOMAIN uvars') <= MaxVars
           /\ callstack' = Append(callstack,
                [fun |-> f, args |-> st.args, ptrvars |-> st.ptrvars,
                 orig |-> {v \in DOMAIN uvars : uvars[v].name \in Series}])

\* A call that is refused changes nothing when the fault is seen in
\* check_function_args(), before the first argument is passed.  A refusal while
\* they are passed (an integer out of bounds, a variable moved already) is not
\* an action here.

Define(name) ==
    /\ ~Exists(name)
    /\ uvars' = Add(uvars, name, Depth, 0, 0)
    /\ Cardinality(DOMAIN uvars') <= MaxVars
    /\ UNCHANGED <<immut, callstack>>

Assign(name) ==
    /\ Exists(name)
    /\ LET v == Var(name)
           c == Cell(uvars, v)
       IN  /\ ~ObjectIsConst(name, v)
           /\ uvars[c].val # Gone
           /\ uvars' = [uvars EXCEPT ![c].val = 1 - @]
    /\ UNCHANGED <<immut, callstack>>

ObjectIsFunctionArg(name) ==
    Depth > 0 /\ \E k \in DOMAIN Params[Last(callstack).fun] :
                    Params[Last(callstack).fun][k].name = name

\* Objects only: a function deletes a series if told to with --force.
Delete(name) ==
    /\ name \notin Series
    /\ Exists(name) /\ ~ObjectIsFunctionArg(name)
    /\ uvars' = Without(uvars, {Var(name)})
    /\ UNCHANGED <<immut, callstack>>

-----------------------------------------------------------------------------
(***************************************************************************)
(* The end of a function, in good order or by an error                     *)
(***************************************************************************)

\* is_pointer_arg(): a parameter that is declared to be a pointer or constant
\* is returned as a copy.
IsPointerArg(c, name) ==
    \E k \in DOMAIN Params[c.fun] :
        Params[c.fun][k].name = name /\ (ByRef(c.fun, k) \/ Declared(c.fun)[k])

\* faulty: the value of a pointer is taken as well.
TakeAnyValue(c, name) ==
    IF name = None THEN uvars ELSE [uvars EXCEPT ![Cell(uvars, Var(name))].val = Gone]

\* Any other variable has its value taken.
TakeValue(c, name) ==
    IF name = None \/ IsPointerArg(c, name) THEN uvars
    ELSE [uvars EXCEPT ![Var(name)].val = Gone]

\* Which arguments go back: for a series that depends on the flag as it is now.
GoesBack(c, k) ==
    LET arg == c.args[k]
    IN  IF ByRef(c.fun, k) \/ arg.upname \notin Series
        THEN ByRef(c.fun, k) \/ arg.shifted
        ELSE immut[c.fun][k]

ArgsGivenBack(c, U) ==
    LET st[k \in 0 .. Len(c.args)] ==
            IF k = 0 THEN U
            ELSE IF GoesBack(c, k)
                 THEN GiveBack(st[k-1], c.args[k].var, c.args[k].upname)
                 ELSE st[k-1]
    IN  st[Len(c.args)]

\* faulty: series stay.
ClearedObjects(c, U) ==
    Without(U, {v \in DOMAIN U : U[v].level = Depth /\ U[v].name \notin Series})

\* stop_fncall(): what is left at the level of the function goes, but not a
\* series that was there before.
Cleared(c, U) ==
    LET left == {v \in DOMAIN U : U[v].level = Depth}
    IN  Without(U, {v \in left : U[v].name \in Series => v \notin c.orig})

\* series_ensure_level_zero()
BackInMain(U) ==
    IF Depth > 1 THEN U
    ELSE [v \in DOMAIN U |-> IF U[v].name \in Series THEN [U[v] EXCEPT !.level = 0]
                             ELSE U[v]]

Return(name) ==
    /\ Depth > 0
    /\ LET c == Last(callstack)
       IN  /\ name # None =>
                /\ Exists(name) /\ uvars[Cell(uvars, Var(name))].val # Gone
                /\ \/ "return" \in Faults
                   \/ IsPointerArg(c, name) \/ ~Flagged(immut, name)
           /\ uvars' = BackInMain(Cleared(c, ArgsGivenBack(c, TakeValue(c, name))))
    /\ callstack' = Front(callstack)
    /\ immut' = Settled(immut, callstack')

Next ==
    \/ \E f \in Funs : \E a \in Args(f) : Call(f, a)
    \/ \E n \in Names : Define(n) \/ Assign(n) \/ Delete(n)
    \/ \E n \in Names \cup {None} : Return(n)

Spec == Init /\ [][Next]_vars

-----------------------------------------------------------------------------
(***************************************************************************)
(* Properties                                                              *)
(***************************************************************************)

TypeOK ==
    /\ DOMAIN uvars \subseteq 1 .. MaxVars
    /\ \A v \in DOMAIN uvars :
          /\ uvars[v].name \in Names /\ uvars[v].level \in 0 .. Depth
          /\ uvars[v].val \in 0 .. 1
          /\ uvars[v].of # 0 => uvars[v].of \in DOMAIN uvars
    /\ \A f \in Funs : immut[f] \in [DOMAIN Params[f] -> BOOLEAN]
    /\ Depth <= MaxDepth

\* A name designates one variable at each level: what a function makes under a
\* name does not hide what comes back under it, and nothing is left behind.
OneOfEachName ==
    \A v, w \in DOMAIN uvars :
        v # w => uvars[v].name # uvars[w].name \/ uvars[v].level # uvars[w].level

\* The arguments of call c that are variables of its caller.
Lent(c) ==
    {k \in DOMAIN c.args :
        IF c.args[k].upname \in Series THEN c.args[k].var \in c.ptrvars
        ELSE c.args[k].upname # None /\ (ByRef(c.fun, k) \/ c.args[k].shifted)}

\* The variables of level i and their names there, those that are lent included.
NamesAt(i) ==
    {<<uvars[v].name, v>> : v \in {w \in DOMAIN uvars : uvars[w].level = i}} \cup
    IF i = Depth THEN {}
    ELSE {<<callstack[i+1].args[k].upname, callstack[i+1].args[k].var>> :
             k \in Lent(callstack[i+1])}

Scope(i) ==
    LET at == NamesAt(i)
    IN  [n \in {nv[1] : nv \in at} |->
            [cell |-> Cell(uvars, (CHOOSE nv \in at : nv[1] = n)[2]),
             const |-> i > 0 /\ FlaggedIn(immut, callstack[i], n)]]

ScopesOf == [i \in 1 .. Depth + 1 |-> Scope(i - 1)]

ValueOf ==
    [c \in {Cell(uvars, v) : v \in DOMAIN uvars} |-> uvars[c].val]

S == INSTANCE Scopes WITH
        scopes <- ScopesOf, value <- ValueOf, Cells <- 1 .. MaxVars,
        Values <- 0 .. 1

\* Renaming variables and moving them between levels implements scopes.
ImplementsScopes == S!Spec
=============================================================================
