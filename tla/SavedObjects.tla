---------------------------- MODULE SavedObjects ----------------------------
(***************************************************************************)
(* Who keeps estimated models alive while a script runs.                   *)
(*                                                                         *)
(* Each running function (and the main script) has an ExecState with a     *)
(* working model of its own, the last model of its caller, put out of      *)
(* sight until it returns, and the equation system being defined.  A       *)
(* running loop keeps a model record for each "ols --print-final" in it.   *)
(* One unnamed equation system is kept for each depth of function calls.   *)
(* All of them, and the store of ObjectStore, point at the same objects.   *)
(*                                                                         *)
(* Estimation itself is left out: that a command estimates a model and     *)
(* succeeds is all that matters here.  A command that fails changes        *)
(* nothing but the contents of the working model and is not an action.     *)
(***************************************************************************)
EXTENDS ObjectStore, Sequences, FiniteSets

CONSTANTS MaxDepth,        \* the deepest nesting of function calls, plus one
          MaxLoops,        \* the deepest nesting of loops in one frame, up to 2
          MaxRecords,      \* lines with --print-final in one loop
          Faults           \* the disagreements with the documentation to admit

ASSUME DepthAssumption == MaxDepth \in Nat \ {0} /\ MaxLoops \in 0 .. 2
\* lost     a system is out of reach and not freed
\* unnamed  an unnamed system is freed and still listed
\* stale    a loop starts with the records of an earlier run
\* reused   a model is saved at an address a finished loop still lists
ASSUME FaultsAssumption == Faults \subseteq {"lost", "unnamed", "stale", "reused"}

VARIABLES store,           \* objstack.c
          anon,            \* sysstack: the unnamed system of each depth
          frames,          \* the ExecStates, innermost last
          currloop         \* the frame whose loop currloop is, 0 for none

vars == <<store, anon, frames, currloop>>

Loops == [on : BOOLEAN, failed : BOOLEAN, prog : BOOLEAN, records : Seq(Obj)]

Frames == [model : Obj, prev : Ptr, sys : Ptr, loops : [1 .. 2 -> Loops]]

TypeOK == /\ store \in Stores
          /\ anon \in [1 .. MaxDepth -> Ptr]
          /\ frames \in Seq(Frames)
          /\ Len(frames) \in 1 .. MaxDepth
         /\ currloop \in 0 .. MaxDepth

----------------------------------------------------------------------------
(* A frame runs an outer loop (1) and in it an inner one (2), which may be *)
(* run once for each iteration of the outer.                               *)
NoLoop == [on |-> FALSE, failed |-> FALSE, prog |-> FALSE, records |-> <<>>]

Frame(o, last) == [model |-> o, prev |-> last, sys |-> Null,
                   loops |-> [l \in 1 .. 2 |-> NoLoop]]

Depth == Len(frames)

Top == frames[Depth]

SetTop(f) == frames' = [frames EXCEPT ![Depth] = f]

Unused(o) == store.kind[o] = "none"

\* Inside a "system" block every line goes to the block; a loop whose first
\* line failed goes straight to its end.
Ready == Top.sys = Null /\ \A l \in 1 .. 2 : ~Top.loops[l].failed

Looping == Top.loops[1].on

Innermost == IF Top.loops[2].on THEN 2 ELSE 1

Init == /\ \E o \in Obj : /\ store = NewProtected(EmptyStore, o)
                          /\ frames = <<Frame(o, Null)>>
        /\ anon = [d \in 1 .. MaxDepth |-> Null]
        /\ currloop = 0

----------------------------------------------------------------------------
(* Single-equation models, in the working model of the frame.              *)

\* print_save_model, for a command without a name: the working model becomes
\* the last model.
EstimateModel ==
    /\ Ready
    /\ store' = SetLast(store, Top.model)
    /\ UNCHANGED <<anon, frames, currloop>>

\* print_save_model, for "name <- command": a copy is stacked under the name
\* and becomes the last model.
EstimateNamed(n, cpy) ==
    /\ Ready /\ Unused(cpy) /\ (cpy \in store.listed => "reused" \in Faults)
    /\ store' = SetLast(StackAs(New(store, cpy, "eqn"), cpy, n), cpy)
    /\ UNCHANGED <<anon, frames, currloop>>

(* VARs: maybe_stack_var, for a command with a name or without one.        *)
EstimateVAR(var) ==
    /\ Ready /\ Unused(var)
    /\ store' = SetLast(New(store, var, "var"), var)
    /\ UNCHANGED <<anon, frames, currloop>>

EstimateNamedVAR(n, var) ==
    /\ Ready /\ Unused(var)
    /\ store' = StackAs(SetLast(New(store, var, "var"), var), var, n)
    /\ UNCHANGED <<anon, frames, currloop>>

----------------------------------------------------------------------------
(* Equation systems.  The name a system is to be saved under is chosen     *)
(* when its block starts and used when it ends.                            *)

StartSystem(sys) ==
    /\ Ready /\ Unused(sys)
    /\ store' = New(store, sys, "sys")
    /\ SetTop([Top EXCEPT !.sys = sys])
    /\ UNCHANGED <<anon, currloop>>

\* equation_system_start without a name: push_anon_system puts the system in
\* the place of the unnamed one of the same depth.
StartUnnamedSystem(sys) ==
    /\ Ready /\ Unused(sys)
    /\ store' = Ref(Unref(New(store, sys, "sys"), anon[Depth]), sys)
    /\ anon' = [anon EXCEPT ![Depth] = sys]
    /\ SetTop([Top EXCEPT !.sys = sys])
    /\ UNCHANGED currloop

Unnamed == anon[Depth] = Top.sys

\* equation_system_append.
Equation ==
    /\ Top.sys # Null /\ store.eqns[Top.sys] < 2
    /\ store' = [store EXCEPT !.eqns[Top.sys] = @ + 1]
    /\ UNCHANGED <<anon, frames, currloop>>

\* equation_system_destroy, of the system being defined.
DropSystem ==
    /\ Top.sys # Null
    /\ store.eqns[Top.sys] = 0 => "lost" \in Faults
    /\ (Unnamed /\ store.eqns[Top.sys] > 0) => "unnamed" \in Faults
    /\ store' = Free(store, {Top.sys})
    /\ SetTop([Top EXCEPT !.sys = Null])
    /\ UNCHANGED <<anon, currloop>>

\* system_parse_line or equation_system_append_multi fails.
BadSystemLine == DropSystem

\* equation_system_finalize: too few equations.
EndShortSystem == Top.sys # Null /\ store.eqns[Top.sys] < 2 /\ DropSystem

\* equation_system_finalize: sys_check_lists finds the system inconsistent.
EndInconsistentSystem ==
    /\ Top.sys # Null /\ store.eqns[Top.sys] = 2
    /\ Unnamed \/ "lost" \in Faults
    /\ SetTop([Top EXCEPT !.sys = Null])
    /\ UNCHANGED <<store, anon, currloop>>

Saved(n) == IF Unnamed THEN store ELSE StackAs(store, Top.sys, n)

\* equation_system_finalize, for a system without an estimation method or
\* whose estimation fails, and for one that is estimated at once.
EndSystem(n) ==
    /\ Top.sys # Null /\ store.eqns[Top.sys] = 2
    /\ store' = Saved(n)
    /\ SetTop([Top EXCEPT !.sys = Null])
    /\ UNCHANGED <<anon, currloop>>

EndAndEstimateSystem(n) ==
    /\ Top.sys # Null /\ store.eqns[Top.sys] = 2
    /\ store' = SetLast(Saved(n), Top.sys)
    /\ SetTop([Top EXCEPT !.sys = Null])
    /\ UNCHANGED <<anon, currloop>>

\* estimate_named_system: a saved system, the last model, or the unnamed
\* system of this depth.
EstimateSystem(sys) ==
    /\ Ready
    /\ sys \in Stacked(store) \cup {store.last, anon[Depth]} /\ sys # Null
    /\ store.kind[sys] = "sys" /\ store.eqns[sys] = 2
    /\ store' = SetLast(store, sys)
    /\ UNCHANGED <<anon, frames, currloop>>

----------------------------------------------------------------------------
(* Functions.                                                              *)

\* gretl_function_exec and gretl_exec_state_init.
CallFunction(o) ==
    /\ Ready /\ Unused(o) /\ Depth < MaxDepth
    /\ LET m1 == NewProtected(store, o)
       IN  store' = IF store.last = Null THEN m1
                    ELSE SetLast(Ref(m1, store.last), Null)
    /\ frames' = Append(frames, Frame(o, store.last))
    /\ UNCHANGED <<anon, currloop>>

\* gretl_exec_state_clear: the last model of the caller is put back, the
\* reference that kept it is dropped and the working model is destroyed.
ExecStateClearEarly(m, f) ==                       \* faulty: unref comes first
    DestroyWorkingModel(SetLast(Unref(m, f.prev), f.prev), f.model)

ExecStateClearSome(m, f) ==                        \* faulty: no model, no restore
    DestroyWorkingModel(IF f.prev = Null THEN m ELSE Unref(SetLast(m, f.prev), f.prev),
                        f.model)

ExecStateClear(m, f) ==
    DestroyWorkingModel(Unref(SetLast(m, f.prev), f.prev), f.model)

\* The end of gretl_function_exec, which may leave a system unfinished;
\* stop_fncall then deletes the unnamed system of this depth.
Return ==
    /\ Depth > 1 /\ ~Looping
    /\ Top.sys # Null => "lost" \in Faults \/ (Unnamed /\ store.eqns[Top.sys] > 0)
    /\ store' = Unref(ExecStateClear(store, Top), anon[Depth])
    /\ anon' = [anon EXCEPT ![Depth] = Null]
    /\ frames' = SubSeq(frames, 1, Depth - 1)
    /\ UNCHANGED currloop

----------------------------------------------------------------------------
(* Loops.                                                                  *)

Records(loop) == {loop.records[i] : i \in DOMAIN loop.records}

\* gretl_loop_exec, top_of_loop: unless it fails, the list of records of an
\* earlier run is emptied, except in a progressive loop.  The loop becomes
\* currloop, the loop around it its parent.
LoopStarts(l, prog, failed) ==
    LET loop == Top.loops[l]
        kept == IF prog \/ failed THEN loop.records ELSE <<>>
        started == [Top EXCEPT !.loops[l] = [on |-> TRUE, failed |-> failed,
                                             prog |-> l = 2 /\ prog, records |-> kept]]
    IN  /\ l <= MaxLoops /\ ("stale" \in Faults \/ kept = <<>>)
        /\ SetTop(started)
        /\ store' = [store EXCEPT !.listed = UNION {Records(started.loops[k]) : k \in 1 .. l}]
        /\ currloop' = Depth
        /\ UNCHANGED anon

StartOuterLoop(prog, failed) ==
    Ready /\ ~Looping /\ LoopStarts(1, prog, failed)

\* Whether a loop is progressive is settled once, when it is compiled; it
\* matters again only to a loop that is run again.
StartInnerLoop(prog, failed) ==
    /\ Ready /\ Looping /\ ~Top.loops[2].on
    /\ Top.loops[2] = NoLoop \/ Top.loops[2].prog = prog
    /\ LoopStarts(2, prog, failed)

\* model_command_post_process: the working model is swapped with the record
\* of this line, made by get_model_record_by_line at its first execution.
EstimateOnNewLine(o) ==
    LET l == Innermost
        rs == Top.loops[l].records
    IN  /\ Ready /\ Looping /\ Unused(o) /\ Len(rs) < MaxRecords
        /\ LET m == NewProtected(store, o)
           IN  store' = SetLast([m EXCEPT !.listed = IF currloop = Depth THEN @ \cup {o}
                                                     ELSE @], o)
        /\ SetTop([Top EXCEPT !.loops[l].records = Append(rs, o)])
        /\ UNCHANGED <<anon, currloop>>

EstimateOnSameLine ==
    /\ Ready /\ Looping
    /\ \E i \in DOMAIN Top.loops[Innermost].records :
           store' = SetLast(store, Top.loops[Innermost].records[i])
    /\ UNCHANGED <<anon, frames, currloop>>

\* The end of gretl_loop_exec: the contents of the latest record pass to the
\* working model, which becomes the last model; the records are unprotected
\* and freed, their list left as it is.
LoopModelsFreedProtected(m, model, loop) ==        \* faulty: no unprotect
    LET last == IF m.last \in Records(loop) THEN SetLast(m, model) ELSE m
    IN  Free(last, Records(loop))

LoopModelsFreed(m, model, loop) ==
    LET swapped == /\ loop.records # <<>> /\ m.last \notin {Null, model}
                   /\ m.kind[m.last] = "eqn"
        m1 == IF swapped THEN SetLast(m, model) ELSE m
    IN  Free([m1 EXCEPT !.prot = @ \ Records(loop)], Records(loop))

\* The outermost loop is destroyed with the loops it contains, and currloop is
\* reset, though a caller may be running a loop; the end of an inner loop
\* leaves currloop, and its list, as they are.
EndLoop ==
    LET l == Innermost
        ended == [Top.loops[l] EXCEPT !.on = FALSE, !.failed = FALSE]
        freed == LoopModelsFreed(store, Top.model, Top.loops[l])
    IN  /\ Looping /\ Top.sys = Null
        /\ store' = IF l = 1 THEN [freed EXCEPT !.listed = {}] ELSE freed
        /\ currloop' = IF l = 1 THEN 0 ELSE currloop
        /\ SetTop([Top EXCEPT !.loops = IF l = 1 THEN [i \in 1 .. 2 |-> NoLoop]
                                        ELSE [@ EXCEPT ![2] = ended]])
        /\ UNCHANGED anon

----------------------------------------------------------------------------
(* Commands that take objects away; none is accepted inside a function.    *)

\* "name.free" on the command line of gretlcli.
FreeNamed(e) ==
    /\ Depth = 1 /\ Ready /\ ~Looping
    /\ store' = RemoveFromStack(store, e.ptr)
    /\ UNCHANGED <<anon, frames, currloop>>

InFunction == Depth > 1

\* "clear", and "open" of a data file: lib_clear_data.
ClearData ==
    /\ ~InFunction /\ Ready
    /\ store' = SavedObjectsCleanup(store)
    /\ UNCHANGED <<anon, frames, currloop>>

\* "smpl --permanent" drops a last model estimated on other observations.
DropLastModel ==
    /\ ~InFunction /\ Ready /\ store.last # Null
    /\ store.kind[store.last] = "eqn"
    /\ store' = SetLast(store, Null)
    /\ UNCHANGED <<anon, frames, currloop>>

----------------------------------------------------------------------------
Models == \/ EstimateModel
          \/ \E o \in Obj : EstimateVAR(o)
          \/ \E o \in Obj, n \in Name : EstimateNamed(n, o) \/ EstimateNamedVAR(n, o)

Systems == \/ Equation \/ BadSystemLine \/ EndShortSystem \/ EndInconsistentSystem
           \/ \E n \in Name : EndSystem(n) \/ EndAndEstimateSystem(n)
           \/ \E o \in Obj : \/ StartSystem(o) \/ StartUnnamedSystem(o)
                             \/ EstimateSystem(o)

Calls == Return \/ \E o \in Obj : CallFunction(o)

LoopSteps == \/ \E p, f \in BOOLEAN : StartOuterLoop(p, f) \/ StartInnerLoop(p, f)
             \/ \E o \in Obj : EstimateOnNewLine(o)
             \/ EstimateOnSameLine \/ EndLoop

Removals == ClearData \/ DropLastModel \/ \E e \in store.stack : FreeNamed(e)

Next == Models \/ Systems \/ Calls \/ LoopSteps \/ Removals

Spec == Init /\ [][Next]_vars

----------------------------------------------------------------------------
(* The places that keep a counted reference to an object.                  *)
Holders(o) == (IF store.last = o THEN 1 ELSE 0)
              + Cardinality({e \in store.stack : e.ptr = o})
              + Cardinality({i \in DOMAIN frames : frames[i].prev = o})
              + Cardinality({d \in DOMAIN anon : anon[d] = o})

RunningRecords ==
    UNION {UNION {Records(frames[i].loops[l]) : l \in {k \in 1 .. 2 : frames[i].loops[k].on}}
           : i \in DOMAIN frames}

Pointers == {store.last} \cup Stacked(store) \cup RunningRecords
            \cup {anon[d] : d \in DOMAIN anon}
            \cup UNION {{frames[i].model, frames[i].prev, frames[i].sys} : i \in DOMAIN frames}

\* Nothing the program may follow points at an object that was freed: not the
\* last model, a saved object, a model a caller gets back, an unnamed system,
\* nor a record of a running loop.
NoDangling == \A o \in Pointers \ {Null} : Alive(store, o)

\* The count of an object is the number of places that refer to it, so it is
\* freed by the last one to let it go, never earlier and never not at all.
CountsExact == \A o \in Obj : /\ Alive(store, o) /\ o \notin store.prot
                              => store.refs[o] = Holders(o)

\* Every object allocated can still be reached: a working model, a record of
\* a running loop, a system being defined, or one with a counted reference.
NoneLost == \A o \in Obj : Alive(store, o) => o \in Pointers

\* The protected models are the working models and the records of the running
\* loops: a protection left behind would make a freed address immortal.
ProtectionEnds == store.prot = RunningRecords \cup {frames[i].model : i \in DOMAIN frames}

\* Among objects of one kind a name designates one saved object.
NamesDesignate == \A e, f \in store.stack :
                      (e.kind = f.kind /\ e.name = f.name) => e = f

\* exec_state_init: "executing a function should not change the 'last model'
\* state at caller level": whatever it does, the last model after it returns
\* is the one there was when it was called.
CallerKeepsLast == [][Len(frames') < Len(frames) => store'.last = Top.prev]_vars
=============================================================================
