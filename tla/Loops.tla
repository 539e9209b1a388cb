------------------------------- MODULE Loops -------------------------------
(***************************************************************************)
(* How loops are read and run (lib/src/monte_carlo.c), by scripts          *)
(* (execute_script() of gui/library.c), functions (gretl_function_exec()   *)
(* of lib/src/gretl_func.c) and scripts run from within functions          *)
(* (run_script() of lib/src/interact.c).                                   *)
(*                                                                         *)
(* The lines of a loop are stored until its endloop and then executed.     *)
(* Loops in loops are separate structures tied by pointers.  What is being *)
(* stored, and whether it is complete, is in three static variables that   *)
(* every script, function and loop uses.                                   *)
(***************************************************************************)
EXTENDS Naturals, Sequences, FiniteSets, SequencesExt, FiniteSetsExt, Functions

CONSTANTS
    MaxLoops,   \* bound on the structures allocated at one time
    MaxCmds,    \* bound on the lines of a loop
    MaxReaders, \* bound on the scripts and functions being executed
    Faults      \* what else the programs read may do

ASSUME LoopsAssumption ==
    /\ {MaxLoops, MaxCmds, MaxReaders} \subseteq Nat
    \* unbalanced   a function ends inside a loop
    \* unparsed     a line of a loop in a function cannot be tokenized
    \* run          a script run from within a function has loops
    \* renaming     a loop that renames series calls functions with loops
    /\ Faults \subseteq {"unbalanced", "unparsed", "run", "renaming"}

VARIABLES
    loops,          \* the structures allocated, by address
    currloop,       \* the loop being stored or executed
    compile_level,  \* the loops begun and not ended
    loop_execute,   \* a loop is complete and waits to be executed
    loop_renaming,  \* series have to be looked up by name
    looping,        \* the function depths at which a loop is executed
    acts,           \* the scripts, functions and loops under execution
    err             \* an error on its way up through them

compiler == <<currloop, compile_level, loop_execute>>
flags    == <<loop_renaming, looping>>
vars     == <<loops, currloop, compile_level, loop_execute, loop_renaming,
              looping, acts, err>>

-----------------------------------------------------------------------------
(***************************************************************************)
(* Structures.                                                             *)
(***************************************************************************)

NULL == 0

Address == 1 .. MaxLoops

\* A line of a loop: a command, which may be "break" or call a function; a
\* "rename"; or the first line of a loop inside.
Op == {"stmt", "rename", "loop"}

LoopSet == [parent : Address \cup {NULL}, level : Nat, parent_line : Nat,
            cmds : Seq(Op), children : Seq(Address), renaming : BOOLEAN]

Live == DOMAIN loops

gretl_loop_init == [parent |-> NULL, level |-> 0, parent_line |-> 0,
                    cmds |-> << >>, children |-> << >>, renaming |-> FALSE]

\* faulty: the line of the child is that of the line before.
ChildOfLineBefore(loop) ==
    [gretl_loop_init EXCEPT !.parent      = loop,
                            !.level       = loops[loop].level + 1,
                            !.parent_line = Len(loops[loop].cmds)]

\* loop_attach_child(): the new structure, one level below its parent.
ChildOf(loop) ==
    [gretl_loop_init EXCEPT !.parent      = loop,
                            !.level       = loops[loop].level + 1,
                            !.parent_line = Len(loops[loop].cmds) + 1]

\* real_append_line()
Stored(loop, op) ==
    [loops[loop] EXCEPT !.cmds     = Append(@, op),
                        !.renaming = @ \/ op = "rename"]

\* gretl_loop_new(): a structure at an address that none has.
Allocated(new, loop, structures) ==
    [l \in DOMAIN structures \cup {new} |-> IF l = new THEN loop ELSE structures[l]]

\* The loops that gretl_loop_destroy() frees, by the pointers to children.
Family(loop) ==
    LET F[l \in Live] == {l} \cup UNION {F[c] : c \in Range(loops[l].children)}
    IN  F[loop]

Root(loop) ==
    LET R[l \in Live] == IF loops[l].parent = NULL THEN l ELSE R[loops[l].parent]
    IN  R[loop]

gretl_loop_destroy(loop) == loops' = Restrict(loops, Live \ Family(loop))

\* The child attached at a line of a loop, or none (get_child_loop_by_line()).
ChildAt(loop, j) ==
    {c \in Range(loops[loop].children) : loops[c].parent_line = j}

-----------------------------------------------------------------------------
(***************************************************************************)
(* What is under execution.  A script, a function or a script run by a     *)
(* function reads lines; a loop executes those stored: at = 0 before its   *)
(* condition is evaluated, otherwise the next line.                        *)
(***************************************************************************)

Activity ==
    [kind : {"script"}, comp0 : Nat] \cup [kind : {"func", "run"}]
      \cup [kind : {"loop"}, loop : Address, at : Nat]

Top == Last(acts)

depth == Cardinality({i \in DOMAIN acts : acts[i].kind = "func"})

Running == {i \in DOMAIN acts : acts[i].kind = "loop"}

Reading == acts # << >> /\ ~err /\ Top.kind # "loop"

Room == Len(acts) - Cardinality(Running) < MaxReaders

Push(a) == acts' = Append(acts, a)

Pop == acts' = Front(acts)

Goto(j) == acts' = [acts EXCEPT ![Len(acts)].at = j]

\* destroy_loop_stack()
DestroyStack(loop) ==
    IF loop = NULL
    THEN UNCHANGED <<loops, compile_level, loop_renaming, looping, currloop>>
    ELSE /\ gretl_loop_destroy(Root(loop))
         /\ compile_level' = 0
         /\ loop_renaming' = FALSE
         /\ looping' = looping \ {depth}
         /\ currloop' = NULL

-----------------------------------------------------------------------------
(***************************************************************************)
(* Reading lines.  While a loop is being stored every line goes to         *)
(* gretl_loop_append_line(), otherwise it is executed.  Scripts and        *)
(* functions look for a complete loop before the next line; a script run   *)
(* from within a function does not.                                        *)
(***************************************************************************)

NextLine == Reading /\ (loop_execute => Top.kind = "run")

Storing == NextLine /\ compile_level > 0

Executing == NextLine /\ compile_level = 0

\* The loops that the programs considered may begin.
MayBegin ==
    /\ NextLine
    /\ Top.kind = "run" => "run" \in Faults
    /\ (\E i \in Running : loops[acts[i].loop].renaming) => "renaming" \in Faults

Nested == currloop # NULL /\ compile_level > loops[currloop].level

\* start_new_loop(): a child of the current loop, or independent of it.
BeginLoop ==
    /\ MayBegin
    /\ Address \ Live # {}
    /\ LET new == Min(Address \ Live)
       IN  /\ currloop' = new
           /\ IF Nested
              THEN /\ Len(loops[currloop].cmds) < MaxCmds
                   /\ loops' = Allocated(new, ChildOf(currloop),
                                 [loops EXCEPT ![currloop] =
                                    [Stored(currloop, "loop") EXCEPT
                                       !.children = Append(@, new)]])
              ELSE loops' = Allocated(new, gretl_loop_init, loops)
    /\ compile_level' = compile_level + 1
    /\ UNCHANGED <<loop_execute, flags, acts, err>>

\* Its first line is in error: the new loop goes, with all those around it.
BeginFails ==
    /\ MayBegin
    /\ IF Nested THEN gretl_loop_destroy(Root(currloop)) ELSE UNCHANGED loops
    /\ compile_level' = 0
    /\ loop_renaming' = FALSE
    /\ looping' = looping \ {depth}
    /\ currloop' = NULL
    /\ err' = TRUE
    /\ UNCHANGED <<loop_execute, acts>>

\* faulty: the line goes to the outermost loop.
StoreLineOutermost ==
    /\ Storing
    /\ \E op \in {"stmt", "rename"} :
         /\ Len(loops[Root(currloop)].cmds) < MaxCmds
         /\ loops' = [loops EXCEPT ![Root(currloop)] = Stored(Root(currloop), op)]
    /\ UNCHANGED <<compiler, flags, acts, err>>

StoreLine ==
    /\ Storing
    /\ \E op \in {"stmt", "rename"} :
         IF currloop = NULL
         THEN UNCHANGED loops
         ELSE /\ Len(loops[currloop].cmds) < MaxCmds
              /\ loops' = [loops EXCEPT ![currloop] = Stored(currloop, op)]
    /\ UNCHANGED <<compiler, flags, acts, err>>

\* faulty: the loops are freed, and storing goes on.
RefusedStoring ==
    /\ Storing
    /\ gretl_loop_destroy(Root(currloop))
    /\ currloop' = NULL
    /\ err' = TRUE
    /\ UNCHANGED <<compile_level, loop_execute, flags, acts>>

\* A command not available in loops, or "end loop" for "endloop".
Refused ==
    /\ Storing
    /\ DestroyStack(currloop)
    /\ err' = TRUE
    /\ UNCHANGED <<loop_execute, acts>>

\* get_command_index() fails, and the loop being stored stays.
Unparsed ==
    /\ Storing
    /\ Top.kind = "script" \/ "unparsed" \in Faults
    /\ err' = TRUE
    /\ UNCHANGED <<loops, compiler, flags, acts>>

EndLoop ==
    /\ Storing
    /\ compile_level' = compile_level - 1
    /\ IF compile_level = 1
       THEN loop_execute' = TRUE /\ UNCHANGED currloop
       ELSE currloop' = loops[currloop].parent /\ UNCHANGED loop_execute
    /\ UNCHANGED <<loops, flags, acts, err>>

\* A line calls a function, or runs a script, or fails.
Call ==
    /\ Executing
    /\ Room
    /\ Push([kind |-> "func"])
    /\ UNCHANGED <<loops, compiler, flags, err>>

Run ==
    /\ Executing
    /\ Room
    /\ Push(IF Top.kind = "script"
            THEN [kind |-> "script", comp0 |-> compile_level]
            ELSE [kind |-> "run"])
    /\ UNCHANGED <<loops, compiler, flags, err>>

Fails ==
    /\ Executing
    /\ err' = TRUE
    /\ UNCHANGED <<loops, compiler, flags, acts>>

-----------------------------------------------------------------------------
(***************************************************************************)
(* Executing a loop: gretl_loop_exec().                                    *)
(***************************************************************************)

\* faulty: a loop inside may turn the renaming off again.
EnterAnew(loop) ==
    /\ currloop' = loop
    /\ looping' = looping \cup {depth}
    /\ loop_renaming' = loops[loop].renaming

\* faulty: the entry is that of the depth below.
EnterBelow(loop) ==
    /\ currloop' = loop
    /\ looping' = looping \cup {IF depth = 0 THEN 0 ELSE depth - 1}
    /\ loop_renaming' = (loop_renaming \/ loops[loop].renaming)

Enter(loop) ==
    /\ currloop' = loop
    /\ looping' = looping \cup {depth}
    /\ loop_renaming' = (loop_renaming \/ loops[loop].renaming)

\* The reader finds a complete loop: the current one.
RunLoop ==
    /\ Reading
    /\ Top.kind # "run"
    /\ loop_execute
    /\ loop_execute' = FALSE
    /\ IF currloop = NULL
       THEN /\ err' = TRUE
            /\ looping' = looping \ {depth}
            /\ UNCHANGED <<currloop, loop_renaming, acts>>
       ELSE /\ Enter(currloop)
            /\ Push([kind |-> "loop", loop |-> currloop, at |-> 0])
            /\ UNCHANGED err
    /\ UNCHANGED <<loops, compile_level>>

InLoop == acts # << >> /\ Top.kind = "loop" /\ ~err

Body == loops[Top.loop].cmds

AtLine(ops) == InLoop /\ Top.at \in DOMAIN Body /\ Body[Top.at] \in ops

\* The condition holds: another iteration.
Iterate ==
    /\ InLoop
    /\ Top.at = 0
    /\ Goto(1)
    /\ UNCHANGED <<loops, compiler, flags, err>>

LoopLine ==
    /\ AtLine({"stmt", "rename"})
    /\ Goto(Top.at + 1)
    /\ UNCHANGED <<loops, compiler, flags, err>>

\* A line, or the condition, calls a function or fails.
LoopCall ==
    /\ AtLine({"stmt"}) \/ (InLoop /\ Top.at = 0)
    /\ Room
    /\ acts' = Append([acts EXCEPT ![Len(acts)].at = IF @ = 0 THEN 0 ELSE @ + 1],
                      [kind |-> "func"])
    /\ UNCHANGED <<loops, compiler, flags, err>>

LoopFails ==
    /\ AtLine({"stmt", "rename"}) \/ (InLoop /\ Top.at = 0)
    /\ err' = TRUE
    /\ UNCHANGED <<loops, compiler, flags, acts>>

\* A line that begins a loop: the child attached there is executed.
InnerLoop ==
    /\ AtLine({"loop"})
    /\ \E child \in ChildAt(Top.loop, Top.at) :
         /\ Enter(child)
         /\ acts' = Append([acts EXCEPT ![Len(acts)].at = @ + 1],
                           [kind |-> "loop", loop |-> child, at |-> 0])
    /\ loop_execute' = FALSE
    /\ UNCHANGED <<loops, compile_level, err>>

EndOfBody ==
    /\ InLoop
    /\ Top.at = Len(Body) + 1
    /\ Goto(0)
    /\ UNCHANGED <<loops, compiler, flags, err>>

\* faulty: currloop is not reset.
LoopEndsDangling ==
    /\ acts # << >> /\ Top.kind = "loop"
    /\ err \/ Top.at = 0 \/ AtLine({"stmt"})
    /\ Pop
    /\ IF loops[Top.loop].parent = NULL
       THEN /\ loop_renaming' = FALSE
            /\ looping' = looping \ {depth}
            /\ gretl_loop_destroy(Top.loop)
       ELSE UNCHANGED <<loops, flags>>
    /\ UNCHANGED <<compiler, err>>

\* The condition fails, a line is "break", or there is an error.  The loop
\* that no other contains is freed: maybe_preserve_loop() never keeps it,
\* since loop_err_caught() sets the flag it should test.
LoopEnds ==
    /\ acts # << >> /\ Top.kind = "loop"
    /\ err \/ Top.at = 0 \/ AtLine({"stmt"})
    /\ Pop
    /\ IF loops[Top.loop].parent = NULL
       THEN /\ currloop' = NULL
            /\ loop_renaming' = FALSE
            /\ looping' = looping \ {depth}
            /\ gretl_loop_destroy(Top.loop)
       ELSE UNCHANGED <<loops, currloop, flags>>
    /\ UNCHANGED <<compile_level, loop_execute, err>>

-----------------------------------------------------------------------------
(***************************************************************************)
(* Ends of scripts and functions.                                          *)
(***************************************************************************)

Caller == acts[Len(acts) - 1]

\* The last line, or a return statement, or an error.  The line that called
\* may catch the error: in a loop always, elsewhere unless a loop is being
\* stored (process_command_error()).
Return ==
    /\ acts # << >> /\ Top.kind \in {"func", "run"}
    /\ IF err
       THEN err' \in IF Caller.kind = "loop" \/ compile_level = 0
                     THEN BOOLEAN ELSE {TRUE}
       ELSE /\ compile_level > 0 => "unbalanced" \in Faults
            /\ loop_execute => Top.kind = "run"
            /\ UNCHANGED err
    /\ Pop
    /\ UNCHANGED <<loops, compiler, flags>>

StartScript ==
    /\ acts = << >>
    /\ Push([kind |-> "script", comp0 |-> compile_level])
    /\ UNCHANGED <<loops, compiler, flags, err>>

\* execute_script() is at its end, or had an error, all of which are fatal.
EndScript ==
    /\ acts # << >> /\ Top.kind = "script"
    /\ err \/ ~loop_execute
    /\ Pop
    /\ IF compile_level # Top.comp0
       THEN DestroyStack(currloop)
       ELSE UNCHANGED <<loops, compile_level, currloop, flags>>
    /\ err' = (Len(acts) > 1 /\ (err \/ compile_level # Top.comp0))
    /\ UNCHANGED loop_execute

-----------------------------------------------------------------------------

Init ==
    /\ loops = << >>
    /\ currloop = NULL
    /\ compile_level = 0
    /\ loop_execute = FALSE
    /\ loop_renaming = FALSE
    /\ looping = {}
    /\ acts = << >>
    /\ err = FALSE

Next ==
    \/ StartScript \/ EndScript \/ Return
    \/ BeginLoop \/ BeginFails \/ StoreLine \/ Refused \/ Unparsed \/ EndLoop
    \/ Call \/ Run \/ Fails
    \/ RunLoop \/ Iterate \/ LoopLine \/ LoopCall \/ LoopFails
    \/ InnerLoop \/ EndOfBody \/ LoopEnds

Spec == Init /\ [][Next]_vars

-----------------------------------------------------------------------------
(***************************************************************************)
(* Properties.                                                             *)
(***************************************************************************)

DepthOf(i) == Cardinality({j \in 1 .. i : acts[j].kind = "func"})

\* Type correctness, with the shape of the structures: parents and children
\* point to each other, and every first line of an inner loop has its child
\* (loop_attach_child(), get_child_loop_by_line()).
TypeOK ==
    /\ Live \subseteq Address
    /\ \A l \in Live :
         /\ DOMAIN loops[l] = DOMAIN gretl_loop_init
         /\ Range(loops[l].cmds) \subseteq Op
         /\ \A c \in Range(loops[l].children) : c \in Live /\ loops[c].parent = l
         /\ loops[l].parent # NULL =>
              /\ loops[l].parent \in Live
              /\ l \in Range(loops[loops[l].parent].children)
              /\ loops[l].level = loops[loops[l].parent].level + 1
         /\ \A j \in DOMAIN loops[l].cmds :
              Cardinality(ChildAt(l, j)) = IF loops[l].cmds[j] = "loop" THEN 1 ELSE 0
    /\ currloop \in Address \cup {NULL}
    /\ compile_level \in Nat
    /\ {loop_execute, loop_renaming, err} \subseteq BOOLEAN
    /\ \A i \in DOMAIN acts : acts[i] \in Activity
    /\ err => acts # << >>

\* No structure is lost: each belongs to a loop under execution, to the one
\* being stored, or to the one that waits to be executed, and none of those
\* has been freed (the frees and the reset of currloop in gretl_loop_exec(),
\* destroy_loop_stack() and gretl_loop_append_line()).
NoneLost ==
    LET used == {acts[i].loop : i \in Running} \cup ({currloop} \ {NULL})
    IN  /\ used \subseteq Live
        /\ \A l \in Live : \E u \in used : Root(l) = Root(u)

\* The static variables describe the reader that is on top: what it stores,
\* or what it has to execute next, and nothing when there is no script
\* (gretl_abort_compiling_loop() at the end of execute_script()).
StateOfReader ==
    /\ compile_level > 0 =>
         /\ acts # << >> /\ Top.kind # "loop"
         /\ currloop # NULL /\ compile_level = loops[currloop].level + 1
         /\ ~loop_execute
    /\ loop_execute => currloop # NULL /\ Top.kind \in {"script", "func"}
    /\ acts = << >> => currloop = NULL /\ compile_level = 0 /\ ~loop_execute

\* gretl_looping() tells at every function depth whether a loop is executed
\* there, though each loop resets the entry of the depth it ends at.
LoopingExact == looping = {DepthOf(i) : i \in Running}

\* "it's necessary to look up the ID number by name again (as things stand)"
\* (geneval.c): while a loop that renames series is executed they are looked
\* up, also after its lines have called functions with loops of their own.
RenamingHolds ==
    \A i \in Running : loops[acts[i].loop].renaming => loop_renaming

\* The lines of a loop as a value, and those of the loops still open, from
\* the outermost: what each has before the first line of the next.
Value(loop) ==
    LET V[l \in Live] ==
          [j \in DOMAIN loops[l].cmds |->
             IF loops[l].cmds[j] = "loop"
             THEN [op |-> "loop", body |-> V[CHOOSE c \in ChildAt(l, j) : TRUE]]
             ELSE [op |-> loops[l].cmds[j], body |-> << >>]]
    IN  V[loop]

OpenBodies ==
    LET B[l \in Live] ==
          IF loops[l].parent = NULL THEN << >>
          ELSE Append(B[loops[l].parent], Front(Value(loops[l].parent)))
    IN  Append(B[currloop], Value(currloop))

Activities ==
    [i \in DOMAIN acts |->
       IF acts[i].kind = "loop"
       THEN [body |-> Value(acts[i].loop), at |-> acts[i].at]
       ELSE [open |-> IF i = Len(acts) /\ compile_level > 0 THEN OpenBodies ELSE << >>,
             due  |-> IF i = Len(acts) /\ loop_execute THEN <<Value(currloop)>> ELSE << >>]]

\* The structures and the static variables implement loops that are values,
\* each stored by its own reader and executed as it was read.
B == INSTANCE LoopBodies WITH acts <- Activities

ImplementsBodies == B!Spec
=============================================================================
