------------------------------ MODULE Outfile -------------------------------
(***************************************************************************)
(* The command outfile (lib/src/interact.c), the streams it stacks         *)
(* (gretl_prn.c), the settings it changes (libset.c) and what functions,   *)
(* loops, scripts and errors do about both (gretl_func.c, monte_carlo.c).  *)
(*                                                                         *)
(* A session with functions under it has one printer, with a stack of      *)
(* streams, one stack of program states and one static copy, vparms, of    *)
(* what --quiet has turned off.  Echo and messages are turned off and on   *)
(* together by outfile and by functions; loops know of messages only, and  *)
(* so does this module.                                                    *)
(***************************************************************************)
EXTENDS Naturals, Sequences, FiniteSets, SequencesExt, Functions

CONSTANTS
    Options,    \* the values of a setting
    None,       \* output is not disabled
    MaxActs,    \* bound on the functions, loops and scripts being executed
    Faults      \* the disagreements with the documentation to admit

ASSUME OutfileAssumption ==
    /\ MaxActs \in Nat
    /\ None \notin [level : Nat, restores : BOOLEAN]
    \* nested    a function uses outfile while --quiet is in force
    \* failing   the session has an error while --quiet is in force
    \* closes    a function ends the redirection of its caller
    \* leaves    a function ends without ending its own
    \* unparsed  an error in a line that is never executed as a command
    \* block     a loop, or a script that is run quietly, ends a redirection
    \*           it has not begun, or begins one and does not end it
    \* unset     a function whose lines set nothing runs a script that does
    \* caught    an error that is caught ends a redirection of those who go on
    /\ Faults \subseteq {"nested", "failing", "closes", "leaves", "unparsed",
                         "block", "unset", "caught"}

VARIABLES
    prn,        \* the streams put aside, and whether output is disabled
    vparms,     \* what messages were before --quiet
    states,     \* state_stack; the last is the state in use
    acts,       \* the functions, loops and scripts under execution
    err         \* an error on its way up through them

vars == <<prn, vparms, states, acts, err>>

-----------------------------------------------------------------------------
(***************************************************************************)
(* Printer and settings.                                                   *)
(***************************************************************************)

\* A redirection: the depth at which it began, and whether there is something
\* to restore when it ends; of the latter the code has no record.
Redirection == [level : Nat, restores : BOOLEAN]

depth == Cardinality({i \in DOMAIN acts : acts[i].kind = "func"})

state == Last(states)

SetState(s) == states' = Append(Front(states), s)

SetMessages(m) == SetState([state EXCEPT !.messages = m])

print_redirection_level == Len(prn.fplist) + IF prn.fixed = None THEN 0 ELSE 1

\* The one that is in force.
InForce == IF prn.fixed # None THEN prn.fixed ELSE Last(prn.fplist)

\* faulty: redirections at one depth are not told apart.
redirection_ok_anyway == print_redirection_level = 0 \/ depth > 0

redirection_ok ==
    \/ print_redirection_level = 0
    \/ depth > 0 /\ \A r \in Range(prn.fplist) : r.level # depth

print_end_redirection(p) ==
    IF p.fixed # None THEN [p EXCEPT !.fixed = None]
    ELSE [p EXCEPT !.fplist = Front(@)]

\* process_command_error(): an error ends one redirection, if there is one.
process_command_error ==
    IF print_redirection_level = 0 THEN prn ELSE print_end_redirection(prn)

Active == ~err

Top == Last(acts)

Room == Len(acts) < MaxActs

\* The loops and scripts of the function, or the session, that is on top.
Blocks ==
    {i \in DOMAIN acts : \A j \in i .. Len(acts) : acts[j].kind # "func"}

Open == Range(prn.fplist) \cup ({prn.fixed} \ {None})

\* The redirections that began at depth d: one, if any.
At(d) == {r \in Open : r.level = d}

\* An error on top is caught before it reaches i; 0 is the session.
Survives(i) == \E j \in DOMAIN acts : i < j /\ acts[j].caught

\* The depth of whoever catches it.
CatchDepth ==
    Cardinality({i \in DOMAIN acts : acts[i].kind = "func" /\ Survives(i)})

\* The redirections of whoever catches it and of those below.
Spared == {r \in Open : Survives(0) /\ r.level <= CatchDepth}

\* Each of those that fail is a function and has a redirection of its own.
EachHasOwn ==
    \A i \in DOMAIN acts : ~Survives(i) =>
        /\ acts[i].kind = "func"
        /\ At(Cardinality({k \in 1 .. i : acts[k].kind = "func"})) # {}

\* What --quiet has turned off in the session is to be restored; or, with the
\* error caught, vparms is left over while another redirection is in force.
QuietSession ==
    /\ print_redirection_level > 0 /\ InForce.restores
    /\ IF Survives(0) THEN Spared # {} ELSE InForce.level = 0

-----------------------------------------------------------------------------
(***************************************************************************)
(* outfile and set.                                                        *)
(***************************************************************************)

\* faulty: what was put aside for another redirection stays there.
VparmsStale(quiet) ==
    IF ~quiet THEN vparms ELSE IF state.messages THEN "on" ELSE "off"

\* faulty: messages are looked at when they are off already.
VparmsLate(quiet) == IF quiet THEN "off" ELSE "unset"

\* outfile_redirect()
Vparms(quiet) ==
    IF ~quiet THEN "unset" ELSE IF state.messages THEN "on" ELSE "off"

\* "outfile f", and "outfile null", which only disables printing.
Outfile(null, quiet) ==
    LET new == [level |-> depth, restores |-> quiet /\ state.messages]
    IN  /\ Active
        /\ redirection_ok /\ prn.fixed = None
        /\ print_redirection_level > 0 /\ InForce.restores => "nested" \in Faults
        /\ new.restores =>
              \/ "block" \in Faults
              \/ \A i \in Blocks : print_redirection_level >= acts[i].redir
        /\ prn' = IF null THEN [prn EXCEPT !.fixed = new]
                  ELSE [prn EXCEPT !.fplist = Append(@, new)]
        /\ vparms' = Vparms(quiet)
        /\ SetMessages(state.messages /\ ~quiet)
        /\ UNCHANGED <<acts, err>>

\* "end outfile", with maybe_restore_vparms()
EndOutfile ==
    /\ Active
    /\ print_redirection_level > 0
    /\ InForce.level = depth \/ "closes" \in Faults
    /\ InForce.restores =>
          \/ "block" \in Faults
          \/ \A i \in Blocks : print_redirection_level > acts[i].redir
    /\ prn' = print_end_redirection(prn)
    /\ SetMessages(state.messages \/ vparms = "on")
    /\ vparms' = "unset"
    /\ UNCHANGED <<acts, err>>

\* Whether the function that is on top has a line with "set".
UsesSet ==
    \A i \in DOMAIN acts :
        acts[i].kind = "func" /\ (\A j \in i + 1 .. Len(acts) : acts[j].kind # "func")
            => acts[i].usesSet

Set(m, o) ==
    /\ Active
    /\ ~UsesSet => Top.kind = "run"
    /\ o # state.option => UsesSet \/ "unset" \in Faults
    /\ SetState([messages |-> m, option |-> o])
    /\ UNCHANGED <<prn, vparms, acts, err>>

-----------------------------------------------------------------------------
(***************************************************************************)
(* Functions, loops and scripts.                                           *)
(***************************************************************************)

Push(kind, uses, caught) ==
    /\ Active /\ Room
    /\ acts' = Append(acts, [kind |-> kind, usesSet |-> uses, caught |-> caught,
                             messages |-> state.messages,
                             redir |-> print_redirection_level])
    /\ UNCHANGED <<prn, vparms, err>>

\* start_fncall(): a function that sets something has a state of its own.  The
\* line that calls it may begin with "catch".
Call(uses, caught) ==
    /\ Push("func", uses, caught)
    /\ states' = LET off == [state EXCEPT !.messages = FALSE]
                 IN  Append(IF uses THEN states ELSE Front(states), off)

StartLoop(verbose) ==
    /\ acts # << >> => Top.kind # "run"
    /\ Push("loop", FALSE, FALSE)
    /\ SetMessages(state.messages \/ verbose)

\* "run f", "run f --quiet" in a function
Run(quiet) ==
    /\ acts # << >> /\ Top.kind # "loop"
    /\ Push("run", quiet, FALSE)
    /\ SetMessages(state.messages /\ ~quiet)

\* faulty: only where nothing has failed.
StateAfterUnlessFailed(a) ==
    IF err THEN states
    ELSE IF a.kind = "func" /\ a.usesSet THEN Front(states)
    ELSE Append(Front(states), [state EXCEPT !.messages = a.messages])

\* What is restored at the end: for a script the flag is that it was quiet.
StateAfter(a) ==
    IF a.kind = "func" /\ a.usesSet THEN Front(states)
    ELSE IF a.kind = "run" /\ ~a.usesSet THEN states
    ELSE Append(Front(states), [state EXCEPT !.messages = a.messages])

\* A function that has begun a redirection has to end it (stop_fncall()).
LeftOpen == Top.kind = "func" /\ print_redirection_level > Top.redir

End ==
    /\ acts # << >> /\ Active
    /\ ~LeftOpen
    /\ Top.kind # "func" /\ print_redirection_level > Top.redir /\ InForce.restores =>
          "block" \in Faults
    /\ states' = StateAfter(Top)
    /\ acts' = Front(acts)
    /\ UNCHANGED <<prn, vparms, err>>

-----------------------------------------------------------------------------
(***************************************************************************)
(* Errors.  Whoever executes the failing line, and each line above that    *)
(* called for it, ends one redirection.  A line of a loop does not if it   *)
(* is an assignment, but the end of the loop does; nor does a line with    *)
(* catch, where the error ends.  In the session, or after a line with      *)
(* catch, the error has been dealt with, and the next line is read.        *)
(***************************************************************************)

\* The line on top of stack fails.
LineFails(stack) ==
    /\ \/ prn' = process_command_error
       \/ /\ stack # << >>
          /\ Last(stack).kind = "loop" \/ "unparsed" \in Faults
          /\ prn' = prn
    /\ acts' = stack
    /\ err' = (stack # << >>)

CommandFails ==
    /\ Active
    /\ QuietSession => "failing" \in Faults
    /\ Spared # {} /\ ~EachHasOwn => "caught" \in Faults
    /\ LineFails(acts)
    /\ UNCHANGED <<vparms, states>>

\* The end of a function, loop or script with an error; a loop sees to it
\* itself, a line with catch goes no further, and otherwise the line that
\* called fails.
ActivityFails ==
    /\ acts # << >>
    /\ err \/ (LeftOpen /\ "leaves" \in Faults)
    /\ \/ /\ Top.kind = "loop"
          /\ prn' = process_command_error
          /\ acts' = Front(acts) /\ err' = (Front(acts) # << >>)
       \/ Top.caught /\ prn' = prn /\ acts' = Front(acts) /\ err' = FALSE
       \/ Top.kind # "loop" /\ ~Top.caught /\ LineFails(Front(acts))
    /\ states' = StateAfter(Top)
    /\ UNCHANGED vparms

-----------------------------------------------------------------------------

Init ==
    /\ prn = [fplist |-> << >>, fixed |-> None]
    /\ vparms = "unset"
    /\ \E o \in Options : states = <<[messages |-> TRUE, option |-> o]>>
    /\ acts = << >>
    /\ err = FALSE

Next ==
    \/ \E null, quiet \in BOOLEAN : Outfile(null, quiet)
    \/ EndOutfile
    \/ \E m \in BOOLEAN, o \in Options : Set(m, o)
    \/ \E uses, caught \in BOOLEAN : Call(uses, caught)
    \/ \E b \in BOOLEAN : StartLoop(b) \/ Run(b)
    \/ End \/ CommandFails \/ ActivityFails

Spec == Init /\ [][Next]_vars

-----------------------------------------------------------------------------
(***************************************************************************)
(* Properties.                                                             *)
(***************************************************************************)

\* Types, with the order of the redirections: at most one for each depth, the
\* deepest in force; and the stack of states: one for each function with "set".
TypeOK ==
    /\ prn.fplist \in Seq(Redirection)
    /\ prn.fixed \in Redirection \cup {None}
    /\ \A j, k \in DOMAIN prn.fplist :
          j < k => prn.fplist[j].level < prn.fplist[k].level
    /\ vparms \in {"unset", "off", "on"}
    /\ Len(states) =
          1 + Cardinality({i \in DOMAIN acts : acts[i].kind = "func" /\ acts[i].usesSet})
    /\ err => acts # << >>

\* When the session is back after an error its output is not diverted, and when
\* the error is caught nothing is left of what has failed: each depth has at
\* most one redirection (redirection_ok()) and ends one on the way up
\* (process_command_error()).
NothingLeftOpen ==
    [][err /\ ~err' =>
          IF Top.caught THEN \A r \in Open' : r.level <= depth'
          ELSE prn' = [fplist |-> << >>, fixed |-> None]]_vars

\* "when redirection is ended the original values of the echo and messages
\* variables are restored" (gretl_commands_en.xml, outfile).
QuietEnds ==
    [][/\ print_redirection_level > 0 /\ InForce.restores
       /\ prn' = print_end_redirection(prn)
       /\ acts' = acts /\ ~err'
       => Last(states').messages]_vars

\* The function at depth d: d of the first so many activities are functions.
FuncAt(d) ==
    CHOOSE i \in DOMAIN acts :
        /\ acts[i].kind = "func"
        /\ Cardinality({k \in 1 .. i : acts[k].kind = "func"}) = d

\* What is called puts aside the messages of its caller, and the state in use
\* at a depth is the one that was on top when the next function was called:
\* functions that set nothing share it.
MessagesAt(d) == IF d = depth THEN state.messages ELSE acts[FuncAt(d + 1)].messages

StatesBefore(i) ==
    1 + Cardinality({k \in 1 .. i - 1 : acts[k].kind = "func" /\ acts[k].usesSet})

OptionAt(d) ==
    IF d = depth THEN state.option ELSE states[StatesBefore(FuncAt(d + 1))].option

\* While an error is on its way: what whoever catches it will find, or the
\* session, whose output is not diverted then.
ActivationAt(d) ==
    [diverted |-> (err => Survives(0)) /\ At(d) # {},
     restores |-> (err => Survives(0)) /\ \E r \in At(d) : r.restores,
     messages |-> MessagesAt(d),
     option   |-> OptionAt(d)]

Activations ==
    [i \in 1 .. (IF err THEN CatchDepth ELSE depth) + 1 |-> ActivationAt(i - 1)]

O == INSTANCE Outputs WITH acts <- Activations

\* The streams, the states and the one copy implement a record for each
\* activation: its own redirection, messages and settings.
ImplementsOutputs == O!Spec
=============================================================================
