--------------------------- MODULE ScriptControl ---------------------------
(***************************************************************************)
(* The control flow of hansl: "if" blocks, loops, function calls, "break", *)
(* "return" and errors, as carried out by flow_control() (flow_control.c), *)
(* gretl_loop_exec() (monte_carlo.c) and gretl_function_exec()             *)
(* (gretl_func.c) on top of the one if-state of the process.               *)
(*                                                                         *)
(* The C stack is a sequence of scopes: the script, then one scope per     *)
(* activation of a loop or of a function.  What the lines of a program are *)
(* is left open: in every state any line that may come next can come next, *)
(* a condition may turn out either way, and a command may fail.            *)
(***************************************************************************)
EXTENDS IfState, Sequences

CONSTANTS
    MaxScopes,     \* bound on the depth of the C stack
    CatchCalls,    \* programs put "catch" before calls of functions
    LoopReturns,   \* functions use "return" inside loops
    Faults         \* the disagreements with the documentation to admit

ASSUME ScriptAssumption == /\ MaxScopes \in Nat
                           /\ CatchCalls \in BOOLEAN /\ LoopReturns \in BOOLEAN
\* script  the script itself, or a loop of its own, has "catch" before a call
ASSUME FaultsAssumption == Faults \subseteq {"script"}

VARIABLES
    ifs,           \* the static variables of ifstate()
    scopes,        \* the C stack
    err,           \* the error code on its way up the C stack, as a Boolean
    returnLine     \* return_line of gretl_func.c is not NULL

vars == <<ifs, scopes, err, returnLine>>

(* base is the local variable indent0.  at says what the scope is waiting  *)
(* for while another one runs above it: the command on its line, the       *)
(* condition of its "if" or "elif", a loop, or the value of a "return"     *)
(* that a loop has met.  caught: the calling line has "catch".  ret is a   *)
(* history variable: a "return" was executed here.                         *)
Scope == [kind : {"main", "fn", "loop"}, base : Level,
          at : {"line", "if", "elif", "loop", "return"},
          caught : BOOLEAN, ret : BOOLEAN]

NewScope(kind, base, caught) ==
    [kind |-> kind, base |-> base, at |-> "line", caught |-> caught, ret |-> FALSE]

TypeOK == /\ ifs \in IfStates
          /\ scopes \in Seq(Scope) /\ scopes # << >>
          /\ err \in BOOLEAN /\ returnLine \in BOOLEAN

Init == /\ ifs = InitIfState
        /\ scopes = << NewScope("main", 0, FALSE) >>
        /\ err = FALSE /\ returnLine = FALSE

----------------------------------------------------------------------------
(* The stack of scopes.                                                    *)
Top         == scopes[Len(scopes)]
Below(s)    == SubSeq(s, 1, Len(s) - 1)
TopAt(s, a) == [s EXCEPT ![Len(s)].at = a]

InFunction(s) == \E i \in DOMAIN s : s[i].kind = "fn"

(* gretl_if_state_record() and the call.                                   *)
Push(kind, at, base, caught) ==
    /\ Len(scopes) < MaxScopes
    /\ scopes' = Append(TopAt(scopes, at), NewScope(kind, base, caught))

(* The C function returns 0 and its caller goes on where it was.           *)
Succeed(s) == /\ scopes' = Below(scopes)
              /\ ifs' = s
              /\ err' = FALSE

(* It returns an error.  A caller in a condition is in flow_control(),     *)
(* which gives up all blocks; one whose line has "catch" goes on; the      *)
(* script reports the error and goes on.                                   *)
FailTo(caller, s) ==
    \/ /\ Top.caught
       /\ ifs' = s /\ err' = FALSE /\ scopes' = Below(scopes)
    \/ /\ ~Top.caught
       /\ ifs' = IF caller.at \in {"if", "elif"} THEN Relax(s) ELSE s
       /\ err' = (caller.kind # "main")
       /\ scopes' = TopAt(Below(scopes),
                          IF caller.at = "loop" THEN "loop" ELSE "line")

Return(s) == FailTo(scopes[Len(scopes) - 1], s)

----------------------------------------------------------------------------
(* flow_control()                                                          *)

Reading == ~err /\ Top.at = "line"

(* A block opened outside the scope is not touched: the definition of a    *)
(* function is refused unless its blocks balance, a loop is taken to be    *)
(* written so, and a script that is not gets the error of ifstate().       *)
OwnBlock == \/ ifs.indent > Top.base
            \/ ifs.indent = 0 /\ Top.kind # "fn"

FlowError == /\ ifs' = Relax(ifs)
             /\ err' = (Top.kind # "main")

SetIf(s, c) == \/ CanOpen(s) /\ ifs' = Open(s, c) /\ UNCHANGED err
               \/ ~CanOpen(s) /\ FlowError

(* if_eval() of a condition that calls no function: either value, or an    *)
(* error, which a missing value is too.                                    *)
Evaluate(s) == \/ \E c \in BOOLEAN : SetIf(s, c)
               \/ FlowError

If == /\ Reading
      /\ \/ Blocked(ifs) /\ SetIf(ifs, FALSE)
         \/ ~Blocked(ifs) /\ Evaluate(ifs)
      /\ UNCHANGED <<scopes, returnLine>>

Elif == /\ Reading /\ OwnBlock
        /\ \/ ~CanBranch(ifs) /\ FlowError
           \/ /\ CanBranch(ifs)
              /\ LET s == Branch(ifs, "elif") IN
                 \/ Blocked(s) /\ ifs' = s /\ UNCHANGED err
                 \/ ~Blocked(s) /\ Evaluate(Unindent(s))
        /\ UNCHANGED <<scopes, returnLine>>

Else == /\ Reading /\ OwnBlock
        /\ \/ ~CanBranch(ifs) /\ FlowError
           \/ CanBranch(ifs) /\ ifs' = Branch(ifs, "else") /\ UNCHANGED err
        /\ UNCHANGED <<scopes, returnLine>>

Endif == /\ Reading /\ OwnBlock
         /\ \/ ~CanClose(ifs) /\ FlowError
            \/ CanClose(ifs) /\ ifs' = Close(ifs) /\ UNCHANGED err
         /\ UNCHANGED <<scopes, returnLine>>

(* The function called by a condition has returned: if_eval() ends.        *)
Resume == /\ ~err /\ Top.at \in {"if", "elif"}
          /\ Evaluate(ifs)
          /\ scopes' = TopAt(scopes, "line")
          /\ UNCHANGED returnLine

(* A command fails.  In the script that leaves nothing behind, and with    *)
(* "catch" nowhere.                                                        *)
CommandFails == /\ Reading /\ ~Blocked(ifs) /\ Top.kind # "main"
                /\ err' = TRUE
                /\ UNCHANGED <<ifs, scopes, returnLine>>

----------------------------------------------------------------------------
(* gretl_function_exec()                                                   *)

(* With "catch" an error is kept from the caller of the function.  What is *)
(* left of that caller's blocks depends on who it is: see FunctionFails.   *)
MayCatch == CatchCalls /\ (InFunction(scopes) \/ "script" \in Faults)

(* A function is called by a command.                                      *)
CallInCommand == /\ Reading /\ ~Blocked(ifs)
                 /\ \E caught \in {FALSE, MayCatch} :
                       Push("fn", "line", ifs.indent, caught)
                 /\ UNCHANGED <<ifs, err, returnLine>>

CallInIf == /\ Reading /\ ~Blocked(ifs)
            /\ Push("fn", "if", ifs.indent, FALSE)
            /\ UNCHANGED <<ifs, err, returnLine>>

CallInElif == /\ Reading /\ OwnBlock /\ CanBranch(ifs)
              /\ LET s == Branch(ifs, "elif") IN
                 /\ ~Blocked(s)
                 /\ ifs' = Unindent(s)
                 /\ Push("fn", "elif", ifs.indent - 1, FALSE)
              /\ UNCHANGED <<err, returnLine>>

(* gretl_if_state_check(): all blocks of the scope must have been closed.  *)
CheckedEnd == \/ ifs.indent = Top.base /\ Succeed(ifs)
              \/ ifs.indent # Top.base /\ Return(Relax(ifs))

(* The last line.  Since the blocks of a definition balance, they are all  *)
(* closed by then.                                                         *)
FunctionEnd == /\ Reading /\ Top.kind = "fn"
               /\ ifs.indent = Top.base
               /\ CheckedEnd
               /\ UNCHANGED returnLine

(* A "return" before the last line: retline >= 0.                          *)
EarlyReturnNoReset ==                           \* faulty: blocks left open
    /\ Reading /\ ~Blocked(ifs) /\ Top.kind = "fn"
    /\ Succeed(ifs)
    /\ UNCHANGED returnLine

EarlyReturn == /\ Reading /\ ~Blocked(ifs) /\ Top.kind = "fn"
               /\ Succeed(Reset(ifs, Top.base))
               /\ UNCHANGED returnLine

(* The outermost loop of the function is over and get_return_line() finds  *)
(* something.  Any error of the loop is overwritten by that of evaluating  *)
(* the value, and the function ends.                                       *)
ValueFails == /\ err' = TRUE
              /\ scopes' = TopAt(scopes, "line")
              /\ UNCHANGED ifs

ReturnAfterLoopStale ==                         \* faulty: return_line kept
    /\ Top.kind = "fn" /\ Top.at = "loop" /\ returnLine
    /\ CheckedEnd \/ ValueFails
    /\ UNCHANGED returnLine

ReturnAfterLoop == /\ Top.kind = "fn" /\ Top.at = "loop" /\ returnLine
                   /\ returnLine' = FALSE
                   /\ CheckedEnd \/ ValueFails

(* The value may be a function call.  (After an error it is taken to be    *)
(* none.)  Nothing is blocked where a loop has just been run.              *)
CallInReturn == /\ Top.kind = "fn" /\ Top.at = "loop" /\ returnLine
                /\ ~err /\ ~Blocked(ifs)
                /\ returnLine' = FALSE
                /\ Push("fn", "return", ifs.indent, FALSE)
                /\ UNCHANGED <<ifs, err>>

ValueReturned == /\ LoopReturns
                 /\ ~err /\ Top.kind = "fn" /\ Top.at = "return"
                 /\ CheckedEnd \/ ValueFails
                 /\ UNCHANGED returnLine

(* Otherwise the scope that started the loop reads its next line.          *)
AfterLoop == /\ ~err /\ Top.at = "loop" /\ ~(Top.kind = "fn" /\ returnLine)
             /\ scopes' = TopAt(scopes, "line")
             /\ UNCHANGED <<ifs, err, returnLine>>

(* An error ends the function.  At depth 1 all blocks are given up, even   *)
(* if the script catches the error; deeper down only the function's own.   *)
FunctionFailsClears ==                          \* faulty: clears at any depth
    /\ err /\ Top.kind = "fn" /\ ~(Top.at = "loop" /\ returnLine)
    /\ Return(Relax(ifs))
    /\ UNCHANGED returnLine

FunctionFails == /\ err /\ Top.kind = "fn" /\ ~(Top.at = "loop" /\ returnLine)
                 /\ Return(IF InFunction(Below(scopes))
                           THEN Reset(ifs, Top.base) ELSE Relax(ifs))
                 /\ UNCHANGED returnLine

----------------------------------------------------------------------------
(* gretl_loop_exec()                                                       *)

StartLoop == /\ Reading /\ ~Blocked(ifs)
             /\ Push("loop", "loop", ifs.indent, FALSE)
             /\ UNCHANGED <<ifs, err, returnLine>>

(* The last line of an iteration.  The next iteration, if any, starts in   *)
(* the same state, so only the end of the loop and the error are steps.    *)
IterationEndUnchecked ==                        \* faulty: indent not compared
    /\ Reading /\ Top.kind = "loop"
    /\ Succeed(ifs)
    /\ UNCHANGED returnLine

IterationEnd == /\ Reading /\ Top.kind = "loop"
                /\ \/ ifs.indent = Top.base /\ Succeed(ifs)
                   \/ /\ ifs.indent # Top.base
                      /\ ifs' = Relax(ifs) /\ err' = TRUE
                      /\ UNCHANGED scopes
                /\ UNCHANGED returnLine

Break == /\ Reading /\ ~Blocked(ifs) /\ Top.kind = "loop"
         /\ Succeed(Reset(ifs, Top.base))
         /\ UNCHANGED returnLine

(* The activation of a function that the top scope of s belongs to.        *)
Activation(s) ==
    { i \in DOMAIN s : \A j \in DOMAIN s : j > i => s[j].kind = "loop" }

(* set_function_should_return(): outside functions "return" is an error,   *)
(* which CommandFails includes; inside, the innermost loop is broken off.  *)
ReturnInLoop == /\ LoopReturns
                /\ Reading /\ ~Blocked(ifs) /\ Top.kind = "loop"
                /\ InFunction(scopes)
                /\ returnLine' = TRUE
                /\ scopes' = [i \in 1 .. Len(scopes) - 1 |->
                                 IF i \in Activation(scopes)
                                 THEN [scopes[i] EXCEPT !.ret = TRUE] ELSE scopes[i]]
                /\ ifs' = Reset(ifs, Top.base)
                /\ UNCHANGED err

LoopFails == /\ err /\ Top.kind = "loop"
             /\ Return(Relax(ifs))
             /\ UNCHANGED returnLine

----------------------------------------------------------------------------
FlowControl == If \/ Elif \/ Else \/ Endif \/ Resume \/ CommandFails

Function == \/ CallInCommand \/ CallInIf \/ CallInElif
            \/ FunctionEnd \/ EarlyReturn \/ ReturnAfterLoop \/ CallInReturn
            \/ ValueReturned \/ AfterLoop \/ FunctionFails

Loop == StartLoop \/ IterationEnd \/ Break \/ ReturnInLoop \/ LoopFails

Next == FlowControl \/ Function \/ Loop

Spec == Init /\ [][Next]_vars

----------------------------------------------------------------------------
(***************************************************************************)
(* Properties                                                              *)
(***************************************************************************)

(* The blocks that were open when a loop or a function was entered are     *)
(* still open, and in the branch they were in, as long as it runs: nothing *)
(* it does to the shared arrays reaches them.  An error may end it, and    *)
(* the caller has its blocks if that is a function that catches the error. *)
CallersIntact ==
    /\ \A k \in 2 .. Len(scopes) : scopes[k - 1].base <= scopes[k].base
    /\ ~err => Top.base <= ifs.indent
    /\ \A i \in 1 .. Top.base : ifs.T[i] /\ ifs.tok[i] \in {"if", "elif", "else"}

(* A branch is never followed in a block that has followed another one:    *)
(* got_T does what the comment above ifstate() says it is for.             *)
OneBranch ==
    [][\A i \in 1 .. ifs.indent :
          ifs.gotT[i] /\ ~ifs.T[i] /\ i <= ifs'.indent => ~ifs'.T[i]]_vars

(* return_line never outlives the function calls it can belong to: it is   *)
(* set only while some function is waiting for a loop of its own to end,   *)
(* and so the script never finds it set.                                   *)
ReturnPending ==
    returnLine => \E k \in DOMAIN scopes : scopes[k].kind = "fn" /\ scopes[k].at = "loop"

(* The stack of blocks that each scope would see if it had one of its own. *)
Undecided == [taken |-> "no", last |-> FALSE]

BlockAt(i) == [taken |-> IF \E j \in 1 .. i - 1 : ~ifs.T[j] THEN "dead"
                         ELSE IF ifs.T[i] THEN "now"
                         ELSE IF ifs.gotT[i] THEN "past" ELSE "no",
               last |-> ifs.tok[i] = "else"]

StackOf(k) ==
    LET base == scopes[k].base
        top  == IF k = Len(scopes) THEN ifs.indent ELSE scopes[k + 1].base
        open == [i \in 1 .. top - base |-> BlockAt(base + i)]
    IN  IF k = Len(scopes) /\ err THEN << >>
        ELSE IF scopes[k].at = "elif" THEN Append(open, Undecided) ELSE open

Private == INSTANCE PrivateBlocks WITH
               stacks <- [k \in DOMAIN scopes |-> StackOf(k)], failing <- err

(* The shared arrays and counter implement private stacks of blocks: no    *)
(* call, loop or early exit changes the blocks of another scope, nor does  *)
(* an error that a function catches; one that nobody does ends them all.   *)
(* Every block follows at most one branch, "else" only if none before.     *)
ImplementsPrivateBlocks == Private!Spec

----------------------------------------------------------------------------
(* What the documentation says and the code does not do.                   *)

(* "A return statement causes the function to return (exit) at the point   *)
(* where it appears" (doc/tex/functions.tex).  So a loop around the one in *)
(* which a return was executed is left, and does not go on.                *)
ReturnLeaves ==
    [][Top.kind = "loop" /\ Top.ret /\ ~err => Len(scopes') < Len(scopes)]_vars
=============================================================================
