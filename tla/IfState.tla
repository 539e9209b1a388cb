------------------------------ MODULE IfState ------------------------------
(***************************************************************************)
(* The conditional-execution state of the hansl interpreter.               *)
(*                                                                         *)
(* ifstate() in lib/src/flow_control.c keeps three static arrays and a     *)
(* counter: for each level of nesting of "if" blocks, whether the branch   *)
(* being read is the one to follow (T), whether some branch of the block   *)
(* has been followed already (got_T), and the keyword last seen (tok).     *)
(* There is one such state in the process; scripts, loops and functions    *)
(* all share it.  This module gives its type and one operator per code of  *)
(* ifstate(), from states to states; ScriptControl says who calls them.    *)
(***************************************************************************)
EXTENDS Integers

CONSTANT IfDepth          \* IF_DEPTH: the length of the arrays, 1024

ASSUME IfDepthAssumption == IfDepth \in Nat /\ IfDepth >= 2

Level == 0 .. (IfDepth - 1)

Token == {"none", "if", "elif", "else", "endif"}

IfStates == [T : [Level -> BOOLEAN], gotT : [Level -> BOOLEAN],
             tok : [Level -> Token], indent : Level]

\* Static storage: every array is zero and no block is open.
InitIfState == [T |-> [i \in Level |-> FALSE], gotT |-> [i \in Level |-> FALSE],
                tok |-> [i \in Level |-> "none"], indent |-> 0]

----------------------------------------------------------------------------
(* IS_FALSE: some open block is being read outside the branch it follows.  *)
Blocked(s) == \E i \in 1 .. s.indent : ~s.T[i]

(* RELAX and IFRESET move the counter and leave the arrays as they are.    *)
Relax(s) == [s EXCEPT !.indent = 0]

Reset(s, n) == [s EXCEPT !.indent = n]

(* UNINDENT takes the innermost block off, to be put back by SET_TRUE or   *)
(* SET_FALSE once the condition of its "elif" has been evaluated.          *)
Unindent(s) == [s EXCEPT !.indent = s.indent - 1]

(* SET_TRUE and SET_FALSE open a block; index 0 is never written and the   *)
(* last usable index is IfDepth - 1.                                       *)
CanOpenPastEnd(s) == s.indent + 1 <= IfDepth       \* faulty: > for >=

CanOpen(s) == s.indent + 1 < IfDepth

Open(s, true) == LET i == s.indent + 1 IN
    [T |-> [s.T EXCEPT ![i] = true], gotT |-> [s.gotT EXCEPT ![i] = true],
     tok |-> [s.tok EXCEPT ![i] = "if"], indent |-> i]

(* SET_ELIF and SET_ELSE end the branch being read and begin the next one. *)
BranchForgetful(s, keyword) == LET i == s.indent IN  \* faulty: got_T not read
    [s EXCEPT !.tok[i] = keyword, !.T[i] = ~s.T[i]]

CanBranch(s) == s.tok[s.indent] \in {"if", "elif"}

Branch(s, keyword) == LET i == s.indent IN
    [s EXCEPT !.tok[i] = keyword, !.T[i] = ~s.T[i] /\ ~s.gotT[i]]

(* SET_ENDIF closes the innermost block.                                   *)
CanClose(s) == s.tok[s.indent] \in {"if", "elif", "else"}

Close(s) == LET i == s.indent IN
    [s EXCEPT !.tok[i] = "endif", !.gotT[i] = FALSE, !.indent = i - 1]
=============================================================================
