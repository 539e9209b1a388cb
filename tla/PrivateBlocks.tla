--------------------------- MODULE PrivateBlocks ---------------------------
(***************************************************************************)
(* What the author of a hansl script relies on: every script, function     *)
(* call and loop has its own stack of "if" blocks, out of the reach of the *)
(* code it calls, and in every block at most one branch is followed: the   *)
(* first one whose condition holds, or the "else" if there was none.       *)
(*                                                                         *)
(* There is no shared counter and no array here.  ScriptControl, which has *)
(* both, is shown to implement this specification.                         *)
(***************************************************************************)
EXTENDS Integers, Sequences

VARIABLES
    stacks,    \* one stack of blocks per activation; the script's comes first
    failing    \* an error is on its way out of the innermost activation

vars == <<stacks, failing>>

(* A block inside a branch that is not followed is dead.  Otherwise no     *)
(* branch has been followed yet, or the one being read is, or an earlier   *)
(* one was.  The branch after "else" is the last.                          *)
Block == [taken : {"dead", "no", "now", "past"}, last : BOOLEAN]

Butlast(s) == SubSeq(s, 1, Len(s) - 1)

Own      == stacks[Len(stacks)]
Others   == Butlast(stacks)
Inner    == Own[Len(Own)]
Live(bs) == \A i \in DOMAIN bs : bs[i].taken = "now"

TypeOK == /\ stacks \in Seq(Seq(Block)) /\ stacks # << >>
          /\ failing \in BOOLEAN

Init == stacks = << << >> >> /\ failing = FALSE

SetOwn(bs) == stacks' = [stacks EXCEPT ![Len(stacks)] = bs]

SetInner(taken, last) ==
    SetOwn(Append(Butlast(Own), [taken |-> taken, last |-> last]))

----------------------------------------------------------------------------
(* "if": whether the first branch is followed depends on its condition,    *)
(* provided that the line is read at all.                                  *)
OpenBlock ==
    /\ ~failing
    /\ \E taken \in IF Live(Own) THEN {"now", "no"} ELSE {"dead"} :
          SetOwn(Append(Own, [taken |-> taken, last |-> FALSE]))
    /\ UNCHANGED failing

(* "elif": its condition matters only if no branch was followed before.    *)
NextBranch ==
    /\ ~failing /\ Own # << >> /\ ~Inner.last
    /\ \/ Inner.taken \in {"now", "past"} /\ SetInner("past", FALSE)
       \/ Inner.taken = "no" /\ \E taken \in {"now", "no"} : SetInner(taken, FALSE)
       \/ Inner.taken = "dead" /\ UNCHANGED stacks
    /\ UNCHANGED failing

(* "else": followed exactly when no other branch was.                      *)
LastBranch ==
    /\ ~failing /\ Own # << >> /\ ~Inner.last
    /\ \/ Inner.taken \in {"now", "past"} /\ SetInner("past", TRUE)
       \/ Inner.taken = "no" /\ SetInner("now", TRUE)
       \/ Inner.taken = "dead" /\ SetInner("dead", TRUE)
    /\ UNCHANGED failing

(* "endif".                                                                *)
CloseBlock ==
    /\ ~failing /\ Own # << >>
    /\ SetOwn(Butlast(Own))
    /\ UNCHANGED failing

(* A function is called or a loop is started: by a command that is read,   *)
(* or by the condition of an "elif" whose block is still undecided.        *)
Enter ==
    /\ ~failing
    /\ \/ Live(Own)
       \/ Own # << >> /\ Live(Butlast(Own)) /\ Inner = [taken |-> "no", last |-> FALSE]
    /\ stacks' = Append(stacks, << >>)
    /\ UNCHANGED failing

(* The activation ends and its caller goes on where it was.                *)
Leave ==
    /\ Len(stacks) > 1
    /\ stacks' = Others
    /\ failing' = FALSE

(* An error: the blocks of the activation it occurs in are given up.  The  *)
(* script itself recovers, since there is nobody to pass the error on to.  *)
Fail ==
    /\ SetOwn(<< >>)
    /\ failing' = (Len(stacks) > 1)

(* The activation ends with an error that its caller does not catch.       *)
Abandon ==
    /\ Len(stacks) > 1
    /\ stacks' = [Others EXCEPT ![Len(Others)] = << >>]
    /\ failing' = (Len(Others) > 1)

Next == \/ OpenBlock \/ NextBranch \/ LastBranch \/ CloseBlock
        \/ Enter \/ Leave \/ Fail \/ Abandon

Spec == Init /\ [][Next]_vars
=============================================================================
