------------------------ MODULE ScriptControlProofs ------------------------
(***************************************************************************)
(* Proofs about ScriptControl, for arrays of any size, C stacks of any     *)
(* depth and scripts of any length: the shared state of ifstate() stays    *)
(* within its arrays, the blocks of a caller outlive whatever it calls, no *)
(* block follows two branches, and a pending "return" has an owner.        *)
(***************************************************************************)
EXTENDS ScriptControl, SequenceTheorems, TLAPS

(***************************************************************************)
(* Operators of IfState                                                    *)
(***************************************************************************)

(* The counter moves among the levels, so each operator keeps the type     *)
(* within the bound that its caller has tested.                            *)
LEMMA ResetType == ASSUME NEW s \in IfStates, NEW n \in Level
                   PROVE  Reset(s, n) \in IfStates
  BY DEF IfStates, Reset

LEMMA RelaxType == ASSUME NEW s \in IfStates PROVE Relax(s) \in IfStates
<1>1. 0 \in Level
  BY IfDepthAssumption DEF Level
<1> QED
  BY <1>1 DEF IfStates, Relax

LEMMA OpenType == ASSUME NEW s \in IfStates, NEW c \in BOOLEAN, CanOpen(s)
                  PROVE  Open(s, c) \in IfStates
  BY IfDepthAssumption DEF IfStates, CanOpen, Open, Level, Token

LEMMA BranchType == ASSUME NEW s \in IfStates, NEW k \in {"elif", "else"}
                    PROVE  Branch(s, k) \in IfStates
  BY IfDepthAssumption DEF IfStates, Branch, Level, Token

LEMMA CloseType == ASSUME NEW s \in IfStates, s.indent > 0
                   PROVE  Close(s) \in IfStates
<1>1. s.indent \in Level /\ s.indent - 1 \in Level
  BY IfDepthAssumption DEF IfStates, Level
<1>2. "endif" \in Token
  BY DEF Token
<1> QED
  BY <1>1, <1>2 DEF IfStates, Close

(***************************************************************************)
(* The stack of scopes                                                     *)
(***************************************************************************)

(* Dropping the top scope leaves the others where they are.                *)
LEMMA BelowFacts ==
  ASSUME NEW S, NEW s \in Seq(S), Len(s) > 1
  PROVE  /\ Below(s) \in Seq(S)
         /\ Len(Below(s)) = Len(s) - 1
         /\ \A i \in 1 .. Len(s) - 1 : Below(s)[i] = s[i]
<1>1. Len(s) \in Nat /\ \A i \in 1 .. Len(s) : s[i] \in S
  BY LenProperties, ElementOfSeq
<1>2. Len(s) - 1 \in Int /\ 1 \in Int /\ \A i \in 1 .. Len(s) - 1 : s[i] \in S
  BY <1>1
<1>3. /\ SubSeq(s, 1, Len(s) - 1) \in Seq(S)
      /\ Len(SubSeq(s, 1, Len(s) - 1)) = IF 1 <= Len(s) - 1 THEN Len(s) - 1 - 1 + 1 ELSE 0
      /\ \A i \in 1 .. Len(s) - 1 - 1 + 1 : SubSeq(s, 1, Len(s) - 1)[i] = s[1 + i - 1]
  BY <1>2, SubSeqProperties
<1> QED
  BY <1>1, <1>3 DEF Below

(* The inductive invariant.  Stack is about the scopes alone: bases grow   *)
(* upwards, "catch" is used only inside functions, and a function below a  *)
(* loop is waiting for a loop.  Frames ties the scopes to the if-state:    *)
(* index 0 of the arrays is never written, the blocks of callers are open  *)
(* and followed, and all others are open unless an error is on its way.    *)
Opener == {"if", "elif", "else"}

Stack == /\ scopes[1].kind = "main" /\ scopes[1].base = 0
         /\ \A k \in 2 .. Len(scopes) :
               /\ scopes[k].kind # "main"
               /\ scopes[k - 1].base <= scopes[k].base
               /\ scopes[k].kind = "loop" => scopes[k - 1].at = "loop"
         /\ \A k \in 1 .. Len(scopes) :
               /\ scopes[k].caught => /\ scopes[k].kind = "fn" /\ CatchCalls
                                      /\ \E j \in 1 .. k - 1 : scopes[j].kind = "fn"
               /\ scopes[k].kind = "loop" /\ (\E j \in 1 .. k - 1 : scopes[j].kind = "fn")
                     => \E j \in 1 .. k - 1 : scopes[j].kind = "fn" /\ scopes[j].at = "loop"

FramesAt(s, base, failing) ==
    /\ s.tok[0] = "none"
    /\ \A i \in 1 .. base : s.T[i] /\ s.tok[i] \in Opener
    /\ ~failing => /\ base <= s.indent
                   /\ \A i \in 1 .. s.indent : s.tok[i] \in Opener

Frames == FramesAt(ifs, Top.base, err)

Owned(s) == \E k \in DOMAIN s : s[k].kind = "fn" /\ s[k].at = "loop"

Pending == returnLine => LoopReturns /\ Owned(scopes)

IInv == TypeOK /\ Stack /\ Frames /\ Pending

Places == {"line", "if", "elif", "loop", "return"}

(* Kept(s, t): t is s with scopes taken off its top and, in the scope that *)
(* is then on top, another value of at; history variables may change.      *)
Kept(s, t) == /\ t \in Seq(Scope) /\ Len(t) \in 1 .. Len(s)
              /\ \A k \in 1 .. Len(t) :
                    /\ t[k].kind = s[k].kind /\ t[k].base = s[k].base
                    /\ t[k].caught = s[k].caught
                    /\ k < Len(t) => t[k].at = s[k].at

LEMMA TopAtKept ==
  ASSUME NEW s \in Seq(Scope), s # << >>, NEW a \in Places
  PROVE  Kept(s, TopAt(s, a)) /\ Len(TopAt(s, a)) = Len(s)
<1>1. Len(s) \in Nat \ {0} /\ s \in [1 .. Len(s) -> Scope]
  BY EmptySeq, LenProperties
<1>2. [s[Len(s)] EXCEPT !.at = a] \in Scope
  BY <1>1 DEF Scope, Places
<1>3. TopAt(s, a) = [s EXCEPT ![Len(s)] = [s[Len(s)] EXCEPT !.at = a]]
  BY DEF TopAt
<1>4. /\ TopAt(s, a) \in Seq(Scope) /\ Len(TopAt(s, a)) = Len(s)
      /\ \A j \in 1 .. Len(s) : TopAt(s, a)[j] =
            IF j = Len(s) THEN [s[Len(s)] EXCEPT !.at = a] ELSE s[j]
  BY <1>1, <1>2, <1>3, ExceptSeq
<1>5. ASSUME NEW k \in 1 .. Len(s)
      PROVE  /\ TopAt(s, a)[k].kind = s[k].kind /\ TopAt(s, a)[k].base = s[k].base
             /\ TopAt(s, a)[k].caught = s[k].caught
             /\ k < Len(s) => TopAt(s, a)[k].at = s[k].at
  BY <1>1, <1>2, <1>4 DEF Scope
<1> QED
  BY <1>1, <1>4, <1>5 DEF Kept

LEMMA BelowKept ==
  ASSUME NEW s \in Seq(Scope), Len(s) > 1
  PROVE  Kept(s, Below(s)) /\ Len(Below(s)) = Len(s) - 1 /\ Below(s) # << >>
<1>1. Len(s) \in Nat
  BY LenProperties
<1> QED
  BY <1>1, BelowFacts, EmptySeq DEF Kept

LEMMA KeptTrans ==
  ASSUME NEW s \in Seq(Scope), NEW t, NEW u, Kept(s, t), Kept(t, u)
  PROVE  Kept(s, u)
<1>1. Len(s) \in Nat
  BY LenProperties
<1> QED
  BY <1>1 DEF Kept

(* What the end of a C function does to the scopes, with or without an     *)
(* error.                                                                  *)
LEMMA SucceedKept ==
  ASSUME TypeOK, Len(scopes) > 1, NEW s, Succeed(s)
  PROVE  Kept(scopes, scopes') /\ Len(scopes') = Len(scopes) - 1
  BY BelowKept DEF TypeOK, Succeed

LEMMA ReturnKept ==
  ASSUME TypeOK, Len(scopes) > 1, NEW s, Return(s)
  PROVE  Kept(scopes, scopes') /\ Len(scopes') = Len(scopes) - 1
<1>1. /\ Kept(scopes, Below(scopes)) /\ Below(scopes) # << >>
      /\ Len(Below(scopes)) = Len(scopes) - 1 /\ Below(scopes) \in Seq(Scope)
  BY BelowKept DEF TypeOK, Kept
<1>2. ASSUME NEW a \in Places, scopes' = TopAt(Below(scopes), a)
      PROVE  Kept(scopes, scopes') /\ Len(scopes') = Len(scopes) - 1
  BY <1>1, <1>2, TopAtKept, KeptTrans DEF TypeOK
<1> QED
  BY <1>1, <1>2 DEF Return, FailTo, Places

(* The invariant of the stack survives every step that pushes nothing.     *)
LEMMA StackKept ==
  ASSUME TypeOK, Stack, Kept(scopes, scopes')
  PROVE  Stack'
<1>1. Len(scopes) \in Nat /\ Len(scopes') \in Nat /\ Len(scopes') <= Len(scopes) /\ Len(scopes') >= 1
  BY LenProperties DEF TypeOK, Kept
<1>2. scopes'[1].kind = "main" /\ scopes'[1].base = 0
  BY <1>1 DEF Stack, Kept
<1>3. ASSUME NEW k \in 2 .. Len(scopes')
      PROVE  /\ scopes'[k].kind # "main"
             /\ scopes'[k - 1].base <= scopes'[k].base
             /\ scopes'[k].kind = "loop" => scopes'[k - 1].at = "loop"
  <2>1. k \in 2 .. Len(scopes) /\ k - 1 \in 1 .. Len(scopes') /\ k - 1 < Len(scopes')
        /\ k \in 1 .. Len(scopes')
    BY <1>1
  <2>2. /\ scopes'[k].kind = scopes[k].kind /\ scopes'[k].base = scopes[k].base
        /\ scopes'[k - 1].base = scopes[k - 1].base /\ scopes'[k - 1].at = scopes[k - 1].at
    BY <2>1 DEF Kept
  <2> QED
    BY <2>1, <2>2 DEF Stack
<1>4. ASSUME NEW k \in 1 .. Len(scopes')
      PROVE  /\ scopes'[k].caught => /\ scopes'[k].kind = "fn" /\ CatchCalls
                                     /\ \E j \in 1 .. k - 1 : scopes'[j].kind = "fn"
             /\ scopes'[k].kind = "loop" /\ (\E j \in 1 .. k - 1 : scopes'[j].kind = "fn")
                  => \E j \in 1 .. k - 1 : scopes'[j].kind = "fn" /\ scopes'[j].at = "loop"
  <2>1. k \in 1 .. Len(scopes)
    BY <1>1
  <2>2. \A j \in 1 .. k - 1 : /\ j \in 1 .. Len(scopes') /\ j < Len(scopes')
                              /\ scopes'[j].kind = scopes[j].kind /\ scopes'[j].at = scopes[j].at
    BY <1>1 DEF Kept
  <2>3. scopes'[k].kind = scopes[k].kind /\ scopes'[k].caught = scopes[k].caught
    BY DEF Kept
  <2>4. /\ scopes[k].caught => /\ scopes[k].kind = "fn" /\ CatchCalls
                              /\ \E j \in 1 .. k - 1 : scopes[j].kind = "fn"
        /\ scopes[k].kind = "loop" /\ (\E j \in 1 .. k - 1 : scopes[j].kind = "fn")
             => \E j \in 1 .. k - 1 : scopes[j].kind = "fn" /\ scopes[j].at = "loop"
    BY <2>1 DEF Stack
  <2> QED
    BY <2>2, <2>3, <2>4
<1> QED
  BY <1>2, <1>3, <1>4 DEF Stack

(* Entering a scope.                                                       *)
LEMMA PushFacts ==
  ASSUME TypeOK,
         NEW kind \in {"fn", "loop"}, NEW at \in Places,
         NEW base \in Level, NEW caught \in BOOLEAN,
         Push(kind, at, base, caught)
  PROVE  /\ scopes' \in Seq(Scope) /\ Len(scopes') = Len(scopes) + 1
         /\ scopes'[Len(scopes')] = NewScope(kind, base, caught)
         /\ scopes'[Len(scopes)].at = at
         /\ \A k \in 1 .. Len(scopes) :
               /\ scopes'[k].kind = scopes[k].kind /\ scopes'[k].base = scopes[k].base
               /\ scopes'[k].caught = scopes[k].caught
               /\ k < Len(scopes) => scopes'[k].at = scopes[k].at
<1> DEFINE t == TopAt(scopes, at)
           n == NewScope(kind, base, caught)
<1>1. n \in Scope
  BY DEF NewScope, Scope
<1>2. Kept(scopes, t) /\ Len(t) = Len(scopes) /\ t \in Seq(Scope)
  BY TopAtKept DEF TypeOK, Kept
<1>3. Len(scopes) \in Nat \ {0} /\ scopes \in [1 .. Len(scopes) -> Scope]
  BY EmptySeq, LenProperties DEF TypeOK
<1>4. t[Len(scopes)].at = at
  BY <1>3 DEF TopAt, Scope
<1>5. scopes' = Append(t, n)
  BY DEF Push
<1>6. /\ scopes' \in Seq(Scope) /\ Len(scopes') = Len(t) + 1
      /\ \A i \in 1 .. Len(t) : scopes'[i] = t[i]
      /\ scopes'[Len(t) + 1] = n
  BY <1>1, <1>2, <1>5, AppendProperties
<1> QED
  BY <1>2, <1>3, <1>4, <1>6 DEF Kept

LEMMA StackPushed ==
  ASSUME TypeOK, Stack,
         NEW kind \in {"fn", "loop"}, NEW at \in Places,
         NEW base \in Level, NEW caught \in BOOLEAN,
         Push(kind, at, base, caught),
         Top.base <= base, kind = "loop" => at = "loop",
         caught => kind = "fn" /\ CatchCalls /\ InFunction(scopes)
  PROVE  Stack'
<1> DEFINE n == Len(scopes)
<1>1. n \in Nat \ {0} /\ scopes \in [1 .. n -> Scope] /\ DOMAIN scopes = 1 .. n
  BY EmptySeq, LenProperties DEF TypeOK
<1>2. Len(scopes') = n + 1 /\ scopes'[n].at = at
  BY PushFacts
<1>3. /\ scopes'[n + 1].kind = kind /\ scopes'[n + 1].base = base
      /\ scopes'[n + 1].caught = caught
  <2>1. scopes'[n + 1] = NewScope(kind, base, caught)
    BY PushFacts, <1>2
  <2> QED
    BY <2>1 DEF NewScope
<1>4. ASSUME NEW k \in 1 .. n
      PROVE  /\ scopes'[k].kind = scopes[k].kind /\ scopes'[k].base = scopes[k].base
             /\ scopes'[k].caught = scopes[k].caught
             /\ k < n => scopes'[k].at = scopes[k].at
  BY PushFacts
<1>5. scopes'[1].kind = "main" /\ scopes'[1].base = 0
  BY <1>1, <1>4 DEF Stack
<1>6. ASSUME NEW k \in 2 .. n + 1
      PROVE  /\ scopes'[k].kind # "main"
             /\ scopes'[k - 1].base <= scopes'[k].base
             /\ scopes'[k].kind = "loop" => scopes'[k - 1].at = "loop"
  <2>1. CASE k = n + 1
    <3>1. scopes'[n].base = scopes[n].base /\ k - 1 = n
      BY <1>1, <1>4, <2>1
    <3> QED
      BY <1>2, <1>3, <2>1, <3>1 DEF Top
  <2>2. CASE k \in 2 .. n
    <3>1. k \in 1 .. n /\ k - 1 \in 1 .. n /\ k - 1 < n
      BY <1>1, <2>2
    <3>2. /\ scopes'[k].kind = scopes[k].kind /\ scopes'[k].base = scopes[k].base
          /\ scopes'[k - 1].base = scopes[k - 1].base /\ scopes'[k - 1].at = scopes[k - 1].at
      BY <1>4, <3>1
    <3> QED
      BY <2>2, <3>2 DEF Stack
  <2> QED
    BY <1>1, <2>1, <2>2
<1>7. ASSUME NEW k \in 1 .. n + 1
      PROVE  /\ scopes'[k].caught => /\ scopes'[k].kind = "fn" /\ CatchCalls
                                     /\ \E j \in 1 .. k - 1 : scopes'[j].kind = "fn"
             /\ scopes'[k].kind = "loop" /\ (\E j \in 1 .. k - 1 : scopes'[j].kind = "fn")
                  => \E j \in 1 .. k - 1 : scopes'[j].kind = "fn" /\ scopes'[j].at = "loop"
  <2>1. CASE k = n + 1
    <3>1. caught => /\ kind = "fn" /\ CatchCalls
                    /\ \E j \in 1 .. n : scopes'[j].kind = "fn"
      BY <1>1, <1>4 DEF InFunction
    <3>2. ASSUME kind = "loop", NEW j \in 1 .. n, scopes'[j].kind = "fn"
          PROVE  \E i \in 1 .. n : scopes'[i].kind = "fn" /\ scopes'[i].at = "loop"
      <4>1. CASE scopes[n].kind = "fn"
        BY <1>1, <1>2, <1>4, <3>2, <4>1
      <4>2. CASE scopes[n].kind # "fn"
        <5>1. j \in 1 .. n - 1 /\ scopes[j].kind = "fn"
          BY <1>1, <1>4, <3>2, <4>2
        <5>2. n \in 2 .. n /\ n \in 1 .. n
          BY <1>1, <5>1
        <5>3. scopes[n].kind = "loop"
          BY <1>1, <4>2, <5>2 DEF Stack, Scope
        <5>4. PICK i \in 1 .. n - 1 : scopes[i].kind = "fn" /\ scopes[i].at = "loop"
          BY <5>1, <5>2, <5>3 DEF Stack
        <5> QED
          BY <1>1, <1>4, <5>4
      <4> QED
        BY <4>1, <4>2
    <3> QED
      BY <1>1, <1>3, <2>1, <3>1, <3>2
  <2>2. CASE k \in 1 .. n
    <3>1. \A j \in 1 .. k - 1 : /\ scopes'[j].kind = scopes[j].kind
                                /\ scopes'[j].at = scopes[j].at
      BY <1>1, <1>4, <2>2
    <3>2. scopes'[k].kind = scopes[k].kind /\ scopes'[k].caught = scopes[k].caught
      BY <1>4, <2>2
    <3>3. /\ scopes[k].caught => /\ scopes[k].kind = "fn" /\ CatchCalls
                                /\ \E j \in 1 .. k - 1 : scopes[j].kind = "fn"
          /\ scopes[k].kind = "loop" /\ (\E j \in 1 .. k - 1 : scopes[j].kind = "fn")
               => \E j \in 1 .. k - 1 : scopes[j].kind = "fn" /\ scopes[j].at = "loop"
      BY <2>2 DEF Stack
    <3> QED
      BY <3>1, <3>2, <3>3
  <2> QED
    BY <1>1, <2>1, <2>2
<1> QED
  BY <1>2, <1>5, <1>6, <1>7 DEF Stack

(***************************************************************************)
(* The if-state as seen from a scope                                       *)
(***************************************************************************)

(* Opening a block writes above all blocks of the callers.                 *)
LEMMA OpenFrames ==
  ASSUME NEW s \in IfStates, NEW b \in Level, FramesAt(s, b, FALSE),
         CanOpen(s), NEW c \in BOOLEAN
  PROVE  FramesAt(Open(s, c), b, FALSE)
<1>1. s.indent \in Nat /\ b \in Nat /\ s.indent + 1 \in Level /\ b <= s.indent
  BY IfDepthAssumption DEF IfStates, Level, CanOpen, FramesAt
<1>2. /\ Open(s, c).indent = s.indent + 1
      /\ \A i \in Level : Open(s, c).tok[i] = IF i = s.indent + 1 THEN "if" ELSE s.tok[i]
      /\ \A i \in Level : i # s.indent + 1 => Open(s, c).T[i] = s.T[i]
  BY <1>1 DEF IfStates, Open
<1>3. 0 \in Level /\ \A i \in 1 .. s.indent + 1 : i \in Level
  BY <1>1, IfDepthAssumption DEF Level
<1> QED
  BY <1>1, <1>2, <1>3 DEF FramesAt, Opener

(* Ending a branch writes the innermost block, which is the scope's own.   *)
LEMMA BranchFrames ==
  ASSUME NEW s \in IfStates, NEW b \in Level, FramesAt(s, b, FALSE),
         s.indent > b, NEW k \in {"elif", "else"}
  PROVE  FramesAt(Branch(s, k), b, FALSE) /\ FramesAt(Unindent(Branch(s, k)), b, FALSE)
<1>1. s.indent \in Nat /\ b \in Nat /\ s.indent \in Level
  BY IfDepthAssumption DEF IfStates, Level
<1>2. /\ Branch(s, k).indent = s.indent
      /\ \A i \in Level : Branch(s, k).tok[i] = IF i = s.indent THEN k ELSE s.tok[i]
      /\ \A i \in Level : i # s.indent => Branch(s, k).T[i] = s.T[i]
  BY <1>1 DEF IfStates, Branch
<1>3. 0 \in Level /\ \A i \in 1 .. s.indent : i \in Level
  BY <1>1, IfDepthAssumption DEF Level
<1>4. FramesAt(Branch(s, k), b, FALSE)
  BY <1>1, <1>2, <1>3 DEF FramesAt, Opener
<1>5. /\ Unindent(Branch(s, k)).indent = s.indent - 1
      /\ Unindent(Branch(s, k)).tok = Branch(s, k).tok
      /\ Unindent(Branch(s, k)).T = Branch(s, k).T
  BY <1>2 DEF Unindent, Branch, IfStates
<1>6. FramesAt(Unindent(Branch(s, k)), b, FALSE)
  BY <1>1, <1>2, <1>4, <1>5 DEF FramesAt
<1> QED
  BY <1>4, <1>6

LEMMA CloseFrames ==
  ASSUME NEW s \in IfStates, NEW b \in Level, FramesAt(s, b, FALSE), s.indent > b
  PROVE  FramesAt(Close(s), b, FALSE)
<1>1. s.indent \in Nat /\ b \in Nat /\ s.indent \in Level
  BY IfDepthAssumption DEF IfStates, Level
<1>2. /\ Close(s).indent = s.indent - 1
      /\ \A i \in Level : i # s.indent => Close(s).tok[i] = s.tok[i]
      /\ Close(s).T = s.T
  BY <1>1 DEF IfStates, Close
<1>3. 0 \in Level /\ \A i \in 1 .. s.indent : i \in Level
  BY <1>1, IfDepthAssumption DEF Level
<1> QED
  BY <1>1, <1>2, <1>3 DEF FramesAt

(* Moving the counter: down to the base of a scope, or to 0 while an error *)
(* is on its way or nothing is open below.                                 *)
LEMMA ResetFrames ==
  ASSUME NEW s \in IfStates, NEW b \in Level, NEW e \in BOOLEAN, FramesAt(s, b, e)
  PROVE  FramesAt(Reset(s, b), b, FALSE)
<1>1. Reset(s, b).indent = b /\ Reset(s, b).tok = s.tok /\ Reset(s, b).T = s.T
  BY DEF Reset, IfStates
<1> QED
  BY <1>1 DEF FramesAt, Level

LEMMA RelaxFrames ==
  ASSUME NEW s \in IfStates, NEW b \in Level, NEW e \in BOOLEAN, FramesAt(s, b, e)
  PROVE  /\ FramesAt(Relax(s), b, TRUE)
         /\ b = 0 => FramesAt(Relax(s), b, FALSE)
<1>1. Relax(s).indent = 0 /\ Relax(s).tok = s.tok /\ Relax(s).T = s.T
  BY DEF Relax, IfStates
<1> QED
  BY <1>1 DEF FramesAt, Level

(* A caller's base is below that of its callee.                            *)
LEMMA LowerFrames ==
  ASSUME NEW s \in IfStates, NEW b \in Level, NEW e \in BOOLEAN, FramesAt(s, b, e),
         NEW c \in Level, c <= b
  PROVE  FramesAt(s, c, e) /\ FramesAt(s, c, TRUE)
<1>1. b \in Nat /\ c \in Nat /\ s.indent \in Nat
  BY IfDepthAssumption DEF Level, IfStates
<1> QED
  BY <1>1 DEF FramesAt

(***************************************************************************)
(* Steps                                                                   *)
(***************************************************************************)
LEMMA TopFacts ==
  ASSUME TypeOK, Stack
  PROVE  /\ Len(scopes) \in Nat \ {0} /\ DOMAIN scopes = 1 .. Len(scopes)
         /\ Top \in Scope /\ Top.base \in Level /\ Top = scopes[Len(scopes)]
         /\ Top.kind = "main" => Len(scopes) = 1 /\ Top.base = 0
         /\ Top.kind # "main" => Len(scopes) > 1
<1>1. Len(scopes) \in Nat \ {0} /\ scopes \in [1 .. Len(scopes) -> Scope]
  BY EmptySeq, LenProperties DEF TypeOK
<1>2. Len(scopes) > 1 => Len(scopes) \in 2 .. Len(scopes)
  BY <1>1
<1> QED
  BY <1>1, <1>2 DEF Top, Stack, Scope

(* flow_control() keeps the frames of the scope it works in.               *)
LEMMA FlowErrorStep ==
  ASSUME TypeOK, Stack, Frames, FlowError
  PROVE  ifs' \in IfStates /\ err' \in BOOLEAN /\ FramesAt(ifs', Top.base, err')
<1>1. Top.base \in Level /\ (Top.kind = "main" => Top.base = 0)
  BY TopFacts
<1>2. ifs' = Relax(ifs) /\ err' = (Top.kind # "main")
  BY DEF FlowError
<1>3. ifs' \in IfStates
  BY <1>2, RelaxType DEF TypeOK
<1>4. FramesAt(Relax(ifs), Top.base, TRUE) /\ (Top.base = 0 => FramesAt(Relax(ifs), Top.base, FALSE))
  BY <1>1, RelaxFrames DEF TypeOK, Frames
<1> QED
  BY <1>1, <1>2, <1>3, <1>4

LEMMA SetIfStep ==
  ASSUME TypeOK, Stack, Frames, ~err,
         NEW s \in IfStates, FramesAt(s, Top.base, FALSE), NEW c \in BOOLEAN, SetIf(s, c)
  PROVE  ifs' \in IfStates /\ err' \in BOOLEAN /\ FramesAt(ifs', Top.base, err')
<1>1. CASE CanOpen(s) /\ ifs' = Open(s, c) /\ UNCHANGED err
  <2>1. Open(s, c) \in IfStates /\ Top.base \in Level
    BY <1>1, OpenType, TopFacts
  <2>2. FramesAt(Open(s, c), Top.base, FALSE)
    BY <1>1, <2>1, OpenFrames
  <2>3. err' = FALSE
    BY <1>1 DEF TypeOK
  <2> QED
    BY <1>1, <2>1, <2>2, <2>3
<1>2. CASE FlowError
  BY <1>2, FlowErrorStep
<1> QED
  BY <1>1, <1>2 DEF SetIf

LEMMA EvaluateStep ==
  ASSUME TypeOK, Stack, Frames, ~err,
         NEW s \in IfStates, FramesAt(s, Top.base, FALSE), Evaluate(s)
  PROVE  ifs' \in IfStates /\ err' \in BOOLEAN /\ FramesAt(ifs', Top.base, err')
<1>1. CASE \E c \in BOOLEAN : SetIf(s, c)
  BY <1>1, SetIfStep
<1>2. CASE FlowError
  BY <1>2, FlowErrorStep
<1> QED
  BY <1>1, <1>2 DEF Evaluate

(* The end of a loop or function without an error: its caller finds the    *)
(* frames it left.                                                         *)
LEMMA SucceedStep ==
  ASSUME TypeOK, Stack, Len(scopes) > 1, returnLine' \in BOOLEAN,
         NEW s \in IfStates, FramesAt(s, Top.base, FALSE), Succeed(s)
  PROVE  TypeOK' /\ Frames' /\ Kept(scopes, scopes')
         /\ Len(scopes') = Len(scopes) - 1
<1> DEFINE n == Len(scopes)
<1>1. Kept(scopes, scopes') /\ Len(scopes') = n - 1
  BY SucceedKept
<1>2. n \in Nat /\ n - 1 \in 1 .. n - 1 /\ n \in 2 .. n /\ scopes[n] = Top /\ Top.base \in Level
  BY TopFacts
<1>3. scopes' \in Seq(Scope) /\ scopes' # << >> /\ scopes'[n - 1] \in Scope
  BY <1>1, <1>2, EmptySeq, LenProperties DEF Kept
<1>4. Top' = scopes'[n - 1]
  BY <1>1 DEF Top
<1>5. Top'.base = scopes[n - 1].base
  BY <1>1, <1>2, <1>4 DEF Kept
<1>6. Top'.base \in Level /\ Top'.base <= Top.base
  BY <1>2, <1>3, <1>4, <1>5 DEF Stack, Scope
<1>7. ifs' = s /\ err' = FALSE
  BY DEF Succeed
<1>8. FramesAt(ifs', Top'.base, err')
  BY <1>2, <1>6, <1>7, LowerFrames
<1> QED
  BY <1>1, <1>3, <1>7, <1>8 DEF TypeOK, Frames

(* The end with an error: a caller with "catch" finds the frames it left,  *)
(* any other one has its error passed on, and the script starts afresh.    *)
LEMMA ReturnStep ==
  ASSUME TypeOK, Stack, Len(scopes) > 1, returnLine' \in BOOLEAN,
         NEW s \in IfStates, FramesAt(s, Top.base, TRUE),
         Top.caught => FramesAt(s, Top.base, FALSE),
         Return(s),
         s.indent = 0 \/ FramesAt(s, Top.base, FALSE)
  PROVE  TypeOK' /\ Frames' /\ Kept(scopes, scopes')
         /\ Len(scopes') = Len(scopes) - 1
<1> DEFINE n == Len(scopes)
           caller == scopes[n - 1]
<1>1. Kept(scopes, scopes') /\ Len(scopes') = n - 1
  BY ReturnKept
<1>2. n \in Nat /\ n - 1 \in 1 .. n - 1 /\ n - 1 \in 1 .. n /\ n \in 2 .. n
      /\ scopes[n] = Top /\ Top.base \in Level
  BY TopFacts
<1>3. scopes' \in Seq(Scope) /\ scopes' # << >> /\ scopes'[n - 1] \in Scope
  BY <1>1, <1>2, EmptySeq, LenProperties DEF Kept
<1>4. Top' = scopes'[n - 1]
  BY <1>1 DEF Top
<1>5. Top'.base = caller.base
  BY <1>1, <1>2, <1>4 DEF Kept
<1>6. Top'.base \in Level /\ Top'.base <= Top.base
  BY <1>2, <1>3, <1>4, <1>5 DEF Stack, Scope
<1>7. caller.kind = "main" => Top'.base = 0
  <2>1. n - 1 > 1 => n - 1 \in 2 .. n
    BY <1>2
  <2> QED
    BY <1>2, <1>5, <2>1 DEF Stack
<1>8. CASE Top.caught
  <2>1. ifs' = s /\ err' = FALSE
    BY <1>8 DEF Return, FailTo
  <2>2. FramesAt(ifs', Top'.base, err')
    BY <1>2, <1>6, <1>8, <2>1, LowerFrames
  <2> QED
    BY <1>1, <1>3, <2>1, <2>2 DEF TypeOK, Frames
<1>9. CASE ~Top.caught
  <2>1. /\ err' = (caller.kind # "main")
        /\ ifs' = s \/ ifs' = Relax(s)
    BY <1>9 DEF Return, FailTo
  <2>2. ifs' \in IfStates
    BY <2>1, RelaxType
  <2>3. FramesAt(s, Top'.base, TRUE) /\ (FramesAt(s, Top.base, FALSE) => FramesAt(s, Top'.base, FALSE))
    BY <1>2, <1>6, LowerFrames
  <2>4. Top'.base = 0 => FramesAt(s, Top'.base, FALSE)
    BY <2>3, IfDepthAssumption DEF FramesAt, IfStates, Level
  <2>5. FramesAt(Relax(s), Top'.base, TRUE)
        /\ (Top'.base = 0 => FramesAt(Relax(s), Top'.base, FALSE))
    BY <1>6, <2>3, RelaxFrames
  <2>6. FramesAt(ifs', Top'.base, err')
    BY <1>7, <2>1, <2>3, <2>4, <2>5
  <2> QED
    BY <1>1, <1>3, <2>1, <2>2, <2>6 DEF TypeOK, Frames
<1> QED
  BY <1>8, <1>9

(* A scope that waits for a loop goes on waiting when a scope above it     *)
(* ends, so a pending "return" keeps its owner.                            *)
LEMMA LoopWaits ==
  ASSUME TypeOK, Stack, Len(scopes) > 1, NEW s, Succeed(s) \/ Return(s),
         scopes[Len(scopes) - 1].at = "loop"
  PROVE  scopes'[Len(scopes) - 1].at = "loop"
<1> DEFINE n == Len(scopes)
           b == Below(scopes)
<1>1. n \in Nat /\ n - 1 \in 1 .. n - 1
  BY TopFacts
<1>2. b \in Seq(Scope) /\ Len(b) = n - 1 /\ b[n - 1] = scopes[n - 1]
  BY <1>1, BelowFacts DEF TypeOK
<1>3. b \in [1 .. n - 1 -> Scope]
  BY <1>2, LenProperties
<1>4. TopAt(b, "loop")[n - 1].at = "loop"
  BY <1>1, <1>2, <1>3 DEF TopAt, Scope
<1>5. scopes' = b \/ scopes' = TopAt(b, "loop")
  BY DEF Succeed, Return, FailTo
<1> QED
  BY <1>2, <1>4, <1>5

(* The step drops at most the top scope, which owns no pending return, and *)
(* leaves the others waiting.                                              *)
StillWaits ==
    /\ ~(Top.kind = "fn" /\ Top.at = "loop")
    /\ \/ Len(scopes') = Len(scopes)
       \/ /\ Len(scopes') = Len(scopes) - 1
          /\ scopes[Len(scopes) - 1].at = "loop" => scopes'[Len(scopes) - 1].at = "loop"

LEMMA NextToTop ==
  ASSUME NEW n \in Nat, NEW m \in Nat, NEW k \in 1 .. n, k # n, m = n \/ m = n - 1
  PROVE  k \in 1 .. m /\ (k < m \/ (k = m /\ k = n - 1 /\ m # n))
  OBVIOUS

LEMMA OwnedKept ==
  ASSUME TypeOK, Stack, Owned(scopes), Kept(scopes, scopes'), StillWaits
  PROVE  Owned(scopes')
<1>1. /\ Len(scopes) \in Nat \ {0} /\ DOMAIN scopes = 1 .. Len(scopes)
      /\ Top = scopes[Len(scopes)]
  BY TopFacts
<1>2. Len(scopes') \in Nat /\ DOMAIN scopes' = 1 .. Len(scopes')
  BY LenProperties DEF Kept
<1>3. PICK k \in 1 .. Len(scopes) : scopes[k].kind = "fn" /\ scopes[k].at = "loop"
  BY <1>1 DEF Owned
<1>4. k # Len(scopes)
  BY <1>1, <1>3, Zenon DEF StillWaits
<1>5. \/ Len(scopes') = Len(scopes)
      \/ /\ Len(scopes') = Len(scopes) - 1
         /\ scopes[Len(scopes) - 1].at = "loop" => scopes'[Len(scopes) - 1].at = "loop"
  BY DEF StillWaits
<1>6. k \in 1 .. Len(scopes')
      /\ (k < Len(scopes') \/ (/\ k = Len(scopes') /\ k = Len(scopes) - 1
                                /\ Len(scopes') # Len(scopes)))
  BY <1>1, <1>2, <1>4, <1>5, NextToTop
<1>7. scopes'[k].kind = "fn" /\ scopes'[k].at = "loop"
  <2>1. CASE k < Len(scopes')
    BY <1>3, <1>6, <2>1 DEF Kept
  <2>2. CASE k = Len(scopes) - 1 /\ Len(scopes') # Len(scopes)
    <3>1. scopes'[k].at = "loop"
      BY <1>3, <1>5, <2>2
    <3> QED
      BY <1>3, <1>6, <3>1 DEF Kept
  <2> QED
    BY <1>6, <2>1, <2>2
<1> QED
  BY <1>2, <1>6, <1>7, Zenon DEF Owned

(* A scope that reads a line calls: pending returns belong to others.      *)
LEMMA OwnedPushed ==
  ASSUME TypeOK, Stack, Owned(scopes), Top.at = "line",
         NEW kind \in {"fn", "loop"}, NEW at \in Places,
         NEW base \in Level, NEW caught \in BOOLEAN,
         Push(kind, at, base, caught)
  PROVE  Owned(scopes')
<1> DEFINE n == Len(scopes)
<1>1. n \in Nat \ {0} /\ DOMAIN scopes = 1 .. n /\ Top = scopes[n]
  BY TopFacts
<1>2. Len(scopes') = n + 1 /\ DOMAIN scopes' = 1 .. n + 1
  BY PushFacts, LenProperties
<1>3. PICK k \in 1 .. n : scopes[k].kind = "fn" /\ scopes[k].at = "loop"
  BY <1>1 DEF Owned
<1>4. k \in 1 .. n - 1
  BY <1>1, <1>3
<1>5. scopes'[k].kind = "fn" /\ scopes'[k].at = "loop"
  BY <1>1, <1>3, <1>4, PushFacts
<1> QED
  BY <1>1, <1>2, <1>4, <1>5 DEF Owned

(***************************************************************************)
(* Kinds of steps                                                          *)
(***************************************************************************)
LEMMA SameScopesStep ==
  ASSUME IInv, UNCHANGED <<scopes, returnLine>>,
         ifs' \in IfStates, err' \in BOOLEAN, FramesAt(ifs', Top.base, err')
  PROVE  IInv'
<1>1. TypeOK'
  BY DEF IInv, TypeOK
<1>2. Stack'
  BY DEF IInv, Stack
<1>3. Frames'
  BY DEF Frames, Top
<1>4. Pending'
  BY DEF IInv, Pending
<1> QED
  BY <1>1, <1>2, <1>3, <1>4 DEF IInv

LEMMA TopAtStep ==
  ASSUME IInv, scopes' = TopAt(scopes, "line"), UNCHANGED returnLine,
         returnLine => ~(Top.kind = "fn" /\ Top.at = "loop"),
         ifs' \in IfStates, err' \in BOOLEAN, FramesAt(ifs', Top.base, err')
  PROVE  IInv'
<1>1. Kept(scopes, scopes') /\ Len(scopes') = Len(scopes)
  BY TopAtKept DEF IInv, TypeOK, Places
<1>2. TypeOK'
  BY <1>1, EmptySeq DEF IInv, TypeOK, Kept
<1>3. Stack'
  BY <1>1, StackKept DEF IInv
<1>4. Top'.base = Top.base
  BY <1>1 DEF Top, Kept
<1>5. Frames'
  BY <1>4 DEF Frames
<1>6. ASSUME returnLine PROVE Owned(scopes')
  <2>1. Owned(scopes)
    BY <1>6, Zenon DEF IInv, Pending
  <2>2. StillWaits
    BY <1>1, <1>6, Zenon DEF StillWaits
  <2> QED
    BY <1>1, <2>1, <2>2, OwnedKept DEF IInv
<1>7. Pending'
  BY <1>6, Zenon DEF IInv, Pending
<1> QED
  BY <1>2, <1>3, <1>5, <1>7 DEF IInv

(* A scope that calls while it reads a line owns no pending return.        *)
OwnerWaits == /\ returnLine' \in BOOLEAN
              /\ returnLine' => returnLine /\ Top.at = "line"

LEMMA ReaderWaits == ASSUME IInv, Reading, UNCHANGED returnLine PROVE OwnerWaits
  BY Zenon DEF IInv, TypeOK, Reading, OwnerWaits

LEMMA PushStep ==
  ASSUME IInv, UNCHANGED err, ~err, OwnerWaits,
         NEW kind \in {"fn", "loop"}, NEW at \in Places,
         NEW base \in Level, NEW caught \in BOOLEAN,
         Push(kind, at, base, caught),
         Top.base <= base, kind = "loop" => at = "loop",
         caught => kind = "fn" /\ CatchCalls /\ InFunction(scopes),
         ifs' \in IfStates, FramesAt(ifs', base, FALSE)
  PROVE  IInv'
<1>1. /\ scopes' \in Seq(Scope) /\ Len(scopes') = Len(scopes) + 1
      /\ scopes'[Len(scopes')] = NewScope(kind, base, caught)
  BY PushFacts DEF IInv
<1>2. Len(scopes) \in Nat
  BY TopFacts DEF IInv
<1>3. TypeOK'
  <2>1. scopes' # << >>
    BY <1>1, <1>2, EmptySeq
  <2>2. err' \in BOOLEAN /\ returnLine' \in BOOLEAN
    BY Zenon DEF IInv, TypeOK, OwnerWaits
  <2> QED
    BY <1>1, <2>1, <2>2 DEF TypeOK
<1>4. Stack'
  BY StackPushed DEF IInv
<1>5. Frames'
  <2>1. Top'.base = base
    BY <1>1 DEF Top, NewScope
  <2>2. err' = FALSE
    BY DEF IInv, TypeOK
  <2> QED
    BY <2>1, <2>2 DEF Frames
<1>6. Top.at = "line" /\ Owned(scopes) => Owned(scopes')
  BY OwnedPushed DEF IInv
<1>7. Pending'
  BY <1>6, Zenon DEF IInv, Pending, OwnerWaits
<1> QED
  BY <1>3, <1>4, <1>5, <1>7 DEF IInv

LEMMA PopStep ==
  ASSUME IInv, TypeOK', Frames', Kept(scopes, scopes'),
         \/ ~returnLine'
         \/ UNCHANGED returnLine /\ StillWaits
  PROVE  IInv'
<1>1. Stack'
  BY StackKept DEF IInv
<1>2. StillWaits /\ Owned(scopes) => Owned(scopes')
  BY OwnedKept DEF IInv
<1>3. Pending'
  BY <1>2, Zenon DEF IInv, Pending
<1> QED
  BY <1>1, <1>3 DEF IInv

LEMMA SucceedInv ==
  ASSUME IInv, Top.kind # "main", Top.at # "loop", UNCHANGED returnLine,
         NEW s \in IfStates, FramesAt(s, Top.base, FALSE), Succeed(s)
  PROVE  IInv'
<1>1. Len(scopes) > 1 /\ returnLine' \in BOOLEAN
  BY TopFacts DEF IInv, TypeOK
<1>2. /\ TypeOK' /\ Frames' /\ Kept(scopes, scopes')
      /\ Len(scopes') = Len(scopes) - 1
  BY <1>1, SucceedStep DEF IInv
<1>3. scopes[Len(scopes) - 1].at = "loop" => scopes'[Len(scopes) - 1].at = "loop"
  BY <1>1, LoopWaits DEF IInv
<1>4. StillWaits
  BY <1>2, <1>3 DEF StillWaits
<1> QED
  BY <1>2, <1>4, PopStep

LEMMA ReturnInv ==
  ASSUME IInv, Top.kind # "main", UNCHANGED returnLine,
         ~(Top.kind = "fn" /\ Top.at = "loop") \/ ~returnLine,
         NEW s \in IfStates, FramesAt(s, Top.base, TRUE),
         Top.caught => FramesAt(s, Top.base, FALSE),
         s.indent = 0 \/ FramesAt(s, Top.base, FALSE),
         Return(s)
  PROVE  IInv'
<1>1. Len(scopes) > 1 /\ returnLine' \in BOOLEAN
  BY TopFacts DEF IInv, TypeOK
<1>2. /\ TypeOK' /\ Frames' /\ Kept(scopes, scopes')
      /\ Len(scopes') = Len(scopes) - 1
  BY <1>1, ReturnStep DEF IInv
<1>3. scopes[Len(scopes) - 1].at = "loop" => scopes'[Len(scopes) - 1].at = "loop"
  BY <1>1, LoopWaits DEF IInv
<1>4. CASE ~returnLine
  BY <1>2, <1>4, PopStep
<1>5. CASE ~(Top.kind = "fn" /\ Top.at = "loop")
  <2>1. StillWaits
    BY <1>2, <1>3, <1>5 DEF StillWaits
  <2> QED
    BY <1>2, <2>1, PopStep
<1> QED
  BY <1>4, <1>5

(***************************************************************************)
(* The lines that flow_control() acts on                                   *)
(***************************************************************************)
LEMMA ReadingFacts ==
  ASSUME IInv, Reading
  PROVE  /\ ~err /\ Top.at = "line" /\ ifs \in IfStates /\ err = FALSE
         /\ FramesAt(ifs, Top.base, FALSE) /\ Top.base \in Level /\ ifs.indent \in Level
         /\ (CanBranch(ifs) \/ CanClose(ifs)) => ifs.indent > 0
<1>1. ifs \in IfStates /\ ifs.indent \in Level /\ ifs.indent \in Nat
  BY DEF IInv, TypeOK, IfStates, Level
<1>2. ~err /\ err = FALSE /\ Top.at = "line"
  BY DEF IInv, TypeOK, Reading
<1>3. FramesAt(ifs, Top.base, FALSE)
  BY <1>2 DEF IInv, Frames
<1>4. ASSUME CanBranch(ifs) \/ CanClose(ifs) PROVE ifs.indent > 0
  <2>1. ifs.indent # 0
    BY <1>3, <1>4 DEF FramesAt, CanBranch, CanClose
  <2> QED
    BY <1>1, <2>1
<1>5. Top.base \in Level
  BY TopFacts DEF IInv
<1> QED
  BY <1>1, <1>2, <1>3, <1>4, <1>5

LEMMA FlowControlInv == ASSUME IInv, FlowControl PROVE IInv'
<1>1. CASE If
  <2>1. ASSUME Blocked(ifs) /\ SetIf(ifs, FALSE) PROVE IInv'
    BY <1>1, <2>1, ReadingFacts, SetIfStep, SameScopesStep DEF If, IInv
  <2>2. ASSUME Evaluate(ifs) PROVE IInv'
    BY <1>1, <2>2, ReadingFacts, EvaluateStep, SameScopesStep DEF If, IInv
  <2> QED
    BY <1>1, <2>1, <2>2 DEF If
<1>2. CASE Elif
  <2> DEFINE s == Branch(ifs, "elif")
  <2>1. /\ Reading /\ OwnBlock /\ UNCHANGED <<scopes, returnLine>>
        /\ \/ FlowError
           \/ CanBranch(ifs) /\ ifs' = s /\ UNCHANGED err
           \/ CanBranch(ifs) /\ Evaluate(Unindent(s))
    BY <1>2 DEF Elif
  <2>2. CASE FlowError
    BY <2>1, <2>2, FlowErrorStep, SameScopesStep DEF IInv
  <2>3. CASE CanBranch(ifs)
    <3>1. ifs.indent > Top.base
      BY <2>1, <2>3, ReadingFacts DEF OwnBlock
    <3>2. s \in IfStates /\ FramesAt(s, Top.base, FALSE)
      BY <2>1, <3>1, ReadingFacts, BranchType, BranchFrames
    <3>3. Unindent(s) \in IfStates /\ FramesAt(Unindent(s), Top.base, FALSE)
      <4>1. s.indent = ifs.indent /\ ifs.indent - 1 \in Level
        BY <2>1, <2>3, ReadingFacts, IfDepthAssumption DEF Branch, IfStates, Level
      <4> QED
        BY <2>1, <3>1, <3>2, <4>1, ReadingFacts, BranchFrames DEF Unindent, IfStates
    <3>4. CASE ifs' = s /\ UNCHANGED err
      BY <2>1, <3>2, <3>4, ReadingFacts, SameScopesStep
    <3>5. CASE Evaluate(Unindent(s))
      BY <2>1, <3>3, <3>5, ReadingFacts, EvaluateStep, SameScopesStep DEF IInv
    <3> QED
      BY <2>1, <2>2, <3>4, <3>5
  <2> QED
    BY <2>1, <2>2, <2>3
<1>3. CASE Else
  <2> DEFINE s == Branch(ifs, "else")
  <2>1. CASE FlowError
    BY <1>3, <2>1, FlowErrorStep, SameScopesStep DEF IInv, Else
  <2>2. CASE CanBranch(ifs) /\ ifs' = s /\ UNCHANGED err
    <3>1. Reading /\ ifs.indent > Top.base
      BY <1>3, <2>2, ReadingFacts DEF OwnBlock, Else
    <3>2. s \in IfStates /\ FramesAt(s, Top.base, FALSE)
      BY <3>1, ReadingFacts, BranchType, BranchFrames
    <3> QED
      BY <1>3, <2>2, <3>1, <3>2, ReadingFacts, SameScopesStep DEF Else
  <2> QED
    BY <1>3, <2>1, <2>2 DEF Else
<1>4. CASE Endif
  <2>1. CASE FlowError
    BY <1>4, <2>1, FlowErrorStep, SameScopesStep DEF IInv, Endif
  <2>2. CASE CanClose(ifs) /\ ifs' = Close(ifs) /\ UNCHANGED err
    <3>1. Reading /\ ifs.indent > Top.base /\ ifs.indent > 0
      BY <1>4, <2>2, ReadingFacts DEF OwnBlock, Endif
    <3>2. Close(ifs) \in IfStates /\ FramesAt(Close(ifs), Top.base, FALSE)
      BY <3>1, ReadingFacts, CloseType, CloseFrames
    <3> QED
      BY <1>4, <2>2, <3>1, <3>2, ReadingFacts, SameScopesStep DEF Endif
  <2> QED
    BY <1>4, <2>1, <2>2 DEF Endif
<1>5. CASE Resume
  <2>1. /\ ~err /\ Top.at \in {"if", "elif"} /\ Evaluate(ifs)
        /\ scopes' = TopAt(scopes, "line") /\ UNCHANGED returnLine
    BY <1>5 DEF Resume
  <2>2. ifs \in IfStates /\ FramesAt(ifs, Top.base, FALSE)
    BY <2>1 DEF IInv, TypeOK, Frames
  <2>3. ifs' \in IfStates /\ err' \in BOOLEAN /\ FramesAt(ifs', Top.base, err')
    BY <2>1, <2>2, EvaluateStep DEF IInv
  <2> QED
    BY <2>1, <2>3, TopAtStep
<1>6. CASE CommandFails
  <2>1. FramesAt(ifs, Top.base, TRUE)
    BY <1>6, ReadingFacts DEF CommandFails, FramesAt
  <2> QED
    BY <1>6, <2>1, SameScopesStep DEF CommandFails, IInv, TypeOK
<1> QED
  BY <1>1, <1>2, <1>3, <1>4, <1>5, <1>6 DEF FlowControl

(***************************************************************************)
(* Functions and loops                                                     *)
(***************************************************************************)
LEMMA BlockedFrames ==
  ASSUME IInv, Reading
  PROVE  FramesAt(ifs, ifs.indent, FALSE) <=> ~Blocked(ifs)
BY ReadingFacts DEF FramesAt, Blocked, Level

(* A check that succeeds leaves a scope whose blocks are all closed; one   *)
(* that fails gives up everything, which only a "catch" could notice.      *)
LEMMA AtBaseFrames ==
  ASSUME IInv, ifs.indent = Top.base
  PROVE  FramesAt(ifs, Top.base, FALSE)
<1>1. ifs.indent \in Nat
  BY DEF IInv, TypeOK, IfStates, Level
<1> QED
  BY <1>1 DEF IInv, Frames, FramesAt

LEMMA RelaxedFrames ==
  ASSUME IInv
  PROVE  /\ Relax(ifs) \in IfStates /\ Relax(ifs).indent = 0
         /\ FramesAt(Relax(ifs), Top.base, TRUE)
<1>1. Top.base \in Level /\ ifs \in IfStates /\ err \in BOOLEAN
  BY TopFacts DEF IInv, TypeOK
<1>2. Relax(ifs) \in IfStates /\ Relax(ifs).indent = 0
  BY <1>1, RelaxType DEF Relax, IfStates
<1>3. FramesAt(Relax(ifs), Top.base, TRUE)
  BY <1>1, RelaxFrames DEF IInv, Frames
<1> QED
  BY <1>2, <1>3

LEMMA UncaughtLoop ==
  ASSUME IInv, Top.kind = "loop"
  PROVE  ~Top.caught
<1>1. Len(scopes) \in 1 .. Len(scopes) /\ Top = scopes[Len(scopes)]
  BY TopFacts DEF IInv
<1> QED
  BY <1>1 DEF IInv, Stack

LEMMA CaughtInside ==
  ASSUME IInv, Top.caught
  PROVE  CatchCalls /\ InFunction(Below(scopes))
<1>1. /\ Len(scopes) \in Nat \ {0} /\ Len(scopes) \in 1 .. Len(scopes)
      /\ Top = scopes[Len(scopes)]
  BY TopFacts DEF IInv
<1>2. CatchCalls /\ \E j \in 1 .. Len(scopes) - 1 : scopes[j].kind = "fn"
  BY <1>1 DEF IInv, Stack
<1>3. Len(scopes) > 1
  BY <1>1, <1>2
<1>4. /\ Below(scopes) \in Seq(Scope) /\ Len(Below(scopes)) = Len(scopes) - 1
      /\ \A i \in 1 .. Len(scopes) - 1 : Below(scopes)[i] = scopes[i]
  BY <1>3, BelowFacts DEF IInv, TypeOK
<1>5. DOMAIN Below(scopes) = 1 .. Len(scopes) - 1
  BY <1>4, LenProperties
<1> QED
  BY <1>2, <1>4, <1>5 DEF InFunction

LEMMA ValueFailsInv ==
  ASSUME IInv, ValueFails,
         returnLine' \in BOOLEAN,
         returnLine' => returnLine /\ ~(Top.kind = "fn" /\ Top.at = "loop")
  PROVE  IInv'
<1>1. Kept(scopes, scopes') /\ Len(scopes') = Len(scopes)
  BY TopAtKept DEF IInv, TypeOK, ValueFails, Places
<1>2. Top.base \in Level /\ err \in BOOLEAN /\ FramesAt(ifs, Top.base, err)
  BY TopFacts DEF IInv, TypeOK, Frames
<1>3. TypeOK'
  <2>1. scopes' \in Seq(Scope) /\ scopes' # << >>
    BY <1>1, EmptySeq DEF Kept
  <2> QED
    BY <2>1 DEF IInv, TypeOK, ValueFails
<1>4. Stack'
  BY <1>1, StackKept DEF IInv
<1>5. Top'.base = Top.base
  BY <1>1 DEF Top, Kept
<1>6. Frames'
  BY <1>2, <1>5 DEF Frames, FramesAt, ValueFails
<1>7. returnLine' => Owned(scopes')
  <2>1. returnLine' => StillWaits /\ Owned(scopes)
    BY <1>1, Zenon DEF StillWaits, IInv, Pending
  <2> QED
    BY <1>1, <2>1, OwnedKept, Zenon DEF IInv
<1>8. Pending'
  BY <1>7, Zenon DEF IInv, Pending
<1> QED
  BY <1>3, <1>4, <1>6, <1>8 DEF IInv

LEMMA FunctionInv ==
  ASSUME IInv, Function, ~(CatchCalls /\ LoopReturns), "script" \notin Faults
  PROVE  IInv'
<1>1. CASE CallInCommand
  <2>1. PICK caught \in {FALSE, MayCatch} :
           Push("fn", "line", ifs.indent, caught)
    BY <1>1 DEF CallInCommand
  <2>2. caught \in BOOLEAN /\ (caught => CatchCalls /\ InFunction(scopes))
    BY <2>1, ScriptAssumption, Zenon DEF InFunction, MayCatch
  <2>3. /\ Reading /\ ~Blocked(ifs) /\ UNCHANGED <<ifs, err, returnLine>>
    BY <1>1 DEF CallInCommand
  <2>4. Top.base <= ifs.indent /\ ifs.indent \in Level /\ FramesAt(ifs, ifs.indent, FALSE)
        /\ ifs' \in IfStates /\ FramesAt(ifs', ifs.indent, FALSE)
    BY <2>3, ReadingFacts, BlockedFrames DEF FramesAt
  <2> QED
    BY <2>1, <2>2, <2>3, <2>4, ReadingFacts, ReaderWaits, PushStep DEF Places
<1>2. CASE CallInIf
  <2>1. Reading /\ ~Blocked(ifs) /\ UNCHANGED <<ifs, err, returnLine>>
        /\ Push("fn", "if", ifs.indent, FALSE)
    BY <1>2 DEF CallInIf
  <2>2. Top.base <= ifs.indent /\ ifs.indent \in Level
        /\ ifs' \in IfStates /\ FramesAt(ifs', ifs.indent, FALSE)
    BY <2>1, ReadingFacts, BlockedFrames DEF FramesAt
  <2> QED
    BY <2>1, <2>2, ReadingFacts, ReaderWaits, PushStep DEF Places
<1>3. CASE CallInElif
  <2> DEFINE s == Branch(ifs, "elif")
             b == ifs.indent - 1
  <2>1. /\ Reading /\ OwnBlock /\ CanBranch(ifs) /\ ~Blocked(s) /\ ifs' = Unindent(s)
        /\ Push("fn", "elif", b, FALSE) /\ UNCHANGED <<err, returnLine>>
    BY <1>3 DEF CallInElif
  <2>2. ifs.indent > Top.base /\ ifs.indent \in Nat /\ Top.base \in Nat /\ b \in Level
    BY <2>1, ReadingFacts, IfDepthAssumption DEF OwnBlock, Level
  <2>3. s \in IfStates /\ s.indent = ifs.indent
        /\ FramesAt(s, Top.base, FALSE) /\ FramesAt(Unindent(s), Top.base, FALSE)
    BY <2>1, <2>2, ReadingFacts, BranchType, BranchFrames DEF Branch, IfStates
  <2>4. /\ Unindent(s) \in IfStates
        /\ Unindent(s).indent = b /\ Unindent(s).T = s.T /\ Unindent(s).tok = s.tok
    BY <2>2, <2>3 DEF Unindent, IfStates
  <2>5. \A i \in 1 .. b : s.T[i]
    BY <2>1, <2>2, <2>3 DEF Blocked
  <2>6. FramesAt(Unindent(s), b, FALSE)
    BY <2>2, <2>3, <2>4, <2>5 DEF FramesAt
  <2>7. Top.base <= b
    BY <2>2
  <2>8. ifs' \in IfStates /\ FramesAt(ifs', b, FALSE)
    BY <2>1, <2>4, <2>6, Zenon
  <2> QED
    BY <2>1, <2>2, <2>7, <2>8, ReadingFacts, ReaderWaits, PushStep DEF Places
<1>4. CASE FunctionEnd
  <2>1. /\ Reading /\ Top.kind = "fn" /\ ifs.indent = Top.base /\ Succeed(ifs)
        /\ UNCHANGED returnLine
    BY <1>4 DEF FunctionEnd, CheckedEnd
  <2> QED
    BY <2>1, ReadingFacts, SucceedInv
<1>5. CASE EarlyReturn
  <2>1. /\ Reading /\ Top.kind = "fn" /\ Succeed(Reset(ifs, Top.base))
        /\ UNCHANGED returnLine
    BY <1>5 DEF EarlyReturn
  <2>2. Reset(ifs, Top.base) \in IfStates /\ FramesAt(Reset(ifs, Top.base), Top.base, FALSE)
    BY <2>1, ReadingFacts, ResetType, ResetFrames
  <2> QED
    BY <2>1, <2>2, ReadingFacts, SucceedInv
<1>6. CASE ReturnAfterLoop
  <2>1. /\ Top.kind = "fn" /\ returnLine /\ returnLine' = FALSE
        /\ CheckedEnd \/ ValueFails
    BY <1>6 DEF ReturnAfterLoop
  <2>2. Len(scopes) > 1 /\ returnLine' \in BOOLEAN /\ ~returnLine' /\ ifs \in IfStates
    BY <2>1, TopFacts DEF IInv, TypeOK
  <2>3. CASE ifs.indent = Top.base /\ Succeed(ifs)
    BY <2>2, <2>3, AtBaseFrames, SucceedStep, PopStep DEF IInv
  <2>4. CASE Return(Relax(ifs))
    <3>1. ~Top.caught
      BY <2>1, CaughtInside, Zenon DEF IInv, Pending
    <3>2. TypeOK' /\ Frames' /\ Kept(scopes, scopes')
      BY <2>2, <2>4, <3>1, RelaxedFrames, ReturnStep DEF IInv
    <3> QED
      BY <2>2, <3>2, PopStep
  <2>5. CASE ValueFails
    BY <2>1, <2>5, ValueFailsInv
  <2> QED
    BY <2>1, <2>3, <2>4, <2>5 DEF CheckedEnd
<1>7. CASE AfterLoop
  <2>1. /\ scopes' = TopAt(scopes, "line") /\ UNCHANGED <<ifs, err, returnLine>>
        /\ ~(Top.kind = "fn" /\ returnLine)
    BY <1>7 DEF AfterLoop
  <2>2. returnLine => ~(Top.kind = "fn" /\ Top.at = "loop")
    BY <2>1, Zenon
  <2>3. ifs' \in IfStates /\ err' \in BOOLEAN /\ FramesAt(ifs', Top.base, err')
    BY <2>1 DEF IInv, TypeOK, Frames
  <2> QED
    BY <2>1, <2>2, <2>3, TopAtStep
<1>8. CASE FunctionFails
  <2> DEFINE s == IF InFunction(Below(scopes)) THEN Reset(ifs, Top.base) ELSE Relax(ifs)
  <2>1. Top.kind = "fn" /\ ~(Top.at = "loop" /\ returnLine) /\ Return(s) /\ UNCHANGED returnLine
    BY <1>8 DEF FunctionFails
  <2>2. ~(Top.kind = "fn" /\ Top.at = "loop") \/ ~returnLine
    BY <2>1, Zenon
  <2>3. Top.base \in Level /\ ifs \in IfStates /\ err \in BOOLEAN /\ FramesAt(ifs, Top.base, err)
    BY TopFacts DEF IInv, TypeOK, Frames
  <2>4. CASE InFunction(Below(scopes))
    <3>1. s = Reset(ifs, Top.base)
      BY <2>4
    <3>2. s \in IfStates /\ FramesAt(s, Top.base, FALSE) /\ FramesAt(s, Top.base, TRUE)
      BY <2>3, <3>1, ResetType, ResetFrames DEF FramesAt
    <3> HIDE DEF s
    <3> QED
      BY <2>1, <2>2, <3>2, ReturnInv
  <2>5. CASE ~InFunction(Below(scopes))
    <3>1. s = Relax(ifs) /\ ~Top.caught
      BY <2>5, CaughtInside
    <3>2. s \in IfStates /\ FramesAt(s, Top.base, TRUE) /\ s.indent = 0
      BY <3>1, RelaxedFrames
    <3> HIDE DEF s
    <3> QED
      BY <2>1, <2>2, <3>1, <3>2, ReturnInv
  <2> QED
    BY <2>4, <2>5
<1>9. CASE CallInReturn
  <2>1. /\ ~err /\ ~Blocked(ifs) /\ returnLine' = FALSE /\ UNCHANGED <<ifs, err>>
        /\ Push("fn", "return", ifs.indent, FALSE)
    BY <1>9 DEF CallInReturn
  <2>2. /\ Top.base \in Level /\ ifs \in IfStates /\ ifs.indent \in Level
        /\ FramesAt(ifs, Top.base, FALSE)
    BY <2>1, TopFacts DEF IInv, TypeOK, Frames, IfStates
  <2>3. Top.base <= ifs.indent /\ FramesAt(ifs, ifs.indent, FALSE)
    BY <2>1, <2>2 DEF FramesAt, Blocked, Level
  <2>4. OwnerWaits
    BY <2>1 DEF OwnerWaits
  <2> QED
    BY <2>1, <2>2, <2>3, <2>4, PushStep DEF Places
<1>10. CASE ValueReturned
  <2>1. /\ Top.kind = "fn" /\ Top.at = "return" /\ Top.kind # "main"
        /\ UNCHANGED returnLine /\ ifs \in IfStates /\ returnLine' \in BOOLEAN
    BY <1>10 DEF ValueReturned, IInv, TypeOK
  <2>2. CheckedEnd \/ ValueFails
    BY <1>10 DEF ValueReturned
  <2>3. CASE ifs.indent = Top.base /\ Succeed(ifs)
    BY <2>1, <2>3, AtBaseFrames, SucceedInv
  <2>4. CASE Return(Relax(ifs))
    <3>1. ~Top.caught
      BY <1>10, CaughtInside, Zenon DEF ValueReturned
    <3>2. ~(Top.kind = "fn" /\ Top.at = "loop")
      BY <2>1
    <3> QED
      BY <2>1, <2>4, <3>1, <3>2, RelaxedFrames, ReturnInv
  <2>5. CASE ValueFails
    <3>1. returnLine' => returnLine /\ ~(Top.kind = "fn" /\ Top.at = "loop")
      BY <2>1
    <3> QED
      BY <2>1, <2>5, <3>1, ValueFailsInv
  <2> QED
    BY <2>2, <2>3, <2>4, <2>5 DEF CheckedEnd
<1> QED
  BY <1>1, <1>2, <1>3, <1>4, <1>5, <1>6, <1>7, <1>8, <1>9, <1>10 DEF Function

LEMMA ReturnInLoopKept ==
  ASSUME IInv, ReturnInLoop
  PROVE  /\ Kept(scopes, scopes') /\ Len(scopes') = Len(scopes) - 1
         /\ Len(scopes) > 1 /\ Owned(scopes')
<1> DEFINE n == Len(scopes)
<1>1. /\ n \in Nat /\ n > 1 /\ DOMAIN scopes = 1 .. n /\ Top = scopes[n]
      /\ scopes \in [1 .. n -> Scope] /\ Top.kind = "loop"
  BY TopFacts, LenProperties DEF IInv, TypeOK, ReturnInLoop
<1>2. scopes' = [i \in 1 .. n - 1 |-> IF i \in Activation(scopes)
                                     THEN [scopes[i] EXCEPT !.ret = TRUE] ELSE scopes[i]]
  BY DEF ReturnInLoop
<1>3. ASSUME NEW i \in 1 .. n - 1
      PROVE  /\ scopes'[i] \in Scope
             /\ scopes'[i].kind = scopes[i].kind /\ scopes'[i].base = scopes[i].base
             /\ scopes'[i].caught = scopes[i].caught /\ scopes'[i].at = scopes[i].at
  <2>1. scopes[i] \in Scope
    BY <1>1
  <2>2. scopes'[i] = [scopes[i] EXCEPT !.ret = TRUE] \/ scopes'[i] = scopes[i]
    BY <1>2
  <2> QED
    BY <2>1, <2>2 DEF Scope
<1>4. scopes' \in [1 .. n - 1 -> Scope] /\ DOMAIN scopes' = 1 .. n - 1
  BY <1>2, <1>3
<1>5. scopes' \in Seq(Scope) /\ Len(scopes') = n - 1
  <2>1. n - 1 \in Nat
    BY <1>1
  <2>2. scopes' \in Seq(Scope)
    BY <1>4, <2>1, SeqDef
  <2>3. Len(scopes') \in Nat /\ 1 .. Len(scopes') = 1 .. n - 1
    BY <1>4, <2>2, LenProperties
  <2>4. n - 1 \in 1 .. n - 1
    BY <1>1
  <2>5. n - 1 \in 1 .. Len(scopes')
    BY <2>3, <2>4, Zenon
  <2>6. Len(scopes') \in 1 .. Len(scopes')
    BY <2>3, <2>5
  <2>7. Len(scopes') \in 1 .. n - 1
    BY <2>3, <2>6, Zenon
  <2>8. Len(scopes') = n - 1
    BY <2>1, <2>3, <2>5, <2>7
  <2> QED
    BY <2>2, <2>8
<1>6. Kept(scopes, scopes')
  BY <1>1, <1>3, <1>5 DEF Kept
<1>7. PICK j \in 1 .. n : scopes[j].kind = "fn"
  BY <1>1 DEF ReturnInLoop, InFunction
<1>8. j \in 1 .. n - 1 /\ n \in 1 .. n
  BY <1>1, <1>7
<1>9. PICK k \in 1 .. n - 1 : scopes[k].kind = "fn" /\ scopes[k].at = "loop"
  BY <1>1, <1>7, <1>8 DEF IInv, Stack
<1>10. Owned(scopes')
  BY <1>3, <1>4, <1>9 DEF Owned
<1> QED
  BY <1>1, <1>5, <1>6, <1>10

LEMMA LoopInv == ASSUME IInv, Loop PROVE IInv'
<1>1. CASE StartLoop
  <2>1. Reading /\ ~Blocked(ifs) /\ UNCHANGED <<ifs, err, returnLine>>
        /\ Push("loop", "loop", ifs.indent, FALSE)
    BY <1>1 DEF StartLoop
  <2>2. Top.base <= ifs.indent /\ ifs.indent \in Level
        /\ ifs' \in IfStates /\ FramesAt(ifs', ifs.indent, FALSE)
    BY <2>1, ReadingFacts, BlockedFrames DEF FramesAt
  <2> QED
    BY <2>1, <2>2, ReadingFacts, ReaderWaits, PushStep DEF Places
<1>2. CASE IterationEnd
  <2>1. Reading /\ Top.kind = "loop" /\ UNCHANGED returnLine
    BY <1>2 DEF IterationEnd
  <2>2. CASE Succeed(ifs) /\ ifs.indent = Top.base
    BY <2>1, <2>2, ReadingFacts, SucceedInv
  <2>3. CASE ifs' = Relax(ifs) /\ err' = TRUE /\ UNCHANGED scopes
    BY <2>1, <2>3, RelaxedFrames, SameScopesStep
  <2> QED
    BY <1>2, <2>2, <2>3 DEF IterationEnd
<1>3. CASE Break
  <2>1. Reading /\ Top.kind = "loop" /\ UNCHANGED returnLine /\ Succeed(Reset(ifs, Top.base))
    BY <1>3 DEF Break
  <2>2. Reset(ifs, Top.base) \in IfStates /\ FramesAt(Reset(ifs, Top.base), Top.base, FALSE)
    BY <2>1, ReadingFacts, ResetType, ResetFrames
  <2> QED
    BY <2>1, <2>2, ReadingFacts, SucceedInv
<1>4. CASE ReturnInLoop
  <2> DEFINE n == Len(scopes)
  <2>1. /\ Reading /\ LoopReturns /\ returnLine' = TRUE /\ UNCHANGED err
        /\ ifs' = Reset(ifs, Top.base)
    BY <1>4 DEF ReturnInLoop
  <2>2. Kept(scopes, scopes') /\ Len(scopes') = n - 1 /\ n > 1 /\ Owned(scopes')
    BY <1>4, ReturnInLoopKept
  <2>3. ifs' \in IfStates /\ FramesAt(ifs', Top.base, FALSE)
    BY <2>1, ReadingFacts, ResetType, ResetFrames
  <2>4. n \in Nat /\ n \in 2 .. n /\ n - 1 \in 1 .. n - 1 /\ scopes[n] = Top
    BY <2>2, TopFacts DEF IInv
  <2>5. scopes' \in Seq(Scope) /\ scopes' # << >> /\ scopes'[n - 1] \in Scope
    BY <2>2, <2>4, EmptySeq, LenProperties DEF Kept
  <2>6. Top'.base = scopes[n - 1].base
    BY <2>2, <2>4 DEF Kept, Top
  <2>7. Top'.base \in Level /\ Top'.base <= Top.base /\ Top.base \in Level
    <3>1. scopes[n - 1] \in Scope
      BY <2>4, LenProperties DEF IInv, TypeOK
    <3> QED
      BY <2>1, <2>4, <2>6, <3>1, ReadingFacts DEF IInv, Stack, Scope
  <2>8. FramesAt(ifs', Top'.base, FALSE) /\ err' = FALSE
    BY <2>1, <2>3, <2>7, ReadingFacts, LowerFrames
  <2>9. TypeOK' /\ Frames'
    BY <2>1, <2>3, <2>5, <2>8 DEF TypeOK, Frames
  <2>10. Stack'
    BY <2>2, StackKept DEF IInv
  <2>11. Pending'
    BY <2>1, <2>2 DEF Pending
  <2> QED
    BY <2>9, <2>10, <2>11 DEF IInv
<1>5. CASE LoopFails
  <2>1. Top.kind = "loop" /\ Return(Relax(ifs)) /\ UNCHANGED returnLine
    BY <1>5 DEF LoopFails
  <2> QED
    BY <2>1, RelaxedFrames, UncaughtLoop, ReturnInv
<1> QED
  BY <1>1, <1>2, <1>3, <1>4, <1>5 DEF Loop

(***************************************************************************)
(* Theorems                                                                *)
(***************************************************************************)
LEMMA SingletonSeq == ASSUME NEW S, NEW e \in S PROVE << e >> \in Seq(S)
  OBVIOUS

LEMMA InitInv == Init => IInv
<1> SUFFICES ASSUME Init PROVE IInv
  OBVIOUS
<1>1. 0 \in Level
  BY IfDepthAssumption DEF Level
<1>2. NewScope("main", 0, FALSE) \in Scope
  BY <1>1 DEF NewScope, Scope
<1>3. /\ scopes = << NewScope("main", 0, FALSE) >> /\ Len(scopes) = 1
      /\ Top = NewScope("main", 0, FALSE) /\ scopes[1] = NewScope("main", 0, FALSE)
  BY DEF Init, Top
<1>4. ifs \in IfStates /\ ifs.indent = 0 /\ ifs.tok[0] = "none"
  BY <1>1 DEF Init, InitIfState, IfStates, Token
<1>5. TypeOK
  <2>1. scopes \in Seq(Scope)
    BY <1>2, <1>3, SingletonSeq
  <2>3. scopes # << >>
    BY <1>3
  <2>2. err \in BOOLEAN /\ returnLine \in BOOLEAN
    BY DEF Init
  <2> QED
    BY <1>4, <2>1, <2>2, <2>3 DEF TypeOK
<1>6. Stack
  BY <1>3 DEF Stack, NewScope
<1>7. Frames
  BY <1>3, <1>4 DEF Frames, FramesAt, NewScope
<1>8. Pending
  BY DEF Init, Pending
<1> QED
  BY <1>5, <1>6, <1>7, <1>8 DEF IInv

LEMMA NextInv ==
  ASSUME ~(CatchCalls /\ LoopReturns), "script" \notin Faults
  PROVE  IInv /\ [Next]_vars => IInv'
<1> SUFFICES ASSUME IInv, [Next]_vars PROVE IInv'
  OBVIOUS
<1>1. CASE FlowControl
  BY <1>1, FlowControlInv
<1>2. CASE Function
  BY <1>2, FunctionInv
<1>3. CASE Loop
  BY <1>3, LoopInv
<1>4. CASE UNCHANGED vars
  BY <1>4 DEF vars, IInv, TypeOK, Stack, Frames, Pending, Top
<1> QED
  BY <1>1, <1>2, <1>3, <1>4 DEF Next

(* In the classes of scripts the model is made for, the indices used on    *)
(* the arrays of ifstate() are within them and the unsigned counter never  *)
(* goes below zero, whatever lines the scripts consist of.                 *)
THEOREM TypeCorrect ==
  ASSUME ~(CatchCalls /\ LoopReturns), "script" \notin Faults PROVE Spec => []TypeOK
<1>1. IInv => TypeOK
  BY DEF IInv
<1> QED
  BY InitInv, NextInv, <1>1, PTL DEF Spec

(* The blocks open at a call or at the start of a loop stay open and       *)
(* followed until it ends, at any depth, and after errors that a function  *)
(* catches.  A script that catches one is left without its blocks.         *)
THEOREM CallersSafe ==
  ASSUME ~(CatchCalls /\ LoopReturns), "script" \notin Faults PROVE Spec => []CallersIntact
<1>1. ASSUME IInv PROVE CallersIntact
  <2>1. \A k \in 2 .. Len(scopes) : scopes[k - 1].base <= scopes[k].base
    BY <1>1 DEF IInv, Stack
  <2>2. ~err => Top.base <= ifs.indent
    BY <1>1, Zenon DEF IInv, Frames, FramesAt
  <2>3. \A i \in 1 .. Top.base : ifs.T[i] /\ ifs.tok[i] \in {"if", "elif", "else"}
    BY <1>1 DEF IInv, Frames, FramesAt, Opener
  <2> QED
    BY <2>1, <2>2, <2>3 DEF CallersIntact
<1> QED
  BY InitInv, NextInv, <1>1, PTL DEF Spec

(* A "return" met in a loop is pending only while a function waits for     *)
(* that loop, or for another of its loops, to end.                         *)
THEOREM ReturnOwned ==
  ASSUME ~(CatchCalls /\ LoopReturns), "script" \notin Faults PROVE Spec => []ReturnPending
<1>1. ASSUME IInv PROVE ReturnPending
  BY <1>1, Zenon DEF IInv, Pending, Owned, ReturnPending
<1> QED
  BY InitInv, NextInv, <1>1, PTL DEF Spec

(***************************************************************************)
(* At most one branch                                                      *)
(***************************************************************************)

(* Branches that were left in state s are not followed in state t.         *)
Stays(s, t) == \A i \in 1 .. s.indent : s.gotT[i] /\ ~s.T[i] => ~t.T[i]

LEMMA CounterStays ==
  ASSUME NEW s \in IfStates, NEW n \in Level
  PROVE  Stays(s, s) /\ Stays(s, Relax(s)) /\ Stays(s, Reset(s, n)) /\ Stays(s, Relax(Relax(s)))
         /\ Stays(s, Relax(Reset(s, n))) /\ Stays(s, Close(s))
  BY DEF Stays, Relax, Reset, Close, IfStates

LEMMA OpenStays ==
  ASSUME NEW s \in IfStates, NEW c \in BOOLEAN
  PROVE  Stays(s, Open(s, c))
<1> SUFFICES ASSUME NEW i \in 1 .. s.indent PROVE Open(s, c).T[i] = s.T[i]
  BY DEF Stays
<1>1. s.indent \in Nat /\ i \in Level /\ i # s.indent + 1
  BY IfDepthAssumption DEF IfStates, Level
<1> QED
  BY <1>1 DEF IfStates, Open

LEMMA BranchStays ==
  ASSUME NEW s \in IfStates, NEW k \in {"elif", "else"}
  PROVE  Stays(s, Branch(s, k))
<1> SUFFICES ASSUME NEW i \in 1 .. s.indent, s.gotT[i], ~s.T[i]
             PROVE  ~Branch(s, k).T[i]
  BY DEF Stays
<1>1. i \in Level
  BY IfDepthAssumption DEF IfStates, Level
<1>2. Branch(s, k).T = [s.T EXCEPT ![s.indent] = ~s.T[s.indent] /\ ~s.gotT[s.indent]]
  BY DEF Branch, IfStates
<1>3. CASE i = s.indent
  BY <1>1, <1>2, <1>3 DEF IfStates
<1>4. CASE i # s.indent
  BY <1>1, <1>2, <1>4 DEF IfStates
<1> QED
  BY <1>3, <1>4

(* "elif" evaluates its condition only if its own branch would be followed *)
(* otherwise, hence no other one was; then it writes the same block again. *)
LEMMA ElifStays ==
  ASSUME NEW s \in IfStates, s.indent > 0, ~Blocked(Branch(s, "elif"))
  PROVE  /\ Stays(s, Unindent(Branch(s, "elif")))
         /\ \A c \in BOOLEAN : Stays(s, Open(Unindent(Branch(s, "elif")), c))
<1> DEFINE b == Branch(s, "elif")
           n == s.indent
<1>1. n \in Nat /\ n \in Level /\ n \in 1 .. n /\ \A i \in 1 .. n : i \in Level
  BY IfDepthAssumption DEF IfStates, Level
<1>2. b \in IfStates /\ b.indent = n
  BY BranchType DEF Branch, IfStates
<1>3. b.T = [s.T EXCEPT ![n] = ~s.T[n] /\ ~s.gotT[n]]
  BY DEF Branch, IfStates
<1>4. \A i \in 1 .. n : b.T[i]
  BY <1>2 DEF Blocked
<1>5. ~s.gotT[n]
  BY <1>1, <1>3, <1>4 DEF IfStates
<1>6. \A i \in 1 .. n : s.gotT[i] /\ ~s.T[i] => FALSE
  <2> SUFFICES ASSUME NEW i \in 1 .. n, s.gotT[i], ~s.T[i] PROVE FALSE
    OBVIOUS
  <2>1. i # n
    BY <1>5
  <2>2. b.T[i] = s.T[i]
    BY <1>1, <1>3, <2>1 DEF IfStates
  <2> QED
    BY <1>4, <2>2
<1> QED
  BY <1>6 DEF Stays

LEMMA FlowStays == ASSUME IInv, FlowControl PROVE Stays(ifs, ifs')
<1>1. ifs \in IfStates /\ 0 \in Level
  BY IfDepthAssumption DEF IInv, TypeOK, Level
<1>2. ASSUME FlowError PROVE Stays(ifs, ifs')
  BY <1>1, <1>2, CounterStays DEF FlowError
<1>3. ASSUME NEW c \in BOOLEAN, SetIf(ifs, c) PROVE Stays(ifs, ifs')
  BY <1>1, <1>2, <1>3, OpenStays DEF SetIf
<1>4. CASE If
  BY <1>2, <1>3, <1>4 DEF If, Evaluate
<1>5. CASE Elif
  <2> DEFINE s == Branch(ifs, "elif")
  <2>1. CASE FlowError
    BY <1>2, <2>1
  <2>2. CASE ifs' = s
    BY <1>1, <2>2, BranchStays
  <2>3. CASE Reading /\ CanBranch(ifs) /\ ~Blocked(s) /\ Evaluate(Unindent(s))
    <3>1. ifs.indent > 0
      BY <2>3, ReadingFacts
    <3>2. ASSUME NEW c \in BOOLEAN, SetIf(Unindent(s), c) PROVE Stays(ifs, ifs')
      BY <1>1, <1>2, <2>3, <3>1, <3>2, ElifStays DEF SetIf
    <3> QED
      BY <1>2, <2>3, <3>2 DEF Evaluate
  <2> QED
    BY <1>5, <2>1, <2>2, <2>3 DEF Elif
<1>6. CASE Else
  BY <1>1, <1>2, <1>6, BranchStays DEF Else
<1>7. CASE Endif
  BY <1>1, <1>2, <1>7, CounterStays DEF Endif
<1>8. CASE Resume
  BY <1>2, <1>3, <1>8 DEF Resume, Evaluate
<1>9. CASE CommandFails
  BY <1>1, <1>9, CounterStays DEF CommandFails
<1> QED
  BY <1>4, <1>5, <1>6, <1>7, <1>8, <1>9 DEF FlowControl

LEMMA OtherStays == ASSUME IInv, Function \/ Loop PROVE Stays(ifs, ifs')
<1>1. ifs \in IfStates /\ Top.base \in Level
  BY TopFacts DEF IInv, TypeOK
<1>2. ASSUME NEW s, s = ifs \/ s = Relax(ifs) \/ s = Reset(ifs, Top.base),
             Succeed(s) \/ Return(s)
      PROVE  Stays(ifs, ifs')
  <2>1. ifs' = s \/ ifs' = Relax(s)
    BY <1>2 DEF Succeed, Return, FailTo
  <2>2. ifs' \in {ifs, Relax(ifs), Relax(Relax(ifs)), Reset(ifs, Top.base),
                  Relax(Reset(ifs, Top.base))}
    BY <1>2, <2>1
  <2> QED
    BY <1>1, <2>2, CounterStays
<1>3. CASE CallInCommand \/ CallInIf \/ CallInReturn \/ AfterLoop \/ StartLoop
  BY <1>1, <1>3, CounterStays
  DEF CallInCommand, CallInIf, CallInReturn, AfterLoop, StartLoop
<1>4. CASE CallInElif
  BY <1>1, <1>4, ReadingFacts, ElifStays DEF CallInElif
<1>5. CASE FunctionEnd \/ EarlyReturn \/ Break \/ LoopFails
  BY <1>2, <1>5 DEF FunctionEnd, EarlyReturn, Break, LoopFails, CheckedEnd
<1>9. CASE ReturnAfterLoop \/ ValueReturned
  BY <1>1, <1>2, <1>9, CounterStays
  DEF ReturnAfterLoop, ValueReturned, CheckedEnd, ValueFails
<1>6. CASE FunctionFails
  BY <1>2, <1>6 DEF FunctionFails
<1>7. CASE IterationEnd
  BY <1>1, <1>2, <1>7, CounterStays DEF IterationEnd
<1>8. CASE ReturnInLoop
  BY <1>1, <1>8, CounterStays DEF ReturnInLoop
<1> QED
  BY <1>3, <1>4, <1>5, <1>6, <1>7, <1>8, <1>9 DEF Function, Loop

(* A block never follows a second branch: elif and else are true to their  *)
(* implicit "otherwise", however conditions, calls and errors interleave.  *)
THEOREM OneBranchOnly ==
  ASSUME ~(CatchCalls /\ LoopReturns), "script" \notin Faults PROVE Spec => OneBranch
<1>1. ASSUME IInv, Next
      PROVE  \A i \in 1 .. ifs.indent :
                ifs.gotT[i] /\ ~ifs.T[i] /\ i <= ifs'.indent => ~ifs'.T[i]
  BY <1>1, FlowStays, OtherStays DEF Next, Stays
<1>2. IInv /\ [Next]_vars =>
        [\A i \in 1 .. ifs.indent :
            ifs.gotT[i] /\ ~ifs.T[i] /\ i <= ifs'.indent => ~ifs'.T[i]]_vars
  BY <1>1
<1> QED
  BY InitInv, NextInv, <1>2, PTL DEF Spec, OneBranch
=============================================================================
