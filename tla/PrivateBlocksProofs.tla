------------------------- MODULE PrivateBlocksProofs ------------------------
(***************************************************************************)
(* ScriptControl implements PrivateBlocks, for arrays of any size and C    *)
(* stacks of any depth: what is in the shared arrays between the recorded  *)
(* levels of two scopes is the stack of blocks of the lower one.           *)
(***************************************************************************)
EXTENDS ScriptControlProofs

(***************************************************************************)
(* The mapping, as operators on an if-state s, a C stack sc and an error e *)
(***************************************************************************)

BlockIn(s, i) ==
    [taken |-> IF \E j \in 1 .. i - 1 : ~s.T[j] THEN "dead"
               ELSE IF s.T[i] THEN "now"
               ELSE IF s.gotT[i] THEN "past" ELSE "no",
     last |-> s.tok[i] = "else"]

\* The blocks between two levels.
Opened(s, base, top) == [i \in 1 .. top - base |-> BlockIn(s, base + i)]

\* The blocks of scope c when those of the scope above it begin at top.
Shown(s, c, top) ==
    IF c.at = "elif" THEN Append(Opened(s, c.base, top), Undecided)
    ELSE Opened(s, c.base, top)

StackIn(s, sc, e, k) ==
    IF k = Len(sc) THEN IF e THEN << >> ELSE Shown(s, sc[k], s.indent)
    ELSE Shown(s, sc[k], sc[k + 1].base)

View(s, sc, e) == [k \in DOMAIN sc |-> StackIn(s, sc, e, k)]

Blocks == [taken : {"dead", "no", "now", "past"}, last : BOOLEAN]

\* The mapping of ScriptControl, before and after a step, in these terms.
LEMMA Mapping ==
  /\ [k \in DOMAIN scopes |-> StackOf(k)] = View(ifs, scopes, err)
  /\ [k \in DOMAIN scopes |-> StackOf(k)]' = View(ifs', scopes', err')
<1>1. ASSUME NEW k PROVE StackOf(k) = StackIn(ifs, scopes, err, k)
  <2>1. \A i : BlockAt(i) = BlockIn(ifs, i)
    BY DEF BlockAt, BlockIn
  <2> QED
    BY <2>1 DEF StackOf, StackIn, Shown, Opened
<1>2. ASSUME NEW k PROVE StackOf(k)' = StackIn(ifs', scopes', err', k)
  <2>1. \A i : BlockAt(i)' = BlockIn(ifs', i)
    BY DEF BlockAt, BlockIn
  <2> QED
    BY <2>1 DEF StackOf, StackIn, Shown, Opened
<1> QED
  BY <1>1, <1>2 DEF View

(***************************************************************************)
(* Sequences of blocks                                                     *)
(***************************************************************************)
LEMMA FcnIsSeq ==
  ASSUME NEW S, NEW m \in Nat, NEW f, f = [i \in 1 .. m |-> f[i]],
         \A i \in 1 .. m : f[i] \in S
  PROVE  f \in Seq(S) /\ Len(f) = m /\ DOMAIN f = 1 .. m
<1>1. f \in [1 .. m -> S]
  OBVIOUS
<1>2. f \in Seq(S)
  BY <1>1, SeqDef
<1>3. Len(f) \in Nat /\ DOMAIN f = 1 .. Len(f)
  BY <1>2, LenProperties
<1>4. 1 .. Len(f) = 1 .. m
  BY <1>1, <1>3
<1>5. ASSUME NEW a \in Nat, NEW b \in Nat, 1 .. a = 1 .. b PROVE a <= b
  <2>1. CASE a = 0
    BY <2>1
  <2>2. CASE a # 0
    <3>1. a \in 1 .. a
      BY <2>2
    <3>2. a \in 1 .. b
      BY <1>5, <3>1, Zenon
    <3> QED
      BY <3>2
  <2> QED
    BY <2>1, <2>2
<1> QED
  BY <1>2, <1>3, <1>4, <1>5

\* Sequences with the same elements are the same.
LEMMA SeqSame ==
  ASSUME NEW S, NEW f \in Seq(S), NEW g \in Seq(S), Len(f) = Len(g),
         \A i \in 1 .. Len(f) : f[i] = g[i]
  PROVE  f = g
BY LenProperties

\* Sequences that agree but for the last element.
LEMMA SeqTop ==
  ASSUME NEW S, NEW f \in Seq(S), NEW g \in Seq(S), NEW n \in Nat \ {0},
         Len(f) = n, Len(g) = n, \A i \in 1 .. n - 1 : g[i] = f[i]
  PROVE  /\ g = [f EXCEPT ![n] = g[n]]
         /\ g[n] = f[n] => g = f
<1>1. f = [i \in 1 .. n |-> f[i]] /\ g = [i \in 1 .. n |-> g[i]]
  BY LenProperties
<1>2. \A i \in 1 .. n : i # n => i \in 1 .. n - 1
  OBVIOUS
<1>3. [f EXCEPT ![n] = g[n]] = [i \in 1 .. n |-> IF i = n THEN g[n] ELSE f[i]]
  BY <1>1
<1>4. \A i \in 1 .. n : g[i] = IF i = n THEN g[n] ELSE f[i]
  BY <1>2
<1> QED
  BY <1>1, <1>2, <1>3, <1>4

\* A sequence with one more element.
LEMMA SeqGrown ==
  ASSUME NEW S, NEW f \in Seq(S), NEW g \in Seq(S), Len(g) = Len(f) + 1,
         \A i \in 1 .. Len(f) : g[i] = f[i]
  PROVE  g = Append(f, g[Len(g)])
<1>1. Len(f) \in Nat /\ Len(g) \in 1 .. Len(g) /\ g[Len(g)] \in S
  BY LenProperties, ElementOfSeq
<1>2. /\ Append(f, g[Len(g)]) \in Seq(S) /\ Len(Append(f, g[Len(g)])) = Len(f) + 1
      /\ \A i \in 1 .. Len(f) : Append(f, g[Len(g)])[i] = f[i]
      /\ Append(f, g[Len(g)])[Len(f) + 1] = g[Len(g)]
  BY <1>1, AppendProperties
<1>3. \A i \in 1 .. Len(g) : Append(f, g[Len(g)])[i] = g[i]
  BY <1>1, <1>2
<1> QED
  BY <1>2, <1>3, SeqSame

\* A sequence without its last element.
LEMMA SeqShrunk ==
  ASSUME NEW S, NEW f \in Seq(S), NEW n \in Nat, Len(f) = n + 1
  PROVE  /\ Private!Butlast(f) \in Seq(S) /\ Len(Private!Butlast(f)) = n
         /\ \A i \in 1 .. n : Private!Butlast(f)[i] = f[i]
<1> DEFINE g == SubSeq(f, 1, n)
<1>1. \A i \in 1 .. n : f[i] \in S
  BY LenProperties, ElementOfSeq
<1>2. /\ g \in Seq(S)
      /\ Len(g) = IF 1 <= n THEN n - 1 + 1 ELSE 0
      /\ \A i \in 1 .. n - 1 + 1 : g[i] = f[1 + i - 1]
  BY <1>1, SubSeqProperties
<1>3. Private!Butlast(f) = g
  <2>1. Len(f) - 1 = n
    OBVIOUS
  <2> QED
    BY <2>1 DEF Private!Butlast
<1> HIDE DEF g
<1>4. Len(g) = n
  BY <1>2
<1>5. \A i \in 1 .. n : g[i] = f[i]
  BY <1>2
<1> QED
  BY <1>2, <1>3, <1>4, <1>5, Zenon

(***************************************************************************)
(* Blocks in the arrays                                                    *)
(***************************************************************************)
SameUpTo(s, t, n) ==
    \A i \in 1 .. n : t.T[i] = s.T[i] /\ t.gotT[i] = s.gotT[i] /\ t.tok[i] = s.tok[i]

\* What is between two levels is a sequence of blocks.
LEMMA OpenedType ==
  ASSUME NEW s, NEW base \in Nat, NEW top \in Nat, base <= top
  PROVE  /\ Opened(s, base, top) \in Seq(Blocks)
         /\ Len(Opened(s, base, top)) = top - base
         /\ \A i \in 1 .. top - base : Opened(s, base, top)[i] = BlockIn(s, base + i)
<1>1. \A i : BlockIn(s, i) \in Blocks
  BY DEF BlockIn, Blocks
<1>2. top - base \in Nat
  OBVIOUS
<1> QED
  BY <1>1, <1>2, FcnIsSeq DEF Opened

\* So is what a scope is shown.
LEMMA ShownType ==
  ASSUME NEW s, NEW c \in Scope, NEW top \in Nat, c.base <= top
  PROVE  Shown(s, c, top) \in Seq(Blocks)
<1>1. c.base \in Nat
  BY DEF Scope, Level
<1>2. Opened(s, c.base, top) \in Seq(Blocks)
  BY <1>1, OpenedType
<1>3. Undecided \in Blocks
  BY DEF Undecided, Blocks
<1> QED
  BY <1>2, <1>3, AppendProperties DEF Shown

\* What is not written to is seen as before.
LEMMA OpenedSame ==
  ASSUME NEW s, NEW t, NEW base \in Nat, NEW top \in Nat, base <= top, SameUpTo(s, t, top)
  PROVE  Opened(t, base, top) = Opened(s, base, top)
<1>1. ASSUME NEW i \in 1 .. top - base PROVE BlockIn(t, base + i) = BlockIn(s, base + i)
  <2>1. base + i \in 1 .. top /\ \A j \in 1 .. (base + i) - 1 : j \in 1 .. top
    OBVIOUS
  <2> QED
    BY <2>1 DEF BlockIn, SameUpTo
<1> QED
  BY <1>1 DEF Opened

\* Nothing is between a level and itself.
LEMMA OpenedNone ==
  ASSUME NEW s, NEW base \in Nat
  PROVE  Opened(s, base, base) = << >>
BY OpenedType, EmptySeq

\* Opening, ending a branch of and closing the innermost block.
LEMMA OpenedGrows ==
  ASSUME NEW s, NEW t, NEW base \in Nat, NEW top \in Nat, base <= top, SameUpTo(s, t, top)
  PROVE  Opened(t, base, top + 1) = Append(Opened(s, base, top), BlockIn(t, top + 1))
<1> DEFINE f == Opened(s, base, top)
           g == Opened(t, base, top + 1)
<1>1. /\ f \in Seq(Blocks) /\ Len(f) = top - base
      /\ \A i \in 1 .. top - base : Opened(t, base, top)[i] = BlockIn(t, base + i)
  BY OpenedType
<1>2. /\ g \in Seq(Blocks) /\ Len(g) = top + 1 - base
      /\ \A i \in 1 .. top + 1 - base : g[i] = BlockIn(t, base + i)
  BY OpenedType
<1>3. Opened(t, base, top) = f
  BY OpenedSame
<1> HIDE DEF f, g
<1>4. Len(g) = Len(f) + 1 /\ \A i \in 1 .. Len(f) : g[i] = f[i]
  BY <1>1, <1>2, <1>3
<1>5. Len(g) \in 1 .. top + 1 - base /\ base + Len(g) = top + 1
  BY <1>2
<1>6. g[Len(g)] = BlockIn(t, top + 1)
  BY <1>2, <1>5
<1>7. g = Append(f, g[Len(g)])
  BY <1>1, <1>2, <1>4, SeqGrown
<1> QED
  BY <1>6, <1>7 DEF f, g

LEMMA OpenedShrinks ==
  ASSUME NEW s, NEW t, NEW base \in Nat, NEW top \in Nat, base <= top, SameUpTo(s, t, top)
  PROVE  /\ Opened(t, base, top) = Private!Butlast(Opened(s, base, top + 1))
         /\ Opened(s, base, top + 1) # << >>
         /\ Opened(s, base, top + 1)[Len(Opened(s, base, top + 1))] = BlockIn(s, top + 1)
<1> DEFINE f == Opened(t, base, top)
           g == Opened(s, base, top + 1)
<1>1. /\ f \in Seq(Blocks) /\ Len(f) = top - base
      /\ \A i \in 1 .. top - base : Opened(s, base, top)[i] = BlockIn(s, base + i)
  BY OpenedType
<1>2. /\ g \in Seq(Blocks) /\ Len(g) = top + 1 - base
      /\ \A i \in 1 .. top + 1 - base : g[i] = BlockIn(s, base + i)
  BY OpenedType
<1>3. Opened(s, base, top) = f
  BY OpenedSame
<1> HIDE DEF f, g
<1>4. Len(f) \in Nat /\ Len(g) = Len(f) + 1 /\ \A i \in 1 .. Len(f) : g[i] = f[i]
  BY <1>1, <1>2, <1>3
<1>5. /\ Private!Butlast(g) \in Seq(Blocks) /\ Len(Private!Butlast(g)) = Len(f)
      /\ \A i \in 1 .. Len(f) : Private!Butlast(g)[i] = g[i]
  BY <1>2, <1>4, SeqShrunk
<1>6. f = Private!Butlast(g)
  BY <1>1, <1>4, <1>5, SeqSame
<1>7. Len(g) \in 1 .. top + 1 - base /\ base + Len(g) = top + 1
  BY <1>2
<1>8. g[Len(g)] = BlockIn(s, top + 1) /\ g # << >>
  BY <1>2, <1>7, EmptySeq
<1> QED
  BY <1>6, <1>8 DEF f, g

LEMMA OpenedWritten ==
  ASSUME NEW s, NEW t, NEW base \in Nat, NEW top \in Nat, base <= top, SameUpTo(s, t, top)
  PROVE  Opened(t, base, top + 1) =
            Append(Private!Butlast(Opened(s, base, top + 1)), BlockIn(t, top + 1))
<1>1. SameUpTo(s, s, top)
  BY DEF SameUpTo
<1>2. Opened(t, base, top + 1) = Append(Opened(s, base, top), BlockIn(t, top + 1))
  BY OpenedGrows
<1>3. Opened(s, base, top) = Private!Butlast(Opened(s, base, top + 1))
  BY <1>1, OpenedShrinks
<1> QED
  BY <1>2, <1>3, Zenon

\* All branches being followed is the same thing in both.
LEMMA OpenedLive ==
  ASSUME NEW s, NEW base \in Nat, NEW top \in Nat, base <= top,
         \A i \in 1 .. base : s.T[i]
  PROVE  Private!Live(Opened(s, base, top)) <=> \A i \in 1 .. top : s.T[i]
<1> DEFINE f == Opened(s, base, top)
<1>1. /\ f \in Seq(Blocks) /\ Len(f) = top - base
      /\ \A i \in 1 .. top - base : f[i] = BlockIn(s, base + i)
  BY OpenedType
<1>2. DOMAIN f = 1 .. top - base
  BY <1>1, LenProperties
<1> HIDE DEF f
<1>3. ASSUME Private!Live(f), NEW i \in 1 .. top PROVE s.T[i]
  <2>1. CASE i <= base
    BY <2>1
  <2>2. CASE i > base
    <3>1. i - base \in 1 .. top - base /\ base + (i - base) = i
      BY <2>2
    <3>2. f[i - base] = BlockIn(s, i)
      BY <1>1, <3>1
    <3>3. f[i - base].taken = "now"
      BY <1>2, <1>3, <3>1 DEF Private!Live
    <3> QED
      BY <3>2, <3>3 DEF BlockIn
  <2> QED
    BY <2>1, <2>2
<1>4. ASSUME \A i \in 1 .. top : s.T[i] PROVE Private!Live(f)
  <2>1. ASSUME NEW i \in 1 .. top - base PROVE f[i].taken = "now"
    <3>1. base + i \in 1 .. top /\ \A j \in 1 .. (base + i) - 1 : j \in 1 .. top
      OBVIOUS
    <3>2. BlockIn(s, base + i).taken = "now"
      BY <1>4, <3>1 DEF BlockIn
    <3> QED
      BY <1>1, <3>2
  <2> QED
    BY <1>2, <2>1 DEF Private!Live
<1> QED
  BY <1>3, <1>4 DEF f

(***************************************************************************)
(* The whole C stack                                                       *)
(***************************************************************************)

\* Levels grow upwards along the whole stack, and not only from one scope to
\* the next, of which this cannot be derived without induction.
RisingIn(sc) == \A j, k \in 1 .. Len(sc) : j <= k => sc[j].base <= sc[k].base

Good(s, sc, e) ==
    /\ s \in IfStates /\ sc \in Seq(Scope) /\ sc # << >> /\ RisingIn(sc)
    /\ ~e => sc[Len(sc)].base <= s.indent

\* The stack and the counter of a good state.
LEMMA GoodFacts ==
  ASSUME NEW s, NEW sc, NEW e, Good(s, sc, e)
  PROVE  /\ Len(sc) \in Nat \ {0} /\ DOMAIN sc = 1 .. Len(sc) /\ s.indent \in Nat
         /\ \A k \in 1 .. Len(sc) : sc[k] \in Scope /\ sc[k].base \in Nat
<1>1. Len(sc) \in Nat \ {0} /\ DOMAIN sc = 1 .. Len(sc) /\ \A k \in 1 .. Len(sc) : sc[k] \in Scope
  BY EmptySeq, LenProperties, ElementOfSeq DEF Good
<1> QED
  BY <1>1 DEF Good, Scope, IfStates, Level

\* The scope above one that is not the top.
LEMMA NextIn ==
  ASSUME NEW n \in Nat, NEW k \in 1 .. n, k # n
  PROVE  k + 1 \in 1 .. n /\ k <= k + 1
OBVIOUS

\* The view of a good state is a sequence of stacks, one for each scope.
LEMMA ViewType ==
  ASSUME NEW s, NEW sc, NEW e, Good(s, sc, e)
  PROVE  /\ View(s, sc, e) \in Seq(Seq(Blocks)) /\ Len(View(s, sc, e)) = Len(sc)
         /\ \A k \in 1 .. Len(sc) : View(s, sc, e)[k] = StackIn(s, sc, e, k)
<1>1. /\ Len(sc) \in Nat /\ Len(sc) # 0 /\ DOMAIN sc = 1 .. Len(sc) /\ s.indent \in Nat
      /\ \A k \in 1 .. Len(sc) : sc[k] \in Scope /\ sc[k].base \in Nat
  BY GoodFacts
<1>2. ASSUME NEW k \in 1 .. Len(sc) PROVE StackIn(s, sc, e, k) \in Seq(Blocks)
  <2>1. CASE k = Len(sc)
    <3>1. << >> \in Seq(Blocks)
      BY EmptySeq
    <3>2. ~e => Shown(s, sc[k], s.indent) \in Seq(Blocks)
      BY <1>1, <2>1, ShownType DEF Good
    <3> QED
      BY <2>1, <3>1, <3>2 DEF StackIn
  <2>2. CASE k # Len(sc)
    <3>1. k + 1 \in 1 .. Len(sc) /\ k <= k + 1
      BY <1>1, <2>2, NextIn
    <3>2. sc[k].base <= sc[k + 1].base
      BY <3>1 DEF Good, RisingIn
    <3> QED
      BY <1>1, <2>2, <3>1, <3>2, ShownType DEF StackIn
  <2> QED
    BY <2>1, <2>2
<1>3. View(s, sc, e) = [k \in 1 .. Len(sc) |-> StackIn(s, sc, e, k)]
  BY <1>1 DEF View
<1>4. \A k \in 1 .. Len(sc) : View(s, sc, e)[k] = StackIn(s, sc, e, k)
  BY <1>3
<1>5. View(s, sc, e) = [k \in 1 .. Len(sc) |-> View(s, sc, e)[k]]
  BY <1>3
<1> HIDE DEF View
<1> QED
  BY <1>1, <1>2, <1>4, <1>5, FcnIsSeq

\* The scopes below the top are seen as before, when the arrays are not written
\* to up to its level.
LEMMA LowerSame ==
  ASSUME NEW s, NEW sc, NEW e, Good(s, sc, e), NEW t, NEW tc, NEW f,
         NEW k \in 1 .. Len(sc) - 1, Len(tc) \in Nat, k < Len(tc),
         tc[k].base = sc[k].base, tc[k].at = sc[k].at, tc[k + 1].base = sc[k + 1].base,
         SameUpTo(s, t, sc[Len(sc)].base)
  PROVE  StackIn(t, tc, f, k) = StackIn(s, sc, e, k)
<1>1. Len(sc) \in Nat /\ k \in 1 .. Len(sc) /\ k + 1 \in 1 .. Len(sc) /\ Len(sc) \in 1 .. Len(sc)
  BY GoodFacts
<1>2. sc[k].base \in Nat /\ sc[k + 1].base \in Nat /\ sc[Len(sc)].base \in Nat
  BY <1>1, GoodFacts
<1>3. sc[k].base <= sc[k + 1].base /\ sc[k + 1].base <= sc[Len(sc)].base
  BY <1>1 DEF Good, RisingIn
<1>4. SameUpTo(s, t, sc[k + 1].base)
  BY <1>2, <1>3 DEF SameUpTo
<1>5. Opened(t, sc[k].base, sc[k + 1].base) = Opened(s, sc[k].base, sc[k + 1].base)
  BY <1>2, <1>3, <1>4, OpenedSame
<1>6. Shown(t, tc[k], tc[k + 1].base) = Shown(s, sc[k], sc[k + 1].base)
  BY <1>5 DEF Shown
<1> QED
  BY <1>1, <1>6 DEF StackIn

(***************************************************************************)
(* Steps of PrivateBlocks                                                  *)
(***************************************************************************)

\* A block whose branch is followed and is not an "else" is known to have
\* followed one; a scope that waits for a condition or a loop is in branches
\* that are followed.
GotIn(s, n) ==
    \A i \in 1 .. n : (\A j \in 1 .. i : s.T[j]) /\ s.tok[i] # "else" => s.gotT[i]

Got == GotIn(ifs, Top.base) /\ (~err => GotIn(ifs, ifs.indent))

Idle == ~err /\ Top.at # "line" => ~Blocked(ifs)

RInv == IInv /\ RisingIn(scopes) /\ Got /\ Idle

\* States with the invariant are good, before and after a step.
LEMMA GoodNow == ASSUME IInv, RisingIn(scopes) PROVE Good(ifs, scopes, err)
BY DEF IInv, TypeOK, Frames, FramesAt, Good, Top

LEMMA GoodNext == ASSUME IInv', RisingIn(scopes') PROVE Good(ifs', scopes', err')
BY DEF IInv, TypeOK, Frames, FramesAt, Good, Top

\* The scopes below m are those of before, and the arrays up to the level of
\* the top as well.
LowerKept(m) ==
    /\ \A k \in 1 .. m : scopes'[k].base = scopes[k].base
    /\ \A k \in 1 .. m - 1 : scopes'[k].at = scopes[k].at
    /\ SameUpTo(ifs, ifs', Top.base)

\* The stacks of the scopes below m are those of before.
LEMMA LowerView ==
  ASSUME Good(ifs, scopes, err), Good(ifs', scopes', err'),
         NEW m \in Nat, m <= Len(scopes), m <= Len(scopes'), LowerKept(m)
  PROVE  \A k \in 1 .. m - 1 : StackIn(ifs', scopes', err', k) = StackIn(ifs, scopes, err, k)
<1>1. Len(scopes) \in Nat /\ Len(scopes') \in Nat
  BY GoodFacts
<1>2. ASSUME NEW k \in 1 .. m - 1
      PROVE  StackIn(ifs', scopes', err', k) = StackIn(ifs, scopes, err, k)
  <2>1. k \in 1 .. Len(scopes) - 1 /\ k < Len(scopes') /\ k \in 1 .. m /\ k + 1 \in 1 .. m
    BY <1>1
  <2>2. /\ scopes'[k].base = scopes[k].base /\ scopes'[k].at = scopes[k].at
        /\ scopes'[k + 1].base = scopes[k + 1].base
        /\ SameUpTo(ifs, ifs', scopes[Len(scopes)].base)
    BY <2>1 DEF LowerKept, Top
  <2> QED
    BY <1>1, <2>1, <2>2, LowerSame
<1> QED
  BY <1>2

\* The innermost stack is that of the top scope.
LEMMA OwnIs ==
  ASSUME Good(ifs, scopes, err)
  PROVE  Private!Own = StackIn(ifs, scopes, err, Len(scopes))
<1>1. Len(scopes) \in 1 .. Len(scopes)
  BY GoodFacts
<1> QED
  BY <1>1, Mapping, ViewType DEF Private!Own

\* A step of the top scope changes the innermost stack only.
LEMMA SetOwnStep ==
  ASSUME Good(ifs, scopes, err), Good(ifs', scopes', err'),
         Len(scopes') = Len(scopes), LowerKept(Len(scopes))
  PROVE  Private!SetOwn(StackIn(ifs', scopes', err', Len(scopes)))
<1> DEFINE n == Len(scopes)
           V == View(ifs, scopes, err)
           W == View(ifs', scopes', err')
<1>1. n \in Nat \ {0}
  BY GoodFacts
<1>2. /\ V \in Seq(Seq(Blocks)) /\ Len(V) = n
      /\ \A k \in 1 .. n : V[k] = StackIn(ifs, scopes, err, k)
  BY ViewType
<1>3. /\ W \in Seq(Seq(Blocks)) /\ Len(W) = n
      /\ \A k \in 1 .. n : W[k] = StackIn(ifs', scopes', err', k)
  BY ViewType
<1>4. \A k \in 1 .. n - 1 : StackIn(ifs', scopes', err', k) = StackIn(ifs, scopes, err, k)
  BY <1>1, LowerView
<1> HIDE DEF V, W, n
<1>5. \A k \in 1 .. n - 1 : k \in 1 .. n
  BY <1>1
<1>6. W = [V EXCEPT ![n] = W[n]]
  <2>1. \A k \in 1 .. n - 1 : W[k] = V[k]
    BY <1>2, <1>3, <1>4, <1>5
  <2> QED
    BY <1>1, <1>2, <1>3, <2>1, SeqTop
<1>7. W[n] = StackIn(ifs', scopes', err', n)
  <2>1. n \in 1 .. n
    BY <1>1
  <2> QED
    BY <1>3, <2>1
<1>8. W = [V EXCEPT ![Len(V)] = StackIn(ifs', scopes', err', n)]
  BY <1>2, <1>6, <1>7
<1> QED
  BY <1>8, Mapping DEF Private!SetOwn, V, W, n

\* A new scope gets a stack of its own on top of the others.
LEMMA EnterView ==
  ASSUME Good(ifs, scopes, err), Good(ifs', scopes', err'),
         Len(scopes') = Len(scopes) + 1, LowerKept(Len(scopes)),
         StackIn(ifs', scopes', err', Len(scopes)) = StackIn(ifs, scopes, err, Len(scopes))
  PROVE  View(ifs', scopes', err') =
            Append(View(ifs, scopes, err), StackIn(ifs', scopes', err', Len(scopes')))
<1> DEFINE n == Len(scopes)
           V == View(ifs, scopes, err)
           W == View(ifs', scopes', err')
<1>1. n \in Nat /\ n + 1 \in 1 .. n + 1
  BY GoodFacts
<1>2. /\ V \in Seq(Seq(Blocks)) /\ Len(V) = n
      /\ \A k \in 1 .. n : V[k] = StackIn(ifs, scopes, err, k)
  BY ViewType
<1>3. /\ W \in Seq(Seq(Blocks)) /\ Len(W) = n + 1
      /\ \A k \in 1 .. n + 1 : W[k] = StackIn(ifs', scopes', err', k)
  BY ViewType
<1>4. \A k \in 1 .. n - 1 : StackIn(ifs', scopes', err', k) = StackIn(ifs, scopes, err, k)
  BY <1>1, LowerView
<1>5. \A k \in 1 .. n : W[k] = V[k]
  BY <1>1, <1>2, <1>3, <1>4
<1>6. W[n + 1] = StackIn(ifs', scopes', err', Len(scopes'))
  BY <1>1, <1>3
<1> HIDE DEF V, W
<1>7. W = Append(V, W[n + 1])
  BY <1>2, <1>3, <1>5, SeqGrown
<1> QED
  BY <1>6, <1>7 DEF V, W

\* The end of a scope takes its stack off.
LEMMA PopView ==
  ASSUME Good(ifs, scopes, err), Good(ifs', scopes', err'),
         Len(scopes) > 1, Len(scopes') = Len(scopes) - 1, LowerKept(Len(scopes) - 1)
  PROVE  LET V == View(ifs, scopes, err)
             n == Len(scopes)
         IN  /\ Len(V) = n /\ Len(Private!Butlast(V)) = n - 1
             /\ View(ifs', scopes', err') =
                   [Private!Butlast(V) EXCEPT ![n - 1] = StackIn(ifs', scopes', err', n - 1)]
             /\ StackIn(ifs', scopes', err', n - 1) = StackIn(ifs, scopes, err, n - 1) =>
                   View(ifs', scopes', err') = Private!Butlast(V)
<1> DEFINE n == Len(scopes)
           V == View(ifs, scopes, err)
           W == View(ifs', scopes', err')
           B == Private!Butlast(V)
<1>1. n \in Nat /\ n - 1 \in Nat /\ n - 1 \in 1 .. n - 1 /\ n = (n - 1) + 1
  BY GoodFacts
<1>2. /\ V \in Seq(Seq(Blocks)) /\ Len(V) = n
      /\ \A k \in 1 .. n : V[k] = StackIn(ifs, scopes, err, k)
  BY ViewType
<1>3. /\ W \in Seq(Seq(Blocks)) /\ Len(W) = n - 1
      /\ \A k \in 1 .. n - 1 : W[k] = StackIn(ifs', scopes', err', k)
  BY ViewType
<1>4. \A k \in 1 .. (n - 1) - 1 : StackIn(ifs', scopes', err', k) = StackIn(ifs, scopes, err, k)
  BY <1>1, LowerView
<1> HIDE DEF V, W
<1>5. B \in Seq(Seq(Blocks)) /\ Len(B) = n - 1 /\ \A k \in 1 .. n - 1 : B[k] = V[k]
  <2> DEFINE m == n - 1
  <2>1. m \in Nat /\ Len(V) = m + 1
    BY <1>1, <1>2
  <2> HIDE DEF m
  <2>2. B \in Seq(Seq(Blocks)) /\ Len(B) = m /\ \A k \in 1 .. m : B[k] = V[k]
    BY <1>2, <2>1, SeqShrunk
  <2> QED
    BY <2>2 DEF m
<1> HIDE DEF B
<1>7. W[n - 1] = StackIn(ifs', scopes', err', n - 1) /\ B[n - 1] = StackIn(ifs, scopes, err, n - 1)
  BY <1>1, <1>2, <1>3, <1>5
<1>8. \A k \in 1 .. (n - 1) - 1 : k \in 1 .. n - 1 /\ k \in 1 .. n
  BY <1>1
<1>9. \A k \in 1 .. (n - 1) - 1 : W[k] = B[k]
  BY <1>2, <1>3, <1>4, <1>5, <1>8
<1>10. n - 1 \in Nat \ {0}
  BY <1>1
<1>11. W = [B EXCEPT ![n - 1] = W[n - 1]] /\ (W[n - 1] = B[n - 1] => W = B)
  <2> DEFINE m == n - 1
  <2>1. m \in Nat \ {0} /\ Len(B) = m /\ Len(W) = m /\ \A k \in 1 .. m - 1 : W[k] = B[k]
    BY <1>3, <1>5, <1>9, <1>10
  <2>2. B \in Seq(Seq(Blocks)) /\ W \in Seq(Seq(Blocks))
    BY <1>3, <1>5
  <2> HIDE DEF m
  <2>3. W = [B EXCEPT ![m] = W[m]] /\ (W[m] = B[m] => W = B)
    BY <2>1, <2>2, SeqTop
  <2> QED
    BY <2>3 DEF m
<1> QED
  BY <1>2, <1>5, <1>7, <1>11 DEF V, W, B

(***************************************************************************)
(* Steps within the top scope                                              *)
(***************************************************************************)
Extra == RisingIn(scopes) /\ Got /\ Idle

\* The scopes are the same, and the top one reads its next line.
ReadsOn == \/ Top.at = "line" /\ scopes' = scopes
           \/ scopes' = TopAt(scopes, "line")

\* A scope that reads on keeps all levels.
LEMMA ReadsOnFacts ==
  ASSUME IInv, ReadsOn
  PROVE  /\ Len(scopes') = Len(scopes) /\ Top'.at = "line" /\ Top'.base = Top.base
         /\ \A k \in 1 .. Len(scopes) : scopes'[k].base = scopes[k].base
         /\ \A k \in 1 .. Len(scopes) - 1 : scopes'[k].at = scopes[k].at
         /\ RisingIn(scopes) => RisingIn(scopes')
<1>1. /\ Len(scopes) \in Nat \ {0} /\ scopes \in Seq(Scope) /\ scopes # << >>
      /\ Len(scopes) \in 1 .. Len(scopes)
  BY TopFacts DEF IInv, TypeOK
<1>2. CASE Top.at = "line" /\ scopes' = scopes
  BY <1>2 DEF Top, RisingIn
<1>3. CASE scopes' = TopAt(scopes, "line")
  <2>1. Kept(scopes, scopes') /\ Len(scopes') = Len(scopes)
    BY <1>1, <1>3, TopAtKept DEF Places
  <2>2. scopes'[Len(scopes)].at = "line"
    <3>1. scopes \in [1 .. Len(scopes) -> Scope]
      BY <1>1, LenProperties
    <3> QED
      BY <1>1, <1>3, <3>1 DEF TopAt, Scope
  <2>3. \A k \in 1 .. Len(scopes) : scopes'[k].base = scopes[k].base
    BY <2>1 DEF Kept
  <2>4. \A k \in 1 .. Len(scopes) - 1 : k \in 1 .. Len(scopes) /\ k < Len(scopes)
    BY <1>1
  <2>5. \A k \in 1 .. Len(scopes) - 1 : scopes'[k].at = scopes[k].at
    BY <2>1, <2>4 DEF Kept
  <2> QED
    BY <1>1, <2>1, <2>2, <2>3, <2>5 DEF Top, RisingIn
<1> QED
  BY <1>2, <1>3 DEF ReadsOn

\* What is known of the branches followed depends on the arrays only.
LEMMA GotSame ==
  ASSUME NEW s, NEW t, NEW n \in Nat, SameUpTo(s, t, n), GotIn(s, n)
  PROVE  GotIn(t, n)
<1> SUFFICES ASSUME NEW i \in 1 .. n, \A j \in 1 .. i : t.T[j], t.tok[i] # "else"
             PROVE  t.gotT[i]
  BY DEF GotIn
<1>1. \A j \in 1 .. i : j \in 1 .. n
  OBVIOUS
<1> QED
  BY <1>1 DEF SameUpTo, GotIn

\* There is one stack for each scope.
LEMMA StacksLen ==
  ASSUME Good(ifs, scopes, err)
  PROVE  Len([k \in DOMAIN scopes |-> StackOf(k)]) = Len(scopes)
BY Mapping, ViewType

\* An error: the blocks of the scope are given up.
LEMMA FailStep ==
  ASSUME RInv, IInv', ReadsOn, SameUpTo(ifs, ifs', Top.base),
         err' = (Top.kind # "main"), err' \/ ifs'.indent = 0
  PROVE  Private!Fail /\ Extra'
<1>1. /\ Len(scopes) \in Nat \ {0} /\ Top.base \in Nat /\ Top = scopes[Len(scopes)]
      /\ Top.kind = "main" => Len(scopes) = 1 /\ Top.base = 0
      /\ Top.kind # "main" => Len(scopes) > 1
  BY TopFacts DEF RInv, IInv, Level
<1>2. /\ Len(scopes') = Len(scopes) /\ Top'.at = "line" /\ Top'.base = Top.base
      /\ LowerKept(Len(scopes)) /\ RisingIn(scopes')
  BY ReadsOnFacts DEF RInv, LowerKept
<1>3. Good(ifs, scopes, err) /\ Good(ifs', scopes', err')
  BY <1>2, GoodNow, GoodNext DEF RInv
<1>4. Private!SetOwn(StackIn(ifs', scopes', err', Len(scopes)))
  BY <1>2, <1>3, SetOwnStep
<1>5. StackIn(ifs', scopes', err', Len(scopes)) = << >>
  <2>1. CASE err'
    BY <1>2, <2>1 DEF StackIn
  <2>2. CASE ~err'
    <3>1. Top'.base = 0 /\ ifs'.indent = 0
      BY <1>1, <1>2, <2>2
    <3>2. Opened(ifs', 0, 0) = << >>
      BY OpenedNone
    <3> QED
      BY <1>2, <2>2, <3>1, <3>2 DEF StackIn, Shown, Top
  <2> QED
    BY <2>1, <2>2
<1>6. Private!Fail
  <2>1. err' = (Len(scopes) > 1)
    BY <1>1
  <2>2. err' = (Len([k \in DOMAIN scopes |-> StackOf(k)]) > 1)
    BY <1>3, <2>1, StacksLen
  <2> QED
    BY <1>4, <1>5, <2>2 DEF Private!Fail
<1>7. Got'
  <2>1. GotIn(ifs', Top.base)
    BY <1>1, GotSame DEF RInv, Got
  <2>2. ~err' => GotIn(ifs', ifs'.indent)
    BY DEF GotIn
  <2> QED
    BY <1>2, <2>1, <2>2 DEF Got
<1>8. Idle'
  BY <1>2 DEF Idle
<1> QED
  BY <1>2, <1>6, <1>7, <1>8 DEF Extra

\* Moving the counter writes to no array.
LEMMA SameArrays ==
  ASSUME NEW s \in IfStates, NEW n
  PROVE  /\ SameUpTo(s, s, n) /\ SameUpTo(s, Relax(s), n) /\ SameUpTo(s, Unindent(s), n)
         /\ \A m : SameUpTo(s, Reset(s, m), n)
BY DEF SameUpTo, Relax, Unindent, Reset, IfStates

\* Arrays that agree up to a level agree up to every lower one.
LEMMA SameBelow ==
  ASSUME NEW s, NEW t, NEW n \in Nat, NEW m \in Nat, n <= m, SameUpTo(s, t, m)
  PROVE  SameUpTo(s, t, n)
<1>1. \A i \in 1 .. n : i \in 1 .. m
  OBVIOUS
<1> QED
  BY <1>1 DEF SameUpTo

\* The top scope, when no error is on its way.
LEMMA OwnNow ==
  ASSUME IInv, RisingIn(scopes), ~err
  PROVE  /\ Private!Own = Shown(ifs, Top, ifs.indent)
         /\ Top.base \in Nat /\ ifs.indent \in Nat /\ Top.base <= ifs.indent
         /\ ifs \in IfStates /\ \A i \in 1 .. Top.base : ifs.T[i]
<1>1. Good(ifs, scopes, err)
  BY GoodNow
<1>2. Private!Own = StackIn(ifs, scopes, err, Len(scopes))
  BY <1>1, OwnIs
<1>3. Top.base \in Level /\ Top = scopes[Len(scopes)]
  BY TopFacts DEF IInv
<1>4. FramesAt(ifs, Top.base, err) /\ ifs \in IfStates
  BY DEF IInv, Frames, TypeOK
<1> QED
  BY <1>2, <1>3, <1>4 DEF StackIn, FramesAt, IfStates, Level

\* A step of the top scope after which it reads on.
LEMMA OwnStep ==
  ASSUME RInv, IInv', ReadsOn, ~err, UNCHANGED err,
         SameUpTo(ifs, ifs', Top.base), GotIn(ifs', ifs'.indent)
  PROVE  /\ Private!SetOwn(Opened(ifs', Top.base, ifs'.indent))
         /\ Top.base <= ifs'.indent /\ ifs'.indent \in Nat
         /\ Extra'
<1>1. /\ Len(scopes) \in Nat \ {0} /\ Top.base \in Nat
  BY TopFacts DEF RInv, IInv, Level
<1>2. /\ Len(scopes') = Len(scopes) /\ Top'.at = "line" /\ Top'.base = Top.base
      /\ LowerKept(Len(scopes)) /\ RisingIn(scopes') /\ Top' = scopes'[Len(scopes)]
  BY ReadsOnFacts DEF RInv, LowerKept, Top
<1>3. Good(ifs, scopes, err) /\ Good(ifs', scopes', err')
  BY <1>2, GoodNow, GoodNext DEF RInv
<1>4. Private!SetOwn(StackIn(ifs', scopes', err', Len(scopes)))
  BY <1>2, <1>3, SetOwnStep
<1>5. StackIn(ifs', scopes', err', Len(scopes)) = Opened(ifs', Top.base, ifs'.indent)
  BY <1>2 DEF StackIn, Shown
<1>6. Got'
  <2>1. GotIn(ifs', Top.base)
    BY <1>1, GotSame DEF RInv, Got
  <2> QED
    BY <1>2, <2>1 DEF Got
<1>7. Idle'
  BY <1>2 DEF Idle
<1>8. Top.base <= ifs'.indent /\ ifs'.indent \in Nat
  BY <1>2, <1>3, GoodFacts DEF Good
<1> QED
  BY <1>2, <1>4, <1>5, <1>6, <1>7, <1>8 DEF Extra

\* The levels up to n are levels.
LEMMA UpTo ==
  ASSUME NEW n \in Level
  PROVE  /\ \A i \in 1 .. n : i \in Level /\ i # n + 1 /\ (i # n => i \in 1 .. n - 1)
         /\ \A i \in 1 .. n - 1 : i \in Level /\ i # n /\ i \in 1 .. n
BY IfDepthAssumption DEF Level

\* What "if" writes: one block more, and none of the others.
LEMMA OpenWrites ==
  ASSUME NEW s \in IfStates, NEW c \in BOOLEAN, CanOpen(s), GotIn(s, s.indent),
         Blocked(s) => ~c
  PROVE  LET t == Open(s, c) IN
         /\ SameUpTo(s, t, s.indent) /\ t.indent = s.indent + 1 /\ GotIn(t, t.indent)
         /\ BlockIn(t, s.indent + 1) =
               [taken |-> IF Blocked(s) THEN "dead" ELSE IF c THEN "now" ELSE "no",
                last |-> FALSE]
<1> DEFINE n == s.indent
           t == Open(s, c)
<1>1. n \in Nat /\ n + 1 \in Level /\ n \in Level
  BY IfDepthAssumption DEF IfStates, Level, CanOpen
<1>2. /\ t.indent = n + 1 /\ t.T[n + 1] = c /\ t.gotT[n + 1] = c /\ t.tok[n + 1] = "if"
      /\ \A i \in Level : i # n + 1 =>
            t.T[i] = s.T[i] /\ t.gotT[i] = s.gotT[i] /\ t.tok[i] = s.tok[i]
  BY <1>1 DEF Open, IfStates
<1>3. \A i \in 1 .. n : i \in Level /\ i # n + 1
  BY <1>1, UpTo
<1>4. Blocked(s) <=> \E i \in 1 .. n : ~s.T[i]
  BY DEF Blocked
<1> HIDE DEF t, n
<1>5. SameUpTo(s, t, n)
  BY <1>2, <1>3 DEF SameUpTo
<1>6. GotIn(t, n)
  BY <1>1, <1>5, GotSame DEF n
<1>7. GotIn(t, n + 1)
  <2>1. ASSUME NEW i \in 1 .. n + 1, \A j \in 1 .. i : t.T[j], t.tok[i] # "else"
        PROVE  t.gotT[i]
    <3>1. CASE i = n + 1
      <4>1. i \in 1 .. i
        BY <1>1
      <4> QED
        BY <1>2, <2>1, <3>1, <4>1
    <3>2. CASE i # n + 1
      <4>1. i \in 1 .. n
        BY <1>1, <3>2
      <4> QED
        BY <1>6, <2>1, <4>1 DEF GotIn
    <3> QED
      BY <3>1, <3>2
  <2> QED
    BY <2>1 DEF GotIn
<1>8. (\E j \in 1 .. (n + 1) - 1 : ~t.T[j]) <=> Blocked(s)
  <2>1. (n + 1) - 1 = n
    BY <1>1
  <2> QED
    BY <1>4, <1>5, <2>1 DEF SameUpTo
<1>9. BlockIn(t, n + 1) = [taken |-> IF Blocked(s) THEN "dead" ELSE IF c THEN "now" ELSE "no",
                           last |-> FALSE]
  BY <1>2, <1>8 DEF BlockIn
<1> QED
  BY <1>2, <1>5, <1>7, <1>9 DEF t, n

\* "if", when its condition is known.
LEMMA OpenStep ==
  ASSUME RInv, IInv', ReadsOn, ~err, UNCHANGED err, Top.at # "elif",
         NEW c \in BOOLEAN, Blocked(ifs) => ~c, CanOpen(ifs), ifs' = Open(ifs, c)
  PROVE  Private!OpenBlock /\ Extra'
<1>1. /\ Private!Own = Shown(ifs, Top, ifs.indent)
      /\ Top.base \in Nat /\ ifs.indent \in Nat /\ Top.base <= ifs.indent
      /\ ifs \in IfStates /\ \A i \in 1 .. Top.base : ifs.T[i]
  BY OwnNow DEF RInv
<1>2. Private!Own = Opened(ifs, Top.base, ifs.indent)
  BY <1>1 DEF Shown
<1>3. GotIn(ifs, ifs.indent)
  BY DEF RInv, Got
<1> DEFINE b == [taken |-> IF Blocked(ifs) THEN "dead" ELSE IF c THEN "now" ELSE "no",
                 last |-> FALSE]
<1>4. /\ SameUpTo(ifs, ifs', ifs.indent) /\ ifs'.indent = ifs.indent + 1
      /\ GotIn(ifs', ifs'.indent) /\ BlockIn(ifs', ifs.indent + 1) = b
  BY <1>1, <1>3, OpenWrites
<1>5. SameUpTo(ifs, ifs', Top.base)
  BY <1>1, <1>4, SameBelow
<1>6. Private!SetOwn(Opened(ifs', Top.base, ifs'.indent)) /\ Extra'
  BY <1>4, <1>5, OwnStep
<1>7. Opened(ifs', Top.base, ifs'.indent) = Append(Private!Own, b)
  <2> HIDE DEF b
  <2>1. Opened(ifs', Top.base, ifs.indent + 1)
           = Append(Opened(ifs, Top.base, ifs.indent), BlockIn(ifs', ifs.indent + 1))
    <3> DEFINE n == ifs.indent
    <3>1. n \in Nat /\ Top.base \in Nat /\ Top.base <= n /\ SameUpTo(ifs, ifs', n)
      BY <1>1, <1>4
    <3> HIDE DEF n
    <3>2. Opened(ifs', Top.base, n + 1)
             = Append(Opened(ifs, Top.base, n), BlockIn(ifs', n + 1))
      BY <3>1, OpenedGrows
    <3> QED
      BY <3>2 DEF n
  <2> QED
    BY <1>2, <1>4, <2>1, Zenon
<1>8. Private!Live(Private!Own) <=> ~Blocked(ifs)
  BY <1>1, <1>2, OpenedLive DEF Blocked
<1>9. Private!SetOwn(Append(Private!Own, b))
  BY <1>6, <1>7
<1>10. b.taken \in IF Private!Live(Private!Own) THEN {"now", "no"} ELSE {"dead"}
  BY <1>8
<1>11. b = [taken |-> b.taken, last |-> FALSE]
  OBVIOUS
<1> HIDE DEF b
<1>12. \E taken \in IF Private!Live(Private!Own) THEN {"now", "no"} ELSE {"dead"} :
          Private!SetOwn(Append(Private!Own, [taken |-> taken, last |-> FALSE]))
  BY <1>9, <1>10, <1>11
<1> QED
  BY <1>6, <1>12 DEF Private!OpenBlock

\* The last element of a sequence, and the rest.
LEMMA AppendShape ==
  ASSUME NEW S, NEW f \in Seq(S), NEW e \in S
  PROVE  /\ Private!Butlast(Append(f, e)) = f /\ Append(f, e) # << >>
         /\ Append(f, e)[Len(Append(f, e))] = e
<1> DEFINE g == Append(f, e)
           n == Len(f)
<1>1. n \in Nat /\ g \in Seq(S) /\ Len(g) = n + 1 /\ g[n + 1] = e
      /\ \A i \in 1 .. n : g[i] = f[i]
  BY AppendProperties, LenProperties
<1> HIDE DEF g
<1>2. /\ Private!Butlast(g) \in Seq(S) /\ Len(Private!Butlast(g)) = n
      /\ \A i \in 1 .. n : Private!Butlast(g)[i] = g[i]
  <2> HIDE DEF n
  <2> QED
    BY <1>1, SeqShrunk
<1>3. Private!Butlast(g) = f
  BY <1>1, <1>2, SeqSame
<1>4. g # << >> /\ g[Len(g)] = e
  BY <1>1, EmptySeq
<1> QED
  BY <1>3, <1>4 DEF g

\* "elif" of a block that has followed no branch yet.
LEMMA NowUndecided ==
  ASSUME RInv, Reading, OwnBlock, CanBranch(ifs), ~Blocked(Branch(ifs, "elif"))
  PROVE  LET u == Unindent(Branch(ifs, "elif")) IN
         /\ u \in IfStates /\ u.indent = ifs.indent - 1 /\ Top.base <= u.indent
         /\ u.indent \in Nat
         /\ SameUpTo(ifs, u, u.indent) /\ GotIn(u, u.indent) /\ ~Blocked(u)
         /\ Private!Own = Append(Opened(ifs, Top.base, u.indent), Undecided)
<1> DEFINE n == ifs.indent
           s == Branch(ifs, "elif")
           u == Unindent(s)
<1>1. /\ ~err /\ Top.at = "line" /\ ifs \in IfStates /\ n > 0 /\ n \in Level /\ Top.base \in Level
  BY ReadingFacts DEF RInv
<1>2. n - 1 \in Level /\ n - 1 \in Nat /\ Top.base \in Nat /\ Top.base <= n - 1
      /\ (n - 1) + 1 = n
  BY <1>1, IfDepthAssumption DEF OwnBlock, Level
<1>3. s \in IfStates
  BY <1>1, BranchType
<1>4. /\ s.indent = n /\ s.T[n] = (~ifs.T[n] /\ ~ifs.gotT[n])
      /\ \A i \in Level : i # n =>
            s.T[i] = ifs.T[i] /\ s.gotT[i] = ifs.gotT[i] /\ s.tok[i] = ifs.tok[i]
  BY <1>1 DEF Branch, IfStates
<1>5. u \in IfStates /\ u.indent = n - 1 /\ u.T = s.T /\ u.gotT = s.gotT /\ u.tok = s.tok
  BY <1>2, <1>3, <1>4 DEF Unindent, IfStates
<1> HIDE DEF s, u
<1>6. ~ifs.T[n] /\ ~ifs.gotT[n] /\ \A i \in 1 .. n : s.T[i]
  <2>1. n \in 1 .. n
    BY <1>2
  <2> QED
    BY <1>4, <2>1 DEF Blocked, s
<1>7. SameUpTo(ifs, u, n - 1)
  <2>1. \A i \in 1 .. n - 1 : i \in Level /\ i # n
    BY <1>1, UpTo
  <2> QED
    BY <1>4, <1>5, <2>1 DEF SameUpTo
<1>8. \A i \in 1 .. n - 1 : i \in 1 .. n
  BY <1>2
<1>9. ~Blocked(u)
  BY <1>5, <1>6, <1>8 DEF Blocked
<1>10. GotIn(u, n - 1)
  <2>1. GotIn(ifs, n - 1)
    BY <1>1, <1>8 DEF RInv, Got, GotIn
  <2> QED
    BY <1>2, <1>7, <2>1, GotSame
<1>11. Private!Own = Append(Opened(ifs, Top.base, n - 1), Undecided)
  <2>1. Private!Own = Opened(ifs, Top.base, n)
    BY <1>1, OwnNow DEF RInv, Shown
  <2>2. SameUpTo(ifs, ifs, n - 1)
    BY DEF SameUpTo
  <2>3. Opened(ifs, Top.base, (n - 1) + 1)
           = Append(Opened(ifs, Top.base, n - 1), BlockIn(ifs, (n - 1) + 1))
    <3> DEFINE m == n - 1
    <3>1. m \in Nat /\ Top.base <= m /\ SameUpTo(ifs, ifs, m)
      BY <1>2, <2>2
    <3> HIDE DEF m
    <3>2. Opened(ifs, Top.base, m + 1) = Append(Opened(ifs, Top.base, m), BlockIn(ifs, m + 1))
      BY <1>2, <3>1, OpenedGrows
    <3> QED
      BY <3>2 DEF m
  <2>4. BlockIn(ifs, n) = Undecided
    <3>1. \A i \in 1 .. n - 1 : ifs.T[i]
      BY <1>6, <1>7, <1>8, <1>5 DEF SameUpTo
    <3>2. ifs.tok[n] # "else"
      BY DEF CanBranch
    <3> QED
      BY <1>6, <3>1, <3>2 DEF BlockIn, Undecided
  <2> QED
    BY <1>2, <2>1, <2>3, <2>4, Zenon
<1> QED
  BY <1>2, <1>5, <1>7, <1>9, <1>10, <1>11 DEF s, u

\* The condition of an "elif" is known.
LEMMA ConditionStep ==
  ASSUME RInv, IInv', ReadsOn, ~err, UNCHANGED err,
         NEW u \in IfStates, u.indent \in Nat, Top.base <= u.indent,
         SameUpTo(ifs, u, u.indent), GotIn(u, u.indent), ~Blocked(u),
         Private!Own = Append(Opened(ifs, Top.base, u.indent), Undecided),
         NEW c \in BOOLEAN, CanOpen(u), ifs' = Open(u, c)
  PROVE  Private!NextBranch /\ Extra'
<1> DEFINE m == u.indent
           f == Opened(ifs, Top.base, m)
           b == [taken |-> IF c THEN "now" ELSE "no", last |-> FALSE]
<1>1. /\ SameUpTo(u, ifs', m) /\ ifs'.indent = m + 1
      /\ GotIn(ifs', ifs'.indent) /\ BlockIn(ifs', m + 1) = b
  BY OpenWrites
<1>2. SameUpTo(ifs, ifs', m)
  BY <1>1 DEF SameUpTo
<1>3. Top.base \in Nat
  BY OwnNow DEF RInv
<1>4. SameUpTo(ifs, ifs', Top.base)
  BY <1>2, <1>3, SameBelow
<1>5. Private!SetOwn(Opened(ifs', Top.base, ifs'.indent)) /\ Extra'
  BY <1>1, <1>4, OwnStep
<1>6. f \in Seq(Blocks)
  BY <1>3, OpenedType
<1>7. Undecided \in Blocks
  BY DEF Undecided, Blocks
<1>8. /\ Private!Butlast(Private!Own) = f /\ Private!Own # << >>
      /\ Private!Own[Len(Private!Own)] = Undecided
  BY <1>6, <1>7, AppendShape
<1> HIDE DEF b
<1>9. Opened(ifs', Top.base, ifs'.indent) = Append(f, b)
  <2> HIDE DEF m
  <2>1. Opened(ifs', Top.base, m + 1) = Append(Opened(ifs, Top.base, m), BlockIn(ifs', m + 1))
    BY <1>2, <1>3, OpenedGrows DEF m
  <2> QED
    BY <1>1, <2>1
<1>10. Private!SetOwn(Append(Private!Butlast(Private!Own), b))
  BY <1>5, <1>8, <1>9
<1>11. \E taken \in {"now", "no"} : Private!SetInner(taken, FALSE)
  <2>1. b = [taken |-> b.taken, last |-> FALSE] /\ b.taken \in {"now", "no"}
    BY DEF b
  <2> QED
    BY <1>10, <2>1 DEF Private!SetInner
<1>12. Private!Inner.taken = "no" /\ ~Private!Inner.last
  BY <1>8 DEF Private!Inner, Undecided
<1> QED
  BY <1>5, <1>8, <1>11, <1>12 DEF Private!NextBranch

\* The innermost block of the top scope, before and after its last level is
\* written to.
LEMMA InnerWritten ==
  ASSUME RInv, Reading, OwnBlock, ifs.indent > 0
  PROVE  LET n == ifs.indent IN
         /\ Private!Own # << >> /\ Private!Inner = BlockIn(ifs, n)
         /\ \A t : SameUpTo(ifs, t, n - 1) =>
               /\ Opened(t, Top.base, n - 1) = Private!Butlast(Private!Own)
               /\ Opened(t, Top.base, n) = Append(Private!Butlast(Private!Own), BlockIn(t, n))
         /\ SameUpTo(ifs, ifs, n - 1) /\ Opened(ifs, Top.base, n) = Private!Own
<1> DEFINE n == ifs.indent
           m == n - 1
           b == Top.base
<1>1. ~err /\ Top.at = "line" /\ n > 0 /\ n \in Level /\ b \in Level
  BY ReadingFacts DEF RInv
<1>2. m \in Nat /\ b \in Nat /\ b <= m /\ m + 1 = n
  BY <1>1, IfDepthAssumption DEF OwnBlock, Level
<1>3. Private!Own = Opened(ifs, b, n)
  BY <1>1, OwnNow DEF RInv, Shown
<1>4. SameUpTo(ifs, ifs, m)
  BY DEF SameUpTo
<1> HIDE DEF n, m, b
<1>5. ASSUME NEW t, SameUpTo(ifs, t, m)
      PROVE  /\ Opened(t, b, m) = Private!Butlast(Opened(ifs, b, m + 1))
             /\ Opened(ifs, b, m + 1) # << >>
             /\ Opened(ifs, b, m + 1)[Len(Opened(ifs, b, m + 1))] = BlockIn(ifs, m + 1)
             /\ Opened(t, b, m + 1) =
                   Append(Private!Butlast(Opened(ifs, b, m + 1)), BlockIn(t, m + 1))
  <2>1. /\ Opened(t, b, m) = Private!Butlast(Opened(ifs, b, m + 1))
        /\ Opened(ifs, b, m + 1) # << >>
        /\ Opened(ifs, b, m + 1)[Len(Opened(ifs, b, m + 1))] = BlockIn(ifs, m + 1)
    BY <1>2, <1>5, OpenedShrinks
  <2>2. Opened(t, b, m + 1) =
           Append(Private!Butlast(Opened(ifs, b, m + 1)), BlockIn(t, m + 1))
    BY <1>2, <1>5, OpenedWritten
  <2> QED
    BY <2>1, <2>2
<1>6. ASSUME NEW t, SameUpTo(ifs, t, m)
      PROVE  /\ Opened(t, b, m) = Private!Butlast(Private!Own)
             /\ Private!Own # << >> /\ Private!Inner = BlockIn(ifs, n)
             /\ Opened(t, b, n) = Append(Private!Butlast(Private!Own), BlockIn(t, n))
  BY <1>2, <1>3, <1>5, <1>6, Zenon DEF Private!Inner
<1>7. Private!Own # << >> /\ Private!Inner = BlockIn(ifs, n)
  BY <1>4, <1>6
<1> QED
  BY <1>3, <1>4, <1>6, <1>7, Zenon DEF n, m, b

\* The states of a block, and what the next branch makes of them.
LEMMA BranchWrites ==
  ASSUME NEW s \in IfStates, s.indent > 0, NEW k \in {"elif", "else"}, CanBranch(s),
         GotIn(s, s.indent)
  PROVE  LET n == s.indent
             t == Branch(s, k)
             old == BlockIn(s, n).taken
             new == BlockIn(t, n)
         IN  /\ t.indent = n /\ n \in Nat /\ SameUpTo(s, t, n - 1)
             /\ new.last = (k = "else") /\ ~BlockIn(s, n).last
             /\ old \in {"dead", "no", "now", "past"}
             /\ old = "dead" => new.taken = "dead"
             /\ old \in {"now", "past"} => new.taken = "past"
             /\ old = "no" => new.taken = "now" /\ ~Blocked(t)
             /\ k = "else" \/ Blocked(t) => GotIn(t, n)
<1> DEFINE n == s.indent
           t == Branch(s, k)
<1>1. n \in Level /\ n \in Nat /\ n > 0 /\ n \in 1 .. n
  BY IfDepthAssumption DEF IfStates, Level
<1>2. /\ t.indent = n /\ t.T[n] = (~s.T[n] /\ ~s.gotT[n]) /\ t.tok[n] = k
      /\ t.gotT = s.gotT
      /\ \A i \in Level : i # n => t.T[i] = s.T[i] /\ t.tok[i] = s.tok[i]
  BY <1>1 DEF Branch, IfStates
<1> HIDE DEF t
<1>3. s.tok[n] # "else" /\ s.T[n] \in BOOLEAN /\ s.gotT[n] \in BOOLEAN
  BY <1>1 DEF CanBranch, IfStates
<1>4. Blocked(t) <=> \E i \in 1 .. n : ~t.T[i]
  BY <1>2 DEF Blocked
<1>5. GotIn(s, n)
  OBVIOUS
<1> HIDE DEF n
<1>6. \A i \in 1 .. n - 1 : i \in Level /\ i # n /\ i \in 1 .. n
  BY <1>1, UpTo
<1>7. \A i \in 1 .. n : i # n => i \in 1 .. n - 1
  BY <1>1
<1>8. SameUpTo(s, t, n - 1)
  BY <1>2, <1>6 DEF SameUpTo
<1>9. (\E j \in 1 .. n - 1 : ~t.T[j]) <=> (\E j \in 1 .. n - 1 : ~s.T[j])
  BY <1>8 DEF SameUpTo
<1>10. (\A j \in 1 .. n - 1 : s.T[j]) /\ s.T[n] => s.gotT[n]
  <2>1. ASSUME \A j \in 1 .. n - 1 : s.T[j], s.T[n] PROVE s.gotT[n]
    <3>1. \A j \in 1 .. n : s.T[j]
      BY <1>7, <2>1
    <3> QED
      BY <1>1, <1>3, <1>5, <3>1 DEF GotIn
  <2> QED
    BY <2>1
<1>11. BlockIn(t, n).last = (k = "else") /\ ~BlockIn(s, n).last
  BY <1>2, <1>3 DEF BlockIn
<1>12. BlockIn(s, n).taken = IF \E j \in 1 .. n - 1 : ~s.T[j] THEN "dead"
                             ELSE IF s.T[n] THEN "now" ELSE IF s.gotT[n] THEN "past" ELSE "no"
  BY DEF BlockIn
<1>13. BlockIn(t, n).taken = IF \E j \in 1 .. n - 1 : ~s.T[j] THEN "dead"
                             ELSE IF ~s.T[n] /\ ~s.gotT[n] THEN "now"
                             ELSE IF s.gotT[n] THEN "past" ELSE "no"
  BY <1>2, <1>9 DEF BlockIn
<1>14. BlockIn(s, n).taken = "no" => ~Blocked(t)
  <2>1. ASSUME BlockIn(s, n).taken = "no" PROVE \A i \in 1 .. n : t.T[i]
    <3>1. ~s.T[n] /\ ~s.gotT[n] /\ \A j \in 1 .. n - 1 : s.T[j]
      BY <1>12, <2>1
    <3>2. t.T[n] /\ \A j \in 1 .. n - 1 : t.T[j]
      BY <1>2, <1>9, <3>1
    <3> QED
      BY <1>7, <3>2
  <2> QED
    BY <1>4, <2>1
<1>15. ASSUME k = "else" \/ Blocked(t) PROVE GotIn(t, n)
  <2>1. ASSUME NEW i \in 1 .. n, \A j \in 1 .. i : t.T[j], t.tok[i] # "else"
        PROVE  t.gotT[i]
    <3>1. CASE i = n
      BY <1>2, <1>4, <1>15, <2>1, <3>1
    <3>2. CASE i # n
      <4>1. i \in 1 .. n - 1
        BY <1>7, <3>2
      <4>2. \A j \in 1 .. i : j \in 1 .. n - 1
        BY <1>1, <4>1
      <4>3. \A j \in 1 .. i : s.T[j]
        BY <1>8, <2>1, <4>2 DEF SameUpTo
      <4>4. s.tok[i] # "else"
        BY <1>8, <2>1, <4>1 DEF SameUpTo
      <4> QED
        BY <1>2, <1>5, <4>3, <4>4 DEF GotIn
    <3> QED
      BY <3>1, <3>2
  <2> QED
    BY <2>1 DEF GotIn
<1> QED
  BY <1>1, <1>2, <1>8, <1>10, <1>11, <1>12, <1>13, <1>14, <1>15 DEF n, t

\* "else", and an "elif" whose condition is not evaluated.
LEMMA BranchStep ==
  ASSUME RInv, IInv', Reading, OwnBlock, CanBranch(ifs), UNCHANGED <<err, scopes>>,
         NEW k \in {"elif", "else"}, ifs' = Branch(ifs, k), k = "else" \/ Blocked(ifs')
  PROVE  /\ k = "elif" => Private!NextBranch
         /\ k = "else" => Private!LastBranch
         /\ Extra'
<1> DEFINE n == ifs.indent
           old == BlockIn(ifs, n).taken
           new == BlockIn(ifs', n)
           f == Private!Butlast(Private!Own)
<1>1. /\ ~err /\ Top.at = "line" /\ ifs \in IfStates /\ n > 0 /\ n \in Level /\ Top.base \in Level
  BY ReadingFacts DEF RInv
<1>2. n - 1 \in Nat /\ Top.base \in Nat /\ Top.base <= n - 1
  BY <1>1, IfDepthAssumption DEF OwnBlock, Level
<1>3. GotIn(ifs, n)
  BY <1>1 DEF RInv, Got
<1>4. /\ ifs'.indent = n /\ SameUpTo(ifs, ifs', n - 1)
      /\ new.last = (k = "else") /\ ~BlockIn(ifs, n).last
      /\ old \in {"dead", "no", "now", "past"}
      /\ old = "dead" => new.taken = "dead"
      /\ old \in {"now", "past"} => new.taken = "past"
      /\ old = "no" => new.taken = "now" /\ ~Blocked(ifs')
      /\ GotIn(ifs', n)
  BY <1>1, <1>3, BranchWrites
<1>5. new = [taken |-> new.taken, last |-> k = "else"]
  BY <1>4 DEF BlockIn
<1>6. /\ Private!Own # << >> /\ Private!Inner = BlockIn(ifs, n)
      /\ Opened(ifs', Top.base, n) = Append(f, new)
      /\ Private!Own = Append(f, BlockIn(ifs, n))
  BY <1>1, <1>4, InnerWritten
<1>7. SameUpTo(ifs, ifs', Top.base)
  BY <1>2, <1>4, SameBelow
<1>8. ReadsOn
  BY <1>1 DEF ReadsOn
<1>9. Private!SetOwn(Append(f, new)) /\ Extra'
  <2>1. Private!SetOwn(Opened(ifs', Top.base, n)) /\ Extra'
    BY <1>1, <1>4, <1>7, <1>8, OwnStep
  <2> QED
    BY <1>6, <2>1, Zenon
<1>10. Private!SetInner(new.taken, k = "else")
  <2> HIDE DEF new
  <2> QED
    BY <1>5, <1>9 DEF Private!SetInner
<1> HIDE DEF new, old, n, f
<1>11. Private!Inner.taken = old /\ ~Private!Inner.last
  BY <1>4, <1>6 DEF old
<1>12. CASE k = "else"
  <2>1. \/ old \in {"now", "past"} /\ Private!SetInner("past", TRUE)
        \/ old = "no" /\ Private!SetInner("now", TRUE)
        \/ old = "dead" /\ Private!SetInner("dead", TRUE)
    BY <1>4, <1>10, <1>12
  <2> QED
    BY <1>1, <1>6, <1>9, <1>11, <1>12, <2>1 DEF Private!LastBranch
<1>13. CASE k = "elif"
  <2>1. CASE old = "dead"
    <3>1. new = BlockIn(ifs, n)
      BY <1>4, <1>5, <1>13, <2>1 DEF BlockIn, old
    <3>2. Private!SetOwn(Private!Own)
      BY <1>6, <1>9, <3>1
    <3>3. UNCHANGED [j \in DOMAIN scopes |-> StackOf(j)]
      BY <3>2 DEF Private!SetOwn, Private!Own
    <3> QED
      BY <1>1, <1>6, <1>9, <1>11, <1>13, <2>1, <3>3 DEF Private!NextBranch
  <2>2. CASE old \in {"now", "past"}
    <3>1. Private!SetInner("past", FALSE)
      BY <1>4, <1>10, <1>13, <2>2
    <3> QED
      BY <1>1, <1>6, <1>9, <1>11, <1>13, <2>2, <3>1 DEF Private!NextBranch
  <2> QED
    BY <1>4, <1>13, <2>1, <2>2
<1> QED
  BY <1>9, <1>12, <1>13

\* "endif".
LEMMA CloseStep ==
  ASSUME RInv, IInv', Reading, OwnBlock, CanClose(ifs), UNCHANGED <<err, scopes>>,
         ifs' = Close(ifs)
  PROVE  Private!CloseBlock /\ Extra'
<1> DEFINE n == ifs.indent
<1>1. /\ ~err /\ Top.at = "line" /\ ifs \in IfStates /\ n > 0 /\ n \in Level /\ Top.base \in Level
  BY ReadingFacts DEF RInv
<1>2. n - 1 \in Nat /\ Top.base \in Nat /\ Top.base <= n - 1
  BY <1>1, IfDepthAssumption DEF OwnBlock, Level
<1>3. /\ ifs'.indent = n - 1
      /\ \A i \in Level : i # n =>
            ifs'.T[i] = ifs.T[i] /\ ifs'.gotT[i] = ifs.gotT[i] /\ ifs'.tok[i] = ifs.tok[i]
  BY <1>1 DEF Close, IfStates
<1>4. \A i \in 1 .. n - 1 : i \in Level /\ i # n /\ i \in 1 .. n
  BY <1>1, UpTo
<1>5. SameUpTo(ifs, ifs', n - 1)
  BY <1>3, <1>4 DEF SameUpTo
<1>6. GotIn(ifs', n - 1)
  <2>1. GotIn(ifs, n - 1)
    BY <1>1, <1>4 DEF RInv, Got, GotIn
  <2> QED
    BY <1>2, <1>5, <2>1, GotSame
<1>7. SameUpTo(ifs, ifs', Top.base)
  BY <1>2, <1>5, SameBelow
<1>8. ReadsOn
  BY <1>1 DEF ReadsOn
<1>9. Private!SetOwn(Opened(ifs', Top.base, n - 1)) /\ Extra'
  BY <1>1, <1>3, <1>6, <1>7, <1>8, OwnStep
<1>10. /\ Private!Own # << >>
       /\ Opened(ifs', Top.base, n - 1) = Private!Butlast(Private!Own)
  BY <1>1, <1>5, InnerWritten
<1> QED
  BY <1>1, <1>9, <1>10 DEF Private!CloseBlock

\* An error of flow_control() gives up the blocks of the scope.
LEMMA FlowErrorFails ==
  ASSUME RInv, IInv', ReadsOn, FlowError
  PROVE  Private!Fail /\ Extra'
<1>1. SameUpTo(ifs, ifs', Top.base) /\ ifs'.indent = 0
  BY SameArrays DEF FlowError, RInv, IInv, TypeOK, Relax, IfStates
<1> QED
  BY <1>1, FailStep DEF FlowError

\* The steps of flow_control().
LEMMA FlowStep ==
  ASSUME RInv, IInv', FlowControl
  PROVE  Private!Next /\ Extra'
<1>1. CASE If
  <2>1. ~err /\ Top.at = "line" /\ ReadsOn
    BY <1>1, ReadingFacts DEF RInv, If, ReadsOn
  <2>2. CASE FlowError
    BY <2>1, <2>2, FlowErrorFails DEF Private!Next
  <2>3. CASE \E c \in BOOLEAN : (Blocked(ifs) => ~c) /\ CanOpen(ifs) /\ ifs' = Open(ifs, c)
                                 /\ UNCHANGED err
    BY <2>1, <2>3, OpenStep DEF Private!Next
  <2> QED
    BY <1>1, <2>2, <2>3 DEF If, Evaluate, SetIf
<1>2. CASE Elif
  <2>1. /\ ~err /\ Top.at = "line" /\ Reading /\ OwnBlock /\ ReadsOn /\ UNCHANGED scopes
    BY <1>2, ReadingFacts DEF RInv, Elif, ReadsOn
  <2>2. CASE FlowError
    BY <2>1, <2>2, FlowErrorFails DEF Private!Next
  <2>3. CASE CanBranch(ifs) /\ Blocked(Branch(ifs, "elif"))
             /\ ifs' = Branch(ifs, "elif") /\ UNCHANGED err
    BY <2>1, <2>3, BranchStep DEF Private!Next
  <2>4. CASE CanBranch(ifs) /\ ~Blocked(Branch(ifs, "elif"))
             /\ \E c \in BOOLEAN : LET u == Unindent(Branch(ifs, "elif")) IN
                   CanOpen(u) /\ ifs' = Open(u, c) /\ UNCHANGED err
    BY <2>1, <2>4, NowUndecided, ConditionStep DEF Private!Next
  <2> QED
    BY <1>2, <2>2, <2>3, <2>4 DEF Elif, Evaluate, SetIf
<1>3. CASE Else
  <2>1. /\ ~err /\ Top.at = "line" /\ Reading /\ OwnBlock /\ ReadsOn /\ UNCHANGED scopes
    BY <1>3, ReadingFacts DEF RInv, Else, ReadsOn
  <2>2. CASE FlowError
    BY <2>1, <2>2, FlowErrorFails DEF Private!Next
  <2>3. CASE CanBranch(ifs) /\ ifs' = Branch(ifs, "else") /\ UNCHANGED err
    BY <2>1, <2>3, BranchStep DEF Private!Next
  <2> QED
    BY <1>3, <2>2, <2>3 DEF Else
<1>4. CASE Endif
  <2>1. /\ ~err /\ Top.at = "line" /\ Reading /\ OwnBlock /\ ReadsOn /\ UNCHANGED scopes
    BY <1>4, ReadingFacts DEF RInv, Endif, ReadsOn
  <2>2. CASE FlowError
    BY <2>1, <2>2, FlowErrorFails DEF Private!Next
  <2>3. CASE CanClose(ifs) /\ ifs' = Close(ifs) /\ UNCHANGED err
    BY <2>1, <2>3, CloseStep DEF Private!Next
  <2> QED
    BY <1>4, <2>2, <2>3 DEF Endif
<1>5. CASE Resume
  <2>1. ~err /\ Top.at \in {"if", "elif"} /\ ReadsOn /\ ~Blocked(ifs) /\ Evaluate(ifs)
    BY <1>5 DEF RInv, Idle, Resume, ReadsOn
  <2>2. CASE FlowError
    BY <2>1, <2>2, FlowErrorFails DEF Private!Next
  <2>3. CASE /\ Top.at = "if"
             /\ \E c \in BOOLEAN : CanOpen(ifs) /\ ifs' = Open(ifs, c) /\ UNCHANGED err
    BY <2>1, <2>3, OpenStep DEF Private!Next
  <2>4. CASE /\ Top.at = "elif"
             /\ \E c \in BOOLEAN : CanOpen(ifs) /\ ifs' = Open(ifs, c) /\ UNCHANGED err
    <3>1. /\ Private!Own = Append(Opened(ifs, Top.base, ifs.indent), Undecided)
          /\ ifs.indent \in Nat /\ Top.base <= ifs.indent /\ ifs \in IfStates
      BY <2>1, <2>4, OwnNow DEF RInv, Shown
    <3>2. SameUpTo(ifs, ifs, ifs.indent) /\ GotIn(ifs, ifs.indent)
      BY <2>1 DEF SameUpTo, RInv, Got
    <3> QED
      BY <2>1, <2>4, <3>1, <3>2, ConditionStep DEF Private!Next
  <2> QED
    BY <2>1, <2>2, <2>3, <2>4 DEF Evaluate, SetIf
<1>6. CASE CommandFails
  <2>1. ReadsOn /\ err' = TRUE /\ Top.kind # "main" /\ ifs' = ifs
    BY <1>6 DEF CommandFails, Reading, ReadsOn
  <2>2. SameUpTo(ifs, ifs', Top.base)
    BY <2>1 DEF SameUpTo
  <2> QED
    BY <2>1, <2>2, FailStep DEF Private!Next
<1> QED
  BY <1>1, <1>2, <1>3, <1>4, <1>5, <1>6 DEF FlowControl

(***************************************************************************)
(* Entering a scope                                                        *)
(***************************************************************************)
LEMMA PushRises ==
  ASSUME TypeOK, RisingIn(scopes),
         NEW kind \in {"fn", "loop"}, NEW at \in Places,
         NEW base \in Level, NEW caught \in BOOLEAN,
         Push(kind, at, base, caught), Top.base <= base
  PROVE  RisingIn(scopes')
<1> DEFINE n == Len(scopes)
<1>1. n \in Nat \ {0} /\ n \in 1 .. n
  BY EmptySeq, LenProperties DEF TypeOK
<1>2. /\ Len(scopes') = n + 1 /\ scopes'[n + 1].base = base
      /\ \A k \in 1 .. n : scopes'[k].base = scopes[k].base
  <2>1. /\ Len(scopes') = n + 1 /\ scopes'[n + 1] = NewScope(kind, base, caught)
        /\ \A k \in 1 .. n : scopes'[k].base = scopes[k].base
    BY PushFacts
  <2> QED
    BY <2>1 DEF NewScope
<1>3. Top = scopes[n]
  BY DEF Top
<1>4. \A k \in 1 .. n : scopes[k].base \in Nat
  <2>1. \A k \in 1 .. n : scopes[k] \in Scope
    BY ElementOfSeq DEF TypeOK
  <2> QED
    BY <2>1 DEF Scope, Level
<1>5. base \in Nat
  BY DEF Level
<1> HIDE DEF n
<1>6. \A k \in 1 .. n : scopes[k].base <= base
  <2>1. \A k \in 1 .. n : scopes[k].base <= scopes[n].base
    BY <1>1 DEF RisingIn, n
  <2> QED
    BY <1>1, <1>3, <1>4, <1>5, <2>1
<1>7. ASSUME NEW j \in 1 .. n + 1, NEW k \in 1 .. n + 1, j <= k
      PROVE  scopes'[j].base <= scopes'[k].base
  <2>1. CASE k = n + 1 /\ j = n + 1
    BY <1>2, <1>5, <2>1
  <2>2. CASE k = n + 1 /\ j # n + 1
    <3>1. j \in 1 .. n
      BY <1>1, <2>2
    <3> QED
      BY <1>2, <1>6, <2>2, <3>1
  <2>3. CASE k # n + 1
    <3>1. k \in 1 .. n /\ j \in 1 .. n
      BY <1>1, <1>7, <2>3
    <3> QED
      BY <1>2, <1>7, <3>1 DEF RisingIn, n
  <2> QED
    BY <2>1, <2>2, <2>3
<1> QED
  BY <1>2, <1>7 DEF RisingIn

\* The start of a function or loop.
LEMMA EnterStep ==
  ASSUME RInv, IInv', ~err, UNCHANGED err,
         NEW kind \in {"fn", "loop"}, NEW at \in Places,
         NEW base \in Level, NEW caught \in BOOLEAN,
         Push(kind, at, base, caught), Top.base <= base,
         SameUpTo(ifs, ifs', base), ifs'.indent = base, GotIn(ifs', base),
         Private!Own = IF at = "elif" THEN Append(Opened(ifs, Top.base, base), Undecided)
                       ELSE Opened(ifs, Top.base, base),
         Private!Live(Opened(ifs, Top.base, base))
  PROVE  Private!Enter /\ Extra'
<1> DEFINE n == Len(scopes)
           f == Opened(ifs, Top.base, base)
<1>1. n \in Nat \ {0} /\ n \in 1 .. n /\ Top.base \in Nat /\ base \in Nat /\ Top = scopes[n]
  BY TopFacts DEF RInv, IInv, Level
<1>2. /\ Len(scopes') = n + 1 /\ scopes'[n + 1] = NewScope(kind, base, caught)
      /\ scopes'[n].at = at
      /\ \A k \in 1 .. n : scopes'[k].base = scopes[k].base
      /\ \A k \in 1 .. n : k < n => scopes'[k].at = scopes[k].at
  BY PushFacts DEF RInv, IInv
<1>3. RisingIn(scopes')
  BY PushRises DEF RInv, IInv
<1>4. SameUpTo(ifs, ifs', Top.base)
  BY <1>1, SameBelow
<1>5. LowerKept(n)
  <2>1. \A k \in 1 .. n - 1 : k \in 1 .. n /\ k < n
    BY <1>1
  <2> HIDE DEF n
  <2> QED
    BY <1>2, <1>4, <2>1 DEF LowerKept
<1>6. Good(ifs, scopes, err) /\ Good(ifs', scopes', err')
  BY <1>3, GoodNow, GoodNext DEF RInv
<1>7. StackIn(ifs', scopes', err', n) = Private!Own
  <2>1. Opened(ifs', Top.base, base) = f
    BY <1>1, OpenedSame
  <2>2. /\ n # Len(scopes') /\ scopes'[n].base = Top.base /\ scopes'[n + 1].base = base
    BY <1>1, <1>2 DEF NewScope
  <2>3. StackIn(ifs', scopes', err', n) = Shown(ifs', scopes'[n], base)
    BY <2>2 DEF StackIn
  <2> QED
    BY <1>2, <2>1, <2>2, <2>3 DEF Shown
<1>8. StackIn(ifs', scopes', err', n + 1) = << >>
  <2>1. Opened(ifs', base, base) = << >>
    BY <1>1, OpenedNone
  <2>2. Shown(ifs', scopes'[n + 1], base) = Opened(ifs', base, base)
    BY <1>2 DEF Shown, NewScope
  <2> QED
    BY <1>2, <2>1, <2>2 DEF StackIn
<1>9. StackIn(ifs, scopes, err, n) = Private!Own
  BY <1>6, OwnIs
<1>10. View(ifs', scopes', err') = Append(View(ifs, scopes, err), << >>)
  <2>1. View(ifs', scopes', err')
           = Append(View(ifs, scopes, err), StackIn(ifs', scopes', err', Len(scopes')))
    BY <1>2, <1>5, <1>6, <1>7, <1>9, EnterView
  <2> QED
    BY <1>2, <1>8, <2>1
<1>11. \/ Private!Live(Private!Own)
       \/ /\ Private!Own # << >> /\ Private!Live(Private!Butlast(Private!Own))
          /\ Private!Inner = [taken |-> "no", last |-> FALSE]
  <2>1. CASE at = "elif"
    <3>1. f \in Seq(Blocks) /\ Undecided \in Blocks
      BY <1>1, OpenedType DEF Undecided, Blocks
    <3>2. /\ Private!Butlast(Private!Own) = f /\ Private!Own # << >>
          /\ Private!Own[Len(Private!Own)] = Undecided
      BY <2>1, <3>1, AppendShape
    <3> QED
      BY <3>2 DEF Private!Inner, Undecided
  <2>2. CASE at # "elif"
    BY <2>2
  <2> QED
    BY <2>1, <2>2
<1>12. Private!Enter
  BY <1>10, <1>11, Mapping DEF Private!Enter
<1>13. Top'.base = base /\ Top'.at = "line"
  BY <1>2 DEF Top, NewScope
<1>14. Got' /\ Idle'
  BY <1>13 DEF Got, Idle
<1> QED
  BY <1>3, <1>12, <1>14 DEF Extra

\* A command or a condition of the branch that is followed, or a value.
LEMMA CallStep ==
  ASSUME RInv, IInv', ~err, ~Blocked(ifs), UNCHANGED <<ifs, err>>, Top.at # "elif",
         NEW kind \in {"fn", "loop"}, NEW at \in Places, at # "elif",
         NEW caught \in BOOLEAN, Push(kind, at, ifs.indent, caught)
  PROVE  Private!Enter /\ Extra'
<1>1. /\ Private!Own = Opened(ifs, Top.base, ifs.indent)
      /\ Top.base \in Nat /\ ifs.indent \in Nat /\ Top.base <= ifs.indent
      /\ ifs \in IfStates /\ \A i \in 1 .. Top.base : ifs.T[i]
  BY OwnNow DEF RInv, Shown
<1>2. ifs.indent \in Level
  BY <1>1 DEF IfStates
<1>3. Private!Live(Opened(ifs, Top.base, ifs.indent))
  BY <1>1, OpenedLive DEF Blocked
<1>4. SameUpTo(ifs, ifs', ifs.indent) /\ GotIn(ifs', ifs.indent) /\ ifs'.indent = ifs.indent
  BY DEF SameUpTo, RInv, Got
<1> QED
  BY <1>1, <1>2, <1>3, <1>4, EnterStep

\* A call in the condition of an "elif".
LEMMA CallInElifStep ==
  ASSUME RInv, IInv', CallInElif
  PROVE  Private!Enter /\ Extra'
<1> DEFINE u == Unindent(Branch(ifs, "elif"))
           b == ifs.indent - 1
<1>1. /\ Reading /\ OwnBlock /\ CanBranch(ifs) /\ ~Blocked(Branch(ifs, "elif")) /\ ifs' = u
      /\ Push("fn", "elif", b, FALSE) /\ UNCHANGED err
  BY DEF CallInElif
<1>2. /\ u \in IfStates /\ u.indent = b /\ Top.base <= b /\ b \in Nat
      /\ SameUpTo(ifs, u, b) /\ GotIn(u, b) /\ ~Blocked(u)
      /\ Private!Own = Append(Opened(ifs, Top.base, b), Undecided)
  BY <1>1, NowUndecided
<1>3. ~err /\ Top.at = "line"
  BY <1>1, ReadingFacts DEF RInv
<1> HIDE DEF u, b
<1>4. Top.base \in Nat /\ b \in Level /\ \A i \in 1 .. Top.base : ifs.T[i]
  BY <1>2, <1>3, OwnNow DEF RInv, IfStates
<1>5. Private!Live(Opened(ifs, Top.base, b))
  <2>1. \A i \in 1 .. b : ifs.T[i]
    BY <1>2 DEF SameUpTo, Blocked
  <2> QED
    BY <1>2, <1>4, <2>1, OpenedLive
<1>6. "fn" \in {"fn", "loop"} /\ "elif" \in Places /\ FALSE \in BOOLEAN
  BY DEF Places
<1> QED
  BY <1>1, <1>2, <1>3, <1>4, <1>5, <1>6, EnterStep

(***************************************************************************)
(* Leaving a scope                                                         *)
(***************************************************************************)
LEMMA PopFacts ==
  ASSUME RInv, Kept(scopes, scopes'), Len(scopes) > 1, Len(scopes') = Len(scopes) - 1,
         SameUpTo(ifs, ifs', Top.base)
  PROVE  LET n == Len(scopes) IN
         /\ n \in Nat /\ n \in 1 .. n /\ n - 1 \in 1 .. n /\ Top = scopes[n]
         /\ RisingIn(scopes') /\ LowerKept(n - 1)
         /\ Top' = scopes'[n - 1] /\ Top'.base = scopes[n - 1].base
         /\ Top'.base \in Nat /\ Top.base \in Nat /\ Top'.base <= Top.base
         /\ GotIn(ifs', Top.base) /\ GotIn(ifs', Top'.base)
<1> DEFINE n == Len(scopes)
           b == Top.base
<1>1. n \in Nat /\ n \in 1 .. n /\ n - 1 \in 1 .. n /\ Top = scopes[n] /\ Top.base \in Nat
      /\ n - 1 \in 1 .. n - 1
  BY TopFacts DEF RInv, IInv, Level
<1>2. \A k \in 1 .. n : scopes[k].base \in Nat
  <2>1. \A k \in 1 .. n : scopes[k] \in Scope
    BY ElementOfSeq DEF RInv, IInv, TypeOK
  <2> QED
    BY <2>1 DEF Scope, Level
<1>3. Top' = scopes'[n - 1]
  BY DEF Top
<1>4. \A k \in 1 .. n - 1 : k \in 1 .. n /\ scopes'[k].base = scopes[k].base
  BY <1>1 DEF Kept
<1>5. \A k \in 1 .. (n - 1) - 1 : scopes'[k].at = scopes[k].at
  <2>1. \A k \in 1 .. (n - 1) - 1 : k \in 1 .. n - 1 /\ k < n - 1
    BY <1>1
  <2> QED
    BY <2>1 DEF Kept
<1>6. RisingIn(scopes')
  BY <1>4 DEF RisingIn, RInv
<1>7. LowerKept(n - 1)
  BY <1>4, <1>5 DEF LowerKept
<1>8. Top'.base = scopes[n - 1].base
  BY <1>1, <1>3, <1>4
<1>9. Top'.base \in Nat /\ Top'.base <= Top.base
  <2>1. n - 1 <= n
    BY <1>1
  <2> QED
    BY <1>1, <1>2, <1>8, <2>1 DEF RInv, RisingIn
<1>10. GotIn(ifs', Top.base)
  BY <1>1, GotSame DEF RInv, Got
<1>11. \A i \in 1 .. Top'.base : i \in 1 .. Top.base
  BY <1>1, <1>9
<1>12. GotIn(ifs', Top'.base)
  BY <1>10, <1>11 DEF GotIn
<1> QED
  BY <1>1, <1>3, <1>6, <1>7, <1>8, <1>9, <1>10, <1>12

\* A scope ends well, or with an error that its caller catches.
LEMMA LeaveStep ==
  ASSUME RInv, IInv', Kept(scopes, scopes'), Len(scopes) > 1,
         Len(scopes') = Len(scopes) - 1,
         scopes'[Len(scopes) - 1].at = scopes[Len(scopes) - 1].at,
         err' = FALSE, ifs'.indent = Top.base, SameUpTo(ifs, ifs', Top.base)
  PROVE  Private!Leave /\ Extra'
<1> DEFINE n == Len(scopes)
           c == scopes[n - 1]
           V == View(ifs, scopes, err)
<1>1. /\ n \in Nat /\ n \in 1 .. n /\ n - 1 \in 1 .. n /\ Top = scopes[n]
      /\ RisingIn(scopes') /\ LowerKept(n - 1)
      /\ Top' = scopes'[n - 1] /\ Top'.base = c.base
      /\ c.base \in Nat /\ Top.base \in Nat /\ c.base <= Top.base
      /\ GotIn(ifs', Top.base) /\ GotIn(ifs', Top'.base)
  BY PopFacts
<1>2. Good(ifs, scopes, err) /\ Good(ifs', scopes', err')
  BY <1>1, GoodNow, GoodNext DEF RInv
<1>3. StackIn(ifs', scopes', err', n - 1) = StackIn(ifs, scopes, err, n - 1)
  <2>1. Opened(ifs', c.base, Top.base) = Opened(ifs, c.base, Top.base)
    BY <1>1, OpenedSame
  <2>2. StackIn(ifs', scopes', err', n - 1) = Shown(ifs', scopes'[n - 1], Top.base)
    BY DEF StackIn
  <2>3. StackIn(ifs, scopes, err, n - 1) = Shown(ifs, c, Top.base)
    <3>1. (n - 1) + 1 = n /\ n - 1 # n
      BY <1>1
    <3> QED
      BY <1>1, <3>1 DEF StackIn
  <2>4. scopes'[n - 1].base = c.base
    BY <1>1
  <2> QED
    BY <2>1, <2>2, <2>3, <2>4 DEF Shown
<1>4. View(ifs', scopes', err') = Private!Butlast(V) /\ Len(V) = n
  BY <1>1, <1>2, <1>3, PopView
<1>5. Private!Leave
  BY <1>4, Mapping DEF Private!Leave, Private!Others
<1>6. Got'
  BY <1>1 DEF Got
<1>7. Idle'
  <2>1. \A i \in 1 .. Top.base : ifs.T[i]
    BY DEF RInv, IInv, Frames, FramesAt
  <2> QED
    BY <2>1 DEF Idle, Blocked, SameUpTo
<1> QED
  BY <1>1, <1>5, <1>6, <1>7 DEF Extra

\* A scope ends with an error that its caller does not catch.
LEMMA AbandonStep ==
  ASSUME RInv, IInv', Kept(scopes, scopes'), Len(scopes) > 1,
         Len(scopes') = Len(scopes) - 1,
         scopes'[Len(scopes) - 1].at # "elif",
         err' = (scopes[Len(scopes) - 1].kind # "main"), err' \/ ifs'.indent = 0,
         SameUpTo(ifs, ifs', Top.base)
  PROVE  Private!Abandon /\ Extra'
<1> DEFINE n == Len(scopes)
           m == n - 1
           V == View(ifs, scopes, err)
           B == Private!Butlast(V)
<1>1. /\ n \in Nat /\ n \in 1 .. n /\ m \in 1 .. n /\ Top = scopes[n]
      /\ RisingIn(scopes') /\ LowerKept(m)
      /\ Top' = scopes'[m] /\ Top'.base = scopes[m].base
      /\ GotIn(ifs', Top'.base)
  BY PopFacts
<1>2. Good(ifs, scopes, err) /\ Good(ifs', scopes', err')
  BY <1>1, GoodNow, GoodNext DEF RInv
<1>3. scopes[m].kind = "main" <=> m = 1
  <2>1. m # 1 => m \in 2 .. n
    BY <1>1
  <2> QED
    BY <2>1 DEF RInv, IInv, Stack
<1>4. StackIn(ifs', scopes', err', m) = << >>
  <2>1. CASE err'
    BY <2>1 DEF StackIn
  <2>2. CASE ~err'
    <3>1. scopes'[m].base = 0 /\ ifs'.indent = 0
      BY <1>1, <1>3, <2>2 DEF RInv, IInv, Stack
    <3>2. Opened(ifs', 0, 0) = << >>
      BY OpenedNone
    <3> QED
      BY <2>2, <3>1, <3>2 DEF StackIn, Shown
  <2> QED
    BY <2>1, <2>2
<1>5. /\ Len(V) = n /\ Len(B) = m
      /\ View(ifs', scopes', err') = [B EXCEPT ![m] = StackIn(ifs', scopes', err', m)]
  BY <1>1, <1>2, PopView
<1>6. err' = (m > 1)
  BY <1>1, <1>3
<1>7. Private!Abandon
  <2> HIDE DEF n, m, V, B
  <2>1. View(ifs', scopes', err') = [B EXCEPT ![Len(B)] = << >>]
    BY <1>4, <1>5
  <2>2. err' = (Len(B) > 1)
    BY <1>5, <1>6
  <2>3. Len(V) > 1
    BY <1>5 DEF n
  <2>4. Private!Others = B
    BY Mapping DEF Private!Others, B, V
  <2> QED
    BY <2>1, <2>2, <2>3, <2>4, Mapping DEF Private!Abandon, V
<1>8. Got'
  <2>1. ~err' => GotIn(ifs', ifs'.indent)
    BY DEF GotIn
  <2> QED
    BY <1>1, <2>1 DEF Got
<1>9. Idle'
  BY DEF Idle, Blocked
<1> QED
  BY <1>1, <1>7, <1>8, <1>9 DEF Extra

\* The arrays stay as they are, and the counter moves.
CounterOnly(s) == s.T = ifs.T /\ s.gotT = ifs.gotT /\ s.tok = ifs.tok

\* RELAX and IFRESET are of this kind.
LEMMA CounterMoves ==
  ASSUME NEW s \in IfStates
  PROVE  /\ Relax(s).T = s.T /\ Relax(s).gotT = s.gotT /\ Relax(s).tok = s.tok
         /\ Relax(s).indent = 0
         /\ \A n : /\ Reset(s, n).T = s.T /\ Reset(s, n).gotT = s.gotT
                   /\ Reset(s, n).tok = s.tok /\ Reset(s, n).indent = n
BY DEF IfStates, Relax, Reset

\* A scope ends well.
LEMMA SuccessEnds ==
  ASSUME RInv, IInv', Top.kind # "main", NEW s, Succeed(s), CounterOnly(s),
         s.indent = Top.base
  PROVE  Private!Leave /\ Extra'
<1>1. Len(scopes) > 1 /\ Len(scopes) \in Nat
  BY TopFacts DEF RInv, IInv
<1>2. Kept(scopes, scopes') /\ Len(scopes') = Len(scopes) - 1
  BY <1>1, SucceedKept DEF RInv, IInv
<1>3. scopes'[Len(scopes) - 1].at = scopes[Len(scopes) - 1].at
  <2>1. Len(scopes) - 1 \in 1 .. Len(scopes) - 1
    BY <1>1
  <2> QED
    BY <1>1, <2>1, BelowFacts DEF RInv, IInv, TypeOK, Succeed
<1>4. SameUpTo(ifs, ifs', Top.base) /\ ifs'.indent = Top.base /\ err' = FALSE
  BY DEF Succeed, CounterOnly, SameUpTo
<1> QED
  BY <1>1, <1>2, <1>3, <1>4, LeaveStep

\* A scope ends with an error.
LEMMA ErrorEnds ==
  ASSUME RInv, IInv', Top.kind # "main", NEW s \in IfStates, Return(s), CounterOnly(s),
         Top.caught => s.indent = Top.base,
         s.indent = 0 \/ scopes[Len(scopes) - 1].kind # "main"
  PROVE  Private!Next /\ Extra'
<1> DEFINE n == Len(scopes)
<1>1. n > 1 /\ n \in Nat /\ n - 1 \in 1 .. n - 1 /\ Len(Below(scopes)) = n - 1
      /\ Below(scopes) \in Seq(Scope)
  <2>1. n > 1 /\ n \in Nat /\ scopes \in Seq(Scope)
    BY TopFacts DEF RInv, IInv, TypeOK
  <2>2. Len(Below(scopes)) = n - 1 /\ Below(scopes) \in Seq(Scope)
    BY <2>1, BelowFacts
  <2> QED
    BY <2>1, <2>2
<1>2. Kept(scopes, scopes') /\ Len(scopes') = n - 1
  BY <1>1, ReturnKept DEF RInv, IInv
<1>3. CASE Top.caught /\ ifs' = s /\ err' = FALSE /\ scopes' = Below(scopes)
  <2>1. Succeed(s)
    BY <1>3 DEF Succeed
  <2> QED
    BY <1>3, <2>1, SuccessEnds DEF Private!Next
<1>4. CASE /\ ~Top.caught
           /\ ifs' = IF scopes[n - 1].at \in {"if", "elif"} THEN Relax(s) ELSE s
           /\ err' = (scopes[n - 1].kind # "main")
           /\ scopes' = TopAt(Below(scopes),
                              IF scopes[n - 1].at = "loop" THEN "loop" ELSE "line")
  <2>1. SameUpTo(ifs, ifs', Top.base)
    BY <1>4, CounterMoves DEF CounterOnly, SameUpTo
  <2>2. err' \/ ifs'.indent = 0
    BY <1>4, CounterMoves
  <2>3. scopes'[n - 1].at # "elif"
    <3> DEFINE a == IF scopes[n - 1].at = "loop" THEN "loop" ELSE "line"
               t == Below(scopes)
    <3>1. t \in [1 .. n - 1 -> Scope]
      BY <1>1, LenProperties
    <3>2. scopes' = [t EXCEPT ![n - 1].at = a]
      BY <1>1, <1>4 DEF TopAt
    <3> HIDE DEF t
    <3>3. scopes'[n - 1].at = a
      BY <1>1, <3>1, <3>2 DEF Scope
    <3> QED
      BY <3>3
  <2> QED
    BY <1>1, <1>2, <1>4, <2>1, <2>2, <2>3, AbandonStep DEF Private!Next
<1> QED
  BY <1>3, <1>4 DEF Return, FailTo

\* The value of a "return" that a loop has met cannot be had.
LEMMA ValueFailsStep ==
  ASSUME RInv, IInv', ValueFails, Top.kind = "fn"
  PROVE  Private!Fail /\ Extra'
<1>1. ReadsOn /\ SameUpTo(ifs, ifs', Top.base) /\ err' = TRUE
  BY DEF ValueFails, ReadsOn, SameUpTo
<1> QED
  BY <1>1, FailStep

\* The last line, or the value of a "return" that a loop has met.
LEMMA CheckedEndStep ==
  ASSUME RInv, IInv', Top.kind = "fn", CheckedEnd, ~Top.caught \/ ifs.indent = Top.base
  PROVE  Private!Next /\ Extra'
<1>1. ifs \in IfStates /\ CounterOnly(ifs) /\ CounterOnly(Relax(ifs))
  BY CounterMoves DEF RInv, IInv, TypeOK, CounterOnly
<1>2. CASE ifs.indent = Top.base /\ Succeed(ifs)
  BY <1>1, <1>2, SuccessEnds DEF Private!Next
<1>3. CASE ifs.indent # Top.base /\ Return(Relax(ifs))
  <2>1. Relax(ifs) \in IfStates /\ Relax(ifs).indent = 0
    BY RelaxedFrames DEF RInv
  <2> QED
    BY <1>1, <1>3, <2>1, ErrorEnds
<1> QED
  BY <1>2, <1>3 DEF CheckedEnd

\* That a scope reads on after its loop changes no stack.
LEMMA AfterLoopStep ==
  ASSUME RInv, IInv', AfterLoop
  PROVE  UNCHANGED Private!vars /\ Extra'
<1>1. ReadsOn /\ ~err /\ UNCHANGED <<ifs, err>> /\ Top.at = "loop"
  BY DEF AfterLoop, ReadsOn
<1>2. SameUpTo(ifs, ifs', Top.base) /\ GotIn(ifs', ifs'.indent)
  BY <1>1 DEF SameUpTo, RInv, Got
<1>3. Private!SetOwn(Opened(ifs', Top.base, ifs'.indent)) /\ Extra'
  BY <1>1, <1>2, OwnStep
<1>4. Private!Own = Opened(ifs, Top.base, ifs.indent)
  BY <1>1, OwnNow DEF RInv, Shown
<1>5. Private!SetOwn(Private!Own)
  BY <1>1, <1>3, <1>4
<1>6. UNCHANGED [j \in DOMAIN scopes |-> StackOf(j)]
  BY <1>5 DEF Private!SetOwn, Private!Own
<1> QED
  BY <1>1, <1>3, <1>6 DEF Private!vars

\* The steps of gretl_function_exec().
LEMMA FunctionStep ==
  ASSUME RInv, IInv', Function, ~(CatchCalls /\ LoopReturns), "script" \notin Faults
  PROVE  (Private!Next \/ UNCHANGED Private!vars) /\ Extra'
<1>0. IInv /\ ifs \in IfStates
  BY DEF RInv, IInv, TypeOK
<1>1. CASE CallInCommand
  <2>1. PICK caught \in {FALSE, MayCatch} :
           Push("fn", "line", ifs.indent, caught)
    BY <1>1 DEF CallInCommand
  <2>2. caught \in BOOLEAN
    BY <2>1, ScriptAssumption, Zenon DEF InFunction, MayCatch
  <2>3. /\ Reading /\ ~Blocked(ifs) /\ UNCHANGED <<ifs, err>> /\ "line" \in Places
    BY <1>1 DEF CallInCommand, Places
  <2>4. ~err /\ Top.at # "elif"
    BY <1>0, <2>3, ReadingFacts
  <2> QED
    BY <2>1, <2>2, <2>3, <2>4, CallStep DEF Private!Next
<1>2. CASE CallInIf
  <2>1. /\ Reading /\ ~Blocked(ifs) /\ UNCHANGED <<ifs, err>> /\ "if" \in Places
        /\ Push("fn", "if", ifs.indent, FALSE)
    BY <1>2 DEF CallInIf, Places
  <2>2. ~err /\ Top.at # "elif"
    BY <1>0, <2>1, ReadingFacts
  <2> QED
    BY <2>1, <2>2, CallStep DEF Private!Next
<1>3. CASE CallInElif
  BY <1>3, CallInElifStep DEF Private!Next
<1>4. CASE FunctionEnd
  <2>1. CheckedEnd /\ Top.kind = "fn" /\ ifs.indent = Top.base
    BY <1>4 DEF FunctionEnd
  <2> QED
    BY <2>1, CheckedEndStep
<1>5. CASE EarlyReturn
  <2>1. Succeed(Reset(ifs, Top.base)) /\ Top.kind # "main"
    BY <1>5 DEF EarlyReturn
  <2>2. CounterOnly(Reset(ifs, Top.base)) /\ Reset(ifs, Top.base).indent = Top.base
    BY <1>0, CounterMoves DEF CounterOnly
  <2> QED
    BY <2>1, <2>2, SuccessEnds DEF Private!Next
<1>6. CASE ReturnAfterLoop
  <2>1. Top.kind = "fn" /\ returnLine /\ (CheckedEnd \/ ValueFails)
    BY <1>6 DEF ReturnAfterLoop
  <2>2. ~Top.caught
    BY <1>0, <2>1, CaughtInside, Zenon DEF IInv, Pending
  <2> QED
    BY <2>1, <2>2, CheckedEndStep, ValueFailsStep DEF Private!Next
<1>7. CASE CallInReturn
  <2>1. /\ ~err /\ ~Blocked(ifs) /\ UNCHANGED <<ifs, err>> /\ Top.at = "loop"
        /\ Push("fn", "return", ifs.indent, FALSE) /\ "return" \in Places
    BY <1>7 DEF CallInReturn, Places
  <2> QED
    BY <2>1, CallStep DEF Private!Next
<1>8. CASE ValueReturned
  <2>1. Top.kind = "fn" /\ LoopReturns /\ (CheckedEnd \/ ValueFails)
    BY <1>8 DEF ValueReturned
  <2>2. ~Top.caught
    BY <1>0, <2>1, CaughtInside, Zenon
  <2> QED
    BY <2>1, <2>2, CheckedEndStep, ValueFailsStep DEF Private!Next
<1>9. CASE AfterLoop
  BY <1>9, AfterLoopStep
<1>10. CASE FunctionFails
  <2> DEFINE s == IF InFunction(Below(scopes)) THEN Reset(ifs, Top.base) ELSE Relax(ifs)
             n == Len(scopes)
  <2>1. Top.kind = "fn" /\ Return(s)
    BY <1>10 DEF FunctionFails
  <2>2. /\ n > 1 /\ n \in Nat /\ Top.base \in Level
        /\ Below(scopes) \in Seq(Scope) /\ Len(Below(scopes)) = n - 1
        /\ \A i \in 1 .. n - 1 : Below(scopes)[i] = scopes[i]
    BY <1>0, <2>1, TopFacts, BelowFacts DEF IInv, TypeOK
  <2>3. CASE InFunction(Below(scopes))
    <3>1. s = Reset(ifs, Top.base)
      BY <2>3
    <3>2. s \in IfStates /\ CounterOnly(s) /\ s.indent = Top.base
      BY <1>0, <2>2, <3>1, ResetType, CounterMoves DEF CounterOnly
    <3>3. PICK j \in 1 .. n - 1 : scopes[j].kind = "fn"
      BY <2>2, <2>3, LenProperties DEF InFunction
    <3>4. scopes[n - 1].kind # "main"
      <4>1. CASE n - 1 = 1
        <5> HIDE DEF n
        <5>1. j = n - 1
          BY <2>2, <4>1
        <5> QED
          BY <3>3, <5>1
      <4>2. CASE n - 1 # 1
        <5>1. n - 1 \in 2 .. n
          BY <2>2, <4>2
        <5> QED
          BY <1>0, <5>1 DEF IInv, Stack
      <4> QED
        BY <4>1, <4>2
    <3> HIDE DEF s
    <3> QED
      BY <2>1, <3>2, <3>4, ErrorEnds
  <2>4. CASE ~InFunction(Below(scopes))
    <3>1. s = Relax(ifs) /\ ~Top.caught
      BY <1>0, <2>4, CaughtInside
    <3>2. s \in IfStates /\ CounterOnly(s) /\ s.indent = 0
      BY <1>0, <3>1, RelaxType, CounterMoves DEF CounterOnly
    <3> HIDE DEF s
    <3> QED
      BY <2>1, <3>1, <3>2, ErrorEnds
  <2> QED
    BY <2>3, <2>4
<1> QED
  BY <1>1, <1>2, <1>3, <1>4, <1>5, <1>6, <1>7, <1>8, <1>9, <1>10 DEF Function

\* The steps of gretl_loop_exec().
LEMMA LoopStep ==
  ASSUME RInv, IInv', Loop
  PROVE  Private!Next /\ Extra'
<1>0. IInv /\ ifs \in IfStates
  BY DEF RInv, IInv, TypeOK
<1>1. CASE StartLoop
  <2>1. /\ Reading /\ ~Blocked(ifs) /\ UNCHANGED <<ifs, err>> /\ "loop" \in Places
        /\ Push("loop", "loop", ifs.indent, FALSE)
    BY <1>1 DEF StartLoop, Places
  <2>2. ~err /\ Top.at # "elif"
    BY <1>0, <2>1, ReadingFacts
  <2> QED
    BY <2>1, <2>2, CallStep DEF Private!Next
<1>2. CASE IterationEnd
  <2>1. CASE Succeed(ifs) /\ ifs.indent = Top.base
    BY <1>2, <2>1, SuccessEnds DEF IterationEnd, CounterOnly, Private!Next
  <2>2. CASE ifs' = Relax(ifs) /\ err' = TRUE /\ UNCHANGED scopes
    <3>1. ReadsOn /\ SameUpTo(ifs, ifs', Top.base)
      BY <1>0, <1>2, <2>2, SameArrays DEF IterationEnd, Reading, ReadsOn
    <3> QED
      BY <1>2, <2>2, <3>1, FailStep DEF IterationEnd, Private!Next
  <2> QED
    BY <1>2, <2>1, <2>2 DEF IterationEnd
<1>3. CASE Break
  <2>1. Succeed(Reset(ifs, Top.base)) /\ Top.kind # "main"
    BY <1>3 DEF Break
  <2>2. CounterOnly(Reset(ifs, Top.base)) /\ Reset(ifs, Top.base).indent = Top.base
    BY <1>0, CounterMoves DEF CounterOnly
  <2> QED
    BY <2>1, <2>2, SuccessEnds DEF Private!Next
<1>4. CASE ReturnInLoop
  <2> DEFINE n == Len(scopes)
  <2>1. Kept(scopes, scopes') /\ Len(scopes') = n - 1 /\ n > 1
    BY <1>0, <1>4, ReturnInLoopKept
  <2>2. ifs' = Reset(ifs, Top.base) /\ err' = err /\ err = FALSE
    BY <1>0, <1>4, ReadingFacts DEF ReturnInLoop
  <2>3. SameUpTo(ifs, ifs', Top.base) /\ ifs'.indent = Top.base
    BY <1>0, <2>2, CounterMoves DEF SameUpTo
  <2>4. scopes'[n - 1].at = scopes[n - 1].at
    <3>1. n - 1 \in 1 .. n - 1 /\ scopes[n - 1] \in Scope
      BY <1>0, <2>1, TopFacts, LenProperties DEF IInv, TypeOK
    <3>2. scopes'[n - 1] = [scopes[n - 1] EXCEPT !.ret = TRUE] \/ scopes'[n - 1] = scopes[n - 1]
      BY <1>4, <3>1 DEF ReturnInLoop
    <3> QED
      BY <3>1, <3>2 DEF Scope
  <2> QED
    BY <2>1, <2>2, <2>3, <2>4, LeaveStep DEF Private!Next
<1>5. CASE LoopFails
  <2>1. Top.kind = "loop" /\ Return(Relax(ifs)) /\ ~Top.caught
    BY <1>0, <1>5, UncaughtLoop DEF LoopFails
  <2>2. Relax(ifs) \in IfStates /\ CounterOnly(Relax(ifs)) /\ Relax(ifs).indent = 0
    BY <1>0, RelaxType, CounterMoves DEF CounterOnly
  <2> QED
    BY <2>1, <2>2, ErrorEnds
<1> QED
  BY <1>1, <1>2, <1>3, <1>4, <1>5 DEF Loop

\* When nothing happens the invariant goes on to hold.
LEMMA StutterStep ==
  ASSUME RInv, UNCHANGED vars
  PROVE  UNCHANGED Private!vars /\ Extra'
<1>1. View(ifs', scopes', err') = View(ifs, scopes, err)
  BY DEF vars
<1>2. UNCHANGED Private!vars
  BY <1>1, Mapping DEF vars, Private!vars
<1>3. RisingIn(scopes') /\ Got' /\ Idle'
  BY DEF RInv, vars, Got, Idle, Top
<1> QED
  BY <1>2, <1>3 DEF Extra

\* All steps.
LEMMA BlocksNext ==
  ASSUME RInv, IInv', [Next]_vars, ~(CatchCalls /\ LoopReturns), "script" \notin Faults
  PROVE  (Private!Next \/ UNCHANGED Private!vars) /\ RInv'
<1>1. (Private!Next \/ UNCHANGED Private!vars) /\ Extra'
  BY FlowStep, FunctionStep, LoopStep, StutterStep DEF Next
<1> QED
  BY <1>1 DEF RInv, Extra

\* The start: one scope, and its empty stack.
LEMMA BlocksInit == Init => RInv /\ Private!Init
<1> SUFFICES ASSUME Init PROVE RInv /\ Private!Init
  OBVIOUS
<1>1. /\ Len(scopes) = 1 /\ scopes[1] = NewScope("main", 0, FALSE) /\ ~err /\ ifs.indent = 0
      /\ scopes \in Seq(Scope)
  BY InitInv DEF Init, InitIfState, IInv, TypeOK
<1>2. RisingIn(scopes)
  BY <1>1 DEF RisingIn, NewScope
<1>3. Got /\ Idle
  BY <1>1 DEF Got, GotIn, Idle, Blocked, NewScope, Top
<1>4. View(ifs, scopes, err) = << << >> >>
  <2>1. StackIn(ifs, scopes, err, 1) = << >>
    <3>1. Opened(ifs, 0, 0) = << >>
      BY OpenedNone
    <3> QED
      BY <1>1, <3>1 DEF StackIn, Shown, NewScope
  <2>2. Good(ifs, scopes, err)
    BY <1>2, InitInv, GoodNow
  <2>3. /\ View(ifs, scopes, err) \in Seq(Seq(Blocks)) /\ Len(View(ifs, scopes, err)) = 1
        /\ View(ifs, scopes, err)[1] = << >>
    BY <1>1, <2>1, <2>2, ViewType
  <2>4. << >> \in Seq(Blocks) /\ << << >> >> \in Seq(Seq(Blocks))
    BY EmptySeq, SingletonSeq
  <2>5. Len(<< << >> >>) = 1 /\ << << >> >>[1] = << >>
    OBVIOUS
  <2> QED
    BY <2>3, <2>4, <2>5, SeqSame
<1> QED
  BY <1>2, <1>3, <1>4, InitInv, Mapping DEF RInv, Private!Init, Init

(* The shared arrays and the shared counter of ifstate() give every        *)
(* script, call and loop a private stack of blocks, whatever their nesting *)
(* and wherever a "break", a "return" or an error ends them, caught by a   *)
(* function or by nobody, and in every block at most one branch is         *)
(* followed: the one that the conditions say.                              *)
THEOREM PrivateBlocksImplemented ==
  ASSUME ~(CatchCalls /\ LoopReturns), "script" \notin Faults PROVE Spec => ImplementsPrivateBlocks
<1>1. RInv /\ IInv' /\ [Next]_vars => [Private!Next]_Private!vars /\ RInv'
  BY BlocksNext
<1> QED
  BY BlocksInit, InitInv, NextInv, <1>1, PTL DEF Spec, ImplementsPrivateBlocks, Private!Spec

=============================================================================
