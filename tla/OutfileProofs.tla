--------------------------- MODULE OutfileProofs ----------------------------
(***************************************************************************)
(* Proofs about Outfile, for any number of functions, loops and scripts    *)
(* inside one another: as long as functions end their own redirections     *)
(* only, and all of them, every error is that of a command, and one that   *)
(* is caught ends no redirection of those who go on, an error leaves       *)
(* nothing diverted by those who fail; and as long as in addition --quiet  *)
(* is not in force when a function diverts its output or the session has   *)
(* an error, what it turned off is turned on again.  Without any of the    *)
(* faults the shared streams, states and vparms implement Outputs.         *)
(***************************************************************************)
EXTENDS Outfile, SequenceTheorems, FiniteSetTheorems, WellFoundedInduction, TLAPS

OwnOnly == Faults \cap {"closes", "leaves", "unparsed", "caught"} = {}

Polite == Faults \cap {"nested", "failing"} = {}

(***************************************************************************)
(* How many of the first i elements of a sequence are in a set.            *)
(***************************************************************************)
Among(s, i, K) == Cardinality({k \in 1 .. i : s[k] \in K})

LEMMA AmongFinite ==
  ASSUME NEW s, NEW K, NEW i \in Nat
  PROVE  IsFiniteSet({k \in 1 .. i : s[k] \in K}) /\ Among(s, i, K) \in Nat
<1>1. IsFiniteSet(1 .. i)
  BY FS_Interval
<1>2. IsFiniteSet({k \in 1 .. i : s[k] \in K})
  BY <1>1, FS_Subset
<1> QED
  BY <1>2, FS_CardinalityType DEF Among

LEMMA AmongNone == ASSUME NEW s, NEW K PROVE Among(s, 0, K) = 0
<1>1. {k \in 1 .. 0 : s[k] \in K} = {}
  OBVIOUS
<1> QED
  BY <1>1, FS_EmptySet DEF Among

LEMMA AmongStep ==
  ASSUME NEW s, NEW K, NEW i \in Nat
  PROVE  Among(s, i + 1, K) = Among(s, i, K) + IF s[i + 1] \in K THEN 1 ELSE 0
<1> DEFINE T == {k \in 1 .. i : s[k] \in K}
           U == {k \in 1 .. i + 1 : s[k] \in K}
<1>1. IsFiniteSet(T) /\ Among(s, i, K) \in Nat /\ i + 1 \notin T
  BY AmongFinite
<1>2. CASE s[i + 1] \in K
  <2>1. U = T \cup {i + 1}
    BY <1>2
  <2>2. Cardinality(T \cup {i + 1}) = Cardinality(T) + 1
    BY <1>1, FS_AddElement
  <2> QED
    BY <1>2, <2>1, <2>2 DEF Among
<1>3. CASE s[i + 1] \notin K
  <2>1. U = T
    BY <1>3
  <2> QED
    BY <1>1, <1>3, <2>1 DEF Among
<1> QED
  BY <1>2, <1>3

LEMMA AmongSame ==
  ASSUME NEW s, NEW t, NEW K, NEW i \in Nat, \A k \in 1 .. i : s[k] = t[k]
  PROVE  Among(s, i, K) = Among(t, i, K)
<1>1. {k \in 1 .. i : s[k] \in K} = {k \in 1 .. i : t[k] \in K}
  OBVIOUS
<1> QED
  BY <1>1 DEF Among

LEMMA AmongMore ==
  ASSUME NEW s, NEW K, NEW i \in Nat, NEW j \in Nat, i <= j
  PROVE  Among(s, i, K) <= Among(s, j, K)
<1>1. {k \in 1 .. i : s[k] \in K} \in SUBSET {k \in 1 .. j : s[k] \in K}
  OBVIOUS
<1>2. IsFiniteSet({k \in 1 .. j : s[k] \in K})
  BY AmongFinite
<1> QED
  BY <1>1, <1>2, FS_Subset DEF Among

LEMMA FrontFacts ==
  ASSUME NEW S, NEW s \in Seq(S), s # << >>
  PROVE  /\ Front(s) \in Seq(S)
         /\ Len(Front(s)) = Len(s) - 1 /\ Len(Front(s)) \in Nat
         /\ \A i \in 1 .. Len(s) - 1 : Front(s)[i] = s[i]
         /\ Last(s) \in S
<1>1. Len(s) \in Nat \ {0} /\ \A i \in 1 .. Len(s) : s[i] \in S
  BY LenProperties, ElementOfSeq, EmptySeq
<1>2. Len(s) - 1 \in Int /\ 1 \in Int /\ \A i \in 1 .. Len(s) - 1 : s[i] \in S
  BY <1>1
<1>3. /\ SubSeq(s, 1, Len(s) - 1) \in Seq(S)
      /\ Len(SubSeq(s, 1, Len(s) - 1)) = IF 1 <= Len(s) - 1 THEN Len(s) - 1 - 1 + 1 ELSE 0
      /\ \A i \in 1 .. Len(s) - 1 - 1 + 1 : SubSeq(s, 1, Len(s) - 1)[i] = s[1 + i - 1]
  BY <1>2, SubSeqProperties
<1>4. Front(s) \in Seq(S) /\ Len(Front(s)) = Len(s) - 1
  <2>1. Front(s) \in Seq(S)
    BY <1>3 DEF Front
  <2>2. Len(Front(s)) = IF 1 <= Len(s) - 1 THEN Len(s) - 1 - 1 + 1 ELSE 0
    BY <1>3, Zenon DEF Front
  <2>3. Len(s) \in Nat /\ Len(s) >= 1
    BY <1>1
  <2>4. Len(Front(s)) = Len(s) - 1
    <3>1. CASE Len(s) = 1
      BY <2>2, <3>1
    <3>2. CASE Len(s) > 1
      BY <2>2, <2>3, <3>2
    <3> QED
      BY <2>3, <3>1, <3>2
  <2> QED
    BY <2>1, <2>4
<1>5. \A i \in 1 .. Len(s) - 1 : Front(s)[i] = s[i]
  BY <1>1, <1>3 DEF Front
<1> QED
  BY <1>1, <1>4, <1>5 DEF Last

LEMMA AmongLast ==
  ASSUME NEW S, NEW s \in Seq(S), s # << >>, NEW K
  PROVE  Among(s, Len(s), K) =
            Among(Front(s), Len(Front(s)), K) + IF Last(s) \in K THEN 1 ELSE 0
<1>1. /\ Len(Front(s)) = Len(s) - 1 /\ Len(s) - 1 \in Nat
      /\ \A i \in 1 .. Len(s) - 1 : Front(s)[i] = s[i]
  BY FrontFacts
<1>2. Among(Front(s), Len(s) - 1, K) = Among(s, Len(s) - 1, K)
  BY <1>1, AmongSame
<1>3. Among(s, (Len(s) - 1) + 1, K) =
        Among(s, Len(s) - 1, K) + IF s[(Len(s) - 1) + 1] \in K THEN 1 ELSE 0
  BY <1>1, AmongStep
<1>4. Len(s) \in Nat
  BY LenProperties
<1> QED
  BY <1>1, <1>2, <1>3, <1>4 DEF Last

LEMMA AmongAppend ==
  ASSUME NEW S, NEW s \in Seq(S), NEW e \in S, NEW K
  PROVE  Among(Append(s, e), Len(s) + 1, K) =
            Among(s, Len(s), K) + IF e \in K THEN 1 ELSE 0
<1>1. /\ Len(s) \in Nat /\ \A i \in 1 .. Len(s) : Append(s, e)[i] = s[i]
      /\ Append(s, e)[Len(s) + 1] = e
  BY LenProperties, AppendProperties
<1>2. Among(Append(s, e), Len(s), K) = Among(s, Len(s), K)
  BY <1>1, AmongSame
<1>3. Among(Append(s, e), Len(s) + 1, K) = Among(Append(s, e), Len(s), K)
                        + IF Append(s, e)[Len(s) + 1] \in K THEN 1 ELSE 0
  BY <1>1, AmongStep
<1> QED
  BY <1>1, <1>2, <1>3

(***************************************************************************)
(* The inductive invariant.                                                *)
(***************************************************************************)
State == [messages : BOOLEAN, option : Options]

Activity ==
  {a \in [kind : {"func", "loop", "run"}, usesSet : BOOLEAN, caught : BOOLEAN,
          messages : BOOLEAN, redir : Nat] : a.caught => a.kind = "func"}

Printer == [fplist : Seq(Redirection), fixed : Redirection \cup {None}]

\* The functions, and those of them that have a state of their own.
Functs == {a \in Activity : a.kind = "func"}
Setters == {a \in Activity : a.kind = "func" /\ a.usesSet}

\* The redirections, in the order in which they will be ended.
Streams(p) == IF p.fixed = None THEN p.fplist ELSE Append(p.fplist, p.fixed)

Typed ==
  /\ prn \in Printer /\ vparms \in {"unset", "off", "on"}
  /\ states \in Seq(State) /\ acts \in Seq(Activity) /\ err \in BOOLEAN
  /\ Len(states) = 1 + Among(acts, Len(acts), Setters)
  /\ err => acts # << >>

\* The deeper a redirection began, the sooner it ends.
Rising ==
  \A j, k \in DOMAIN Streams(prn) :
      j < k => Streams(prn)[j].level < Streams(prn)[k].level

\* None is left of a function that has ended, nor of one that is failing.
Within ==
  \A j \in DOMAIN Streams(prn) :
      /\ Streams(prn)[j].level <= Among(acts, Len(acts), Functs)
      /\ err /\ Last(acts).kind # "loop" =>
            Streams(prn)[j].level < Among(acts, Len(acts), Functs)

\* What was in force when a function was called is not the function's own.
Inherited ==
  ~err => \A i \in DOMAIN acts : acts[i].kind = "func" =>
             /\ acts[i].redir <= Len(Streams(prn))
             /\ \A j \in DOMAIN Streams(prn) : j <= acts[i].redir =>
                    Streams(prn)[j].level < Among(acts, i, Functs)

\* The same of those that will go on when an error is caught.
StillInherited ==
  \A i \in DOMAIN acts : acts[i].kind = "func" /\ Survives(i) =>
      /\ acts[i].redir <= Len(Streams(prn))
      /\ \A j \in DOMAIN Streams(prn) : j <= acts[i].redir =>
             Streams(prn)[j].level < Among(acts, i, Functs)

\* If one of theirs is there, those that fail are functions, and each of them
\* up to depth t has a redirection to be ended first.
Covered(t) ==
  \A j \in DOMAIN Streams(prn) :
      Survives(0) /\ Streams(prn)[j].level <= CatchDepth =>
          /\ \A i \in DOMAIN acts : ~Survives(i) => acts[i].kind = "func"
          /\ \A d \in CatchDepth + 1 .. t :
                 \E k \in DOMAIN Streams(prn) : Streams(prn)[k].level = d

OnItsWay ==
  err => StillInherited /\ Covered(Among(acts, Len(acts), Functs) - 1)

\* Only the one that ends first has something to restore, and vparms says so.
LastRestores ==
  "nested" \notin Faults =>
      \A j \in DOMAIN Streams(prn) : Streams(prn)[j].restores =>
          j = Len(Streams(prn)) /\ vparms = "on"

IInv == Typed /\ Rising /\ Within /\ Inherited /\ OnItsWay /\ LastRestores

(***************************************************************************)
(* Streams.                                                                *)
(***************************************************************************)
LEMMA StreamsType ==
  ASSUME NEW p \in Printer
  PROVE  /\ Streams(p) \in Seq(Redirection)
         /\ Len(Streams(p)) \in Nat /\ DOMAIN Streams(p) = 1 .. Len(Streams(p))
         /\ \A j \in DOMAIN Streams(p) : Streams(p)[j] \in Redirection
         /\ Len(Streams(p)) = Len(p.fplist) + IF p.fixed = None THEN 0 ELSE 1
<1>1. p.fplist \in Seq(Redirection) /\ p.fixed \in Redirection \cup {None}
  BY DEF Printer
<1>2. Streams(p) \in Seq(Redirection)
  BY <1>1, AppendProperties DEF Streams
<1>3. Len(p.fplist) \in Nat
  BY <1>1, LenProperties
<1>4. Len(Streams(p)) = Len(p.fplist) + IF p.fixed = None THEN 0 ELSE 1
  <2>1. CASE p.fixed = None
    BY <1>3, <2>1 DEF Streams
  <2>2. CASE p.fixed # None
    BY <1>1, <2>2, AppendProperties DEF Streams
  <2> QED
    BY <2>1, <2>2
<1> QED
  BY <1>2, <1>4, LenProperties, ElementOfSeq

LEMMA StreamsInForce ==
  ASSUME prn \in Printer
  PROVE  /\ print_redirection_level = Len(Streams(prn))
         /\ print_redirection_level > 0 =>
               /\ Len(Streams(prn)) \in DOMAIN Streams(prn)
               /\ InForce = Streams(prn)[Len(Streams(prn))]
<1>1. prn.fplist \in Seq(Redirection) /\ prn.fixed \in Redirection \cup {None}
  BY DEF Printer
<1>2. print_redirection_level = Len(Streams(prn))
  BY StreamsType DEF print_redirection_level
<1>3. ASSUME print_redirection_level > 0
      PROVE  InForce = Streams(prn)[Len(Streams(prn))]
  <2>1. CASE prn.fixed = None
    BY <2>1 DEF InForce, Streams, Last
  <2>2. CASE prn.fixed # None
    <3>1. /\ Append(prn.fplist, prn.fixed)[Len(prn.fplist) + 1] = prn.fixed
          /\ Len(Append(prn.fplist, prn.fixed)) = Len(prn.fplist) + 1
      BY <1>1, <2>2, AppendProperties
    <3> QED
      BY <2>2, <3>1 DEF InForce, Streams
  <2> QED
    BY <2>1, <2>2
<1> QED
  BY <1>2, <1>3, StreamsType

LEMMA NoStreams ==
  ASSUME NEW p \in Printer, Len(Streams(p)) = 0
  PROVE  p = [fplist |-> << >>, fixed |-> None]
<1>1. p.fplist \in Seq(Redirection)
  BY DEF Printer
<1>2. p.fixed = None /\ Len(p.fplist) = 0
  <2>1. Len(p.fplist) \in Nat
    BY <1>1, LenProperties
  <2>2. Len(Streams(p)) = Len(p.fplist) + IF p.fixed = None THEN 0 ELSE 1
    BY StreamsType
  <2>3. CASE p.fixed = None
    BY <2>1, <2>2, <2>3
  <2>4. CASE p.fixed # None
    BY <2>1, <2>2, <2>4
  <2> QED
    BY <2>3, <2>4
<1>3. p.fplist = << >>
  BY <1>1, <1>2, EmptySeq
<1> QED
  BY <1>2, <1>3 DEF Printer

\* One redirection ended, or none if there is none.
Shorter(p, q) ==
  /\ q \in Printer
  /\ Len(Streams(q)) = IF Len(Streams(p)) = 0 THEN 0 ELSE Len(Streams(p)) - 1
  /\ \A j \in DOMAIN Streams(q) :
        j \in DOMAIN Streams(p) /\ Streams(q)[j] = Streams(p)[j]

LEMMA EndShorter ==
  ASSUME NEW p \in Printer, Len(Streams(p)) > 0
  PROVE  Shorter(p, print_end_redirection(p))
<1> SUFFICES ASSUME NEW q, q = print_end_redirection(p)
             PROVE  Shorter(p, q)
  OBVIOUS
<1>0. /\ Len(Streams(p)) \in Nat /\ DOMAIN Streams(p) = 1 .. Len(Streams(p))
      /\ q \in Printer => DOMAIN Streams(q) = 1 .. Len(Streams(q))
  BY StreamsType
<1>1. p.fplist \in Seq(Redirection) /\ p.fixed \in Redirection \cup {None}
  BY DEF Printer
<1>2. None \in Redirection \cup {None} /\ Len(p.fplist) \in Nat
  BY <1>1, LenProperties
<1>3. CASE p.fixed # None
  <2>1. q = [p EXCEPT !.fixed = None]
    BY <1>3 DEF print_end_redirection
  <2>2. q \in Printer /\ q.fixed = None /\ q.fplist = p.fplist
    BY <1>2, <2>1 DEF Printer
  <2>3. Streams(q) = p.fplist /\ Streams(p) = Append(p.fplist, p.fixed)
    BY <1>3, <2>2 DEF Streams
  <2>4. /\ Len(Append(p.fplist, p.fixed)) = Len(p.fplist) + 1
        /\ \A i \in 1 .. Len(p.fplist) : Append(p.fplist, p.fixed)[i] = p.fplist[i]
    BY <1>1, <1>3, AppendProperties
  <2> QED
    BY <1>0, <1>2, <2>2, <2>3, <2>4 DEF Shorter
<1>4. CASE p.fixed = None
  <2>1. q = [p EXCEPT !.fplist = Front(@)] /\ Streams(p) = p.fplist
    BY <1>4 DEF print_end_redirection, Streams
  <2>2. /\ Front(p.fplist) \in Seq(Redirection)
        /\ Len(Front(p.fplist)) = Len(p.fplist) - 1
        /\ \A i \in 1 .. Len(p.fplist) - 1 : Front(p.fplist)[i] = p.fplist[i]
    <3>1. p.fplist # << >>
      BY <2>1, EmptySeq
    <3> QED
      BY <1>1, <3>1, FrontFacts
  <2>3. q \in Printer /\ Streams(q) = Front(p.fplist)
    BY <1>4, <2>1, <2>2 DEF Printer, Streams
  <2> QED
    BY <1>0, <1>2, <2>1, <2>2, <2>3 DEF Shorter
<1> QED
  BY <1>3, <1>4

LEMMA ErrorShorter ==
  ASSUME prn \in Printer
  PROVE  Shorter(prn, process_command_error)
<1>1. CASE print_redirection_level = 0
  <2>1. process_command_error = prn /\ Len(Streams(prn)) = 0
    BY <1>1, StreamsInForce DEF process_command_error
  <2> QED
    BY <2>1 DEF Shorter
<1>2. CASE print_redirection_level # 0
  <2>1. process_command_error = print_end_redirection(prn) /\ Len(Streams(prn)) > 0
    BY <1>2, StreamsInForce, StreamsType DEF process_command_error
  <2> QED
    BY <2>1, EndShorter
<1> QED
  BY <1>1, <1>2
LEMMA PopKeeps ==
  ASSUME prn \in Printer, Rising, LastRestores, Shorter(prn, prn')
  PROVE  /\ Rising' /\ LastRestores'
         /\ \A j \in DOMAIN Streams(prn') :
               /\ Len(Streams(prn)) \in DOMAIN Streams(prn)
               /\ j \in DOMAIN Streams(prn) /\ Streams(prn')[j] = Streams(prn)[j]
               /\ Streams(prn')[j].level < Streams(prn)[Len(Streams(prn))].level
<1> DEFINE n == Len(Streams(prn))
           m == Len(Streams(prn'))
<1>1. /\ n \in Nat /\ DOMAIN Streams(prn) = 1 .. n
      /\ m \in Nat /\ DOMAIN Streams(prn') = 1 .. m
  BY StreamsType DEF Shorter
<1>2. /\ m = IF n = 0 THEN 0 ELSE n - 1
      /\ \A j \in DOMAIN Streams(prn') :
            j \in DOMAIN Streams(prn) /\ Streams(prn')[j] = Streams(prn)[j]
  BY DEF Shorter
<1>a. m = IF n = 0 THEN 0 ELSE n - 1
  BY <1>2
<1> HIDE DEF n, m
<1>3. \A j \in 1 .. m : j \in 1 .. n /\ n \in 1 .. n /\ j < n
  <2>1. CASE n = 0
    BY <1>a, <2>1
  <2>2. CASE n # 0
    BY <1>1, <1>a, <2>2
  <2> QED
    BY <2>1, <2>2
<1>4. \A j \in DOMAIN Streams(prn') :
            /\ n \in DOMAIN Streams(prn)
            /\ Streams(prn')[j].level < Streams(prn)[n].level
  BY <1>1, <1>2, <1>3 DEF Rising
<1>5. Rising'
  BY <1>2 DEF Rising
<1>6. LastRestores'
  <2>1. "nested" \notin Faults => \A j \in 1 .. m : ~Streams(prn')[j].restores
    <3> SUFFICES ASSUME "nested" \notin Faults, NEW j \in 1 .. m, Streams(prn')[j].restores
                 PROVE  FALSE
      OBVIOUS
    <3>1. j \in DOMAIN Streams(prn) /\ Streams(prn)[j].restores /\ j < n /\ j \in 1 .. n
      BY <1>1, <1>2, <1>3
    <3>2. j = n
      BY <3>1 DEF LastRestores, n
    <3> QED
      BY <1>1, <3>1, <3>2
  <2> QED
    BY <1>1, <2>1 DEF LastRestores
<1> QED
  BY <1>2, <1>4, <1>5, <1>6 DEF n

(***************************************************************************)
(* Settings and depth.                                                     *)
(***************************************************************************)
LEMMA DepthIs ==
  ASSUME acts \in Seq(Activity)
  PROVE  /\ depth = Among(acts, Len(acts), Functs) /\ depth \in Nat
         /\ Cardinality({i \in DOMAIN acts : acts[i].kind = "func" /\ acts[i].usesSet})
               = Among(acts, Len(acts), Setters)
<1>1. /\ Len(acts) \in Nat /\ DOMAIN acts = 1 .. Len(acts)
      /\ \A i \in 1 .. Len(acts) : acts[i] \in Activity
  BY LenProperties, ElementOfSeq
<1>2. {i \in DOMAIN acts : acts[i].kind = "func"}
        = {k \in 1 .. Len(acts) : acts[k] \in Functs}
  BY <1>1 DEF Functs
<1>3. {i \in DOMAIN acts : acts[i].kind = "func" /\ acts[i].usesSet}
        = {k \in 1 .. Len(acts) : acts[k] \in Setters}
  BY <1>1 DEF Setters
<1>4. depth = Among(acts, Len(acts), Functs)
  BY <1>2 DEF depth, Among
<1>5. Among(acts, Len(acts), Functs) \in Nat
  BY <1>1, AmongFinite
<1> QED
  BY <1>3, <1>4, <1>5 DEF Among

LEMMA StateType ==
  ASSUME Typed
  PROVE  /\ Len(states) \in Nat /\ Len(states) >= 1 /\ states # << >>
         /\ state \in State /\ state.messages \in BOOLEAN
<1>1. Len(acts) \in Nat /\ Len(states) \in Nat
  BY LenProperties DEF Typed
<1>2. Among(acts, Len(acts), Setters) \in Nat
  BY <1>1, AmongFinite
<1>3. Len(states) >= 1
  BY <1>1, <1>2 DEF Typed
<1>4. states # << >>
  BY <1>3, EmptySeq
<1>5. state \in State
  BY <1>4, FrontFacts DEF Typed, state
<1> QED
  BY <1>1, <1>3, <1>4, <1>5 DEF State

LEMMA SetStateFacts ==
  ASSUME Typed, NEW s \in State
  PROVE  /\ Append(Front(states), s) \in Seq(State)
         /\ Len(Append(Front(states), s)) = Len(states)
         /\ Last(Append(Front(states), s)) = s
<1>1. states # << >> /\ Len(states) \in Nat /\ states \in Seq(State)
  BY StateType DEF Typed
<1>2. Front(states) \in Seq(State) /\ Len(Front(states)) = Len(states) - 1
  BY <1>1, FrontFacts
<1>3. /\ Append(Front(states), s) \in Seq(State)
      /\ Len(Append(Front(states), s)) = Len(Front(states)) + 1
      /\ Append(Front(states), s)[Len(Front(states)) + 1] = s
  BY <1>2, AppendProperties
<1> QED
  BY <1>1, <1>2, <1>3 DEF Last

LEMMA MessagesFacts ==
  ASSUME Typed, NEW m \in BOOLEAN
  PROVE  /\ [state EXCEPT !.messages = m] \in State
         /\ [state EXCEPT !.messages = m].messages = m
         /\ SetMessages(m) => states' \in Seq(State) /\ Len(states') = Len(states)
<1>1. [state EXCEPT !.messages = m] \in State /\ [state EXCEPT !.messages = m].messages = m
  BY StateType DEF State
<1> QED
  BY <1>1, SetStateFacts DEF SetMessages, SetState

\* The end of a function, loop or script leaves one state for each function
\* that has one.
LEMMA StateAfterFacts ==
  ASSUME Typed, acts # << >>, states' = StateAfter(Top), acts' = Front(acts)
  PROVE  /\ states' \in Seq(State) /\ acts' \in Seq(Activity)
         /\ Len(states') = 1 + Among(acts', Len(acts'), Setters)
         /\ Among(acts, Len(acts), Functs) =
               Among(acts', Len(acts'), Functs) + IF Top.kind = "func" THEN 1 ELSE 0
         /\ Among(acts', Len(acts'), Functs) \in Nat
<1>1. acts \in Seq(Activity) /\ states \in Seq(State)
  BY DEF Typed
<1>2. acts' \in Seq(Activity) /\ Len(acts') \in Nat /\ Top \in Activity
  BY <1>1, FrontFacts DEF Top
<1>3. /\ Among(acts', Len(acts'), Functs) \in Nat
      /\ Among(acts', Len(acts'), Setters) \in Nat
  BY <1>2, AmongFinite
<1>4. /\ Among(acts, Len(acts), Functs) =
            Among(acts', Len(acts'), Functs) + IF Top \in Functs THEN 1 ELSE 0
      /\ Among(acts, Len(acts), Setters) =
            Among(acts', Len(acts'), Setters) + IF Top \in Setters THEN 1 ELSE 0
  BY <1>1, AmongLast DEF Top
<1>5. /\ Top \in Functs <=> Top.kind = "func"
      /\ Top \in Setters <=> Top.kind = "func" /\ Top.usesSet
      /\ Top.messages \in BOOLEAN
  BY <1>2 DEF Functs, Setters, Activity
<1>6. Len(states) = 1 + Among(acts, Len(acts), Setters) /\ states # << >>
  BY StateType DEF Typed
<1>7. states' \in Seq(State) /\ Len(states') = 1 + Among(acts', Len(acts'), Setters)
  <2>1. CASE Top.kind = "func" /\ Top.usesSet
    <3>1. states' = Front(states)
      BY <2>1 DEF StateAfter
    <3>2. Front(states) \in Seq(State) /\ Len(Front(states)) = Len(states) - 1
      BY <1>1, <1>6, FrontFacts
    <3> QED
      BY <1>3, <1>4, <1>5, <1>6, <2>1, <3>1, <3>2
  <2>2. CASE ~(Top.kind = "func" /\ Top.usesSet)
    <3>1. \/ states' = states
          \/ states' = Append(Front(states), [state EXCEPT !.messages = Top.messages])
      BY <2>2 DEF StateAfter
    <3>2. states' \in Seq(State) /\ Len(states') = Len(states)
      BY <1>1, <1>5, <3>1, MessagesFacts, SetStateFacts
    <3> QED
      BY <1>3, <1>4, <1>5, <1>6, <2>2, <3>2
  <2> QED
    BY <2>1, <2>2
<1> QED
  BY <1>2, <1>3, <1>4, <1>5, <1>7
(***************************************************************************)
(* The actions keep the invariant.                                         *)
(***************************************************************************)
LEMMA OutfileKeeps ==
  ASSUME IInv, NEW null \in BOOLEAN, NEW quiet \in BOOLEAN, Outfile(null, quiet)
  PROVE  IInv'
<1> DEFINE n == Len(Streams(prn))
           new == [level |-> depth, restores |-> quiet /\ state.messages]
<1>1. prn \in Printer /\ acts \in Seq(Activity) /\ Typed /\ prn.fixed = None
  BY DEF IInv, Typed, Outfile
<1>2. /\ n \in Nat /\ DOMAIN Streams(prn) = 1 .. n /\ prn.fplist \in Seq(Redirection)
      /\ Streams(prn) = prn.fplist /\ Streams(prn) \in Seq(Redirection)
      /\ \A j \in 1 .. n : Streams(prn)[j] \in Redirection
      /\ print_redirection_level = n
      /\ n > 0 => InForce = Streams(prn)[n]
  BY <1>1, StreamsType, StreamsInForce DEF Printer, Streams
<1>3. new \in Redirection /\ new # None /\ new.level = depth /\ depth \in Nat
  BY <1>1, StateType, DepthIs, OutfileAssumption DEF Redirection
<1>4. depth = Among(acts, Len(acts), Functs)
  BY <1>1, DepthIs
<1>5. prn' \in Printer /\ Streams(prn') = Append(Streams(prn), new)
  <2>1. \/ prn' = [prn EXCEPT !.fixed = new]
        \/ prn' = [prn EXCEPT !.fplist = Append(@, new)]
    BY DEF Outfile
  <2>2. Append(prn.fplist, new) \in Seq(Redirection)
    BY <1>2, <1>3, AppendProperties
  <2> HIDE DEF new
  <2> QED
    BY <1>1, <1>2, <1>3, <2>1, <2>2 DEF Printer, Streams
<1>6. /\ Len(Streams(prn')) = n + 1 /\ DOMAIN Streams(prn') = 1 .. n + 1
      /\ \A j \in 1 .. n : Streams(prn')[j] = Streams(prn)[j]
      /\ Streams(prn')[n + 1] = new
  <2>1. /\ Len(Append(Streams(prn), new)) = n + 1
        /\ \A j \in 1 .. n : Append(Streams(prn), new)[j] = Streams(prn)[j]
        /\ Append(Streams(prn), new)[n + 1] = new
    BY <1>2, <1>3, AppendProperties
  <2>2. Len(Streams(prn')) = n + 1 /\ Streams(prn')[n + 1] = new
    BY <1>5, <2>1
  <2>3. DOMAIN Streams(prn') = 1 .. n + 1
    <3>1. DOMAIN Streams(prn') = 1 .. Len(Streams(prn'))
      BY <1>5, StreamsType
    <3> QED
      BY <2>2, <3>1
  <2>4. \A j \in 1 .. n : Streams(prn')[j] = Streams(prn)[j]
    BY <1>5, <2>1
  <2> QED
    BY <2>2, <2>3, <2>4
<1>7. ~err /\ ~err' /\ acts' = acts
  BY DEF Outfile, Active
<1>8. \A j \in 1 .. n : Streams(prn)[j].level < depth
  <2>1. ASSUME NEW j \in 1 .. n
        PROVE  Streams(prn)[j].level < depth
    <3>1. n > 0
      BY <1>2
    <3>2. depth > 0 /\ \A r \in Range(prn.fplist) : r.level # depth
      BY <1>2, <3>1 DEF Outfile, redirection_ok
    <3>3. Streams(prn)[j] \in Range(prn.fplist)
      BY <1>2 DEF Range
    <3>4. Streams(prn)[j].level <= depth /\ Streams(prn)[j].level \in Nat
      BY <1>2, <1>4 DEF IInv, Within, Redirection
    <3> QED
      BY <1>3, <3>2, <3>3, <3>4
  <2> QED
    BY <2>1
<1>9. Typed'
  <2>1. vparms' \in {"unset", "off", "on"}
    BY DEF Outfile, Vparms
  <2>2. states' \in Seq(State) /\ Len(states') = Len(states)
    <3>1. (state.messages /\ ~quiet) \in BOOLEAN
      OBVIOUS
    <3> QED
      BY <1>1, <3>1, MessagesFacts DEF Outfile
  <2>3. Len(states') = 1 + Among(acts', Len(acts'), Setters)
    BY <1>1, <1>7, <2>2 DEF Typed
  <2>4. prn' \in Printer
    BY <1>5
  <2>5. acts' \in Seq(Activity) /\ err' \in BOOLEAN /\ (err' => acts' # << >>)
    <3>1. acts' = acts /\ err' = err
      BY DEF Outfile
    <3> QED
      BY <1>1, <3>1 DEF Typed
  <2> QED
    BY <2>1, <2>2, <2>3, <2>4, <2>5 DEF Typed
<1> HIDE DEF n, new
<1>10. Rising'
  BY <1>2, <1>3, <1>6, <1>8 DEF IInv, Rising
<1>11. Within'
  BY <1>2, <1>3, <1>4, <1>6, <1>7 DEF IInv, Within
<1>12. Inherited'
  <2> SUFFICES ASSUME NEW i \in DOMAIN acts, acts[i].kind = "func"
               PROVE  /\ acts[i].redir <= n + 1
                      /\ \A j \in 1 .. n + 1 : j <= acts[i].redir =>
                            Streams(prn')[j].level < Among(acts, i, Functs)
    BY <1>6, <1>7 DEF Inherited
  <2>1. acts[i].redir <= n /\ acts[i].redir \in Nat
    <3>1. acts[i] \in Activity
      BY <1>1, LenProperties, ElementOfSeq
    <3> QED
      BY <1>7, <3>1 DEF IInv, Inherited, n, Activity
  <2>2. \A j \in 1 .. n : j <= acts[i].redir =>
            Streams(prn)[j].level < Among(acts, i, Functs)
    BY <1>2, <1>7 DEF IInv, Inherited
  <2> QED
    BY <1>2, <1>6, <2>1, <2>2
<1>13. LastRestores'
  <2> SUFFICES ASSUME "nested" \notin Faults, NEW j \in 1 .. n + 1,
                      Streams(prn')[j].restores
               PROVE  j = n + 1 /\ vparms' = "on"
    BY <1>6 DEF LastRestores
  <2>1. j = n + 1
    <3> SUFFICES ASSUME j # n + 1 PROVE FALSE
      OBVIOUS
    <3>1. j \in 1 .. n /\ Streams(prn)[j].restores /\ n > 0
      BY <1>2, <1>6
    <3>2. j = n
      BY <1>2, <3>1 DEF IInv, LastRestores, n
    <3> QED
      BY <1>2, <3>1, <3>2 DEF Outfile
  <2>2. quiet /\ state.messages
    <3>1. new.restores
      BY <1>6, <2>1
    <3>2. new.restores = (quiet /\ state.messages)
      BY DEF new
    <3> QED
      BY <3>1, <3>2
  <2> QED
    BY <2>1, <2>2 DEF Outfile, Vparms
<1> QED
  BY <1>7, <1>9, <1>10, <1>11, <1>12, <1>13 DEF IInv, OnItsWay

LEMMA EndOutfileKeeps ==
  ASSUME IInv, OwnOnly, EndOutfile
  PROVE  IInv'
<1> DEFINE n == Len(Streams(prn))
<1>1. prn \in Printer /\ acts \in Seq(Activity) /\ Typed
  BY DEF IInv, Typed
<1>2. /\ n \in Nat /\ DOMAIN Streams(prn) = 1 .. n
      /\ print_redirection_level = n /\ n > 0 /\ InForce = Streams(prn)[n]
  BY <1>1, StreamsType, StreamsInForce DEF EndOutfile
<1>3. Shorter(prn, prn')
  BY <1>1, <1>2, EndShorter DEF EndOutfile
<1>4. ~err /\ ~err' /\ acts' = acts
  BY DEF EndOutfile, Active
<1>5. Streams(prn)[n].level = depth /\ depth = Among(acts, Len(acts), Functs)
  BY <1>1, <1>2, DepthIs DEF EndOutfile, OwnOnly
<1>6. /\ Rising' /\ LastRestores'
      /\ \A j \in DOMAIN Streams(prn') :
            j \in DOMAIN Streams(prn) /\ Streams(prn')[j] = Streams(prn)[j]
  BY <1>1, <1>3, PopKeeps DEF IInv
<1>7. Typed'
  <2>1. states' \in Seq(State) /\ Len(states') = Len(states)
    <3>1. (state.messages \/ vparms = "on") \in BOOLEAN
      OBVIOUS
    <3> QED
      BY <1>1, <3>1, MessagesFacts DEF EndOutfile
  <2> QED
    BY <1>1, <1>3, <1>4, <2>1 DEF Typed, Shorter, EndOutfile
<1>8. Within'
  BY <1>4, <1>6 DEF IInv, Within
<1>9. Inherited'
  <2> SUFFICES ASSUME NEW i \in DOMAIN acts, acts[i].kind = "func"
               PROVE  /\ acts[i].redir <= Len(Streams(prn'))
                      /\ \A j \in DOMAIN Streams(prn') : j <= acts[i].redir =>
                            Streams(prn')[j].level < Among(acts, i, Functs)
    BY <1>4 DEF Inherited
  <2>1. /\ acts[i].redir <= n
        /\ \A j \in DOMAIN Streams(prn) : j <= acts[i].redir =>
              Streams(prn)[j].level < Among(acts, i, Functs)
    BY <1>4 DEF IInv, Inherited
  <2>2. i \in Nat /\ Len(acts) \in Nat /\ i <= Len(acts) /\ acts[i] \in Activity
    BY <1>1, LenProperties, ElementOfSeq
  <2>3. /\ Among(acts, i, Functs) <= Among(acts, Len(acts), Functs)
        /\ Among(acts, i, Functs) \in Nat /\ Among(acts, Len(acts), Functs) \in Nat
    BY <2>2, AmongMore, AmongFinite
  <2>4. acts[i].redir \in Nat
    BY <2>2 DEF Activity
  <2>5. acts[i].redir # n
    BY <1>2, <1>5, <2>1, <2>3
  <2>6. Len(Streams(prn')) = n - 1
    <3>1. Len(Streams(prn')) = IF n = 0 THEN 0 ELSE n - 1
      BY <1>3 DEF Shorter
    <3>2. n # 0
      BY <1>2
    <3> QED
      BY <3>1, <3>2
  <2> HIDE DEF n
  <2> QED
    BY <1>2, <1>6, <2>1, <2>4, <2>5, <2>6
<1> QED
  BY <1>4, <1>6, <1>7, <1>8, <1>9 DEF IInv, OnItsWay

LEMMA SetKeeps ==
  ASSUME IInv, NEW m \in BOOLEAN, NEW o \in Options, Set(m, o)
  PROVE  IInv'
<1>1. [messages |-> m, option |-> o] \in State
  BY DEF State
<1>2. states' \in Seq(State) /\ Len(states') = Len(states)
  BY <1>1, SetStateFacts DEF IInv, Set, SetState
<1> QED
  BY <1>2 DEF IInv, Set, Active, Typed, Rising, Within, Inherited, OnItsWay, LastRestores

LEMMA PushKeeps ==
  ASSUME IInv, NEW kind \in {"func", "loop", "run"}, NEW uses \in BOOLEAN,
         NEW caught \in BOOLEAN, caught => kind = "func", Push(kind, uses, caught)
  PROVE  /\ Rising' /\ Within' /\ Inherited' /\ LastRestores'
         /\ prn' \in Printer /\ vparms' \in {"unset", "off", "on"} /\ err' = FALSE
         /\ acts' \in Seq(Activity)
         /\ Among(acts', Len(acts'), Setters) =
               Among(acts, Len(acts), Setters) + IF kind = "func" /\ uses THEN 1 ELSE 0
<1> DEFINE n == Len(Streams(prn))
           e == [kind |-> kind, usesSet |-> uses, caught |-> caught,
                 messages |-> state.messages, redir |-> print_redirection_level]
<1>1. prn \in Printer /\ acts \in Seq(Activity) /\ Typed
  BY DEF IInv, Typed
<1>2. /\ n \in Nat /\ DOMAIN Streams(prn) = 1 .. n /\ print_redirection_level = n
      /\ \A j \in 1 .. n : Streams(prn)[j].level \in Nat
  BY <1>1, StreamsType, StreamsInForce DEF Redirection
<1>3. e \in Activity /\ e.redir = n /\ e.kind = kind
  BY <1>1, <1>2, StateType DEF Activity
<1>4. acts' = Append(acts, e) /\ ~err /\ err' = FALSE /\ prn' = prn /\ vparms' = vparms
  BY <1>1 DEF Push, Active, Typed
<1>5. (e \in Functs <=> kind = "func") /\ (e \in Setters <=> kind = "func" /\ uses)
  BY <1>3 DEF Functs, Setters
<1> HIDE DEF e, n
<1>6. /\ Len(acts) \in Nat /\ DOMAIN acts = 1 .. Len(acts)
      /\ acts' \in Seq(Activity) /\ Len(acts') = Len(acts) + 1
      /\ DOMAIN acts' = 1 .. Len(acts) + 1
      /\ \A i \in 1 .. Len(acts) : acts'[i] = acts[i]
      /\ acts'[Len(acts) + 1] = e
  BY <1>1, <1>3, <1>4, LenProperties, AppendProperties
<1>7. /\ Among(acts', Len(acts'), Functs) =
            Among(acts, Len(acts), Functs) + IF kind = "func" THEN 1 ELSE 0
      /\ Among(acts', Len(acts'), Setters) =
            Among(acts, Len(acts), Setters) + IF kind = "func" /\ uses THEN 1 ELSE 0
      /\ Among(acts, Len(acts), Functs) \in Nat
  <2>1. /\ Among(acts', Len(acts'), Functs) =
              Among(acts, Len(acts), Functs) + IF e \in Functs THEN 1 ELSE 0
        /\ Among(acts', Len(acts'), Setters) =
              Among(acts, Len(acts), Setters) + IF e \in Setters THEN 1 ELSE 0
    BY <1>1, <1>3, <1>4, <1>6, AmongAppend
  <2>2. Among(acts, Len(acts), Functs) \in Nat
    BY <1>6, AmongFinite
  <2> QED
    BY <1>5, <2>1, <2>2
<1>8. \A j \in 1 .. n : Streams(prn)[j].level <= Among(acts, Len(acts), Functs)
  BY <1>2 DEF IInv, Within
<1>9. Within'
  BY <1>2, <1>4, <1>7, <1>8 DEF Within
<1>10. Inherited'
  <2> SUFFICES ASSUME NEW i \in 1 .. Len(acts) + 1, acts'[i].kind = "func"
               PROVE  /\ acts'[i].redir <= n
                      /\ \A j \in 1 .. n : j <= acts'[i].redir =>
                            Streams(prn)[j].level < Among(acts', i, Functs)
    BY <1>2, <1>4, <1>6 DEF Inherited, n
  <2>1. CASE i = Len(acts) + 1
    <3>1. acts'[i] = e /\ kind = "func"
      BY <1>3, <1>6, <2>1
    <3>2. Among(acts', i, Functs) = Among(acts, Len(acts), Functs) + 1
      BY <1>6, <1>7, <2>1, <3>1
    <3> QED
      BY <1>2, <1>3, <1>7, <1>8, <3>1, <3>2
  <2>2. CASE i # Len(acts) + 1
    <3>1. i \in 1 .. Len(acts) /\ i \in Nat /\ acts'[i] = acts[i]
      BY <1>6, <2>2
    <3>2. Among(acts', i, Functs) = Among(acts, i, Functs)
      BY <1>6, <3>1, AmongSame
    <3> QED
      BY <1>2, <1>4, <1>6, <3>1, <3>2 DEF IInv, Inherited, n
  <2> QED
    BY <2>1, <2>2
<1> QED
  BY <1>1, <1>4, <1>6, <1>7, <1>9, <1>10 DEF IInv, Rising, LastRestores, Typed

\* A call pushes a state if the function has one of its own.
LEMMA CallKeeps ==
  ASSUME IInv, NEW uses \in BOOLEAN, NEW caught \in BOOLEAN, Call(uses, caught)
  PROVE  IInv'
<1>1. Push("func", uses, caught) /\ Typed
  BY DEF Call, IInv
<1>2. /\ Rising' /\ Within' /\ Inherited' /\ LastRestores'
      /\ prn' \in Printer /\ vparms' \in {"unset", "off", "on"} /\ err' = FALSE
      /\ acts' \in Seq(Activity)
      /\ Among(acts', Len(acts'), Setters) =
            Among(acts, Len(acts), Setters) + IF "func" = "func" /\ uses THEN 1 ELSE 0
  BY <1>1, PushKeeps
<1>3. states' \in Seq(State) /\ Len(states') = Len(states) + IF uses THEN 1 ELSE 0
  <2> DEFINE off == [state EXCEPT !.messages = FALSE]
  <2>1. off \in State
    BY <1>1, MessagesFacts
  <2>2. states' = Append(IF uses THEN states ELSE Front(states), off)
    BY DEF Call
  <2> HIDE DEF off
  <2>3. states \in Seq(State) /\ Len(states) \in Nat
    BY <1>1, StateType DEF Typed
  <2>4. CASE uses
    <3>1. /\ Append(states, off) \in Seq(State)
          /\ Len(Append(states, off)) = Len(states) + 1
      BY <2>1, <2>3, AppendProperties
    <3> QED
      BY <2>2, <2>4, <3>1
  <2>5. CASE ~uses
    <3>1. /\ Append(Front(states), off) \in Seq(State)
          /\ Len(Append(Front(states), off)) = Len(states)
      BY <1>1, <2>1, SetStateFacts
    <3> QED
      BY <2>2, <2>3, <2>5, <3>1
  <2> QED
    BY <2>4, <2>5
<1>4. Len(states') = 1 + Among(acts', Len(acts'), Setters)
  <2>1. Len(states) = 1 + Among(acts, Len(acts), Setters)
    BY <1>1 DEF Typed
  <2>2. Among(acts, Len(acts), Setters) \in Nat
    BY <1>1, LenProperties, AmongFinite DEF Typed
  <2> QED
    BY <1>2, <1>3, <2>1, <2>2
<1> QED
  BY <1>2, <1>3, <1>4 DEF IInv, Typed, OnItsWay

\* Loops and scripts have the state of those they are in.
LEMMA BlockKeeps ==
  ASSUME IInv, NEW b \in BOOLEAN, StartLoop(b) \/ Run(b)
  PROVE  IInv'
<1>1. /\ Typed
      /\ \E kind \in {"loop", "run"}, uses \in BOOLEAN : Push(kind, uses, FALSE)
      /\ \E m \in BOOLEAN : SetMessages(m)
  <2>1. (state.messages \/ b) \in BOOLEAN /\ (state.messages /\ ~b) \in BOOLEAN
    OBVIOUS
  <2> QED
    BY <2>1 DEF IInv, StartLoop, Run
<1>2. PICK kind \in {"loop", "run"}, uses \in BOOLEAN : Push(kind, uses, FALSE)
  BY <1>1
<1>3. states' \in Seq(State) /\ Len(states') = Len(states)
  BY <1>1, MessagesFacts
<1>4. /\ Rising' /\ Within' /\ Inherited' /\ LastRestores'
      /\ prn' \in Printer /\ vparms' \in {"unset", "off", "on"} /\ err' = FALSE
      /\ acts' \in Seq(Activity)
      /\ Among(acts', Len(acts'), Setters) =
            Among(acts, Len(acts), Setters) + IF kind = "func" /\ uses THEN 1 ELSE 0
  BY <1>2, PushKeeps
<1>5. Among(acts, Len(acts), Setters) \in Nat
  BY <1>1, LenProperties, AmongFinite DEF Typed
<1>6. Among(acts', Len(acts'), Setters) = Among(acts, Len(acts), Setters)
  BY <1>2, <1>4, <1>5
<1> QED
  BY <1>1, <1>3, <1>4, <1>6 DEF IInv, Typed, OnItsWay

LEMMA EndKeeps ==
  ASSUME IInv, End
  PROVE  IInv'
<1>1. /\ Typed /\ acts \in Seq(Activity) /\ prn \in Printer /\ acts # << >>
      /\ states' = StateAfter(Top) /\ acts' = Front(acts)
      /\ prn' = prn /\ vparms' = vparms /\ err' = err /\ ~err
  BY DEF IInv, Typed, End, Active
<1>2. /\ states' \in Seq(State) /\ acts' \in Seq(Activity)
      /\ Len(states') = 1 + Among(acts', Len(acts'), Setters)
      /\ Among(acts, Len(acts), Functs) =
            Among(acts', Len(acts'), Functs) + IF Top.kind = "func" THEN 1 ELSE 0
      /\ Among(acts', Len(acts'), Functs) \in Nat
  BY <1>1, StateAfterFacts
<1>3. Typed'
  BY <1>1, <1>2 DEF Typed
<1>4. /\ Len(Streams(prn)) \in Nat /\ DOMAIN Streams(prn) = 1 .. Len(Streams(prn))
      /\ print_redirection_level = Len(Streams(prn))
      /\ \A j \in DOMAIN Streams(prn) : Streams(prn)[j].level \in Nat
  BY <1>1, StreamsType, StreamsInForce DEF Redirection
<1>5. /\ Len(acts) \in Nat /\ Len(acts) >= 1 /\ DOMAIN acts = 1 .. Len(acts)
      /\ Top = acts[Len(acts)] /\ Top \in Activity
      /\ Len(acts') = Len(acts) - 1 /\ DOMAIN acts' = 1 .. Len(acts) - 1
      /\ \A i \in 1 .. Len(acts) - 1 : acts'[i] = acts[i]
  <2>1. Len(acts) \in Nat \ {0} /\ DOMAIN acts = 1 .. Len(acts)
    BY <1>1, LenProperties, EmptySeq
  <2>2. /\ Len(acts') = Len(acts) - 1 /\ DOMAIN acts' = 1 .. Len(acts')
        /\ \A i \in 1 .. Len(acts) - 1 : acts'[i] = acts[i]
        /\ Top \in Activity
    BY <1>1, <1>2, FrontFacts, LenProperties DEF Top
  <2> QED
    BY <2>1, <2>2 DEF Top, Last
<1>6. Within'
  <2>1. \A j \in DOMAIN Streams(prn) :
            Streams(prn)[j].level <= Among(acts', Len(acts'), Functs)
    <3>1. CASE Top.kind = "func"
      <4>1. Len(Streams(prn)) <= Top.redir /\ Top.redir \in Nat
        BY <1>4, <1>5, <3>1 DEF End, LeftOpen, Activity
      <4>2. \A j \in DOMAIN Streams(prn) :
                Streams(prn)[j].level < Among(acts, Len(acts), Functs)
        BY <1>1, <1>4, <1>5, <3>1, <4>1 DEF IInv, Inherited
      <4> QED
        BY <1>2, <1>4, <3>1, <4>2
    <3>2. CASE Top.kind # "func"
      BY <1>2, <1>4, <3>2 DEF IInv, Within
    <3> QED
      BY <3>1, <3>2
  <2> QED
    BY <1>1, <2>1 DEF Within
<1>7. Inherited'
  <2> SUFFICES ASSUME NEW i \in 1 .. Len(acts) - 1, acts'[i].kind = "func"
               PROVE  /\ acts'[i].redir <= Len(Streams(prn))
                      /\ \A j \in DOMAIN Streams(prn) : j <= acts'[i].redir =>
                            Streams(prn)[j].level < Among(acts', i, Functs)
    BY <1>1, <1>5 DEF Inherited
  <2>1. i \in DOMAIN acts /\ acts'[i] = acts[i] /\ i \in Nat
    BY <1>5
  <2>2. \A k \in 1 .. i : acts'[k] = acts[k]
    BY <1>5
  <2>3. Among(acts', i, Functs) = Among(acts, i, Functs)
    BY <2>1, <2>2, AmongSame
  <2> QED
    BY <1>1, <2>1, <2>3 DEF IInv, Inherited
<1> QED
  BY <1>1, <1>3, <1>6, <1>7 DEF IInv, Rising, OnItsWay, LastRestores

\* A set of numbers has a least element.
LEMMA Least ==
  ASSUME NEW T, T \subseteq Nat, T # {} PROVE \E x \in T : \A y \in T : x <= y
<1> DEFINE LT == {ss \in Nat \X Nat : ss[1] < ss[2]}
<1>1. OpToRel(<, Nat) = LT
  BY DEF OpToRel
<1>2. IsWellFoundedOn(LT, Nat)
  BY <1>1, NatLessThanWellFounded
<1>3. PICK x \in T : \A y \in T : <<y, x>> \notin LT
  <2> HIDE DEF LT
  <2> QED
    BY <1>2, WFMin
<1>4. \A y \in T : ~(y < x)
  BY <1>3
<1> QED
  BY <1>4

(***************************************************************************)
(* The last call that is caught.                                           *)
(***************************************************************************)
LEMMA CatcherIs ==
  ASSUME acts \in Seq(Activity), Survives(0)
  PROVE  \E c \in 1 .. Len(acts) :
            /\ acts[c].caught /\ acts[c] \in Functs
            /\ \A i \in Nat : Survives(i) <=> i < c
            /\ CatchDepth = Among(acts, c - 1, Functs)
<1>1. /\ Len(acts) \in Nat /\ DOMAIN acts = 1 .. Len(acts)
      /\ \A i \in 1 .. Len(acts) : acts[i] \in Activity
  BY LenProperties, ElementOfSeq
<1> DEFINE T == {k \in Nat : Len(acts) - k \in DOMAIN acts /\ acts[Len(acts) - k].caught}
<1>2. PICK x \in T : \A y \in T : x <= y
  <2>1. PICK j \in DOMAIN acts : acts[j].caught
    BY DEF Survives
  <2>2. Len(acts) - j \in T
    <3>1. Len(acts) - (Len(acts) - j) = j /\ Len(acts) - j \in Nat
      BY <1>1, <2>1
    <3> QED
      BY <2>1, <3>1
  <2> QED
    BY <2>2, Least
<1> DEFINE c == Len(acts) - x
<1>3. c \in 1 .. Len(acts) /\ acts[c].caught
  BY <1>1, <1>2
<1>4. \A j \in DOMAIN acts : acts[j].caught => j <= c
  <2> SUFFICES ASSUME NEW j \in DOMAIN acts, acts[j].caught PROVE j <= c
    OBVIOUS
  <2>1. Len(acts) - (Len(acts) - j) = j /\ Len(acts) - j \in Nat
    BY <1>1
  <2>2. Len(acts) - j \in T
    BY <2>1
  <2>3. x <= Len(acts) - j /\ x \in Nat
    BY <1>2, <2>2
  <2> QED
    BY <1>1, <2>3
<1> HIDE DEF c, T
<1>5. acts[c] \in Functs
  BY <1>1, <1>3 DEF Functs, Activity
<1>6. \A i \in Nat : Survives(i) <=> i < c
  BY <1>1, <1>3, <1>4 DEF Survives
<1>7. {i \in DOMAIN acts : acts[i].kind = "func" /\ Survives(i)}
        = {k \in 1 .. c - 1 : acts[k] \in Functs}
  BY <1>1, <1>3, <1>6 DEF Functs
<1>8. CatchDepth = Among(acts, c - 1, Functs)
  BY <1>7 DEF CatchDepth, Among
<1> QED
  BY <1>3, <1>5, <1>6, <1>8

LEMMA CatchType ==
  ASSUME acts \in Seq(Activity)
  PROVE  /\ CatchDepth \in Nat
         /\ Survives(0) => CatchDepth < Among(acts, Len(acts), Functs)
         /\ ~Survives(0) => CatchDepth = 0
         /\ \A i \in Nat : Survives(i) => Survives(0)
         /\ \A i \in DOMAIN acts : Survives(i) => Among(acts, i, Functs) <= CatchDepth
<1>1. Len(acts) \in Nat /\ DOMAIN acts = 1 .. Len(acts)
  BY LenProperties
<1>2. \A i \in Nat : Survives(i) => Survives(0)
  BY <1>1 DEF Survives
<1>3. CASE Survives(0)
  <2>1. PICK c \in 1 .. Len(acts) :
            /\ acts[c].caught /\ acts[c] \in Functs
            /\ \A i \in Nat : Survives(i) <=> i < c
            /\ CatchDepth = Among(acts, c - 1, Functs)
    BY <1>3, CatcherIs
  <2>2. c - 1 \in Nat /\ c \in Nat /\ c <= Len(acts) /\ (c - 1) + 1 = c
    BY <1>1, <2>1
  <2>3. Among(acts, c, Functs) = Among(acts, c - 1, Functs) + 1
    BY <2>1, <2>2, AmongStep
  <2>4. /\ Among(acts, c - 1, Functs) \in Nat
        /\ Among(acts, c, Functs) <= Among(acts, Len(acts), Functs)
        /\ Among(acts, Len(acts), Functs) \in Nat
    BY <1>1, <2>2, AmongFinite, AmongMore
  <2>5. \A i \in DOMAIN acts : Survives(i) => Among(acts, i, Functs) <= CatchDepth
    BY <1>1, <2>1, <2>2, AmongMore
  <2> QED
    BY <1>2, <1>3, <2>1, <2>3, <2>4, <2>5
<1>4. CASE ~Survives(0)
  <2>1. \A i \in DOMAIN acts : ~Survives(i)
    BY <1>1, <1>2, <1>4
  <2>2. {i \in DOMAIN acts : acts[i].kind = "func" /\ Survives(i)} = {}
    BY <2>1
  <2>3. CatchDepth = 0
    BY <2>2, FS_EmptySet DEF CatchDepth
  <2> QED
    BY <1>2, <1>4, <2>1, <2>3
<1> QED
  BY <1>3, <1>4

LEMMA CatchPopped ==
  ASSUME acts \in Seq(Activity), acts # << >>, acts' = Front(acts)
  PROVE  /\ ~Top.caught => /\ CatchDepth' = CatchDepth
                           /\ \A i \in Nat : Survives(i)' <=> Survives(i)
         /\ Top.caught => /\ CatchDepth = Among(acts', Len(acts'), Functs)
                          /\ Survives(0) /\ Top.kind = "func"
                          /\ \A i \in DOMAIN acts' : Survives(i)
<1>1. /\ Len(acts) \in Nat \ {0} /\ DOMAIN acts = 1 .. Len(acts)
      /\ \A i \in 1 .. Len(acts) : acts[i] \in Activity
      /\ acts' \in Seq(Activity) /\ Len(acts') = Len(acts) - 1
      /\ DOMAIN acts' = 1 .. Len(acts) - 1
      /\ \A i \in 1 .. Len(acts) - 1 : acts'[i] = acts[i]
      /\ Top = acts[Len(acts)] /\ Top \in Activity
  <2>1. /\ Len(acts) \in Nat \ {0} /\ DOMAIN acts = 1 .. Len(acts)
        /\ \A i \in 1 .. Len(acts) : acts[i] \in Activity
    BY LenProperties, ElementOfSeq, EmptySeq
  <2>2. /\ acts' \in Seq(Activity) /\ Len(acts') = Len(acts) - 1
        /\ \A i \in 1 .. Len(acts) - 1 : acts'[i] = acts[i]
        /\ Top \in Activity
    BY FrontFacts DEF Top
  <2> QED
    BY <2>1, <2>2, LenProperties DEF Top, Last
<1>2. ASSUME ~Top.caught
      PROVE  /\ CatchDepth' = CatchDepth
             /\ \A i \in Nat : Survives(i)' <=> Survives(i)
  <2>1. \A i \in Nat : Survives(i)' <=> Survives(i)
    BY <1>1, <1>2 DEF Survives
  <2>2. ~Survives(Len(acts))
    BY <1>1 DEF Survives
  <2>3. {i \in DOMAIN acts' : acts'[i].kind = "func" /\ Survives(i)'}
          = {i \in DOMAIN acts : acts[i].kind = "func" /\ Survives(i)}
    BY <1>1, <2>1, <2>2
  <2> QED
    BY <2>1, <2>3 DEF CatchDepth
<1>3. ASSUME Top.caught
      PROVE  /\ CatchDepth = Among(acts', Len(acts'), Functs)
             /\ Survives(0) /\ Top.kind = "func"
             /\ \A i \in DOMAIN acts' : Survives(i)
  <2>1. Survives(0) /\ \A i \in DOMAIN acts' : Survives(i)
    BY <1>1, <1>3 DEF Survives
  <2>2. ~Survives(Len(acts))
    BY <1>1 DEF Survives
  <2>3. {i \in DOMAIN acts : acts[i].kind = "func" /\ Survives(i)}
          = {k \in 1 .. Len(acts') : acts'[k] \in Functs}
    BY <1>1, <2>1, <2>2 DEF Functs
  <2> QED
    BY <1>1, <1>3, <2>1, <2>3 DEF CatchDepth, Among, Activity
<1> QED
  BY <1>2, <1>3

\* Streams that were there, and activities that go on.
Fewer ==
  /\ prn' \in Printer
  /\ \A j \in DOMAIN Streams(prn') :
        j \in DOMAIN Streams(prn) /\ Streams(prn')[j] = Streams(prn)[j]
  /\ DOMAIN acts' \subseteq DOMAIN acts
  /\ \A i \in DOMAIN acts' : acts'[i] = acts[i]
  /\ CatchDepth' = CatchDepth
  /\ \A i \in Nat : Survives(i)' <=> Survives(i)

LEMMA FewerSame ==
  ASSUME acts \in Seq(Activity), acts' \in Seq(Activity), Fewer
  PROVE  \A i \in DOMAIN acts' :
            i \in Nat /\ Among(acts', i, Functs) = Among(acts, i, Functs)
<1>1. DOMAIN acts = 1 .. Len(acts) /\ DOMAIN acts' = 1 .. Len(acts')
  BY LenProperties
<1> SUFFICES ASSUME NEW i \in DOMAIN acts'
             PROVE  i \in Nat /\ Among(acts', i, Functs) = Among(acts, i, Functs)
  OBVIOUS
<1>2. i \in Nat /\ \A k \in 1 .. i : acts'[k] = acts[k]
  BY <1>1 DEF Fewer
<1> QED
  BY <1>2, AmongSame

\* None of whoever goes on is there: nothing that is ended is missed.
LEMMA NoneSpared ==
  ASSUME acts \in Seq(Activity), acts' \in Seq(Activity), prn \in Printer,
         StillInherited, Fewer,
         \A j \in DOMAIN Streams(prn) :
             ~(Survives(0) /\ Streams(prn)[j].level <= CatchDepth)
  PROVE  StillInherited' /\ \A t \in Int : Covered(t)'
<1>1. \A t \in Int : Covered(t)'
  BY DEF Fewer, Covered
<1>2. StillInherited'
  <2> SUFFICES ASSUME NEW i \in DOMAIN acts', acts'[i].kind = "func", Survives(i)'
               PROVE  /\ acts'[i].redir <= Len(Streams(prn'))
                      /\ \A j \in DOMAIN Streams(prn') : j <= acts'[i].redir =>
                             Streams(prn')[j].level < Among(acts', i, Functs)
    BY DEF StillInherited
  <2>1. /\ i \in DOMAIN acts /\ acts'[i] = acts[i] /\ i \in Nat /\ Survives(i)
        /\ acts[i] \in Activity
    BY FewerSame, LenProperties, ElementOfSeq DEF Fewer
  <2>2. /\ acts[i].redir <= Len(Streams(prn))
        /\ \A j \in DOMAIN Streams(prn) : j <= acts[i].redir =>
               Streams(prn)[j].level < Among(acts, i, Functs)
    BY <2>1, FewerSame DEF StillInherited
  <2>3. Survives(0) /\ Among(acts, i, Functs) <= CatchDepth /\ CatchDepth \in Nat
    BY <2>1, CatchType
  <2>4. /\ DOMAIN Streams(prn) = 1 .. Len(Streams(prn)) /\ Len(Streams(prn)) \in Nat
        /\ \A j \in DOMAIN Streams(prn) : Streams(prn)[j].level \in Nat
        /\ Len(Streams(prn')) \in Nat /\ DOMAIN Streams(prn') = 1 .. Len(Streams(prn'))
    BY StreamsType DEF Redirection, Fewer
  <2>5. acts[i].redir \in Nat /\ Among(acts, i, Functs) \in Nat
    BY <2>1, AmongFinite DEF Activity
  <2>6. acts[i].redir = 0
    <3> SUFFICES ASSUME acts[i].redir # 0 PROVE FALSE
      OBVIOUS
    <3>1. acts[i].redir \in DOMAIN Streams(prn)
      BY <2>2, <2>4, <2>5
    <3>2. Streams(prn)[acts[i].redir].level <= CatchDepth
      BY <2>2, <2>3, <2>4, <2>5, <3>1
    <3> QED
      BY <2>3, <3>1, <3>2
  <2> QED
    BY <2>1, <2>4, <2>6
<1> QED
  BY <1>1, <1>2

\* The one that is ended is that of the function at depth t, which fails.
LEMMA SomeSpared ==
  ASSUME acts \in Seq(Activity), acts' \in Seq(Activity), prn \in Printer, Rising,
         StillInherited, Fewer, Shorter(prn, prn'),
         NEW t \in Int, Survives(0) => CatchDepth < t, Covered(t),
         \A j \in DOMAIN Streams(prn) : Streams(prn)[j].level <= t
  PROVE  StillInherited' /\ Covered(t - 1)'
<1> DEFINE n == Len(Streams(prn))
           m == Len(Streams(prn'))
<1>1. /\ DOMAIN Streams(prn) = 1 .. n /\ n \in Nat
      /\ \A j \in DOMAIN Streams(prn) : Streams(prn)[j].level \in Nat
      /\ m \in Nat /\ DOMAIN Streams(prn') = 1 .. m
  BY StreamsType DEF Redirection, Shorter
<1>2. m = IF n = 0 THEN 0 ELSE n - 1
  BY DEF Shorter
<1>3. CatchDepth \in Nat
  BY CatchType
<1> HIDE DEF n, m
<1>4. CASE \A j \in DOMAIN Streams(prn) :
               ~(Survives(0) /\ Streams(prn)[j].level <= CatchDepth)
  BY <1>4, NoneSpared
<1>5. ASSUME NEW s \in DOMAIN Streams(prn),
             Survives(0) /\ Streams(prn)[s].level <= CatchDepth
      PROVE  StillInherited' /\ Covered(t - 1)'
  <2>1. /\ \A i \in DOMAIN acts : ~Survives(i) => acts[i].kind = "func"
        /\ \A d \in CatchDepth + 1 .. t :
               \E k \in DOMAIN Streams(prn) : Streams(prn)[k].level = d
    BY <1>5 DEF Covered
  <2>2. t \in CatchDepth + 1 .. t
    BY <1>3, <1>5
  <2>3. PICK k \in DOMAIN Streams(prn) : Streams(prn)[k].level = t
    BY <2>1, <2>2
  <2>4. n \in DOMAIN Streams(prn) /\ n = k
    <3>1. n \in DOMAIN Streams(prn) /\ k <= n
      BY <1>1, <2>3
    <3>2. k < n => Streams(prn)[k].level < Streams(prn)[n].level
      BY <1>1, <3>1 DEF Rising
    <3> QED
      BY <1>1, <2>3, <3>1, <3>2
  <2>5. m = n - 1 /\ \A j \in DOMAIN Streams(prn) : j # n => j \in DOMAIN Streams(prn')
    BY <1>1, <1>2, <2>4
  <2>6. StillInherited'
    <3> SUFFICES ASSUME NEW i \in DOMAIN acts', acts'[i].kind = "func", Survives(i)'
                 PROVE  /\ acts'[i].redir <= m
                        /\ \A j \in DOMAIN Streams(prn') : j <= acts'[i].redir =>
                               Streams(prn')[j].level < Among(acts', i, Functs)
      BY DEF StillInherited, m
    <3>1. /\ i \in DOMAIN acts /\ acts'[i] = acts[i] /\ i \in Nat /\ Survives(i)
          /\ acts[i] \in Activity
      BY FewerSame, LenProperties, ElementOfSeq DEF Fewer
    <3>2. /\ acts[i].redir <= n
          /\ \A j \in DOMAIN Streams(prn) : j <= acts[i].redir =>
                 Streams(prn)[j].level < Among(acts, i, Functs)
      BY <3>1, FewerSame DEF StillInherited, n
    <3>3. Among(acts, i, Functs) <= CatchDepth /\ Among(acts, i, Functs) \in Nat
      BY <3>1, CatchType, AmongFinite
    <3>4. acts[i].redir \in Nat /\ acts[i].redir # n
      BY <1>1, <1>3, <2>2, <2>3, <2>4, <3>1, <3>2, <3>3 DEF Activity
    <3>5. Among(acts', i, Functs) = Among(acts, i, Functs)
      BY FewerSame
    <3>6. acts'[i].redir <= m
      BY <1>1, <2>5, <3>1, <3>2, <3>4
    <3> QED
      BY <3>1, <3>2, <3>5, <3>6 DEF Fewer
  <2>7. \A d \in CatchDepth + 1 .. t - 1 :
            \E j \in DOMAIN Streams(prn') : Streams(prn')[j].level = d
    <3> SUFFICES ASSUME NEW d \in CatchDepth + 1 .. t - 1
                 PROVE  \E j \in DOMAIN Streams(prn') : Streams(prn')[j].level = d
      OBVIOUS
    <3>1. d \in CatchDepth + 1 .. t /\ d # t
      BY <1>3
    <3>2. PICK j \in DOMAIN Streams(prn) : Streams(prn)[j].level = d
      BY <2>1, <3>1
    <3>3. j # n
      BY <2>3, <2>4, <3>1, <3>2
    <3> QED
      BY <2>5, <3>2, <3>3 DEF Fewer
  <2>8. Covered(t - 1)'
    <3>1. \A i \in DOMAIN acts' : ~Survives(i)' => acts'[i].kind = "func"
      BY <2>1, FewerSame DEF Fewer
    <3> QED
      BY <2>7, <3>1 DEF Covered, Fewer
  <2> QED
    BY <2>6, <2>8
<1> QED
  BY <1>4, <1>5

\* An error ends a redirection on its way, unless the line is one of a loop.
LEMMA LineFailsKeeps ==
  ASSUME IInv, OwnOnly, NEW stack \in Seq(Activity), LineFails(stack)
  PROVE  /\ prn' \in Printer /\ acts' = stack /\ err' = (stack # << >>)
         /\ \/ Shorter(prn, prn')
            \/ prn' = prn /\ stack # << >> /\ Last(stack).kind = "loop"
<1>1. prn \in Printer
  BY DEF IInv, Typed
<1>2. Shorter(prn, process_command_error) /\ process_command_error \in Printer
  BY <1>1, ErrorShorter DEF Shorter
<1> QED
  BY <1>1, <1>2 DEF LineFails, OwnOnly

(***************************************************************************)
(* The places of the functions among the activities.                       *)
(***************************************************************************)

\* The place of the d-th function.
FunctionAt(s, d) == CHOOSE i \in DOMAIN s : s[i] \in Functs /\ Among(s, i, Functs) = d

IsFunctionAt(s, i, d) == i \in 1 .. Len(s) /\ s[i] \in Functs /\ Among(s, i, Functs) = d

\* There are fewer functions before a function than with it.
LEMMA FewerBefore ==
  ASSUME NEW s, NEW i \in Nat, NEW j \in Nat, i < j, s[j] \in Functs
  PROVE  Among(s, i, Functs) < Among(s, j, Functs)
<1>1. j - 1 \in Nat /\ i <= j - 1 /\ (j - 1) + 1 = j
  OBVIOUS
<1>2. Among(s, i, Functs) <= Among(s, j - 1, Functs)
  BY <1>1, AmongMore
<1>3. Among(s, (j - 1) + 1, Functs) =
        Among(s, j - 1, Functs) + IF s[(j - 1) + 1] \in Functs THEN 1 ELSE 0
  BY <1>1, AmongStep
<1>4. Among(s, i, Functs) \in Nat /\ Among(s, j - 1, Functs) \in Nat
  BY <1>1, AmongFinite
<1> QED
  BY <1>1, <1>2, <1>3, <1>4

LEMMA FunctionIs ==
  ASSUME NEW s \in Seq(Activity), NEW d, NEW i, IsFunctionAt(s, i, d)
  PROVE  FunctionAt(s, d) = i
<1>1. Len(s) \in Nat /\ DOMAIN s = 1 .. Len(s)
  BY LenProperties
<1>2. ASSUME NEW j \in DOMAIN s, s[j] \in Functs, Among(s, j, Functs) = d
      PROVE  j = i
  <2>1. i \in Nat /\ j \in Nat /\ s[i] \in Functs /\ Among(s, i, Functs) = d
    BY <1>1 DEF IsFunctionAt
  <2>2. Among(s, i, Functs) \in Nat
    BY <2>1, AmongFinite
  <2>3. ~(i < j) /\ ~(j < i)
    BY <1>2, <2>1, <2>2, FewerBefore
  <2> QED
    BY <2>1, <2>3
<1>3. i \in DOMAIN s /\ s[i] \in Functs /\ Among(s, i, Functs) = d
  BY <1>1 DEF IsFunctionAt
<1> QED
  BY <1>2, <1>3 DEF FunctionAt

\* Each depth has its function.
LEMMA FunctionExists ==
  ASSUME NEW s \in Seq(Activity), NEW d \in Nat, d >= 1, d <= Among(s, Len(s), Functs)
  PROVE  IsFunctionAt(s, FunctionAt(s, d), d)
<1> DEFINE T == {i \in Nat : i <= Len(s) /\ Among(s, i, Functs) >= d}
<1>1. Len(s) \in Nat
  BY LenProperties
<1>2. T \subseteq Nat /\ T # {}
  <2>1. Len(s) \in T
    BY <1>1
  <2> QED
    BY <2>1
<1>3. PICK i \in T : \A j \in T : i <= j
  <2> HIDE DEF T
  <2> QED
    BY <1>2, Least
<1>4. i \in Nat /\ i <= Len(s) /\ Among(s, i, Functs) >= d /\ Among(s, i, Functs) \in Nat
  BY AmongFinite
<1>5. i # 0
  <2>1. Among(s, 0, Functs) = 0
    BY AmongNone
  <2> QED
    BY <1>4, <2>1
<1>6. i - 1 \in Nat /\ (i - 1) + 1 = i /\ i - 1 <= Len(s) /\ ~(i <= i - 1)
  BY <1>1, <1>4, <1>5
<1>7. Among(s, i - 1, Functs) \in Nat
  BY <1>6, AmongFinite
<1>8. Among(s, i - 1, Functs) < d
  <2>1. i - 1 \notin T
    BY <1>3, <1>6
  <2> QED
    BY <1>6, <1>7, <2>1
<1>9. Among(s, (i - 1) + 1, Functs) =
        Among(s, i - 1, Functs) + IF s[(i - 1) + 1] \in Functs THEN 1 ELSE 0
  BY <1>6, AmongStep
<1>10. s[i] \in Functs /\ Among(s, i, Functs) = d
  <2>1. CASE s[i] \in Functs
    BY <1>4, <1>6, <1>7, <1>8, <1>9, <2>1
  <2>2. CASE s[i] \notin Functs
    BY <1>4, <1>6, <1>7, <1>8, <1>9, <2>2
  <2> QED
    BY <2>1, <2>2
<1>11. IsFunctionAt(s, i, d)
  BY <1>1, <1>4, <1>5, <1>10 DEF IsFunctionAt
<1> QED
  BY <1>11, FunctionIs

LEMMA StreamsRange ==
  ASSUME NEW p \in Printer, NEW r
  PROVE  r \in Range(p.fplist) \cup ({p.fixed} \ {None})
            <=> \E j \in DOMAIN Streams(p) : Streams(p)[j] = r
<1>1. p.fplist \in Seq(Redirection) /\ p.fixed \in Redirection \cup {None}
  BY DEF Printer
<1>2. Len(p.fplist) \in Nat /\ DOMAIN p.fplist = 1 .. Len(p.fplist)
  BY <1>1, LenProperties
<1>3. r \in Range(p.fplist) <=> \E j \in DOMAIN p.fplist : p.fplist[j] = r
  BY DEF Range
<1>4. CASE p.fixed = None
  <2>1. Streams(p) = p.fplist
    BY <1>4 DEF Streams
  <2> QED
    BY <1>3, <1>4, <2>1
<1>5. CASE p.fixed # None
  <2> DEFINE q == Append(p.fplist, p.fixed)
             n == Len(p.fplist)
  <2>1. Streams(p) = q /\ p.fixed \in Redirection
    BY <1>1, <1>5 DEF Streams
  <2>2. /\ q \in Seq(Redirection) /\ Len(q) = n + 1
        /\ \A i \in 1 .. n : q[i] = p.fplist[i]
        /\ q[n + 1] = p.fixed
    BY <1>1, <2>1, AppendProperties
  <2>3. DOMAIN q = 1 .. n + 1
    BY <2>2, LenProperties
  <2> HIDE DEF q
  <2>4. ASSUME NEW j \in DOMAIN q, q[j] = r
        PROVE  r \in Range(p.fplist) \/ r = p.fixed
    <3>1. CASE j = n + 1
      BY <2>2, <2>4, <3>1
    <3>2. CASE j # n + 1
      <4>1. j \in 1 .. n
        BY <1>2, <2>3, <2>4, <3>2
      <4> QED
        BY <1>2, <1>3, <2>2, <2>4, <4>1
    <3> QED
      BY <3>1, <3>2
  <2>5. ASSUME r \in Range(p.fplist) PROVE \E j \in DOMAIN q : q[j] = r
    <3>1. PICK j \in 1 .. n : p.fplist[j] = r
      BY <1>2, <1>3, <2>5
    <3>2. j \in 1 .. n + 1
      BY <1>2
    <3> QED
      BY <2>2, <2>3, <3>1, <3>2
  <2>6. n + 1 \in DOMAIN q
    BY <1>2, <2>3
  <2> QED
    BY <1>5, <2>1, <2>2, <2>4, <2>5, <2>6
<1> QED
  BY <1>4, <1>5

LEMMA StreamsOpen ==
  ASSUME prn \in Printer PROVE Open = {Streams(prn)[j] : j \in DOMAIN Streams(prn)}
BY StreamsRange DEF Open

LEMMA FunctionThere ==
  ASSUME NEW s \in Seq(Activity), NEW d \in Nat, d >= 1, d <= Among(s, Len(s), Functs)
  PROVE  \E i \in 1 .. Len(s) : s[i] \in Functs /\ Among(s, i, Functs) = d
BY FunctionExists DEF IsFunctionAt

CatchBelow ==
  acts \in Seq(Activity) =>
      CatchDepth \in Nat /\ (Survives(0) => CatchDepth < Among(acts, Len(acts), Functs))

LEMMA CatchBelowNext == CatchBelow'
<1>1. CatchBelow
  BY CatchType DEF CatchBelow
<1> QED
  BY <1>1, PTL

\* The redirections of its own that each of the functions has.
LEMMA CoveredByOwn ==
  ASSUME Typed, Rising, Within, Spared # {} => EachHasOwn
  PROVE  Covered(Among(acts, Len(acts), Functs))
<1>1. prn \in Printer /\ acts \in Seq(Activity)
  BY DEF Typed
<1> SUFFICES ASSUME NEW s \in DOMAIN Streams(prn), Survives(0),
                    Streams(prn)[s].level <= CatchDepth
             PROVE  /\ \A i \in DOMAIN acts : ~Survives(i) => acts[i].kind = "func"
                    /\ \A d \in CatchDepth + 1 .. Among(acts, Len(acts), Functs) :
                          \E k \in DOMAIN Streams(prn) : Streams(prn)[k].level = d
  BY DEF Covered
<1>2. Open = {Streams(prn)[j] : j \in DOMAIN Streams(prn)}
  BY <1>1, StreamsOpen
<1>3. EachHasOwn
  BY <1>2 DEF Spared
<1>4. ASSUME NEW d \in CatchDepth + 1 .. Among(acts, Len(acts), Functs)
      PROVE  \E k \in DOMAIN Streams(prn) : Streams(prn)[k].level = d
  <2>1. CatchDepth \in Nat /\ Len(acts) \in Nat /\ DOMAIN acts = 1 .. Len(acts)
        /\ \A i \in 1 .. Len(acts) : acts[i] \in Activity
    BY <1>1, CatchType, LenProperties, ElementOfSeq
  <2>2. Among(acts, Len(acts), Functs) \in Nat
    BY <2>1, AmongFinite
  <2>3. d \in Nat /\ 1 <= d /\ d <= Among(acts, Len(acts), Functs)
    BY <2>1, <2>2
  <2>4. PICK i \in 1 .. Len(acts) : acts[i] \in Functs /\ Among(acts, i, Functs) = d
    BY <1>1, <2>3, FunctionThere
  <2>5. ~Survives(i)
    BY <1>1, <2>1, <2>4, CatchType
  <2>6. {k \in 1 .. i : acts[k].kind = "func"} = {k \in 1 .. i : acts[k] \in Functs}
    BY <2>1 DEF Functs
  <2>7. At(d) # {}
    BY <1>3, <2>1, <2>4, <2>5, <2>6 DEF EachHasOwn, Among
  <2> QED
    BY <1>2, <2>7 DEF At
<1> QED
  BY <1>3, <1>4 DEF EachHasOwn

LEMMA CommandFailsOnItsWay ==
  ASSUME IInv, OwnOnly, CommandFails
  PROVE  err' => StillInherited' /\ Covered(Among(acts, Len(acts), Functs) - 1)'
<1>1. /\ Typed /\ prn \in Printer /\ acts \in Seq(Activity) /\ LineFails(acts) /\ ~err
      /\ Spared # {} => EachHasOwn
  BY DEF IInv, Typed, CommandFails, Active, OwnOnly
<1>2. /\ prn' \in Printer /\ acts' = acts
      /\ \/ Shorter(prn, prn')
         \/ prn' = prn /\ acts # << >> /\ Last(acts).kind = "loop"
  BY <1>1, LineFailsKeeps
<1>a. Among(acts, Len(acts), Functs) \in Nat
  BY <1>1, DepthIs
<1>b. PICK t \in Nat : t = Among(acts, Len(acts), Functs)
  BY <1>a
<1>3. Covered(t)
  BY <1>1, <1>b, CoveredByOwn DEF IInv
<1>4. t \in Nat /\ (Survives(0) => CatchDepth < t)
  BY <1>1, <1>b, CatchType
<1>5. Fewer
  BY <1>1, <1>2 DEF Fewer, Shorter, CatchDepth, Survives
<1>6. StillInherited
  BY <1>1 DEF IInv, Inherited, StillInherited
<1>7. \A j \in DOMAIN Streams(prn) : Streams(prn)[j].level <= t
  BY <1>b DEF IInv, Within
<1>8. t - 1 = Among(acts', Len(acts'), Functs) - 1 /\ t - 1 \in Int /\ t \in Int
  BY <1>2, <1>b, <1>4
<1>9. StillInherited' /\ Covered(t - 1)'
  <2>1. CASE Shorter(prn, prn')
    <3>1. acts' \in Seq(Activity) /\ Rising
      BY <1>1, <1>2 DEF IInv
    <3> QED
      BY <1>1, <1>3, <1>4, <1>5, <1>6, <1>7, <1>8, <2>1, <3>1, SomeSpared
  <2>2. CASE prn' = prn /\ acts # << >> /\ Last(acts).kind = "loop"
    <3>1. /\ Len(acts) \in DOMAIN acts /\ ~Survives(Len(acts))
          /\ acts[Len(acts)].kind # "func"
      <4>1. Len(acts) \in Nat \ {0} /\ DOMAIN acts = 1 .. Len(acts)
        BY <1>1, <2>2, LenProperties, EmptySeq
      <4> QED
        BY <2>2, <4>1 DEF Survives, Last
    <3>2. \A j \in DOMAIN Streams(prn) :
              ~(Survives(0) /\ Streams(prn)[j].level <= CatchDepth)
      BY <1>3, <3>1 DEF Covered
    <3>3. acts' \in Seq(Activity)
      BY <1>1, <1>2
    <3> QED
      BY <1>1, <1>5, <1>6, <1>8, <3>2, <3>3, NoneSpared
  <2> QED
    BY <1>2, <2>1, <2>2
<1> QED
  BY <1>8, <1>9 DEF Covered

LEMMA CommandFailsKeeps ==
  ASSUME IInv, OwnOnly, CommandFails
  PROVE  IInv'
<1>1. /\ Typed /\ prn \in Printer /\ acts \in Seq(Activity)
      /\ states' = states /\ vparms' = vparms /\ LineFails(acts) /\ ~err
  BY DEF IInv, Typed, CommandFails, Active
<1>2. /\ prn' \in Printer /\ acts' = acts /\ err' = (acts # << >>)
      /\ \/ Shorter(prn, prn')
         \/ prn' = prn /\ acts # << >> /\ Last(acts).kind = "loop"
  BY <1>1, LineFailsKeeps
<1>3. Typed'
  BY <1>1, <1>2 DEF Typed
<1>4. Rising' /\ LastRestores' /\ Within'
  <2>1. CASE Shorter(prn, prn')
    <3>1. /\ Rising' /\ LastRestores'
          /\ \A j \in DOMAIN Streams(prn') :
                /\ Len(Streams(prn)) \in DOMAIN Streams(prn)
                /\ Streams(prn')[j].level < Streams(prn)[Len(Streams(prn))].level
                /\ j \in DOMAIN Streams(prn) /\ Streams(prn')[j] = Streams(prn)[j]
      BY <1>1, <2>1, PopKeeps DEF IInv
    <3>2. \A j \in DOMAIN Streams(prn) : Streams(prn)[j].level \in Nat
      BY <1>1, StreamsType DEF Redirection
    <3>3. Among(acts, Len(acts), Functs) \in Nat
      BY <1>1, DepthIs
    <3>4. \A j \in DOMAIN Streams(prn') :
              Streams(prn')[j].level < Among(acts, Len(acts), Functs)
      BY <3>1, <3>2, <3>3 DEF IInv, Within
    <3> QED
      BY <1>2, <3>1, <3>2, <3>3, <3>4 DEF Within
  <2>2. CASE prn' = prn /\ acts # << >> /\ Last(acts).kind = "loop"
    BY <1>1, <1>2, <2>2 DEF IInv, Rising, LastRestores, Within
  <2> QED
    BY <1>2, <2>1, <2>2
<1>5. Inherited'
  <2>1. CASE acts = << >>
    BY <1>2, <2>1 DEF Inherited
  <2>2. CASE acts # << >>
    BY <1>2, <2>2 DEF Inherited
  <2> QED
    BY <2>1, <2>2
<1>6. OnItsWay'
  BY <1>1, <1>2, CommandFailsOnItsWay DEF OnItsWay
<1> QED
  BY <1>3, <1>4, <1>5, <1>6 DEF IInv

\* A function, loop or script that fails leaves fewer levels, and at most one
\* redirection for each of them.
LEMMA ActivityFailsFacts ==
  ASSUME IInv, OwnOnly, ActivityFails
  PROVE  /\ Typed /\ prn \in Printer /\ acts \in Seq(Activity) /\ acts # << >>
         /\ states' = StateAfter(Top) /\ vparms' = vparms /\ err = TRUE
         /\ Top = Last(acts) /\ prn' \in Printer /\ acts' = Front(acts)
         /\ acts' \in Seq(Activity) /\ Len(acts') = Len(acts) - 1
         /\ \/ /\ ~Top.caught /\ err' = (acts' # << >>)
               /\ \/ Shorter(prn, prn')
                  \/ /\ Top.kind # "loop"
                     /\ prn' = prn /\ acts' # << >> /\ Last(acts').kind = "loop"
            \/ Top.caught /\ Top.kind = "func" /\ prn' = prn /\ err' = FALSE
         /\ StillInherited /\ Covered(Among(acts, Len(acts), Functs) - 1)
<1>1. /\ Typed /\ prn \in Printer /\ acts \in Seq(Activity) /\ acts # << >>
      /\ states' = StateAfter(Top) /\ vparms' = vparms /\ err = TRUE
      /\ StillInherited /\ Covered(Among(acts, Len(acts), Functs) - 1)
  BY DEF IInv, Typed, ActivityFails, OwnOnly, OnItsWay
<1>2. /\ Front(acts) \in Seq(Activity) /\ Top = Last(acts) /\ Top \in Activity
      /\ Len(Front(acts)) = Len(acts) - 1
  BY <1>1, FrontFacts DEF Top
<1>3. Top.caught => Top.kind = "func"
  BY <1>2 DEF Activity
<1>4. CASE /\ Top.kind = "loop" /\ prn' = process_command_error
           /\ acts' = Front(acts) /\ err' = (Front(acts) # << >>)
  BY <1>1, <1>2, <1>3, <1>4, ErrorShorter DEF Shorter
<1>5. CASE Top.caught /\ prn' = prn /\ acts' = Front(acts) /\ err' = FALSE
  BY <1>1, <1>2, <1>3, <1>5
<1>6. CASE Top.kind # "loop" /\ ~Top.caught /\ LineFails(Front(acts))
  <2>1. /\ prn' \in Printer /\ acts' = Front(acts) /\ err' = (Front(acts) # << >>)
        /\ \/ Shorter(prn, prn')
           \/ prn' = prn /\ Front(acts) # << >> /\ Last(Front(acts)).kind = "loop"
    BY <1>2, <1>6, LineFailsKeeps
  <2> QED
    BY <1>1, <1>2, <1>6, <2>1
<1> QED
  BY <1>4, <1>5, <1>6 DEF ActivityFails

\* What whoever catches the error has is there as long as it is on its way.
LEMMA ActivityFailsOnItsWay ==
  ASSUME IInv, OwnOnly, ActivityFails
  PROVE  /\ err' => StillInherited' /\ Covered(Among(acts, Len(acts), Functs) - 1)'
         /\ ~err' => Inherited'
<1> DEFINE d == Among(acts, Len(acts), Functs)
           e == Among(acts', Len(acts'), Functs)
<1>1. /\ Typed /\ prn \in Printer /\ acts \in Seq(Activity) /\ acts # << >>
      /\ states' = StateAfter(Top) /\ err = TRUE
      /\ prn' \in Printer /\ acts' = Front(acts) /\ Top = Last(acts)
      /\ acts' \in Seq(Activity) /\ Len(acts') = Len(acts) - 1
      /\ StillInherited /\ Covered(d - 1)
      /\ \/ /\ ~Top.caught /\ err' = (acts' # << >>)
            /\ \/ Shorter(prn, prn')
               \/ /\ Top.kind # "loop"
                  /\ prn' = prn /\ acts' # << >> /\ Last(acts').kind = "loop"
         \/ Top.caught /\ Top.kind = "func" /\ prn' = prn /\ err' = FALSE
  BY ActivityFailsFacts
<1>2. /\ Len(acts) \in Nat \ {0} /\ DOMAIN acts = 1 .. Len(acts)
      /\ DOMAIN acts' = 1 .. Len(acts) - 1
      /\ \A i \in 1 .. Len(acts) - 1 : acts'[i] = acts[i]
      /\ Top = acts[Len(acts)] /\ ~Survives(Len(acts))
  <2>1. Len(acts) \in Nat \ {0} /\ DOMAIN acts = 1 .. Len(acts)
    BY <1>1, LenProperties, EmptySeq
  <2>2. DOMAIN acts' = 1 .. Len(acts) - 1
    BY <1>1, LenProperties
  <2>3. \A i \in 1 .. Len(acts) - 1 : acts'[i] = acts[i]
    BY <1>1, FrontFacts
  <2>4. ~Survives(Len(acts))
    BY <2>1 DEF Survives
  <2> QED
    BY <1>1, <2>1, <2>2, <2>3, <2>4 DEF Last
<1>3. d = e + (IF Top.kind = "func" THEN 1 ELSE 0) /\ e \in Nat
  BY <1>1, StateAfterFacts
<1>a. PICK t \in Nat : t = e
  BY <1>3
<1> HIDE DEF d, e
<1>4. CASE Top.caught
  <2>1. /\ prn' = prn /\ err' = FALSE
        /\ \A i \in DOMAIN acts' : Survives(i)
    BY <1>1, <1>4, CatchPopped
  <2>2. \A i \in DOMAIN acts' : Among(acts', i, Functs) = Among(acts, i, Functs)
    <3> SUFFICES ASSUME NEW i \in DOMAIN acts'
                 PROVE  Among(acts', i, Functs) = Among(acts, i, Functs)
      OBVIOUS
    <3>1. i \in Nat /\ \A k \in 1 .. i : acts'[k] = acts[k]
      BY <1>2
    <3> QED
      BY <3>1, AmongSame
  <2>3. Inherited'
    BY <1>1, <1>2, <2>1, <2>2 DEF StillInherited, Inherited
  <2> QED
    BY <2>1, <2>3
<1>5. CASE ~Top.caught
  <2>1. /\ \/ Shorter(prn, prn')
           \/ /\ Top.kind # "loop"
              /\ prn' = prn /\ acts' # << >> /\ Last(acts').kind = "loop"
        /\ err' = (acts' # << >>)
    BY <1>1, <1>5
  <2>2. Fewer
    <3>1. CatchDepth' = CatchDepth /\ \A i \in Nat : Survives(i)' <=> Survives(i)
      BY <1>1, <1>5, CatchPopped
    <3>2. \A j \in DOMAIN Streams(prn') :
              j \in DOMAIN Streams(prn) /\ Streams(prn')[j] = Streams(prn)[j]
      BY <2>1 DEF Shorter
    <3> QED
      BY <1>1, <1>2, <3>1, <3>2 DEF Fewer
  <2>3. t - 1 \in Int /\ t \in Int
    OBVIOUS
  <2>4. StillInherited' /\ Covered(t - 1)'
    <3>1. CASE \A j \in DOMAIN Streams(prn) :
                   ~(Survives(0) /\ Streams(prn)[j].level <= CatchDepth)
      BY <1>1, <2>2, <2>3, <3>1, NoneSpared
    <3>2. ASSUME NEW s \in DOMAIN Streams(prn),
                 Survives(0) /\ Streams(prn)[s].level <= CatchDepth
          PROVE  StillInherited' /\ Covered(t - 1)'
      <4>1. \A i \in DOMAIN acts : ~Survives(i) => acts[i].kind = "func"
        BY <1>1, <3>2 DEF Covered
      <4>2. Top.kind = "func" /\ d - 1 = e /\ d \in Nat
        BY <1>2, <1>3, <4>1
      <4>3. acts' # << >> => Last(acts').kind = "func"
        <5> SUFFICES ASSUME acts' # << >> PROVE Last(acts').kind = "func"
          OBVIOUS
        <5>1. Len(acts) - 1 \in 1 .. Len(acts) - 1 /\ Len(acts) - 1 \in Nat
          BY <1>1, <1>2, EmptySeq
        <5>2. ~Survives(Len(acts) - 1)
          BY <1>2, <1>5, <5>1 DEF Survives
        <5> QED
          BY <1>1, <1>2, <4>1, <5>1, <5>2 DEF Last
      <4>4. Shorter(prn, prn')
        BY <2>1, <4>3
      <4>5. Survives(0) => CatchDepth < t
        <5>1. Survives(0)' /\ CatchDepth' = CatchDepth
          BY <2>2, <3>2 DEF Fewer
        <5>2. CatchDepth' < Among(acts', Len(acts'), Functs)
          BY <1>1, <5>1, CatchBelowNext DEF CatchBelow
        <5> QED
          BY <1>a, <5>1, <5>2 DEF e
      <4>6. \A j \in DOMAIN Streams(prn) : Streams(prn)[j].level <= t
        <5>1. \A j \in DOMAIN Streams(prn) :
                  Streams(prn)[j].level < d /\ Streams(prn)[j].level \in Nat
          BY <1>1, <4>2, StreamsType DEF IInv, Within, Redirection, d
        <5> QED
          BY <1>3, <1>a, <4>2, <5>1
      <4>7. Rising /\ Covered(t)
        BY <1>1, <1>3, <1>a, <4>2 DEF IInv
      <4> QED
        BY <1>1, <2>2, <2>3, <4>4, <4>5, <4>6, <4>7, SomeSpared
    <3> QED
      BY <3>1, <3>2
  <2>5. acts' = << >> => Inherited'
    BY DEF Inherited
  <2>6. t - 1 = Among(acts', Len(acts'), Functs) - 1
    BY <1>a DEF e
  <2>7. Covered(Among(acts, Len(acts), Functs) - 1)'
    BY <2>4, <2>6 DEF Covered
  <2> QED
    BY <2>1, <2>4, <2>5, <2>7
<1> QED
  BY <1>4, <1>5

LEMMA ActivityFailsKeeps ==
  ASSUME IInv, OwnOnly, ActivityFails
  PROVE  /\ IInv'
         /\ acts' = << >> /\ ~Top.caught => Shorter(prn, prn') /\
               \A j \in DOMAIN Streams(prn') : Streams(prn')[j].level < 0
<1> DEFINE d == Among(acts, Len(acts), Functs)
           e == Among(acts', Len(acts'), Functs)
<1>1. /\ Typed /\ prn \in Printer /\ acts \in Seq(Activity) /\ acts # << >>
      /\ states' = StateAfter(Top) /\ vparms' = vparms /\ err = TRUE
      /\ Top = Last(acts) /\ prn' \in Printer /\ acts' = Front(acts)
      /\ \/ /\ ~Top.caught /\ err' = (acts' # << >>)
            /\ \/ Shorter(prn, prn')
               \/ /\ Top.kind # "loop"
                  /\ prn' = prn /\ acts' # << >> /\ Last(acts').kind = "loop"
         \/ Top.caught /\ Top.kind = "func" /\ prn' = prn /\ err' = FALSE
  BY ActivityFailsFacts
<1>2. /\ err' \in BOOLEAN /\ (err' => ~Top.caught /\ acts' # << >>)
      /\ ~Top.caught => err' = (acts' # << >>)
  BY <1>1
<1>4. /\ states' \in Seq(State) /\ acts' \in Seq(Activity)
      /\ Len(states') = 1 + Among(acts', Len(acts'), Setters)
      /\ d = e + IF Top.kind = "func" THEN 1 ELSE 0
      /\ e \in Nat
  BY <1>1, StateAfterFacts
<1>5. Typed'
  BY <1>1, <1>2, <1>4 DEF Typed
<1>6. \A j \in DOMAIN Streams(prn) :
          /\ Streams(prn)[j].level \in Nat /\ Streams(prn)[j].level <= d
          /\ Top.kind # "loop" => Streams(prn)[j].level < d
  BY <1>1, StreamsType DEF IInv, Within, Redirection
<1> HIDE DEF d, e
<1>7. \A j \in DOMAIN Streams(prn) : Streams(prn)[j].level <= e
  <2>1. CASE Top.kind = "func"
    BY <1>4, <1>6, <2>1
  <2>2. CASE Top.kind # "func"
    BY <1>4, <1>6, <2>2
  <2> QED
    BY <2>1, <2>2
<1>8. /\ Rising' /\ LastRestores' /\ Within'
      /\ Shorter(prn, prn') => \A j \in DOMAIN Streams(prn') : Streams(prn')[j].level < e
  <2>1. CASE Shorter(prn, prn')
    <3>1. /\ Rising' /\ LastRestores'
          /\ \A j \in DOMAIN Streams(prn') :
                /\ Len(Streams(prn)) \in DOMAIN Streams(prn)
                /\ Streams(prn')[j].level < Streams(prn)[Len(Streams(prn))].level
                /\ j \in DOMAIN Streams(prn) /\ Streams(prn')[j] = Streams(prn)[j]
      BY <1>1, <2>1, PopKeeps DEF IInv
    <3>2. \A j \in DOMAIN Streams(prn') :
              Streams(prn')[j].level < e /\ Streams(prn')[j].level <= e
      BY <1>4, <1>6, <1>7, <3>1
    <3>3. Within'
      BY <3>2 DEF Within, e
    <3> QED
      BY <3>1, <3>2, <3>3
  <2>2. CASE ~Shorter(prn, prn')
    <3>1. prn' = prn /\ (err' => Last(acts').kind = "loop")
      BY <1>1, <2>2
    <3>2. Within'
      BY <1>7, <3>1 DEF Within, e
    <3> QED
      BY <1>1, <2>2, <3>1, <3>2 DEF IInv, Rising, LastRestores
  <2> QED
    BY <2>1, <2>2
<1>9. Inherited' /\ OnItsWay'
  BY ActivityFailsOnItsWay DEF Inherited, OnItsWay
<1>10. acts' = << >> /\ ~Top.caught => Shorter(prn, prn') /\
               \A j \in DOMAIN Streams(prn') : Streams(prn')[j].level < 0
  <2> SUFFICES ASSUME acts' = << >>, ~Top.caught
               PROVE  Shorter(prn, prn') /\
                      \A j \in DOMAIN Streams(prn') : Streams(prn')[j].level < 0
    OBVIOUS
  <2>1. e = 0
    BY AmongNone DEF e
  <2>2. Shorter(prn, prn')
    BY <1>1
  <2> QED
    BY <1>8, <2>1, <2>2
<1> QED
  BY <1>5, <1>8, <1>9, <1>10 DEF IInv

(***************************************************************************)
(* Theorems.                                                               *)
(***************************************************************************)
LEMMA InvInit == Init => IInv
<1> SUFFICES ASSUME Init PROVE IInv
  OBVIOUS
<1>1. prn \in Printer /\ Streams(prn) = << >> /\ DOMAIN Streams(prn) = {}
  <2>1. prn \in Printer /\ prn.fplist = << >> /\ prn.fixed = None
    BY EmptySeq DEF Init, Printer
  <2> QED
    BY <2>1 DEF Streams
<1>2. acts = << >> /\ DOMAIN acts = {} /\ Len(acts) = 0 /\ acts \in Seq(Activity)
  BY EmptySeq DEF Init
<1>3. states \in Seq(State) /\ Len(states) = 1
  <2>1. PICK o \in Options : states = << [messages |-> TRUE, option |-> o] >>
    BY DEF Init
  <2>2. [messages |-> TRUE, option |-> o] \in State
    BY DEF State
  <2> HIDE DEF State
  <2> QED
    BY <2>1, <2>2
<1>4. Typed
  <2>1. Among(acts, Len(acts), Setters) = 0
    BY <1>2, AmongNone
  <2>2. Len(states) = 1 + Among(acts, Len(acts), Setters)
    BY <1>3, <2>1
  <2> QED
    BY <1>1, <1>2, <1>3, <2>2 DEF Typed, Init
<1> QED
  BY <1>1, <1>2, <1>4 DEF IInv, Init, Rising, Within, Inherited, OnItsWay, LastRestores

LEMMA InvNext ==
  ASSUME IInv, OwnOnly, [Next]_vars
  PROVE  IInv'
<1>1. CASE Next
  <2>1. ASSUME NEW null \in BOOLEAN, NEW quiet \in BOOLEAN, Outfile(null, quiet)
        PROVE  IInv'
    BY <2>1, OutfileKeeps
  <2>2. CASE EndOutfile
    BY <2>2, EndOutfileKeeps
  <2>3. ASSUME NEW m \in BOOLEAN, NEW o \in Options, Set(m, o)
        PROVE  IInv'
    BY <2>3, SetKeeps
  <2>4. ASSUME NEW uses \in BOOLEAN, NEW caught \in BOOLEAN, Call(uses, caught)
        PROVE  IInv'
    BY <2>4, CallKeeps
  <2>5. ASSUME NEW b \in BOOLEAN, StartLoop(b) \/ Run(b) PROVE IInv'
    BY <2>5, BlockKeeps
  <2>6. CASE End
    BY <2>6, EndKeeps
  <2>7. CASE CommandFails
    BY <2>7, CommandFailsKeeps
  <2>8. CASE ActivityFails
    BY <2>8, ActivityFailsKeeps
  <2> QED
    BY <1>1, <2>1, <2>2, <2>3, <2>4, <2>5, <2>6, <2>7, <2>8 DEF Next
<1>2. CASE UNCHANGED vars
  BY <1>2 DEF vars, IInv, Typed, Rising, Within, Inherited, LastRestores, OnItsWay,
              StillInherited, Covered, Survives, CatchDepth
<1> QED
  BY <1>1, <1>2

LEMMA TypeFromInv == IInv => TypeOK
<1> SUFFICES ASSUME IInv PROVE TypeOK
  OBVIOUS
<1>1. prn \in Printer /\ acts \in Seq(Activity) /\ Typed
  BY DEF IInv, Typed
<1>2. prn.fplist \in Seq(Redirection) /\ prn.fixed \in Redirection \cup {None}
  BY <1>1 DEF Printer
<1>3. /\ \A j \in DOMAIN prn.fplist :
            j \in DOMAIN Streams(prn) /\ Streams(prn)[j] = prn.fplist[j]
  <2>1. DOMAIN prn.fplist = 1 .. Len(prn.fplist) /\ Len(prn.fplist) \in Nat
    BY <1>2, LenProperties
  <2>2. CASE prn.fixed = None
    BY <2>2 DEF Streams
  <2>3. CASE prn.fixed # None
    <3>1. /\ Streams(prn) = Append(prn.fplist, prn.fixed)
          /\ Len(Append(prn.fplist, prn.fixed)) = Len(prn.fplist) + 1
          /\ \A i \in 1 .. Len(prn.fplist) :
                Append(prn.fplist, prn.fixed)[i] = prn.fplist[i]
      BY <1>2, <2>3, AppendProperties DEF Streams
    <3>2. DOMAIN Streams(prn) = 1 .. Len(prn.fplist) + 1
      BY <1>1, <3>1, StreamsType
    <3> QED
      BY <2>1, <3>1, <3>2
  <2> QED
    BY <2>2, <2>3
<1>4. \A j, k \in DOMAIN prn.fplist :
          j < k => prn.fplist[j].level < prn.fplist[k].level
  BY <1>3 DEF IInv, Rising
<1>5. Len(states) =
        1 + Cardinality({i \in DOMAIN acts : acts[i].kind = "func" /\ acts[i].usesSet})
  BY <1>1, DepthIs DEF Typed
<1> QED
  BY <1>1, <1>2, <1>4, <1>5 DEF TypeOK, Typed

LEMMA Invariant == ASSUME OwnOnly PROVE Spec => []IInv
<1>1. Init => IInv
  BY InvInit
<1>2. IInv /\ [Next]_vars => IInv'
  BY InvNext
<1> QED
  BY <1>1, <1>2, PTL DEF Spec

(* Types, the order of the streams (one at most for each depth) and the    *)
(* number of states on the stack of settings, errors included.             *)
THEOREM TypeCorrect == ASSUME OwnOnly PROVE Spec => []TypeOK
  BY Invariant, TypeFromInv, PTL

InDepth == \A r \in Open : r.level <= depth

LEMMA OpenWithin == Typed /\ Within => InDepth
BY StreamsOpen, DepthIs DEF Typed, Within, InDepth

LEMMA NothingLeftStep ==
  ASSUME IInv, OwnOnly, Next, err, ~err'
  PROVE  IF Top.caught THEN \A r \in Open' : r.level <= depth'
         ELSE prn' = [fplist |-> << >>, fixed |-> None]
<1>1. ActivityFails
  BY DEF Next, Outfile, EndOutfile, Set, Call, StartLoop, Run, Push, End, CommandFails, Active
<1>2. IInv' /\ (~Top.caught => acts' = << >>)
  BY <1>1, ActivityFailsKeeps, ActivityFailsFacts
<1>3. ASSUME Top.caught PROVE \A r \in Open' : r.level <= depth'
  <2>1. Typed' /\ Within' => InDepth'
    BY OpenWithin, PTL
  <2> QED
    BY <1>2, <2>1 DEF IInv, InDepth
<1>4. ASSUME ~Top.caught PROVE prn' = [fplist |-> << >>, fixed |-> None]
  <2>1. prn' \in Printer /\ \A j \in DOMAIN Streams(prn') : Streams(prn')[j].level < 0
    BY <1>1, <1>2, <1>4, ActivityFailsKeeps DEF IInv, Typed
  <2>2. /\ Len(Streams(prn')) \in Nat /\ DOMAIN Streams(prn') = 1 .. Len(Streams(prn'))
        /\ \A j \in DOMAIN Streams(prn') : Streams(prn')[j].level \in Nat
    BY <2>1, StreamsType DEF Redirection
  <2>3. Len(Streams(prn')) = 0
    <3> SUFFICES ASSUME Len(Streams(prn')) # 0 PROVE FALSE
      OBVIOUS
    <3>1. 1 \in DOMAIN Streams(prn')
      BY <2>2
    <3> QED
      BY <2>1, <2>2, <3>1
  <2> QED
    BY <2>1, <2>3, NoStreams
<1> QED
  BY <1>3, <1>4

(* process_command_error() ends one redirection for each line an error     *)
(* passes, and redirection_ok() admits one for each depth: that is enough  *)
(* for whoever goes on, the session or a caller that catches the error, to *)
(* find nothing left of what has failed.                                   *)
THEOREM DiversionEnds == ASSUME OwnOnly PROVE Spec => NothingLeftOpen
<1>1. IInv /\ [Next]_vars
        => [err /\ ~err' =>
               IF Top.caught THEN \A r \in Open' : r.level <= depth'
               ELSE prn' = [fplist |-> << >>, fixed |-> None]]_vars
  BY NothingLeftStep
<1> QED
  BY <1>1, Invariant, PTL DEF Spec, NothingLeftOpen

LEMMA QuietStep ==
  ASSUME IInv, OwnOnly, Polite, Next,
         print_redirection_level > 0, InForce.restores,
         prn' = print_end_redirection(prn), acts' = acts, ~err'
  PROVE  Last(states').messages
<1> DEFINE n == Len(Streams(prn))
<1>1. prn \in Printer /\ acts \in Seq(Activity) /\ Typed
  BY DEF IInv, Typed
<1>2. /\ n \in Nat /\ n > 0 /\ InForce = Streams(prn)[n] /\ n \in DOMAIN Streams(prn)
      /\ InForce \in Redirection
  BY <1>1, StreamsType, StreamsInForce
<1>3. Len(Streams(prn')) = n - 1 /\ prn' # prn
  <2>1. Len(Streams(prn')) = IF n = 0 THEN 0 ELSE n - 1
    BY <1>1, <1>2, EndShorter DEF Shorter
  <2>2. Len(Streams(prn')) = n - 1
    BY <1>2, <2>1
  <2> QED
    BY <1>2, <2>2
<1>4. vparms = "on"
  BY <1>2 DEF IInv, LastRestores, Polite
<1>5. CASE EndOutfile
  <2>1. SetMessages(TRUE)
    BY <1>4, <1>5 DEF EndOutfile
  <2>2. [state EXCEPT !.messages = TRUE] \in State /\ [state EXCEPT !.messages = TRUE].messages
    BY <1>1, MessagesFacts
  <2> QED
    BY <1>1, <2>1, <2>2, SetStateFacts DEF SetMessages, SetState
<1>6. CASE CommandFails
  <2>1. acts = << >>
    BY <1>6 DEF CommandFails, LineFails
  <2>2. Among(acts, Len(acts), Functs) = 0
    BY <2>1, AmongNone
  <2>3. InForce.level = 0 /\ ~Survives(0)
    BY <1>2, <2>1, <2>2 DEF IInv, Within, Redirection, Survives
  <2> QED
    BY <1>6, <2>3 DEF CommandFails, QuietSession, Polite
<1>7. ~ActivityFails
  <2> SUFFICES ASSUME ActivityFails PROVE FALSE
    OBVIOUS
  <2>1. acts # << >> /\ acts' = Front(acts)
    BY DEF ActivityFails, LineFails
  <2>2. Len(Front(acts)) = Len(acts) - 1 /\ Len(acts) \in Nat
    BY <1>1, <2>1, FrontFacts, LenProperties
  <2>3. Len(Front(acts)) = Len(acts)
    BY <2>1
  <2> QED
    BY <2>2, <2>3
<1>8. ASSUME NEW null \in BOOLEAN, NEW quiet \in BOOLEAN, Outfile(null, quiet)
      PROVE  FALSE
  <2>1. prn.fixed = None /\ (InForce.restores => "nested" \in Faults)
    BY <1>8 DEF Outfile
  <2> QED
    BY <2>1 DEF Polite
<1>9. CASE \/ \E m \in BOOLEAN, o \in Options : Set(m, o)
           \/ \E uses, caught \in BOOLEAN : Call(uses, caught)
           \/ \E b \in BOOLEAN : StartLoop(b) \/ Run(b)
           \/ End
  <2>1. prn' = prn
    BY <1>9 DEF Set, Call, StartLoop, Run, Push, End
  <2> QED
    BY <1>3, <2>1
<1> QED
  BY <1>5, <1>6, <1>7, <1>8, <1>9 DEF Next

(* What --quiet turned off is on again when the redirection ends, since    *)
(* only the innermost one has something to restore and vparms is its own.  *)
THEOREM QuietRestored == ASSUME OwnOnly, Polite PROVE Spec => QuietEnds
<1>1. IInv /\ [Next]_vars
        => [/\ print_redirection_level > 0 /\ InForce.restores
            /\ prn' = print_end_redirection(prn)
            /\ acts' = acts /\ ~err'
            => Last(states').messages]_vars
  BY QuietStep
<1> QED
  BY <1>1, Invariant, PTL DEF Spec, QuietEnds

-----------------------------------------------------------------------------
(***************************************************************************)
(* Sequences.                                                              *)
(***************************************************************************)

\* Sequences with the same elements are the same.
LEMMA SeqSame ==
  ASSUME NEW S, NEW f \in Seq(S), NEW g \in Seq(S), Len(f) = Len(g),
         \A i \in 1 .. Len(f) : f[i] = g[i]
  PROVE  f = g
BY LenProperties

\* A function over 1 .. m is a sequence.
LEMMA FcnIsSeq ==
  ASSUME NEW S, NEW m \in Nat, NEW f, f = [i \in 1 .. m |-> f[i]],
         \A i \in 1 .. m : f[i] \in S
  PROVE  f \in Seq(S) /\ Len(f) = m /\ DOMAIN f = 1 .. m
<1>1. f \in [1 .. m -> S]
  OBVIOUS
<1>2. f \in Seq(S)
  BY <1>1, SeqDef
<1>3. Len(f) \in Nat /\ DOMAIN f = 1 .. Len(f)
  BY <1>2, LenProperties
<1>4. 1 .. Len(f) = 1 .. m
  BY <1>1, <1>3
<1>5. ASSUME NEW a \in Nat, NEW b \in Nat, 1 .. a = 1 .. b PROVE a <= b
  <2>1. CASE a = 0
    BY <2>1
  <2>2. CASE a # 0
    <3>1. a \in 1 .. a
      BY <2>2
    <3>2. a \in 1 .. b
      BY <1>5, <3>1, Zenon
    <3> QED
      BY <3>2
  <2> QED
    BY <2>1, <2>2
<1> QED
  BY <1>2, <1>3, <1>4, <1>5

\* A sequence with one more element.
LEMMA SeqGrown ==
  ASSUME NEW S, NEW f \in Seq(S), NEW g \in Seq(S), Len(g) = Len(f) + 1,
         \A i \in 1 .. Len(f) : g[i] = f[i]
  PROVE  g = Append(f, g[Len(g)])
<1> DEFINE n == Len(f)
           e == g[n + 1]
<1>1. n \in Nat /\ Len(g) = n + 1 /\ e \in S
  BY LenProperties, ElementOfSeq
<1>2. /\ Append(f, e) \in Seq(S) /\ Len(Append(f, e)) = n + 1
      /\ \A i \in 1 .. n : Append(f, e)[i] = f[i]
      /\ Append(f, e)[n + 1] = e
  BY <1>1, AppendProperties
<1>3. \A i \in 1 .. n + 1 : g[i] = Append(f, e)[i]
  <2> SUFFICES ASSUME NEW i \in 1 .. n + 1 PROVE g[i] = Append(f, e)[i]
    OBVIOUS
  <2>1. CASE i = n + 1
    BY <1>2, <2>1
  <2>2. CASE i # n + 1
    <3>1. i \in 1 .. n
      BY <1>1, <2>2
    <3> QED
      BY <1>2, <3>1
  <2> QED
    BY <2>1, <2>2
<1> HIDE DEF e, n
<1>4. g = Append(f, e)
  BY <1>1, <1>2, <1>3, SeqSame
<1> QED
  BY <1>1, <1>4 DEF e

\* A sequence without its last element.
LEMMA SeqShrunk ==
  ASSUME NEW S, NEW f \in Seq(S), NEW g \in Seq(S), Len(f) = Len(g) + 1,
         \A i \in 1 .. Len(g) : g[i] = f[i]
  PROVE  g = Front(f)
<1>1. Len(g) \in Nat /\ f # << >>
  BY LenProperties, EmptySeq
<1>2. /\ Front(f) \in Seq(S) /\ Len(Front(f)) = Len(f) - 1
      /\ \A i \in 1 .. Len(f) - 1 : Front(f)[i] = f[i]
  BY <1>1, FrontFacts
<1>3. Len(f) - 1 = Len(g)
  BY <1>1
<1> QED
  BY <1>2, <1>3, SeqSame

\* Sequences that agree but for the last element.
LEMMA SeqChanged ==
  ASSUME NEW S, NEW f \in Seq(S), NEW g \in Seq(S), f # << >>, Len(g) = Len(f),
         \A i \in 1 .. Len(f) - 1 : g[i] = f[i]
  PROVE  g = Append(Front(f), Last(g))
<1>1. Len(f) \in Nat /\ g # << >>
  BY LenProperties, EmptySeq
<1>2. /\ Front(f) \in Seq(S) /\ Len(Front(f)) = Len(f) - 1
      /\ \A i \in 1 .. Len(f) - 1 : Front(f)[i] = f[i]
  BY <1>1, FrontFacts
<1>3. Len(g) = Len(Front(f)) + 1 /\ \A i \in 1 .. Len(Front(f)) : g[i] = Front(f)[i]
  BY <1>1, <1>2
<1>4. g = Append(Front(f), g[Len(g)])
  BY <1>2, <1>3, SeqGrown
<1> QED
  BY <1>4 DEF Last

\* What comes after the first m activities does not move the functions among
\* them.
LEMMA FunctionSame ==
  ASSUME NEW s \in Seq(Activity), NEW t \in Seq(Activity), NEW m \in Nat,
         m <= Len(s), m <= Len(t), \A k \in 1 .. m : s[k] = t[k],
         NEW d \in Nat, d >= 1, d <= Among(s, m, Functs)
  PROVE  /\ FunctionAt(s, d) = FunctionAt(t, d)
         /\ FunctionAt(s, d) \in 1 .. m /\ s[FunctionAt(s, d)] \in Functs
         /\ Among(s, FunctionAt(s, d), Functs) = d
<1> DEFINE i == FunctionAt(s, d)
<1>0. Len(s) \in Nat /\ Len(t) \in Nat
  BY LenProperties
<1>1. /\ Among(s, m, Functs) <= Among(s, Len(s), Functs)
      /\ Among(s, m, Functs) \in Nat /\ Among(s, Len(s), Functs) \in Nat
  BY <1>0, AmongMore, AmongFinite
<1>2. d <= Among(s, Len(s), Functs)
  BY <1>1
<1>3. i \in 1 .. Len(s) /\ s[i] \in Functs /\ Among(s, i, Functs) = d
  <2>1. IsFunctionAt(s, FunctionAt(s, d), d)
    BY <1>2, FunctionExists
  <2> QED
    BY <2>1 DEF IsFunctionAt
<1> HIDE DEF i
<1>4. i \in 1 .. m
  <2>1. i \in Nat /\ i >= 1
    BY <1>0, <1>3
  <2>2. ~(m < i)
    BY <1>1, <1>3, <2>1, FewerBefore
  <2> QED
    BY <2>1, <2>2
<1>5. \A k \in 1 .. i : s[k] = t[k]
  BY <1>4
<1>6. Among(t, i, Functs) = d /\ t[i] \in Functs
  <2>1. i \in Nat
    BY <1>4
  <2>2. Among(s, i, Functs) = Among(t, i, Functs)
    BY <1>5, <2>1, AmongSame
  <2> QED
    BY <1>3, <1>4, <2>2
<1>7. IsFunctionAt(t, i, d)
  BY <1>0, <1>4, <1>6 DEF IsFunctionAt
<1>8. FunctionAt(t, d) = i
  BY <1>7, FunctionIs
<1> QED
  BY <1>3, <1>4, <1>8 DEF i

-----------------------------------------------------------------------------
(***************************************************************************)
(* The refinement of Outputs: the mapping as operators of the activities,  *)
(* the states, the printer and the error.                                  *)
(***************************************************************************)
DepthOf(s) == Among(s, Len(s), Functs)

PlaceOf(s, i) == 1 + Among(s, i - 1, Setters)

MessagesOf(s, S, d) ==
    IF d = DepthOf(s) THEN Last(S).messages ELSE s[FunctionAt(s, d + 1)].messages

OptionOf(s, S, d) ==
    IF d = DepthOf(s) THEN Last(S).option
    ELSE S[PlaceOf(s, FunctionAt(s, d + 1))].option

DivertedOf(p, e, d) == ~e /\ \E j \in DOMAIN Streams(p) : Streams(p)[j].level = d

RestoresOf(p, e, d) ==
    ~e /\ \E j \in DOMAIN Streams(p) : Streams(p)[j].level = d /\ Streams(p)[j].restores

ActivationOf(s, S, p, e, d) ==
    [diverted |-> DivertedOf(p, e, d),
     restores |-> RestoresOf(p, e, d),
     messages |-> MessagesOf(s, S, d),
     option   |-> OptionOf(s, S, d)]

View(s, S, p, e, n) == [i \in 1 .. n + 1 |-> ActivationOf(s, S, p, e, i - 1)]

\* An error goes up to the session, which will not be diverted.
Gone == err /\ ~Survives(0)

\* The depth of whoever goes on.
Reach == IF err THEN CatchDepth ELSE DepthOf(acts)

LEMMA ReachType == Typed => Reach \in Nat /\ Reach <= DepthOf(acts)
<1> SUFFICES ASSUME Typed PROVE Reach \in Nat /\ Reach <= DepthOf(acts)
  OBVIOUS
<1>1. acts \in Seq(Activity) /\ DepthOf(acts) \in Nat
  BY DepthIs DEF Typed, DepthOf
<1>2. CatchDepth \in Nat /\ CatchDepth <= DepthOf(acts)
  BY <1>1, CatchType DEF DepthOf
<1> QED
  BY <1>1, <1>2 DEF Reach

\* The mapping of Outfile in these terms.
LEMMA Mapping == Typed => Activations = View(acts, states, prn, Gone, Reach)
<1> SUFFICES ASSUME Typed PROVE Activations = View(acts, states, prn, Gone, Reach)
  OBVIOUS
<1>0. acts \in Seq(Activity) /\ prn \in Printer /\ depth = DepthOf(acts) /\ depth \in Nat
  BY DepthIs DEF Typed, DepthOf
<1>1. Len(acts) \in Nat /\ DOMAIN acts = 1 .. Len(acts)
      /\ \A i \in 1 .. Len(acts) : acts[i] \in Activity
  BY <1>0, LenProperties, ElementOfSeq
<1>2. ASSUME NEW d PROVE FuncAt(d) = FunctionAt(acts, d)
  <2>1. ASSUME NEW i \in DOMAIN acts
        PROVE  /\ acts[i].kind = "func" <=> acts[i] \in Functs
               /\ {k \in 1 .. i : acts[k].kind = "func"} = {k \in 1 .. i : acts[k] \in Functs}
    <3>1. \A k \in 1 .. i : acts[k] \in Activity
      BY <1>1
    <3> QED
      BY <1>1, <3>1 DEF Functs
  <2>2. \A i \in DOMAIN acts :
           (/\ acts[i].kind = "func"
            /\ Cardinality({k \in 1 .. i : acts[k].kind = "func"}) = d)
           <=> acts[i] \in Functs /\ Among(acts, i, Functs) = d
    BY <2>1 DEF Among
  <2> QED
    BY <2>2 DEF FuncAt, FunctionAt
<1>3. ASSUME NEW i \in 1 .. Len(acts) PROVE StatesBefore(i) = PlaceOf(acts, i)
  <2>1. \A k \in 1 .. i - 1 : acts[k] \in Activity
    BY <1>1
  <2>2. {k \in 1 .. i - 1 : acts[k].kind = "func" /\ acts[k].usesSet}
          = {k \in 1 .. i - 1 : acts[k] \in Setters}
    BY <2>1 DEF Setters
  <2> QED
    BY <2>2 DEF StatesBefore, PlaceOf, Among
<1>4. ASSUME NEW d \in 0 .. depth
      PROVE  /\ MessagesAt(d) = MessagesOf(acts, states, d)
             /\ OptionAt(d) = OptionOf(acts, states, d)
  <2>1. CASE d = depth
    BY <1>0, <2>1 DEF MessagesAt, OptionAt, MessagesOf, OptionOf, state
  <2>2. CASE d # depth
    <3>1. d + 1 \in Nat /\ d + 1 >= 1 /\ d + 1 <= Among(acts, Len(acts), Functs)
      BY <1>0, <2>2 DEF DepthOf
    <3>2. IsFunctionAt(acts, FunctionAt(acts, d + 1), d + 1)
      BY <1>0, <3>1, FunctionExists
    <3>3. FunctionAt(acts, d + 1) \in 1 .. Len(acts)
      BY <3>2 DEF IsFunctionAt
    <3>4. StatesBefore(FunctionAt(acts, d + 1)) = PlaceOf(acts, FunctionAt(acts, d + 1))
      BY <1>3, <3>3
    <3>5. FuncAt(d + 1) = FunctionAt(acts, d + 1)
      BY <1>2
    <3> QED
      BY <1>0, <2>2, <3>4, <3>5 DEF MessagesAt, OptionAt, MessagesOf, OptionOf
  <2> QED
    BY <2>1, <2>2
<1>5. ASSUME NEW d
      PROVE  /\ ((err => Survives(0)) /\ At(d) # {}) <=> DivertedOf(prn, Gone, d)
             /\ ((err => Survives(0)) /\ \E r \in At(d) : r.restores)
                    <=> RestoresOf(prn, Gone, d)
  <2>1. Open = {Streams(prn)[j] : j \in DOMAIN Streams(prn)}
    BY <1>0, StreamsOpen
  <2>2. /\ At(d) # {} <=> \E j \in DOMAIN Streams(prn) : Streams(prn)[j].level = d
        /\ (\E r \in At(d) : r.restores) <=>
              \E j \in DOMAIN Streams(prn) :
                  Streams(prn)[j].level = d /\ Streams(prn)[j].restores
    BY <2>1 DEF At
  <2> QED
    BY <2>2 DEF DivertedOf, RestoresOf, Gone
<1>6. ASSUME NEW d \in 0 .. depth PROVE ActivationAt(d) = ActivationOf(acts, states, prn, Gone, d)
  BY <1>4, <1>5, Zenon DEF ActivationAt, ActivationOf, DivertedOf, RestoresOf
<1>7. (IF err THEN CatchDepth ELSE depth) = Reach
  BY <1>0 DEF Reach
<1>8. \A i \in 1 .. Reach + 1 : i - 1 \in 0 .. depth
  BY <1>0, ReachType
<1>9. \A i \in 1 .. Reach + 1 :
          ActivationAt(i - 1) = ActivationOf(acts, states, prn, Gone, i - 1)
  BY <1>6, <1>8
<1> QED
  BY <1>7, <1>9 DEF Activations, View

\* The same after a step.
LEMMA MappingNext ==
  Typed' => Activations' = View(acts', states', prn', Gone', Reach')
<1>1. (Typed => Activations = View(acts, states, prn, Gone, Reach))'
  BY Mapping, PTL
<1> QED
  BY <1>1

LEMMA ReachNext == Typed' => Reach' \in Nat /\ Reach' <= DepthOf(acts')
<1>1. (Typed => Reach \in Nat /\ Reach <= DepthOf(acts))'
  BY ReachType, PTL
<1> QED
  BY <1>1

LEMMA NotGone == (~err => Gone = FALSE) /\ (~err' => Gone' = FALSE)
BY DEF Gone

-----------------------------------------------------------------------------
(***************************************************************************)
(* The records of the mapping.                                             *)
(***************************************************************************)

\* One state for each function that has one.
Shape(s, S) ==
    /\ s \in Seq(Activity) /\ S \in Seq(State)
    /\ Len(S) = 1 + Among(s, Len(s), Setters)

LEMMA ShapeFacts ==
  ASSUME NEW s, NEW S, Shape(s, S)
  PROVE  /\ Len(s) \in Nat /\ DepthOf(s) \in Nat
         /\ Len(S) \in Nat /\ Len(S) >= 1 /\ S # << >>
         /\ Last(S) = S[Len(S)] /\ Last(S) \in State
         /\ \A i \in 1 .. Len(s) : PlaceOf(s, i) \in 1 .. Len(S)
         /\ \A i \in 1 .. Len(s) : s[i] \in Setters => PlaceOf(s, i) < Len(S)
         /\ \A k \in 1 .. Len(S) : S[k] \in State
<1>1. s \in Seq(Activity) /\ S \in Seq(State) /\ Len(s) \in Nat /\ Len(S) \in Nat
  BY LenProperties DEF Shape
<1>2. Among(s, Len(s), Functs) \in Nat /\ Among(s, Len(s), Setters) \in Nat
  BY <1>1, AmongFinite
<1>3. Len(S) >= 1 /\ S # << >>
  BY <1>1, <1>2, EmptySeq DEF Shape
<1>4. Last(S) = S[Len(S)] /\ Last(S) \in State /\ \A k \in 1 .. Len(S) : S[k] \in State
  BY <1>1, <1>3, FrontFacts, ElementOfSeq DEF Last
<1>5. ASSUME NEW i \in 1 .. Len(s)
      PROVE  /\ PlaceOf(s, i) \in 1 .. Len(S)
             /\ s[i] \in Setters => PlaceOf(s, i) < Len(S)
  <2>1. i - 1 \in Nat /\ i \in Nat /\ i <= Len(s) /\ (i - 1) + 1 = i
    BY <1>1
  <2>2. Among(s, i - 1, Setters) \in Nat /\ Among(s, i, Setters) \in Nat
    BY <2>1, AmongFinite
  <2>3. Among(s, i, Setters) <= Among(s, Len(s), Setters)
    BY <1>1, <2>1, AmongMore
  <2>4. Among(s, (i - 1) + 1, Setters) =
          Among(s, i - 1, Setters) + IF s[(i - 1) + 1] \in Setters THEN 1 ELSE 0
    BY <2>1, AmongStep
  <2>5. Len(S) = 1 + Among(s, Len(s), Setters)
    BY DEF Shape
  <2>6. CASE s[i] \in Setters
    BY <1>1, <1>2, <2>1, <2>2, <2>3, <2>4, <2>5, <2>6 DEF PlaceOf
  <2>7. CASE s[i] \notin Setters
    BY <1>1, <1>2, <2>1, <2>2, <2>3, <2>4, <2>5, <2>7 DEF PlaceOf
  <2> QED
    BY <2>6, <2>7
<1> QED
  BY <1>1, <1>2, <1>3, <1>4, <1>5 DEF DepthOf

\* The function that was called at a depth.
LEMMA Callee ==
  ASSUME NEW s \in Seq(Activity), NEW d \in Nat, d < DepthOf(s)
  PROVE  /\ FunctionAt(s, d + 1) \in 1 .. Len(s)
         /\ s[FunctionAt(s, d + 1)] \in Activity
         /\ d # DepthOf(s)
<1>1. Len(s) \in Nat /\ \A i \in 1 .. Len(s) : s[i] \in Activity
  BY LenProperties, ElementOfSeq
<1>2. DepthOf(s) \in Nat
  BY <1>1, AmongFinite DEF DepthOf
<1>3. d + 1 \in Nat /\ d + 1 >= 1 /\ d + 1 <= Among(s, Len(s), Functs) /\ d # DepthOf(s)
  BY <1>2 DEF DepthOf
<1>4. IsFunctionAt(s, FunctionAt(s, d + 1), d + 1)
  BY <1>3, FunctionExists
<1>5. FunctionAt(s, d + 1) \in 1 .. Len(s)
  BY <1>4 DEF IsFunctionAt
<1> QED
  BY <1>1, <1>3, <1>5

LEMMA RecordTypes ==
  ASSUME NEW s, NEW S, Shape(s, S), NEW d \in Nat, d <= DepthOf(s)
  PROVE  MessagesOf(s, S, d) \in BOOLEAN /\ OptionOf(s, S, d) \in Options
<1>1. /\ DepthOf(s) \in Nat /\ Last(S) \in State /\ s \in Seq(Activity)
      /\ \A i \in 1 .. Len(s) : PlaceOf(s, i) \in 1 .. Len(S)
      /\ \A k \in 1 .. Len(S) : S[k] \in State
  BY ShapeFacts DEF Shape
<1>2. CASE d = DepthOf(s)
  BY <1>1, <1>2 DEF MessagesOf, OptionOf, State
<1>3. CASE d # DepthOf(s)
  <2> DEFINE i == FunctionAt(s, d + 1)
  <2>1. i \in 1 .. Len(s) /\ s[i] \in Activity
    <3>1. d < DepthOf(s)
      BY <1>1, <1>3
    <3> QED
      BY <1>1, <3>1, Callee
  <2>2. S[PlaceOf(s, i)] \in State
    BY <1>1, <2>1
  <2>3. MessagesOf(s, S, d) = s[i].messages /\ OptionOf(s, S, d) = S[PlaceOf(s, i)].option
    BY <1>3 DEF MessagesOf, OptionOf
  <2> QED
    BY <2>1, <2>2, <2>3 DEF State, Activity
<1> QED
  BY <1>2, <1>3

LEMMA ActivationType ==
  ASSUME NEW s, NEW S, Shape(s, S), NEW p, NEW e, NEW d \in Nat, d <= DepthOf(s)
  PROVE  ActivationOf(s, S, p, e, d) \in O!Activation
<1>1. MessagesOf(s, S, d) \in BOOLEAN /\ OptionOf(s, S, d) \in Options
  BY RecordTypes
<1>2. DivertedOf(p, e, d) \in BOOLEAN /\ RestoresOf(p, e, d) \in BOOLEAN
  BY DEF DivertedOf, RestoresOf
<1> QED
  BY <1>1, <1>2 DEF ActivationOf, O!Activation

LEMMA ViewType ==
  ASSUME NEW s, NEW S, Shape(s, S), NEW p, NEW e \in BOOLEAN,
         NEW r \in Nat, r <= DepthOf(s)
  PROVE  /\ View(s, S, p, e, r) \in Seq(O!Activation) /\ View(s, S, p, e, r) # << >>
         /\ Len(View(s, S, p, e, r)) = r + 1
         /\ \A i \in 1 .. r + 1 : View(s, S, p, e, r)[i] = ActivationOf(s, S, p, e, i - 1)
         /\ Last(View(s, S, p, e, r)) = ActivationOf(s, S, p, e, r)
<1> DEFINE n == r + 1
           f == View(s, S, p, e, r)
<1>1. DepthOf(s) \in Nat
  BY ShapeFacts
<1>2. n \in Nat /\ n >= 1 /\ n - 1 = r
  OBVIOUS
<1>3. f = [i \in 1 .. n |-> ActivationOf(s, S, p, e, i - 1)]
  BY DEF View
<1> HIDE DEF n, f
<1>4. \A i \in 1 .. n : f[i] = ActivationOf(s, S, p, e, i - 1)
  BY <1>3
<1>5. f = [i \in 1 .. n |-> f[i]]
  BY <1>3
<1>6. \A i \in 1 .. n : f[i] \in O!Activation
  <2> SUFFICES ASSUME NEW i \in 1 .. n PROVE f[i] \in O!Activation
    OBVIOUS
  <2>1. i - 1 \in Nat /\ i - 1 <= DepthOf(s)
    BY <1>1, <1>2
  <2> QED
    BY <1>4, <2>1, ActivationType
<1>7. f \in Seq(O!Activation) /\ Len(f) = n
  BY <1>2, <1>5, <1>6, FcnIsSeq
<1>8. f # << >>
  BY <1>2, <1>7, EmptySeq
<1>9. Last(f) = ActivationOf(s, S, p, e, n - 1)
  <2>1. n \in 1 .. n
    BY <1>2
  <2> QED
    BY <1>4, <1>7, <2>1 DEF Last
<1> QED
  BY <1>2, <1>4, <1>7, <1>8, <1>9 DEF f, n

\* What a caller finds again is where the first of the functions put it.
LEMMA LowerSame ==
  ASSUME NEW s, NEW S, Shape(s, S), NEW t, NEW T, Shape(t, T),
         NEW m \in Nat, m <= Len(s), m <= Len(t), \A k \in 1 .. m : s[k] = t[k],
         \A k \in 1 .. PlaceOf(s, m) : S[k].option = T[k].option,
         NEW d \in Nat, d < Among(s, m, Functs)
  PROVE  /\ MessagesOf(s, S, d) = MessagesOf(t, T, d)
         /\ OptionOf(s, S, d) = OptionOf(t, T, d)
<1> DEFINE i == FunctionAt(s, d + 1)
<1>1. /\ Len(s) \in Nat /\ Len(t) \in Nat /\ s \in Seq(Activity) /\ t \in Seq(Activity)
      /\ DepthOf(s) \in Nat /\ DepthOf(t) \in Nat
  BY ShapeFacts DEF Shape
<1>2. /\ Among(s, m, Functs) <= DepthOf(s) /\ Among(t, m, Functs) <= DepthOf(t)
      /\ Among(s, m, Functs) = Among(t, m, Functs) /\ Among(s, m, Functs) \in Nat
  <2>1. Among(s, m, Functs) <= DepthOf(s)
    BY <1>1, AmongMore DEF DepthOf
  <2>2. Among(t, m, Functs) <= DepthOf(t)
    BY <1>1, AmongMore DEF DepthOf
  <2>3. Among(s, m, Functs) = Among(t, m, Functs)
    BY AmongSame
  <2>4. Among(s, m, Functs) \in Nat
    BY AmongFinite
  <2> QED
    BY <2>1, <2>2, <2>3, <2>4
<1>3. d # DepthOf(s) /\ d # DepthOf(t) /\ d + 1 \in Nat /\ d + 1 >= 1
      /\ d + 1 <= Among(s, m, Functs)
  BY <1>1, <1>2
<1>4. FunctionAt(s, d + 1) = FunctionAt(t, d + 1) /\ FunctionAt(s, d + 1) \in 1 .. m
  BY <1>1, <1>3, FunctionSame
<1>5. i = FunctionAt(t, d + 1) /\ i \in 1 .. m
  BY <1>4
<1>6. /\ MessagesOf(s, S, d) = s[i].messages /\ MessagesOf(t, T, d) = t[i].messages
      /\ OptionOf(s, S, d) = S[PlaceOf(s, i)].option
      /\ OptionOf(t, T, d) = T[PlaceOf(t, i)].option
  BY <1>3, <1>4 DEF MessagesOf, OptionOf
<1> HIDE DEF i
<1>7. PlaceOf(s, i) = PlaceOf(t, i)
  <2>1. i - 1 \in Nat /\ \A k \in 1 .. i - 1 : s[k] = t[k]
    BY <1>5
  <2> QED
    BY <2>1, AmongSame DEF PlaceOf
<1>8. PlaceOf(s, i) \in 1 .. PlaceOf(s, m)
  <2>1. i - 1 \in Nat /\ m - 1 \in Nat /\ i - 1 <= m - 1
    BY <1>5
  <2>2. /\ Among(s, i - 1, Setters) <= Among(s, m - 1, Setters)
        /\ Among(s, i - 1, Setters) \in Nat /\ Among(s, m - 1, Setters) \in Nat
    BY <2>1, AmongMore, AmongFinite
  <2> QED
    BY <2>2 DEF PlaceOf
<1> QED
  BY <1>5, <1>6, <1>7, <1>8

-----------------------------------------------------------------------------
(***************************************************************************)
(* Steps of the mapping.                                                   *)
(***************************************************************************)

\* What a function with a state of its own has put aside are the messages of
\* the state below.
SavedIn(s, S) ==
    \A i \in 1 .. Len(s) : s[i] \in Setters => S[PlaceOf(s, i)].messages = s[i].messages

\* vparms is what the redirection in force is to restore; and nothing that is
\* still there for whoever catches an error.
Recorded ==
    /\ ~err /\ vparms = "on" /\ Len(Streams(prn)) > 0 =>
          Streams(prn)[Len(Streams(prn))].restores
    /\ err /\ Survives(0)
       /\ (\E j \in DOMAIN Streams(prn) : Streams(prn)[j].level <= CatchDepth) =>
          vparms # "on"

Extra == SavedIn(acts, states) /\ Recorded

RInv == IInv /\ Extra

\* The record of a depth, before and after a step.
Now(d) == ActivationOf(acts, states, prn, Gone, d)

Then(d) == ActivationOf(acts', states', prn', Gone', d)

SameSettings(d) ==
    /\ MessagesOf(acts', states', d) = MessagesOf(acts, states, d)
    /\ OptionOf(acts', states', d) = OptionOf(acts, states, d)

SameStreams(d) ==
    /\ DivertedOf(prn', Gone', d) <=> DivertedOf(prn, Gone, d)
    /\ RestoresOf(prn', Gone', d) <=> RestoresOf(prn, Gone, d)

LEMMA Same ==
  ASSUME NEW d, SameSettings(d), SameStreams(d)
  PROVE  Then(d) = Now(d)
<1>1. /\ DivertedOf(prn', Gone', d) = DivertedOf(prn, Gone, d)
      /\ RestoresOf(prn', Gone', d) = RestoresOf(prn, Gone, d)
  BY NotGone DEF SameStreams, DivertedOf, RestoresOf
<1> QED
  BY <1>1 DEF SameSettings, Then, Now, ActivationOf

LEMMA TypedShape == /\ Typed => Shape(acts, states)
                    /\ Typed' => Shape(acts', states')
  BY DEF Typed, Shape

LEMMA ViewNow ==
  ASSUME Typed
  PROVE  /\ Activations \in Seq(O!Activation) /\ Activations # << >>
         /\ Len(Activations) = Reach + 1 /\ Reach \in Nat
         /\ \A i \in 1 .. Reach + 1 : Activations[i] = Now(i - 1)
         /\ Last(Activations) = Now(Reach)
<1>1. /\ Shape(acts, states) /\ Gone \in BOOLEAN
      /\ Activations = View(acts, states, prn, Gone, Reach)
      /\ Reach \in Nat /\ Reach <= DepthOf(acts)
  BY TypedShape, Mapping, ReachType DEF Typed, Gone
<1> QED
  BY <1>1, ViewType DEF Now

LEMMA ViewThen ==
  ASSUME Typed'
  PROVE  /\ Activations' \in Seq(O!Activation) /\ Activations' # << >>
         /\ Len(Activations') = Reach' + 1 /\ Reach' \in Nat
         /\ \A i \in 1 .. Reach' + 1 : Activations'[i] = Then(i - 1)
         /\ Last(Activations') = Then(Reach')
<1>1. /\ Shape(acts', states') /\ Gone' \in BOOLEAN
      /\ Reach' \in Nat /\ Reach' <= DepthOf(acts')
  BY TypedShape, ReachNext DEF Typed, Gone
<1>2. PICK r \in Nat, e \in BOOLEAN : r = Reach' /\ e = Gone'
  BY <1>1
<1>3. Activations' = View(acts', states', prn', e, r)
  BY <1>2, MappingNext
<1>4. \A d : Then(d) = ActivationOf(acts', states', prn', e, d)
  BY <1>2 DEF Then
<1>5. /\ Activations' \in Seq(O!Activation) /\ Activations' # << >>
      /\ Len(Activations') = r + 1
      /\ \A i \in 1 .. r + 1 :
            Activations'[i] = ActivationOf(acts', states', prn', e, i - 1)
      /\ Last(Activations') = ActivationOf(acts', states', prn', e, r)
  <2>1. Shape(acts', states') /\ r \in Nat /\ r <= DepthOf(acts') /\ e \in BOOLEAN
    BY <1>1, <1>2
  <2> DEFINE V == View(acts', states', prn', e, r)
  <2>2. /\ V \in Seq(O!Activation) /\ V # << >> /\ Len(V) = r + 1
        /\ \A i \in 1 .. r + 1 : V[i] = ActivationOf(acts', states', prn', e, i - 1)
        /\ Last(V) = ActivationOf(acts', states', prn', e, r)
    BY <2>1, ViewType
  <2> HIDE DEF V
  <2>3. Activations' = V
    BY <1>3 DEF V
  <2> QED
    BY <2>2, <2>3
<1> QED
  BY <1>2, <1>4, <1>5

\* The operators of SequencesExt are the same in Outputs.
LEMMA SequenceOps == ASSUME NEW s PROVE O!Last(s) = Last(s) /\ O!Front(s) = Front(s)
  BY DEF O!Last, O!Front, Last, Front

\* Only the record on top changes.
LEMMA UpdateStep ==
  ASSUME Typed, Typed', ~err, ~err', NEW D \in Nat, DepthOf(acts) = D,
         DepthOf(acts') = D, \A d \in Nat : d < D => Then(d) = Now(d)
  PROVE  /\ O!Top = Now(D) /\ O!Update(Then(D))
         /\ Then(D) = Now(D) => Activations' = Activations
<1>1. Reach = D /\ Reach' = D
  BY DEF Reach, DepthOf
<1> DEFINE F == Activations
           H == Activations'
<1>2. /\ F \in Seq(O!Activation) /\ F # << >> /\ Len(F) = D + 1
      /\ \A i \in 1 .. D + 1 : F[i] = Now(i - 1)
      /\ Last(F) = Now(D)
  BY <1>1, ViewNow
<1>3. /\ H \in Seq(O!Activation) /\ Len(H) = D + 1
      /\ \A i \in 1 .. D + 1 : H[i] = Then(i - 1)
      /\ Last(H) = Then(D)
  BY <1>1, ViewThen
<1> HIDE DEF F, H
<1>4. \A i \in 1 .. D : H[i] = F[i]
  <2> SUFFICES ASSUME NEW i \in 1 .. D PROVE H[i] = F[i]
    OBVIOUS
  <2>1. i - 1 \in Nat /\ i - 1 < D /\ i \in 1 .. D + 1
    OBVIOUS
  <2> QED
    BY <1>2, <1>3, <2>1
<1>5. Len(H) = Len(F) /\ \A i \in 1 .. Len(F) - 1 : H[i] = F[i]
  BY <1>2, <1>3, <1>4
<1>6. H = Append(Front(F), Last(H))
  BY <1>2, <1>3, <1>5, SeqChanged
<1>7. ASSUME Then(D) = Now(D) PROVE H = F
  <2>1. F[D + 1] = Now(D) /\ H[D + 1] = Then(D)
    <3>1. D + 1 \in 1 .. D + 1 /\ (D + 1) - 1 = D
      OBVIOUS
    <3> QED
      BY <1>2, <1>3, <3>1
  <2>2. \A i \in 1 .. D + 1 : H[i] = F[i]
    <3> SUFFICES ASSUME NEW i \in 1 .. D + 1 PROVE H[i] = F[i]
      OBVIOUS
    <3>1. i \in 1 .. D \/ i = D + 1
      OBVIOUS
    <3> QED
      BY <1>4, <1>7, <2>1, <3>1
  <2> QED
    BY <1>2, <1>3, <2>2, SeqSame
<1>8. H = Append(Front(F), Then(D))
  BY <1>3, <1>6
<1>9. O!Top = Now(D)
  BY <1>2, SequenceOps DEF F, O!Top
<1>10. O!Update(Then(D))
  BY <1>8, SequenceOps DEF F, H, O!Update
<1>11. Then(D) = Now(D) => Activations' = Activations
  BY <1>7 DEF F, H
<1> QED
  BY <1>9, <1>10, <1>11

\* There is one record more.
LEMMA CallStep ==
  ASSUME Typed, Typed', ~err, ~err', NEW D \in Nat, DepthOf(acts) = D,
         DepthOf(acts') = D + 1, \A d \in Nat : d <= D => Then(d) = Now(d)
  PROVE  O!Top = Now(D) /\ Activations' = Append(Activations, Then(D + 1))
<1>1. Reach = D /\ Reach' = D + 1
  BY DEF Reach, DepthOf
<1> DEFINE F == Activations
           H == Activations'
<1>2. /\ F \in Seq(O!Activation) /\ Len(F) = D + 1
      /\ \A i \in 1 .. D + 1 : F[i] = Now(i - 1)
      /\ Last(F) = Now(D)
  BY <1>1, ViewNow
<1>3. /\ H \in Seq(O!Activation) /\ Len(H) = D + 2
      /\ \A i \in 1 .. D + 2 : H[i] = Then(i - 1)
      /\ Last(H) = Then(D + 1)
  BY <1>1, ViewThen
<1> HIDE DEF F, H
<1>4. \A i \in 1 .. D + 1 : H[i] = F[i]
  <2> SUFFICES ASSUME NEW i \in 1 .. D + 1 PROVE H[i] = F[i]
    OBVIOUS
  <2>1. i - 1 \in Nat /\ i - 1 <= D /\ i \in 1 .. D + 2
    OBVIOUS
  <2> QED
    BY <1>2, <1>3, <2>1
<1>5. Len(H) = Len(F) + 1 /\ \A i \in 1 .. Len(F) : H[i] = F[i]
  BY <1>2, <1>3, <1>4
<1>6. H = Append(F, H[Len(H)])
  BY <1>2, <1>3, <1>5, SeqGrown
<1>7. H = Append(F, Then(D + 1))
  BY <1>3, <1>6 DEF Last
<1>8. O!Top = Now(D)
  BY <1>2, SequenceOps DEF F, O!Top
<1>9. Activations' = Append(Activations, Then(D + 1))
  BY <1>7 DEF F, H
<1> QED
  BY <1>8, <1>9

\* There is one record less.
LEMMA ReturnStep ==
  ASSUME Typed, Typed', ~err, ~err', NEW D \in Nat, DepthOf(acts) = D + 1,
         DepthOf(acts') = D, \A d \in Nat : d <= D => Then(d) = Now(d)
  PROVE  O!Top = Now(D + 1) /\ Len(Activations) > 1 /\ Activations' = Front(Activations)
<1>1. Reach = D + 1 /\ Reach' = D
  BY DEF Reach, DepthOf
<1> DEFINE F == Activations
           H == Activations'
<1>2. /\ F \in Seq(O!Activation) /\ Len(F) = D + 2
      /\ \A i \in 1 .. D + 2 : F[i] = Now(i - 1)
      /\ Last(F) = Now(D + 1)
  BY <1>1, ViewNow
<1>3. /\ H \in Seq(O!Activation) /\ Len(H) = D + 1
      /\ \A i \in 1 .. D + 1 : H[i] = Then(i - 1)
  BY <1>1, ViewThen
<1> HIDE DEF F, H
<1>4. \A i \in 1 .. D + 1 : H[i] = F[i]
  <2> SUFFICES ASSUME NEW i \in 1 .. D + 1 PROVE H[i] = F[i]
    OBVIOUS
  <2>1. i - 1 \in Nat /\ i - 1 <= D /\ i \in 1 .. D + 2
    OBVIOUS
  <2> QED
    BY <1>2, <1>3, <2>1
<1>5. Len(F) = Len(H) + 1 /\ \A i \in 1 .. Len(H) : H[i] = F[i]
  BY <1>2, <1>3, <1>4
<1>6. H = Front(F)
  BY <1>2, <1>3, <1>5, SeqShrunk
<1>7. Len(F) > 1
  BY <1>2
<1>8. O!Top = Now(D + 1)
  BY <1>2, SequenceOps DEF F, O!Top
<1>9. Len(Activations) > 1 /\ Activations' = Front(Activations)
  BY <1>6, <1>7 DEF F, H
<1> QED
  BY <1>8, <1>9

\* The same records are there.
LEMMA SameView ==
  ASSUME Typed, Typed', NEW c \in Nat, Reach = c, Reach' = c,
         \A d \in Nat : d <= c => Then(d) = Now(d)
  PROVE  Activations' = Activations
<1> DEFINE F == Activations
           H == Activations'
<1>1. F \in Seq(O!Activation) /\ Len(F) = c + 1 /\ \A i \in 1 .. c + 1 : F[i] = Now(i - 1)
  BY ViewNow
<1>2. H \in Seq(O!Activation) /\ Len(H) = c + 1 /\ \A i \in 1 .. c + 1 : H[i] = Then(i - 1)
  BY ViewThen
<1> HIDE DEF F, H
<1>3. \A i \in 1 .. c + 1 : H[i] = F[i]
  <2> SUFFICES ASSUME NEW i \in 1 .. c + 1 PROVE H[i] = F[i]
    OBVIOUS
  <2>1. i - 1 \in Nat /\ i - 1 <= c
    OBVIOUS
  <2> QED
    BY <1>1, <1>2, <2>1
<1>4. H = F
  BY <1>1, <1>2, <1>3, SeqSame
<1> QED
  BY <1>4 DEF F, H

\* The first of them are left.
LEMMA FirstOnes ==
  ASSUME Typed, Typed', NEW c \in Nat, NEW D \in Nat, c < D, Reach = D, Reach' = c,
         \A d \in Nat : d <= c => Then(d) = Now(d)
  PROVE  /\ c + 1 \in 1 .. Len(Activations) - 1
         /\ Activations' = SubSeq(Activations, 1, c + 1)
<1> DEFINE F == Activations
           H == Activations'
<1>1. F \in Seq(O!Activation) /\ Len(F) = D + 1 /\ \A i \in 1 .. D + 1 : F[i] = Now(i - 1)
  BY ViewNow
<1>2. H \in Seq(O!Activation) /\ Len(H) = c + 1 /\ \A i \in 1 .. c + 1 : H[i] = Then(i - 1)
  BY ViewThen
<1> HIDE DEF F, H
<1>3. \A i \in 1 .. c + 1 : H[i] = F[i]
  <2> SUFFICES ASSUME NEW i \in 1 .. c + 1 PROVE H[i] = F[i]
    OBVIOUS
  <2>1. i - 1 \in Nat /\ i - 1 <= c /\ i \in 1 .. D + 1
    OBVIOUS
  <2> QED
    BY <1>1, <1>2, <2>1
<1> DEFINE G == SubSeq(F, 1, c + 1)
<1>4. G \in Seq(O!Activation) /\ Len(G) = c + 1 /\ \A i \in 1 .. c + 1 : G[i] = F[i]
  <2>1. \A i \in 1 .. c + 1 : F[i] \in O!Activation
    BY <1>1, ElementOfSeq
  <2>2. /\ G \in Seq(O!Activation)
        /\ Len(G) = IF 1 <= c + 1 THEN c + 1 - 1 + 1 ELSE 0
        /\ \A i \in 1 .. c + 1 - 1 + 1 : G[i] = F[1 + i - 1]
    BY <2>1, SubSeqProperties
  <2> HIDE DEF G
  <2> QED
    BY <2>2
<1> HIDE DEF G
<1>5. H = G
  BY <1>2, <1>3, <1>4, SeqSame
<1>6. c + 1 \in 1 .. Len(F) - 1
  BY <1>1
<1> QED
  BY <1>5, <1>6 DEF F, G, H

\* One record is left: an error is on its way, or has come to an end.
LEMMA ResetStep ==
  ASSUME Typed', Reach' = 0
  PROVE  Activations' = << Then(0) >>
<1> DEFINE H == Activations'
<1>2. H \in Seq(O!Activation) /\ Len(H) = 1 /\ H[1] = Then(0)
  BY ViewThen
<1> HIDE DEF H
<1>3. H[1] \in O!Activation
  BY <1>2, ElementOfSeq
<1>4. << H[1] >> \in Seq(O!Activation) /\ Len(<< H[1] >>) = 1 /\ << H[1] >>[1] = H[1]
  BY <1>3
<1>5. \A i \in 1 .. 1 : H[i] = << H[1] >>[i]
  BY <1>4
<1>6. H = << H[1] >>
  BY <1>2, <1>4, <1>5, SeqSame
<1> QED
  BY <1>2, <1>6 DEF H

-----------------------------------------------------------------------------
(***************************************************************************)
(* What the actions do to the records.                                     *)
(***************************************************************************)

\* Of the states only the one in use changes.
OnlyTop ==
    /\ Len(states') = Len(states)
    /\ \A k \in 1 .. Len(states) - 1 : states'[k] = states[k]

LEMMA SetStateTop ==
  ASSUME Typed, NEW s \in State, SetState(s)
  PROVE  OnlyTop /\ Last(states') = s
<1>1. states \in Seq(State) /\ states # << >>
  BY StateType DEF Typed
<1>2. Len(states) \in Nat /\ Len(states) >= 1
  BY StateType
<1>3. /\ Front(states) \in Seq(State) /\ Len(Front(states)) = Len(states) - 1
      /\ \A i \in 1 .. Len(states) - 1 : Front(states)[i] = states[i]
  BY <1>1, FrontFacts
<1>4. /\ Len(Append(Front(states), s)) = Len(Front(states)) + 1
      /\ \A i \in 1 .. Len(Front(states)) : Append(Front(states), s)[i] = Front(states)[i]
      /\ Append(Front(states), s)[Len(Front(states)) + 1] = s
  BY <1>3, AppendProperties
<1>5. states' = Append(Front(states), s)
  BY DEF SetState
<1>6. Len(states') = Len(states)
  BY <1>2, <1>3, <1>4, <1>5
<1>7. \A k \in 1 .. Len(states) - 1 : states'[k] = states[k]
  BY <1>3, <1>4, <1>5
<1>8. Last(states') = s
  BY <1>2, <1>3, <1>4, <1>5, <1>6 DEF Last
<1> QED
  BY <1>6, <1>7, <1>8 DEF OnlyTop

\* What is put aside stays below the activities that are changed.
LEMMA SavedSame ==
  ASSUME NEW s, NEW S, Shape(s, S), SavedIn(s, S), NEW t, NEW T, Shape(t, T),
         NEW m \in Nat, m <= Len(s), m <= Len(t), \A k \in 1 .. m : s[k] = t[k],
         \A k \in 1 .. Among(s, m, Setters) : T[k].messages = S[k].messages,
         \A i \in m + 1 .. Len(t) :
            t[i] \in Setters => T[PlaceOf(t, i)].messages = t[i].messages
  PROVE  SavedIn(t, T)
<1> SUFFICES ASSUME NEW i \in 1 .. Len(t), t[i] \in Setters
             PROVE  T[PlaceOf(t, i)].messages = t[i].messages
  BY DEF SavedIn
<1>1. Len(s) \in Nat /\ Len(t) \in Nat
  BY ShapeFacts
<1>2. CASE i \in m + 1 .. Len(t)
  BY <1>2
<1>3. CASE i \notin m + 1 .. Len(t)
  <2>1. i \in 1 .. m /\ i \in 1 .. Len(s) /\ s[i] = t[i] /\ i \in Nat /\ i - 1 \in Nat
        /\ (i - 1) + 1 = i
    BY <1>1, <1>3
  <2>2. PlaceOf(s, i) = PlaceOf(t, i)
    <3>1. \A k \in 1 .. i - 1 : k \in 1 .. m
      BY <2>1
    <3>2. \A k \in 1 .. i - 1 : s[k] = t[k]
      BY <3>1
    <3> QED
      BY <2>1, <3>2, AmongSame DEF PlaceOf
  <2>3. PlaceOf(s, i) \in 1 .. Among(s, m, Setters)
    <3>1. Among(s, (i - 1) + 1, Setters) =
            Among(s, i - 1, Setters) + IF s[(i - 1) + 1] \in Setters THEN 1 ELSE 0
      BY <2>1, AmongStep
    <3>2. Among(s, i, Setters) <= Among(s, m, Setters)
      BY <2>1, AmongMore
    <3>3. /\ Among(s, i - 1, Setters) \in Nat /\ Among(s, i, Setters) \in Nat
          /\ Among(s, m, Setters) \in Nat
      BY <2>1, AmongFinite
    <3>4. Among(s, i, Setters) = Among(s, i - 1, Setters) + 1
      BY <2>1, <3>1
    <3> QED
      BY <3>2, <3>3, <3>4 DEF PlaceOf
  <2>4. S[PlaceOf(s, i)].messages = s[i].messages
    BY <2>1 DEF SavedIn
  <2>5. T[PlaceOf(s, i)].messages = S[PlaceOf(s, i)].messages
    BY <2>3
  <2> QED
    BY <2>1, <2>2, <2>4, <2>5
<1> QED
  BY <1>2, <1>3

\* The record on top is that of the state in use.
LEMMA TopRecord ==
  ASSUME NEW D
  PROVE  /\ D = DepthOf(acts) => /\ MessagesOf(acts, states, D) = state.messages
                                 /\ OptionOf(acts, states, D) = state.option
         /\ D = DepthOf(acts') => /\ MessagesOf(acts', states', D) = Last(states').messages
                                  /\ OptionOf(acts', states', D) = Last(states').option
  BY DEF MessagesOf, OptionOf, state

\* The activities from the m-th on come or go: no functions.
Blockwise(m) ==
    /\ m \in Nat /\ m <= Len(acts) /\ m <= Len(acts')
    /\ \A k \in 1 .. m : acts[k] = acts'[k]
    /\ Among(acts, m, Functs) = DepthOf(acts)
    /\ DepthOf(acts') = DepthOf(acts)
    /\ \A i \in m + 1 .. Len(acts') : acts'[i] \notin Setters

LEMMA BlockSettings ==
  ASSUME Typed, Typed', SavedIn(acts, states), NEW m, Blockwise(m),
         OnlyTop, Last(states').option = state.option
  PROVE  /\ SavedIn(acts', states')
         /\ \A d \in Nat : d < DepthOf(acts) => SameSettings(d)
<1>1. Shape(acts, states) /\ Shape(acts', states')
  BY TypedShape
<1>2. /\ Len(states) \in Nat /\ Len(states) >= 1 /\ Last(states) = states[Len(states)]
      /\ Last(states') = states'[Len(states')]
      /\ \A i \in 1 .. Len(acts) : PlaceOf(acts, i) \in 1 .. Len(states)
      /\ Len(acts) \in Nat
  BY <1>1, ShapeFacts
<1>3. /\ m \in Nat /\ m <= Len(acts) /\ m <= Len(acts')
      /\ \A k \in 1 .. m : acts[k] = acts'[k]
      /\ Among(acts, m, Functs) = DepthOf(acts)
  BY DEF Blockwise
<1>4. \A k \in 1 .. Among(acts, m, Setters) : states'[k].messages = states[k].messages
  <2>1. Among(acts, m, Setters) <= Among(acts, Len(acts), Setters)
    BY <1>2, <1>3, AmongMore
  <2>2. Len(states) = 1 + Among(acts, Len(acts), Setters)
    BY <1>1 DEF Shape
  <2>3. Among(acts, m, Setters) \in Nat /\ Among(acts, Len(acts), Setters) \in Nat
    BY <1>2, <1>3, AmongFinite
  <2>4. \A k \in 1 .. Among(acts, m, Setters) : k \in 1 .. Len(states) - 1
    BY <2>1, <2>2, <2>3
  <2> QED
    BY <2>4 DEF OnlyTop
<1>5. SavedIn(acts', states')
  <2>1. \A i \in m + 1 .. Len(acts') : acts'[i] \in Setters =>
            states'[PlaceOf(acts', i)].messages = acts'[i].messages
    BY DEF Blockwise
  <2> QED
    BY <1>1, <1>3, <1>4, <2>1, SavedSame
<1>6. \A k \in 1 .. Len(states) : states[k].option = states'[k].option
  <2> SUFFICES ASSUME NEW k \in 1 .. Len(states)
               PROVE  states[k].option = states'[k].option
    OBVIOUS
  <2>1. CASE k = Len(states)
    BY <1>2, <2>1 DEF OnlyTop, state
  <2>2. CASE k # Len(states)
    <3>1. k \in 1 .. Len(states) - 1
      BY <1>2, <2>2
    <3> QED
      BY <3>1 DEF OnlyTop
  <2> QED
    BY <2>1, <2>2
<1>7. ASSUME NEW d \in Nat, d < DepthOf(acts) PROVE SameSettings(d)
  <2>1. m # 0
    <3>1. Among(acts, 0, Functs) = 0
      BY AmongNone
    <3> QED
      BY <1>3, <1>7, <3>1
  <2>2. m \in 1 .. Len(acts)
    BY <1>3, <2>1
  <2>3. PlaceOf(acts, m) \in 1 .. Len(states)
    BY <1>2, <2>2
  <2>4. \A k \in 1 .. PlaceOf(acts, m) : states[k].option = states'[k].option
    BY <1>2, <1>6, <2>3
  <2>5. d < Among(acts, m, Functs)
    BY <1>3, <1>7
  <2>6. /\ MessagesOf(acts, states, d) = MessagesOf(acts', states', d)
        /\ OptionOf(acts, states, d) = OptionOf(acts', states', d)
    BY <1>1, <1>3, <2>4, <2>5, LowerSame
  <2> QED
    BY <2>6 DEF SameSettings
<1> QED
  BY <1>5, <1>7

\* Where only settings change the step is one of "set".
LEMMA SetOutcome ==
  ASSUME Typed, Typed', ~err, ~err', prn' = prn, DepthOf(acts') = DepthOf(acts),
         \A d \in Nat : d < DepthOf(acts) => SameSettings(d)
  PROVE  \E m \in BOOLEAN, o \in Options : O!Set(m, o)
<1> DEFINE D == DepthOf(acts)
           m == MessagesOf(acts', states', D)
           o == OptionOf(acts', states', D)
<1>1. D \in Nat /\ Shape(acts', states')
  BY TypedShape, ShapeFacts
<1>2. \A d : SameStreams(d)
  BY NotGone DEF SameStreams, DivertedOf, RestoresOf
<1>3. \A d \in Nat : d < D => Then(d) = Now(d)
  BY <1>2, Same
<1>4. m \in BOOLEAN /\ o \in Options
  BY <1>1, RecordTypes
<1>5. Then(D) = [Now(D) EXCEPT !.messages = m, !.option = o]
  <2>1. /\ DivertedOf(prn', Gone', D) = DivertedOf(prn, Gone, D)
        /\ RestoresOf(prn', Gone', D) = RestoresOf(prn, Gone, D)
    BY <1>2, NotGone DEF SameStreams, DivertedOf, RestoresOf
  <2> DEFINE a == DivertedOf(prn, Gone, D)
             b == RestoresOf(prn, Gone, D)
             x == MessagesOf(acts, states, D)
             y == OptionOf(acts, states, D)
             A(k, l) == [diverted |-> a, restores |-> b, messages |-> k, option |-> l]
  <2>2. Now(D) = A(x, y)
    BY DEF Now, ActivationOf
  <2>3. Then(D) = A(m, o)
    BY <2>1 DEF Then, ActivationOf
  <2> HIDE DEF D, m, o, a, b, x, y
  <2>4. [A(x, y) EXCEPT !.messages = m] = A(m, y)
    OBVIOUS
  <2>5. [A(m, y) EXCEPT !.option = o] = A(m, o)
    OBVIOUS
  <2> HIDE DEF A
  <2> QED
    BY <2>2, <2>3, <2>4, <2>5
<1> HIDE DEF D, m, o
<1>6. O!Top = Now(D) /\ O!Update(Then(D))
  <2>1. DepthOf(acts) = D /\ DepthOf(acts') = D
    BY DEF D
  <2> QED
    BY <1>1, <1>3, <2>1, UpdateStep
<1>7. O!Set(m, o)
  BY <1>5, <1>6 DEF O!Set
<1> QED
  BY <1>4, <1>7

\* Activities that stay as they are.
LEMMA SameActivities ==
  ASSUME Typed, acts' = acts
  PROVE  Blockwise(Len(acts)) /\ DepthOf(acts') = DepthOf(acts)
<1>1. Len(acts) \in Nat
  BY LenProperties DEF Typed
<1>2. \A i \in Len(acts) + 1 .. Len(acts') : acts'[i] \notin Setters
  BY <1>1
<1> QED
  BY <1>1, <1>2 DEF Blockwise, DepthOf

\* "set": the state is that of the function on top, or its option stays.
LEMMA SetRefines ==
  ASSUME RInv, IInv', "unset" \notin Faults,
         NEW m \in BOOLEAN, NEW o \in Options, Set(m, o)
  PROVE  O!Next /\ Extra'
<1> DEFINE s == [messages |-> m, option |-> o]
           D == DepthOf(acts)
<1>1. /\ Typed /\ Typed' /\ SavedIn(acts, states) /\ Recorded
      /\ ~err /\ ~err' /\ acts' = acts /\ prn' = prn /\ vparms' = vparms
      /\ s \in State /\ SetState(s) /\ s.option = o
      /\ (o # state.option => UsesSet)
  BY DEF RInv, IInv, Extra, Set, Active, State
<1> HIDE DEF s
<1>2. OnlyTop /\ Last(states') = s
  BY <1>1, SetStateTop
<1>3. Shape(acts, states) /\ Shape(acts', states')
  BY <1>1, TypedShape
<1>4. /\ Len(acts) \in Nat /\ Len(states) \in Nat /\ D \in Nat /\ acts \in Seq(Activity)
      /\ \A i \in 1 .. Len(acts) : acts[i] \in Setters => PlaceOf(acts, i) < Len(states)
      /\ \A i \in 1 .. Len(acts) : PlaceOf(acts, i) \in 1 .. Len(states)
  BY <1>3, ShapeFacts DEF Shape
<1>5. SavedIn(acts', states')
  <2>1. Among(acts, Len(acts), Setters) = Len(states) - 1
    <3>1. Among(acts, Len(acts), Setters) \in Nat
      BY <1>4, AmongFinite
    <3> QED
      BY <1>3, <1>4, <3>1 DEF Shape
  <2>2. \A k \in 1 .. Among(acts, Len(acts), Setters) :
            states'[k].messages = states[k].messages
    BY <1>2, <2>1 DEF OnlyTop
  <2>3. \A i \in Len(acts) + 1 .. Len(acts') : acts'[i] \in Setters =>
            states'[PlaceOf(acts', i)].messages = acts'[i].messages
    BY <1>1, <1>4
  <2> QED
    BY <1>1, <1>3, <1>4, <2>2, <2>3, SavedSame
<1>6. \A d \in Nat : d < D => SameSettings(d)
  <2>1. CASE o = state.option
    <3>1. Last(states').option = state.option
      BY <1>1, <1>2, <2>1
    <3> QED
      BY <1>1, <1>2, <3>1, BlockSettings, SameActivities
  <2>2. CASE o # state.option
    <3> SUFFICES ASSUME NEW d \in Nat, d < D PROVE SameSettings(d)
      OBVIOUS
    <3> DEFINE j == FunctionAt(acts, D)
    <3>1. IsFunctionAt(acts, FunctionAt(acts, D), D)
      <4>1. D >= 1 /\ D <= Among(acts, Len(acts), Functs)
        BY <1>4 DEF DepthOf
      <4> QED
        BY <1>4, <4>1, FunctionExists
    <3>2. j \in 1 .. Len(acts) /\ acts[j] \in Functs /\ Among(acts, j, Functs) = D
      BY <3>1 DEF IsFunctionAt
    <3> HIDE DEF j
    <3>3. \A i \in j + 1 .. Len(acts) : acts[i].kind # "func"
      <4> SUFFICES ASSUME NEW i \in j + 1 .. Len(acts), acts[i].kind = "func"
                   PROVE  FALSE
        OBVIOUS
      <4>1. i \in Nat /\ j \in Nat /\ j < i /\ i <= Len(acts) /\ i \in 1 .. Len(acts)
        BY <1>4, <3>2
      <4>2. acts[i] \in Functs
        <5>1. acts[i] \in Activity
          BY <1>4, <4>1, ElementOfSeq
        <5> QED
          BY <5>1 DEF Functs
      <4>3. Among(acts, j, Functs) < Among(acts, i, Functs)
        BY <4>1, <4>2, FewerBefore
      <4>4. Among(acts, i, Functs) <= D
        BY <1>4, <4>1, AmongMore DEF DepthOf
      <4>5. Among(acts, i, Functs) \in Nat
        BY <4>1, AmongFinite
      <4> QED
        BY <1>4, <3>2, <4>3, <4>4, <4>5
    <3>4. acts[j] \in Setters
      <4>1. DOMAIN acts = 1 .. Len(acts)
        BY <1>4, LenProperties
      <4>2. acts[j].usesSet
        BY <1>1, <2>2, <3>2, <3>3, <4>1 DEF UsesSet, Functs
      <4> QED
        BY <3>2, <4>2 DEF Functs, Setters
    <3>5. PlaceOf(acts, j) < Len(states) /\ PlaceOf(acts, j) \in 1 .. Len(states)
      BY <1>4, <3>2, <3>4
    <3>6. \A k \in 1 .. PlaceOf(acts, j) : states[k].option = states'[k].option
      <4>1. \A k \in 1 .. PlaceOf(acts, j) : k \in 1 .. Len(states) - 1
        BY <1>4, <3>5
      <4> QED
        BY <1>2, <4>1 DEF OnlyTop
    <3>7. j \in Nat /\ j <= Len(acts) /\ j <= Len(acts')
          /\ \A k \in 1 .. j : acts[k] = acts'[k]
      BY <1>1, <1>4, <3>2
    <3>8. d < Among(acts, j, Functs)
      BY <3>2
    <3>9. /\ MessagesOf(acts, states, d) = MessagesOf(acts', states', d)
          /\ OptionOf(acts, states, d) = OptionOf(acts', states', d)
      BY <1>3, <3>6, <3>7, <3>8, LowerSame
    <3> QED
      BY <3>9 DEF SameSettings
  <2> QED
    BY <2>1, <2>2
<1>7. \E k \in BOOLEAN, l \in Options : O!Set(k, l)
  <2>1. DepthOf(acts') = DepthOf(acts)
    BY <1>1
  <2> QED
    BY <1>1, <1>6, <2>1, SetOutcome
<1>8. Recorded'
  BY <1>1 DEF Recorded
<1> QED
  BY <1>5, <1>7, <1>8 DEF O!Next, Extra

\* Loops and scripts begin: the step is one of "set".
LEMMA BlockRefines ==
  ASSUME RInv, IInv', NEW b \in BOOLEAN, StartLoop(b) \/ Run(b)
  PROVE  O!Next /\ Extra'
<1>1. /\ Typed /\ Typed' /\ SavedIn(acts, states) /\ Recorded
      /\ \E kind \in {"loop", "run"}, uses \in BOOLEAN : Push(kind, uses, FALSE)
      /\ \E m \in BOOLEAN : SetMessages(m)
  <2>1. (state.messages \/ b) \in BOOLEAN /\ (state.messages /\ ~b) \in BOOLEAN
    OBVIOUS
  <2> QED
    BY <2>1 DEF RInv, Extra, IInv, StartLoop, Run
<1>2. PICK kind \in {"loop", "run"}, uses \in BOOLEAN : Push(kind, uses, FALSE)
  BY <1>1
<1>3. PICK m \in BOOLEAN : SetMessages(m)
  BY <1>1
<1> DEFINE e == [kind |-> kind, usesSet |-> uses, caught |-> FALSE,
                 messages |-> state.messages, redir |-> print_redirection_level]
<1>4. acts \in Seq(Activity) /\ prn \in Printer
  BY <1>1 DEF Typed
<1>5. e \in Activity /\ e \notin Functs /\ e \notin Setters
  <2>1. print_redirection_level \in Nat
    BY <1>4, StreamsInForce, StreamsType
  <2>2. state.messages \in BOOLEAN
    BY <1>1, StateType
  <2> QED
    BY <2>1, <2>2 DEF Activity, Functs, Setters
<1>6. acts' = Append(acts, e) /\ ~err /\ ~err' /\ prn' = prn /\ vparms' = vparms
  BY <1>1, <1>2 DEF Push, Active, Typed
<1> HIDE DEF e
<1>7. /\ Len(acts) \in Nat /\ Len(acts') = Len(acts) + 1
      /\ \A i \in 1 .. Len(acts) : acts'[i] = acts[i]
      /\ acts'[Len(acts) + 1] = e
  BY <1>4, <1>5, <1>6, LenProperties, AppendProperties
<1>8. DepthOf(acts') = DepthOf(acts)
  <2>1. Among(acts', Len(acts) + 1, Functs) =
          Among(acts, Len(acts), Functs) + IF e \in Functs THEN 1 ELSE 0
    BY <1>4, <1>5, <1>6, AmongAppend
  <2>2. Among(acts, Len(acts), Functs) \in Nat
    BY <1>7, AmongFinite
  <2> QED
    BY <1>5, <1>7, <2>1, <2>2 DEF DepthOf
<1>9. Blockwise(Len(acts))
  <2>1. \A i \in Len(acts) + 1 .. Len(acts') : acts'[i] \notin Setters
    <3> SUFFICES ASSUME NEW i \in Len(acts) + 1 .. Len(acts') PROVE acts'[i] \notin Setters
      OBVIOUS
    <3>1. i = Len(acts) + 1
      BY <1>7
    <3> QED
      BY <1>5, <1>7, <3>1
  <2> QED
    BY <1>7, <1>8, <2>1 DEF Blockwise, DepthOf
<1>10. OnlyTop /\ Last(states').option = state.option
  <2> DEFINE s == [state EXCEPT !.messages = m]
  <2>1. s \in State /\ s.option = state.option /\ SetState(s)
    <3>1. s \in State
      BY <1>1, MessagesFacts
    <3>2. state \in State
      BY <1>1, StateType
    <3> QED
      BY <1>3, <3>1, <3>2 DEF SetMessages, State
  <2> HIDE DEF s
  <2> QED
    BY <1>1, <2>1, SetStateTop
<1>11. SavedIn(acts', states') /\ \A d \in Nat : d < DepthOf(acts) => SameSettings(d)
  BY <1>1, <1>9, <1>10, BlockSettings
<1>12. \E k \in BOOLEAN, l \in Options : O!Set(k, l)
  BY <1>1, <1>6, <1>8, <1>11, SetOutcome
<1>13. Recorded'
  BY <1>1, <1>6 DEF Recorded
<1> QED
  BY <1>11, <1>12, <1>13 DEF O!Next, Extra

\* What the end of an activity does to the activities and the states.
Ended(n) ==
    /\ n \in Nat /\ Len(acts) = n + 1 /\ Len(acts') = n /\ Top = acts[n + 1]
    /\ \A i \in 1 .. n : acts'[i] = acts[i]

LEMMA EndedFacts ==
  ASSUME Typed, Typed', acts # << >>, acts' = Front(acts), NEW n, n = Len(acts')
  PROVE  Ended(n) /\ Top \in Activity
<1>1. acts \in Seq(Activity) /\ acts' \in Seq(Activity) /\ Len(acts) \in Nat /\ Len(acts') \in Nat
  BY LenProperties DEF Typed
<1>2. /\ Len(acts') = Len(acts) - 1 /\ Top \in Activity
      /\ \A i \in 1 .. Len(acts) - 1 : acts'[i] = acts[i]
  BY <1>1, FrontFacts DEF Top
<1>3. Len(acts) = n + 1
  BY <1>1, <1>2
<1>4. \A i \in 1 .. n : acts'[i] = acts[i]
  BY <1>1, <1>2
<1> QED
  BY <1>1, <1>2, <1>3, <1>4 DEF Ended, Top, Last

\* The end of a loop or of a script changes nothing below.
LEMMA EndedBlock ==
  ASSUME Typed, Typed', SavedIn(acts, states), acts # << >>, acts' = Front(acts),
         states' = StateAfter(Top), Top.kind # "func"
  PROVE  /\ SavedIn(acts', states') /\ DepthOf(acts') = DepthOf(acts)
         /\ \A d \in Nat : d < DepthOf(acts) => SameSettings(d)
<1> DEFINE n == Len(acts')
<1>1. Typed /\ Typed' /\ SavedIn(acts, states) /\ states' = StateAfter(Top)
  OBVIOUS
<1>2. Ended(n) /\ Top \in Activity
  BY EndedFacts
<1>3. Top \notin Functs /\ Top \notin Setters
  BY DEF Functs, Setters
<1> HIDE DEF n
<1>4. /\ n \in Nat /\ Len(acts) = n + 1 /\ Len(acts') = n /\ Top = acts[n + 1]
      /\ \A i \in 1 .. n : acts'[i] = acts[i]
  BY <1>2 DEF Ended
<1>5. Among(acts, n, Functs) = DepthOf(acts) /\ DepthOf(acts') = DepthOf(acts)
  <2>1. Among(acts, n + 1, Functs) =
          Among(acts, n, Functs) + IF acts[n + 1] \in Functs THEN 1 ELSE 0
    BY <1>4, AmongStep
  <2>2. Among(acts, n, Functs) \in Nat
    BY <1>4, AmongFinite
  <2>3. Among(acts, n, Functs) = DepthOf(acts)
    BY <1>3, <1>4, <2>1, <2>2 DEF DepthOf
  <2>4. Among(acts, n, Functs) = Among(acts', n, Functs)
    BY <1>4, AmongSame
  <2> QED
    BY <1>4, <2>3, <2>4 DEF DepthOf
<1>6. Blockwise(n)
  <2>1. n <= Len(acts) /\ n <= Len(acts') /\ \A k \in 1 .. n : acts[k] = acts'[k]
    BY <1>4
  <2>2. \A i \in n + 1 .. Len(acts') : acts'[i] \notin Setters
    BY <1>4
  <2> QED
    BY <1>4, <1>5, <2>1, <2>2 DEF Blockwise
<1>7. OnlyTop /\ Last(states').option = state.option
  <2> DEFINE s == [state EXCEPT !.messages = Top.messages]
  <2>1. s \in State /\ s.option = state.option
    <3>1. Top.messages \in BOOLEAN
      BY <1>2 DEF Activity
    <3>2. s \in State
      BY <1>1, <3>1, MessagesFacts
    <3>3. state \in State
      BY <1>1, StateType
    <3> QED
      BY <3>2, <3>3 DEF State
  <2>2. states' = states \/ SetState(s)
    BY <1>1 DEF StateAfter, SetState
  <2> HIDE DEF s
  <2>3. CASE states' = states
    BY <2>3 DEF OnlyTop, state
  <2>4. CASE SetState(s)
    BY <1>1, <2>1, <2>4, SetStateTop
  <2> QED
    BY <2>2, <2>3, <2>4
<1>8. SavedIn(acts', states') /\ \A d \in Nat : d < DepthOf(acts) => SameSettings(d)
  BY <1>1, <1>6, <1>7, BlockSettings
<1> QED
  BY <1>5, <1>8

\* The states a function leaves: those of its caller.
LEMMA StatesLeft ==
  ASSUME Typed, Typed', SavedIn(acts, states), NEW n, Ended(n), acts \in Seq(Activity),
         Top \in Functs, Top \in Activity, states' = StateAfter(Top)
  PROVE  /\ Len(states') = PlaceOf(acts, n + 1) /\ Last(states').messages = Top.messages
         /\ \A k \in 1 .. Len(states') : states'[k].option = states[k].option
         /\ \A k \in 1 .. Len(states') - 1 : states'[k].messages = states[k].messages
<1>1. Shape(acts, states) /\ Shape(acts', states')
  BY TypedShape
<1>2. /\ Len(states) \in Nat /\ Len(states) >= 1 /\ states # << >>
      /\ Len(states') \in Nat /\ Len(states') >= 1
      /\ Last(states) = states[Len(states)] /\ Last(states) \in State
      /\ Last(states') = states'[Len(states')] /\ states \in Seq(State)
  BY <1>1, ShapeFacts DEF Shape
<1>3. /\ n \in Nat /\ Len(acts) = n + 1 /\ Len(acts') = n /\ Top = acts[n + 1]
      /\ \A i \in 1 .. n : acts'[i] = acts[i] /\ (n + 1) - 1 = n
  BY DEF Ended
<1>4. Len(states') = PlaceOf(acts, n + 1)
  <2>1. Among(acts, n, Setters) = Among(acts', n, Setters)
    BY <1>3, AmongSame
  <2> QED
    BY <1>1, <1>3, <2>1 DEF Shape, PlaceOf
<1>5. CASE Top.usesSet
  <2>1. states' = Front(states)
    BY <1>5 DEF StateAfter, Functs
  <2>2. Len(states') = Len(states) - 1 /\ \A k \in 1 .. Len(states') : states'[k] = states[k]
    BY <1>2, <2>1, FrontFacts
  <2>3. Last(states') = states[PlaceOf(acts, n + 1)]
    <3>1. Len(states') \in 1 .. Len(states')
      BY <1>2
    <3> QED
      BY <1>2, <1>4, <2>2, <3>1
  <2>4. Top \in Setters /\ n + 1 \in 1 .. Len(acts)
    BY <1>3, <1>5 DEF Setters, Functs
  <2>5. Last(states').messages = Top.messages
    BY <1>3, <2>3, <2>4 DEF SavedIn
  <2>6. \A k \in 1 .. Len(states') - 1 : k \in 1 .. Len(states')
    BY <1>2
  <2> QED
    BY <1>4, <2>2, <2>5, <2>6
<1>6. CASE ~Top.usesSet
  <2> DEFINE s == [state EXCEPT !.messages = Top.messages]
  <2>1. s \in State /\ s.option = state.option /\ s.messages = Top.messages
    <3>1. Top.messages \in BOOLEAN
      BY DEF Activity
    <3>2. s \in State /\ s.messages = Top.messages
      BY <3>1, MessagesFacts
    <3>3. state \in State
      BY StateType
    <3> QED
      BY <3>2, <3>3 DEF State
  <2>2. SetState(s)
    BY <1>6 DEF StateAfter, SetState, Functs
  <2> HIDE DEF s
  <2>3. OnlyTop /\ Last(states') = s
    BY <2>1, <2>2, SetStateTop
  <2>4. Len(states') = Len(states) /\ \A k \in 1 .. Len(states) - 1 : states'[k] = states[k]
    BY <2>3 DEF OnlyTop
  <2>5. \A k \in 1 .. Len(states') : states'[k].option = states[k].option
    <3> SUFFICES ASSUME NEW k \in 1 .. Len(states')
                 PROVE  states'[k].option = states[k].option
      OBVIOUS
    <3>1. CASE k = Len(states)
      BY <1>2, <2>1, <2>3, <2>4, <3>1 DEF state
    <3>2. CASE k # Len(states)
      <4>1. k \in 1 .. Len(states) - 1
        BY <1>2, <2>4, <3>2
      <4> QED
        BY <2>4, <4>1
    <3> QED
      BY <3>1, <3>2
  <2>6. Last(states').messages = Top.messages
    BY <2>1, <2>3
  <2>7. \A k \in 1 .. Len(states') - 1 : states'[k].messages = states[k].messages
    BY <2>4
  <2> QED
    BY <1>4, <2>5, <2>6, <2>7
<1> QED
  BY <1>5, <1>6

\* At the end of a function its caller finds its own settings again.
LEMMA EndedFunction ==
  ASSUME Typed, Typed', SavedIn(acts, states), acts # << >>, acts' = Front(acts),
         states' = StateAfter(Top), Top.kind = "func"
  PROVE  /\ SavedIn(acts', states') /\ DepthOf(acts) = DepthOf(acts') + 1
         /\ DepthOf(acts') \in Nat
         /\ \A d \in Nat : d <= DepthOf(acts') => SameSettings(d)
<1> DEFINE n == Len(acts')
           D == DepthOf(acts')
<1>1. /\ Typed /\ Typed' /\ SavedIn(acts, states) /\ acts \in Seq(Activity)
      /\ states' = StateAfter(Top)
  BY DEF Typed
<1>2. Ended(n) /\ Top \in Activity /\ Top \in Functs
  BY EndedFacts DEF Functs
<1>3. Shape(acts, states) /\ Shape(acts', states')
  BY <1>1, TypedShape
<1>4. /\ Len(states') \in Nat /\ Len(states') >= 1 /\ D \in Nat
      /\ Last(states') = states'[Len(states')]
      /\ \A i \in 1 .. n : PlaceOf(acts', i) \in 1 .. Len(states')
  BY <1>3, ShapeFacts
<1> HIDE DEF n, D
<1>5. /\ n \in Nat /\ Len(acts) = n + 1 /\ Len(acts') = n /\ Top = acts[n + 1]
      /\ \A i \in 1 .. n : acts'[i] = acts[i]
  BY <1>2 DEF Ended
<1>6. /\ Len(states') = PlaceOf(acts, n + 1) /\ Last(states').messages = Top.messages
      /\ \A k \in 1 .. Len(states') : states'[k].option = states[k].option
      /\ \A k \in 1 .. Len(states') - 1 : states'[k].messages = states[k].messages
  BY <1>1, <1>2, StatesLeft
<1>7. DepthOf(acts) = D + 1 /\ DepthOf(acts') = D /\ Among(acts, n, Functs) = D
  <2>1. Among(acts, n + 1, Functs) =
          Among(acts, n, Functs) + IF acts[n + 1] \in Functs THEN 1 ELSE 0
    BY <1>5, AmongStep
  <2>2. Among(acts, n, Functs) = Among(acts', n, Functs)
    BY <1>5, AmongSame
  <2> QED
    BY <1>2, <1>4, <1>5, <2>1, <2>2 DEF DepthOf, D
<1>8. ASSUME NEW d \in Nat, d < D PROVE SameSettings(d)
  <2>1. n \in 1 .. n
    <3>1. Among(acts, 0, Functs) = 0
      BY AmongNone
    <3> QED
      BY <1>5, <1>7, <1>8, <3>1
  <2>2. \A k \in 1 .. PlaceOf(acts', n) : states'[k].option = states[k].option
    <3>1. PlaceOf(acts', n) \in 1 .. Len(states')
      BY <1>4, <2>1
    <3>2. \A k \in 1 .. PlaceOf(acts', n) : k \in 1 .. Len(states')
      BY <1>4, <3>1
    <3> QED
      BY <1>6, <3>2
  <2>3. d < Among(acts', n, Functs) /\ n <= Len(acts') /\ n <= Len(acts)
    BY <1>5, <1>7, <1>8 DEF DepthOf
  <2>4. /\ MessagesOf(acts', states', d) = MessagesOf(acts, states, d)
        /\ OptionOf(acts', states', d) = OptionOf(acts, states, d)
    BY <1>3, <1>5, <2>2, <2>3, LowerSame
  <2> QED
    BY <2>4 DEF SameSettings
<1>9. SameSettings(D)
  <2>1. FunctionAt(acts, D + 1) = n + 1
    <3>1. IsFunctionAt(acts, n + 1, D + 1)
      BY <1>2, <1>5, <1>7 DEF IsFunctionAt, DepthOf
    <3> QED
      BY <1>1, <3>1, FunctionIs
  <2>2. D # DepthOf(acts)
    BY <1>4, <1>7
  <2>3. MessagesOf(acts, states, D) = Top.messages
    BY <1>5, <2>1, <2>2 DEF MessagesOf
  <2>4. OptionOf(acts, states, D) = states[Len(states')].option
    BY <1>6, <2>1, <2>2 DEF OptionOf
  <2>5. MessagesOf(acts', states', D) = Last(states').messages
        /\ OptionOf(acts', states', D) = Last(states').option
    BY <1>7, TopRecord
  <2>6. Len(states') \in 1 .. Len(states')
    BY <1>4
  <2>7. states'[Len(states')].option = states[Len(states')].option
    BY <1>6, <2>6
  <2> QED
    BY <1>4, <1>6, <2>3, <2>4, <2>5, <2>7 DEF SameSettings
<1>10. SavedIn(acts', states')
  <2>1. Among(acts, n, Setters) = Len(states') - 1
    <3>1. Among(acts, n, Setters) \in Nat
      BY <1>5, AmongFinite
    <3>2. (n + 1) - 1 = n
      BY <1>5
    <3> QED
      BY <1>6, <3>1, <3>2 DEF PlaceOf
  <2>2. \A k \in 1 .. Among(acts, n, Setters) : states'[k].messages = states[k].messages
    BY <1>6, <2>1
  <2>3. \A i \in n + 1 .. Len(acts') : acts'[i] \in Setters =>
            states'[PlaceOf(acts', i)].messages = acts'[i].messages
    BY <1>5
  <2>4. n <= Len(acts) /\ n <= Len(acts') /\ \A k \in 1 .. n : acts[k] = acts'[k]
    BY <1>5
  <2> QED
    BY <1>1, <1>3, <1>5, <2>2, <2>3, <2>4, SavedSame
<1>11. \A d \in Nat : d <= D => SameSettings(d)
  BY <1>4, <1>8, <1>9
<1> QED
  BY <1>4, <1>7, <1>10, <1>11 DEF D

\* The end of a function, a loop or a script without an error.
LEMMA EndRefines ==
  ASSUME RInv, IInv', End
  PROVE  O!Next /\ Extra'
<1> DEFINE D == DepthOf(acts')
<1>1. /\ Typed /\ Typed' /\ SavedIn(acts, states) /\ Recorded
      /\ acts # << >> /\ ~err /\ ~err' /\ err' = err /\ prn' = prn /\ vparms' = vparms
      /\ acts' = Front(acts) /\ states' = StateAfter(Top)
  BY DEF RInv, IInv, Extra, End, Active
<1>2. Recorded'
  BY <1>1 DEF Recorded
<1>3. CASE Top.kind # "func"
  <2>1. /\ SavedIn(acts', states') /\ DepthOf(acts') = DepthOf(acts)
        /\ \A d \in Nat : d < DepthOf(acts) => SameSettings(d)
    BY <1>1, <1>3, EndedBlock
  <2>2. \E k \in BOOLEAN, l \in Options : O!Set(k, l)
    BY <1>1, <2>1, SetOutcome
  <2> QED
    BY <1>2, <2>1, <2>2 DEF O!Next, Extra
<1>4. CASE Top.kind = "func"
  <2>1. /\ SavedIn(acts', states') /\ DepthOf(acts) = D + 1 /\ D \in Nat
        /\ \A d \in Nat : d <= D => SameSettings(d)
    BY <1>1, <1>4, EndedFunction
  <2>2. \A d : SameStreams(d)
    BY <1>1, NotGone DEF SameStreams, DivertedOf, RestoresOf
  <2>3. \A d \in Nat : d <= D => Then(d) = Now(d)
    BY <2>1, <2>2, Same
  <2>4. D = DepthOf(acts')
    OBVIOUS
  <2> HIDE DEF D
  <2>5. O!Top = Now(D + 1) /\ Len(Activations) > 1 /\ Activations' = Front(Activations)
    BY <1>1, <2>1, <2>3, <2>4, ReturnStep
  <2>6. ~Now(D + 1).diverted
    <3>1. \A j \in DOMAIN Streams(prn) : Streams(prn)[j].level <= D
      BY <1>1, <2>4 DEF IInv, Within, DepthOf
    <3>2. \A j \in DOMAIN Streams(prn) : Streams(prn)[j].level \in Nat
      BY <1>1, StreamsType DEF Typed, Redirection
    <3>3. ~DivertedOf(prn, Gone, D + 1)
      BY <2>1, <3>1, <3>2, NotGone DEF DivertedOf
    <3> QED
      BY <3>3 DEF Now, ActivationOf
  <2>7. O!Return
    BY <2>5, <2>6, SequenceOps DEF O!Return
  <2> QED
    BY <1>2, <2>1, <2>7 DEF O!Next, Extra
<1> QED
  BY <1>3, <1>4

\* What a call does to the activities and the states.
Called(n, e, uses) ==
    /\ n \in Nat /\ Len(acts) = n /\ Len(acts') = n + 1 /\ acts'[n + 1] = e
    /\ \A i \in 1 .. n : acts'[i] = acts[i]
    /\ e \in Functs /\ e.messages = state.messages /\ (e \in Setters <=> uses)

LEMMA CalledFacts ==
  ASSUME Typed, NEW uses \in BOOLEAN, NEW caught \in BOOLEAN, Call(uses, caught)
  PROVE  /\ \E e : Called(Len(acts), e, uses)
         /\ ~err /\ err' = err /\ prn' = prn /\ vparms' = vparms
<1> DEFINE e == [kind |-> "func", usesSet |-> uses, caught |-> caught,
                 messages |-> state.messages, redir |-> print_redirection_level]
<1>1. acts \in Seq(Activity) /\ prn \in Printer
  BY DEF Typed
<1>2. e \in Activity
  <2>1. print_redirection_level \in Nat
    BY <1>1, StreamsInForce, StreamsType
  <2>2. state.messages \in BOOLEAN
    BY StateType
  <2> QED
    BY <2>1, <2>2 DEF Activity
<1>3. e \in Functs /\ (e \in Setters <=> uses) /\ e.messages = state.messages
  BY <1>2 DEF Functs, Setters
<1>4. acts' = Append(acts, e) /\ ~err /\ err' = err /\ prn' = prn /\ vparms' = vparms
  BY DEF Call, Push, Active
<1> HIDE DEF e
<1>5. /\ Len(acts) \in Nat /\ Len(acts') = Len(acts) + 1
      /\ \A i \in 1 .. Len(acts) : acts'[i] = acts[i]
      /\ acts'[Len(acts) + 1] = e
  BY <1>1, <1>2, <1>4, LenProperties, AppendProperties
<1>6. Called(Len(acts), e, uses)
  BY <1>3, <1>5 DEF Called
<1> QED
  BY <1>4, <1>6

LEMMA StatesCalled ==
  ASSUME Typed, Typed', NEW uses \in BOOLEAN, NEW caught \in BOOLEAN,
         Call(uses, caught)
  PROVE  /\ Len(states) <= Len(states')
         /\ \A k \in 1 .. Len(states) : states'[k].option = states[k].option
         /\ \A k \in 1 .. Len(states) - 1 : states'[k].messages = states[k].messages
         /\ uses => states'[Len(states)].messages = state.messages
         /\ Last(states').messages = FALSE /\ Last(states').option = state.option
<1> DEFINE off == [state EXCEPT !.messages = FALSE]
<1>1. /\ Len(states) \in Nat /\ Len(states) >= 1 /\ states \in Seq(State)
      /\ state = states[Len(states)]
  BY StateType DEF Typed, state, Last
<1>2. off \in State /\ off.messages = FALSE /\ off.option = state.option
  <2>1. off \in State /\ off.messages = FALSE
    BY MessagesFacts
  <2>2. state \in State
    BY StateType
  <2> QED
    BY <2>1, <2>2 DEF State
<1>3. states' = Append(IF uses THEN states ELSE Front(states), off)
  BY DEF Call
<1> HIDE DEF off
<1>4. CASE uses
  <2>1. states' = Append(states, off)
    BY <1>3, <1>4
  <2>2. /\ Len(states') = Len(states) + 1 /\ states'[Len(states) + 1] = off
        /\ \A k \in 1 .. Len(states) : states'[k] = states[k]
    BY <1>1, <1>2, <2>1, AppendProperties
  <2>3. Last(states') = off
    BY <2>2 DEF Last
  <2>4. Len(states) \in 1 .. Len(states)
    BY <1>1
  <2>5. \A k \in 1 .. Len(states) - 1 : states'[k].messages = states[k].messages
    BY <1>1, <2>2
  <2>6. Len(states) <= Len(states')
    BY <1>1, <2>2
  <2>7. states'[Len(states)].messages = state.messages
    BY <1>1, <2>2, <2>4
  <2>8. \A k \in 1 .. Len(states) : states'[k].option = states[k].option
    BY <2>2
  <2> QED
    BY <1>2, <2>3, <2>5, <2>6, <2>7, <2>8
<1>5. CASE ~uses
  <2>1. SetState(off)
    BY <1>3, <1>5 DEF SetState
  <2>2. OnlyTop /\ Last(states') = off
    BY <1>2, <2>1, SetStateTop
  <2>3. Len(states') = Len(states) /\ \A k \in 1 .. Len(states) - 1 : states'[k] = states[k]
    BY <2>2 DEF OnlyTop
  <2>4. \A k \in 1 .. Len(states) : states'[k].option = states[k].option
    <3> SUFFICES ASSUME NEW k \in 1 .. Len(states)
                 PROVE  states'[k].option = states[k].option
      OBVIOUS
    <3>1. CASE k = Len(states)
      BY <1>1, <1>2, <2>2, <2>3, <3>1 DEF Last
    <3>2. CASE k # Len(states)
      <4>1. k \in 1 .. Len(states) - 1
        BY <1>1, <3>2
      <4> QED
        BY <2>3, <4>1
    <3> QED
      BY <3>1, <3>2
  <2>5. Len(states) <= Len(states')
    BY <1>1, <2>3
  <2>6. \A k \in 1 .. Len(states) - 1 : states'[k].messages = states[k].messages
    BY <2>3
  <2> QED
    BY <1>2, <1>5, <2>2, <2>4, <2>5, <2>6
<1> QED
  BY <1>4, <1>5

\* A call: the function begins undiverted, with its caller's settings.
LEMMA CallRefines ==
  ASSUME RInv, IInv', NEW uses \in BOOLEAN, NEW caught \in BOOLEAN,
         Call(uses, caught)
  PROVE  O!Next /\ Extra'
<1> DEFINE n == Len(acts)
           D == DepthOf(acts)
<1>1. /\ Typed /\ Typed' /\ SavedIn(acts, states) /\ Recorded
      /\ acts \in Seq(Activity) /\ acts' \in Seq(Activity)
  BY DEF RInv, IInv, Extra, Typed
<1>2. /\ \E e : Called(n, e, uses)
      /\ ~err /\ ~err' /\ err' = err /\ prn' = prn /\ vparms' = vparms
  BY <1>1, CalledFacts
<1>3. PICK e : Called(n, e, uses)
  BY <1>2
<1>4. Shape(acts, states) /\ Shape(acts', states')
  BY <1>1, TypedShape
<1>5. /\ Len(states) \in Nat /\ Len(states) >= 1 /\ D \in Nat
      /\ Last(states) = states[Len(states)]
      /\ \A i \in 1 .. n : PlaceOf(acts, i) \in 1 .. Len(states)
  BY <1>4, ShapeFacts
<1> HIDE DEF n, D
<1>6. /\ n \in Nat /\ Len(acts) = n /\ Len(acts') = n + 1 /\ acts'[n + 1] = e
      /\ \A i \in 1 .. n : acts'[i] = acts[i] /\ (n + 1) - 1 = n
      /\ e \in Functs /\ e.messages = state.messages /\ (e \in Setters <=> uses)
  BY <1>3 DEF Called
<1>7. /\ Len(states) <= Len(states')
      /\ \A k \in 1 .. Len(states) : states'[k].option = states[k].option
      /\ \A k \in 1 .. Len(states) - 1 : states'[k].messages = states[k].messages
      /\ uses => states'[Len(states)].messages = state.messages
      /\ Last(states').messages = FALSE /\ Last(states').option = state.option
  BY <1>1, StatesCalled
<1>8. DepthOf(acts') = D + 1 /\ DepthOf(acts) = D
  <2>1. Among(acts', n + 1, Functs) =
          Among(acts', n, Functs) + IF acts'[n + 1] \in Functs THEN 1 ELSE 0
    BY <1>6, AmongStep
  <2>2. Among(acts', n, Functs) = Among(acts, n, Functs)
    <3>1. n \in Nat /\ \A k \in 1 .. n : acts'[k] = acts[k]
      BY <1>6
    <3> QED
      BY <3>1, AmongSame
  <2> QED
    BY <1>5, <1>6, <2>1, <2>2 DEF DepthOf, D
<1>9. PlaceOf(acts', n + 1) = Len(states)
  <2>1. Among(acts', n, Setters) = Among(acts, n, Setters)
    <3>1. n \in Nat /\ \A k \in 1 .. n : acts'[k] = acts[k]
      BY <1>6
    <3> QED
      BY <3>1, AmongSame
  <2>2. (n + 1) - 1 = n
    BY <1>6
  <2> QED
    BY <1>4, <1>6, <2>1, <2>2 DEF PlaceOf, Shape
<1>10. ASSUME NEW d \in Nat, d < D PROVE SameSettings(d)
  <2>1. n \in 1 .. n
    <3>1. Among(acts, 0, Functs) = 0
      BY AmongNone
    <3>2. n # 0
      BY <1>5, <1>6, <1>10, <3>1 DEF D, DepthOf
    <3> QED
      BY <1>6, <3>2
  <2>2. \A k \in 1 .. PlaceOf(acts, n) : states[k].option = states'[k].option
    <3>1. PlaceOf(acts, n) \in 1 .. Len(states)
      BY <1>5, <2>1
    <3>2. \A k \in 1 .. PlaceOf(acts, n) : k \in 1 .. Len(states)
      BY <1>5, <3>1
    <3> QED
      BY <1>7, <3>2
  <2>3. /\ d < Among(acts, n, Functs) /\ n <= Len(acts) /\ n <= Len(acts')
        /\ \A k \in 1 .. n : acts[k] = acts'[k]
    BY <1>6, <1>10 DEF D, DepthOf
  <2>4. /\ MessagesOf(acts, states, d) = MessagesOf(acts', states', d)
        /\ OptionOf(acts, states, d) = OptionOf(acts', states', d)
    BY <1>4, <1>6, <2>2, <2>3, LowerSame
  <2> QED
    BY <2>4 DEF SameSettings
<1>11. SameSettings(D)
  <2>1. FunctionAt(acts', D + 1) = n + 1
    <3>1. IsFunctionAt(acts', n + 1, D + 1)
      BY <1>6, <1>8 DEF IsFunctionAt, DepthOf
    <3> QED
      BY <1>1, <3>1, FunctionIs
  <2>2. D # DepthOf(acts')
    BY <1>5, <1>8
  <2>3. MessagesOf(acts', states', D) = state.messages
    BY <1>6, <2>1, <2>2 DEF MessagesOf
  <2>4. OptionOf(acts', states', D) = states'[Len(states)].option
    BY <1>9, <2>1, <2>2 DEF OptionOf
  <2>5. MessagesOf(acts, states, D) = state.messages
        /\ OptionOf(acts, states, D) = state.option
    BY <1>8, TopRecord
  <2>6. Len(states) \in 1 .. Len(states)
    BY <1>5
  <2>7. states'[Len(states)].option = states[Len(states)].option
    BY <1>7, <2>6
  <2>8. state.option = states[Len(states)].option
    BY <1>5 DEF state
  <2> QED
    BY <2>3, <2>4, <2>5, <2>7, <2>8 DEF SameSettings
<1>12. \A d \in Nat : d <= D => Then(d) = Now(d)
  <2>1. \A d : SameStreams(d)
    BY <1>2, NotGone DEF SameStreams, DivertedOf, RestoresOf
  <2>2. \A d \in Nat : d <= D => SameSettings(d)
    BY <1>5, <1>10, <1>11
  <2> QED
    BY <2>1, <2>2, Same
<1>13. O!Top = Now(D) /\ Activations' = Append(Activations, Then(D + 1))
  BY <1>1, <1>2, <1>5, <1>8, <1>12, CallStep
<1>14. Then(D + 1) = [diverted |-> FALSE, restores |-> FALSE, messages |-> FALSE,
                      option |-> Now(D).option]
  <2>1. \A j \in DOMAIN Streams(prn') : Streams(prn')[j].level <= D
    <3>1. \A j \in DOMAIN Streams(prn) : Streams(prn)[j].level <= D
      BY DEF RInv, IInv, Within, D, DepthOf
    <3> QED
      BY <1>2, <3>1
  <2>2. \A j \in DOMAIN Streams(prn') : Streams(prn')[j].level \in Nat
    BY <1>1, StreamsType DEF Typed, Redirection
  <2>3. DivertedOf(prn', Gone', D + 1) = FALSE /\ RestoresOf(prn', Gone', D + 1) = FALSE
    BY <1>5, <2>1, <2>2, NotGone DEF DivertedOf, RestoresOf
  <2>4. /\ MessagesOf(acts', states', D + 1) = FALSE
        /\ OptionOf(acts', states', D + 1) = state.option
    BY <1>7, <1>8, TopRecord
  <2>5. Now(D).option = state.option
    <3>1. OptionOf(acts, states, D) = state.option
      BY <1>8, TopRecord
    <3> QED
      BY <3>1 DEF Now, ActivationOf
  <2> QED
    BY <2>3, <2>4, <2>5 DEF Then, ActivationOf
<1>15. O!Call
  BY <1>13, <1>14 DEF O!Call
<1>16. SavedIn(acts', states')
  <2>1. Among(acts, n, Setters) = Len(states) - 1
    <3>1. Among(acts, n, Setters) \in Nat
      BY <1>6, AmongFinite
    <3> QED
      BY <1>4, <1>6, <3>1 DEF Shape
  <2>2. \A k \in 1 .. Among(acts, n, Setters) : states'[k].messages = states[k].messages
    BY <1>7, <2>1
  <2>3. \A i \in n + 1 .. Len(acts') : acts'[i] \in Setters =>
            states'[PlaceOf(acts', i)].messages = acts'[i].messages
    <3> SUFFICES ASSUME NEW i \in n + 1 .. Len(acts'), acts'[i] \in Setters
                 PROVE  states'[PlaceOf(acts', i)].messages = acts'[i].messages
      OBVIOUS
    <3>1. i = n + 1
      BY <1>6
    <3> QED
      BY <1>6, <1>7, <1>9, <3>1
  <2>4. n <= Len(acts) /\ n <= Len(acts') /\ \A k \in 1 .. n : acts[k] = acts'[k]
    BY <1>6
  <2> QED
    BY <1>1, <1>4, <1>6, <2>2, <2>3, <2>4, SavedSame
<1>17. Recorded'
  BY <1>1, <1>2 DEF Recorded
<1> QED
  BY <1>15, <1>16, <1>17 DEF O!Next, Extra

\* A redirection that begins is the last stream, the others are shallower.
Begun(n, r) ==
    /\ n \in Nat /\ Len(Streams(prn)) = n /\ DOMAIN Streams(prn) = 1 .. n
    /\ DOMAIN Streams(prn') = 1 .. n + 1 /\ Len(Streams(prn')) = n + 1
    /\ \A j \in 1 .. n :
          Streams(prn')[j] = Streams(prn)[j] /\ Streams(prn)[j].level # depth
    /\ Streams(prn')[n + 1] = r

NewStream(quiet) == [level |-> depth, restores |-> quiet /\ state.messages]

LEMMA BegunFacts ==
  ASSUME IInv, NEW null \in BOOLEAN, NEW quiet \in BOOLEAN, Outfile(null, quiet)
  PROVE  Begun(Len(Streams(prn)), NewStream(quiet))
<1> DEFINE n == Len(Streams(prn))
           new == NewStream(quiet)
<1>1. prn \in Printer /\ acts \in Seq(Activity) /\ Typed /\ prn.fixed = None
  BY DEF IInv, Typed, Outfile
<1>2. /\ n \in Nat /\ DOMAIN Streams(prn) = 1 .. n /\ prn.fplist \in Seq(Redirection)
      /\ Streams(prn) = prn.fplist /\ print_redirection_level = n
  BY <1>1, StreamsType, StreamsInForce DEF Printer, Streams
<1>3. new \in Redirection /\ new # None
  BY <1>1, StateType, DepthIs, OutfileAssumption DEF Redirection, NewStream
<1>4. \/ prn' = [prn EXCEPT !.fixed = new]
      \/ prn' = [prn EXCEPT !.fplist = Append(@, new)]
  BY DEF Outfile, NewStream
<1> HIDE DEF new, n
<1>5. /\ Append(prn.fplist, new) \in Seq(Redirection)
      /\ Len(Append(prn.fplist, new)) = n + 1
      /\ \A j \in 1 .. n : Append(prn.fplist, new)[j] = prn.fplist[j]
      /\ Append(prn.fplist, new)[n + 1] = new
  <2>1. Len(prn.fplist) = n
    BY <1>2 DEF n
  <2> QED
    BY <1>2, <1>3, <2>1, AppendProperties
<1>6. prn' \in Printer /\ Streams(prn') = Append(prn.fplist, new)
  BY <1>1, <1>2, <1>3, <1>4, <1>5 DEF Printer, Streams
<1>7. Len(Streams(prn')) = n + 1 /\ DOMAIN Streams(prn') = 1 .. n + 1
  BY <1>5, <1>6, StreamsType
<1>8. \A j \in 1 .. n : Streams(prn)[j].level # depth
  <2> SUFFICES ASSUME NEW j \in 1 .. n PROVE Streams(prn)[j].level # depth
    OBVIOUS
  <2>1. n > 0
    BY <1>2
  <2>2. \A r \in Range(prn.fplist) : r.level # depth
    BY <1>2, <2>1 DEF Outfile, redirection_ok
  <2>3. Streams(prn)[j] \in Range(prn.fplist)
    BY <1>2 DEF Range
  <2> QED
    BY <2>2, <2>3
<1>9. \A j \in 1 .. n : Streams(prn')[j] = Streams(prn)[j]
  BY <1>2, <1>5, <1>6
<1>10. Streams(prn')[n + 1] = new
  BY <1>5, <1>6
<1> QED
  BY <1>2, <1>7, <1>8, <1>9, <1>10 DEF Begun, n, new

LEMMA OutfileRefines ==
  ASSUME RInv, IInv', NEW null \in BOOLEAN, NEW quiet \in BOOLEAN, Outfile(null, quiet)
  PROVE  O!Next /\ Extra'
<1> DEFINE n == Len(Streams(prn))
           r == NewStream(quiet)
           D == DepthOf(acts)
           x == state.messages /\ ~quiet
           y == quiet /\ state.messages
<1>1. /\ Typed /\ Typed' /\ SavedIn(acts, states) /\ IInv /\ acts \in Seq(Activity)
      /\ ~err /\ ~err' /\ acts' = acts /\ vparms' = Vparms(quiet)
      /\ SetMessages(state.messages /\ ~quiet)
  BY DEF RInv, IInv, Extra, Outfile, Active, Typed
<1>2. Begun(n, r)
  BY <1>1, BegunFacts
<1>3. r.level = D /\ r.restores = y /\ D \in Nat
  BY <1>1, DepthIs DEF NewStream, DepthOf
<1>4. /\ OnlyTop /\ Last(states').messages = x /\ Last(states').option = state.option
  <2> DEFINE s == [state EXCEPT !.messages = x]
  <2>1. s \in State /\ s.messages = x
    BY <1>1, MessagesFacts
  <2>2. s.option = state.option
    <3>1. state \in State
      BY <1>1, StateType
    <3> QED
      BY <3>1 DEF State
  <2>3. SetState(s)
    BY <1>1 DEF SetMessages
  <2> HIDE DEF s
  <2>4. OnlyTop /\ Last(states') = s
    BY <1>1, <2>1, <2>3, SetStateTop
  <2> QED
    BY <2>1, <2>2, <2>4
<1>5. SavedIn(acts', states') /\ \A d \in Nat : d < DepthOf(acts) => SameSettings(d)
  BY <1>1, <1>4, BlockSettings, SameActivities
<1>6. depth = D
  BY <1>1, DepthIs DEF DepthOf
<1> HIDE DEF n, r, D, x, y
<1>7. /\ n \in Nat /\ DOMAIN Streams(prn) = 1 .. n
      /\ DOMAIN Streams(prn') = 1 .. n + 1 /\ Len(Streams(prn')) = n + 1
      /\ \A j \in 1 .. n :
            Streams(prn')[j] = Streams(prn)[j] /\ Streams(prn)[j].level # D
      /\ Streams(prn')[n + 1] = r
  BY <1>2, <1>6 DEF Begun
<1>8. \A j \in 1 .. n + 1 : j \in 1 .. n \/ j = n + 1
  BY <1>7
<1>9. \A j \in 1 .. n : j \in 1 .. n + 1
  BY <1>7
<1>10. ASSUME NEW d \in Nat, d < D PROVE SameStreams(d)
  <2>1. r.level # d
    BY <1>3, <1>10
  <2> QED
    BY <1>1, <1>7, <1>8, <1>9, <2>1, NotGone DEF SameStreams, DivertedOf, RestoresOf
<1>11. ~DivertedOf(prn, Gone, D) /\ ~RestoresOf(prn, Gone, D)
  BY <1>7, NotGone DEF DivertedOf, RestoresOf
<1>12. DivertedOf(prn', Gone', D) /\ (RestoresOf(prn', Gone', D) <=> y)
  <2>1. n + 1 \in DOMAIN Streams(prn') /\ Streams(prn')[n + 1].level = D
        /\ Streams(prn')[n + 1].restores = y
    BY <1>3, <1>7
  <2>2. \A j \in DOMAIN Streams(prn') : Streams(prn')[j].level = D => j = n + 1
    BY <1>7, <1>8
  <2>3. DivertedOf(prn', Gone', D)
    BY <1>1, <2>1, NotGone DEF DivertedOf
  <2>4. RestoresOf(prn', Gone', D) <=> y
    BY <1>1, <2>1, <2>2, NotGone DEF RestoresOf
  <2> QED
    BY <2>3, <2>4
<1>13. \A d \in Nat : d < D => Then(d) = Now(d)
  BY <1>5, <1>10, Same DEF D
<1>14. O!Top = Now(D) /\ O!Update(Then(D))
  <2>1. DepthOf(acts) = D /\ DepthOf(acts') = D
    BY <1>1 DEF D
  <2> QED
    BY <1>1, <1>3, <1>13, <2>1, UpdateStep
<1>15. /\ MessagesOf(acts, states, D) = state.messages
       /\ OptionOf(acts, states, D) = state.option
       /\ MessagesOf(acts', states', D) = x
       /\ OptionOf(acts', states', D) = state.option
  <2>1. DepthOf(acts) = D /\ DepthOf(acts') = D
    BY <1>1 DEF D
  <2> QED
    BY <1>4, <2>1, TopRecord
<1>16. ~Now(D).diverted
  BY <1>11 DEF Now, ActivationOf
<1>17. Then(D) = [Now(D) EXCEPT !.diverted = TRUE,
                                !.restores = quiet /\ Now(D).messages,
                                !.messages = @ /\ ~quiet]
  <2> DEFINE a == DivertedOf(prn, Gone, D)
             b == RestoresOf(prn, Gone, D)
             k == state.messages
             o == state.option
             A(f, g, h) == [diverted |-> f, restores |-> g, messages |-> h, option |-> o]
             tt == TRUE
  <2>1. Now(D) = A(a, b, k)
    BY <1>15 DEF Now, ActivationOf
  <2>2. Then(D) = A(tt, y, x)
    <3>1. DivertedOf(prn', Gone', D) = tt
      BY <1>12, NotGone DEF DivertedOf
    <3>2. RestoresOf(prn', Gone', D) = y
      BY <1>12, NotGone DEF RestoresOf, y
    <3> QED
      BY <1>15, <3>1, <3>2 DEF Then, ActivationOf
  <2>3. Now(D).messages = k
    BY <2>1
  <2>4. (quiet /\ Now(D).messages) = y /\ (Now(D).messages /\ ~quiet) = x
    BY <2>3 DEF x, y
  <2> HIDE DEF a, b, k, o, tt
  <2>5. [A(a, b, k) EXCEPT !.diverted = tt] = A(tt, b, k)
    OBVIOUS
  <2>6. [A(tt, b, k) EXCEPT !.restores = y] = A(tt, y, k)
    OBVIOUS
  <2>7. [A(tt, y, k) EXCEPT !.messages = x] = A(tt, y, x)
    OBVIOUS
  <2> HIDE DEF A
  <2>8. Then(D) = [Now(D) EXCEPT !.diverted = tt, !.restores = y, !.messages = x]
    BY <2>1, <2>2, <2>5, <2>6, <2>7
  <2> QED
    BY <2>4, <2>8 DEF tt
<1>18. O!Divert(quiet)
  BY <1>14, <1>16, <1>17 DEF O!Divert
<1>19. Recorded'
  <2>1. vparms' = "on" => y
    BY <1>1 DEF Vparms, y
  <2>2. Streams(prn')[Len(Streams(prn'))].restores = y
    BY <1>3, <1>7
  <2> QED
    BY <1>1, <2>1, <2>2 DEF Recorded
<1> QED
  BY <1>5, <1>18, <1>19 DEF O!Next, Extra

\* The redirection in force at the depth of the function on top, or of the
\* session, is the only one there, and vparms tells what it is to restore.
LEMMA EndOutfileRefines ==
  ASSUME RInv, IInv', Faults = {}, EndOutfile
  PROVE  O!Next /\ Extra'
<1> DEFINE n == Len(Streams(prn))
           D == DepthOf(acts)
           x == state.messages \/ vparms = "on"
           y == Streams(prn)[n].restores
<1>1. /\ Typed /\ Typed' /\ SavedIn(acts, states) /\ IInv /\ acts \in Seq(Activity)
      /\ prn \in Printer /\ ~err /\ ~err' /\ acts' = acts /\ vparms' = "unset"
      /\ SetMessages(state.messages \/ vparms = "on") /\ Recorded
      /\ prn' = print_end_redirection(prn)
  BY DEF RInv, IInv, Extra, EndOutfile, Active, Typed
<1>2. /\ n \in Nat /\ DOMAIN Streams(prn) = 1 .. n /\ n > 0
      /\ InForce = Streams(prn)[n] /\ InForce \in Redirection
      /\ \A j \in DOMAIN Streams(prn) : Streams(prn)[j] \in Redirection
  BY <1>1, StreamsType, StreamsInForce DEF EndOutfile
<1>3. D \in Nat /\ depth = D
  BY <1>1, DepthIs DEF DepthOf
<1>4. Streams(prn)[n].level = D /\ y \in BOOLEAN
  BY <1>2, <1>3 DEF EndOutfile, Redirection
<1>5. Shorter(prn, prn')
  BY <1>1, <1>2, EndShorter
<1>6. /\ Len(Streams(prn')) = n - 1 /\ DOMAIN Streams(prn') = 1 .. n - 1
      /\ \A j \in DOMAIN Streams(prn') : Streams(prn')[j] = Streams(prn)[j]
  <2>1. Len(Streams(prn')) = IF n = 0 THEN 0 ELSE n - 1
    BY <1>5 DEF Shorter
  <2> HIDE DEF n
  <2>2. Len(Streams(prn')) = n - 1
    BY <1>2, <2>1
  <2>3. prn' \in Printer
    BY <1>5 DEF Shorter
  <2>4. DOMAIN Streams(prn') = 1 .. Len(Streams(prn'))
    BY <2>3, StreamsType
  <2> QED
    BY <1>5, <2>2, <2>4 DEF Shorter
<1>7. \A j \in 1 .. n - 1 : Streams(prn)[j].level < D /\ Streams(prn)[j].level \in Nat
  <2> SUFFICES ASSUME NEW j \in 1 .. n - 1
               PROVE  Streams(prn)[j].level < D /\ Streams(prn)[j].level \in Nat
    OBVIOUS
  <2>1. j \in DOMAIN Streams(prn) /\ n \in DOMAIN Streams(prn) /\ j < n
    BY <1>2
  <2>2. Streams(prn)[j].level < Streams(prn)[n].level
    BY <1>1, <2>1 DEF IInv, Rising
  <2>3. Streams(prn)[j].level \in Nat
    BY <1>2, <2>1 DEF Redirection
  <2> QED
    BY <1>4, <2>2, <2>3
<1>8. /\ OnlyTop /\ Last(states').messages = x /\ Last(states').option = state.option
  <2> DEFINE s == [state EXCEPT !.messages = x]
  <2>1. s \in State /\ s.messages = x
    BY <1>1, MessagesFacts
  <2>2. s.option = state.option
    <3>1. state \in State
      BY <1>1, StateType
    <3> QED
      BY <3>1 DEF State
  <2>3. SetState(s)
    BY <1>1 DEF SetMessages
  <2> HIDE DEF s
  <2>4. OnlyTop /\ Last(states') = s
    BY <1>1, <2>1, <2>3, SetStateTop
  <2> QED
    BY <2>1, <2>2, <2>4
<1>9. SavedIn(acts', states') /\ \A d \in Nat : d < DepthOf(acts) => SameSettings(d)
  BY <1>1, <1>8, BlockSettings, SameActivities
<1>10. y <=> vparms = "on"
  <2>1. y => vparms = "on"
    <3>1. n \in DOMAIN Streams(prn) /\ "nested" \notin Faults
      BY <1>2
    <3> QED
      BY <1>1, <3>1 DEF IInv, LastRestores
  <2>2. vparms = "on" => y
    BY <1>1, <1>2 DEF Recorded
  <2> QED
    BY <2>1, <2>2
<1>a. DepthOf(acts) = D /\ DepthOf(acts') = D
  BY <1>1
<1>b. n = Len(Streams(prn)) /\ (x <=> state.messages \/ y)
  BY <1>10
<1> HIDE DEF n, D, x, y
<1>11. \A j \in 1 .. n : j \in 1 .. n - 1 \/ j = n
  BY <1>2
<1>12. \A j \in 1 .. n - 1 : j \in 1 .. n
  BY <1>2
<1>13. ASSUME NEW d \in Nat, d < D PROVE SameStreams(d)
  <2>1. Streams(prn)[n].level # d
    BY <1>3, <1>4, <1>13
  <2> QED
    BY <1>1, <1>2, <1>6, <1>11, <1>12, <2>1, NotGone DEF SameStreams, DivertedOf, RestoresOf
<1>14. ~DivertedOf(prn', Gone', D) /\ ~RestoresOf(prn', Gone', D)
  <2>1. \A j \in DOMAIN Streams(prn') : Streams(prn')[j].level # D
    BY <1>3, <1>6, <1>7
  <2> QED
    BY <2>1, NotGone DEF DivertedOf, RestoresOf
<1>15. DivertedOf(prn, Gone, D) /\ (RestoresOf(prn, Gone, D) <=> y)
  <2>1. n \in DOMAIN Streams(prn) /\ Streams(prn)[n].level = D
    BY <1>2, <1>4
  <2>2. \A j \in DOMAIN Streams(prn) : Streams(prn)[j].level = D => j = n
    BY <1>2, <1>3, <1>7, <1>11
  <2>3. DivertedOf(prn, Gone, D)
    BY <1>1, <2>1, NotGone DEF DivertedOf
  <2>4. RestoresOf(prn, Gone, D) <=> y
    BY <1>1, <2>1, <2>2, NotGone DEF RestoresOf, y
  <2> QED
    BY <2>3, <2>4
<1>16. \A d \in Nat : d < D => Then(d) = Now(d)
  BY <1>9, <1>13, Same DEF D
<1>17. O!Top = Now(D) /\ O!Update(Then(D))
  BY <1>1, <1>3, <1>16, <1>a, UpdateStep
<1>18. /\ MessagesOf(acts, states, D) = state.messages
       /\ OptionOf(acts, states, D) = state.option
       /\ MessagesOf(acts', states', D) = x
       /\ OptionOf(acts', states', D) = state.option
  BY <1>8, <1>a, TopRecord
<1>19. Now(D).diverted
  BY <1>15 DEF Now, ActivationOf
<1>20. Then(D) = O!Undiverted(Now(D))
  <2> DEFINE a == DivertedOf(prn, Gone, D)
             b == RestoresOf(prn, Gone, D)
             k == state.messages
             o == state.option
             A(f, g, h) == [diverted |-> f, restores |-> g, messages |-> h, option |-> o]
             ff == FALSE
  <2>1. Now(D) = A(a, b, k)
    BY <1>18 DEF Now, ActivationOf
  <2>2. Then(D) = A(ff, ff, x)
    <3>1. DivertedOf(prn', Gone', D) = ff /\ RestoresOf(prn', Gone', D) = ff
      BY <1>14, NotGone DEF DivertedOf, RestoresOf
    <3> QED
      BY <1>18, <3>1 DEF Then, ActivationOf
  <2>3. Now(D).messages = k /\ Now(D).restores = b
    BY <2>1
  <2>4. (Now(D).messages \/ Now(D).restores) = x
    BY <1>15, <1>b, <2>3 DEF x
  <2> HIDE DEF a, b, k, o, ff
  <2>5. [A(a, b, k) EXCEPT !.diverted = ff] = A(ff, b, k)
    OBVIOUS
  <2>6. [A(ff, b, k) EXCEPT !.restores = ff] = A(ff, ff, k)
    OBVIOUS
  <2>7. [A(ff, ff, k) EXCEPT !.messages = x] = A(ff, ff, x)
    OBVIOUS
  <2> HIDE DEF A
  <2>8. Then(D) = [Now(D) EXCEPT !.diverted = ff, !.restores = ff, !.messages = x]
    BY <2>1, <2>2, <2>5, <2>6, <2>7
  <2> QED
    BY <2>4, <2>8 DEF ff, O!Undiverted
<1>21. O!End
  BY <1>17, <1>19, <1>20 DEF O!End
<1>22. Recorded'
  BY <1>1 DEF Recorded
<1> QED
  BY <1>9, <1>21, <1>22 DEF O!Next, Extra

\* No redirection is left.
LEMMA Cleared ==
  ASSUME prn' = [fplist |-> << >>, fixed |-> None]
  PROVE  DOMAIN Streams(prn') = {} /\ Len(Streams(prn')) = 0
<1>1. Streams(prn') = << >>
  BY DEF Streams
<1> QED
  BY <1>1

\* The error of a command of the session ends what the session diverts.
LEMMA SessionCleared ==
  ASSUME IInv, IInv', CommandFails, acts = << >>
  PROVE  DOMAIN Streams(prn') = {} /\ Len(Streams(prn')) = 0
<1>1. prn \in Printer /\ prn' = process_command_error
  BY DEF IInv, Typed, CommandFails, LineFails
<1>2. Shorter(prn, prn')
  BY <1>1, ErrorShorter
<1>3. prn' \in Printer
  BY <1>2 DEF Shorter
<1>4. /\ Len(Streams(prn')) \in Nat /\ DOMAIN Streams(prn') = 1 .. Len(Streams(prn'))
      /\ \A j \in DOMAIN Streams(prn') : Streams(prn')[j].level \in Nat
  BY <1>3, StreamsType DEF Redirection
<1>5. Among(acts, Len(acts), Functs) = 0
  BY AmongNone
<1>6. ASSUME NEW j \in DOMAIN Streams(prn') PROVE FALSE
  <2>1. /\ Len(Streams(prn)) \in DOMAIN Streams(prn)
        /\ Streams(prn')[j].level < Streams(prn)[Len(Streams(prn))].level
    BY <1>1, <1>2, <1>6, PopKeeps DEF IInv
  <2>2. Streams(prn)[Len(Streams(prn))].level <= 0
    BY <1>5, <2>1 DEF IInv, Within
  <2>3. Streams(prn)[Len(Streams(prn))].level \in Nat
    BY <1>1, <2>1, StreamsType DEF Redirection
  <2> QED
    BY <1>4, <1>6, <2>1, <2>2, <2>3
<1>7. DOMAIN Streams(prn') = {}
  BY <1>6
<1>8. Len(Streams(prn')) = 0
  <2> SUFFICES ASSUME Len(Streams(prn')) # 0 PROVE FALSE
    OBVIOUS
  <2>1. 1 \in DOMAIN Streams(prn')
    BY <1>4
  <2> QED
    BY <1>7, <2>1
<1> QED
  BY <1>7, <1>8

\* What is ended is not one of those that whoever catches the error has.
LEMMA KeptStreams ==
  ASSUME prn \in Printer, prn' \in Printer, Rising, Gone = FALSE, Gone' = FALSE,
         Shorter(prn, prn') \/ prn' = prn, NEW c \in Nat,
         \A j \in DOMAIN Streams(prn) : Streams(prn)[j].level <= c =>
             prn' = prn \/ \E k \in DOMAIN Streams(prn) : Streams(prn)[k].level > c
  PROVE  /\ \A d \in Nat : d <= c => SameStreams(d)
         /\ \A j \in DOMAIN Streams(prn') :
               j \in DOMAIN Streams(prn) /\ Streams(prn')[j] = Streams(prn)[j]
<1>1. CASE prn' = prn
  BY <1>1 DEF SameStreams, DivertedOf, RestoresOf
<1>2. CASE prn' # prn
  <2> DEFINE n == Len(Streams(prn))
             m == Len(Streams(prn'))
  <2>1. /\ n \in Nat /\ DOMAIN Streams(prn) = 1 .. n
        /\ m \in Nat /\ DOMAIN Streams(prn') = 1 .. m
        /\ \A j \in DOMAIN Streams(prn) : Streams(prn)[j].level \in Nat
    BY StreamsType DEF Redirection
  <2>2. /\ m = IF n = 0 THEN 0 ELSE n - 1
        /\ \A j \in DOMAIN Streams(prn') :
              j \in DOMAIN Streams(prn) /\ Streams(prn')[j] = Streams(prn)[j]
    BY <1>2 DEF Shorter
  <2>a. m = IF n = 0 THEN 0 ELSE n - 1
    BY <2>2
  <2> HIDE DEF n, m
  <2>3. ASSUME NEW j \in DOMAIN Streams(prn), Streams(prn)[j].level <= c
        PROVE  j \in DOMAIN Streams(prn')
    <3>1. PICK k \in DOMAIN Streams(prn) : Streams(prn)[k].level > c
      BY <1>2, <2>3
    <3>2. j # n
      <4> SUFFICES ASSUME j = n PROVE FALSE
        OBVIOUS
      <4>1. k < j \/ k = j
        BY <2>1, <3>1
      <4>2. Streams(prn)[k].level <= Streams(prn)[j].level
        BY <2>1, <3>1, <4>1 DEF Rising
      <4> QED
        BY <2>1, <2>3, <3>1, <4>2
    <3>3. j \in 1 .. n
      BY <2>1
    <3> QED
      BY <2>1, <2>a, <3>2, <3>3
  <2>4. \A d \in Nat : d <= c => SameStreams(d)
    BY <2>2, <2>3 DEF SameStreams, DivertedOf, RestoresOf
  <2> QED
    BY <2>2, <2>4
<1> QED
  BY <1>1, <1>2

\* The error of a line that is, or was called for, by a line with catch.
LEMMA CaughtCommandRefines ==
  ASSUME RInv, IInv', Faults = {}, CommandFails, Survives(0)
  PROVE  O!Next /\ Extra'
<1>1. /\ Typed /\ Typed' /\ SavedIn(acts, states) /\ Recorded /\ IInv
      /\ prn \in Printer /\ prn' \in Printer /\ acts \in Seq(Activity)
      /\ ~err /\ acts' = acts /\ states' = states /\ vparms' = vparms
      /\ err' = (acts # << >>) /\ ~QuietSession /\ (Spared # {} => EachHasOwn)
      /\ LineFails(acts)
  BY DEF RInv, IInv, Extra, CommandFails, LineFails, Active, Typed
<1>2. err' = TRUE
  <2>1. acts # << >>
    <3> SUFFICES ASSUME acts = << >> PROVE FALSE
      OBVIOUS
    <3>1. DOMAIN acts = {}
      OBVIOUS
    <3> QED
      BY <3>1 DEF Survives
  <2> QED
    BY <1>1, <2>1
<1>3. Shorter(prn, prn') \/ prn' = prn
  <2>1. OwnOnly
    BY DEF OwnOnly
  <2> QED
    BY <1>1, <2>1, LineFailsKeeps
<1>4. CatchDepth \in Nat /\ CatchDepth < DepthOf(acts) /\ DepthOf(acts) \in Nat
  BY <1>1, CatchType, DepthIs DEF DepthOf
<1>5. CatchDepth' = CatchDepth /\ Survives(0)'
  BY <1>1 DEF CatchDepth, Survives
<1>6. PICK c \in Nat, D \in Nat : c = CatchDepth /\ D = DepthOf(acts)
  BY <1>4
<1>7. Gone = FALSE /\ Gone' = FALSE /\ Reach = D /\ Reach' = c /\ c < D
  BY <1>1, <1>2, <1>4, <1>5, <1>6 DEF Gone, Reach
<1>8. ASSUME NEW j \in DOMAIN Streams(prn), Streams(prn)[j].level <= c
      PROVE  \E k \in DOMAIN Streams(prn) : Streams(prn)[k].level > c
  <2>1. Covered(Among(acts, Len(acts), Functs))
    BY <1>1, CoveredByOwn DEF IInv
  <2>2. D \in CatchDepth + 1 .. Among(acts, Len(acts), Functs)
    BY <1>6, <1>7 DEF DepthOf
  <2>3. \E k \in DOMAIN Streams(prn) : Streams(prn)[k].level = D
    BY <1>6, <1>8, <2>1, <2>2 DEF Covered
  <2> QED
    BY <1>7, <2>3
<1>9. /\ \A d \in Nat : d <= c => SameStreams(d)
      /\ \A j \in DOMAIN Streams(prn') :
            j \in DOMAIN Streams(prn) /\ Streams(prn')[j] = Streams(prn)[j]
  <2>1. Rising
    BY <1>1 DEF IInv
  <2> QED
    BY <1>1, <1>3, <1>7, <1>8, <2>1, KeptStreams
<1>10. \A d \in Nat : d <= c => Then(d) = Now(d)
  <2>1. \A d : SameSettings(d)
    BY <1>1 DEF SameSettings
  <2> QED
    BY <1>9, <2>1, Same
<1>11. O!Fail
  <2>1. /\ c + 1 \in 1 .. Len(Activations) - 1
        /\ Activations' = SubSeq(Activations, 1, c + 1)
    BY <1>1, <1>7, <1>10, FirstOnes
  <2> QED
    BY <2>1 DEF O!Fail
<1>12. Recorded'
  <2> SUFFICES ASSUME NEW j \in DOMAIN Streams(prn'), Streams(prn')[j].level <= c,
                      vparms = "on"
               PROVE  FALSE
    BY <1>1, <1>2, <1>5, <1>6 DEF Recorded
  <2>1. j \in DOMAIN Streams(prn) /\ Streams(prn)[j].level <= c
    BY <1>9
  <2>2. /\ Len(Streams(prn)) \in Nat /\ DOMAIN Streams(prn) = 1 .. Len(Streams(prn))
        /\ print_redirection_level = Len(Streams(prn))
        /\ print_redirection_level > 0 => InForce = Streams(prn)[Len(Streams(prn))]
    BY <1>1, StreamsType, StreamsInForce
  <2>3. print_redirection_level > 0 /\ InForce.restores
    BY <1>1, <2>1, <2>2 DEF Recorded
  <2>4. Spared # {}
    BY <1>1, <1>6, <2>1, StreamsOpen DEF Spared
  <2> QED
    BY <1>1, <2>3, <2>4 DEF QuietSession
<1> QED
  BY <1>1, <1>11, <1>12 DEF O!Next, Extra

\* An error: the session is undiverted, and nothing was to be restored.
LEMMA SessionCommandRefines ==
  ASSUME RInv, IInv', Faults = {}, CommandFails, ~Survives(0)
  PROVE  O!Next /\ Extra'
<1>1. /\ Typed /\ Typed' /\ SavedIn(acts, states) /\ IInv /\ prn \in Printer
      /\ ~err /\ acts' = acts /\ states' = states /\ vparms' = vparms
      /\ err' = (acts # << >>) /\ ~QuietSession
  BY DEF RInv, IInv, Extra, CommandFails, LineFails, Active, Typed
<1>2. /\ DepthOf(acts) \in Nat /\ DepthOf(acts) >= 0
  BY <1>1, TypedShape, ShapeFacts
<1>3. err' \/ (DepthOf(acts') = 0 /\ DOMAIN Streams(prn') = {} /\ Len(Streams(prn')) = 0)
  <2>1. CASE acts = << >>
    <3>1. DepthOf(acts') = 0
      BY <1>1, <2>1, AmongNone DEF DepthOf
    <3> QED
      BY <1>1, <2>1, <3>1, SessionCleared
  <2>2. CASE acts # << >>
    BY <1>1, <2>2
  <2> QED
    BY <2>1, <2>2
<1>a. ~Survives(0)' /\ Reach' = 0
  <2>1. CatchDepth = 0 /\ CatchDepth' = CatchDepth /\ ~Survives(0)'
    BY <1>1, CatchType DEF CatchDepth, Survives, Typed
  <2> QED
    BY <1>3, <2>1 DEF Reach
<1>4. Activations' = << Then(0) >>
  BY <1>1, <1>a, ResetStep
<1>5. Activations[1] = Now(0)
  <2>1. /\ Reach \in Nat
        /\ \A i \in 1 .. Reach + 1 : Activations[i] = Now(i - 1)
    BY <1>1, ViewNow
  <2>2. 1 \in 1 .. Reach + 1
    BY <2>1
  <2>3. Activations[1] = Now(1 - 1)
    BY <2>1, <2>2
  <2> QED
    BY <2>3
<1>6. ~RestoresOf(prn, Gone, 0)
  <2> SUFFICES ASSUME NEW j \in DOMAIN Streams(prn), Streams(prn)[j].level = 0,
                      Streams(prn)[j].restores
               PROVE  FALSE
    BY NotGone DEF RestoresOf
  <2>1. j = Len(Streams(prn))
    BY <1>1 DEF IInv, LastRestores
  <2>2. /\ Len(Streams(prn)) \in Nat /\ DOMAIN Streams(prn) = 1 .. Len(Streams(prn))
        /\ print_redirection_level = Len(Streams(prn))
        /\ print_redirection_level > 0 => InForce = Streams(prn)[Len(Streams(prn))]
    BY <1>1, StreamsType, StreamsInForce
  <2>3. print_redirection_level > 0
    BY <2>2
  <2>4. InForce.level = 0 /\ InForce.restores
    BY <2>1, <2>2, <2>3
  <2> QED
    BY <1>1, <2>3, <2>4 DEF QuietSession
<1>7. ~DivertedOf(prn', Gone', 0) /\ ~RestoresOf(prn', Gone', 0)
  BY <1>3, <1>a DEF DivertedOf, RestoresOf, Gone
<1> DEFINE m == MessagesOf(acts, states, 0)
           o == OptionOf(acts, states, 0)
<1>8. m \in BOOLEAN
  BY <1>1, <1>2, TypedShape, RecordTypes
<1>9. Then(0) = O!Undiverted(Now(0))
  <2> DEFINE a == DivertedOf(prn, Gone, 0)
             ff == FALSE
             A(f, g, h) == [diverted |-> f, restores |-> g, messages |-> h, option |-> o]
  <2>1. Now(0) = A(a, ff, m)
    <3>1. RestoresOf(prn, Gone, 0) = ff
      BY <1>6, NotGone DEF RestoresOf
    <3> QED
      BY <3>1 DEF Now, ActivationOf
  <2>2. Then(0) = A(ff, ff, m)
    <3>1. DivertedOf(prn', Gone', 0) = ff /\ RestoresOf(prn', Gone', 0) = ff
      BY <1>7, NotGone DEF DivertedOf, RestoresOf
    <3> QED
      BY <1>1, <3>1 DEF Then, ActivationOf
  <2>3. Now(0).messages = m /\ Now(0).restores = ff
    BY <2>1
  <2>4. (Now(0).messages \/ Now(0).restores) = m
    BY <1>8, <2>3
  <2> HIDE DEF a, m, o, ff
  <2>5. [A(a, ff, m) EXCEPT !.diverted = ff] = A(ff, ff, m)
    OBVIOUS
  <2>6. [A(ff, ff, m) EXCEPT !.restores = ff] = A(ff, ff, m)
    OBVIOUS
  <2>7. [A(ff, ff, m) EXCEPT !.messages = m] = A(ff, ff, m)
    OBVIOUS
  <2> HIDE DEF A
  <2>8. Then(0) = [Now(0) EXCEPT !.diverted = ff, !.restores = ff, !.messages = m]
    BY <2>1, <2>2, <2>5, <2>6, <2>7
  <2> QED
    BY <2>4, <2>8 DEF ff, O!Undiverted
<1>10. O!Fail
  BY <1>4, <1>5, <1>9 DEF O!Fail
<1>11. SavedIn(acts', states')
  BY <1>1
<1>12. Recorded'
  BY <1>3, <1>a DEF Recorded
<1> QED
  BY <1>10, <1>11, <1>12 DEF O!Next, Extra

LEMMA CommandFailsRefines ==
  ASSUME RInv, IInv', Faults = {}, CommandFails
  PROVE  O!Next /\ Extra'
BY CaughtCommandRefines, SessionCommandRefines

\* While the error is on its way to whoever catches it, and when it gets there,
\* what they have is the same.
LEMMA CaughtActivityRefines ==
  ASSUME RInv, IInv', Faults = {}, ActivityFails, Survives(0)
  PROVE  Activations' = Activations /\ Extra'
<1>a. OwnOnly
  BY DEF OwnOnly
<1>1. /\ Typed /\ Typed' /\ SavedIn(acts, states) /\ Recorded /\ IInv /\ Rising
      /\ Within'
  BY DEF RInv, IInv, Extra
<1>2. /\ prn \in Printer /\ acts \in Seq(Activity) /\ acts # << >>
      /\ states' = StateAfter(Top) /\ vparms' = vparms /\ err = TRUE
      /\ prn' \in Printer /\ acts' = Front(acts) /\ acts' \in Seq(Activity)
      /\ \/ ~Top.caught /\ err' = (acts' # << >>) /\ (Shorter(prn, prn') \/ prn' = prn)
         \/ Top.caught /\ Top.kind = "func" /\ prn' = prn /\ err' = FALSE
      /\ Covered(Among(acts, Len(acts), Functs) - 1)
  BY <1>1, <1>a, ActivityFailsFacts
<1>3. SavedIn(acts', states')
  BY <1>1, <1>2, EndedBlock, EndedFunction
<1>4. CatchDepth \in Nat
  BY <1>2, CatchType
<1>5. PICK c \in Nat : c = CatchDepth
  BY <1>4
<1>6. Reach = c /\ Gone = FALSE
  BY <1>2, <1>5 DEF Reach, Gone
<1>7. CASE Top.caught
  <2>1. err' = FALSE /\ prn' = prn /\ Top.kind = "func"
    BY <1>2, <1>7
  <2>2. c = DepthOf(acts') /\ Reach' = c /\ Gone' = FALSE
    BY <1>2, <1>5, <1>7, <2>1, CatchPopped DEF Reach, Gone, DepthOf
  <2>3. \A d \in Nat : d <= c => SameSettings(d)
    BY <1>1, <1>2, <2>1, <2>2, EndedFunction
  <2>4. \A d : SameStreams(d)
    BY <1>6, <2>1, <2>2 DEF SameStreams, DivertedOf, RestoresOf
  <2>5. \A d \in Nat : d <= c => Then(d) = Now(d)
    BY <2>3, <2>4, Same
  <2>6. Activations' = Activations
    BY <1>1, <1>6, <2>2, <2>5, SameView
  <2>7. Recorded'
    <3> SUFFICES ASSUME vparms = "on", Len(Streams(prn)) > 0 PROVE FALSE
      BY <1>2, <2>1 DEF Recorded
    <3>1. 1 \in DOMAIN Streams(prn)
      BY <1>2, StreamsType
    <3>2. Streams(prn)[1].level <= CatchDepth
      BY <1>1, <1>5, <2>1, <2>2, <3>1 DEF Within, DepthOf
    <3> QED
      BY <1>1, <1>2, <3>1, <3>2 DEF Recorded
  <2> QED
    BY <1>3, <2>6, <2>7 DEF Extra
<1>8. CASE ~Top.caught
  <2>1. CatchDepth' = CatchDepth /\ Survives(0)'
    BY <1>2, <1>8, CatchPopped
  <2>2. err' = TRUE /\ (Shorter(prn, prn') \/ prn' = prn)
    <3>1. acts' # << >>
      <4> SUFFICES ASSUME acts' = << >> PROVE FALSE
        OBVIOUS
      <4>1. DOMAIN acts' = {}
        OBVIOUS
      <4> QED
        BY <2>1, <4>1 DEF Survives
    <3> QED
      BY <1>2, <1>8, <3>1
  <2>3. Reach' = c /\ Gone' = FALSE
    BY <1>5, <2>1, <2>2 DEF Reach, Gone
  <2>4. c < DepthOf(acts') /\ DepthOf(acts') \in Nat
    <3>1. DepthOf(acts') \in Nat
      BY <1>2, LenProperties, AmongFinite DEF DepthOf
    <3> QED
      BY <1>2, <1>5, <2>1, <3>1, CatchBelowNext DEF CatchBelow, DepthOf
  <2>5. /\ \A d \in Nat : d <= c => SameSettings(d)
        /\ DepthOf(acts) = DepthOf(acts') + IF Top.kind = "func" THEN 1 ELSE 0
    <3>1. CASE Top.kind = "func"
      <4>1. /\ DepthOf(acts) = DepthOf(acts') + 1
            /\ \A d \in Nat : d <= DepthOf(acts') => SameSettings(d)
        BY <1>1, <1>2, <3>1, EndedFunction
      <4> QED
        BY <2>4, <3>1, <4>1
    <3>2. CASE Top.kind # "func"
      <4>1. /\ DepthOf(acts') = DepthOf(acts)
            /\ \A d \in Nat : d < DepthOf(acts) => SameSettings(d)
        BY <1>1, <1>2, <3>2, EndedBlock
      <4> QED
        BY <2>4, <3>2, <4>1
    <3> QED
      BY <3>1, <3>2
  <2>6. ASSUME NEW j \in DOMAIN Streams(prn), Streams(prn)[j].level <= c
        PROVE  \E k \in DOMAIN Streams(prn) : Streams(prn)[k].level > c
    <3>1. /\ \A i \in DOMAIN acts : ~Survives(i) => acts[i].kind = "func"
          /\ \A d \in CatchDepth + 1 .. DepthOf(acts) - 1 :
                 \E k \in DOMAIN Streams(prn) : Streams(prn)[k].level = d
      BY <1>2, <1>5, <2>6 DEF Covered, DepthOf
    <3>2. Len(acts) \in DOMAIN acts /\ ~Survives(Len(acts)) /\ Top = acts[Len(acts)]
      <4>1. Len(acts) \in Nat \ {0} /\ DOMAIN acts = 1 .. Len(acts)
        BY <1>2, LenProperties, EmptySeq
      <4> QED
        BY <4>1 DEF Survives, Top, Last
    <3>3. DepthOf(acts) - 1 \in CatchDepth + 1 .. DepthOf(acts) - 1
      BY <1>5, <2>4, <2>5, <3>1, <3>2
    <3>4. DepthOf(acts) - 1 > c
      BY <2>4, <2>5, <3>1, <3>2
    <3> QED
      BY <3>1, <3>3, <3>4
  <2>7. /\ \A d \in Nat : d <= c => SameStreams(d)
        /\ \A j \in DOMAIN Streams(prn') :
              j \in DOMAIN Streams(prn) /\ Streams(prn')[j] = Streams(prn)[j]
    BY <1>1, <1>2, <1>6, <2>2, <2>3, <2>6, KeptStreams
  <2>8. \A d \in Nat : d <= c => Then(d) = Now(d)
    BY <2>5, <2>7, Same
  <2>9. Activations' = Activations
    BY <1>1, <1>6, <2>3, <2>8, SameView
  <2>10. Recorded'
    BY <1>1, <1>2, <2>1, <2>2, <2>7 DEF Recorded
  <2> QED
    BY <1>3, <2>9, <2>10 DEF Extra
<1> QED
  BY <1>7, <1>8

\* An error on its way, and the return to the session: the step is one of "set".
LEMMA UncaughtActivityRefines ==
  ASSUME RInv, IInv', Faults = {}, Next, ActivityFails, ~Survives(0)
  PROVE  O!Next /\ Extra'
<1>a. OwnOnly /\ IInv
  BY DEF OwnOnly, RInv
<1>b. ~Top.caught
  BY <1>a, ActivityFailsFacts, CatchPopped
<1>1. /\ Typed /\ Typed' /\ SavedIn(acts, states) /\ IInv /\ acts # << >>
      /\ err = TRUE /\ acts' = Front(acts) /\ states' = StateAfter(Top)
      /\ vparms' = vparms /\ err' = (acts' # << >>) /\ acts \in Seq(Activity)
  BY <1>a, <1>b, ActivityFailsFacts DEF RInv, IInv, Extra
<1>2. SavedIn(acts', states')
  BY <1>1, EndedBlock, EndedFunction
<1>3. err' \/ (DepthOf(acts') = 0 /\ DOMAIN Streams(prn') = {} /\ Len(Streams(prn')) = 0)
  <2>1. CASE acts' = << >>
    <3>1. DepthOf(acts') = 0
      BY <2>1, AmongNone DEF DepthOf
    <3>2. ~err' /\ OwnOnly
      BY <1>1, <2>1 DEF OwnOnly
    <3> QED
      BY <1>1, <1>b, <3>1, <3>2, NothingLeftStep, Cleared
  <2>2. CASE acts' # << >>
    BY <1>1, <2>2
  <2> QED
    BY <2>1, <2>2
<1>c. ~Survives(0)' /\ Reach' = 0 /\ Reach = 0 /\ Gone = TRUE
  <2>1. CatchDepth = 0 /\ CatchDepth' = CatchDepth /\ ~Survives(0)'
    BY <1>1, <1>b, CatchType, CatchPopped
  <2> QED
    BY <1>1, <1>3, <2>1 DEF Reach, Gone
<1>4. Activations' = << Then(0) >>
  BY <1>1, <1>c, ResetStep
<1>5. Activations = << Now(0) >>
  <2> DEFINE F == Activations
  <2>1. Reach = 0
    BY <1>c
  <2>2. F \in Seq(O!Activation) /\ Len(F) = 1 /\ F[1] = Now(0)
    <3>1. /\ F \in Seq(O!Activation) /\ Len(F) = 1
          /\ \A i \in 1 .. 1 : F[i] = Now(i - 1)
      BY <1>1, <2>1, ViewNow
    <3>2. 1 \in 1 .. 1 /\ 1 - 1 = 0
      OBVIOUS
    <3> HIDE DEF F
    <3> QED
      BY <3>1, <3>2
  <2> HIDE DEF F
  <2>3. F[1] \in O!Activation
    BY <2>2, ElementOfSeq
  <2>4. << F[1] >> \in Seq(O!Activation) /\ Len(<< F[1] >>) = 1 /\ << F[1] >>[1] = F[1]
    BY <2>3
  <2>5. \A i \in 1 .. 1 : F[i] = << F[1] >>[i]
    BY <2>4
  <2>6. F = << F[1] >>
    BY <2>2, <2>4, <2>5, SeqSame
  <2> QED
    BY <2>2, <2>6 DEF F
<1> DEFINE m == MessagesOf(acts', states', 0)
           o == OptionOf(acts', states', 0)
<1>6. m \in BOOLEAN /\ o \in Options
  <2>1. Shape(acts', states') /\ DepthOf(acts') \in Nat
    BY <1>1, TypedShape, ShapeFacts
  <2>2. 0 \in Nat /\ 0 <= DepthOf(acts')
    BY <2>1
  <2> QED
    BY <2>1, <2>2, RecordTypes
<1>7. Then(0) = [Now(0) EXCEPT !.messages = m, !.option = o]
  <2> DEFINE ff == FALSE
             x == MessagesOf(acts, states, 0)
             y == OptionOf(acts, states, 0)
             A(k, l) == [diverted |-> ff, restores |-> ff, messages |-> k, option |-> l]
  <2>1. DivertedOf(prn, Gone, 0) = ff /\ RestoresOf(prn, Gone, 0) = ff
    BY <1>c DEF DivertedOf, RestoresOf
  <2>2. DivertedOf(prn', Gone', 0) = ff /\ RestoresOf(prn', Gone', 0) = ff
    BY <1>3, <1>c DEF DivertedOf, RestoresOf, Gone
  <2>3. Now(0) = A(x, y)
    BY <2>1 DEF Now, ActivationOf
  <2>4. Then(0) = A(m, o)
    BY <2>2 DEF Then, ActivationOf
  <2> HIDE DEF ff, x, y, m, o
  <2>5. [A(x, y) EXCEPT !.messages = m] = A(m, y)
    OBVIOUS
  <2>6. [A(m, y) EXCEPT !.option = o] = A(m, o)
    OBVIOUS
  <2> HIDE DEF A
  <2> QED
    BY <2>3, <2>4, <2>5, <2>6
<1> HIDE DEF m, o
<1>8. O!Set(m, o)
  <2>1. O!Top = Now(0) /\ Front(Activations) = << >>
    <3>1. Last(<< Now(0) >>) = Now(0) /\ Front(<< Now(0) >>) = << >>
      BY DEF Last, Front
    <3> QED
      BY <1>5, <3>1, SequenceOps DEF O!Top
  <2>2. Activations' = Append(<< >>, Then(0))
    BY <1>4
  <2>3. O!Update(Then(0))
    BY <2>1, <2>2, SequenceOps DEF O!Update
  <2> QED
    BY <1>7, <2>1, <2>3 DEF O!Set
<1>9. Recorded'
  BY <1>3, <1>c DEF Recorded
<1> QED
  BY <1>2, <1>6, <1>8, <1>9 DEF O!Next, Extra

LEMMA ActivityFailsRefines ==
  ASSUME RInv, IInv', Faults = {}, Next, ActivityFails
  PROVE  (O!Next \/ UNCHANGED Activations) /\ Extra'
BY CaughtActivityRefines, UncaughtActivityRefines

\* All steps.
LEMMA OutputsNext ==
  ASSUME RInv, IInv', Faults = {}, [Next]_vars
  PROVE  (O!Next \/ UNCHANGED Activations) /\ RInv'
<1>1. CASE Next
  <2>1. ASSUME NEW null \in BOOLEAN, NEW quiet \in BOOLEAN, Outfile(null, quiet)
        PROVE  O!Next /\ Extra'
    BY <2>1, OutfileRefines
  <2>2. ASSUME EndOutfile PROVE O!Next /\ Extra'
    BY <2>2, EndOutfileRefines
  <2>3. ASSUME NEW m \in BOOLEAN, NEW o \in Options, Set(m, o)
        PROVE  O!Next /\ Extra'
    BY <2>3, SetRefines
  <2>4. ASSUME NEW uses \in BOOLEAN, NEW caught \in BOOLEAN, Call(uses, caught)
        PROVE  O!Next /\ Extra'
    BY <2>4, CallRefines
  <2>5. ASSUME NEW b \in BOOLEAN, StartLoop(b) \/ Run(b) PROVE O!Next /\ Extra'
    BY <2>5, BlockRefines
  <2>6. ASSUME End PROVE O!Next /\ Extra'
    BY <2>6, EndRefines
  <2>7. ASSUME CommandFails PROVE O!Next /\ Extra'
    BY <2>7, CommandFailsRefines
  <2>8. ASSUME ActivityFails PROVE (O!Next \/ UNCHANGED Activations) /\ Extra'
    BY <1>1, <2>8, ActivityFailsRefines
  <2>9. (O!Next \/ UNCHANGED Activations) /\ Extra'
    BY <1>1, <2>1, <2>2, <2>3, <2>4, <2>5, <2>6, <2>7, <2>8 DEF Next
  <2> QED
    BY <2>9 DEF RInv
<1>2. CASE UNCHANGED vars
  <2>1. View(acts', states', prn', Gone', Reach') = View(acts, states, prn, Gone, Reach)
    BY <1>2 DEF vars, Gone, Reach, Survives, CatchDepth
  <2>2. Activations' = Activations
    BY <2>1, Mapping, MappingNext DEF RInv, IInv
  <2>3. SavedIn(acts', states') /\ Recorded'
    BY <1>2 DEF vars, RInv, Extra, Recorded, Survives, CatchDepth
  <2> QED
    BY <2>2, <2>3 DEF RInv, Extra
<1> QED
  BY <1>1, <1>2

\* The start: the session, undiverted.
LEMMA OutputsInit == Init => RInv /\ O!Init
<1> SUFFICES ASSUME Init PROVE RInv /\ O!Init
  OBVIOUS
<1>1. IInv /\ Typed /\ acts = << >> /\ Len(acts) = 0 /\ ~err /\ vparms = "unset"
      /\ prn = [fplist |-> << >>, fixed |-> None]
  BY InvInit DEF Init, IInv
<1>2. Extra
  BY <1>1 DEF Extra, SavedIn, Recorded
<1>3. DepthOf(acts) = 0 /\ Reach = 0
  BY <1>1, AmongNone DEF DepthOf, Reach
<1> DEFINE F == Activations
<1>4. F \in Seq(O!Activation) /\ Len(F) = 1 /\ F[1] = Now(0)
  BY <1>1, <1>3, ViewNow
<1> HIDE DEF F
<1>5. F[1] \in O!Activation
  BY <1>4, ElementOfSeq
<1>6. F = << F[1] >>
  <2>1. << F[1] >> \in Seq(O!Activation) /\ Len(<< F[1] >>) = 1 /\ << F[1] >>[1] = F[1]
    BY <1>5
  <2>2. \A i \in 1 .. 1 : F[i] = << F[1] >>[i]
    BY <2>1
  <2> QED
    BY <1>4, <2>1, <2>2, SeqSame
<1>7. ~Now(0).diverted /\ ~Now(0).restores
  <2>1. Streams(prn) = << >>
    BY <1>1 DEF Streams
  <2>2. ~DivertedOf(prn, Gone, 0) /\ ~RestoresOf(prn, Gone, 0)
    BY <2>1, NotGone DEF DivertedOf, RestoresOf
  <2> QED
    BY <2>2 DEF Now, ActivationOf
<1>8. O!Init
  BY <1>4, <1>5, <1>6, <1>7 DEF O!Init, F
<1> QED
  BY <1>1, <1>2, <1>8 DEF RInv

(* The one printer with its stack of streams, the stack of states that     *)
(* functions share, and the one copy vparms give the session and each      *)
(* function a redirection, messages and settings of their own.             *)
THEOREM OutputsImplemented == ASSUME Faults = {} PROVE Spec => ImplementsOutputs
<1>1. RInv /\ IInv' /\ [Next]_vars => [O!Next]_Activations /\ RInv'
  BY OutputsNext
<1>2. OwnOnly
  BY DEF OwnOnly
<1>3. Spec => []IInv
  BY <1>2, Invariant
<1> QED
  BY OutputsInit, <1>1, <1>3, PTL DEF Spec, ImplementsOutputs, O!Spec
=============================================================================
