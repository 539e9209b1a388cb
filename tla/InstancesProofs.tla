-------------------------- MODULE InstancesProofs ---------------------------
(***************************************************************************)
(* Proofs about Instances, for any set of processes: as long as no two     *)
(* rewrite the file at the same time, every instance is in it with the     *)
(* number it shows and no two show the same; as long as no request is      *)
(* written over another, each is found by the process signalled for it;    *)
(* and then the whole implements a registry.                               *)
(***************************************************************************)
EXTENDS Instances, TLAPS

(***************************************************************************)
(* The inductive invariant.  While a process is rewriting the file what it *)
(* is about to write says of the instances what the file says, so that     *)
(* those which close, crash or are asked to open something meanwhile make  *)
(* no difference; a process that registers comes after all the others.     *)
(***************************************************************************)
LinesDiffer(L) == \A p, q \in Pids : L[p] # 0 /\ L[p] = L[q] => p = q

Exclusive == "overlap" \notin Faults =>
                \A p, q \in Pids : stage[p] # "no" /\ stage[q] # "no" => p = q

TInv == TypeOK /\ Exclusive

SeqOK == \A p \in Pids :
            \/ seq[p] = 0
            \/ pc[p] \in {"setup", "open", "closing"}
            \/ pc[p] = "new" /\ stage[p] = "kept"

FileOK == file # NoFile => LinesDiffer(file)

TmpOK == \A p \in Pids : stage[p] = "kept" =>
            /\ tmp # NoFile /\ LinesDiffer(tmp)
            /\ \A q \in Pids : IsInstance(q) => tmp[q] = Number(q)
            /\ pc[p] = "new" => /\ seq[p] # 0 /\ tmp[p] = seq[p]
                                /\ \A q \in Pids : q # p => tmp[q] < tmp[p]

IInv == TInv /\ SeqOK /\ AllInFile /\ FileOK /\ TmpOK

\* The part about requests: what a process is about to signal for is there, and
\* nothing else is on its way to the same instance.
Sent == \A p \in Pids : pc[p] = "send" =>
            request[prior[p]] = p /\ ~sig[prior[p]]

ShownOK == \A p \in Pids : shown[p] # None => HasHandler(p)

RInv == TInv /\ Sent /\ RequestThere /\ ShownOK

(***************************************************************************)
(* Types                                                                   *)
(***************************************************************************)

LEMMA LinesTypes ==
  ASSUME TypeOK, NEW p \in Pids
  PROVE  ValidLines(p) \in Lines /\ OthersLines(p) \in Lines /\ NoLines \in Lines
  BY InstancesAssumption DEF TypeOK, Lines, ValidLines, OthersLines, NoLines

LEMMA EndedType ==
  ASSUME TypeOK, NEW P, Ended(P)
  PROVE  /\ seq' \in [Pids -> 0 .. MaxNumber]
         /\ prior' \in [Pids -> Pids \cup {None}]
         /\ shown' \in [Pids -> Pids \cup {None}]
  BY InstancesAssumption DEF TypeOK, Ended

LEMMA TypeInit == Init => TInv
  BY InstancesAssumption DEF Init, TInv, TypeOK, Exclusive, Steps

LEMMA StartingTypes ==
  ASSUME TInv, NEW p \in Pids,
         \/ Start(p) \/ FindNone(p) \/ Refuse(p) \/ WriteRequest(p) \/ SignalFails(p)
         \/ Ready(p) \/ Handle(p) \/ Close(p)
  PROVE  TInv'
<1>1. CASE Start(p)
  BY <1>1 DEF Start, TInv, TypeOK, Exclusive, Steps
<1>2. CASE FindNone(p)
  BY <1>2 DEF FindNone, TInv, TypeOK, Exclusive, Steps
<1>3. CASE Refuse(p)
  BY <1>3 DEF Refuse, TInv, TypeOK, Exclusive, Steps
<1>4. CASE WriteRequest(p)
  BY <1>4 DEF WriteRequest, TInv, TypeOK, Exclusive, Steps
<1>5. CASE SignalFails(p)
  BY <1>5 DEF SignalFails, TInv, TypeOK, Exclusive, Steps
<1>6. CASE Ready(p)
  BY <1>6 DEF Ready, TInv, TypeOK, Exclusive, Steps
<1>7. CASE Handle(p)
  BY <1>7 DEF Handle, HasHandler, TInv, TypeOK, Exclusive, Steps
<1>8. CASE Close(p)
  BY <1>8 DEF Close, TInv, TypeOK, Exclusive, Steps
<1> QED
  BY <1>1, <1>2, <1>3, <1>4, <1>5, <1>6, <1>7, <1>8

LEMMA FindPriorTypes ==
  ASSUME TInv, NEW p \in Pids, FindPrior(p) PROVE TInv'
<1>1. PICK q \in Pids : prior' = [prior EXCEPT ![p] = q]
  BY DEF FindPrior
<1>2. pc[p] = "start" /\ stage[p] = "no" /\ q # None
  BY InstancesAssumption DEF FindPrior, TInv, TypeOK
<1>3. UNCHANGED <<file, seq, request, sig, shown>>
  BY DEF FindPrior
<1>4. CASE pc' = [pc EXCEPT ![p] = "ask"] /\ UNCHANGED <<stage, tmp>>
  BY <1>1, <1>2, <1>3, <1>4 DEF TInv, TypeOK, Exclusive, Steps
<1>5. CASE /\ pc' = [pc EXCEPT ![p] = "prune"]
           /\ tmp' = ValidLines(p)
           /\ stage' = [stage EXCEPT ![p] = "kept"]
  <2>1. TypeOK'
    BY <1>1, <1>2, <1>3, <1>5, LinesTypes DEF TInv, TypeOK, Steps
  <2>2. Exclusive'
    BY <1>5 DEF FindPrior, Idle, Exclusive, TInv, TypeOK
  <2> QED
    BY <2>1, <2>2 DEF TInv
<1> QED
  BY <1>4, <1>5 DEF FindPrior

LEMMA SignalTypes ==
  ASSUME TInv, NEW p \in Pids, Signal(p) PROVE TInv'
<1> DEFINE t == prior[p]
           killed == {q \in {t} : ~HasHandler(q)}
<1>1. /\ sig' = [sig EXCEPT ![t] = HasHandler(t)]
      /\ pc' = [q \in Pids |-> IF q \in {p} \cup killed THEN "none" ELSE pc[q]]
      /\ stage' = [q \in Pids |-> IF q \in killed THEN "no" ELSE stage[q]]
      /\ Ended({p} \cup killed)
      /\ UNCHANGED <<file, tmp, request>>
  BY DEF Signal
<1>2. pc[p] = "send" /\ stage[p] = "no" /\ t \in Pids
  BY DEF Signal, TInv, TypeOK
<1>3. HasHandler(t) \in BOOLEAN
  BY DEF HasHandler
<1>4. \A q \in Pids : q \in {p} \cup killed =>
          pc'[q] = "none" /\ prior'[q] = None /\ stage'[q] = "no"
  BY <1>1, <1>2 DEF Ended, TInv, TypeOK
<1>5. \A q \in Pids : q \notin {p} \cup killed =>
          pc'[q] = pc[q] /\ prior'[q] = prior[q] /\ stage'[q] = stage[q]
  BY <1>1, <1>2 DEF Ended, TInv, TypeOK
<1> HIDE DEF killed, t
<1>6. TypeOK'
  <2>1. /\ pc' \in [Pids -> Steps] /\ stage' \in [Pids -> {"no", "first", "kept"}]
        /\ sig' \in [Pids -> BOOLEAN]
    BY <1>1, <1>3 DEF TInv, TypeOK, Steps
  <2>2. /\ seq' \in [Pids -> 0 .. MaxNumber]
        /\ prior' \in [Pids -> Pids \cup {None}]
        /\ shown' \in [Pids -> Pids \cup {None}]
    BY <1>1, EndedType DEF TInv
  <2>3. file' \in Lines \cup {NoFile} /\ tmp' \in Lines \cup {NoFile}
        /\ request' \in [Pids -> Pids \cup {None}]
    BY <1>1 DEF TInv, TypeOK
  <2>4. ASSUME NEW q \in Pids
        PROVE /\ pc'[q] \in {"ask", "prune", "send"} <=> prior'[q] # None
              /\ stage'[q] # "no" => pc'[q] \in {"prune", "new", "closing"}
              /\ stage'[q] = "first" =>
                    pc'[q] = "new" /\ ("overlap" \notin Faults => file' = NoFile)
    BY <1>1, <1>4, <1>5 DEF TInv, TypeOK
  <2> QED
    BY <2>1, <2>2, <2>3, <2>4 DEF TypeOK
<1>7. Exclusive'
  BY <1>4, <1>5 DEF TInv, Exclusive
<1> QED
  BY <1>6, <1>7 DEF TInv

LEMMA DieTypes == ASSUME TInv, NEW p \in Pids, Die(p) PROVE TInv'
<1>1. TypeOK'
  <2>1. /\ seq' \in [Pids -> 0 .. MaxNumber]
        /\ prior' \in [Pids -> Pids \cup {None}]
        /\ shown' \in [Pids -> Pids \cup {None}]
    BY EndedType DEF TInv, Die
  <2> QED
    BY <2>1 DEF Die, Ended, TInv, TypeOK, Steps
<1>2. Exclusive'
  BY DEF Die, TInv, TypeOK, Exclusive
<1> QED
  BY <1>1, <1>2 DEF TInv

LEMMA FileTypes ==
  ASSUME TInv, NEW p \in Pids,
         RegisterFirst(p) \/ WriteFirst(p) \/ Register(p) \/ Unregister(p)
  PROVE  TInv'
<1>1. CASE RegisterFirst(p)
  BY <1>1 DEF RegisterFirst, Idle, TInv, TypeOK, Exclusive, Steps
<1>2. CASE WriteFirst(p)
  <2>1. pc[p] = "new" /\ prior[p] = None
    BY <1>2 DEF WriteFirst, TInv, TypeOK
  <2>2. file' \in Lines
    BY <1>2, InstancesAssumption DEF WriteFirst, Lines, NoLines
  <2>3. TypeOK'
    BY <1>2, <2>1, <2>2 DEF WriteFirst, TInv, TypeOK, Exclusive, Steps
  <2>4. Exclusive'
    BY <1>2 DEF WriteFirst, TInv, TypeOK, Exclusive
  <2> QED
    BY <2>3, <2>4 DEF TInv
<1>3. CASE Register(p)
  <2>1. PICK n \in 1 .. MaxNumber :
            tmp' = [ValidLines(p) EXCEPT ![p] = n] /\ seq' = [seq EXCEPT ![p] = n]
    BY <1>3 DEF Register
  <2>2. tmp' \in Lines /\ seq' \in [Pids -> 0 .. MaxNumber]
    BY <2>1, LinesTypes, InstancesAssumption DEF TInv, TypeOK, Lines
  <2>3. TypeOK'
    BY <1>3, <2>2 DEF Register, TInv, TypeOK
  <2>4. Exclusive'
    BY <1>3 DEF Register, Idle, TInv, TypeOK, Exclusive
  <2> QED
    BY <2>3, <2>4 DEF TInv
<1>4. CASE Unregister(p)
  <2>1. TypeOK'
    BY <1>4, LinesTypes DEF Unregister, TInv, TypeOK
  <2>2. Exclusive'
    BY <1>4 DEF Unregister, Idle, TInv, TypeOK, Exclusive
  <2> QED
    BY <2>1, <2>2 DEF TInv
<1> QED
  BY <1>1, <1>2, <1>3, <1>4

LEMMA CopiedTypes ==
  ASSUME TInv, NEW p \in Pids,
         UnregisterLast(p) \/ Pruned(p) \/ Registered(p) \/ Unregistered(p)
  PROVE  TInv'
<1>1. CASE UnregisterLast(p)
  <2>1. TypeOK'
    <3>1. /\ seq' \in [Pids -> 0 .. MaxNumber]
          /\ prior' \in [Pids -> Pids \cup {None}]
          /\ shown' \in [Pids -> Pids \cup {None}]
      BY <1>1, EndedType DEF TInv, UnregisterLast
    <3> QED
      BY <1>1, <3>1 DEF UnregisterLast, Ended, TInv, TypeOK, Steps
  <2>2. Exclusive'
    BY <1>1 DEF UnregisterLast, TInv, Exclusive
  <2> QED
    BY <2>1, <2>2 DEF TInv
<1>2. CASE Pruned(p)
  BY <1>2 DEF Pruned, Copied, TInv, TypeOK, Exclusive, Steps
<1>3. CASE Registered(p)
  BY <1>3 DEF Registered, Copied, TInv, TypeOK, Exclusive, Steps
<1>4. CASE Unregistered(p)
  <2>1. TypeOK'
    <3>1. /\ seq' \in [Pids -> 0 .. MaxNumber]
          /\ prior' \in [Pids -> Pids \cup {None}]
          /\ shown' \in [Pids -> Pids \cup {None}]
      BY <1>4, EndedType DEF TInv, Unregistered
    <3> QED
      BY <1>4, <3>1 DEF Unregistered, Copied, Ended, TInv, TypeOK, Exclusive, Steps
  <2>2. Exclusive'
    BY <1>4 DEF Unregistered, Copied, TInv, TypeOK, Exclusive
  <2> QED
    BY <2>1, <2>2 DEF TInv
<1> QED
  BY <1>1, <1>2, <1>3, <1>4

LEMMA TypeNext == TInv /\ [Next]_vars => TInv'
<1> SUFFICES ASSUME TInv, [Next]_vars PROVE TInv'
  OBVIOUS
<1>1. CASE Next
  BY <1>1, StartingTypes, FindPriorTypes, SignalTypes, DieTypes, FileTypes, CopiedTypes
  DEF Next
<1>2. CASE UNCHANGED vars
  BY <1>2 DEF vars, TInv, TypeOK, Exclusive
<1> QED
  BY <1>1, <1>2

(* The two files, the sequence numbers and what a process has found stay   *)
(* within their types, whatever the processes race for.                    *)
THEOREM TypeCorrect == Spec => []TypeOK
<1>1. TInv => TypeOK
  BY DEF TInv
<1> QED
  BY TypeInit, TypeNext, <1>1, PTL DEF Spec

(***************************************************************************)
(* The file                                                                *)
(***************************************************************************)

LEMMA NumberFacts ==
  ASSUME TypeOK, NEW q \in Pids
  PROVE  Number(q) \in Nat \ {0}
  BY InstancesAssumption DEF TypeOK, Number

(* What a process keeps of the file has the lines of all other instances.  *)
LEMMA KeptLines ==
  ASSUME IInv, NEW p \in Pids, NEW L \in {ValidLines(p), OthersLines(p)}
  PROVE  /\ LinesDiffer(L)
         /\ \A q \in Pids : IsInstance(q) /\ q # p => L[q] = Number(q)
         /\ L = NoLines => \A q \in Pids : IsInstance(q) => q = p
<1>1. \A q \in Pids : L[q] # 0 => file # NoFile /\ L[q] = file[q]
  BY DEF ValidLines, OthersLines
<1>2. LinesDiffer(L)
  BY <1>1 DEF IInv, FileOK, LinesDiffer
<1>3. \A q \in Pids : IsInstance(q) /\ q # p => L[q] = Number(q)
  BY DEF IInv, AllInFile, IsInstance, ValidLines, OthersLines, PidIsValid
<1>4. L = NoLines => \A q \in Pids : IsInstance(q) => q = p
  BY <1>3, NumberFacts DEF NoLines, IInv, TInv
<1> QED
  BY <1>2, <1>3, <1>4

LEMMA FileInit == Init => IInv
<1> SUFFICES ASSUME Init PROVE IInv
  OBVIOUS
<1> QED
  BY TypeInit DEF Init, IInv, SeqOK, AllInFile, FileOK, TmpOK, IsInstance

(* A step that leaves the files alone and makes no instance.               *)
LEMMA UnwrittenInv ==
  ASSUME IInv, TInv', SeqOK', UNCHANGED <<file, tmp>>,
         \A q \in Pids : IsInstance(q)' => IsInstance(q) /\ seq'[q] = seq[q],
         \A q \in Pids : stage'[q] = "kept" =>
            stage[q] = "kept" /\ seq'[q] = seq[q] /\ (pc'[q] = "new" => pc[q] = "new")
  PROVE  IInv'
<1>1. \A q \in Pids : IsInstance(q)' => Number(q)' = Number(q)
  BY DEF Number
<1>2. AllInFile'
  BY <1>1 DEF IInv, AllInFile
<1>3. FileOK'
  BY DEF IInv, FileOK, LinesDiffer
<1>4. TmpOK'
  <2> SUFFICES ASSUME NEW q \in Pids, stage'[q] = "kept"
      PROVE /\ tmp # NoFile /\ LinesDiffer(tmp)
            /\ \A r \in Pids : IsInstance(r)' => tmp[r] = Number(r)'
            /\ pc'[q] = "new" => /\ seq'[q] # 0 /\ tmp[q] = seq'[q]
                                 /\ \A r \in Pids : r # q => tmp[r] < tmp[q]
    BY DEF TmpOK, LinesDiffer
  <2> QED
    BY <1>1 DEF IInv, TmpOK
<1> QED
  BY <1>2, <1>3, <1>4 DEF IInv

LEMMA QuietInv ==
  ASSUME IInv, TInv', NEW p \in Pids,
         \/ Start(p) \/ Refuse(p) \/ WriteRequest(p) \/ SignalFails(p)
         \/ Ready(p) \/ Handle(p) \/ Close(p) \/ RegisterFirst(p)
  PROVE  IInv'
<1>1. CASE Start(p)
  BY <1>1, UnwrittenInv DEF Start, IInv, TInv, TypeOK, SeqOK, IsInstance
<1>2. CASE Refuse(p)
  BY <1>2, UnwrittenInv DEF Refuse, IInv, TInv, TypeOK, SeqOK, IsInstance
<1>3. CASE WriteRequest(p)
  BY <1>3, UnwrittenInv DEF WriteRequest, IInv, TInv, TypeOK, SeqOK, IsInstance
<1>4. CASE SignalFails(p)
  BY <1>4, UnwrittenInv DEF SignalFails, IInv, TInv, TypeOK, SeqOK, IsInstance
<1>5. CASE Ready(p)
  BY <1>5, UnwrittenInv DEF Ready, IInv, TInv, TypeOK, SeqOK, IsInstance
<1>6. CASE Handle(p)
  BY <1>6, UnwrittenInv DEF Handle, IInv, TInv, TypeOK, SeqOK, IsInstance
<1>7. CASE Close(p)
  BY <1>7, UnwrittenInv DEF Close, IInv, TInv, TypeOK, SeqOK, IsInstance
<1>8. CASE RegisterFirst(p)
  BY <1>8, UnwrittenInv DEF RegisterFirst, IInv, TInv, TypeOK, SeqOK, IsInstance
<1> QED
  BY <1>1, <1>2, <1>3, <1>4, <1>5, <1>6, <1>7, <1>8

LEMMA EndingInv ==
  ASSUME IInv, TInv', NEW p \in Pids, Signal(p) \/ Die(p) PROVE IInv'
<1>1. CASE Signal(p)
  <2> DEFINE P == {p} \cup {q \in {prior[p]} : ~HasHandler(q)}
  <2>1. /\ pc' = [q \in Pids |-> IF q \in P THEN "none" ELSE pc[q]]
        /\ \A q \in Pids : stage'[q] = stage[q] \/ stage'[q] = "no"
        /\ \A q \in Pids : q \in P => stage'[q] = "no"
        /\ \A q \in Pids : seq'[q] = IF q \in P THEN 0 ELSE seq[q]
        /\ UNCHANGED <<file, tmp>>
    BY <1>1 DEF Signal, Ended, IInv, TInv, TypeOK
  <2>2. \A q \in Pids : q \notin P => stage'[q] = stage[q]
    BY <1>1 DEF Signal, IInv, TInv, TypeOK
  <2> HIDE DEF P
  <2>3. SeqOK'
    BY <2>1, <2>2 DEF IInv, SeqOK
  <2> QED
    BY <2>1, <2>2, <2>3, UnwrittenInv DEF IsInstance
<1>2. CASE Die(p)
  <2>1. /\ \A q \in Pids : seq'[q] = IF q = p THEN 0 ELSE seq[q]
        /\ \A q \in Pids : pc'[q] = IF q = p THEN "none" ELSE pc[q]
        /\ \A q \in Pids : stage'[q] = IF q = p THEN "no" ELSE stage[q]
        /\ UNCHANGED <<file, tmp>>
    BY <1>2 DEF Die, Ended, IInv, TInv, TypeOK
  <2>2. SeqOK'
    BY <2>1 DEF IInv, SeqOK
  <2> QED
    BY <2>1, <2>2, UnwrittenInv DEF IsInstance
<1> QED
  BY <1>1, <1>2

(* While nobody else is between reading and writing, looking at the file   *)
(* loses no instance.                                                      *)
LEMMA FindInv ==
  ASSUME IInv, TInv', "overlap" \notin Faults, NEW p \in Pids,
         FindNone(p) \/ FindPrior(p)
  PROVE  IInv'
<1>1. pc[p] = "start" /\ \A q \in Pids : stage[q] = "no"
  BY DEF FindNone, FindPrior, Idle
<1>2. CASE FindNone(p)
  <2>1. \A q \in Pids : ~IsInstance(q)
    BY <1>1, <1>2, KeptLines DEF FindNone, IsInstance
  <2>2. /\ pc' = [pc EXCEPT ![p] = "new"] /\ file' = NoFile
        /\ UNCHANGED <<stage, seq>>
    BY <1>2 DEF FindNone
  <2>3. \A q \in Pids : ~IsInstance(q)'
    BY <1>1, <2>1, <2>2 DEF IsInstance, IInv, TInv, TypeOK
  <2>4. SeqOK'
    BY <1>1, <2>2 DEF IInv, SeqOK, TInv, TypeOK
  <2> QED
    BY <1>1, <2>2, <2>3, <2>4 DEF IInv, AllInFile, FileOK, TmpOK
<1>3. CASE FindPrior(p) /\ pc' = [pc EXCEPT ![p] = "ask"] /\ UNCHANGED <<stage, tmp>>
  BY <1>1, <1>3, UnwrittenInv DEF FindPrior, IInv, TInv, TypeOK, SeqOK, IsInstance
<1>4. CASE /\ FindPrior(p)
           /\ pc' = [pc EXCEPT ![p] = "prune"]
           /\ tmp' = ValidLines(p)
           /\ stage' = [stage EXCEPT ![p] = "kept"]
  <2>1. UNCHANGED <<file, seq>>
    BY <1>4 DEF FindPrior
  <2>2. \A q \in Pids : /\ IsInstance(q)' <=> IsInstance(q) /\ q # p
                        /\ Number(q)' = Number(q)
    BY <1>1, <1>4, <2>1 DEF IsInstance, Number, IInv, TInv, TypeOK
  <2>3. SeqOK'
    BY <1>1, <1>4, <2>1 DEF IInv, SeqOK, TInv, TypeOK
  <2>4. AllInFile' /\ FileOK'
    BY <2>1, <2>2 DEF IInv, AllInFile, FileOK, LinesDiffer
  <2>5. TmpOK'
    <3>1. tmp' # NoFile
      BY <1>4, LinesTypes, InstancesAssumption DEF IInv, TInv, Lines
    <3>2. LinesDiffer(tmp') /\ \A q \in Pids : IsInstance(q)' => tmp'[q] = Number(q)'
      BY <1>4, <2>2, KeptLines
    <3>3. \A q \in Pids : stage'[q] = "kept" => pc'[q] # "new"
      BY <1>1, <1>4 DEF IInv, TInv, TypeOK
    <3> QED
      BY <3>1, <3>2, <3>3 DEF TmpOK, LinesDiffer
  <2> QED
    BY <2>3, <2>4, <2>5 DEF IInv
<1> QED
  BY <1>2, <1>3, <1>4 DEF FindPrior

LEMMA RegisterInv ==
  ASSUME IInv, TInv', "overlap" \notin Faults, NEW p \in Pids, Register(p)
  PROVE  IInv'
<1>1. /\ pc[p] = "new" /\ \A q \in Pids : stage[q] = "no"
      /\ stage' = [stage EXCEPT ![p] = "kept"]
      /\ UNCHANGED <<pc, file>>
  BY DEF Register, Idle
<1>2. PICK n \in 1 .. MaxNumber :
          /\ \A q \in Pids : ValidLines(p)[q] < n
          /\ tmp' = [ValidLines(p) EXCEPT ![p] = n]
          /\ seq' = [seq EXCEPT ![p] = n]
  BY DEF Register, NumberAfter
<1>3. ValidLines(p) \in Lines
  BY LinesTypes DEF IInv, TInv
<1>4. \A q \in Pids : /\ IsInstance(q)' <=> IsInstance(q)
                      /\ IsInstance(q) => q # p /\ Number(q)' = Number(q)
  BY <1>1, <1>2 DEF IsInstance, Number, IInv, TInv, TypeOK
<1>5. SeqOK'
  BY <1>1, <1>2 DEF IInv, SeqOK, TInv, TypeOK
<1>6. AllInFile' /\ FileOK'
  BY <1>1, <1>4 DEF IInv, AllInFile, FileOK, LinesDiffer
<1>7. TmpOK'
  <2>1. tmp' \in Lines /\ tmp' # NoFile
    BY <1>2, <1>3, InstancesAssumption DEF Lines
  <2>2. /\ tmp'[p] = n /\ n # 0 /\ seq'[p] = n
        /\ \A q \in Pids : q # p => tmp'[q] = ValidLines(p)[q] /\ tmp'[q] < tmp'[p]
    BY <1>2, <1>3 DEF Lines, IInv, TInv, TypeOK
  <2>3. LinesDiffer(ValidLines(p))
        /\ \A q \in Pids : IsInstance(q) /\ q # p => ValidLines(p)[q] = Number(q)
    BY KeptLines
  <2>4. LinesDiffer(tmp')
    <3> SUFFICES ASSUME NEW q \in Pids, NEW r \in Pids, tmp'[q] # 0, tmp'[q] = tmp'[r]
                 PROVE  q = r
      BY DEF LinesDiffer
    <3>1. tmp'[q] \in Nat /\ tmp'[r] \in Nat
      BY <2>1 DEF Lines
    <3> QED
      BY <2>2, <2>3, <3>1 DEF LinesDiffer
  <2>5. \A q \in Pids : IsInstance(q)' => tmp'[q] = Number(q)'
    BY <1>4, <2>2, <2>3
  <2>6. \A q \in Pids : stage'[q] = "kept" => q = p
    BY <1>1 DEF IInv, TInv, TypeOK
  <2> QED
    BY <2>1, <2>2, <2>4, <2>5, <2>6 DEF TmpOK, LinesDiffer
<1> QED
  BY <1>5, <1>6, <1>7 DEF IInv

LEMMA WriteFirstInv ==
  ASSUME IInv, TInv', "overlap" \notin Faults, NEW p \in Pids, WriteFirst(p)
  PROVE  IInv'
<1>1. pc[p] = "new" /\ file = NoFile /\ \A q \in Pids : ~IsInstance(q)
  BY DEF WriteFirst, IInv, TInv, TypeOK, AllInFile
<1>2. seq[p] = 0 /\ \A q \in Pids : stage'[q] = "no"
  BY <1>1 DEF WriteFirst, IInv, TInv, TypeOK, Exclusive, SeqOK
<1>3. /\ file' = [NoLines EXCEPT ![p] = 1]
      /\ pc' = [pc EXCEPT ![p] = "setup"]
      /\ UNCHANGED seq
  BY DEF WriteFirst
<1>4. file' # NoFile /\ file'[p] = 1 /\ \A q \in Pids : q # p => file'[q] = 0
  BY <1>3, InstancesAssumption DEF NoLines
<1>5. \A q \in Pids : IsInstance(q)' => q = p
  BY <1>1, <1>3 DEF IsInstance, IInv, TInv, TypeOK
<1>6. Number(p)' = 1
  BY <1>2, <1>3 DEF Number
<1>7. AllInFile' /\ FileOK'
  BY <1>4, <1>5, <1>6 DEF AllInFile, FileOK, LinesDiffer
<1>8. SeqOK'
  BY <1>2, <1>3 DEF WriteFirst, IInv, SeqOK, TInv, TypeOK
<1> QED
  BY <1>2, <1>7, <1>8 DEF IInv, TmpOK

LEMMA UnregisterInv ==
  ASSUME IInv, TInv', "overlap" \notin Faults, NEW p \in Pids,
         Unregister(p) \/ UnregisterLast(p)
  PROVE  IInv'
<1>1. pc[p] = "closing" /\ \A q \in Pids : stage[q] = "no"
  BY DEF Unregister, UnregisterLast, Idle
<1>2. CASE Unregister(p)
  <2>1. /\ tmp' = OthersLines(p) /\ stage' = [stage EXCEPT ![p] = "kept"]
        /\ UNCHANGED <<pc, file, seq>>
    BY <1>2 DEF Unregister
  <2>2. \A q \in Pids : /\ IsInstance(q)' <=> IsInstance(q)
                        /\ IsInstance(q) => q # p /\ Number(q)' = Number(q)
    BY <1>1, <2>1 DEF IsInstance, Number
  <2>3. tmp' # NoFile
    BY <2>1, LinesTypes, InstancesAssumption DEF IInv, TInv, Lines
  <2>4. LinesDiffer(tmp') /\ \A q \in Pids : IsInstance(q)' => tmp'[q] = Number(q)'
    BY <2>1, <2>2, KeptLines
  <2>5. \A q \in Pids : stage'[q] = "kept" => pc'[q] # "new"
    BY <1>1, <2>1 DEF IInv, TInv, TypeOK
  <2>6. SeqOK' /\ AllInFile' /\ FileOK'
    BY <1>1, <2>1, <2>2
    DEF IInv, SeqOK, AllInFile, FileOK, LinesDiffer, TInv, TypeOK
  <2>7. TmpOK'
    BY <2>3, <2>4, <2>5 DEF TmpOK, LinesDiffer
  <2> QED
    BY <2>6, <2>7 DEF IInv
<1>3. CASE UnregisterLast(p)
  <2>1. /\ file' = NoFile /\ pc' = [pc EXCEPT ![p] = "none"]
        /\ UNCHANGED stage
        /\ \A q \in Pids : seq'[q] = IF q = p THEN 0 ELSE seq[q]
    BY <1>3 DEF UnregisterLast, Ended
  <2>2. \A q \in Pids : ~IsInstance(q)
    BY <1>1, <1>3, KeptLines DEF UnregisterLast, IsInstance
  <2>3. \A q \in Pids : ~IsInstance(q)'
    BY <2>1, <2>2 DEF IsInstance, IInv, TInv, TypeOK
  <2>4. SeqOK'
    BY <2>1 DEF IInv, SeqOK, TInv, TypeOK
  <2> QED
    BY <1>1, <2>1, <2>3, <2>4 DEF IInv, AllInFile, FileOK, TmpOK
<1> QED
  BY <1>2, <1>3

LEMMA CopiedInv ==
  ASSUME IInv, TInv', "overlap" \notin Faults, NEW p \in Pids,
         Pruned(p) \/ Registered(p) \/ Unregistered(p)
  PROVE  IInv'
<1>1. /\ stage[p] = "kept" /\ tmp # NoFile /\ file' = tmp
      /\ stage' = [stage EXCEPT ![p] = "no"]
  BY DEF Pruned, Registered, Unregistered, Copied, IInv, TmpOK
<1>2. \A q \in Pids : stage'[q] = "no"
  BY <1>1 DEF IInv, TInv, TypeOK, Exclusive
<1>3. \A q \in Pids : IsInstance(q) => tmp[q] = Number(q)
  BY <1>1 DEF IInv, TmpOK
<1>4. FileOK'
  BY <1>1 DEF IInv, TmpOK, FileOK, LinesDiffer
<1>5. CASE Pruned(p)
  <2>1. /\ pc[p] = "prune" /\ pc' = [pc EXCEPT ![p] = "ask"] /\ UNCHANGED seq
    BY <1>5 DEF Pruned, Copied
  <2>2. \A q \in Pids : IsInstance(q)' => IsInstance(q) /\ Number(q)' = Number(q)
    BY <2>1 DEF IsInstance, Number, IInv, TInv, TypeOK
  <2>3. SeqOK'
    BY <1>1, <2>1 DEF IInv, SeqOK, TInv, TypeOK
  <2> QED
    BY <1>1, <1>2, <1>3, <1>4, <2>2, <2>3 DEF IInv, AllInFile, TmpOK
<1>6. CASE Registered(p)
  <2>1. /\ pc[p] = "new" /\ pc' = [pc EXCEPT ![p] = "setup"] /\ UNCHANGED seq
    BY <1>6 DEF Registered, Copied
  <2>2. seq[p] # 0 /\ tmp[p] = seq[p]
    BY <1>1, <2>1 DEF IInv, TmpOK
  <2>3. \A q \in Pids : /\ IsInstance(q)' => IsInstance(q) \/ q = p
                        /\ Number(q)' = Number(q)
    BY <2>1 DEF IsInstance, Number, IInv, TInv, TypeOK
  <2>4. Number(p)' = tmp[p]
    BY <2>1, <2>2 DEF Number
  <2>5. AllInFile'
    BY <1>1, <1>3, <2>3, <2>4 DEF AllInFile
  <2>6. SeqOK'
    BY <1>1, <2>1 DEF IInv, SeqOK, TInv, TypeOK
  <2> QED
    BY <1>2, <1>4, <2>5, <2>6 DEF IInv, TmpOK
<1>7. CASE Unregistered(p)
  <2>1. /\ pc[p] = "closing" /\ pc' = [pc EXCEPT ![p] = "none"]
        /\ \A q \in Pids : seq'[q] = IF q = p THEN 0 ELSE seq[q]
    BY <1>7 DEF Unregistered, Copied, Ended
  <2>2. \A q \in Pids : IsInstance(q)' => IsInstance(q) /\ Number(q)' = Number(q)
    BY <2>1 DEF IsInstance, Number, IInv, TInv, TypeOK
  <2>3. SeqOK'
    BY <1>1, <2>1 DEF IInv, SeqOK, TInv, TypeOK
  <2> QED
    BY <1>1, <1>2, <1>3, <1>4, <2>2, <2>3 DEF IInv, AllInFile, TmpOK
<1> QED
  BY <1>5, <1>6, <1>7

LEMMA FileNext ==
  ASSUME "overlap" \notin Faults PROVE IInv /\ [Next]_vars => IInv'
<1> SUFFICES ASSUME IInv, [Next]_vars PROVE IInv'
  OBVIOUS
<1>1. TInv'
  BY TypeNext DEF IInv
<1>2. CASE Next
  BY <1>1, <1>2, QuietInv, EndingInv, FindInv, RegisterInv, WriteFirstInv,
     UnregisterInv, CopiedInv
  DEF Next
<1>3. CASE UNCHANGED vars
  BY <1>1, <1>3 DEF vars, IInv, SeqOK, AllInFile, FileOK, TmpOK, LinesDiffer,
                    IsInstance, Number
<1> QED
  BY <1>2, <1>3

(* However many crash, and whatever identifiers are used again.            *)
THEOREM InstancesInFile ==
  ASSUME "overlap" \notin Faults PROVE Spec => []AllInFile
<1>1. IInv => AllInFile
  BY DEF IInv
<1> QED
  BY FileInit, FileNext, <1>1, PTL DEF Spec

LEMMA NumbersFromFile == IInv => NumbersDiffer
<1> SUFFICES ASSUME IInv, NEW p \in Pids, NEW q \in Pids,
                    IsInstance(p), IsInstance(q), Number(p) = Number(q)
             PROVE  p = q
  BY DEF NumbersDiffer
<1>1. file # NoFile /\ file[p] = Number(p) /\ file[q] = Number(q)
  BY DEF IInv, AllInFile
<1>2. Number(p) # 0
  BY NumberFacts DEF IInv, TInv
<1> QED
  BY <1>1, <1>2 DEF IInv, FileOK, LinesDiffer

(* No two windows show the same number.                                    *)
THEOREM NumbersShown ==
  ASSUME "overlap" \notin Faults PROVE Spec => []NumbersDiffer
  BY FileInit, FileNext, NumbersFromFile, PTL DEF Spec

(* A process that looks for a prior instance finds the one that started    *)
(* last, or a process that came after it.                                  *)
THEOREM PriorIsLatest ==
  ASSUME "overlap" \notin Faults PROVE Spec => FindsLatest
<1> DEFINE Finds == \A p, q \in Pids :
                       /\ pc[p] = "start" /\ pc'[p] \in {"new", "ask", "prune"}
                       /\ IsInstance(q)
                       => /\ prior'[p] # None /\ file[q] <= file[prior'[p]]
                          /\ pc[prior'[p]] # "other"
<1>1. ASSUME IInv, Next PROVE Finds
  <2> SUFFICES ASSUME NEW p \in Pids, NEW q \in Pids, pc[p] = "start",
                      pc'[p] \in {"new", "ask", "prune"}, IsInstance(q)
               PROVE  /\ prior'[p] # None /\ file[q] <= file[prior'[p]]
                      /\ pc[prior'[p]] # "other"
    OBVIOUS
  <2>1. FindNone(p) \/ FindPrior(p)
    <3>1. PICK r \in Pids :
            \/ Start(r) \/ FindNone(r) \/ FindPrior(r) \/ Refuse(r)
            \/ WriteRequest(r) \/ Signal(r) \/ SignalFails(r)
            \/ RegisterFirst(r) \/ WriteFirst(r) \/ Register(r)
            \/ Unregister(r) \/ UnregisterLast(r)
            \/ Pruned(r) \/ Registered(r) \/ Unregistered(r)
            \/ Ready(r) \/ Handle(r) \/ Close(r) \/ Die(r)
      BY <1>1 DEF Next
    <3>2. pc'[p] # pc[p]
      OBVIOUS
    <3>3. ~Signal(r)
      <4> SUFFICES ASSUME Signal(r) PROVE FALSE
        OBVIOUS
      <4>1. pc'[p] \in {"none", pc[p]}
        BY DEF Signal
      <4> QED
        BY <4>1
    <3>4. CASE r # p
      BY <1>1, <3>1, <3>2, <3>3, <3>4
      DEF IInv, TInv, TypeOK, Start, FindNone, FindPrior, Refuse, WriteRequest,
          SignalFails, RegisterFirst, WriteFirst, Register, Unregister,
          UnregisterLast, Pruned, Registered, Unregistered, Copied, Ready, Handle,
          Close, Die
    <3>5. CASE r = p
      BY <1>1, <3>1, <3>2, <3>3, <3>5
      DEF IInv, TInv, TypeOK, Start, Refuse, WriteRequest,
          SignalFails, RegisterFirst, WriteFirst, Register, Unregister,
          UnregisterLast, Pruned, Registered, Unregistered, Copied, Ready, Handle,
          Close, Die
    <3> QED
      BY <3>4, <3>5
  <2>2. q # p /\ ValidLines(p)[q] = Number(q) /\ Number(q) # 0
    BY <1>1, KeptLines, NumberFacts DEF IsInstance, IInv, TInv
  <2>3. FindPrior(p)
    BY <2>1, <2>2 DEF FindNone, NoLines
  <2>4. PICK r \in Pids : IsLast(r, ValidLines(p)) /\ prior' = [prior EXCEPT ![p] = r]
    BY <2>3 DEF FindPrior
  <2>5. prior'[p] = r
    BY <1>1, <2>4 DEF IInv, TInv, TypeOK
  <2>6. /\ file # NoFile /\ PidIsValid(r, p) /\ ValidLines(p)[r] = file[r]
    BY <2>4 DEF IsLast, ValidLines
  <2>7. file[q] = Number(q)
    BY <1>1 DEF IInv, AllInFile
  <2> QED
    BY <2>2, <2>4, <2>5, <2>6, <2>7, InstancesAssumption DEF IsLast, PidIsValid
<1>2. IInv /\ [Next]_vars => [Finds]_vars
  BY <1>1
<1> QED
  BY FileInit, FileNext, <1>2, PTL DEF Spec, FindsLatest

(***************************************************************************)
(* Requests                                                                *)
(***************************************************************************)

LEMMA RequestInit == Init => RInv
<1> SUFFICES ASSUME Init PROVE RInv
  OBVIOUS
<1> QED
  BY TypeInit DEF Init, RInv, Sent, RequestThere, ShownOK

(* A step that neither writes a request nor sends a signal.                *)
LEMMA UnsentInv ==
  ASSUME RInv, TInv', UNCHANGED request,
         \A q \in Pids : pc'[q] = "send" => pc[q] = "send" /\ prior'[q] = prior[q],
         \A q \in Pids : sig'[q] => sig[q] /\ HasHandler(q)',
         \A q \in Pids : shown'[q] # None => shown'[q] = shown[q] /\ HasHandler(q)'
  PROVE  RInv'
<1>1. ASSUME NEW q \in Pids, pc'[q] = "send"
      PROVE  request'[prior'[q]] = q /\ ~sig'[prior'[q]]
  <2>1. prior'[q] = prior[q] /\ prior[q] \in Pids /\ request[prior[q]] = q /\ ~sig[prior[q]]
    BY <1>1 DEF RInv, Sent, TInv, TypeOK
  <2> QED
    BY <2>1
<1>2. RequestThere'
  BY DEF RInv, RequestThere
<1>3. ShownOK'
  BY DEF ShownOK
<1> QED
  BY <1>1, <1>2, <1>3 DEF RInv, Sent

LEMMA OtherRequests ==
  ASSUME RInv, TInv', NEW p \in Pids,
         \/ Start(p) \/ FindNone(p) \/ FindPrior(p) \/ Refuse(p) \/ SignalFails(p)
         \/ RegisterFirst(p) \/ WriteFirst(p) \/ Register(p) \/ Unregister(p)
         \/ UnregisterLast(p) \/ Pruned(p) \/ Registered(p) \/ Unregistered(p)
         \/ Ready(p) \/ Close(p) \/ Die(p)
  PROVE  RInv'
<1> USE DEF RInv, TInv, TypeOK, RequestThere, ShownOK, HasHandler
<1>1. CASE Start(p)
  BY <1>1, UnsentInv DEF Start
<1>2. CASE FindNone(p)
  BY <1>2, UnsentInv DEF FindNone
<1>3. CASE FindPrior(p)
  <2>1. /\ pc[p] = "start"
        /\ pc' = [pc EXCEPT ![p] = "ask"] \/ pc' = [pc EXCEPT ![p] = "prune"]
        /\ \A q \in Pids : q # p => prior'[q] = prior[q]
        /\ UNCHANGED <<request, sig, shown>>
    BY <1>3 DEF FindPrior
  <2> QED
    BY <2>1, UnsentInv
<1>4. CASE Refuse(p)
  BY <1>4, UnsentInv DEF Refuse
<1>5. CASE SignalFails(p)
  BY <1>5, UnsentInv DEF SignalFails
<1>6. CASE RegisterFirst(p)
  BY <1>6, UnsentInv DEF RegisterFirst
<1>7. CASE WriteFirst(p)
  BY <1>7, UnsentInv DEF WriteFirst
<1>8. CASE Register(p)
  BY <1>8, UnsentInv DEF Register
<1>9. CASE Unregister(p)
  BY <1>9, UnsentInv DEF Unregister
<1>10. CASE UnregisterLast(p)
  BY <1>10, UnsentInv DEF UnregisterLast, Ended
<1>11. CASE Pruned(p)
  BY <1>11, UnsentInv DEF Pruned, Copied
<1>12. CASE Registered(p)
  BY <1>12, UnsentInv DEF Registered, Copied
<1>13. CASE Unregistered(p)
  BY <1>13, UnsentInv DEF Unregistered, Copied, Ended
<1>14. CASE Ready(p)
  BY <1>14, UnsentInv DEF Ready
<1>15. CASE Close(p)
  BY <1>15, UnsentInv DEF Close
<1>16. CASE Die(p)
  BY <1>16, UnsentInv DEF Die, Ended
<1> QED
  BY <1>1, <1>2, <1>3, <1>4, <1>5, <1>6, <1>7, <1>8, <1>9, <1>10, <1>11, <1>12,
     <1>13, <1>14, <1>15, <1>16

LEMMA WriteRequestInv ==
  ASSUME RInv, TInv', "second" \notin Faults, NEW p \in Pids, WriteRequest(p)
  PROVE  RInv'
<1> DEFINE t == prior[p]
<1>1. /\ t \in Pids /\ ~sig[t]
      /\ \A q \in Pids : pc[q] = "send" => prior[q] # t
      /\ request' = [request EXCEPT ![t] = p]
      /\ pc' = [pc EXCEPT ![p] = "send"]
      /\ UNCHANGED <<prior, sig, shown>>
  BY DEF WriteRequest, NothingFor, RInv, TInv, TypeOK
<1>2. Sent'
  <2> SUFFICES ASSUME NEW q \in Pids, pc'[q] = "send"
               PROVE  request'[prior[q]] = q /\ ~sig[prior[q]]
    BY <1>1 DEF Sent
  <2>1. CASE q = p
    BY <1>1, <2>1 DEF RInv, TInv, TypeOK
  <2>2. CASE q # p
    BY <1>1, <2>2 DEF RInv, Sent, TInv, TypeOK
  <2> QED
    BY <2>1, <2>2
<1>3. RequestThere' /\ ShownOK'
  BY <1>1, InstancesAssumption
  DEF WriteRequest, RInv, RequestThere, ShownOK, HasHandler, TInv, TypeOK
<1> QED
  BY <1>2, <1>3 DEF RInv

LEMMA SignalInv ==
  ASSUME RInv, TInv', NEW p \in Pids, Signal(p) PROVE RInv'
<1> DEFINE t == prior[p]
           P == {p} \cup {q \in {t} : ~HasHandler(q)}
<1>1. /\ pc[p] = "send" /\ t \in Pids /\ request[t] = p
      /\ \A q \in Pids : pc'[q] = IF q \in P THEN "none" ELSE pc[q]
      /\ \A q \in Pids : prior'[q] = IF q \in P THEN None ELSE prior[q]
      /\ \A q \in Pids : shown'[q] = IF q \in P THEN None ELSE shown[q]
      /\ \A q \in Pids : sig'[q] <=> IF q = t THEN HasHandler(t) ELSE sig[q]
      /\ UNCHANGED request
  BY DEF Signal, Ended, RInv, Sent, TInv, TypeOK
<1>2. \A q \in Pids : HasHandler(q) => HasHandler(q)'
  BY <1>1 DEF HasHandler
<1>3. Sent'
  <2> SUFFICES ASSUME NEW q \in Pids, pc'[q] = "send"
               PROVE  request'[prior'[q]] = q /\ ~sig'[prior'[q]]
    BY DEF Sent
  <2>1. q \notin P /\ pc[q] = "send" /\ prior'[q] = prior[q]
    BY <1>1
  <2>2. prior[q] \in Pids /\ request[prior[q]] = q /\ ~sig[prior[q]]
    BY <2>1 DEF RInv, Sent, TInv, TypeOK
  <2>3. prior[q] # t
    BY <1>1, <2>1, <2>2
  <2> QED
    BY <1>1, <2>1, <2>2, <2>3
<1>4. RequestThere'
  BY <1>1, <1>2, InstancesAssumption DEF RInv, RequestThere
<1>5. ShownOK'
  BY <1>1, <1>2 DEF RInv, ShownOK
<1> QED
  BY <1>3, <1>4, <1>5 DEF RInv

LEMMA HandleInv ==
  ASSUME RInv, TInv', NEW p \in Pids, Handle(p) PROVE RInv'
<1>1. /\ sig[p] /\ HasHandler(p) /\ UNCHANGED <<pc, prior>>
      /\ \A q \in Pids : sig'[q] <=> q # p /\ sig[q]
      /\ \A q \in Pids : q # p => request'[q] = request[q] /\ shown'[q] = shown[q]
  BY DEF Handle, RInv, TInv, TypeOK
<1>2. Sent'
  BY <1>1 DEF RInv, Sent, TInv, TypeOK
<1>3. RequestThere' /\ ShownOK'
  BY <1>1 DEF RInv, RequestThere, ShownOK, HasHandler
<1> QED
  BY <1>2, <1>3 DEF RInv

LEMMA RequestNext ==
  ASSUME "second" \notin Faults PROVE RInv /\ [Next]_vars => RInv'
<1> SUFFICES ASSUME RInv, [Next]_vars PROVE RInv'
  OBVIOUS
<1>1. TInv'
  BY TypeNext DEF RInv
<1>2. CASE Next
  BY <1>1, <1>2, OtherRequests, WriteRequestInv, SignalInv, HandleInv DEF Next
<1>3. CASE UNCHANGED vars
  BY <1>1, <1>3 DEF vars, RInv, Sent, RequestThere, ShownOK, HasHandler
<1> QED
  BY <1>2, <1>3

(* Senders crash, targets end and their identifiers are used again: a      *)
(* signal that is pending has its request.                                 *)
THEOREM RequestsFound ==
  ASSUME "second" \notin Faults PROVE Spec => []RequestThere
<1>1. RInv => RequestThere
  BY DEF RInv
<1> QED
  BY RequestInit, RequestNext, <1>1, PTL DEF Spec

(***************************************************************************)
(* Refinement                                                              *)
(***************************************************************************)

(* A process of which the registry sees nothing new.                       *)
Unseen(q) ==
    /\ IsInstance(q)' <=> IsInstance(q)
    /\ IsInstance(q) => /\ seq'[q] = seq[q] /\ shown'[q] = shown[q]
                        /\ sig'[q] <=> sig[q]
                        /\ sig[q] => request'[q] = request[q]

LEMMA UnseenSame ==
  ASSUME NEW q \in Pids, Unseen(q)
  PROVE  /\ numberOf'[q] = numberOf[q] /\ pendingOf'[q] = pendingOf[q]
         /\ shownOf'[q] = shownOf[q]
<1>1. CASE IsInstance(q)
  BY <1>1 DEF Unseen, numberOf, pendingOf, shownOf, Number
<1>2. CASE ~IsInstance(q)
  BY <1>2 DEF Unseen, numberOf, pendingOf, shownOf
<1> QED
  BY <1>1, <1>2

LEMMA MapStutter ==
  ASSUME \A q \in Pids : Unseen(q) PROVE UNCHANGED R!vars
<1>1. numberOf' = numberOf
  BY UnseenSame DEF numberOf
<1>2. pendingOf' = pendingOf
  BY UnseenSame DEF pendingOf
<1>3. shownOf' = shownOf
  BY UnseenSame DEF shownOf
<1> QED
  BY <1>1, <1>2, <1>3 DEF R!vars

LEMMA MapLeave ==
  ASSUME TypeOK, NEW p \in Pids, IsInstance(p), ~IsInstance(p)',
         \A q \in Pids : q # p => Unseen(q)
  PROVE  R!Leave(p)
<1>1. numberOf[p] # 0
  BY NumberFacts DEF numberOf
<1>2. numberOf' = [numberOf EXCEPT ![p] = 0]
  BY UnseenSame DEF numberOf
<1>3. pendingOf' = [pendingOf EXCEPT ![p] = None]
  BY UnseenSame DEF pendingOf
<1>4. shownOf' = [shownOf EXCEPT ![p] = None]
  BY UnseenSame DEF shownOf
<1> QED
  BY <1>1, <1>2, <1>3, <1>4 DEF R!Leave

LEMMA MapJoin ==
  ASSUME TypeOK, TypeOK', NEW p \in Pids, ~IsInstance(p), IsInstance(p)',
         ~sig'[p], shown'[p] = None,
         \A q \in Pids : q # p => Unseen(q),
         \A q \in Pids : IsInstance(q) => Number(q) < Number(p)'
  PROVE  R!Join(p)
<1> DEFINE n == Number(p)'
<1>1. n \in 1 .. MaxNumber
  BY InstancesAssumption DEF Number, TypeOK
<1>2. numberOf[p] = 0 /\ \A q \in Pids : numberOf[q] < n
  BY <1>1 DEF numberOf
<1>3. numberOf' = [numberOf EXCEPT ![p] = n]
  BY UnseenSame DEF numberOf
<1>4. pendingOf' = pendingOf
  BY UnseenSame DEF pendingOf
<1>5. shownOf' = shownOf
  BY UnseenSame DEF shownOf
<1> QED
  BY <1>1, <1>2, <1>3, <1>4, <1>5 DEF R!Join

LEMMA MapHandOver ==
  ASSUME TypeOK, NEW t \in Pids, NEW p \in Pids, p # t, IsInstance(t), ~IsInstance(p),
         ~sig[t], sig'[t], request'[t] = p, IsInstance(t)',
         seq'[t] = seq[t], shown'[t] = shown[t],
         \A q \in Pids : q # t => Unseen(q)
  PROVE  R!HandOver(t, p)
<1>1. numberOf[t] # 0 /\ numberOf[p] = 0 /\ pendingOf[t] = None
  BY NumberFacts DEF numberOf, pendingOf
<1>2. numberOf' = numberOf
  BY UnseenSame DEF numberOf, Number
<1>3. shownOf' = shownOf
  BY UnseenSame DEF shownOf
<1>4. pendingOf' = [pendingOf EXCEPT ![t] = p]
  BY UnseenSame DEF pendingOf
<1> QED
  BY <1>1, <1>2, <1>3, <1>4 DEF R!HandOver

LEMMA HiddenSteps ==
  ASSUME IInv, RInv, NEW p \in Pids,
         \/ Start(p) \/ FindNone(p) \/ FindPrior(p) \/ Refuse(p) \/ SignalFails(p)
         \/ RegisterFirst(p) \/ Register(p) \/ Unregister(p)
         \/ UnregisterLast(p) \/ Pruned(p) \/ Unregistered(p) \/ Ready(p)
  PROVE  UNCHANGED R!vars
<1> USE DEF IInv, TInv, TypeOK, Unseen, IsInstance
<1>1. CASE Start(p)
  BY <1>1, MapStutter DEF Start
<1>2. CASE FindNone(p)
  BY <1>2, MapStutter DEF FindNone
<1>3. CASE FindPrior(p)
  <2>1. /\ pc[p] = "start"
        /\ pc' = [pc EXCEPT ![p] = "ask"] \/ pc' = [pc EXCEPT ![p] = "prune"]
        /\ UNCHANGED <<seq, request, sig, shown>>
    BY <1>3 DEF FindPrior
  <2> QED
    BY <2>1, MapStutter
<1>4. CASE Refuse(p)
  BY <1>4, MapStutter DEF Refuse
<1>5. CASE SignalFails(p)
  BY <1>5, MapStutter DEF SignalFails
<1>6. CASE RegisterFirst(p)
  BY <1>6, MapStutter DEF RegisterFirst
<1>7. CASE Register(p)
  BY <1>7, MapStutter DEF Register
<1>8. CASE Unregister(p)
  BY <1>8, MapStutter DEF Unregister
<1>9. CASE UnregisterLast(p)
  BY <1>9, MapStutter DEF UnregisterLast, Ended
<1>10. CASE Pruned(p)
  BY <1>10, MapStutter DEF Pruned, Copied
<1>11. CASE Unregistered(p)
  BY <1>11, MapStutter DEF Unregistered, Copied, Ended
<1>12. CASE Ready(p)
  BY <1>12, MapStutter DEF Ready
<1> QED
  BY <1>1, <1>2, <1>3, <1>4, <1>5, <1>6, <1>7, <1>8, <1>9, <1>10, <1>11, <1>12

LEMMA JoinSteps ==
  ASSUME IInv, RInv, TInv', "overlap" \notin Faults, NEW p \in Pids,
         WriteFirst(p) \/ Registered(p)
  PROVE  R!Join(p)
<1>1. /\ pc[p] = "new" /\ pc' = [pc EXCEPT ![p] = "setup"]
      /\ UNCHANGED <<seq, request, sig, shown>>
  BY DEF WriteFirst, Registered, Copied, IInv, TInv, TypeOK
<1>2. ~sig'[p] /\ shown'[p] = None
  BY <1>1 DEF RInv, RequestThere, ShownOK, HasHandler
<1>3. ~IsInstance(p) /\ IsInstance(p)' /\ \A q \in Pids : q # p => Unseen(q)
  BY <1>1 DEF IsInstance, Unseen, IInv, TInv, TypeOK
<1>4. \A q \in Pids : IsInstance(q) => Number(q) < Number(p)'
  <2>1. CASE WriteFirst(p)
    BY <1>1, <2>1 DEF WriteFirst, IInv, TInv, TypeOK, AllInFile
  <2>2. CASE Registered(p)
    <3>1. /\ seq[p] # 0 /\ tmp[p] = seq[p]
          /\ \A q \in Pids : q # p => tmp[q] < tmp[p]
          /\ \A q \in Pids : IsInstance(q) => tmp[q] = Number(q)
      BY <1>1, <2>2 DEF Registered, Copied, IInv, TmpOK
    <3>2. Number(p)' = tmp[p]
      BY <1>1, <3>1 DEF Number
    <3> QED
      BY <1>3, <3>1, <3>2
  <2> QED
    BY <2>1, <2>2
<1> QED
  BY <1>2, <1>3, <1>4, MapJoin DEF IInv, TInv

LEMMA LeaveSteps ==
  ASSUME IInv, NEW p \in Pids, Close(p) \/ Die(p)
  PROVE  R!Leave(p) \/ UNCHANGED R!vars
<1>1. /\ pc'[p] \in {"closing", "none"}
      /\ \A q \in Pids : q # p => pc'[q] = pc[q] /\ Unseen(q)
  BY DEF Close, Die, Ended, Unseen, IsInstance, IInv, TInv, TypeOK
<1>2. ~IsInstance(p)'
  BY <1>1 DEF IsInstance
<1>3. CASE IsInstance(p)
  BY <1>1, <1>2, <1>3, MapLeave DEF IInv, TInv
<1>4. CASE ~IsInstance(p)
  BY <1>1, <1>2, <1>4, MapStutter DEF Unseen
<1> QED
  BY <1>3, <1>4

LEMMA WriteRequestStep ==
  ASSUME IInv, "second" \notin Faults, NEW p \in Pids, WriteRequest(p)
  PROVE  UNCHANGED R!vars
<1>1. /\ pc[p] = "ask" /\ ~sig[prior[p]]
      /\ pc' = [pc EXCEPT ![p] = "send"]
      /\ request' = [request EXCEPT ![prior[p]] = p]
      /\ UNCHANGED <<seq, sig, shown>>
  BY DEF WriteRequest, NothingFor
<1>2. \A q \in Pids : Unseen(q)
  BY <1>1 DEF Unseen, IsInstance, IInv, TInv, TypeOK
<1> QED
  BY <1>2, MapStutter

LEMMA SignalStep ==
  ASSUME IInv, RInv, NEW p \in Pids, Signal(p)
  PROVE  \/ UNCHANGED R!vars
         \/ \E t \in Pids : R!Leave(t) \/ R!HandOver(t, p)
<1>0. PICK t \in Pids : t = prior[p]
  BY DEF Signal, IInv, TInv, TypeOK
<1> DEFINE P == {p} \cup {q \in {t} : ~HasHandler(q)}
<1>1. /\ pc[p] = "send" /\ request[t] = p /\ ~sig[t]
      /\ \A q \in Pids : pc'[q] = IF q \in P THEN "none" ELSE pc[q]
      /\ \A q \in Pids : seq'[q] = IF q \in P THEN 0 ELSE seq[q]
      /\ \A q \in Pids : shown'[q] = IF q \in P THEN None ELSE shown[q]
      /\ \A q \in Pids : sig'[q] <=> IF q = t THEN HasHandler(t) ELSE sig[q]
      /\ UNCHANGED request
  BY <1>0 DEF Signal, Ended, RInv, Sent, TInv, TypeOK
<1>2. \A q \in Pids : q # t => Unseen(q)
  BY <1>1 DEF Unseen, IsInstance
<1>3. ~IsInstance(p)
  BY <1>1 DEF IsInstance
<1>4. CASE ~IsInstance(t)
  <2>1. Unseen(t)
    BY <1>1, <1>4 DEF Unseen, IsInstance
  <2> QED
    BY <1>2, <2>1, MapStutter
<1>5. CASE IsInstance(t) /\ ~HasHandler(t)
  <2>1. ~IsInstance(t)'
    BY <1>1, <1>5 DEF IsInstance
  <2> QED
    BY <1>1, <1>2, <1>5, <2>1, MapLeave DEF IInv, TInv
<1>6. CASE IsInstance(t) /\ HasHandler(t)
  <2>1. p # t /\ t \notin P
    BY <1>3, <1>6
  <2>2. /\ IsInstance(t)' /\ seq'[t] = seq[t] /\ shown'[t] = shown[t]
        /\ sig'[t] /\ request'[t] = p
    BY <1>1, <1>6, <2>1 DEF IsInstance
  <2>3. R!HandOver(t, p)
    BY <1>1, <1>2, <1>3, <1>6, <2>1, <2>2, MapHandOver DEF IInv, TInv
  <2> QED
    BY <1>1, <2>3
<1> QED
  BY <1>4, <1>5, <1>6

LEMMA HandleStep ==
  ASSUME IInv, RInv, NEW p \in Pids, Handle(p)
  PROVE  R!Open(p) \/ UNCHANGED R!vars
<1>1. /\ sig[p] /\ HasHandler(p) /\ UNCHANGED <<pc, seq>>
      /\ request[p] # None /\ ~sig'[p] /\ shown'[p] = request[p]
      /\ \A q \in Pids : q # p => Unseen(q)
  BY DEF Handle, RInv, RequestThere, Unseen, IsInstance, TInv, TypeOK
<1>2. CASE IsInstance(p)
  <2>1. IsInstance(p)' /\ pendingOf[p] = request[p]
    BY <1>1, <1>2 DEF IsInstance, pendingOf
  <2>2. numberOf' = numberOf
    BY <1>1, <1>2, <2>1, UnseenSame DEF numberOf, Number
  <2>3. shownOf' = [shownOf EXCEPT ![p] = pendingOf[p]]
    BY <1>1, <2>1, UnseenSame DEF shownOf
  <2>4. pendingOf' = [pendingOf EXCEPT ![p] = None]
    BY <1>1, UnseenSame DEF pendingOf
  <2> QED
    BY <1>1, <2>1, <2>2, <2>3, <2>4 DEF R!Open
<1>3. CASE ~IsInstance(p)
  BY <1>1, <1>3, MapStutter DEF Unseen, IsInstance
<1> QED
  BY <1>2, <1>3

(* Rewriting the file and passing requests through files and signals       *)
(* implements the registry, up to liveness.                                *)
THEOREM RegistryImplemented ==
  ASSUME "overlap" \notin Faults, "second" \notin Faults
  PROVE  Spec => ImplementsRegistry
<1>1. Init => R!Init
  <2> SUFFICES ASSUME Init PROVE R!Init
    OBVIOUS
  <2>1. \A q \in Pids : ~IsInstance(q)
    BY DEF Init, IsInstance
  <2> QED
    BY <2>1 DEF R!Init, numberOf, pendingOf, shownOf
<1>2. IInv /\ RInv /\ TInv' /\ [Next]_vars => [R!Next]_R!vars
  <2> SUFFICES ASSUME IInv, RInv, TInv', [Next]_vars
               PROVE  R!Next \/ UNCHANGED R!vars
    OBVIOUS
  <2>1. ASSUME NEW p \in Pids, R!Join(p) \/ R!Leave(p) \/ R!Open(p) PROVE R!Next
    BY <2>1 DEF R!Next
  <2>2. ASSUME NEW p \in Pids, NEW q \in Pids, R!HandOver(p, q) PROVE R!Next
    BY <2>2 DEF R!Next
  <2>3. CASE Next
    <3>1. PICK p \in Pids :
            \/ Start(p) \/ FindNone(p) \/ FindPrior(p) \/ Refuse(p)
            \/ WriteRequest(p) \/ Signal(p) \/ SignalFails(p)
            \/ RegisterFirst(p) \/ WriteFirst(p) \/ Register(p)
            \/ Unregister(p) \/ UnregisterLast(p)
            \/ Pruned(p) \/ Registered(p) \/ Unregistered(p)
            \/ Ready(p) \/ Handle(p) \/ Close(p) \/ Die(p)
      BY <2>3 DEF Next
    <3> QED
      BY <2>1, <2>2, <3>1, HiddenSteps, JoinSteps, LeaveSteps, WriteRequestStep,
         SignalStep, HandleStep
  <2>4. CASE UNCHANGED vars
    <3>1. \A q \in Pids : Unseen(q)
      BY <2>4 DEF vars, Unseen, IsInstance
    <3> QED
      BY <3>1, MapStutter
  <2> QED
    BY <2>3, <2>4
<1>3. IInv => TInv
  BY DEF IInv
<1> QED
  BY <1>1, <1>2, <1>3, FileInit, FileNext, RequestInit, RequestNext, PTL
  DEF Spec, ImplementsRegistry, R!Spec
=============================================================================
