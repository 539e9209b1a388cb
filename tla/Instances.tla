----------------------------- MODULE Instances ------------------------------
(***************************************************************************)
(* Concurrent instances of gretl's graphical client on Linux: the file     *)
(* gretl.pid that numbers them and the hand-off of a file to an instance   *)
(* that is running already (gui/gretl_ipc.c, and main() of gui/gretl.c).   *)
(*                                                                         *)
(* The file is rewritten by way of gretlpid.tmp, without a lock: it is     *)
(* read, what is to be kept goes to the temporary file, and that is copied *)
(* back.  A process may crash between two steps, and its identifier be     *)
(* taken by another process, of gretl or not.                              *)
(*                                                                         *)
(* The lines of the file are in the order of their numbers, one for each   *)
(* process, since a new one is numbered after the last: the file is the    *)
(* function from processes to numbers, 0 for a process without a line.     *)
(***************************************************************************)
EXTENDS Naturals, FiniteSets

CONSTANTS
    Pids,
    MaxNumber,  \* bound on the numbers
    None,       \* no process
    NoFile,
    Faults      \* what to admit of the races the code does not exclude

ASSUME InstancesAssumption ==
    /\ MaxNumber \in Nat \ {0}
    /\ None \notin Pids
    /\ NoFile \notin [Pids -> 0 .. MaxNumber]
    \* overlap  two processes rewrite the file at the same time
    \* early    a hand-off reaches a process that has no handler for it
    \* second   a hand-off is made when another is still to be seen to
    /\ Faults \subseteq {"overlap", "early", "second"}

VARIABLES
    pc,         \* process -> how far it has come
    stage,      \* process -> how far it has come in rewriting the file
    file,       \* gretl.pid
    tmp,        \* gretlpid.tmp
    seq,        \* process -> my_sequence_number
    prior,      \* process -> the prior instance it has found
    request,    \* process -> the file open-<pid>: whose file is to be opened
    sig,        \* process -> whether SIGUSR1 is pending
    shown       \* process -> whose file it was last asked to open, and opened

vars == <<pc, stage, file, tmp, seq, prior, request, sig, shown>>

Steps == {"none", "other", "start", "prune", "ask", "send", "new", "setup",
          "open", "closing"}

Lines == [Pids -> 0 .. MaxNumber]

NoLines == [p \in Pids |-> 0]

-----------------------------------------------------------------------------
(***************************************************************************)
(* Helpers                                                                 *)
(***************************************************************************)

\* pid_is_valid(): there is such a process, it is gretl, and not this one.
PidIsValid(test, mypid) == pc[test] \notin {"none", "other"} /\ test # mypid

\* The lines of the file that a process keeps.
ValidLines(p) ==
    [q \in Pids |-> IF file # NoFile /\ PidIsValid(q, p) THEN file[q] ELSE 0]

OthersLines(p) ==
    [q \in Pids |-> IF file # NoFile /\ q # p THEN file[q] ELSE 0]

\* faulty: the lines are counted.
NumberByCount(lines, n) == n = Cardinality({q \in Pids : lines[q] # 0}) + 1

\* n comes after the number of the last of these lines.
NumberAfter(lines, n) ==
    /\ \A q \in Pids : lines[q] < n
    /\ n = 1 \/ \E q \in Pids : lines[q] = n - 1

\* faulty: the first.
IsFirst(q, lines) ==
    /\ lines[q] # 0
    /\ \A r \in Pids : lines[r] # 0 => lines[q] <= lines[r]

\* The process on the last of these lines.
IsLast(q, lines) ==
    /\ lines[q] # 0
    /\ \A r \in Pids : lines[r] <= lines[q]

\* Nobody is between reading the file and writing it.
Idle == "overlap" \in Faults \/ \A q \in Pids : stage[q] = "no"

HasHandler(p) == pc[p] \in {"open", "closing"}

\* What is left of processes P that have ended: their files.
Ended(P) ==
    /\ seq' = [p \in Pids |-> IF p \in P THEN 0 ELSE seq[p]]
    /\ prior' = [p \in Pids |-> IF p \in P THEN None ELSE prior[p]]
    /\ shown' = [p \in Pids |-> IF p \in P THEN None ELSE shown[p]]

-----------------------------------------------------------------------------
(***************************************************************************)
(* Starting                                                                *)
(***************************************************************************)

Init ==
    /\ pc = [p \in Pids |-> "none"]
    /\ stage = [p \in Pids |-> "no"]
    /\ file = NoFile /\ tmp = NoFile
    /\ seq = [p \in Pids |-> 0]
    /\ prior = [p \in Pids |-> None]
    /\ request = [p \in Pids |-> None]
    /\ sig = [p \in Pids |-> FALSE]
    /\ shown = [p \in Pids |-> None]

\* gretl, gretl --new, or another program
Start(p) ==
    /\ pc[p] = "none"
    /\ \E s \in {"start", "new", "other"} : pc' = [pc EXCEPT ![p] = s]
    /\ UNCHANGED <<stage, file, tmp, seq, prior, request, sig, shown>>

\* gretl_prior_instance(): no line is valid, and the file is removed.
FindNone(p) ==
    /\ pc[p] = "start" /\ Idle
    /\ ValidLines(p) = NoLines
    /\ file' = NoFile
    /\ pc' = [pc EXCEPT ![p] = "new"]
    /\ UNCHANGED <<stage, tmp, seq, prior, request, sig, shown>>

\* The last valid line; the others are pruned (prune_pid_file()).
FindPrior(p) ==
    /\ pc[p] = "start" /\ Idle
    /\ \E q \in Pids :
          /\ IsLast(q, ValidLines(p))
          /\ prior' = [prior EXCEPT ![p] = q]
    /\ IF ValidLines(p) = file
       THEN /\ pc' = [pc EXCEPT ![p] = "ask"]
            /\ UNCHANGED <<stage, tmp>>
       ELSE /\ pc' = [pc EXCEPT ![p] = "prune"]
            /\ tmp' = ValidLines(p)
            /\ stage' = [stage EXCEPT ![p] = "kept"]
    /\ UNCHANGED <<file, seq, request, sig, shown>>

\* "Start a new gretl instance?"
Refuse(p) ==
    /\ pc[p] = "ask"
    /\ pc' = [pc EXCEPT ![p] = "new"]
    /\ prior' = [prior EXCEPT ![p] = None]
    /\ UNCHANGED <<stage, file, tmp, seq, request, sig, shown>>

\* Nothing handed to t is still on its way.
NothingFor(t) ==
    /\ ~sig[t]
    /\ \A q \in Pids : pc[q] = "send" => prior[q] # t

\* faulty: no file is written when there is nothing to open.
WriteNoRequest(p) ==
    /\ pc[p] = "ask"
    /\ "second" \in Faults \/ NothingFor(prior[p])
    /\ pc' = [pc EXCEPT ![p] = "send"]
    /\ UNCHANGED <<stage, file, tmp, seq, prior, request, sig, shown>>

\* forward_open_request(): the file is written first ...
WriteRequest(p) ==
    /\ pc[p] = "ask"
    /\ "second" \in Faults \/ NothingFor(prior[p])
    /\ request' = [request EXCEPT ![prior[p]] = p]
    /\ pc' = [pc EXCEPT ![p] = "send"]
    /\ UNCHANGED <<stage, file, tmp, seq, prior, sig, shown>>

\* ... then the signal sent, which ends a process that has no handler for it.
Signal(p) ==
    /\ pc[p] = "send"
    /\ LET t == prior[p]
           killed == {q \in {t} : ~HasHandler(q)}
       IN  /\ pc[t] # "none"
           /\ "early" \in Faults \/ HasHandler(t)
           /\ sig' = [sig EXCEPT ![t] = HasHandler(t)]
           /\ pc' = [q \in Pids |-> IF q \in {p} \cup killed THEN "none" ELSE pc[q]]
           /\ stage' = [q \in Pids |-> IF q \in killed THEN "no" ELSE stage[q]]
           /\ Ended({p} \cup killed)
    /\ UNCHANGED <<file, tmp, request>>

\* There is no such process any more.
SignalFails(p) ==
    /\ pc[p] = "send" /\ pc[prior[p]] = "none"
    /\ pc' = [pc EXCEPT ![p] = "new"]
    /\ prior' = [prior EXCEPT ![p] = None]
    /\ UNCHANGED <<stage, file, tmp, seq, request, sig, shown>>

-----------------------------------------------------------------------------
(***************************************************************************)
(* The file of processes                                                   *)
(***************************************************************************)

\* faulty: any file there is is overwritten.
RegisterAnew(p) ==
    /\ pc[p] = "new" /\ stage[p] = "no" /\ Idle
    /\ stage' = [stage EXCEPT ![p] = "first"]
    /\ UNCHANGED <<pc, file, tmp, seq, prior, request, sig, shown>>

\* write_pid_to_file(): there is no file yet; the sequence number stays 0.
RegisterFirst(p) ==
    /\ pc[p] = "new" /\ stage[p] = "no" /\ Idle
    /\ file = NoFile
    /\ stage' = [stage EXCEPT ![p] = "first"]
    /\ UNCHANGED <<pc, file, tmp, seq, prior, request, sig, shown>>

WriteFirst(p) ==
    /\ stage[p] = "first"
    /\ file' = [NoLines EXCEPT ![p] = 1]
    /\ stage' = [stage EXCEPT ![p] = "no"]
    /\ pc' = [pc EXCEPT ![p] = "setup"]
    /\ UNCHANGED <<tmp, seq, prior, request, sig, shown>>

\* write_pid_to_file(): the valid lines and one for this process.
Register(p) ==
    /\ pc[p] = "new" /\ stage[p] = "no" /\ Idle
    /\ file # NoFile
    /\ \E n \in 1 .. MaxNumber :
          /\ NumberAfter(ValidLines(p), n)
          /\ tmp' = [ValidLines(p) EXCEPT ![p] = n]
          /\ seq' = [seq EXCEPT ![p] = n]
    /\ stage' = [stage EXCEPT ![p] = "kept"]
    /\ UNCHANGED <<pc, file, prior, request, sig, shown>>

\* delete_pid_from_file(): the lines of others, valid or not.
Unregister(p) ==
    /\ pc[p] = "closing" /\ stage[p] = "no" /\ Idle
    /\ OthersLines(p) # NoLines
    /\ tmp' = OthersLines(p)
    /\ stage' = [stage EXCEPT ![p] = "kept"]
    /\ UNCHANGED <<pc, file, seq, prior, request, sig, shown>>

\* faulty: the file is removed, whatever is left.
UnregisterAll(p) ==
    /\ pc[p] = "closing" /\ stage[p] = "no" /\ Idle
    /\ file' = NoFile /\ tmp' = NoFile
    /\ pc' = [pc EXCEPT ![p] = "none"]
    /\ sig' = [sig EXCEPT ![p] = FALSE]
    /\ Ended({p})
    /\ UNCHANGED <<stage, request>>

\* delete_pid_from_file(): no line is left.
UnregisterLast(p) ==
    /\ pc[p] = "closing" /\ stage[p] = "no" /\ Idle
    /\ OthersLines(p) = NoLines
    /\ file' = NoFile /\ tmp' = NoFile
    /\ pc' = [pc EXCEPT ![p] = "none"]
    /\ sig' = [sig EXCEPT ![p] = FALSE]
    /\ Ended({p})
    /\ UNCHANGED <<stage, request>>

\* The temporary file is copied back (unless another process has removed it)
\* and removed, and the process goes on.
Copied(p, next) ==
    /\ stage[p] = "kept"
    /\ file' = IF tmp = NoFile THEN file ELSE tmp
    /\ tmp' = NoFile
    /\ stage' = [stage EXCEPT ![p] = "no"]
    /\ pc' = [pc EXCEPT ![p] = next]

Pruned(p) ==
    /\ pc[p] = "prune" /\ Copied(p, "ask")
    /\ UNCHANGED <<seq, prior, request, sig, shown>>

Registered(p) ==
    /\ pc[p] = "new" /\ Copied(p, "setup")
    /\ UNCHANGED <<seq, prior, request, sig, shown>>

Unregistered(p) ==
    /\ pc[p] = "closing" /\ Copied(p, "none")
    /\ sig' = [sig EXCEPT ![p] = FALSE]
    /\ Ended({p})
    /\ UNCHANGED request

-----------------------------------------------------------------------------
(***************************************************************************)
(* Running and ending                                                      *)
(***************************************************************************)

\* The window is there, its own file opened, and install_open_handler() called.
Ready(p) ==
    /\ pc[p] = "setup"
    /\ pc' = [pc EXCEPT ![p] = "open"]
    /\ UNCHANGED <<stage, file, tmp, seq, prior, request, sig, shown>>

\* faulty: the request is removed before it is read.
HandleUnread(p) ==
    /\ HasHandler(p) /\ sig[p]
    /\ sig' = [sig EXCEPT ![p] = FALSE]
    /\ request' = [request EXCEPT ![p] = None]
    /\ shown' = [shown EXCEPT ![p] = request'[p]]
    /\ UNCHANGED <<pc, stage, file, tmp, seq, prior>>

\* process_handoff_message()
Handle(p) ==
    /\ HasHandler(p) /\ sig[p]
    /\ sig' = [sig EXCEPT ![p] = FALSE]
    /\ request' = [request EXCEPT ![p] = None]
    /\ shown' = [shown EXCEPT ![p] = IF request[p] = None THEN @ ELSE request[p]]
    /\ UNCHANGED <<pc, stage, file, tmp, seq, prior>>

\* The user closes the window: gtk_main() returns.
Close(p) ==
    /\ pc[p] = "open"
    /\ pc' = [pc EXCEPT ![p] = "closing"]
    /\ UNCHANGED <<stage, file, tmp, seq, prior, request, sig, shown>>

\* A crash between two of these steps, or the end of another program.
Die(p) ==
    /\ pc[p] # "none"
    /\ pc' = [pc EXCEPT ![p] = "none"]
    /\ stage' = [stage EXCEPT ![p] = "no"]
    /\ sig' = [sig EXCEPT ![p] = FALSE]
    /\ Ended({p})
    /\ UNCHANGED <<file, tmp, request>>

Next ==
    \E p \in Pids :
        \/ Start(p) \/ FindNone(p) \/ FindPrior(p) \/ Refuse(p)
        \/ WriteRequest(p) \/ Signal(p) \/ SignalFails(p)
        \/ RegisterFirst(p) \/ WriteFirst(p) \/ Register(p)
        \/ Unregister(p) \/ UnregisterLast(p)
        \/ Pruned(p) \/ Registered(p) \/ Unregistered(p)
        \/ Ready(p) \/ Handle(p) \/ Close(p) \/ Die(p)

Spec == Init /\ [][Next]_vars

\* A signal that is pending is delivered: the system sees to that, and the
\* handler interrupts whatever the process is doing.
FairSpec == Spec /\ \A p \in Pids : WF_vars(Handle(p))

-----------------------------------------------------------------------------
(***************************************************************************)
(* Properties                                                              *)
(***************************************************************************)

TypeOK ==
    /\ pc \in [Pids -> Steps]
    /\ stage \in [Pids -> {"no", "first", "kept"}]
    /\ file \in Lines \cup {NoFile} /\ tmp \in Lines \cup {NoFile}
    /\ seq \in [Pids -> 0 .. MaxNumber]
    /\ prior \in [Pids -> Pids \cup {None}]
    /\ request \in [Pids -> Pids \cup {None}]
    /\ sig \in [Pids -> BOOLEAN]
    /\ shown \in [Pids -> Pids \cup {None}]
    /\ \A p \in Pids :
          /\ pc[p] \in {"ask", "prune", "send"} <=> prior[p] # None
          /\ stage[p] # "no" => pc[p] \in {"prune", "new", "closing"}
          /\ stage[p] = "first" =>
                pc[p] = "new" /\ ("overlap" \notin Faults => file = NoFile)

\* An instance: a process that has written its line and has a window.
IsInstance(p) == pc[p] \in {"setup", "open"}

\* The number in the title of its window; the first has none.
Number(p) == IF seq[p] = 0 THEN 1 ELSE seq[p]

\* Crashes, identifiers used again and the lines of processes that prune the
\* file or leave it notwithstanding, the file has the line of every instance
\* with the number it shows.
AllInFile ==
    \A p \in Pids : IsInstance(p) => file # NoFile /\ file[p] = Number(p)

\* "in which case the multi-instance 'sequence number' would get screwed up"
\* (gretl_ipc.c, on lines of instances that have crashed): no two windows show
\* the same number.
NumbersDiffer ==
    \A p, q \in Pids :
        IsInstance(p) /\ IsInstance(q) /\ p # q => Number(p) # Number(q)

\* "the name of this file is written into the IPC file" (gretl_ipc.c): a
\* process that has been signalled finds the request that it was signalled for.
RequestThere == \A p \in Pids : sig[p] => HasHandler(p) /\ request[p] # None

\* A newly started process that looks for a prior instance finds one, a process
\* of gretl, if there is any, and no instance has started since that one.
FindsLatest ==
    [][\A p, q \in Pids :
          /\ pc[p] = "start" /\ pc'[p] \in {"new", "ask", "prune"}
          /\ IsInstance(q)
          => /\ prior'[p] # None /\ file[q] <= file[prior'[p]]
             /\ pc[prior'[p]] # "other"]_vars

\* What an instance is handed is opened, if it does not end before.
Opened ==
    \A p, q \in Pids :
        (pc[p] = "open" /\ sig[p] /\ request[p] = q)
            ~> (pc[p] # "open" \/ shown[p] = q)

\* What the registry is implemented by.
numberOf == [p \in Pids |-> IF IsInstance(p) THEN Number(p) ELSE 0]

pendingOf == [p \in Pids |-> IF IsInstance(p) /\ sig[p] THEN request[p] ELSE None]

shownOf == [p \in Pids |-> IF IsInstance(p) THEN shown[p] ELSE None]

R == INSTANCE Registry WITH
        number <- numberOf, pending <- pendingOf, shown <- shownOf

\* The file, the temporary file and the requests implement a registry: the
\* running instances are numbered in the order in which they started, and what
\* is handed to one is what it opens.
ImplementsRegistry == R!Spec
=============================================================================
