------------------------------ MODULE Registry ------------------------------
(***************************************************************************)
(* What the file of process numbers and the hand-off of gretl's graphical  *)
(* client (gui/gretl_ipc.c) promise: the running instances are numbered in *)
(* the order in which they started, and what is handed to an instance by a *)
(* newly started process is opened by it.                                  *)
(***************************************************************************)
EXTENDS Naturals

CONSTANTS Pids, MaxNumber, None

VARIABLES
    number,     \* process -> its number, 0 if it is not an instance
    pending,    \* instance -> the process whose file it has been handed
    shown       \* instance -> the process whose file it opened last

vars == <<number, pending, shown>>

Init ==
    /\ number = [p \in Pids |-> 0]
    /\ pending = [p \in Pids |-> None]
    /\ shown = [p \in Pids |-> None]

\* Its number is larger than that of any other instance.
Join(p) ==
    /\ number[p] = 0
    /\ \E n \in 1 .. MaxNumber :
          /\ \A q \in Pids : number[q] < n
          /\ number' = [number EXCEPT ![p] = n]
    /\ UNCHANGED <<pending, shown>>

Leave(p) ==
    /\ number[p] # 0
    /\ number' = [number EXCEPT ![p] = 0]
    /\ pending' = [pending EXCEPT ![p] = None]
    /\ shown' = [shown EXCEPT ![p] = None]

\* q, which is no instance, hands its file to p and ends.
HandOver(p, q) ==
    /\ number[p] # 0 /\ number[q] = 0
    /\ pending[p] = None
    /\ pending' = [pending EXCEPT ![p] = q]
    /\ UNCHANGED <<number, shown>>

Open(p) ==
    /\ pending[p] # None
    /\ shown' = [shown EXCEPT ![p] = pending[p]]
    /\ pending' = [pending EXCEPT ![p] = None]
    /\ UNCHANGED number

Next ==
    \E p \in Pids :
        \/ Join(p) \/ Leave(p) \/ Open(p)
        \/ \E q \in Pids : HandOver(p, q)

Spec == Init /\ [][Next]_vars
=============================================================================
