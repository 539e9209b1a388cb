----------------------------- MODULE LoopBodies -----------------------------
(***************************************************************************)
(* What the storing of loops promises: a loop is a value, the sequence of  *)
(* the lines between its first line and its endloop, loops inside it       *)
(* included.  Whoever reads the lines stores them, for itself: no other    *)
(* script, function or loop adds to them or loses them.  A loop that is    *)
(* complete is executed before its reader goes on, and what is executed is *)
(* what was read.                                                          *)
(***************************************************************************)
EXTENDS Naturals, Sequences, SequencesExt

VARIABLES
    acts    \* what is under execution, the latest last:
            \*   readers, with the bodies they are storing (the innermost
            \*   last) and the loop that is due, if there is one;
            \*   loops, with their body and where they are in it

Reader == [open |-> << >>, due |-> << >>]

Executing(body) == [body |-> body, at |-> 0]

IsReader(a) == "open" \in DOMAIN a

\* A line of a body; one that is a loop has a body itself.
Line(op) == [op |-> op, body |-> << >>]

InnerLoop(body) == [op |-> "loop", body |-> body]

Top == Last(acts)

SetTop(a) == acts' = Append(Front(acts), a)

Reads == acts # << >> /\ IsReader(Top) /\ Top.due = << >>

Runs == acts # << >> /\ ~IsReader(Top)

-----------------------------------------------------------------------------

Init == acts = << >>

Start == acts = << >> /\ acts' = <<Reader>>

\* A line that begins a loop.
Open == Reads /\ SetTop([Top EXCEPT !.open = Append(@, << >>)])

\* A line inside a loop.
Store(op) ==
    /\ Reads /\ Top.open # << >>
    /\ SetTop([Top EXCEPT !.open[Len(Top.open)] = Append(@, Line(op))])

\* The line that ends a loop: it is part of the one around it, or is due.
Close ==
    /\ Reads /\ Top.open # << >>
    /\ LET body  == Last(Top.open)
           outer == Front(Top.open)
       IN  IF outer = << >>
           THEN SetTop([open |-> << >>, due |-> <<body>>])
           ELSE SetTop([Top EXCEPT !.open =
                          Append(Front(outer), Append(Last(outer), InnerLoop(body)))])

\* An error in the lines of a loop.
Drop == Reads /\ Top.open # << >> /\ SetTop(Reader)

\* A function or a script, called by a line that is not stored.
Call == Reads /\ Top.open = << >> /\ acts' = Append(acts, Reader)

Run ==
    /\ acts # << >> /\ IsReader(Top) /\ Top.due # << >>
    /\ acts' = Append(Front(acts), Reader) \o <<Executing(Top.due[1])>>

\* A reader is at its end, or is ended by an error.
End == acts # << >> /\ IsReader(Top) /\ acts' = Front(acts)

-----------------------------------------------------------------------------

Goto(j) == SetTop([Top EXCEPT !.at = j])

Next1 == IF Top.at = 0 THEN 0 ELSE Top.at + 1

Iterate == Runs /\ Top.at = 0 /\ Goto(1)

Step ==
    /\ Runs /\ Top.at \in DOMAIN Top.body
    /\ Top.body[Top.at].op # "loop"
    /\ Goto(Top.at + 1)

CallInLoop ==
    /\ Runs
    /\ Top.at = 0 \/ (Top.at \in DOMAIN Top.body /\ Top.body[Top.at].op # "loop")
    /\ acts' = Append(Front(acts), [Top EXCEPT !.at = Next1]) \o <<Reader>>

Enter ==
    /\ Runs /\ Top.at \in DOMAIN Top.body
    /\ Top.body[Top.at].op = "loop"
    /\ acts' = Append(Front(acts), [Top EXCEPT !.at = Next1])
                 \o <<Executing(Top.body[Top.at].body)>>

Again == Runs /\ Top.at = Len(Top.body) + 1 /\ Goto(0)

Leave == Runs /\ acts' = Front(acts)

-----------------------------------------------------------------------------

Next ==
    \/ Start \/ Open \/ (\E op \in {"stmt", "rename"} : Store(op)) \/ Close
    \/ Drop \/ Call \/ Run \/ End
    \/ Iterate \/ Step \/ CallInLoop \/ Enter \/ Again \/ Leave

Spec == Init /\ [][Next]_acts
=============================================================================
