------------------------------ MODULE Outputs -------------------------------
(***************************************************************************)
(* What the redirection of output and the settings of the program promise  *)
(* to scripts and functions: each of them diverts its own output, at most  *)
(* once at a time, and gets its messages back when that ends; what it      *)
(* finds set is what its caller had set, and the caller finds its own      *)
(* settings and its own output again.  After an error the session goes on  *)
(* undiverted, or a caller that has caught it goes on as before the call.  *)
(* There is one record for each activation and nothing that they share.    *)
(* Outfile implements this.                                                *)
(***************************************************************************)
EXTENDS Naturals, Sequences, SequencesExt

CONSTANTS Options   \* the values of a setting

VARIABLES acts      \* the session first, then the functions that run

\* diverted  its output goes elsewhere
\* restores  messages will be turned on when that ends
\* messages  auxiliary messages are printed
\* option    its value of the setting
Activation ==
    [diverted : BOOLEAN, restores : BOOLEAN, messages : BOOLEAN, option : Options]

Top == Last(acts)

Update(a) == acts' = Append(Front(acts), a)

Undiverted(a) ==
    [a EXCEPT !.diverted = FALSE, !.restores = FALSE, !.messages = @ \/ a.restores]

Init == \E a \in Activation : ~a.diverted /\ ~a.restores /\ acts = <<a>>

\* "outfile", with or without --quiet
Divert(quiet) ==
    /\ ~Top.diverted
    /\ Update([Top EXCEPT !.diverted = TRUE,
                          !.restores = quiet /\ Top.messages,
                          !.messages = @ /\ ~quiet])

End == Top.diverted /\ Update(Undiverted(Top))

Set(m, o) == Update([Top EXCEPT !.messages = m, !.option = o])

Call ==
    acts' = Append(acts, [diverted |-> FALSE, restores |-> FALSE,
                          messages |-> FALSE, option |-> Top.option])

Return ==
    /\ Len(acts) > 1 /\ ~Top.diverted
    /\ acts' = Front(acts)

\* An error ends all functions and what was diverted, or the functions that
\* are above a caller that catches it.
Fail ==
    \/ acts' = <<Undiverted(acts[1])>>
    \/ \E k \in 1 .. Len(acts) - 1 : acts' = SubSeq(acts, 1, k)

Next ==
    \/ \E m \in BOOLEAN, o \in Options : Set(m, o)
    \/ \E quiet \in BOOLEAN : Divert(quiet)
    \/ End \/ Call \/ Return \/ Fail

Spec == Init /\ [][Next]_acts
=============================================================================
