----------------------------- MODULE ReadAloud -----------------------------
(***************************************************************************)
(* What reading an answer aloud in parts promises: every part continues    *)
(* where the one before ended, and is not empty, until the listener has    *)
(* heard the whole answer or declined the rest.                            *)
(***************************************************************************)
EXTENDS Naturals, Sequences

CONSTANT Answers   \* the texts that may be read

VARIABLES
    heard,   \* what the listener has heard of the answer
    left     \* what is left of it

Init == heard = <<>> /\ left = <<>>

\* An answer is there, and the first part of it is read.
Begin ==
    /\ heard = <<>> /\ left = <<>>
    /\ heard' \o left' \in Answers
    /\ heard' # <<>> \/ left' = <<>>

\* The next part follows what was heard.
Continue ==
    /\ heard' \o left' = heard \o left
    /\ Len(left') < Len(left)

Decline ==
    /\ left' = <<>>
    /\ UNCHANGED heard

\* The next question; the answer before it is over.
Ask ==
    /\ left = <<>> /\ left' = <<>>
    /\ heard' = <<>>

Spec == Init /\ [][Begin \/ Continue \/ Decline \/ Ask]_<<heard, left>>
=============================================================================
