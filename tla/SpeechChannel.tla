---------------------------- MODULE SpeechChannel ----------------------------
(***************************************************************************)
(* What the rest of the program may expect of TtsWorker: one line of       *)
(* sentences, spoken in the order they were said.  A sentence that cannot  *)
(* be synthesised is lost; a preemption empties the line at once, and only *)
(* the piece already on its way to the loudspeaker is still heard.         *)
(***************************************************************************)
EXTENDS Naturals, Sequences

VARIABLES said,      \* number of the sentence said last
          waiting,   \* said, not yet on its way to the loudspeaker
          speaking,  \* the piece on its way or being heard
          heard      \* every sentence that was on its way, in order

channelVars == <<said, waiting, speaking, heard>>

Init ==
    /\ said = 0
    /\ waiting = <<>> /\ speaking = <<>> /\ heard = <<>>

Say ==
    /\ said' \in Nat /\ said' > said
    /\ waiting' = waiting \o [i \in 1 .. (said' - said) |-> said + i]
    /\ UNCHANGED <<speaking, heard>>

Lose ==
    /\ \E i, j \in DOMAIN waiting :
        /\ i <= j
        /\ waiting' = SubSeq(waiting, 1, i - 1) \o SubSeq(waiting, j + 1, Len(waiting))
    /\ UNCHANGED <<said, speaking, heard>>

Preempt ==
    /\ waiting' = <<>>
    /\ UNCHANGED <<said, speaking, heard>>

Start ==
    /\ speaking = <<>>
    /\ \E i \in DOMAIN waiting :
        /\ speaking' = SubSeq(waiting, 1, i)
        /\ heard' = heard \o SubSeq(waiting, 1, i)
        /\ waiting' = SubSeq(waiting, i + 1, Len(waiting))
    /\ UNCHANGED said

Finish ==
    /\ speaking' = <<>>
    /\ UNCHANGED <<said, waiting, heard>>

Next == Say \/ Lose \/ Preempt \/ Start \/ Finish

Spec == Init /\ [][Next]_channelVars

-----------------------------------------------------------------------------
Increasing(s) == \A i, j \in DOMAIN s : i < j => s[i] < s[j]

\* Nothing is heard twice or before what was said earlier.
InOrder ==
    /\ Increasing(heard)
    /\ Increasing(waiting)
    /\ \A i \in DOMAIN heard, j \in DOMAIN waiting : heard[i] < waiting[j]
=============================================================================
