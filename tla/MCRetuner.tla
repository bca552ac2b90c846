----------------------------- MODULE MCRetuner ------------------------------
(* Instances of Retuner: three messages that ask for different frequencies *)
(* and return to a gain, or three of which one lacks its fields and the    *)
(* last asks for what the first did; a converter that moves what lies      *)
(* below 24 MHz.                                                           *)
EXTENDS Retuner

Onwards == <<[fc |-> 15, gain |-> 30], [fc |-> 90, gain |-> 0], [fc |-> 20, gain |-> 30]>>
AndBack == <<[fc |-> 90, gain |-> 30], [fc |-> 0, gain |-> 0], [fc |-> 90, gain |-> 30]>>
Messages == {Onwards, AndBack}
Moves == [f \in Freqs |-> IF f < 24 THEN 120 ELSE f]

=============================================================================
