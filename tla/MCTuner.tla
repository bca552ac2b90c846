------------------------------ MODULE MCTuner -------------------------------
(* Instances of Tuner: a scan across the threshold, and a converter that   *)
(* mirrors what it moves.                                                  *)
EXTENDS Tuner

Moves == [f \in {21, 23, 25, 27, Bypass} |->
            [proxy |-> IF f < Threshold THEN f + 100 ELSE f, invert |-> f < Threshold]]

=============================================================================
