-------------------------------- MODULE Feed --------------------------------
(***************************************************************************)
(* What the uplink promises the server: records in the order they were     *)
(* made, each whole and once, until the connection is over.                *)
(***************************************************************************)
EXTENDS Integers, Sequences

VARIABLES
  got,   \* the records the server has in full, numbered as they were made
  over   \* nothing will follow

vars == <<got, over>>

Init == got = <<>> /\ over = FALSE

Receive ==
  /\ ~over
  /\ got' = Append(got, Len(got) + 1)
  /\ UNCHANGED over

End ==
  /\ over' = TRUE
  /\ UNCHANGED got

Next == Receive \/ End

Spec == Init /\ [][Next]_vars
=============================================================================
