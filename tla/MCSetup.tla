------------------------------ MODULE MCSetup -------------------------------
(* Command lines for Setup: FFTs from 64 to 512 samples, overlaps around   *)
(* each of them, and what the conversion makes of -1.                      *)
EXTENDS Setup

M == 1048576
Around == {0, 1, 63, 64, 65, 128, 255, 256, 257, 511, 512, M - 1}

=============================================================================
