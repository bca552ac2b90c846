------------------------------ MODULE MCUplink ------------------------------
(* Instances of Uplink: the default overlap, one that is only just enough  *)
(* for the buffer, and the last that lets the bins of a spectrum do and    *)
(* the first that does not, over both kinds of connection.                 *)
EXTENDS Uplink

CommandLines ==
  [pipeline : {"PSD"}, connection : {"TCP", "TLS"}, log2_fft_size : {8},
   freq_overlap : {3, 4, 30, 167}]
    \cup [pipeline : {"IQ"}, connection : {"TCP", "TLS"}, log2_fft_size : {8}, freq_overlap : {167}]

=============================================================================
