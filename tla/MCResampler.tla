---------------------------- MODULE MCResampler -----------------------------
(* The rates of IQStream's decoders, in units of 250 Hz.  Delay lines of   *)
(* three samples, with as many taps left over as the real ones have (113,  *)
(* 57, 13, 35, 68 and 57).  A CIC of order 3, samples of 4 bits and words  *)
(* of 16 relate as one of order 6, samples of 8 bits and words of 32: the  *)
(* sums of decoder 2 just fit.                                             *)
EXTENDS Resampler

Config(rate, taps) == [outputRate |-> rate, numTaps |-> taps]

Decoders == {Config(960, 5), Config(240, 5), Config(9600, 3), Config(6400, 5),
             Config(8000, 13), Config(7680, 9)}

(* The hypothesis of CicIsExact; the growth is a power of the rate.        *)
ASSUME MCResamplerAssumption ==
  /\ Fits
  /\ \A c \in Configs : Growth(cicOrder, CicD(c.outputRate)) = CicD(c.outputRate)^cicOrder

=============================================================================
