----------------------------- MODULE Resampler ------------------------------
(***************************************************************************)
(* Downsampler, which IQStream runs over the samples of every segment: a   *)
(* CIC filter over wrapping integers brings the rate down by a power of    *)
(* two, a polyphase FIR filter by a fraction.  Both go on in every call    *)
(* where the last call left them.  One step is one turn of a loop.         *)
(*                                                                         *)
(* The CIC computes values.  The FIR, whose arithmetic is on floats, gets  *)
(* the numbers of the samples, the first being 0, and its output is the    *)
(* set of pairs <<tap, sample>> it has multiplied and added.  The design   *)
(* of the taps is left out but for how many they are.                      *)
(***************************************************************************)
EXTENDS Integers, Sequences, FiniteSetsExt

CONSTANTS
  inputRate,   \* of the dongle; the rates are in some common unit
  Configs,     \* what IQStream asks for: [outputRate, numTaps]
  Word,        \* 2^32, the values of cicInternalType
  cicOrder,    \* 6
  Levels,      \* values of samples
  Lengths,     \* of the blocks of samples
  MaxCalls     \* calls of filter() (BOUND)

VARIABLES
  rate_, order_, gain_, int_, comb_, cicOutIndex_,              \* CIC
  rateI_, rateD_, numTaps, delayLine_, delayIndex_, outIndex_,  \* RationalFIR
  samplesCIC_, samplesAfterCIC,
  at, calls, samplesIn, i, numOut,   \* the call under way
  heard,           \* history: all samples so far
  sum, squeezed,   \* history: the last value the CIC put out, and how many
  fed,             \* history: samples that went through the FIR
  made,            \* history: outputs of the FIR
  last             \* history: the pairs of the last of them

setupVars == <<rate_, order_, gain_, rateI_, rateD_, numTaps>>
cicVars == <<int_, comb_, cicOutIndex_, heard, sum, squeezed>>
firVars == <<delayLine_, delayIndex_, outIndex_, fed, made, last>>
bufferVars == <<samplesCIC_, samplesAfterCIC>>
callVars == <<calls, samplesIn>>
vars == <<setupVars, cicVars, firVars, bufferVars, callVars, at, i, numOut>>

cicOversampleFactor == 4
maxInterpolation == 32

-----------------------------------------------------------------------------
(*                       What the constructors set                         *)

CicD(outputRate) ==
  LET from[D \in Nat] ==
        IF inputRate >= cicOversampleFactor * outputRate * D THEN from[2 * D] ELSE D
  IN from[1]

gcd[v1 \in Nat, v2 \in Nat] == IF v2 = 0 THEN v1 ELSE gcd[v2, v1 % v2]

Interpolation(outputRate) == outputRate \div gcd[inputRate \div CicD(outputRate), outputRate]
Decimation(outputRate) ==
  (inputRate \div CicD(outputRate)) \div gcd[inputRate \div CicD(outputRate), outputRate]

Gain(order, rate) ==
  LET gain[j \in 0 .. order] == IF j = 0 THEN 1 ELSE (gain[j - 1] * rate) % Word IN gain[order]

(* Fault: the division is rounded up.                                      *)
FaultDelaySize(taps, rateI) == (taps + rateI - 1) \div rateI + 1

(* The taps with the zeros behind them, and what is left for a delay line. *)
PaddedSize(taps, rateI) == taps + (taps % rateI)
DelaySize(taps, rateI) == PaddedSize(taps, rateI) \div rateI

Block == Max(Lengths)
NoSample == -1   \* a zero the delay line began with

ASSUME ResamplerAssumption ==
  /\ MaxCalls \in Nat
  /\ Word \in Nat \ {0} /\ cicOrder \in Nat /\ Levels \subseteq Nat
  /\ IsFiniteSet(Lengths) /\ Lengths # {} /\ Lengths \subseteq Nat /\ Block \in Nat
  /\ \A n \in Lengths : n <= Block
  /\ \A c \in Configs :
       /\ c.numTaps \in Nat
       /\ Interpolation(c.outputRate) \in 1 .. maxInterpolation
       /\ Decimation(c.outputRate) \in Nat \ {0}
       /\ Interpolation(c.outputRate) <= Decimation(c.outputRate)
       /\ CicD(c.outputRate) \in Nat \ {0}
       /\ DelaySize(c.numTaps, Interpolation(c.outputRate)) \in Nat \ {0}

Init ==
  /\ \E c \in Configs :
       /\ rate_ = CicD(c.outputRate)
       /\ order_ = IF rate_ = 1 THEN 0 ELSE cicOrder
       /\ rateI_ = Interpolation(c.outputRate)
       /\ rateD_ = Decimation(c.outputRate)
       /\ numTaps = c.numTaps
  /\ gain_ = Gain(order_, rate_)
  /\ int_ = [j \in 1 .. order_ |-> 0]
  /\ comb_ = [j \in 1 .. order_ |-> 0]
  /\ cicOutIndex_ = 0
  /\ delayLine_ = [x \in 0 .. DelaySize(numTaps, rateI_) - 1 |-> NoSample]
  /\ delayIndex_ = 0
  /\ outIndex_ = 0
  /\ samplesCIC_ = [x \in 0 .. Block - 1 |-> NoSample]
  /\ samplesAfterCIC = 0
  /\ at = "idle" /\ calls = 0 /\ samplesIn = <<>> /\ i = 0 /\ numOut = 0
  /\ heard = <<>> /\ sum = 0 /\ squeezed = 0 /\ fed = 0 /\ made = 0 /\ last = {}

-----------------------------------------------------------------------------
(*                                 The CIC                                 *)

(* A segment of equal samples: of any samples, as far as sums can tell.    *)
Call ==
  /\ at = "idle"
  /\ calls < MaxCalls
  /\ \E n \in Lengths, level \in Levels : samplesIn' = [x \in 1 .. n |-> level]
  /\ calls' = calls + 1
  /\ at' = "cic"
  /\ i' = 0 /\ samplesAfterCIC' = 0
  /\ UNCHANGED <<setupVars, cicVars, firVars, samplesCIC_, numOut>>

(* Fault: the registers saturate.                                          *)
FaultIntegrated ==
  LET after[j \in 0 .. order_] ==
        IF j = 0 THEN samplesIn[i + 1] ELSE Min({after[j - 1] + int_[j], Word - 1})
  IN after

(* A sample after so many of the integrators, and then of the combs.       *)
Integrated ==
  LET after[j \in 0 .. order_] ==
        IF j = 0 THEN samplesIn[i + 1] % Word ELSE (after[j - 1] + int_[j]) % Word
  IN after

Combed(sample) ==
  LET after[j \in 0 .. order_] ==
        IF j = 0 THEN sample ELSE (after[j - 1] - comb_[j]) % Word
  IN after

(* One sample.  (With a rate of 1 the samples are copied: no integrators,  *)
(* no combs.)                                                              *)
CicSample ==
  /\ at = "cic" /\ i < Len(samplesIn)
  /\ int_' = [j \in 1 .. order_ |-> Integrated[j]]
  /\ heard' = Append(heard, samplesIn[i + 1])
  /\ IF cicOutIndex_ + 1 < rate_
     THEN /\ cicOutIndex_' = cicOutIndex_ + 1
          /\ UNCHANGED <<comb_, sum, squeezed, bufferVars>>
     ELSE LET combed == Combed(Integrated[order_]) IN
          /\ cicOutIndex_' = 0
          /\ comb_' = [j \in 1 .. order_ |-> combed[j - 1]]
          /\ sum' = combed[order_]
          /\ squeezed' = squeezed + 1
          /\ samplesCIC_' = [samplesCIC_ EXCEPT ![samplesAfterCIC] = squeezed]
          /\ samplesAfterCIC' = samplesAfterCIC + 1
  /\ i' = i + 1
  /\ UNCHANGED <<setupVars, firVars, callVars, at, numOut>>

CicDone ==
  /\ at = "cic" /\ i = Len(samplesIn)
  /\ at' = "fir"
  /\ i' = 0 /\ numOut' = 0
  /\ UNCHANGED <<setupVars, cicVars, firVars, bufferVars, callVars>>

-----------------------------------------------------------------------------
(*                               The FIR                                   *)

Store ==
  /\ at = "fir" /\ i < samplesAfterCIC
  /\ delayLine_' = [delayLine_ EXCEPT ![delayIndex_] = samplesCIC_[i]]
  /\ at' = "out"
  /\ UNCHANGED <<setupVars, cicVars, delayIndex_, outIndex_, fed, made, last, bufferVars,
                 callVars, i, numOut>>

delaySize == DelaySize(numTaps, rateI_)

(* Fault: it steps forward.                                                *)
FaultIndex(j) == (delayIndex_ + j) % delaySize

(* Where calcPolyphase() is after j steps back through the delay line.     *)
fIndex(j) == IF j <= delayIndex_ THEN delayIndex_ - j ELSE delayIndex_ + delaySize - j

(* The taps used with each sample; those behind numTaps are zero, and so   *)
(* are the samples the delay line began with.                              *)
calcPolyphase ==
  {<<outIndex_ + rateI_ * j, delayLine_[fIndex(j)]>> : j \in
     {x \in 0 .. delaySize - 1 : outIndex_ + rateI_ * x < numTaps /\ delayLine_[fIndex(x)] # NoSample}}

Output ==
  /\ at = "out" /\ outIndex_ < rateI_
  /\ last' = calcPolyphase
  /\ made' = made + 1
  /\ outIndex_' = outIndex_ + rateD_
  /\ numOut' = numOut + 1
  /\ UNCHANGED <<setupVars, cicVars, delayLine_, delayIndex_, fed, bufferVars, callVars, at, i>>

(* Fault: the phase is not carried on to the next sample.                  *)
FaultNextSample ==
  /\ at = "out" /\ outIndex_ >= rateI_
  /\ outIndex_' = 0
  /\ delayIndex_' = (delayIndex_ + 1) % delaySize
  /\ fed' = fed + 1 /\ i' = i + 1 /\ at' = "fir"
  /\ UNCHANGED <<setupVars, cicVars, delayLine_, made, last, bufferVars, callVars, numOut>>

NextSample ==
  /\ at = "out" /\ outIndex_ >= rateI_
  /\ outIndex_' = outIndex_ - rateI_
  /\ delayIndex_' = IF delayIndex_ + 1 >= delaySize THEN 0 ELSE delayIndex_ + 1
  /\ fed' = fed + 1
  /\ i' = i + 1
  /\ at' = "fir"
  /\ UNCHANGED <<setupVars, cicVars, delayLine_, made, last, bufferVars, callVars, numOut>>

Return ==
  /\ at = "fir" /\ i = samplesAfterCIC
  /\ at' = "idle"
  /\ UNCHANGED <<setupVars, cicVars, firVars, bufferVars, callVars, i, numOut>>

Over == at = "idle" /\ calls = MaxCalls /\ UNCHANGED vars

Next == Call \/ CicSample \/ CicDone \/ Store \/ Output \/ NextSample \/ Return \/ Over

Spec == Init /\ [][Next]_vars

-----------------------------------------------------------------------------
(* The sum of the last rate_ values of f up to the n-th one.               *)
Window(f, n) ==
  LET over[v \in 0 .. rate_] ==
        IF v = 0 THEN 0 ELSE over[v - 1] + (IF v <= n THEN f[n - v + 1] ELSE 0)
  IN over[rate_]

(* What order_ moving sums over rate_ samples make of the samples so far,  *)
(* over integers without bound.                                            *)
MovingSums ==
  LET moving[j \in 0 .. order_] ==
        IF j = 0 THEN heard
        ELSE LET before == moving[j - 1] IN [n \in 1 .. Len(heard) |-> Window(before, n)]
  IN moving[order_]

(* What they make of equal samples.                                        *)
Growth(order, rate) ==
  LET growth[j \in 0 .. order] == IF j = 0 THEN 1 ELSE growth[j - 1] * rate IN growth[order]

(* The sums, of any samples, fit a word.                                   *)
Fits ==
  \A c \in Configs, x \in Levels \cup {1} :
    LET rate == CicD(c.outputRate)
    IN  x * Growth(IF rate = 1 THEN 0 ELSE cicOrder, rate) < Word

(* Although its integrators run over, the CIC puts out the moving sums of  *)
(* the samples, and they are divided by the right factor, across all calls *)
(* (CIC::filter(), CIC::getGrowth()).                                      *)
SumsExactly ==
  /\ gain_ = Growth(order_, rate_)
  /\ at = "cic" /\ i > 0 /\ cicOutIndex_ = 0 => sum = MovingSums[Len(heard)]

(* Every tap has a place in the polyphases: not so for decoder 6, whose    *)
(* taps the constructor adds one zero where it takes three.                *)
NoTapLost == delaySize * rateI_ >= numTaps

(* The samples that have a share in output k, each with its tap: the       *)
(* samples interpolated rateI_ times, filtered, and decimated rateD_ times. *)
Convolution(k) ==
  {<<k * rateD_ - n * rateI_, n>> : n \in
     {x \in 0 .. k * rateD_ : k * rateD_ - x * rateI_ \in 0 .. numTaps - 1}}

(* Every output is the convolution of all taps with the samples that came  *)
(* before it, in this call or in earlier ones (calcPolyphase()).           *)
Convolves == NoTapLost /\ made > 0 => last = Convolution(made - 1)

(* No output is early, late or lost: between two calls all that have their *)
(* samples are made (RationalFIR::filter()).                               *)
KeepsRate ==
  at = "idle" => made * rateD_ >= fed * rateI_ /\ (made - 1) * rateD_ < fed * rateI_

(* No index leaves its array, and the outputs of a call are no more than   *)
(* its samples, for which IQStream has made room.                          *)
InBounds ==
  /\ samplesAfterCIC <= Block /\ numOut <= Block
  /\ delayIndex_ \in 0 .. delaySize - 1
  /\ outIndex_ < rateI_ => outIndex_ + rateI_ * (delaySize - 1) < PaddedSize(numTaps, rateI_)

=============================================================================
