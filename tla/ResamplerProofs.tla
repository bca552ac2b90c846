--------------------------- MODULE ResamplerProofs --------------------------
(* The two filters of Resampler, for any rates, number of taps and order.  *)
(* First the polyphase filter: every output is a convolution.  Then the    *)
(* CIC: its wrapping integrators and combs put out exact moving sums.      *)
EXTENDS Resampler, SequenceTheorems, WellFoundedInduction, TLAPS

LEMMA Quotient ==
  ASSUME NEW a \in Nat, NEW b \in Nat \ {0}
  PROVE  a \div b \in Nat /\ (a \div b) * b <= a
OBVIOUS

LEMMA TimesMonotonic ==
  ASSUME NEW a \in Int, NEW b \in Int, NEW c \in Nat, a <= b
  PROVE  a * c \in Int /\ b * c \in Int /\ a * c <= b * c
<1>1. b - a \in Nat /\ (b - a) * c \in Nat /\ b * c = a * c + (b - a) * c
  OBVIOUS
<1> QED
  BY <1>1

(* What the constructors leave: a delay line of whole rows of taps.        *)
SetupInv ==
  /\ rateI_ \in Nat \ {0} /\ rateD_ \in Nat \ {0} /\ rateI_ <= rateD_
  /\ numTaps \in Nat
  /\ delaySize \in Nat \ {0}
  /\ PaddedSize(numTaps, rateI_) \in Nat
  /\ delaySize * rateI_ <= PaddedSize(numTaps, rateI_)

(* The samples between the two filters: the buffer holds the latest, ...   *)
HeldInv == \A x \in 0 .. samplesAfterCIC - 1 : samplesCIC_[x] = squeezed - samplesAfterCIC + x

(* ... and the FIR has had all those before the i-th of them.              *)
BufferInv ==
  /\ at \in {"idle", "cic", "fir", "out"}
  /\ Len(samplesIn) \in 0 .. Block
  /\ i \in Nat /\ samplesAfterCIC \in 0 .. Block
  /\ samplesCIC_ \in [0 .. Block - 1 -> Int]
  /\ squeezed \in Nat /\ fed \in Nat
  /\ at = "idle" => i = samplesAfterCIC /\ fed = squeezed
  /\ at = "cic" => samplesAfterCIC <= i /\ i <= Len(samplesIn) /\ fed = squeezed - samplesAfterCIC
  /\ at \in {"fir", "out"} => i <= samplesAfterCIC /\ fed = squeezed - samplesAfterCIC + i
  /\ at = "out" => i < samplesAfterCIC

Sample(n) == IF n < 0 THEN NoSample ELSE n

(* The delay line holds the last samples, one behind the other.            *)
DelayInv ==
  /\ delayIndex_ \in 0 .. delaySize - 1
  /\ delayLine_ \in [0 .. delaySize - 1 -> Int]
  /\ \A j \in 0 .. delaySize - 1 : j > 0 \/ at = "out" => delayLine_[fIndex(j)] = Sample(fed - j)

(* The phase is how far the outputs made are ahead of the samples.         *)
PhaseInv ==
  /\ made \in Nat
  /\ outIndex_ \in Nat
  /\ outIndex_ = made * rateD_ - fed * rateI_
  /\ at # "out" => outIndex_ < rateD_
  /\ at = "out" => outIndex_ < rateI_ + rateD_

(* A sample makes one output at most.                                      *)
RoomInv ==
  /\ numOut \in 0 .. Block
  /\ at \in {"idle", "fir"} => numOut <= i
  /\ at = "out" => numOut <= IF outIndex_ < rateD_ THEN i ELSE i + 1

FirInv == SetupInv /\ HeldInv /\ BufferInv /\ DelayInv /\ PhaseInv /\ RoomInv

-----------------------------------------------------------------------------
LEMMA InitFir == Init => FirInv
<1> SUFFICES ASSUME Init PROVE FirInv
  OBVIOUS
<1>1. PICK c \in Configs : /\ rateI_ = Interpolation(c.outputRate)
                           /\ rateD_ = Decimation(c.outputRate)
                           /\ numTaps = c.numTaps
  BY DEF Init
<1>2. /\ rateI_ \in Nat \ {0} /\ rateD_ \in Nat \ {0} /\ rateI_ <= rateD_ /\ numTaps \in Nat
      /\ delaySize \in Nat \ {0}
  BY <1>1, ResamplerAssumption DEF delaySize
<1>3. PaddedSize(numTaps, rateI_) \in Nat
  BY <1>2 DEF PaddedSize
<1>4. delaySize * rateI_ <= PaddedSize(numTaps, rateI_)
  BY <1>2, <1>3, Quotient DEF delaySize, DelaySize
<1>5. SetupInv
  BY <1>2, <1>3, <1>4 DEF SetupInv
<1>6. HeldInv /\ BufferInv
  BY ResamplerAssumption DEF Init, HeldInv, BufferInv, NoSample
<1>7. DelayInv
  <2>1. delayLine_ = [x \in 0 .. delaySize - 1 |-> NoSample] /\ delayIndex_ = 0 /\ at = "idle" /\ fed = 0
    BY DEF Init, delaySize
  <2>2. \A j \in 0 .. delaySize - 1 : j > 0 => fIndex(j) \in 0 .. delaySize - 1 /\ Sample(fed - j) = NoSample
    BY <1>2, <2>1 DEF fIndex, Sample
  <2> QED
    BY <1>2, <2>1, <2>2 DEF DelayInv, NoSample
<1>8. PhaseInv
  BY <1>2 DEF Init, PhaseInv
<1>9. RoomInv
  BY ResamplerAssumption DEF Init, RoomInv
<1> QED
  BY <1>5, <1>6, <1>7, <1>8, <1>9 DEF FirInv

(* The steps, by the parts of the invariant they disturb.                  *)
LEMMA SetupKept == SetupInv /\ UNCHANGED setupVars => SetupInv'
BY DEF SetupInv, setupVars, delaySize

LEMMA CallFir == FirInv /\ Call => FirInv'
<1> SUFFICES ASSUME FirInv, Call PROVE FirInv'
  OBVIOUS
<1>1. SetupInv'
  BY SetupKept DEF Call, FirInv
<1>2. PICK n \in Lengths, level \in Levels : samplesIn' = [x \in 1 .. n |-> level]
  BY DEF Call
<1>3. Len(samplesIn') \in 0 .. Block
  BY <1>2, ResamplerAssumption
<1>4. HeldInv' /\ BufferInv'
  <2>1. HeldInv'
    BY DEF Call, HeldInv
  <2>2. BufferInv'
    BY <1>3, ResamplerAssumption DEF FirInv, Call, BufferInv, cicVars, firVars
  <2> QED
    BY <2>1, <2>2
<1>5. DelayInv' /\ PhaseInv' /\ RoomInv'
  BY DEF FirInv, SetupInv, Call, DelayInv, PhaseInv, RoomInv, setupVars, cicVars, firVars, delaySize, fIndex
<1> QED
  BY <1>1, <1>4, <1>5 DEF FirInv

LEMMA CicSampleFir == FirInv /\ CicSample => FirInv'
<1> SUFFICES ASSUME FirInv, CicSample PROVE FirInv'
  OBVIOUS
<1>1. SetupInv'
  BY SetupKept DEF CicSample, FirInv
<1>2. at = "cic" /\ at' = "cic" /\ i < Len(samplesIn) /\ i' = i + 1 /\ samplesIn' = samplesIn /\ fed' = fed
  BY DEF CicSample, callVars, firVars
<1>3. ASSUME UNCHANGED <<squeezed, bufferVars>>
      PROVE  HeldInv' /\ BufferInv'
  <2>1. HeldInv'
    BY <1>3 DEF FirInv, HeldInv, bufferVars
  <2>2. BufferInv'
    BY <1>2, <1>3 DEF FirInv, BufferInv, bufferVars
  <2> QED
    BY <2>1, <2>2
<1>4. ASSUME squeezed' = squeezed + 1,
             samplesCIC_' = [samplesCIC_ EXCEPT ![samplesAfterCIC] = squeezed],
             samplesAfterCIC' = samplesAfterCIC + 1
      PROVE  HeldInv' /\ BufferInv'
  <2> USE <1>2, <1>4 DEF FirInv, HeldInv, BufferInv
  <2>1. samplesAfterCIC \in 0 .. Block - 1 /\ Block \in Nat
    BY ResamplerAssumption
  <2>2. samplesCIC_' \in [0 .. Block - 1 -> Int]
    BY <2>1
  <2>3. ASSUME NEW x \in 0 .. samplesAfterCIC' - 1
        PROVE  samplesCIC_'[x] = squeezed' - samplesAfterCIC' + x
    <3>1. CASE x = samplesAfterCIC
      BY <2>1, <3>1
    <3>2. CASE x # samplesAfterCIC
      BY <2>1, <3>2
    <3> QED
      BY <3>1, <3>2
  <2>4. samplesAfterCIC' \in 0 .. Block /\ squeezed' \in Nat /\ i' \in Nat
    BY <2>1
  <2>5. HeldInv'
    BY <2>3
  <2>6. BufferInv'
    BY <2>2, <2>4
  <2> QED
    BY <2>5, <2>6
<1>5. HeldInv' /\ BufferInv'
  BY <1>3, <1>4 DEF CicSample, bufferVars
<1>6. DelayInv' /\ PhaseInv' /\ RoomInv'
  BY <1>2 DEF FirInv, SetupInv, CicSample, DelayInv, PhaseInv, RoomInv, setupVars, firVars, delaySize, fIndex
<1> QED
  BY <1>1, <1>5, <1>6 DEF FirInv

LEMMA TurnFir == FirInv /\ (CicDone \/ Return) => FirInv'
<1> SUFFICES ASSUME FirInv, CicDone \/ Return PROVE FirInv'
  OBVIOUS
<1>1. SetupInv'
  BY SetupKept DEF CicDone, Return, FirInv
<1>2. HeldInv' /\ BufferInv'
  <2>1. HeldInv'
    BY DEF FirInv, CicDone, Return, HeldInv, cicVars, bufferVars
  <2>2. BufferInv'
    BY DEF FirInv, CicDone, Return, BufferInv, cicVars, firVars, bufferVars, callVars
  <2> QED
    BY <2>1, <2>2
<1>3. DelayInv' /\ PhaseInv'
  BY DEF FirInv, SetupInv, CicDone, Return, DelayInv, PhaseInv, setupVars, firVars, delaySize, fIndex
<1>4. RoomInv'
  BY ResamplerAssumption DEF FirInv, CicDone, Return, RoomInv, firVars
<1> QED
  BY <1>1, <1>2, <1>3, <1>4 DEF FirInv

(* The places of the delay line, read backwards, are all different.        *)
LEMMA StoreFir == FirInv /\ Store => FirInv'
<1> SUFFICES ASSUME FirInv, Store PROVE FirInv'
  OBVIOUS
<1>1. SetupInv' /\ HeldInv' /\ BufferInv' /\ PhaseInv' /\ RoomInv'
  <2>1. SetupInv'
    BY SetupKept DEF Store, FirInv
  <2>2. BufferInv' /\ PhaseInv' /\ RoomInv'
    BY DEF FirInv, SetupInv, Store, BufferInv, PhaseInv, RoomInv, setupVars, cicVars, bufferVars, callVars
  <2>3. HeldInv'
    BY DEF FirInv, HeldInv, Store, cicVars, bufferVars
  <2> QED
    BY <2>1, <2>2, <2>3
<1>2. DelayInv'
  <2>1. /\ delaySize \in Nat \ {0} /\ delaySize' = delaySize /\ fed \in Nat /\ fed' = fed
        /\ delayIndex_ \in 0 .. delaySize - 1 /\ delayIndex_' = delayIndex_ /\ at # "out"
    BY DEF FirInv, SetupInv, BufferInv, DelayInv, Store, setupVars, delaySize
  <2>2. samplesCIC_[i] \in Int /\ samplesCIC_[i] = fed
    BY ResamplerAssumption DEF FirInv, HeldInv, BufferInv, Store
  <2>3. delayLine_' = [delayLine_ EXCEPT ![delayIndex_] = fed] /\ delayLine_ \in [0 .. delaySize - 1 -> Int]
    BY <2>2 DEF FirInv, DelayInv, Store
  <2>4. ASSUME NEW j \in 0 .. delaySize - 1
        PROVE  delayLine_'[fIndex(j)'] = Sample(fed - j)
    <3>1. fIndex(j)' = fIndex(j) /\ fIndex(j) \in 0 .. delaySize - 1
      BY <2>1 DEF fIndex
    <3>2. CASE j = 0
      BY <2>1, <2>3, <3>1, <3>2 DEF fIndex, Sample
    <3>3. CASE j > 0
      <4>1. fIndex(j) # delayIndex_
        BY <2>1, <3>3 DEF fIndex
      <4>2. delayLine_[fIndex(j)] = Sample(fed - j)
        BY <3>3 DEF FirInv, DelayInv
      <4> QED
        BY <2>3, <3>1, <4>1, <4>2
    <3> QED
      BY <2>1, <3>2, <3>3
  <2> QED
    BY <2>1, <2>3, <2>4 DEF DelayInv
<1> QED
  BY <1>1, <1>2 DEF FirInv

LEMMA OutputFir == FirInv /\ Output => FirInv'
<1> SUFFICES ASSUME FirInv, Output PROVE FirInv'
  OBVIOUS
<1>1. SetupInv'
  BY SetupKept DEF Output, FirInv
<1>2. HeldInv' /\ BufferInv' /\ DelayInv'
  BY DEF FirInv, SetupInv, Output, HeldInv, BufferInv, DelayInv, setupVars, cicVars, bufferVars, callVars, delaySize, fIndex
<1>3. PhaseInv'
  <2>1. made' = made + 1 /\ outIndex_' = outIndex_ + rateD_ /\ UNCHANGED <<fed, rateI_, rateD_, at>> /\ at = "out"
    BY DEF Output, setupVars
  <2>2. made * rateD_ \in Int /\ (made + 1) * rateD_ = made * rateD_ + rateD_
    BY DEF FirInv, PhaseInv, SetupInv
  <2>3. fed * rateI_ \in Int
    BY DEF FirInv, BufferInv, SetupInv
  <2> DEFINE p == made * rateD_  q == fed * rateI_
  <2>4. outIndex_' = (p + rateD_) - q /\ outIndex_' \in Nat /\ outIndex_' < rateI_ + rateD_
    <3>1. outIndex_ = p - q /\ outIndex_ \in Nat /\ outIndex_ < rateI_ /\ rateI_ \in Nat /\ rateD_ \in Nat
      BY DEF FirInv, PhaseInv, SetupInv, Output
    <3>2. p \in Int /\ q \in Int
      BY <2>2, <2>3
    <3> HIDE DEF p, q
    <3> QED
      BY <2>1, <3>1, <3>2
  <2> QED
    BY <2>1, <2>2, <2>4 DEF PhaseInv, FirInv
<1>4. RoomInv'
  BY ResamplerAssumption DEF FirInv, SetupInv, BufferInv, PhaseInv, RoomInv, Output, setupVars
<1> QED
  BY <1>1, <1>2, <1>3, <1>4 DEF FirInv

LEMMA NextSampleFir == FirInv /\ NextSample => FirInv'
<1> SUFFICES ASSUME FirInv, NextSample PROVE FirInv'
  OBVIOUS
<1>1. SetupInv'
  BY SetupKept DEF NextSample, FirInv
<1>2. HeldInv' /\ BufferInv'
  BY DEF FirInv, NextSample, HeldInv, BufferInv, cicVars, bufferVars, callVars
<1>3. DelayInv'
  <2>1. /\ delaySize \in Nat \ {0} /\ delaySize' = delaySize /\ fed \in Nat /\ fed' = fed + 1
        /\ delayIndex_ \in 0 .. delaySize - 1 /\ at = "out" /\ at' # "out"
        /\ delayIndex_' = IF delayIndex_ + 1 >= delaySize THEN 0 ELSE delayIndex_ + 1
        /\ delayLine_' = delayLine_
    BY DEF FirInv, SetupInv, BufferInv, DelayInv, NextSample, setupVars, delaySize
  <2>2. delayIndex_' \in 0 .. delaySize - 1
    BY <2>1
  <2>3. ASSUME NEW j \in 1 .. delaySize - 1
        PROVE  delayLine_[fIndex(j)'] = Sample(fed' - j)
    <3>1. fIndex(j)' = fIndex(j - 1)
      BY <2>1 DEF fIndex
    <3>2. j - 1 \in 0 .. delaySize - 1 /\ fed' - j = fed - (j - 1)
      BY <2>1
    <3>3. delayLine_[fIndex(j - 1)] = Sample(fed - (j - 1))
      BY <2>1, <3>2 DEF FirInv, DelayInv
    <3> QED
      BY <3>1, <3>2, <3>3
  <2> QED
    BY <2>1, <2>2, <2>3 DEF DelayInv, FirInv
<1>4. PhaseInv'
  <2> DEFINE p == made * rateD_  q == fed * rateI_
  <2>1. outIndex_' = outIndex_ - rateI_ /\ outIndex_ >= rateI_ /\ fed' = fed + 1 /\ UNCHANGED <<made, rateI_, rateD_>>
        /\ at = "out" /\ at' = "fir"
    BY DEF NextSample, setupVars
  <2>2. p \in Int /\ q \in Int /\ (fed + 1) * rateI_ = q + rateI_
    BY DEF FirInv, PhaseInv, SetupInv, BufferInv
  <2>3. outIndex_ = p - q /\ outIndex_ \in Nat /\ outIndex_ < rateI_ + rateD_ /\ rateI_ \in Nat /\ rateD_ \in Nat
    BY <2>1 DEF FirInv, PhaseInv, SetupInv
  <2> HIDE DEF p, q
  <2>4. outIndex_' = p - (q + rateI_) /\ outIndex_' \in Nat /\ outIndex_' < rateD_
    BY <2>1, <2>2, <2>3
  <2> QED
    BY <2>1, <2>2, <2>4 DEF PhaseInv, FirInv, p
<1>5. RoomInv'
  BY ResamplerAssumption DEF FirInv, SetupInv, BufferInv, PhaseInv, RoomInv, NextSample, setupVars
<1> QED
  BY <1>1, <1>2, <1>3, <1>4, <1>5 DEF FirInv

LEMMA FirAlways == Spec => []FirInv
<1>1. FirInv /\ [Next]_vars => FirInv'
  <2>1. FirInv /\ UNCHANGED vars => FirInv'
    BY DEF FirInv, SetupInv, HeldInv, BufferInv, DelayInv, PhaseInv, RoomInv, vars, setupVars, cicVars, firVars,
           bufferVars, callVars, delaySize, fIndex
  <2> QED
    BY <2>1, CallFir, CicSampleFir, TurnFir, StoreFir, OutputFir, NextSampleFir DEF Next, Over
<1> QED
  BY <1>1, InitFir, PTL DEF Spec

-----------------------------------------------------------------------------
(* With the samples in their places, a polyphase is a convolution.         *)
LEMMA Polyphase ==
  ASSUME FirInv, at = "out", outIndex_ < rateI_, NoTapLost
  PROVE  calcPolyphase = Convolution(made)
<1> DEFINE I == rateI_  L == delaySize  p == made * rateD_
<1>1. /\ I \in Nat \ {0} /\ L \in Nat \ {0} /\ numTaps \in Nat /\ p \in Nat /\ fed \in Nat
      /\ outIndex_ \in 0 .. I - 1
      /\ numTaps <= L * I
  BY DEF FirInv, SetupInv, BufferInv, PhaseInv, NoTapLost
<1>2. outIndex_ = p - fed * I
  BY DEF FirInv, PhaseInv
<1>3. ASSUME NEW j \in 0 .. L - 1
      PROVE  delayLine_[fIndex(j)] = Sample(fed - j)
  BY <1>3 DEF FirInv, DelayInv
<1> HIDE DEF I, L, p
<1>4. ASSUME NEW j \in Int
      PROVE  p - (fed - j) * I = outIndex_ + I * j
  BY <1>1, <1>2
<1>5. ASSUME NEW j \in 0 .. L - 1, outIndex_ + I * j < numTaps, Sample(fed - j) # NoSample
      PROVE  /\ Sample(fed - j) = fed - j
             /\ fed - j \in 0 .. p
             /\ p - (fed - j) * I = outIndex_ + I * j
             /\ outIndex_ + I * j \in 0 .. numTaps - 1
  <2>1. Sample(fed - j) = fed - j /\ fed - j \in Nat
    BY <1>1, <1>5 DEF Sample, NoSample
  <2>2. p - (fed - j) * I = outIndex_ + I * j /\ I * j \in Nat
    BY <1>1, <1>4
  <2>3. outIndex_ + I * j \in 0 .. numTaps - 1
    BY <1>1, <1>5, <2>2
  <2>4. fed - j <= (fed - j) * I
    <3> DEFINE n == fed - j
    <3>1. n \in Nat /\ 1 <= I /\ I \in Int
      BY <1>1, <2>1
    <3> HIDE DEF n
    <3>2. 1 * n <= I * n
      BY <3>1, TimesMonotonic
    <3>3. n <= n * I
      BY <3>1, <3>2
    <3> QED
      BY <3>3 DEF n
  <2>5. (fed - j) * I <= p
    <3> DEFINE w == (fed - j) * I  v == I * j
    <3>1. w \in Int /\ v \in Nat /\ p - w = outIndex_ + v
      BY <1>1, <2>1, <2>2
    <3> HIDE DEF w, v
    <3>2. w <= p
      BY <1>1, <3>1
    <3> QED
      BY <3>2 DEF w
  <2> QED
    BY <1>1, <2>1, <2>2, <2>3, <2>4, <2>5
<1>6. ASSUME NEW n \in 0 .. p, p - n * I \in 0 .. numTaps - 1
      PROVE  /\ fed - n \in 0 .. L - 1
             /\ p - n * I = outIndex_ + I * (fed - n)
             /\ Sample(fed - (fed - n)) = n /\ n # NoSample
  <2> DEFINE j == fed - n
  <2>1. j \in Int /\ fed - j = n /\ n \in Nat
    BY <1>1
  <2>2. p - n * I = outIndex_ + I * j
    BY <2>1, <1>4
  <2>3. j >= 0
    <3> SUFFICES ASSUME j <= -1 PROVE FALSE
      BY <2>1
    <3>1. j * I <= (-1) * I
      BY <1>1, <2>1, TimesMonotonic
    <3>2. I * j <= 0 - I
      BY <1>1, <2>1, <3>1
    <3> DEFINE v == I * j
    <3>3. v \in Int /\ v <= 0 - I /\ outIndex_ + v \in 0 .. numTaps - 1
      BY <1>1, <2>1, <2>2, <3>2, <1>6
    <3> HIDE DEF v
    <3> QED
      BY <1>1, <3>3
  <2>4. j < L
    <3> SUFFICES ASSUME L <= j PROVE FALSE
      BY <1>1, <2>1
    <3>1. L * I <= j * I
      BY <1>1, <2>1, TimesMonotonic
    <3> DEFINE v == I * j  m == L * I
    <3>2. v \in Int /\ m \in Int /\ m <= v /\ numTaps <= m /\ outIndex_ + v \in 0 .. numTaps - 1
      BY <1>1, <2>1, <2>2, <3>1, <1>6
    <3> HIDE DEF v, m
    <3> QED
      BY <1>1, <3>2
  <2> QED
    BY <1>1, <2>1, <2>2, <2>3, <2>4 DEF Sample, NoSample
<1>7. calcPolyphase =
        {<<outIndex_ + I * j, Sample(fed - j)>> : j \in
           {x \in 0 .. L - 1 : outIndex_ + I * x < numTaps /\ Sample(fed - x) # NoSample}}
  BY <1>3 DEF calcPolyphase, I, L
<1>8. Convolution(made) = {<<p - n * I, n>> : n \in {x \in 0 .. p : p - x * I \in 0 .. numTaps - 1}}
  BY DEF Convolution, p, I
<1>9. ASSUME NEW j \in {x \in 0 .. L - 1 : outIndex_ + I * x < numTaps /\ Sample(fed - x) # NoSample}
      PROVE  \E n \in {x \in 0 .. p : p - x * I \in 0 .. numTaps - 1} :
               <<outIndex_ + I * j, Sample(fed - j)>> = <<p - n * I, n>>
  <2>1. fed - j \in {x \in 0 .. p : p - x * I \in 0 .. numTaps - 1}
    BY <1>5
  <2> QED
    BY <1>5, <2>1
<1>10. ASSUME NEW n \in {x \in 0 .. p : p - x * I \in 0 .. numTaps - 1}
       PROVE  \E j \in {x \in 0 .. L - 1 : outIndex_ + I * x < numTaps /\ Sample(fed - x) # NoSample} :
                <<p - n * I, n>> = <<outIndex_ + I * j, Sample(fed - j)>>
  <2>1. /\ fed - n \in 0 .. L - 1
        /\ p - n * I = outIndex_ + I * (fed - n)
        /\ Sample(fed - (fed - n)) = n /\ n # NoSample
    BY <1>6
  <2>2. outIndex_ + I * (fed - n) < numTaps
    BY <2>1, <1>1
  <2>3. fed - n \in {x \in 0 .. L - 1 : outIndex_ + I * x < numTaps /\ Sample(fed - x) # NoSample}
    BY <2>1, <2>2
  <2> QED
    BY <2>1, <2>3
<1> QED
  BY <1>7, <1>8, <1>9, <1>10

(* Every output is the convolution of the taps, none of which is lost,     *)
(* with the samples before it (RationalFIR::filter(), calcPolyphase()).    *)
THEOREM FirConvolves == Spec => []Convolves
<1>1. Init => Convolves
  BY DEF Init, Convolves
<1>2. FirInv /\ Convolves /\ [Next]_vars => Convolves'
  <2> SUFFICES ASSUME FirInv, Convolves, [Next]_vars PROVE Convolves'
    OBVIOUS
  <2>1. CASE Output
    <3>1. last' = calcPolyphase /\ made' = made + 1 /\ at = "out" /\ outIndex_ < rateI_ /\ made \in Nat
      BY <2>1 DEF Output, FirInv, PhaseInv
    <3>2. NoTapLost' = NoTapLost /\ \A k : Convolution(k)' = Convolution(k)
      BY <2>1 DEF Output, setupVars, NoTapLost, delaySize, Convolution
    <3>3. made' - 1 = made
      BY <3>1
    <3>4. NoTapLost => last' = Convolution(made)
      BY <3>1, Polyphase
    <3> QED
      BY <3>2, <3>3, <3>4 DEF Convolves
  <2>2. CASE UNCHANGED <<setupVars, made, last>>
    BY <2>2 DEF setupVars, Convolves, NoTapLost, delaySize, Convolution
  <2> QED
    BY <2>1, <2>2 DEF Next, Call, CicSample, CicDone, Store, NextSample, Return, Over, vars, firVars
<1> QED
  BY <1>1, <1>2, FirAlways, PTL DEF Spec

(* Between two calls all outputs that have their samples are made, and no  *)
(* other (RationalFIR::filter()).                                          *)
THEOREM FirKeepsRate == Spec => []KeepsRate
<1>1. FirInv => KeepsRate
  <2> SUFFICES ASSUME FirInv, at = "idle"
               PROVE  made * rateD_ >= fed * rateI_ /\ (made - 1) * rateD_ < fed * rateI_
    BY DEF KeepsRate
  <2> DEFINE p == made * rateD_  q == fed * rateI_
  <2>1. p \in Int /\ q \in Int /\ rateD_ \in Nat /\ (made - 1) * rateD_ = p - rateD_
    BY DEF FirInv, SetupInv, BufferInv, PhaseInv
  <2>2. p - q \in Nat /\ p - q < rateD_
    BY DEF FirInv, PhaseInv
  <2> HIDE DEF p, q
  <2>3. p >= q /\ p - rateD_ < q
    BY <2>1, <2>2
  <2> QED
    BY <2>1, <2>3 DEF p, q
<1> QED
  BY <1>1, FirAlways, PTL

(* No index of the filters leaves its array, and a call never puts out     *)
(* more than it was given room for (RationalFIR::filter(), IQStream).      *)
THEOREM FirInBounds == Spec => []InBounds
<1>1. FirInv => InBounds
  <2> SUFFICES ASSUME FirInv PROVE InBounds
    OBVIOUS
  <2> DEFINE m == delaySize * rateI_
  <2>1. m \in Nat /\ m <= PaddedSize(numTaps, rateI_) /\ rateI_ * (delaySize - 1) = m - rateI_
        /\ rateI_ \in Nat /\ PaddedSize(numTaps, rateI_) \in Nat
    BY DEF FirInv, SetupInv
  <2>2. outIndex_ \in Nat
    BY DEF FirInv, PhaseInv
  <2> HIDE DEF m
  <2>3. outIndex_ < rateI_ => outIndex_ + (m - rateI_) < PaddedSize(numTaps, rateI_)
    BY <2>1, <2>2
  <2>4. samplesAfterCIC <= Block /\ numOut <= Block /\ delayIndex_ \in 0 .. delaySize - 1
    BY ResamplerAssumption DEF FirInv, BufferInv, RoomInv, DelayInv
  <2> QED
    BY <2>1, <2>3, <2>4 DEF InBounds
<1> QED
  BY <1>1, FirAlways, PTL

-----------------------------------------------------------------------------
(*                      Induction and recursion                            *)

(* A set of numbers has a least element.                                   *)
LEMMA LeastNumber ==
  ASSUME NEW T \in SUBSET Nat, T # {}
  PROVE  \E m \in T : \A k \in T : m <= k
<1>1. IsWellFoundedOn(OpToRel(<, Nat), Nat)
  BY NatLessThanWellFounded
<1>2. \A x, y \in Nat : x < y => <<x, y>> \in OpToRel(<, Nat)
  BY DEF OpToRel
<1>3. PICK R, N : N = Nat /\ IsWellFoundedOn(R, N) /\ \A x, y \in N : x < y => <<x, y>> \in R
  BY <1>1, <1>2
<1>4. T \subseteq N /\ IsWellFoundedOn(R, N)
  BY <1>3
<1>5. PICK m \in T : \A y \in T : ~ (<<y, m>> \in R)
  BY <1>4, WFMin
<1>6. \A y \in T : ~ (y < m)
  BY <1>3, <1>5
<1> QED
  BY <1>6

(* What holds of 0, and of k if of k - 1, holds up to n.                   *)
LEMMA UpTo ==
  ASSUME NEW n \in Nat, NEW P, 0 \in P, \A k \in 1 .. n : k - 1 \in P => k \in P
  PROVE  \A k \in 0 .. n : k \in P
<1> DEFINE T == {k \in 0 .. n : k \notin P}
<1> SUFFICES ASSUME T # {} PROVE FALSE
  OBVIOUS
<1>1. PICK m \in T : \A k \in T : m <= k
  <2>1. T \in SUBSET Nat
    OBVIOUS
  <2> HIDE DEF T
  <2> QED
    BY <2>1, LeastNumber
<1>2. m \in 1 .. n /\ m \notin P
  OBVIOUS
<1>3. m - 1 \notin T
  <2> HIDE DEF T
  <2> QED
    BY <1>1, <1>2
<1>4. m - 1 \in P
  BY <1>2, <1>3
<1> QED
  BY <1>2, <1>4

(* n steps can be taken from a, the k-th by G[k].                          *)
Stepwise(f, G, a, n) == f[0] = a /\ \A k \in 1 .. n : f[k] = G[k][f[k - 1]]

LEMMA Steps ==
  ASSUME NEW n \in Nat, NEW S, NEW a \in S, NEW G \in [1 .. n -> [S -> S]]
  PROVE  \E f \in [0 .. n -> S] : Stepwise(f, G, a, n)
<1> DEFINE P == {m \in 0 .. n : \E f \in [0 .. m -> S] : Stepwise(f, G, a, m)}
<1>1. 0 \in P
  <2> DEFINE f == [k \in 0 .. 0 |-> a]
  <2>1. f \in [0 .. 0 -> S] /\ Stepwise(f, G, a, 0)
    BY DEF Stepwise
  <2> HIDE DEF f
  <2> QED
    BY <2>1
<1>2. ASSUME NEW m \in 1 .. n, m - 1 \in P PROVE m \in P
  <2>1. PICK f \in [0 .. m - 1 -> S] : f[0] = a /\ \A k \in 1 .. m - 1 : f[k] = G[k][f[k - 1]]
    BY <1>2 DEF Stepwise
  <2> DEFINE g == [k \in 0 .. m |-> IF k = m THEN G[m][f[m - 1]] ELSE f[k]]
  <2>2. m - 1 \in 0 .. m - 1 /\ 0 \in 0 .. m - 1
    OBVIOUS
  <2>3. f[m - 1] \in S /\ G[m] \in [S -> S]
    BY <2>2
  <2>4. G[m][f[m - 1]] \in S
    BY <2>3
  <2>5. g \in [0 .. m -> S]
    BY <2>4
  <2>6. g[0] = a
    BY <2>1
  <2>7. ASSUME NEW k \in 1 .. m PROVE g[k] = G[k][g[k - 1]]
    <3>1. k - 1 \in 0 .. m - 1 /\ g[k - 1] = f[k - 1]
      OBVIOUS
    <3>2. CASE k = m
      BY <3>1, <3>2
    <3>3. CASE k # m
      <4>1. k \in 1 .. m - 1 /\ g[k] = f[k]
        BY <3>3
      <4> QED
        BY <2>1, <3>1, <4>1
    <3> QED
      BY <3>2, <3>3
  <2>8. Stepwise(g, G, a, m)
    BY <2>6, <2>7 DEF Stepwise
  <2> HIDE DEF g
  <2> QED
    BY <2>5, <2>8
<1>3. n \in P
  <2> HIDE DEF P
  <2>1. \A k \in 0 .. n : k \in P
    BY <1>1, <1>2, UpTo
  <2> QED
    BY <2>1
<1> QED
  BY <1>3

(* What starts in S and stays there with every step is a function to S.    *)
LEMMA Stays ==
  ASSUME NEW n \in Nat, NEW S, NEW f, f = [k \in 0 .. n |-> f[k]], f[0] \in S,
         \A k \in 1 .. n : f[k - 1] \in S => f[k] \in S
  PROVE  f \in [0 .. n -> S]
<1> DEFINE P == {k \in 0 .. n : f[k] \in S}
<1>1. 0 \in P /\ \A k \in 1 .. n : k - 1 \in P => k \in P
  OBVIOUS
<1>2. \A k \in 0 .. n : k \in P
  <2> HIDE DEF P
  <2> QED
    BY <1>1, UpTo
<1> QED
  BY <1>2
(* Window() adds up what it should.                                        *)
LEMMA WindowIs ==
  ASSUME rate_ \in Nat, NEW L \in Nat, NEW f \in [1 .. L -> Int], NEW n \in 0 .. L
  PROVE  \E over \in [0 .. rate_ -> Int] :
           /\ Window(f, n) = over[rate_] /\ over[0] = 0
           /\ \A v \in 1 .. rate_ : over[v] = over[v - 1] + (IF v <= n THEN f[n - v + 1] ELSE 0)
<1> DEFINE Adds(over) == over = [v \in 0 .. rate_ |->
                           IF v = 0 THEN 0
                           ELSE over[v - 1] + (IF v <= n THEN f[n - v + 1] ELSE 0)]
           over == CHOOSE h : Adds(h)
           Part(v) == IF v <= n THEN f[n - v + 1] ELSE 0
           G == [v \in 1 .. rate_ |-> [x \in Int |-> x + Part(v)]]
<1>1. Window(f, n) = over[rate_]
  BY DEF Window
<1>2. \A v \in 1 .. rate_ : Part(v) \in Int
  OBVIOUS
<1>3. \E h : Adds(h)
  <2>1. G \in [1 .. rate_ -> [Int -> Int]]
    BY <1>2
  <2>0. 0 \in Int /\ rate_ \in Nat
    OBVIOUS
  <2>2. PICK g \in [0 .. rate_ -> Int] : g[0] = 0 /\ \A v \in 1 .. rate_ : g[v] = G[v][g[v - 1]]
    <3> HIDE DEF G
    <3>1. \E g \in [0 .. rate_ -> Int] : Stepwise(g, G, 0, rate_)
      BY <2>1, <2>0, Steps, Zenon
    <3> QED
      BY <3>1 DEF Stepwise
  <2>3. \A v \in 1 .. rate_ : g[v] = g[v - 1] + Part(v)
    <3> SUFFICES ASSUME NEW v \in 1 .. rate_ PROVE g[v] = g[v - 1] + Part(v)
      OBVIOUS
    <3>1. v - 1 \in 0 .. rate_ /\ g[v - 1] \in Int
      OBVIOUS
    <3> QED
      BY <2>2, <3>1
  <2>4. Adds(g)
    BY <2>2, <2>3
  <2> QED
    BY <2>4
<1>4. Adds(over)
  <2> HIDE DEF Adds
  <2> QED
    BY <1>3
<1>5. over[0] = 0 /\ \A v \in 1 .. rate_ : over[v] = over[v - 1] + Part(v)
  <2> HIDE DEF over
  <2> QED
    BY <1>4
<1>6. over \in [0 .. rate_ -> Int]
  <2> DEFINE P == {v \in 0 .. rate_ : over[v] \in Int}
  <2> HIDE DEF over, Part
  <2>1. 0 \in P /\ \A v \in 1 .. rate_ : v - 1 \in P => v \in P
    BY <1>2, <1>5
  <2>2. \A v \in 0 .. rate_ : v \in P
    <3> HIDE DEF P
    <3> QED
      BY <2>1, UpTo
  <2> QED
    BY <1>4, <2>2
<1> QED
  <2> HIDE DEF over
  <2> QED
    BY <1>1, <1>5, <1>6

-----------------------------------------------------------------------------
(*                      Integers and words                                 *)

(* x is what a word keeps of y.                                            *)
Keeps(x, y) == \E q \in Int : x = y + q * Word

LEMMA Remainder ==
  ASSUME NEW y \in Int
  PROVE  y % Word \in 0 .. Word - 1 /\ Keeps(y % Word, y)
<1>1. PICK w \in Nat \ {0} : w = Word
  BY ResamplerAssumption
<1>2. y % w \in 0 .. w - 1 /\ y \div w \in Int
  OBVIOUS
<1>3. y % w = y - (y \div w) * w
  OBVIOUS
<1>4. PICK q \in Int : y % w = y - q * w
  BY <1>2, <1>3
<1>5. -q \in Int /\ y % w = y + (-q) * w
  BY <1>4
<1> QED
  BY <1>1, <1>2, <1>5 DEF Keeps

LEMMA KeepsSum ==
  ASSUME NEW x \in Int, NEW y \in Int, NEW a \in Int, NEW b \in Int, Keeps(x, a), Keeps(y, b)
  PROVE  /\ Keeps((x + y) % Word, a + b) /\ (x + y) % Word \in 0 .. Word - 1
         /\ Keeps((x - y) % Word, a - b) /\ (x - y) % Word \in 0 .. Word - 1
<1>1. PICK w \in Nat : w = Word
  BY ResamplerAssumption
<1>2. PICK p \in Int : x = a + p * w
  BY <1>1 DEF Keeps
<1>3. PICK q \in Int : y = b + q * w
  BY <1>1 DEF Keeps
<1>4. PICK r \in Int : (x + y) % Word = (x + y) + r * w
  <2>1. x + y \in Int
    OBVIOUS
  <2>2. Keeps((x + y) % Word, x + y)
    BY <2>1, Remainder
  <2> QED
    BY <1>1, <2>2 DEF Keeps
<1>5. PICK s \in Int : (x - y) % Word = (x - y) + s * w
  <2>1. x - y \in Int
    OBVIOUS
  <2>2. Keeps((x - y) % Word, x - y)
    BY <2>1, Remainder
  <2> QED
    BY <1>1, <2>2 DEF Keeps
<1>6. (x + y) + r * w = (a + b) + (p + q + r) * w
  BY <1>2, <1>3
<1>7. (x - y) + s * w = (a - b) + (p - q + s) * w
  BY <1>2, <1>3
<1>8. Keeps((x + y) % Word, a + b)
  <2>1. p + q + r \in Int
    OBVIOUS
  <2>2. (x + y) % Word = (a + b) + (p + q + r) * Word
    BY <1>1, <1>4, <1>6
  <2> QED
    BY <2>1, <2>2 DEF Keeps
<1>9. Keeps((x - y) % Word, a - b)
  <2>1. p - q + s \in Int
    OBVIOUS
  <2>2. (x - y) % Word = (a - b) + (p - q + s) * Word
    BY <1>1, <1>5, <1>7
  <2> QED
    BY <2>1, <2>2 DEF Keeps
<1> QED
  BY <1>8, <1>9, Remainder

(* Two words that keep the same are the same.                              *)
LEMMA KeptWord ==
  ASSUME NEW x \in 0 .. Word - 1, NEW y \in 0 .. Word - 1, Keeps(x, y)
  PROVE  x = y
<1>1. PICK w \in Nat : w = Word /\ w # 0
  BY ResamplerAssumption
<1>2. PICK q \in Int : x = y + q * w
  BY <1>1 DEF Keeps
<1>3. x \in Int /\ y \in Int /\ x < w /\ y < w /\ x >= 0 /\ y >= 0
  BY <1>1
<1>4. CASE q >= 1
  <2>1. 1 * w <= q * w
    BY <1>4, TimesMonotonic
  <2> QED
    BY <1>2, <1>3, <2>1
<1>5. CASE q <= -1
  <2>1. q * w <= (-1) * w
    BY <1>5, TimesMonotonic
  <2>2. (-1) * w = -w
    OBVIOUS
  <2>3. q * w \in Int
    OBVIOUS
  <2> QED
    BY <1>2, <1>3, <2>1, <2>2, <2>3
<1>6. CASE q = 0
  BY <1>2, <1>6
<1> QED
  BY <1>4, <1>5, <1>6

(* The sample after each of the integrators ...                            *)
LEMMA IntegratedIs ==
  ASSUME order_ \in Nat, int_ \in [1 .. order_ -> Int], samplesIn[i + 1] \in Int
  PROVE  \E f \in [0 .. order_ -> Int] :
           /\ Integrated = f /\ f[0] = samplesIn[i + 1] % Word
           /\ \A k \in 1 .. order_ : f[k] = (f[k - 1] + int_[k]) % Word
<1> DEFINE Is(f) == f = [j \in 0 .. order_ |-> IF j = 0 THEN samplesIn[i + 1] % Word ELSE (f[j - 1] + int_[j]) % Word]
           chosen == CHOOSE f : Is(f)
           G == [k \in 1 .. order_ |-> [x \in Int |-> (x + int_[k]) % Word]]
<1>1. Integrated = chosen
  BY DEF Integrated
<1>2. samplesIn[i + 1] % Word \in Int /\ order_ \in Nat
  BY Remainder
<1>3. \A k \in 1 .. order_, x \in Int : (x + int_[k]) % Word \in Int
  <2> SUFFICES ASSUME NEW k \in 1 .. order_, NEW x \in Int PROVE (x + int_[k]) % Word \in Int
    OBVIOUS
  <2>1. x + int_[k] \in Int
    OBVIOUS
  <2> QED
    BY <2>1, Remainder, ResamplerAssumption
<1>4. \E f : Is(f)
  <2>1. G \in [1 .. order_ -> [Int -> Int]]
    BY <1>3
  <2>2. PICK g \in [0 .. order_ -> Int] : g[0] = samplesIn[i + 1] % Word /\ \A k \in 1 .. order_ : g[k] = G[k][g[k - 1]]
    <3> HIDE DEF G
    <3>1. \E g \in [0 .. order_ -> Int] : Stepwise(g, G, samplesIn[i + 1] % Word, order_)
      BY <1>2, <2>1, Steps, Zenon
    <3> QED
      BY <3>1 DEF Stepwise
  <2>3. \A k \in 1 .. order_ : g[k] = (g[k - 1] + int_[k]) % Word
    <3> SUFFICES ASSUME NEW k \in 1 .. order_ PROVE g[k] = (g[k - 1] + int_[k]) % Word
      OBVIOUS
    <3>1. k - 1 \in 0 .. order_ /\ g[k - 1] \in Int
      BY <1>2
    <3> QED
      BY <2>2, <3>1
  <2>4. Is(g)
    BY <1>2, <2>2, <2>3
  <2> QED
    BY <2>4
<1>5. Is(chosen)
  <2> HIDE DEF Is
  <2> QED
    BY <1>4
<1>6. chosen[0] = samplesIn[i + 1] % Word /\ \A k \in 1 .. order_ : chosen[k] = (chosen[k - 1] + int_[k]) % Word
  <2> HIDE DEF chosen
  <2> QED
    BY <1>2, <1>5
<1>7. chosen \in [0 .. order_ -> Int]
  <2>1. ASSUME NEW k \in 1 .. order_, chosen[k - 1] \in Int PROVE chosen[k] \in Int
    BY <1>3, <1>6, <2>1
  <2>2. order_ \in Nat /\ chosen[0] \in Int /\ chosen = [k \in 0 .. order_ |-> chosen[k]]
    BY <1>2, <1>5, <1>6
  <2> HIDE DEF chosen
  <2> QED
    BY <2>1, <2>2, Stays
<1> QED
  <2> HIDE DEF chosen
  <2> QED
    BY <1>1, <1>6, <1>7

(* ... and after each of the combs.                                        *)
LEMMA CombedIs ==
  ASSUME order_ \in Nat, comb_ \in [1 .. order_ -> Int], NEW sample \in Int
  PROVE  \E f \in [0 .. order_ -> Int] :
           /\ Combed(sample) = f /\ f[0] = sample
           /\ \A k \in 1 .. order_ : f[k] = (f[k - 1] - comb_[k]) % Word
<1> DEFINE Is(f) == f = [j \in 0 .. order_ |-> IF j = 0 THEN sample ELSE (f[j - 1] - comb_[j]) % Word]
           chosen == CHOOSE f : Is(f)
           G == [k \in 1 .. order_ |-> [x \in Int |-> (x - comb_[k]) % Word]]
<1>1. Combed(sample) = chosen
  BY DEF Combed
<1>2. sample \in Int /\ order_ \in Nat
  OBVIOUS
<1>3. \A k \in 1 .. order_, x \in Int : (x - comb_[k]) % Word \in Int
  <2> SUFFICES ASSUME NEW k \in 1 .. order_, NEW x \in Int PROVE (x - comb_[k]) % Word \in Int
    OBVIOUS
  <2>1. x - comb_[k] \in Int
    OBVIOUS
  <2> QED
    BY <2>1, Remainder, ResamplerAssumption
<1>4. \E f : Is(f)
  <2>1. G \in [1 .. order_ -> [Int -> Int]]
    BY <1>3
  <2>2. PICK g \in [0 .. order_ -> Int] : g[0] = sample /\ \A k \in 1 .. order_ : g[k] = G[k][g[k - 1]]
    <3> HIDE DEF G
    <3>1. \E g \in [0 .. order_ -> Int] : Stepwise(g, G, sample, order_)
      BY <1>2, <2>1, Steps, Zenon
    <3> QED
      BY <3>1 DEF Stepwise
  <2>3. \A k \in 1 .. order_ : g[k] = (g[k - 1] - comb_[k]) % Word
    <3> SUFFICES ASSUME NEW k \in 1 .. order_ PROVE g[k] = (g[k - 1] - comb_[k]) % Word
      OBVIOUS
    <3>1. k - 1 \in 0 .. order_ /\ g[k - 1] \in Int
      BY <1>2
    <3> QED
      BY <2>2, <3>1
  <2>4. Is(g)
    BY <1>2, <2>2, <2>3
  <2> QED
    BY <2>4
<1>5. Is(chosen)
  <2> HIDE DEF Is
  <2> QED
    BY <1>4
<1>6. chosen[0] = sample /\ \A k \in 1 .. order_ : chosen[k] = (chosen[k - 1] - comb_[k]) % Word
  <2> HIDE DEF chosen
  <2> QED
    BY <1>2, <1>5
<1>7. chosen \in [0 .. order_ -> Int]
  <2>1. ASSUME NEW k \in 1 .. order_, chosen[k - 1] \in Int PROVE chosen[k] \in Int
    BY <1>3, <1>6, <2>1
  <2>2. order_ \in Nat /\ chosen[0] \in Int /\ chosen = [k \in 0 .. order_ |-> chosen[k]]
    BY <1>2, <1>5, <1>6
  <2> HIDE DEF chosen
  <2> QED
    BY <2>1, <2>2, Stays
<1> QED
  <2> HIDE DEF chosen
  <2> QED
    BY <1>1, <1>6, <1>7

(* The growth, as it should be ...                                         *)
LEMMA GrowthIs ==
  ASSUME NEW order \in Nat, NEW rate \in Nat \ {0}
  PROVE  \E f \in [0 .. order -> Nat \ {0}] :
           /\ Growth(order, rate) = f[order] /\ f[0] = 1
           /\ \A k \in 1 .. order : f[k] = f[k - 1] * rate
<1> DEFINE Is(f) == f = [j \in 0 .. order |-> IF j = 0 THEN 1 ELSE f[j - 1] * rate]
           chosen == CHOOSE f : Is(f)
           G == [k \in 1 .. order |-> [x \in Nat \ {0} |-> x * rate]]
<1>1. Growth(order, rate) = chosen[order]
  BY DEF Growth
<1>2. 1 \in Nat \ {0} /\ order \in Nat
  OBVIOUS
<1>3. \A k \in 1 .. order, x \in Nat \ {0} : x * rate \in Nat \ {0}
  <2> SUFFICES ASSUME NEW x \in Nat \ {0} PROVE x * rate \in Nat \ {0}
    OBVIOUS
  <2> QED
    OBVIOUS
<1>4. \E f : Is(f)
  <2>1. G \in [1 .. order -> [Nat \ {0} -> Nat \ {0}]]
    BY <1>3
  <2>2. PICK g \in [0 .. order -> Nat \ {0}] : g[0] = 1 /\ \A k \in 1 .. order : g[k] = G[k][g[k - 1]]
    <3> HIDE DEF G
    <3>1. \E g \in [0 .. order -> Nat \ {0}] : Stepwise(g, G, 1, order)
      BY <1>2, <2>1, Steps, Zenon
    <3> QED
      BY <3>1 DEF Stepwise
  <2>3. \A k \in 1 .. order : g[k] = g[k - 1] * rate
    <3> SUFFICES ASSUME NEW k \in 1 .. order PROVE g[k] = g[k - 1] * rate
      OBVIOUS
    <3>1. k - 1 \in 0 .. order /\ g[k - 1] \in Nat \ {0}
      BY <1>2
    <3> QED
      BY <2>2, <3>1
  <2>4. Is(g)
    BY <1>2, <2>2, <2>3
  <2> QED
    BY <2>4
<1>5. Is(chosen)
  <2> HIDE DEF Is
  <2> QED
    BY <1>4
<1>6. chosen[0] = 1 /\ \A k \in 1 .. order : chosen[k] = chosen[k - 1] * rate
  <2> HIDE DEF chosen
  <2> QED
    BY <1>2, <1>5
<1>7. chosen \in [0 .. order -> Nat \ {0}]
  <2>1. ASSUME NEW k \in 1 .. order, chosen[k - 1] \in Nat \ {0} PROVE chosen[k] \in Nat \ {0}
    BY <1>3, <1>6, <2>1
  <2>2. order \in Nat /\ chosen[0] \in Nat \ {0} /\ chosen = [k \in 0 .. order |-> chosen[k]]
    BY <1>2, <1>5, <1>6
  <2> HIDE DEF chosen
  <2> QED
    BY <2>1, <2>2, Stays
<1> QED
  <2> HIDE DEF chosen
  <2> QED
    BY <1>1, <1>6, <1>7

(* ... and as it is computed.                                              *)
LEMMA GainIs ==
  ASSUME NEW order \in Nat, NEW rate \in Nat \ {0}
  PROVE  \E f \in [0 .. order -> Int] :
           /\ Gain(order, rate) = f[order] /\ f[0] = 1
           /\ \A k \in 1 .. order : f[k] = (f[k - 1] * rate) % Word
<1> DEFINE Is(f) == f = [j \in 0 .. order |-> IF j = 0 THEN 1 ELSE (f[j - 1] * rate) % Word]
           chosen == CHOOSE f : Is(f)
           G == [k \in 1 .. order |-> [x \in Int |-> (x * rate) % Word]]
<1>1. Gain(order, rate) = chosen[order]
  BY DEF Gain
<1>2. 1 \in Int /\ order \in Nat
  OBVIOUS
<1>3. \A k \in 1 .. order, x \in Int : (x * rate) % Word \in Int
  <2> SUFFICES ASSUME NEW x \in Int PROVE (x * rate) % Word \in Int
    OBVIOUS
  <2>1. x * rate \in Int
    OBVIOUS
  <2> QED
    BY <2>1, Remainder, ResamplerAssumption
<1>4. \E f : Is(f)
  <2>1. G \in [1 .. order -> [Int -> Int]]
    BY <1>3
  <2>2. PICK g \in [0 .. order -> Int] : g[0] = 1 /\ \A k \in 1 .. order : g[k] = G[k][g[k - 1]]
    <3> HIDE DEF G
    <3>1. \E g \in [0 .. order -> Int] : Stepwise(g, G, 1, order)
      BY <1>2, <2>1, Steps, Zenon
    <3> QED
      BY <3>1 DEF Stepwise
  <2>3. \A k \in 1 .. order : g[k] = (g[k - 1] * rate) % Word
    <3> SUFFICES ASSUME NEW k \in 1 .. order PROVE g[k] = (g[k - 1] * rate) % Word
      OBVIOUS
    <3>1. k - 1 \in 0 .. order /\ g[k - 1] \in Int
      BY <1>2
    <3> QED
      BY <2>2, <3>1
  <2>4. Is(g)
    BY <1>2, <2>2, <2>3
  <2> QED
    BY <2>4
<1>5. Is(chosen)
  <2> HIDE DEF Is
  <2> QED
    BY <1>4
<1>6. chosen[0] = 1 /\ \A k \in 1 .. order : chosen[k] = (chosen[k - 1] * rate) % Word
  <2> HIDE DEF chosen
  <2> QED
    BY <1>2, <1>5
<1>7. chosen \in [0 .. order -> Int]
  <2>1. ASSUME NEW k \in 1 .. order, chosen[k - 1] \in Int PROVE chosen[k] \in Int
    BY <1>3, <1>6, <2>1
  <2>2. order \in Nat /\ chosen[0] \in Int /\ chosen = [k \in 0 .. order |-> chosen[k]]
    BY <1>2, <1>5, <1>6
  <2> HIDE DEF chosen
  <2> QED
    BY <2>1, <2>2, Stays
<1> QED
  <2> HIDE DEF chosen
  <2> QED
    BY <1>1, <1>6, <1>7

LEMMA WindowType ==
  ASSUME rate_ \in Nat, NEW L \in Nat, NEW f \in [1 .. L -> Int], NEW n \in 0 .. L
  PROVE  Window(f, n) \in Int
<1>1. PICK g \in [0 .. rate_ -> Int] : Window(f, n) = g[rate_]
  BY WindowIs
<1> QED
  BY <1>1

(* One moving sum.                                                         *)
Moved(L, f) == [n \in 1 .. L |-> Window(f, n)]

Moves(f, h, L) == f[0] = h /\ \A k \in 1 .. order_ : f[k] = Moved(L, f[k - 1])

(* The moving sums, one after the other.                                   *)
LEMMA MovingIs ==
  ASSUME rate_ \in Nat, order_ \in Nat, NEW L \in Nat, L = Len(heard), heard \in [1 .. L -> Int]
  PROVE  \E f \in [0 .. order_ -> [1 .. L -> Int]] :
           MovingSums = f[order_] /\ Moves(f, heard, L)
<1> DEFINE Is(f) == f = [j \in 0 .. order_ |-> IF j = 0 THEN heard ELSE Moved(L, f[j - 1])]
           chosen == CHOOSE f : Is(f)
           G == [k \in 1 .. order_ |-> [x \in [1 .. L -> Int] |-> Moved(L, x)]]
<1>1. MovingSums = chosen[order_]
  BY DEF MovingSums, Moved
<1>2. heard \in [1 .. L -> Int] /\ order_ \in Nat
  OBVIOUS
<1>3. \A k \in 1 .. order_, x \in [1 .. L -> Int] : Moved(L, x) \in [1 .. L -> Int]
  <2> SUFFICES ASSUME NEW x \in [1 .. L -> Int] PROVE Moved(L, x) \in [1 .. L -> Int]
    OBVIOUS
  <2>1. \A n \in 1 .. L : n \in 0 .. L
    OBVIOUS
  <2> QED
    BY <2>1, WindowType DEF Moved
<1>4. \E f : Is(f)
  <2>1. G \in [1 .. order_ -> [[1 .. L -> Int] -> [1 .. L -> Int]]]
    BY <1>3
  <2>2. PICK g \in [0 .. order_ -> [1 .. L -> Int]] : g[0] = heard /\ \A k \in 1 .. order_ : g[k] = G[k][g[k - 1]]
    <3> HIDE DEF G
    <3>1. \E g \in [0 .. order_ -> [1 .. L -> Int]] : Stepwise(g, G, heard, order_)
      BY <1>2, <2>1, Steps, Zenon
    <3> QED
      BY <3>1 DEF Stepwise
  <2>3. \A k \in 1 .. order_ : g[k] = Moved(L, g[k - 1])
    <3> SUFFICES ASSUME NEW k \in 1 .. order_ PROVE g[k] = Moved(L, g[k - 1])
      OBVIOUS
    <3>1. k - 1 \in 0 .. order_ /\ g[k - 1] \in [1 .. L -> Int]
      BY <1>2
    <3> QED
      BY <2>2, <3>1
  <2>4. Is(g)
    BY <1>2, <2>2, <2>3
  <2> QED
    BY <2>4
<1>5. Is(chosen)
  <2> HIDE DEF Is
  <2> QED
    BY <1>4
<1>6. chosen[0] = heard /\ \A k \in 1 .. order_ : chosen[k] = Moved(L, chosen[k - 1])
  <2> HIDE DEF chosen
  <2> QED
    BY <1>2, <1>5
<1>7. chosen \in [0 .. order_ -> [1 .. L -> Int]]
  <2>1. ASSUME NEW k \in 1 .. order_, chosen[k - 1] \in [1 .. L -> Int] PROVE chosen[k] \in [1 .. L -> Int]
    BY <1>3, <1>6, <2>1
  <2>2. order_ \in Nat /\ chosen[0] \in [1 .. L -> Int] /\ chosen = [k \in 0 .. order_ |-> chosen[k]]
    BY <1>2, <1>5, <1>6
  <2> HIDE DEF chosen
  <2> QED
    BY <2>1, <2>2, Stays
<1> QED
  <2> HIDE DEF chosen
  <2> QED
    BY <1>1, <1>6, <1>7 DEF Moves

(* A window moves on by one value.                                         *)
LEMMA WindowMoves ==
  ASSUME rate_ \in Nat \ {0}, NEW L \in Nat, NEW f \in [1 .. L -> Int], NEW n \in 1 .. L
  PROVE  /\ Window(f, n) \in Int /\ Window(f, n - 1) \in Int
         /\ Window(f, n) = Window(f, n - 1) + f[n] - (IF n > rate_ THEN f[n - rate_] ELSE 0)
<1>1. PICK g \in [0 .. rate_ -> Int] :
        /\ Window(f, n) = g[rate_] /\ g[0] = 0
        /\ \A v \in 1 .. rate_ : g[v] = g[v - 1] + (IF v <= n THEN f[n - v + 1] ELSE 0)
  <2>1. n \in 0 .. L
    OBVIOUS
  <2> QED
    BY <2>1, WindowIs
<1>2. PICK h \in [0 .. rate_ -> Int] :
        /\ Window(f, n - 1) = h[rate_] /\ h[0] = 0
        /\ \A v \in 1 .. rate_ : h[v] = h[v - 1] + (IF v <= n - 1 THEN f[n - 1 - v + 1] ELSE 0)
  <2>1. n - 1 \in 0 .. L
    OBVIOUS
  <2> QED
    BY <2>1, WindowIs
<1> DEFINE P == {v \in 0 .. rate_ - 1 : g[v + 1] = f[n] + h[v]}
<1>3. 0 \in P
  <2>1. 1 \in 1 .. rate_ /\ 1 <= n /\ n - 1 + 1 = n /\ 1 - 1 = 0
    OBVIOUS
  <2>2. g[1] = g[0] + f[n]
    BY <1>1, <2>1
  <2>3. f[n] \in Int
    OBVIOUS
  <2> QED
    BY <1>1, <1>2, <2>2, <2>3
<1>4. ASSUME NEW v \in 1 .. rate_ - 1, v - 1 \in P PROVE v \in P
  <2>1. v + 1 \in 1 .. rate_ /\ v + 1 - 1 = v /\ v \in 1 .. rate_ /\ v - 1 + 1 = v /\ v \in 0 .. rate_ - 1
    OBVIOUS
  <2>2. g[v] = f[n] + h[v - 1]
    BY <1>4, <2>1
  <2>3. g[v + 1] = g[v] + (IF v + 1 <= n THEN f[n - v] ELSE 0)
    <3>1. PICK k \in 1 .. rate_ : k = v + 1
      BY <2>1
    <3>2. g[k] = g[k - 1] + (IF k <= n THEN f[n - k + 1] ELSE 0)
      BY <1>1
    <3>3. k - 1 = v /\ n - k + 1 = n - v
      BY <3>1
    <3> QED
      BY <3>1, <3>2, <3>3
  <2>4. h[v] = h[v - 1] + (IF v + 1 <= n THEN f[n - v] ELSE 0)
    <3>1. n - 1 - v + 1 = n - v /\ (v <= n - 1 <=> v + 1 <= n)
      OBVIOUS
    <3> QED
      BY <1>2, <2>1, <3>1
  <2>5. PICK d \in Int : d = IF v + 1 <= n THEN f[n - v] ELSE 0
    OBVIOUS
  <2>6. PICK s \in Int, t \in Int : s = f[n] /\ t = h[v - 1]
    OBVIOUS
  <2>7. g[v + 1] = s + t + d /\ h[v] = t + d
    BY <2>2, <2>3, <2>4, <2>5, <2>6
  <2>8. s + t + d = s + (t + d)
    OBVIOUS
  <2> QED
    BY <2>1, <2>6, <2>7, <2>8
<1>5. rate_ - 1 \in P
  <2>1. rate_ - 1 \in Nat /\ rate_ - 1 \in 0 .. rate_ - 1
    OBVIOUS
  <2>2. \A v \in 0 .. rate_ - 1 : v \in P
    <3> HIDE DEF P
    <3> QED
      BY <1>3, <1>4, <2>1, UpTo
  <2> QED
    BY <2>1, <2>2
<1>6. g[rate_] = f[n] + h[rate_ - 1]
  BY <1>5
<1>7. h[rate_] = h[rate_ - 1] + (IF n > rate_ THEN f[n - rate_] ELSE 0)
  <2>1. rate_ \in 1 .. rate_ /\ n - 1 - rate_ + 1 = n - rate_ /\ (rate_ <= n - 1 <=> n > rate_)
    OBVIOUS
  <2> QED
    BY <1>2, <2>1
<1>8. PICK d \in Int : d = IF n > rate_ THEN f[n - rate_] ELSE 0
  OBVIOUS
<1>9. f[n] \in Int /\ h[rate_ - 1] \in Int /\ g[rate_] \in Int /\ h[rate_] \in Int
  OBVIOUS
<1> QED
  BY <1>1, <1>2, <1>6, <1>7, <1>8, <1>9

LEMMA WindowOfNone ==
  ASSUME rate_ \in Nat, NEW L \in Nat, NEW f \in [1 .. L -> Int]
  PROVE  Window(f, 0) = 0
<1>1. 0 \in 0 .. L
  OBVIOUS
<1>2. PICK g \in [0 .. rate_ -> Int] :
        /\ Window(f, 0) = g[rate_] /\ g[0] = 0
        /\ \A v \in 1 .. rate_ : g[v] = g[v - 1] + (IF v <= 0 THEN f[0 - v + 1] ELSE 0)
  BY <1>1, WindowIs
<1> DEFINE P == {v \in 0 .. rate_ : g[v] = 0}
<1>3. 0 \in P /\ \A v \in 1 .. rate_ : v - 1 \in P => v \in P
  BY <1>2
<1>4. \A v \in 0 .. rate_ : v \in P
  <2> HIDE DEF P
  <2> QED
    BY <1>3, UpTo
<1> QED
  BY <1>2, <1>4

(* The sum of values within a bound.                                       *)
LEMMA WindowBound ==
  ASSUME rate_ \in Nat, NEW L \in Nat, NEW f \in [1 .. L -> Int], NEW n \in 0 .. L,
         NEW b \in Nat, \A m \in 1 .. L : f[m] \in 0 .. b
  PROVE  Window(f, n) \in 0 .. b * rate_
<1>1. PICK g \in [0 .. rate_ -> Int] :
        /\ Window(f, n) = g[rate_] /\ g[0] = 0
        /\ \A v \in 1 .. rate_ : g[v] = g[v - 1] + (IF v <= n THEN f[n - v + 1] ELSE 0)
  BY WindowIs
<1> DEFINE P == {v \in 0 .. rate_ : g[v] \in 0 .. b * v}
<1>2. 0 \in P
  BY <1>1
<1>3. ASSUME NEW v \in 1 .. rate_, v - 1 \in P PROVE v \in P
  <2>1. g[v - 1] \in Int /\ g[v - 1] >= 0 /\ g[v - 1] <= b * (v - 1)
    BY <1>3
  <2>2. PICK d \in 0 .. b : d = IF v <= n THEN f[n - v + 1] ELSE 0
    <3>1. v <= n => n - v + 1 \in 1 .. L
      OBVIOUS
    <3> QED
      BY <3>1
  <2>3. g[v] = g[v - 1] + d
    BY <1>1, <2>2
  <2>4. b * v \in Int /\ b * (v - 1) \in Int /\ b * v = b * (v - 1) + b
    OBVIOUS
  <2>5. g[v] \in 0 .. b * v
    BY <2>1, <2>3, <2>4
  <2> QED
    BY <2>5
<1>4. \A v \in 0 .. rate_ : v \in P
  <2> HIDE DEF P
  <2> QED
    BY <1>2, <1>3, UpTo
<1> QED
  BY <1>1, <1>4

-----------------------------------------------------------------------------
(*                 What integrators and combs add up to                    *)

(* T[c][j] is what c combs make of what j integrators make of h, which     *)
(* has L samples, over integers without bound.  The integrators add up     *)
(* even what has been combed before: the order does not matter.            *)
Lag(f, n) == IF n > rate_ THEN f[n - rate_] ELSE 0

Grid == [0 .. order_ -> [0 .. order_ -> [Nat -> Int]]]

Table(T, h, L) ==
  /\ T \in Grid
  /\ \A c, j \in 0 .. order_ : T[c][j][0] = 0
  /\ \A n \in 1 .. L : T[0][0][n] = h[n]
  /\ \A c \in 0 .. order_, j \in 1 .. order_, n \in 1 .. L :
       T[c][j][n] = T[c][j][n - 1] + T[c][j - 1][n]
  /\ \A c \in 1 .. order_, j \in 0 .. order_, n \in 1 .. L :
       T[c][j][n] = T[c - 1][j][n] - Lag(T[c - 1][j], n)

(* As many combs as integrators are so many moving sums.                   *)
Same(T, f, L) == \A n \in 1 .. L : T[order_][order_][n] = f[order_][n]

LEMMA CombedIntegrals ==
  ASSUME rate_ \in Nat \ {0}, order_ \in Nat, NEW L \in Nat, NEW h, NEW T, Table(T, h, L),
         NEW f \in [0 .. order_ -> [1 .. L -> Int]], Moves(f, h, L)
  PROVE  Same(T, f, L)
<1> DEFINE P == {j \in 0 .. order_ : \A n \in 1 .. L : T[j][j][n] = f[j][n]}
<1>1. 0 \in P
  BY DEF Table, Moves
<1>2. ASSUME NEW j \in 1 .. order_, j - 1 \in P PROVE j \in P
  <2>1. /\ j \in 0 .. order_ /\ j - 1 \in 0 .. order_ /\ f[j - 1] \in [1 .. L -> Int]
        /\ \A n \in 1 .. L : T[j - 1][j - 1][n] = f[j - 1][n]
    BY <1>2
  <2>2. PICK g \in [1 .. L -> Int] : g = f[j - 1]
    BY <2>1
  <2>3. ASSUME NEW n \in 1 .. L
        PROVE  T[j][j - 1][n] = g[n] - (IF n > rate_ THEN g[n - rate_] ELSE 0)
    <3>1. T[j][j - 1][n] = T[j - 1][j - 1][n] - Lag(T[j - 1][j - 1], n)
      BY <2>1 DEF Table
    <3>2. n > rate_ => n - rate_ \in 1 .. L
      OBVIOUS
    <3>3. n > rate_ => T[j - 1][j - 1][n - rate_] = g[n - rate_]
      BY <2>1, <2>2, <3>2
    <3>4. Lag(T[j - 1][j - 1], n) = IF n > rate_ THEN g[n - rate_] ELSE 0
      BY <3>3 DEF Lag
    <3> QED
      BY <2>1, <2>2, <3>1, <3>4
  <2> DEFINE Q == {n \in 0 .. L : T[j][j][n] = Window(g, n)}
  <2>4. 0 \in Q
    BY <2>1, WindowOfNone DEF Table
  <2>5. ASSUME NEW n \in 1 .. L, n - 1 \in Q PROVE n \in Q
    <3>1. T[j][j][n] = Window(g, n - 1) + T[j][j - 1][n]
      BY <2>1, <2>5 DEF Table
    <3>2. /\ Window(g, n) \in Int /\ Window(g, n - 1) \in Int
          /\ Window(g, n) = Window(g, n - 1) + g[n] - (IF n > rate_ THEN g[n - rate_] ELSE 0)
      BY WindowMoves
    <3>3. PICK d \in Int : d = IF n > rate_ THEN g[n - rate_] ELSE 0
      OBVIOUS
    <3>4. PICK a \in Int, b \in Int : a = Window(g, n - 1) /\ b = g[n]
      BY <3>2
    <3>5. T[j][j][n] = a + (b - d) /\ Window(g, n) = a + b - d
      BY <2>3, <3>1, <3>2, <3>3, <3>4
    <3>6. a + (b - d) = a + b - d
      OBVIOUS
    <3> QED
      BY <3>5, <3>6
  <2>6. \A n \in 0 .. L : n \in Q
    <3> HIDE DEF Q
    <3> QED
      BY <2>4, <2>5, UpTo
  <2>7. \A n \in 1 .. L : f[j][n] = Window(g, n)
    BY <2>2 DEF Moves, Moved
  <2>8. ASSUME NEW n \in 1 .. L PROVE T[j][j][n] = f[j][n]
    <3>1. n \in 0 .. L
      OBVIOUS
    <3>2. T[j][j][n] = Window(g, n)
      BY <2>6, <3>1
    <3> QED
      BY <2>7, <3>2
  <2> HIDE DEF Q
  <2> QED
    BY <2>1, <2>8
<1>3. \A j \in 0 .. order_ : j \in P
  <2> HIDE DEF P
  <2> QED
    BY <1>1, <1>2, UpTo
<1> QED
  BY <1>3 DEF Same

(* A table can be continued by another sample.                             *)
Extends(U, T, L) == \A c, j \in 0 .. order_, n \in 0 .. L : U[c][j][n] = T[c][j][n]

LEMMA Continued ==
  ASSUME rate_ \in Nat \ {0}, order_ \in Nat, NEW L \in Nat, NEW h, NEW T, Table(T, h, L),
         NEW g, \A n \in 1 .. L : g[n] = h[n], g[L + 1] \in Int
  PROVE  \E U : Table(U, g, L + 1) /\ Extends(U, T, L)
<1> DEFINE Row == [0 .. order_ -> Int]
<1>1. \A c, j \in 0 .. order_ : T[c][j] \in [Nat -> Int]
  BY DEF Table, Grid
<1>2. \A c, j \in 0 .. order_, n \in Nat : T[c][j][n] \in Int
  BY <1>1
<1>3. \A c, j \in 0 .. order_, n \in Nat : Lag(T[c][j], n) \in Int
  <2> SUFFICES ASSUME NEW c \in 0 .. order_, NEW j \in 0 .. order_, NEW n \in Nat
               PROVE  Lag(T[c][j], n) \in Int
    OBVIOUS
  <2>1. n > rate_ => n - rate_ \in Nat
    OBVIOUS
  <2> QED
    BY <1>2, <2>1 DEF Lag
(* The integrators, with nothing combed ...                                *)
<1>4. PICK A \in Row : A[0] = g[L + 1] /\ \A j \in 1 .. order_ : A[j] = A[j - 1] + T[0][j][L]
  <2> DEFINE G == [j \in 1 .. order_ |-> [x \in Int |-> x + T[0][j][L]]]
  <2>1. G \in [1 .. order_ -> [Int -> Int]]
    BY <1>2
  <2>2. g[L + 1] \in Int /\ order_ \in Nat
    OBVIOUS
  <2>3. PICK A \in Row : A[0] = g[L + 1] /\ \A j \in 1 .. order_ : A[j] = G[j][A[j - 1]]
    <3> HIDE DEF G
    <3>1. \E A \in [0 .. order_ -> Int] : Stepwise(A, G, g[L + 1], order_)
      BY <2>1, <2>2, Steps, Zenon
    <3> QED
      BY <3>1 DEF Stepwise
  <2>4. ASSUME NEW j \in 1 .. order_ PROVE A[j] = A[j - 1] + T[0][j][L]
    <3>1. j - 1 \in 0 .. order_ /\ A[j - 1] \in Int
      OBVIOUS
    <3> QED
      BY <2>3, <3>1
  <2> QED
    BY <2>3, <2>4
(* ... and one comb after the other.                                       *)
<1>5. PICK Y \in [0 .. order_ -> Row] :
        /\ Y[0] = A
        /\ \A c \in 1 .. order_, j \in 0 .. order_ :
             Y[c][j] = Y[c - 1][j] - Lag(T[c - 1][j], L + 1)
  <2> DEFINE G == [c \in 1 .. order_ |->
                     [x \in Row |-> [j \in 0 .. order_ |-> x[j] - Lag(T[c - 1][j], L + 1)]]]
  <2>1. G \in [1 .. order_ -> [Row -> Row]]
    <3> SUFFICES ASSUME NEW c \in 1 .. order_, NEW x \in Row, NEW j \in 0 .. order_
                 PROVE  x[j] - Lag(T[c - 1][j], L + 1) \in Int
      OBVIOUS
    <3>1. c - 1 \in 0 .. order_ /\ L + 1 \in Nat /\ x[j] \in Int
      OBVIOUS
    <3>2. Lag(T[c - 1][j], L + 1) \in Int
      BY <1>3, <3>1
    <3> QED
      BY <3>1, <3>2
  <2>2. PICK Y \in [0 .. order_ -> Row] : Y[0] = A /\ \A c \in 1 .. order_ : Y[c] = G[c][Y[c - 1]]
    <3>1. A \in Row /\ order_ \in Nat
      OBVIOUS
    <3> HIDE DEF G, Row
    <3>2. \E Y \in [0 .. order_ -> Row] : Stepwise(Y, G, A, order_)
      BY <2>1, <3>1, Steps, Zenon
    <3> QED
      BY <3>2 DEF Stepwise
  <2>3. ASSUME NEW c \in 1 .. order_, NEW j \in 0 .. order_
        PROVE  Y[c][j] = Y[c - 1][j] - Lag(T[c - 1][j], L + 1)
    <3>1. c - 1 \in 0 .. order_
      OBVIOUS
    <3>2. PICK x \in Row : x = Y[c - 1]
      BY <3>1
    <3>3. G[c][x] = [k \in 0 .. order_ |-> x[k] - Lag(T[c - 1][k], L + 1)]
      OBVIOUS
    <3>4. Y[c] = G[c][x]
      BY <2>2, <3>2
    <3> HIDE DEF G
    <3> QED
      BY <3>2, <3>3, <3>4
  <2> QED
    BY <2>2, <2>3
<1>6. \A c, j \in 0 .. order_ : Y[c][j] \in Int
  OBVIOUS
(* What has been combed is integrated just as well.                        *)
<1>7. \A c \in 0 .. order_, j \in 1 .. order_ : Y[c][j] = Y[c][j - 1] + T[c][j][L]
  <2> DEFINE P == {c \in 0 .. order_ : \A j \in 1 .. order_ : Y[c][j] = Y[c][j - 1] + T[c][j][L]}
  <2>1. 0 \in P
    <3>1. \A j \in 1 .. order_ : Y[0][j] = Y[0][j - 1] + T[0][j][L]
      BY <1>4, <1>5
    <3> QED
      BY <3>1
  <2>2. ASSUME NEW c \in 1 .. order_, c - 1 \in P, NEW j \in 1 .. order_
        PROVE  Y[c][j] = Y[c][j - 1] + T[c][j][L]
    <3>1. /\ c \in 0 .. order_ /\ c - 1 \in 0 .. order_ /\ j \in 0 .. order_ /\ j - 1 \in 0 .. order_
          /\ L \in Nat /\ L + 1 \in Nat
      OBVIOUS
    <3>2. /\ Y[c][j] = Y[c - 1][j] - Lag(T[c - 1][j], L + 1)
          /\ Y[c][j - 1] = Y[c - 1][j - 1] - Lag(T[c - 1][j - 1], L + 1)
      BY <1>5, <3>1
    <3>3. Y[c - 1][j] = Y[c - 1][j - 1] + T[c - 1][j][L]
      BY <2>2
    <3>4. T[c][j][L] = T[c - 1][j][L] - Lag(T[c - 1][j], L)
      <4>1. CASE L = 0
        <5>1. T[c][j][0] = 0 /\ T[c - 1][j][0] = 0
          BY <3>1 DEF Table
        <5>2. Lag(T[c - 1][j], L) = 0
          BY <4>1 DEF Lag
        <5> QED
          BY <4>1, <5>1, <5>2
      <4>2. CASE L # 0
        <5>1. L \in 1 .. L
          BY <4>2
        <5> QED
          BY <3>1, <5>1 DEF Table
      <4> QED
        BY <4>1, <4>2
    <3>5. Lag(T[c - 1][j], L + 1) = Lag(T[c - 1][j], L) + Lag(T[c - 1][j - 1], L + 1)
      <4>1. CASE L + 1 > rate_
        <5>1. PICK n \in 1 .. L : n = L + 1 - rate_ /\ n - 1 = L - rate_
          BY <4>1
        <5>2. T[c - 1][j][n] = T[c - 1][j][n - 1] + T[c - 1][j - 1][n]
          BY <3>1 DEF Table
        <5>3. Lag(T[c - 1][j], L) = T[c - 1][j][n - 1]
          <6>1. CASE L > rate_
            BY <5>1, <6>1 DEF Lag
          <6>2. CASE ~ (L > rate_)
            <7>1. n - 1 = 0
              BY <4>1, <5>1, <6>2
            <7>2. T[c - 1][j][0] = 0
              BY <3>1 DEF Table
            <7>3. Lag(T[c - 1][j], L) = 0
              BY <6>2 DEF Lag
            <7> QED
              BY <7>1, <7>2, <7>3
          <6> QED
            BY <6>1, <6>2
        <5> QED
          BY <4>1, <5>1, <5>2, <5>3 DEF Lag
      <4>2. CASE ~ (L + 1 > rate_)
        <5>1. ~ (L > rate_)
          BY <4>2
        <5> QED
          BY <4>2, <5>1 DEF Lag
      <4> QED
        BY <4>1, <4>2
    <3>6. PICK p \in Int, q \in Int, r \in Int, s \in Int :
            /\ p = Y[c - 1][j - 1] /\ q = T[c - 1][j][L]
            /\ r = Lag(T[c - 1][j], L) /\ s = Lag(T[c - 1][j - 1], L + 1)
      BY <1>2, <1>3, <1>6, <3>1
    <3>7. Y[c][j] = (p + q) - (r + s) /\ Y[c][j - 1] = p - s /\ T[c][j][L] = q - r
      BY <3>2, <3>3, <3>4, <3>5, <3>6
    <3>8. (p + q) - (r + s) = (p - s) + (q - r)
      OBVIOUS
    <3> QED
      BY <3>7, <3>8
  <2>3. \A c \in 0 .. order_ : c \in P
    <3>1. ASSUME NEW c \in 1 .. order_, c - 1 \in P PROVE c \in P
      <4>1. c \in 0 .. order_
        OBVIOUS
      <4>2. \A j \in 1 .. order_ : Y[c][j] = Y[c][j - 1] + T[c][j][L]
        BY <2>2, <3>1
      <4> QED
        BY <4>1, <4>2
    <3> HIDE DEF P
    <3> QED
      BY <2>1, <3>1, UpTo
  <2> QED
    BY <2>3
<1> DEFINE U == [c \in 0 .. order_ |-> [j \in 0 .. order_ |->
                   [n \in Nat |-> IF n = L + 1 THEN Y[c][j] ELSE T[c][j][n]]]]
<1>8. ASSUME NEW c \in 0 .. order_, NEW j \in 0 .. order_
      PROVE  /\ U[c][j] \in [Nat -> Int] /\ U[c][j][L + 1] = Y[c][j]
             /\ \A n \in 0 .. L : U[c][j][n] = T[c][j][n]
  <2>1. PICK y \in Int, t \in [Nat -> Int] : y = Y[c][j] /\ t = T[c][j]
    BY <1>1, <1>6
  <2>2. U[c][j] = [n \in Nat |-> IF n = L + 1 THEN y ELSE t[n]]
    BY <2>1
  <2> HIDE DEF U
  <2>3. U[c][j] \in [Nat -> Int]
    BY <2>2
  <2>4. U[c][j][L + 1] = y
    <3>1. L + 1 \in Nat
      OBVIOUS
    <3> QED
      BY <2>2, <3>1
  <2>5. ASSUME NEW n \in 0 .. L PROVE U[c][j][n] = t[n]
    <3>1. n \in Nat /\ n # L + 1
      OBVIOUS
    <3> QED
      BY <2>2, <3>1
  <2> QED
    BY <2>1, <2>3, <2>4, <2>5
<1>9. /\ \A c, j \in 0 .. order_ : U[c][j][L + 1] = Y[c][j]
      /\ \A c, j \in 0 .. order_, n \in 0 .. L : U[c][j][n] = T[c][j][n]
  <2> HIDE DEF U
  <2> QED
    BY <1>8
<1>10. U \in Grid
  <2>1. U = [c \in 0 .. order_ |-> [j \in 0 .. order_ |-> U[c][j]]]
    OBVIOUS
  <2> HIDE DEF U
  <2>2. \A c, j \in 0 .. order_ : U[c][j] \in [Nat -> Int]
    BY <1>8
  <2> QED
    BY <2>1, <2>2 DEF Grid
<1> HIDE DEF U
<1>11. \A c, j \in 0 .. order_ : U[c][j][0] = 0
  <2>1. 0 \in 0 .. L
    OBVIOUS
  <2>2. ASSUME NEW c \in 0 .. order_, NEW j \in 0 .. order_ PROVE U[c][j][0] = 0
    <3>1. T[c][j][0] = 0
      BY DEF Table
    <3>2. U[c][j][0] = T[c][j][0]
      BY <1>9, <2>1
    <3> QED
      BY <3>1, <3>2
  <2> QED
    BY <2>2
<1>12. \A n \in 1 .. L + 1 : n \in 1 .. L \/ n = L + 1
  OBVIOUS
<1>13. ASSUME NEW n \in 1 .. L + 1 PROVE U[0][0][n] = g[n]
  <2>1. 0 \in 0 .. order_
    OBVIOUS
  <2>2. CASE n = L + 1
    BY <1>4, <1>5, <1>9, <2>1, <2>2
  <2>3. CASE n \in 1 .. L
    <3>1. n \in 0 .. L /\ T[0][0][n] = h[n] /\ g[n] = h[n]
      BY <2>3 DEF Table
    <3> QED
      BY <1>9, <2>1, <3>1
  <2> QED
    BY <1>12, <2>2, <2>3
<1>14. ASSUME NEW c \in 0 .. order_, NEW j \in 1 .. order_, NEW n \in 1 .. L + 1
       PROVE  U[c][j][n] = U[c][j][n - 1] + U[c][j - 1][n]
  <2>1. j \in 0 .. order_ /\ j - 1 \in 0 .. order_ /\ n - 1 \in 0 .. L
    OBVIOUS
  <2>2. U[c][j][n - 1] = T[c][j][n - 1]
    BY <1>9, <2>1
  <2>3. CASE n \in 1 .. L
    <3>1. n \in 0 .. L
      BY <2>3
    <3>2. U[c][j][n] = T[c][j][n] /\ U[c][j - 1][n] = T[c][j - 1][n]
      BY <1>9, <2>1, <3>1
    <3>3. T[c][j][n] = T[c][j][n - 1] + T[c][j - 1][n]
      BY <2>3 DEF Table
    <3> QED
      BY <2>2, <3>2, <3>3
  <2>4. CASE n = L + 1
    <3>1. n - 1 = L
      BY <2>4
    <3>2. U[c][j][n] = Y[c][j] /\ U[c][j - 1][n] = Y[c][j - 1]
      BY <1>9, <2>1, <2>4
    <3>3. Y[c][j] = Y[c][j - 1] + T[c][j][L] /\ T[c][j][L] = T[c][j][n - 1]
      BY <1>7, <3>1
    <3>4. PICK p \in Int : p = Y[c][j - 1]
      BY <1>6, <2>1
    <3>5. PICK q \in Int : q = T[c][j][n - 1]
      <4>1. n - 1 \in Nat
        OBVIOUS
      <4> QED
        BY <1>2, <2>1, <4>1
    <3>6. U[c][j][n] = p + q /\ U[c][j][n - 1] = q /\ U[c][j - 1][n] = p
      BY <2>2, <3>2, <3>3, <3>4, <3>5
    <3> QED
      BY <3>6
  <2> QED
    BY <1>12, <2>3, <2>4
<1>15. ASSUME NEW c \in 1 .. order_, NEW j \in 0 .. order_, NEW n \in 1 .. L + 1
       PROVE  U[c][j][n] = U[c - 1][j][n] - Lag(U[c - 1][j], n)
  <2>1. c \in 0 .. order_ /\ c - 1 \in 0 .. order_
    OBVIOUS
  <2>2. Lag(U[c - 1][j], n) = Lag(T[c - 1][j], n)
    <3>1. n > rate_ => n - rate_ \in 0 .. L
      OBVIOUS
    <3>2. ASSUME n > rate_ PROVE U[c - 1][j][n - rate_] = T[c - 1][j][n - rate_]
      <4>1. PICK k \in 0 .. L : k = n - rate_
        BY <3>1, <3>2
      <4>2. U[c - 1][j][k] = T[c - 1][j][k]
        BY <1>9, <2>1
      <4> QED
        BY <4>1, <4>2
    <3> QED
      BY <3>2 DEF Lag
  <2>3. CASE n \in 1 .. L
    <3>1. n \in 0 .. L
      BY <2>3
    <3>2. U[c][j][n] = T[c][j][n] /\ U[c - 1][j][n] = T[c - 1][j][n]
      BY <1>9, <2>1, <3>1
    <3>3. T[c][j][n] = T[c - 1][j][n] - Lag(T[c - 1][j], n)
      BY <2>3 DEF Table
    <3> QED
      BY <2>2, <3>2, <3>3
  <2>4. CASE n = L + 1
    <3>1. U[c][j][n] = Y[c][j] /\ U[c - 1][j][n] = Y[c - 1][j]
      BY <1>9, <2>1, <2>4
    <3>2. Y[c][j] = Y[c - 1][j] - Lag(T[c - 1][j], n)
      BY <1>5, <2>4
    <3> QED
      BY <2>2, <3>1, <3>2
  <2> QED
    BY <1>12, <2>3, <2>4
<1>16. Table(U, g, L + 1)
  BY <1>10, <1>11, <1>13, <1>14, <1>15 DEF Table
<1>17. Extends(U, T, L)
  BY <1>9 DEF Extends
<1> QED
  BY <1>16, <1>17

-----------------------------------------------------------------------------
(*                       The sums fit a word                               *)

(* Moving sums of values within a bound.                                   *)
LEMMA MovingBound ==
  ASSUME rate_ \in Nat \ {0}, order_ \in Nat, NEW L \in Nat,
         NEW f \in [0 .. order_ -> [1 .. L -> Int]], NEW h, Moves(f, h, L),
         NEW b \in Nat, \A n \in 1 .. L : h[n] \in 0 .. b
  PROVE  \A n \in 1 .. L : f[order_][n] \in 0 .. b * Growth(order_, rate_)
<1>1. PICK g \in [0 .. order_ -> Nat \ {0}] :
        /\ Growth(order_, rate_) = g[order_] /\ g[0] = 1
        /\ \A k \in 1 .. order_ : g[k] = g[k - 1] * rate_
  BY GrowthIs
<1> DEFINE P == {k \in 0 .. order_ : \A n \in 1 .. L : f[k][n] \in 0 .. b * g[k]}
<1>2. 0 \in P
  BY <1>1 DEF Moves
<1>3. ASSUME NEW k \in 1 .. order_, k - 1 \in P PROVE k \in P
  <2>1. k \in 0 .. order_ /\ k - 1 \in 0 .. order_
    OBVIOUS
  <2>2. PICK c \in Nat \ {0} : c = g[k - 1] /\ g[k] = c * rate_
    BY <1>1, <2>1
  <2>3. PICK s \in [1 .. L -> Int] : s = f[k - 1] /\ \A n \in 1 .. L : s[n] \in 0 .. b * c
    BY <1>3, <2>1, <2>2
  <2>4. PICK d \in Nat : d = b * c
    OBVIOUS
  <2>5. d * rate_ = b * (c * rate_)
    BY <2>4
  <2>6. ASSUME NEW n \in 1 .. L PROVE f[k][n] \in 0 .. b * g[k]
    <3>1. n \in 0 .. L /\ \A m \in 1 .. L : s[m] \in 0 .. d
      BY <2>3, <2>4
    <3>2. Window(s, n) \in 0 .. d * rate_
      BY <3>1, WindowBound
    <3>3. f[k][n] = Window(s, n)
      BY <2>3 DEF Moves, Moved
    <3> QED
      BY <2>2, <2>5, <3>2, <3>3
  <2> QED
    BY <2>1, <2>6
<1>4. \A k \in 0 .. order_ : k \in P
  <2> HIDE DEF P
  <2> QED
    BY <1>2, <1>3, UpTo
<1> QED
  BY <1>1, <1>4

(* If every value fits, there is a bound of the values that fits.          *)
LEMMA CommonBound ==
  ASSUME NEW g \in Nat \ {0}, NEW S \in SUBSET Nat, \A x \in S : x * g < Word
  PROVE  \E b \in Nat : b * g < Word /\ \A x \in S : x <= b
<1>1. PICK w \in Nat : w = Word - 1
  BY ResamplerAssumption
<1>2. PICK b \in Nat, r \in 0 .. g - 1 : w = b * g + r
  <2>1. w % g \in 0 .. g - 1
    OBVIOUS
  <2>2. w \div g \in Nat
    OBVIOUS
  <2>3. w % g = w - (w \div g) * g
    OBVIOUS
  <2>4. PICK b \in Nat, r \in 0 .. g - 1 : r = w - b * g
    BY <2>1, <2>2, <2>3
  <2>5. w = b * g + r
    BY <2>4
  <2> QED
    BY <2>5
<1>3. b * g < Word
  <2>1. PICK v \in Nat : v = b * g
    OBVIOUS
  <2> QED
    BY <1>1, <1>2, <2>1, ResamplerAssumption
<1>4. ASSUME NEW x \in S PROVE x <= b
  <2> SUFFICES ASSUME b + 1 <= x PROVE FALSE
    OBVIOUS
  <2>1. (b + 1) * g <= x * g /\ x * g \in Int
    BY TimesMonotonic
  <2>2. (b + 1) * g = b * g + g
    OBVIOUS
  <2>3. x * g <= w
    BY <1>1, <2>1, ResamplerAssumption
  <2>4. PICK v \in Nat : v = b * g
    OBVIOUS
  <2> QED
    BY <1>2, <2>1, <2>2, <2>3, <2>4
<1> QED
  BY <1>3, <1>4

(* A growth that fits is computed without running over.                    *)
LEMMA GainIsGrowth ==
  ASSUME NEW order \in Nat, NEW rate \in Nat \ {0}, Growth(order, rate) < Word
  PROVE  Gain(order, rate) = Growth(order, rate)
<1>1. PICK f \in [0 .. order -> Nat \ {0}] :
        Growth(order, rate) = f[order] /\ f[0] = 1 /\ \A k \in 1 .. order : f[k] = f[k - 1] * rate
  BY GrowthIs
<1>2. PICK g \in [0 .. order -> Int] :
        Gain(order, rate) = g[order] /\ g[0] = 1 /\ \A k \in 1 .. order : g[k] = (g[k - 1] * rate) % Word
  BY GainIs
<1> DEFINE Q == {k \in 0 .. order : f[order - k] < Word}
<1>3. 0 \in Q
  BY <1>1
<1>4. ASSUME NEW k \in 1 .. order, k - 1 \in Q PROVE k \in Q
  <2>1. PICK m \in 1 .. order : m = order - (k - 1) /\ m - 1 = order - k
    OBVIOUS
  <2>2. f[m] < Word /\ m - 1 \in 0 .. order /\ k \in 0 .. order
    BY <1>4, <2>1
  <2>3. PICK x \in Nat \ {0} : x = f[m - 1] /\ f[m] = x * rate
    BY <1>1, <2>2
  <2>4. x * 1 <= x * rate
    <3>1. 1 * x <= rate * x
      BY TimesMonotonic
    <3> QED
      BY <3>1
  <2>5. x < Word
    BY <2>2, <2>3, <2>4, ResamplerAssumption
  <2> QED
    BY <2>1, <2>2, <2>3, <2>5
<1>5. \A k \in 0 .. order : k \in Q
  <2> HIDE DEF Q
  <2> QED
    BY <1>3, <1>4, UpTo
<1>6. ASSUME NEW k \in 0 .. order PROVE f[k] < Word
  <2>1. order - k \in 0 .. order /\ order - (order - k) = k
    OBVIOUS
  <2> QED
    BY <1>5, <2>1
<1> DEFINE P == {k \in 0 .. order : g[k] = f[k]}
<1>7. 0 \in P
  BY <1>1, <1>2
<1>8. ASSUME NEW k \in 1 .. order, k - 1 \in P PROVE k \in P
  <2>1. k \in 0 .. order
    OBVIOUS
  <2>2. g[k] = f[k] % Word
    BY <1>1, <1>2, <1>8
  <2>3. PICK x \in Nat : x = f[k]
    BY <2>1
  <2>4. x \in 0 .. Word - 1
    BY <1>6, <2>1, <2>3, ResamplerAssumption
  <2>5. x % Word = x
    <3>1. x \in Int
      OBVIOUS
    <3>2. x % Word \in 0 .. Word - 1 /\ Keeps(x % Word, x)
      BY <3>1, Remainder
    <3> QED
      BY <2>4, <3>2, KeptWord
  <2> QED
    BY <2>1, <2>2, <2>3, <2>5
<1>9. \A k \in 0 .. order : k \in P
  <2> HIDE DEF P
  <2> QED
    BY <1>7, <1>8, UpTo
<1> QED
  BY <1>1, <1>2, <1>9

-----------------------------------------------------------------------------
(*                      What the registers keep                            *)

(* The configuration, for which the sums fit.                              *)
RateInv ==
  /\ rate_ \in Nat \ {0} /\ order_ \in Nat
  /\ \A x \in Levels \cup {1} : x * Growth(order_, rate_) < Word
  /\ gain_ = Gain(order_, rate_)

WordInv ==
  /\ int_ \in [1 .. order_ -> 0 .. Word - 1] /\ comb_ \in [1 .. order_ -> 0 .. Word - 1]
  /\ sum \in 0 .. Word - 1
  /\ heard \in Seq(Levels) /\ samplesIn \in Seq(Levels)
  /\ cicOutIndex_ \in 0 .. rate_ - 1 /\ cicOutIndex_ <= Len(heard)
  /\ at = "cic" /\ i > 0 => heard # <<>>

(* Words keep the table: the integrators the row with nothing combed, at   *)
(* the last sample, the combs the column with everything integrated, where *)
(* the last value was put out.                                             *)
Tells(T) ==
  /\ Table(T, heard, Len(heard))
  /\ \A j \in 1 .. order_ : Keeps(int_[j], T[0][j][Len(heard)])
  /\ \A c \in 1 .. order_ : Keeps(comb_[c], T[c - 1][order_][Len(heard) - cicOutIndex_])
  /\ heard # <<>> /\ cicOutIndex_ = 0 => Keeps(sum, T[order_][order_][Len(heard)])

CicInv == RateInv /\ WordInv /\ \E T : Tells(T)

LEMMA KeepsZero == Keeps(0, 0)
<1>1. PICK w \in Nat : w = Word
  BY ResamplerAssumption
<1>2. 0 \in Int /\ 0 = 0 + 0 * w
  OBVIOUS
<1> QED
  BY <1>1, <1>2 DEF Keeps

LEMMA InitCic == ASSUME Fits PROVE Init => CicInv
<1> SUFFICES ASSUME Init PROVE CicInv
  OBVIOUS
<1>1. RateInv
  <2>1. PICK c \in Configs : rate_ = CicD(c.outputRate) /\ order_ = IF rate_ = 1 THEN 0 ELSE cicOrder
    BY DEF Init
  <2>2. rate_ \in Nat \ {0} /\ order_ \in Nat
    BY <2>1, ResamplerAssumption
  <2>3. \A x \in Levels \cup {1} : x * Growth(order_, rate_) < Word
    BY <2>1 DEF Fits
  <2>4. gain_ = Gain(order_, rate_)
    BY DEF Init
  <2> QED
    BY <2>2, <2>3, <2>4 DEF RateInv
<1>2. WordInv
  <2>1. <<>> \in Seq(Levels) /\ Len(<<>>) = 0
    OBVIOUS
  <2> QED
    BY <1>1, <2>1, ResamplerAssumption DEF Init, WordInv, RateInv
<1>3. \E T : Tells(T)
  <2> DEFINE T == [c \in 0 .. order_ |-> [j \in 0 .. order_ |-> [n \in Nat |-> 0]]]
  <2>1. \A c, j \in 0 .. order_ : T[c][j][0] = 0
    OBVIOUS
  <2>2. T \in Grid
    BY DEF Grid
  <2> HIDE DEF T
  <2>3. heard = <<>> /\ Len(heard) = 0 /\ cicOutIndex_ = 0 /\ order_ \in Nat
    BY <1>1 DEF Init, RateInv
  <2>4. Table(T, heard, Len(heard))
    BY <2>1, <2>2, <2>3 DEF Table
  <2>5. ASSUME NEW j \in 1 .. order_
        PROVE  Keeps(int_[j], T[0][j][Len(heard)]) /\ Keeps(comb_[j], T[j - 1][order_][Len(heard) - cicOutIndex_])
    <3>1. int_[j] = 0 /\ comb_[j] = 0
      BY DEF Init
    <3>2. T[0][j][0] = 0 /\ T[j - 1][order_][0] = 0
      BY <2>1, <2>3
    <3> QED
      BY <2>3, <3>1, <3>2, KeepsZero
  <2> QED
    BY <2>3, <2>4, <2>5 DEF Tells
<1> QED
  BY <1>1, <1>2, <1>3 DEF CicInv

LEMMA TableInt ==
  ASSUME NEW U, NEW h, NEW L, Table(U, h, L)
  PROVE  \A c, j \in 0 .. order_, n \in Nat : U[c][j][n] \in Int
<1>1. \A c, j \in 0 .. order_ : U[c][j] \in [Nat -> Int]
  BY DEF Table, Grid
<1> QED
  BY <1>1

(* A sample goes through the integrators ...                               *)
LEMMA IntegratesWords ==
  ASSUME order_ \in Nat, int_ \in [1 .. order_ -> 0 .. Word - 1], samplesIn[i + 1] \in Int,
         NEW L \in Nat, NEW h, NEW U, Table(U, h, L + 1), h[L + 1] = samplesIn[i + 1],
         \A j \in 1 .. order_ : Keeps(int_[j], U[0][j][L])
  PROVE  \A j \in 0 .. order_ : Integrated[j] \in 0 .. Word - 1 /\ Keeps(Integrated[j], U[0][j][L + 1])
<1>1. PICK f \in [0 .. order_ -> Int] :
        /\ Integrated = f /\ f[0] = samplesIn[i + 1] % Word
        /\ \A k \in 1 .. order_ : f[k] = (f[k - 1] + int_[k]) % Word
  <2>1. int_ \in [1 .. order_ -> Int]
    BY ResamplerAssumption
  <2> QED
    BY <2>1, IntegratedIs
<1>2. \A c, j \in 0 .. order_, n \in Nat : U[c][j][n] \in Int
  BY TableInt
<1> DEFINE P == {j \in 0 .. order_ : f[j] \in 0 .. Word - 1 /\ Keeps(f[j], U[0][j][L + 1])}
<1>3. 0 \in P
  <2>1. 0 \in 0 .. order_ /\ L + 1 \in 1 .. L + 1
    OBVIOUS
  <2>2. U[0][0][L + 1] = samplesIn[i + 1]
    BY <2>1 DEF Table
  <2>3. f[0] \in 0 .. Word - 1 /\ Keeps(f[0], samplesIn[i + 1])
    BY <1>1, Remainder
  <2> QED
    BY <2>1, <2>2, <2>3
<1>4. ASSUME NEW j \in 1 .. order_, j - 1 \in P PROVE j \in P
  <2>1. j \in 0 .. order_ /\ j - 1 \in 0 .. order_ /\ 0 \in 0 .. order_
    OBVIOUS
  <2>2. L + 1 \in 1 .. L + 1 /\ L + 1 - 1 = L /\ L + 1 \in Nat
    OBVIOUS
  <2>3. PICK a \in Int : a = U[0][j - 1][L + 1]
    BY <1>2, <2>1, <2>2
  <2>4. PICK b \in Int : b = U[0][j][L]
    BY <1>2, <2>1
  <2>5. PICK x \in Int : x = f[j - 1] /\ Keeps(x, a)
    BY <1>4, <2>1, <2>3
  <2>6. PICK y \in Int : y = int_[j] /\ Keeps(y, b)
    BY <2>4, ResamplerAssumption
  <2>7. Keeps((x + y) % Word, a + b) /\ (x + y) % Word \in 0 .. Word - 1
    BY <2>5, <2>6, KeepsSum
  <2>8. f[j] = (x + y) % Word
    BY <1>1, <2>5, <2>6
  <2>9. U[0][j][L + 1] = b + a
    <3>1. PICK n \in 1 .. L + 1 : n = L + 1 /\ n - 1 = L
      BY <2>2
    <3>2. U[0][j][n] = U[0][j][n - 1] + U[0][j - 1][n]
      BY <2>1 DEF Table
    <3> QED
      BY <2>3, <2>4, <3>1, <3>2
  <2>10. b + a = a + b
    OBVIOUS
  <2> QED
    BY <2>1, <2>7, <2>8, <2>9, <2>10
<1>5. \A j \in 0 .. order_ : j \in P
  <2> HIDE DEF P
  <2> QED
    BY <1>3, <1>4, UpTo
<1> QED
  BY <1>1, <1>5

(* ... and, when it is put out, through the combs.                         *)
LEMMA CombsWords ==
  ASSUME rate_ \in Nat \ {0}, order_ \in Nat, comb_ \in [1 .. order_ -> 0 .. Word - 1],
         NEW L \in Nat, NEW h, NEW U, Table(U, h, L + 1), L + 1 >= rate_,
         \A c \in 1 .. order_ : Keeps(comb_[c], U[c - 1][order_][L + 1 - rate_]),
         NEW sample \in 0 .. Word - 1, Keeps(sample, U[0][order_][L + 1])
  PROVE  \A c \in 0 .. order_ : /\ Combed(sample)[c] \in 0 .. Word - 1
                                /\ Keeps(Combed(sample)[c], U[c][order_][L + 1])
<1>1. PICK f \in [0 .. order_ -> Int] :
        /\ Combed(sample) = f /\ f[0] = sample
        /\ \A k \in 1 .. order_ : f[k] = (f[k - 1] - comb_[k]) % Word
  <2>1. comb_ \in [1 .. order_ -> Int] /\ sample \in Int
    BY ResamplerAssumption
  <2> QED
    BY <2>1, CombedIs
<1>2. \A c, j \in 0 .. order_, n \in Nat : U[c][j][n] \in Int
  BY TableInt
<1> DEFINE P == {c \in 0 .. order_ : f[c] \in 0 .. Word - 1 /\ Keeps(f[c], U[c][order_][L + 1])}
<1>3. 0 \in P
  BY <1>1
<1>4. ASSUME NEW c \in 1 .. order_, c - 1 \in P PROVE c \in P
  <2>1. c \in 0 .. order_ /\ c - 1 \in 0 .. order_ /\ order_ \in 0 .. order_
    OBVIOUS
  <2>2. L + 1 \in 1 .. L + 1 /\ L + 1 - rate_ \in Nat /\ L + 1 \in Nat
    OBVIOUS
  <2>3. PICK a \in Int : a = U[c - 1][order_][L + 1]
    BY <1>2, <2>1, <2>2
  <2>4. PICK b \in Int : b = U[c - 1][order_][L + 1 - rate_]
    BY <1>2, <2>1, <2>2
  <2>5. PICK x \in Int : x = f[c - 1] /\ Keeps(x, a)
    BY <1>4, <2>1, <2>3
  <2>6. PICK y \in Int : y = comb_[c] /\ Keeps(y, b)
    <3>1. comb_[c] \in 0 .. Word - 1
      OBVIOUS
    <3>2. comb_[c] \in Int
      BY <3>1, ResamplerAssumption
    <3>3. Keeps(comb_[c], b)
      BY <2>4
    <3> QED
      BY <3>2, <3>3
  <2>7. Keeps((x - y) % Word, a - b) /\ (x - y) % Word \in 0 .. Word - 1
    BY <2>5, <2>6, KeepsSum
  <2>8. f[c] = (x - y) % Word
    BY <1>1, <2>5, <2>6
  <2>9. Lag(U[c - 1][order_], L + 1) = b
    <3>1. CASE L + 1 > rate_
      BY <2>4, <3>1 DEF Lag
    <3>2. CASE L + 1 = rate_
      <4>1. L + 1 - rate_ = 0 /\ ~ (L + 1 > rate_)
        BY <3>2
      <4>2. U[c - 1][order_][0] = 0
        BY <2>1 DEF Table
      <4> QED
        BY <2>4, <4>1, <4>2 DEF Lag
    <3> QED
      BY <3>1, <3>2
  <2>10. U[c][order_][L + 1] = a - b
    BY <2>1, <2>2, <2>3, <2>9 DEF Table
  <2> QED
    BY <2>1, <2>7, <2>8, <2>10
<1>5. \A c \in 0 .. order_ : c \in P
  <2> HIDE DEF P
  <2> QED
    BY <1>3, <1>4, UpTo
<1> QED
  BY <1>1, <1>5

LEMMA TableKept ==
  ASSUME NEW T, NEW h, NEW L, UNCHANGED <<rate_, order_>>, Table(T, h, L)
  PROVE  Table(T, h, L)'
BY DEF Table, Grid, Lag

LEMMA RateKept == RateInv /\ UNCHANGED setupVars => RateInv'
BY DEF RateInv, setupVars

LEMMA SampleCic == ASSUME CicInv, CicSample, i \in Nat PROVE CicInv'
<1> DEFINE L == Len(heard)  x == samplesIn[i + 1]
<1>1. RateInv' /\ RateInv /\ WordInv
  BY RateKept DEF CicInv, CicSample
<1>2. /\ heard \in Seq(Levels) /\ L \in Nat /\ x \in Levels /\ x \in Int
      /\ samplesIn' = samplesIn /\ heard' = Append(heard, x)
  <2>1. samplesIn \in Seq(Levels) /\ heard \in Seq(Levels) /\ i < Len(samplesIn)
    BY <1>1 DEF CicSample, WordInv
  <2>2. i + 1 \in 1 .. Len(samplesIn)
    BY <2>1
  <2>3. x \in Levels
    BY <2>1, <2>2
  <2>4. x \in Int
    <3>1. Levels \subseteq Nat
      BY ResamplerAssumption
    <3> HIDE DEF x
    <3> QED
      BY <2>3, <3>1
  <2>5. samplesIn' = samplesIn /\ heard' = Append(heard, x)
    BY DEF CicSample, callVars
  <2>6. L \in Nat
    BY <2>1
  <2> HIDE DEF x, L
  <2> QED
    BY <2>1, <2>3, <2>4, <2>5, <2>6
<1>3. PICK h : /\ h = heard' /\ h \in Seq(Levels) /\ Len(h) = L + 1
               /\ h[L + 1] = x /\ \A n \in 1 .. L : h[n] = heard[n]
  BY <1>2
<1>4. /\ rate_ \in Nat \ {0} /\ order_ \in Nat /\ rate_' = rate_ /\ order_' = order_
      /\ int_ \in [1 .. order_ -> 0 .. Word - 1] /\ comb_ \in [1 .. order_ -> 0 .. Word - 1]
      /\ cicOutIndex_ \in 0 .. rate_ - 1 /\ cicOutIndex_ <= L
  BY <1>1 DEF RateInv, WordInv, CicSample, setupVars
<1>5. PICK T : Tells(T)
  BY DEF CicInv
<1>6. PICK U : Table(U, h, L + 1) /\ Extends(U, T, L)
  <2>1. Table(T, heard, L)
    BY <1>5 DEF Tells
  <2>2. h[L + 1] \in Int
    BY <1>2, <1>3
  <2> HIDE DEF L
  <2> QED
    BY <1>2, <1>3, <1>4, <2>1, <2>2, Continued
<1>7. /\ \A j \in 1 .. order_ : Keeps(int_[j], U[0][j][L])
      /\ \A c \in 1 .. order_ : Keeps(comb_[c], U[c - 1][order_][L - cicOutIndex_])
  <2>1. L \in 0 .. L /\ L - cicOutIndex_ \in 0 .. L
    BY <1>2, <1>4
  <2>2. ASSUME NEW j \in 1 .. order_
        PROVE  Keeps(int_[j], U[0][j][L]) /\ Keeps(comb_[j], U[j - 1][order_][L - cicOutIndex_])
    <3>1. 0 \in 0 .. order_ /\ j \in 0 .. order_ /\ j - 1 \in 0 .. order_ /\ order_ \in 0 .. order_
      BY <1>4
    <3>2. U[0][j][L] = T[0][j][L] /\ U[j - 1][order_][L - cicOutIndex_] = T[j - 1][order_][L - cicOutIndex_]
      BY <1>6, <2>1, <3>1 DEF Extends
    <3> QED
      BY <1>5, <3>2 DEF Tells
  <2> QED
    BY <2>2
<1>8. \A j \in 0 .. order_ : Integrated[j] \in 0 .. Word - 1 /\ Keeps(Integrated[j], U[0][j][L + 1])
  BY <1>2, <1>3, <1>4, <1>6, <1>7, IntegratesWords
<1>9. /\ int_' \in [1 .. order_ -> 0 .. Word - 1]
      /\ \A j \in 1 .. order_ : Keeps(int_'[j], U[0][j][L + 1])
  <2>1. int_' = [j \in 1 .. order_ |-> Integrated[j]]
    BY DEF CicSample
  <2>2. \A j \in 1 .. order_ : j \in 0 .. order_
    OBVIOUS
  <2> QED
    BY <1>8, <2>1, <2>2
<1>10. Table(U, heard, Len(heard))'
  <2>1. PICK m : m = L + 1
    OBVIOUS
  <2>2. Table(U, h, m)'
    BY <1>4, <1>6, <2>1, TableKept
  <2>3. heard' = h /\ Len(heard)' = m
    BY <1>3, <2>1
  <2> HIDE DEF L
  <2> QED
    BY <2>2, <2>3 DEF Table
<1>11. /\ heard' \in Seq(Levels) /\ samplesIn' \in Seq(Levels) /\ heard' # <<>> /\ Len(heard') = L + 1
  BY <1>1, <1>2, <1>3 DEF WordInv
<1>12. CASE cicOutIndex_ + 1 < rate_
  <2>1. cicOutIndex_' = cicOutIndex_ + 1 /\ comb_' = comb_ /\ sum' = sum
    BY <1>12 DEF CicSample
  <2>2. WordInv'
    <3>1. cicOutIndex_' \in 0 .. rate_' - 1 /\ cicOutIndex_' <= Len(heard')
      BY <1>2, <1>4, <1>11, <1>12, <2>1
    <3> QED
      BY <1>1, <1>4, <1>9, <1>11, <2>1, <3>1 DEF WordInv
  <2>3. L + 1 - (cicOutIndex_ + 1) = L - cicOutIndex_ /\ cicOutIndex_' # 0
    BY <1>2, <1>4, <2>1
  <2>4. Tells(U)'
    BY <1>4, <1>7, <1>9, <1>10, <1>11, <2>1, <2>3 DEF Tells
  <2> QED
    BY <1>1, <2>2, <2>4 DEF CicInv
<1>13. CASE ~ (cicOutIndex_ + 1 < rate_)
  <2> DEFINE combed == Combed(Integrated[order_])
  <2>1. cicOutIndex_' = 0 /\ comb_' = [j \in 1 .. order_ |-> combed[j - 1]] /\ sum' = combed[order_]
    BY <1>13 DEF CicSample
  <2>2. L - cicOutIndex_ = L + 1 - rate_ /\ L + 1 >= rate_
    <3>1. PICK l \in Nat : l = L
      BY <1>2
    <3>2. cicOutIndex_ = rate_ - 1 /\ cicOutIndex_ <= l
      BY <1>4, <1>13, <3>1
    <3>3. l - cicOutIndex_ = l + 1 - rate_ /\ l + 1 >= rate_
      BY <1>4, <3>2
    <3> QED
      BY <3>1, <3>3
  <2>3. \A c \in 0 .. order_ : combed[c] \in 0 .. Word - 1 /\ Keeps(combed[c], U[c][order_][L + 1])
    <3>1. Integrated[order_] \in 0 .. Word - 1 /\ Keeps(Integrated[order_], U[0][order_][L + 1])
      BY <1>4, <1>8
    <3>2. \A c \in 1 .. order_ : Keeps(comb_[c], U[c - 1][order_][L + 1 - rate_])
      BY <1>7, <2>2
    <3> HIDE DEF L
    <3> QED
      BY <1>2, <1>4, <1>6, <2>2, <3>1, <3>2, CombsWords
  <2> HIDE DEF combed
  <2>4. /\ comb_' \in [1 .. order_ -> 0 .. Word - 1]
        /\ \A c \in 1 .. order_ : Keeps(comb_'[c], U[c - 1][order_][L + 1])
        /\ sum' \in 0 .. Word - 1 /\ Keeps(sum', U[order_][order_][L + 1])
    <3>1. order_ \in 0 .. order_ /\ \A c \in 1 .. order_ : c - 1 \in 0 .. order_
      BY <1>4
    <3> QED
      BY <2>1, <2>3, <3>1
  <2>5. WordInv'
    <3>1. cicOutIndex_' \in 0 .. rate_' - 1 /\ cicOutIndex_' <= Len(heard')
      BY <1>2, <1>4, <1>11, <2>1
    <3> QED
      BY <1>4, <1>9, <1>11, <2>4, <3>1 DEF WordInv
  <2>6. L + 1 - 0 = L + 1
    BY <1>2
  <2>7. Tells(U)'
    <3>1. \A c \in 1 .. order_' : Keeps(comb_[c], U[c - 1][order_][Len(heard) - cicOutIndex_])'
      <4>1. Len(heard') - cicOutIndex_' = L + 1
        BY <1>11, <2>1, <2>6
      <4> QED
        BY <1>4, <2>4, <4>1 DEF Keeps
    <3>2. (heard # <<>> /\ cicOutIndex_ = 0 => Keeps(sum, U[order_][order_][Len(heard)]))'
      BY <1>4, <1>11, <2>4 DEF Keeps
    <3>3. \A j \in 1 .. order_' : Keeps(int_[j], U[0][j][Len(heard)])'
      BY <1>4, <1>9, <1>11 DEF Keeps
    <3> QED
      BY <1>10, <3>1, <3>2, <3>3 DEF Tells
  <2> QED
    BY <1>1, <2>5, <2>7 DEF CicInv
<1> QED
  BY <1>12, <1>13

(* No other step touches the CIC.                                          *)
LEMMA RestCic == ASSUME CicInv, [Next]_vars, ~ CicSample, i \in Nat PROVE CicInv'
<1>1. UNCHANGED <<setupVars, cicVars>>
  BY DEF Next, vars, Call, CicDone, Store, Output, NextSample, Return, Over, cicVars, setupVars
<1>2. RateInv' /\ RateInv /\ WordInv
  BY <1>1, RateKept DEF CicInv
<1>3. WordInv'
  <2>1. samplesIn' \in Seq(Levels)
    <3>1. CASE Call
      <4>1. PICK n \in Lengths, level \in Levels : samplesIn' = [x \in 1 .. n |-> level]
        BY <3>1 DEF Call
      <4>2. n \in Nat
        BY ResamplerAssumption
      <4> QED
        BY <4>1, <4>2
    <3>2. CASE samplesIn' = samplesIn
      BY <1>2, <3>2 DEF WordInv
    <3> QED
      BY <3>1, <3>2 DEF Next, vars, CicDone, Store, Output, NextSample, Return, Over, callVars
  <2>2. (at' = "cic" /\ i' > 0) => (at = "cic" /\ i > 0)
    BY DEF Next, vars, Call, CicDone, Store, Output, NextSample, Return, Over
  <2> QED
    BY <1>1, <1>2, <2>1, <2>2 DEF WordInv, cicVars, setupVars
<1>4. (\E T : Tells(T))'
  <2>1. PICK T : Tells(T)
    BY DEF CicInv
  <2>2. Table(T, heard, Len(heard))'
    <3>1. Table(T, heard, Len(heard)) /\ UNCHANGED <<rate_, order_, heard>>
      BY <1>1, <2>1 DEF Tells, cicVars, setupVars
    <3> QED
      BY <3>1 DEF Table, Grid, Lag
  <2>3. Tells(T)'
    BY <1>1, <2>1, <2>2 DEF Tells, Keeps, cicVars, setupVars
  <2> QED
    BY <2>3
<1> QED
  BY <1>2, <1>3, <1>4 DEF CicInv

(* What was put out last is what the table says.                           *)
LEMMA CicExact == ASSUME CicInv, i \in Nat PROVE SumsExactly
<1>1. RateInv /\ WordInv
  BY DEF CicInv
<1>2. PICK h, L : h = heard /\ L = Len(heard)
  OBVIOUS
<1>3. /\ rate_ \in Nat \ {0} /\ order_ \in Nat /\ L \in Nat
      /\ h \in [1 .. L -> Int] /\ \A n \in 1 .. L : h[n] \in Levels
  <2>1. h \in Seq(Levels) /\ L = Len(h)
    BY <1>1, <1>2 DEF WordInv
  <2>2. L \in Nat /\ h \in [1 .. L -> Levels]
    BY <2>1
  <2>3. \A x \in Levels : x \in Int
    BY ResamplerAssumption
  <2>4. h \in [1 .. L -> Int]
    BY <2>2, <2>3
  <2> QED
    BY <1>1, <2>2, <2>4 DEF RateInv
<1>4. PICK g \in Nat \ {0} : g = Growth(order_, rate_) /\ \A x \in Levels \cup {1} : x * g < Word
  <2>1. Growth(order_, rate_) \in Nat \ {0}
    <3>1. PICK f \in [0 .. order_ -> Nat \ {0}] : Growth(order_, rate_) = f[order_]
      BY <1>3, GrowthIs
    <3> QED
      BY <1>3, <3>1
  <2> QED
    BY <1>1, <2>1 DEF RateInv
<1>5. gain_ = Growth(order_, rate_)
  <2>1. 1 * g < Word /\ 1 * g = g
    BY <1>4
  <2> QED
    BY <1>1, <1>3, <1>4, <2>1, GainIsGrowth DEF RateInv
<1>6. ASSUME at = "cic", i > 0, cicOutIndex_ = 0 PROVE sum = MovingSums[L]
  <2>1. heard # <<>> /\ L \in 1 .. L
    BY <1>1, <1>2, <1>3, <1>6 DEF WordInv
  <2>2. PICK T : Table(T, h, L) /\ Keeps(sum, T[order_][order_][L])
    BY <1>2, <1>6, <2>1 DEF CicInv, Tells
  <2>3. PICK f \in [0 .. order_ -> [1 .. L -> Int]] : MovingSums = f[order_] /\ Moves(f, h, L)
    BY <1>2, <1>3, MovingIs
  <2>4. PICK b \in Nat : b * g < Word /\ \A x \in Levels : x <= b
    <3>1. Levels \in SUBSET Nat /\ \A x \in Levels : x * g < Word
      BY <1>4, ResamplerAssumption
    <3> QED
      BY <3>1, CommonBound
  <2>5. \A n \in 1 .. L : h[n] \in 0 .. b
    <3>1. \A x \in Levels : x \in 0 .. b
      BY <2>4, ResamplerAssumption
    <3> QED
      BY <1>3, <3>1
  <2>6. f[order_][L] \in 0 .. b * Growth(order_, rate_)
    <3>1. \A n \in 1 .. L : f[order_][n] \in 0 .. b * Growth(order_, rate_)
      BY <1>3, <2>3, <2>5, MovingBound
    <3> QED
      BY <2>1, <3>1
  <2>7. f[order_][L] \in 0 .. Word - 1
    <3>1. PICK m \in Nat : m = b * g
      OBVIOUS
    <3>2. f[order_][L] \in 0 .. m /\ m < Word
      BY <1>4, <2>4, <2>6, <3>1
    <3> QED
      BY <3>2, ResamplerAssumption
  <2>8. T[order_][order_][L] = f[order_][L]
    <3>1. Same(T, f, L)
      BY <1>3, <2>2, <2>3, CombedIntegrals
    <3> QED
      BY <2>1, <3>1 DEF Same
  <2>9. sum \in 0 .. Word - 1
    BY <1>1 DEF WordInv
  <2>10. sum = f[order_][L]
    BY <2>2, <2>7, <2>8, <2>9, KeptWord
  <2> QED
    BY <2>3, <2>10
<1> QED
  BY <1>2, <1>5, <1>6 DEF SumsExactly

(* Although the integrators run over, what the CIC puts out is the moving  *)
(* sums of all samples so far, of this call and the earlier ones, and the  *)
(* gain they are divided by is how much the moving sums grow: for any      *)
(* samples, rate and order whose sums fit a word (CIC::filter(),           *)
(* CIC::getGrowth()).                                                      *)
THEOREM CicIsExact == ASSUME Fits PROVE Spec => []SumsExactly
<1>1. Init => CicInv
  BY InitCic
<1>2. FirInv => i \in Nat
  BY DEF FirInv, BufferInv
<1>3. FirInv /\ CicInv /\ [Next]_vars => CicInv'
  BY <1>2, SampleCic, RestCic
<1>4. FirInv /\ CicInv => SumsExactly
  BY <1>2, CicExact
<1> QED
  BY <1>1, <1>3, <1>4, FirAlways, PTL DEF Spec

=============================================================================
