---------------------------- MODULE SetupProofs -----------------------------
(* The frames SyncSampling() cuts, for any sizes, overlaps and factors;    *)
(* and the components main() starts, for any command line.                 *)
EXTENDS Setup, SequenceTheorems, TLAPS

(* What the setters keep true of the fields a frame depends on.            *)
FrameInv ==
  /\ mLog2FftSize \in Sizes
  /\ mAvgFactor \in Factors \ {0}
  /\ mSoverlap \in Nat /\ clampedTo \in Nat
  /\ mSoverlap < clampedTo

(* An overlap is shorter than the frame of the time.                       *)
LEMMA OverlapClamped ==
  ASSUME NEW o \in Overlaps, mLog2FftSize \in Sizes
  PROVE  NewSoverlap(o) \in Nat /\ NewSoverlap(o) < 2^mLog2FftSize
<1> DEFINE size == 2^mLog2FftSize
<1>1. size \in Nat \ {0} /\ o \in Nat
  BY SetupAssumption
<1>2. size \div 2 \in Nat /\ size \div 2 < size
  <2> HIDE DEF size
  <2> QED BY <1>1
<1>3. NewSoverlap(o) = IF o > size - 1 THEN size \div 2 ELSE o
  BY DEF NewSoverlap
<1> HIDE DEF size
<1>4. NewSoverlap(o) \in Nat /\ NewSoverlap(o) < size
  BY <1>1, <1>2, <1>3
<1> QED
  BY <1>4 DEF size

LEMMA FrameAlways == Spec => []FrameInv
<1>1. Init => FrameInv
  BY SetupAssumption DEF Init, FrameInv, DEFAULT_LOG2_FFT_SIZE, DEFAULT_AVG_FACTOR, DEFAULT_SOVERLAP
<1>2. FrameInv /\ [Next]_vars => FrameInv'
  <2> SUFFICES ASSUME FrameInv, [Next]_vars PROVE FrameInv'
    OBVIOUS
  <2> USE DEF FrameInv
  <2>1. CASE SetPipeline
    BY <2>1 DEF SetPipeline, frameVars
  <2>2. CASE SetLog2FftSize
    BY <2>2 DEF SetLog2FftSize
  <2>3. CASE SetAvgFactor
    BY <2>3, SetupAssumption DEF SetAvgFactor, NewAvgFactor, DEFAULT_AVG_FACTOR
  <2>4. CASE SetSoverlap
    <3>1. PICK o \in Overlaps : mSoverlap' = NewSoverlap(o)
      BY <2>4 DEF SetSoverlap
    <3>2. clampedTo' = 2^mLog2FftSize /\ clampedTo' \in Nat
      BY <2>4, SetupAssumption DEF SetSoverlap
    <3>3. UNCHANGED <<mLog2FftSize, mAvgFactor>>
      BY <2>4 DEF SetSoverlap
    <3> QED
      BY <3>1, <3>2, <3>3, OverlapClamped
  <2>5. CASE SetHosts
    BY <2>5 DEF SetHosts, frameVars
  <2>6. CASE SetOutputFileName
    BY <2>6 DEF SetOutputFileName, frameVars
  <2>7. CASE Usage \/ Refuse \/ Start
    BY <2>7 DEF Usage, Refuse, Start, contextVars, frameVars
  <2>8. CASE Over \/ UNCHANGED vars
    BY <2>8 DEF Over, vars, contextVars, frameVars
  <2> QED
    BY <2>1, <2>2, <2>3, <2>4, <2>5, <2>6, <2>7, <2>8 DEF Next
<1> QED
  BY <1>1, <1>2, PTL DEF Spec

-----------------------------------------------------------------------------
LEMMA TimesMonotonic ==
  ASSUME NEW a \in Nat, NEW b \in Nat, NEW c \in Nat, a <= b
  PROVE  a * c \in Nat /\ b * c \in Nat /\ a * c <= b * c
<1>1. (b - a) * c \in Nat /\ b * c = a * c + (b - a) * c
  OBVIOUS
<1> QED
  BY <1>1

(* A word holds a frame more than what is read, so nothing wraps.          *)
LEMMA NothingWraps ==
  ASSUME FrameInv, mSoverlap < fft_size
  PROVE  /\ fft_size \in Nat \ {0}
         /\ Advance \in Nat \ {0} /\ Advance = fft_size - mSoverlap
         /\ Advance * mAvgFactor \in Nat
         /\ 2 * (Advance * mAvgFactor + fft_size) + BULK_TRANSFER_MULTIPLE < Word
<1> DEFINE size == fft_size  avg == mAvgFactor  adv == fft_size - mSoverlap
<1>1. size \in Nat \ {0} /\ avg \in Nat \ {0} /\ mSoverlap \in Nat /\ Word \in Nat
  BY SetupAssumption DEF FrameInv, fft_size
<1>2. 2 * (size * (avg + 1)) + BULK_TRANSFER_MULTIPLE < Word
  BY SetupAssumption DEF FrameInv, fft_size
<1> HIDE DEF size, avg
<1>3. adv \in Nat \ {0} /\ adv <= size
  BY <1>1 DEF size
<1>4. adv * avg \in Nat /\ size * avg \in Nat /\ adv * avg <= size * avg
  <2> HIDE DEF adv
  <2> QED BY <1>1, <1>3, TimesMonotonic
<1>5. size * (avg + 1) = size * avg + size
  BY <1>1
<1>6. 2 * (adv * avg + size) + BULK_TRANSFER_MULTIPLE < Word
  <2> DEFINE p == adv * avg  q == size * avg
  <2>1. p \in Nat /\ q \in Nat /\ p <= q /\ 2 * (q + size) + BULK_TRANSFER_MULTIPLE < Word
    BY <1>2, <1>4, <1>5
  <2> HIDE DEF p, q
  <2>2. 2 * (p + size) + BULK_TRANSFER_MULTIPLE < Word
    BY <2>1, <1>1 DEF BULK_TRANSFER_MULTIPLE
  <2> QED
    BY <2>2 DEF p
<1>7. size <= size * (avg + 1)
  <2>1. 1 <= avg + 1 /\ avg + 1 \in Nat
    BY <1>1
  <2>2. 1 * size <= (avg + 1) * size
    BY <1>1, <2>1, TimesMonotonic
  <2> QED
    BY <1>1, <2>2
<1>8. adv < Word
  <2> DEFINE q == size * (avg + 1)
  <2>1. q \in Nat /\ size <= q /\ 2 * q + BULK_TRANSFER_MULTIPLE < Word
    BY <1>1, <1>2, <1>7
  <2> HIDE DEF q, adv
  <2> QED
    BY <2>1, <1>1, <1>3 DEF BULK_TRANSFER_MULTIPLE
<1>9. Advance = adv
  <2>1. Advance = adv % Word
    BY DEF Advance
  <2> HIDE DEF adv
  <2> QED
    BY <2>1, <1>1, <1>3, <1>8
<1> QED
  BY <1>1, <1>3, <1>4, <1>6, <1>9 DEF size, avg

-----------------------------------------------------------------------------
(* The bytes of the frames, without the words they are computed in.        *)
LEMMA Bytes ==
  ASSUME FrameInv, mSoverlap < fft_size,
         NEW i \in 0 .. mAvgFactor - 1, NEW j \in 0 .. 2 * fft_size - 1
  PROVE  /\ ByteOf(i, j) = j + 2 * (i * Advance)
         /\ i * Advance \in Nat
         /\ i * Advance + Advance <= Advance * mAvgFactor
<1> DEFINE size == fft_size  avg == mAvgFactor  adv == Advance  p == adv * avg  x == i * adv
<1>1. /\ size \in Nat \ {0} /\ adv \in Nat \ {0} /\ p \in Nat
      /\ adv = size - mSoverlap
      /\ 2 * (p + size) + BULK_TRANSFER_MULTIPLE < Word
  BY NothingWraps
<1>2. avg \in Nat /\ i \in Nat /\ j \in Nat /\ i + 1 <= avg /\ j < 2 * size /\ Word \in Nat /\ mSoverlap \in Nat
  BY <1>1, SetupAssumption DEF FrameInv
<1>3. ByteOf(i, j) = (j + i * adv * 2) % Word
  BY DEF ByteOf
<1> HIDE DEF size, avg, adv
<1>4. (i + 1) * adv <= avg * adv /\ avg * adv = p
  BY <1>1, <1>2, TimesMonotonic
<1>5. x \in Nat /\ (i + 1) * adv = x + adv /\ i * adv * 2 = 2 * x
  BY <1>1, <1>2
<1>6. x + adv <= p
  BY <1>4, <1>5
<1>7. ByteOf(i, j) = (j + 2 * x) % Word
  BY <1>3, <1>5
<1> HIDE DEF p, x
<1>8. j + 2 * x \in Nat /\ j + 2 * x < Word
  BY <1>1, <1>2, <1>5, <1>6 DEF BULK_TRANSFER_MULTIPLE
<1>9. ByteOf(i, j) = j + 2 * x
  BY <1>7, <1>8, <1>2
<1> QED
  BY <1>5, <1>6, <1>9 DEF p, x, adv, avg

(* What is read is what the frames take, filled up to a whole block.       *)
LEMMA Read ==
  ASSUME FrameInv, mSoverlap < fft_size
  PROVE  /\ slen \in Nat
         /\ 2 * (Advance * mAvgFactor + mSoverlap) <= slen
         /\ slen < 2 * (Advance * mAvgFactor + mSoverlap) + BULK_TRANSFER_MULTIPLE
<1> DEFINE p == Advance * mAvgFactor  w == 2 * (p + mSoverlap)
<1>1. /\ p \in Nat /\ fft_size \in Nat /\ mSoverlap \in Nat /\ Word \in Nat
      /\ 2 * (p + fft_size) + BULK_TRANSFER_MULTIPLE < Word
  BY NothingWraps, SetupAssumption DEF FrameInv
<1>2. Wanted = ((p + mSoverlap) * 2) % Word
  BY DEF Wanted
<1> HIDE DEF p
<1>3. w \in Nat /\ w + BULK_TRANSFER_MULTIPLE < Word
  BY <1>1 DEF BULK_TRANSFER_MULTIPLE
<1>4. (p + mSoverlap) * 2 = w
  BY <1>1
<1>5. Wanted = w
  <2>1. Wanted = w % Word
    BY <1>2, <1>4
  <2> HIDE DEF w
  <2> QED
    BY <2>1, <1>1, <1>3 DEF BULK_TRANSFER_MULTIPLE
<1> HIDE DEF w
<1>6. w % 512 \in 0 .. 511
  BY <1>3
<1>7. slen = IF w % 512 = 0 THEN w ELSE w + 512 - (w % 512)
  BY <1>5 DEF slen, BULK_TRANSFER_MULTIPLE
<1>8. w + 512 < Word
  BY <1>3 DEF BULK_TRANSFER_MULTIPLE
<1> DEFINE r == w % 512
<1>9. r \in 0 .. 511 /\ slen = IF r = 0 THEN w ELSE w + 512 - r
  BY <1>6, <1>7
<1> HIDE DEF r
<1>10. slen \in Nat /\ w <= slen /\ slen < w + 512
  BY <1>9, <1>8, <1>3, <1>1
<1> QED
  BY <1>10 DEF w, p, BULK_TRANSFER_MULTIPLE

(* However the options were ordered, the frames lie within what is read,   *)
(* advance, and overlap by as much as they should (SyncSampling()).        *)
THEOREM FramesAreWithin == Spec => []FramesWithin
<1>1. FrameInv => FramesWithin
  <2> SUFFICES ASSUME FrameInv, fft_size >= clampedTo
               PROVE  /\ mAvgFactor >= 1
                      /\ \A i \in 0 .. mAvgFactor - 1 :
                           /\ \A j \in 0 .. 2 * fft_size - 1 : ByteOf(i, j) < slen
                           /\ i > 0 => /\ ByteOf(i, 0) > ByteOf(i - 1, 0)
                                       /\ ByteOf(i, 0) + 2 * mSoverlap = ByteOf(i - 1, 2 * fft_size - 1) + 1
                      /\ slen - ByteOf(mAvgFactor - 1, 2 * fft_size - 1) <= BULK_TRANSFER_MULTIPLE
    BY DEF FramesWithin
  <2> DEFINE p == Advance * mAvgFactor
  <2>1. mSoverlap < fft_size
    BY SetupAssumption DEF FrameInv, fft_size
  <2>2. /\ fft_size \in Nat \ {0} /\ mSoverlap \in Nat /\ mAvgFactor \in Nat \ {0}
        /\ Advance \in Nat \ {0} /\ Advance = fft_size - mSoverlap /\ p \in Nat
    BY <2>1, NothingWraps, SetupAssumption DEF FrameInv
  <2>3. slen \in Nat /\ 2 * (p + mSoverlap) <= slen /\ slen < 2 * (p + mSoverlap) + 512
    BY <2>1, Read DEF BULK_TRANSFER_MULTIPLE
  <2>4. ASSUME NEW i \in 0 .. mAvgFactor - 1, NEW j \in 0 .. 2 * fft_size - 1
        PROVE  /\ ByteOf(i, j) = j + 2 * (i * Advance)
               /\ i * Advance \in Nat /\ i * Advance + Advance <= p
    BY <2>1, Bytes
  <2>5. ASSUME NEW i \in 0 .. mAvgFactor - 1, NEW j \in 0 .. 2 * fft_size - 1
        PROVE  ByteOf(i, j) < slen
    <3> DEFINE x == i * Advance
    <3>1. ByteOf(i, j) = j + 2 * x /\ x \in Nat /\ x + Advance <= p
      BY <2>4
    <3> HIDE DEF x, p
    <3> QED
      BY <3>1, <2>2, <2>3
  <2>6. ASSUME NEW i \in 0 .. mAvgFactor - 1, i > 0
        PROVE  /\ ByteOf(i, 0) > ByteOf(i - 1, 0)
               /\ ByteOf(i, 0) + 2 * mSoverlap = ByteOf(i - 1, 2 * fft_size - 1) + 1
    <3> DEFINE x == (i - 1) * Advance
    <3>1. i - 1 \in 0 .. mAvgFactor - 1 /\ 0 \in 0 .. 2 * fft_size - 1 /\ 2 * fft_size - 1 \in 0 .. 2 * fft_size - 1
      BY <2>2, <2>6
    <3>2. i * Advance = x + Advance /\ x \in Nat
      BY <2>2, <2>6
    <3>3. /\ ByteOf(i, 0) = 0 + 2 * (i * Advance)
          /\ ByteOf(i - 1, 0) = 0 + 2 * x
          /\ ByteOf(i - 1, 2 * fft_size - 1) = 2 * fft_size - 1 + 2 * x
      BY <3>1, <2>4
    <3> HIDE DEF x
    <3> QED
      BY <3>2, <3>3, <2>2
  <2>7. slen - ByteOf(mAvgFactor - 1, 2 * fft_size - 1) <= BULK_TRANSFER_MULTIPLE
    <3> DEFINE x == (mAvgFactor - 1) * Advance
    <3>1. ByteOf(mAvgFactor - 1, 2 * fft_size - 1) = 2 * fft_size - 1 + 2 * x
      BY <2>2, <2>4
    <3>2. x + Advance = p /\ x \in Nat
      BY <2>2
    <3> HIDE DEF x, p
    <3> QED
      BY <3>1, <3>2, <2>2, <2>3 DEF BULK_TRANSFER_MULTIPLE
  <2> QED
    BY <2>2, <2>5, <2>6, <2>7
<1> QED
  BY <1>1, FrameAlways, PTL

-----------------------------------------------------------------------------
(*                               The wiring                                *)

(* The options have the values main() tells apart, and what is started is  *)
(* what they ask for.                                                      *)
WiredInv ==
  /\ mPipeline \in {"PSD", "IQ", "DEC", "other"}
  /\ mOutputType \in {"BYTE", "FLOAT"}
  /\ Started => vComponents = Blocks \o Outputs

LEMMA WiredAlways == Spec => []WiredInv
<1>1. Init => WiredInv
  BY DEF Init, WiredInv, Started
<1>2. WiredInv /\ [Next]_vars => WiredInv'
  <2> SUFFICES ASSUME WiredInv, [Next]_vars PROVE WiredInv'
    OBVIOUS
  <2> USE DEF WiredInv, Started
  <2>1. CASE SetPipeline
    BY <2>1 DEF SetPipeline, Option, sinkVars
  <2>2. CASE SetLog2FftSize \/ SetAvgFactor \/ SetSoverlap
    BY <2>2 DEF SetLog2FftSize, SetAvgFactor, SetSoverlap, Option, sinkVars
  <2>3. CASE SetHosts
    BY <2>3 DEF SetHosts, Option
  <2>4. CASE SetOutputFileName
    BY <2>4 DEF SetOutputFileName, Option
  <2>5. CASE Usage \/ Refuse
    BY <2>5 DEF Usage, Refuse, contextVars, sinkVars
  <2>6. CASE Start
    <3>1. /\ vComponents' = Blocks \o Outputs
          /\ UNCHANGED <<mPipeline, mOutputType, mTlsHost, mOutputFileName>>
      BY <2>6 DEF Start, contextVars, sinkVars
    <3>2. Blocks' = Blocks
      BY <3>1 DEF Blocks
    <3>3. Outputs' = Outputs
      BY <3>1 DEF Outputs, ToServer, ToFile
    <3> QED
      BY <3>1, <3>2, <3>3
  <2>7. CASE Over \/ UNCHANGED vars
    <3>1. UNCHANGED <<at, vComponents, mPipeline, mOutputType, mTlsHost, mOutputFileName>>
      BY <2>7 DEF Over, vars, contextVars, sinkVars
    <3>2. Blocks' = Blocks
      BY <3>1 DEF Blocks
    <3>3. Outputs' = Outputs
      BY <3>1 DEF Outputs, ToServer, ToFile
    <3> QED
      BY <3>1, <3>2, <3>3
  <2> QED
    BY <2>1, <2>2, <2>3, <2>4, <2>5, <2>6, <2>7 DEF Next
<1> QED
  BY <1>1, <1>2, PTL DEF Spec

(* The components that a pipeline is put together from, and their names.   *)
Names == {"none", "rtlDriver", "rtlDriver2", "rdcBlock", "winBlock", "fftBlock", "avgBlock",
          "psdfastBlock", "iqStream", "avroBlock", "transBlock", "fileSink", "rdcRTLBlock", "iqSink"}
SinkNames == {"fileSink", "iqSink", "transBlock"}
Parts == [name : Names, in : Names]

(* No two components of v read one queue, and the queues are of those ins. *)
OneReader(v) == \A i, j \in 1 .. Len(v) : v[i].in = v[j].in => i = j
Reads(v, ins) == v \in Seq(Parts) /\ OneReader(v) /\ \A i \in 1 .. Len(v) : v[i].in \in ins

(* Each component reads the one before it, the first reads from.           *)
Follows(v, from) == \A i \in 1 .. Len(v) : v[i].in = IF i = 1 THEN from ELSE v[i - 1].name

(* A stretch without sinks, and one of which only the last is a sink.      *)
Sinkless(v) == \A i \in 1 .. Len(v) : v[i].name \notin SinkNames
Ending(v) == \A i \in 1 .. Len(v) : v[i].name \in SinkNames <=> i = Len(v)

LEMMA Joined ==
  ASSUME NEW b \in Seq(Parts), NEW o \in Seq(Parts)
  PROVE  /\ b \o o \in Seq(Parts) /\ Len(b \o o) = Len(b) + Len(o)
         /\ Len(b) \in Nat /\ Len(o) \in Nat
         /\ \A i \in 1 .. Len(b) + Len(o) :
              (b \o o)[i] = IF i <= Len(b) THEN b[i] ELSE o[i - Len(b)]
BY ConcatProperties, LenProperties

LEMMA JoinedReads ==
  ASSUME NEW b, NEW o, NEW B, NEW O, Reads(b, B), Reads(o, O), B \cap O = {}
  PROVE  Reads(b \o o, B \cup O)
<1> DEFINE v == b \o o
<1>1. /\ v \in Seq(Parts) /\ Len(v) = Len(b) + Len(o) /\ Len(b) \in Nat /\ Len(o) \in Nat
      /\ \A i \in 1 .. Len(b) + Len(o) : v[i] = IF i <= Len(b) THEN b[i] ELSE o[i - Len(b)]
  BY Joined DEF Reads
<1> HIDE DEF v
<1>2. \A i \in 1 .. Len(v) :
        \/ i \in 1 .. Len(b) /\ v[i] = b[i] /\ v[i].in \in B
        \/ i - Len(b) \in 1 .. Len(o) /\ v[i] = o[i - Len(b)] /\ v[i].in \in O
  BY <1>1 DEF Reads
<1>3. OneReader(v)
  <2> SUFFICES ASSUME NEW i \in 1 .. Len(v), NEW j \in 1 .. Len(v), v[i].in = v[j].in
               PROVE  i = j
    BY DEF OneReader
  <2>1. CASE i \in 1 .. Len(b) /\ v[i] = b[i] /\ j \in 1 .. Len(b) /\ v[j] = b[j]
    BY <2>1 DEF Reads, OneReader
  <2>2. CASE /\ i - Len(b) \in 1 .. Len(o) /\ v[i] = o[i - Len(b)]
             /\ j - Len(b) \in 1 .. Len(o) /\ v[j] = o[j - Len(b)]
    <3>1. i - Len(b) = j - Len(b)
      BY <2>2 DEF Reads, OneReader
    <3> QED
      BY <1>1, <3>1
  <2> QED
    BY <1>2, <2>1, <2>2
<1> QED
  BY <1>1, <1>2, <1>3 DEF Reads, v

(* A pipeline that begins with the driver and ends with a sink.            *)
IsChain(v) ==
  /\ Len(v) >= 2
  /\ v[1] = [name |-> "rtlDriver", in |-> "none"]
  /\ \A i \in 2 .. Len(v) :
       /\ v[i].in = v[i - 1].name
       /\ v[i].name \in SinkNames <=> i = Len(v)

LEMMA JoinedChain ==
  ASSUME NEW b \in Seq(Parts), NEW o \in Seq(Parts), Len(b) >= 1, Len(o) >= 1,
         b[1] = [name |-> "rtlDriver", in |-> "none"],
         Follows(b, "none"), Sinkless(b), Follows(o, b[Len(b)].name), Ending(o)
  PROVE  IsChain(b \o o)
<1> DEFINE v == b \o o
<1>1. /\ Len(v) = Len(b) + Len(o) /\ Len(b) \in Nat /\ Len(o) \in Nat
      /\ \A i \in 1 .. Len(b) + Len(o) : v[i] = IF i <= Len(b) THEN b[i] ELSE o[i - Len(b)]
  BY Joined
<1> HIDE DEF v
<1>2. ASSUME NEW i \in 2 .. Len(v)
      PROVE  v[i].in = v[i - 1].name /\ (v[i].name \in SinkNames <=> i = Len(v))
  <2>1. CASE i <= Len(b)
    <3>1. i \in 1 .. Len(b) /\ i # 1 /\ i # Len(v) /\ v[i] = b[i] /\ v[i - 1] = b[i - 1]
      BY <1>1, <2>1
    <3> QED
      BY <3>1 DEF Follows, Sinkless
  <2>2. CASE i > Len(b)
    <3> DEFINE j == i - Len(b)
    <3>1. j \in 1 .. Len(o) /\ v[i] = o[j] /\ (i = Len(v) <=> j = Len(o))
      BY <1>1, <2>2
    <3>2. j = 1 => v[i - 1] = b[Len(b)]
      <4> SUFFICES ASSUME j = 1 PROVE v[i - 1] = b[Len(b)]
        OBVIOUS
      <4>1. i - 1 \in 1 .. Len(b) + Len(o) /\ i - 1 = Len(b)
        BY <1>1
      <4> QED
        BY <1>1, <4>1
    <3>3. j # 1 => v[i - 1] = o[j - 1]
      <4> SUFFICES ASSUME j # 1 PROVE v[i - 1] = o[j - 1]
        OBVIOUS
      <4>1. i - 1 \in 1 .. Len(b) + Len(o) /\ ~ (i - 1 <= Len(b)) /\ i - 1 - Len(b) = j - 1
        BY <1>1, <2>2
      <4> QED
        BY <1>1, <4>1
    <3> HIDE DEF j
    <3> QED
      BY <3>1, <3>2, <3>3 DEF Follows, Ending
  <2> QED
    BY <1>1, <2>1, <2>2
<1>3. v[1] = [name |-> "rtlDriver", in |-> "none"] /\ Len(v) >= 2
  BY <1>1
<1> QED
  BY <1>2, <1>3 DEF IsChain, v

(* The pieces of main().                                                   *)
LEMMA BlocksRead ==
  ASSUME mPipeline \in {"PSD", "IQ", "DEC", "other"}
  PROVE  /\ mPipeline = "PSD" =>
              Reads(Blocks, {"none", "rtlDriver", "rdcBlock", "winBlock", "fftBlock"})
         /\ mPipeline = "DEC" => Reads(Blocks, {"none", "rtlDriver2", "rtlDriver"})
         /\ mPipeline \in {"IQ", "other"} => Reads(Blocks, {"none"})
         /\ mPipeline \in {"PSD", "IQ"} =>
              /\ Len(Blocks) >= 1 /\ Blocks[1] = [name |-> "rtlDriver", in |-> "none"]
              /\ Follows(Blocks, "none") /\ Sinkless(Blocks)
              /\ Blocks[Len(Blocks)].name = IF mPipeline = "PSD" THEN "avgBlock" ELSE "rtlDriver"
<1>1. CASE mPipeline = "PSD"
  <2> DEFINE v == Chain(<<"rtlDriver", "rdcBlock", "winBlock", "fftBlock", "avgBlock">>, "none")
  <2>1. /\ Len(v) = 5 /\ v \in Seq(Parts)
        /\ v[1] = [name |-> "rtlDriver", in |-> "none"]
        /\ v[2] = [name |-> "rdcBlock", in |-> "rtlDriver"]
        /\ v[3] = [name |-> "winBlock", in |-> "rdcBlock"]
        /\ v[4] = [name |-> "fftBlock", in |-> "winBlock"]
        /\ v[5] = [name |-> "avgBlock", in |-> "fftBlock"]
    BY DEF Chain, Parts, Names
  <2>2. Blocks = v
    BY <1>1 DEF Blocks
  <2> HIDE DEF v
  <2>3. Reads(v, {"none", "rtlDriver", "rdcBlock", "winBlock", "fftBlock"})
    BY <2>1 DEF Reads, OneReader
  <2>4. Follows(v, "none") /\ Sinkless(v)
    BY <2>1 DEF Follows, Sinkless, SinkNames
  <2>5. Len(v) >= 1 /\ v[Len(v)].name = "avgBlock"
    BY <2>1
  <2> QED
    BY <1>1, <2>1, <2>2, <2>3, <2>4, <2>5
<1>2. CASE mPipeline \in {"IQ", "other"}
  <2> DEFINE v == Chain(<<"rtlDriver">>, "none")
  <2>1. Len(v) = 1 /\ v \in Seq(Parts) /\ v[1] = [name |-> "rtlDriver", in |-> "none"]
    BY DEF Chain, Parts, Names
  <2>2. Blocks = v
    BY <1>2 DEF Blocks
  <2> HIDE DEF v
  <2>3. Reads(v, {"none"}) /\ Follows(v, "none") /\ Sinkless(v)
    BY <2>1 DEF Reads, OneReader, Follows, Sinkless, SinkNames
  <2>4. Len(v) >= 1 /\ v[Len(v)].name = "rtlDriver"
    BY <2>1
  <2> QED
    BY <1>2, <2>1, <2>2, <2>3, <2>4
<1>3. CASE mPipeline = "DEC"
  <2> DEFINE u == Chain(<<"rtlDriver">>, "none")
             v == Chain(<<"psdfastBlock">>, "rtlDriver2")
             w == Chain(<<"iqStream">>, "rtlDriver")
  <2>1. /\ u \in Seq(Parts) /\ Len(u) = 1 /\ u[1].in = "none"
        /\ v \in Seq(Parts) /\ Len(v) = 1 /\ v[1].in = "rtlDriver2"
        /\ w \in Seq(Parts) /\ Len(w) = 1 /\ w[1].in = "rtlDriver"
    BY DEF Chain, Parts, Names
  <2>2. Blocks = (u \o v) \o w
    BY <1>3 DEF Blocks
  <2> HIDE DEF u, v, w
  <2>3. Reads(u, {"none"}) /\ Reads(v, {"rtlDriver2"}) /\ Reads(w, {"rtlDriver"})
    BY <2>1 DEF Reads, OneReader
  <2>4. Reads(u \o v, {"none"} \cup {"rtlDriver2"})
    BY <2>3, JoinedReads
  <2>5. Reads((u \o v) \o w, ({"none"} \cup {"rtlDriver2"}) \cup {"rtlDriver"})
    BY <2>3, <2>4, JoinedReads
  <2>6. ({"none"} \cup {"rtlDriver2"}) \cup {"rtlDriver"} = {"none", "rtlDriver2", "rtlDriver"}
    OBVIOUS
  <2> QED
    BY <1>3, <2>2, <2>5, <2>6
<1> QED
  BY <1>1, <1>2, <1>3

LEMMA OutputsRead ==
  ASSUME mPipeline \in {"PSD", "IQ", "DEC", "other"}, mOutputType \in {"BYTE", "FLOAT"}
  PROVE  /\ mPipeline = "PSD" => Reads(Outputs, {"avgBlock", "avroBlock"})
         /\ mPipeline = "IQ" => Reads(Outputs, {"rtlDriver", "rdcRTLBlock", "avroBlock"})
         /\ mPipeline \in {"DEC", "other"} => Reads(Outputs, {"avroBlock"})
         /\ mPipeline \in {"PSD", "IQ"} /\ Sunk =>
              /\ Len(Outputs) >= 1 /\ Ending(Outputs)
              /\ Follows(Outputs, IF mPipeline = "PSD" THEN "avgBlock" ELSE "rtlDriver")
<1> USE DEF Reads, OneReader, Follows, Ending, SinkNames
<1>0. \A ins : Reads(<<>>, ins)
  OBVIOUS
<1>1. ASSUME NEW a \in Names, NEW from \in Names
      PROVE  LET v == Chain(<<a>>, from)
             IN  /\ Reads(v, {from}) /\ Len(v) = 1 /\ Follows(v, from)
                 /\ a \in SinkNames => Ending(v)
  BY DEF Chain, Parts
<1>2. ASSUME NEW a \in Names, NEW b \in Names, NEW from \in Names
      PROVE  LET v == Chain(<<a, b>>, from)
             IN  /\ from # a => Reads(v, {from, a})
                 /\ Len(v) = 2 /\ Follows(v, from)
                 /\ a \notin SinkNames /\ b \in SinkNames => Ending(v)
  BY DEF Chain, Parts
<1>3. LET v == Chain(<<"rdcRTLBlock", "avroBlock", "transBlock">>, "rtlDriver")
      IN  /\ Reads(v, {"rtlDriver", "rdcRTLBlock", "avroBlock"})
          /\ Len(v) = 3 /\ Follows(v, "rtlDriver") /\ Ending(v)
  BY DEF Chain, Parts, Names
<1> HIDE DEF Reads, OneReader, Follows, Ending, SinkNames
<1>4. ASSUME NEW v, NEW ins, NEW more, Reads(v, ins), ins \subseteq more PROVE Reads(v, more)
  BY <1>4 DEF Reads
<1>5. CASE mPipeline = "PSD"
  <2>1. /\ ToServer = Chain(<<"avroBlock", "transBlock">>, "avgBlock")
        /\ ToFile = Chain(<<"fileSink">>, "avgBlock")
    BY <1>5 DEF ToServer, ToFile
  <2>2. /\ Reads(ToServer, {"avgBlock", "avroBlock"}) /\ Len(ToServer) = 2
        /\ Follows(ToServer, "avgBlock") /\ Ending(ToServer)
    BY <2>1, <1>2 DEF Names, SinkNames
  <2>3. /\ Reads(ToFile, {"avgBlock"}) /\ Len(ToFile) = 1
        /\ Follows(ToFile, "avgBlock") /\ Ending(ToFile)
    BY <2>1, <1>1 DEF Names, SinkNames
  <2>4. Reads(ToFile, {"avgBlock", "avroBlock"})
    BY <2>3, <1>4
  <2> QED
    BY <1>0, <1>5, <2>2, <2>3, <2>4 DEF Outputs, Sunk
<1>6. CASE mPipeline = "IQ"
  <2>1. ToServer = Chain(<<"rdcRTLBlock", "avroBlock", "transBlock">>, "rtlDriver")
    BY <1>6 DEF ToServer
  <2>2. \/ ToFile = Chain(<<"iqSink">>, "rtlDriver")
        \/ ToFile = Chain(<<"rdcRTLBlock", "iqSink">>, "rtlDriver")
    BY <1>6 DEF ToFile
  <2>3. /\ Reads(ToServer, {"rtlDriver", "rdcRTLBlock", "avroBlock"})
        /\ Len(ToServer) = 3 /\ Follows(ToServer, "rtlDriver") /\ Ending(ToServer)
    BY <2>1, <1>3
  <2> DEFINE v == Chain(<<"iqSink">>, "rtlDriver")
             w == Chain(<<"rdcRTLBlock", "iqSink">>, "rtlDriver")
  <2>4. Reads(v, {"rtlDriver"}) /\ Len(v) = 1 /\ Follows(v, "rtlDriver") /\ Ending(v)
    BY <1>1 DEF Names, SinkNames
  <2>5. Reads(w, {"rtlDriver", "rdcRTLBlock"}) /\ Len(w) = 2 /\ Follows(w, "rtlDriver") /\ Ending(w)
    BY <1>2 DEF Names, SinkNames
  <2> HIDE DEF v, w
  <2>6. /\ Reads(ToFile, {"rtlDriver", "rdcRTLBlock", "avroBlock"})
        /\ Len(ToFile) >= 1 /\ Follows(ToFile, "rtlDriver") /\ Ending(ToFile)
    BY <2>2, <2>4, <2>5, <1>4 DEF v, w
  <2>7. Outputs \in {ToServer, ToFile, <<>>} /\ (Sunk => Outputs \in {ToServer, ToFile})
    BY DEF Outputs, Sunk
  <2>8. Reads(Outputs, {"rtlDriver", "rdcRTLBlock", "avroBlock"})
    BY <1>0, <2>3, <2>6, <2>7
  <2>9. Sunk => Len(Outputs) >= 1 /\ Follows(Outputs, "rtlDriver") /\ Ending(Outputs)
    BY <2>3, <2>6, <2>7
  <2> QED
    BY <1>6, <2>8, <2>9
<1>7. CASE mPipeline \in {"DEC", "other"}
  <2>1. ToServer = Chain(<<"transBlock">>, "avroBlock") /\ ToFile = <<>>
    BY <1>7 DEF ToServer, ToFile
  <2>2. Reads(ToServer, {"avroBlock"}) /\ Reads(ToFile, {"avroBlock"})
    BY <2>1, <1>0, <1>1 DEF Names
  <2> QED
    BY <1>0, <1>7, <2>2 DEF Outputs
<1> QED
  BY <1>5, <1>6, <1>7

(* No queue has two readers, and a PSD or IQ pipeline with somewhere to    *)
(* write to is the chain that Pipeline assumes, with at most one           *)
(* averaging component, whatever the options were (main()).                *)
THEOREM AllWired == Spec => []Wired
<1>1. WiredInv => Wired
  <2> SUFFICES ASSUME WiredInv, Started PROVE Wired
    BY DEF Wired
  <2> DEFINE b == Blocks  o == Outputs
  <2>1. vComponents = b \o o
    BY DEF WiredInv
  <2> HIDE DEF b, o
  <2>2. OneReader(b \o o)
    <3>1. CASE mPipeline = "PSD"
      <4>1. /\ Reads(b, {"none", "rtlDriver", "rdcBlock", "winBlock", "fftBlock"})
            /\ Reads(o, {"avgBlock", "avroBlock"})
        BY <3>1, BlocksRead, OutputsRead DEF WiredInv, b, o
      <4>2. {"none", "rtlDriver", "rdcBlock", "winBlock", "fftBlock"}
              \cap {"avgBlock", "avroBlock"} = {}
        OBVIOUS
      <4>3. Reads(b \o o, {"none", "rtlDriver", "rdcBlock", "winBlock", "fftBlock"}
                              \cup {"avgBlock", "avroBlock"})
        BY <4>1, <4>2, JoinedReads
      <4> QED
        BY <4>3 DEF Reads
    <3>2. CASE mPipeline = "IQ"
      <4>1. Reads(b, {"none"}) /\ Reads(o, {"rtlDriver", "rdcRTLBlock", "avroBlock"})
        BY <3>2, BlocksRead, OutputsRead DEF WiredInv, b, o
      <4>2. {"none"} \cap {"rtlDriver", "rdcRTLBlock", "avroBlock"} = {}
        OBVIOUS
      <4>3. Reads(b \o o, {"none"} \cup {"rtlDriver", "rdcRTLBlock", "avroBlock"})
        BY <4>1, <4>2, JoinedReads
      <4> QED
        BY <4>3 DEF Reads
    <3>3. CASE mPipeline = "DEC"
      <4>1. Reads(b, {"none", "rtlDriver2", "rtlDriver"}) /\ Reads(o, {"avroBlock"})
        BY <3>3, BlocksRead, OutputsRead DEF WiredInv, b, o
      <4>2. {"none", "rtlDriver2", "rtlDriver"} \cap {"avroBlock"} = {}
        OBVIOUS
      <4>3. Reads(b \o o, {"none", "rtlDriver2", "rtlDriver"} \cup {"avroBlock"})
        BY <4>1, <4>2, JoinedReads
      <4> QED
        BY <4>3 DEF Reads
    <3>4. CASE mPipeline = "other"
      <4>1. Reads(b, {"none"}) /\ Reads(o, {"avroBlock"})
        BY <3>4, BlocksRead, OutputsRead DEF WiredInv, b, o
      <4>2. {"none"} \cap {"avroBlock"} = {}
        OBVIOUS
      <4>3. Reads(b \o o, {"none"} \cup {"avroBlock"})
        BY <4>1, <4>2, JoinedReads
      <4> QED
        BY <4>3 DEF Reads
    <3> QED
      BY <3>1, <3>2, <3>3, <3>4 DEF WiredInv
  <2>3. ASSUME mPipeline \in {"PSD", "IQ"}, Sunk PROVE IsChain(b \o o)
    <3>1. b \in Seq(Parts) /\ o \in Seq(Parts)
      BY <2>3, BlocksRead, OutputsRead DEF WiredInv, Reads, b, o
    <3>2. /\ Len(b) >= 1 /\ Len(o) >= 1 /\ b[1] = [name |-> "rtlDriver", in |-> "none"]
          /\ Follows(b, "none") /\ Sinkless(b) /\ Follows(o, b[Len(b)].name) /\ Ending(o)
      BY <2>3, BlocksRead, OutputsRead DEF WiredInv, b, o
    <3> QED
      BY <3>1, <3>2, JoinedChain
  <2>4. ASSUME mPipeline \in {"PSD", "IQ"}, Sunk,
               NEW i \in 1 .. Len(b \o o), (b \o o)[i].name = "avgBlock"
        PROVE  i + 1 \in 1 .. Len(b \o o) /\ (b \o o)[i + 1].in = "avgBlock" /\ mPipeline = "PSD"
    <3> DEFINE v == b \o o
    <3>1. IsChain(v) /\ Len(v) \in Nat
      BY <2>3, <2>4, BlocksRead, OutputsRead, Joined DEF WiredInv, Reads, b, o
    <3> HIDE DEF v
    <3>2. i \in 1 .. Len(v) /\ v[i].name = "avgBlock"
      BY <2>4 DEF v
    <3>3. i # Len(v)
      <4>1. i # 1
        BY <3>1, <3>2 DEF IsChain
      <4>2. i \in 2 .. Len(v)
        BY <3>1, <3>2, <4>1
      <4> QED
        BY <3>1, <3>2, <4>2 DEF IsChain, SinkNames
    <3>4. i + 1 \in 2 .. Len(v) /\ i + 1 - 1 = i
      BY <3>1, <3>2, <3>3
    <3>5. v[i + 1].in = "avgBlock"
      BY <3>1, <3>2, <3>4 DEF IsChain
    <3>6. mPipeline # "IQ"
      <4> SUFFICES ASSUME mPipeline = "IQ" PROVE FALSE
        OBVIOUS
      <4>1. Reads(b, {"none"}) /\ Reads(o, {"rtlDriver", "rdcRTLBlock", "avroBlock"})
        BY BlocksRead, OutputsRead DEF WiredInv, b, o
      <4>2. {"none"} \cap {"rtlDriver", "rdcRTLBlock", "avroBlock"} = {}
        OBVIOUS
      <4>3. Reads(v, {"none"} \cup {"rtlDriver", "rdcRTLBlock", "avroBlock"})
        BY <4>1, <4>2, JoinedReads DEF v
      <4>4. i + 1 \in 1 .. Len(v)
        BY <3>1, <3>4
      <4> QED
        BY <4>3, <4>4, <3>5 DEF Reads
    <3> QED
      BY <2>4, <3>1, <3>4, <3>5, <3>6 DEF v
  <2>5. ASSUME mPipeline \in {"PSD", "IQ"}, Sunk,
               NEW i \in 1 .. Len(b \o o), (b \o o)[i].name = "avgBlock",
               NEW j \in 1 .. Len(b \o o), (b \o o)[j].name = "avgBlock"
        PROVE  i = j
    <3>1. i + 1 = j + 1
      BY <2>2, <2>4, <2>5 DEF OneReader
    <3> QED
      BY <3>1
  <2> QED
    BY <2>1, <2>2, <2>3, <2>4, <2>5 DEF Wired, OneReader, IsChain, SinkNames
<1> QED
  BY <1>1, WiredAlways, PTL

=============================================================================
