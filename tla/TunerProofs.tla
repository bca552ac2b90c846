---------------------------- MODULE TunerProofs -----------------------------
(* That every variable of Tuner keeps its type, and that a scan goes on    *)
(* only after honest segments, for every range, step and converter.        *)
EXTENDS Tuner, TLAPS

Freqs == {mFreqs[i] : i \in Hops}

(* What TypeOK needs to be inductive: the frequency at hand, and the one   *)
(* the converter is set up for, are frequencies the converter knows.       *)
FreqInv ==
  /\ center_freq \in Freqs \cup {0}
  /\ at \in {"convert", "direct", "dongle", "read"} => center_freq \in Freqs
  /\ setup \in Freqs \cup {Bypass}

TypeInv == TypeOK /\ FreqInv

(* Nothing has been enqueued before the loop runs.                         *)
QuietInv ==
  at \in {"open", "begin"} => segment = Nothing /\ center_freq = 0 /\ previous_proxy_freq = 0

(* The next hop is not the present one.                                    *)
HopInv ==
  /\ previous_freq = center_freq
  /\ center_freq # 0 => \E i \in Hops : center_freq = mFreqs[i] /\ mIndex = Following(i)
  /\ center_freq = 0 => previous_proxy_freq = 0

(* The dongle was last sent where the present or the last hop wants it,    *)
(* and when it is about to be told it has not been sent there yet.         *)
ProxyInv ==
  mConverterEnabled =>
    /\ at \in {"test", "dongle", "read"} /\ center_freq # 0
         => previous_proxy_freq \in {0, Conversion[center_freq].proxy}
    /\ at = "convert" => previous_proxy_freq # Conversion[center_freq].proxy

(* Before the dongle is tuned, the converter is set up.                    *)
SetupInv ==
  at \in {"dongle", "read"} =>
    IF mConverterEnabled
    THEN setup = center_freq /\ mustInvert = Conversion[center_freq].invert
    ELSE ~mustInvert

(* The converter is used if there is one.  Before a read that is not the   *)
(* last, the dongle is tuned and empty.                                    *)
TunedInv ==
  /\ at = "convert" => mConverterEnabled
  /\ at = "direct" => ~mConverterEnabled /\ ~mustInvert
  /\ at = "read" /\ mRunning => dongle.freq = Target /\ fifo = {}

HonestInv ==
  /\ QuietInv /\ HopInv /\ ProxyInv /\ SetupInv /\ TunedInv
  /\ mRunning => Honest

-----------------------------------------------------------------------------
(* The scan has a first hop, its frequencies are positive and known to the *)
(* converter, and the hop after a hop is a hop.                            *)
LEMMA HopFacts ==
  /\ 1 \in Hops
  /\ Freqs \subseteq Nat \ {0}
  /\ \A f \in Freqs \cup {Bypass} : Conversion[f] \in [proxy : Nat \ {0}, invert : BOOLEAN]
  /\ \A i \in Hops : mFreqs[i] \in Freqs /\ Following(i) \in Hops
<1>1. mTotalHops \in Int
  BY TunerAssumption DEF mTotalHops
<1>2. Hops \subseteq Nat \ {0} /\ 1 \in Hops
  BY <1>1 DEF Hops
<1>3. ASSUME NEW i \in Hops PROVE mFreqs[i] \in Nat \ {0}
  <2>1. FreqStep \div 2 \in Nat \ {0}
    BY TunerAssumption
  <2>2. i - 1 \in Nat
    BY <1>2
  <2>3. \A a, b \in Nat : a * b \in Nat
    OBVIOUS
  <2>4. (i - 1) * FreqStep \in Nat
    BY <2>2, <2>3, TunerAssumption
  <2>5. mFreqs[i] = MinFreq + FreqStep \div 2 + (i - 1) * FreqStep
    BY DEF mFreqs
  <2> QED
    BY <2>1, <2>4, <2>5, TunerAssumption
<1>4. \A i \in Hops : Following(i) \in Hops
  BY <1>2 DEF Following
<1>5. \A f \in Freqs \cup {Bypass} : Conversion[f] \in [proxy : Nat \ {0}, invert : BOOLEAN]
  BY TunerAssumption DEF Freqs
<1> QED
  BY <1>2, <1>3, <1>4, <1>5 DEF Freqs

(* When every hop retunes, the next hop has another frequency, to which    *)
(* the dongle is sent elsewhere.                                           *)
LEMMA NextDiffers ==
  ASSUME EveryHopRetunes, NEW i \in Hops
  PROVE  /\ mFreqs[Following(i)] # mFreqs[i]
         /\ Conversion[mFreqs[Following(i)]].proxy # Conversion[mFreqs[i]].proxy
<1>1. mTotalHops \in Int
  BY TunerAssumption DEF mTotalHops
<1>2. Following(i) # i
  BY <1>1 DEF Following, Hops, EveryHopRetunes
<1> QED
  BY <1>2, HopFacts DEF EveryHopRetunes

-----------------------------------------------------------------------------
(* The inductive type invariant.                                           *)
LEMMA TypeAlways == Spec => []TypeInv
<1>1. Init => TypeInv
  <2> SUFFICES ASSUME Init PROVE TypeInv
    OBVIOUS
  <2>1. mIndex \in Hops /\ faults \in 0 .. MaxFaults
    BY HopFacts, TunerAssumption DEF Init
  <2>2. segment \in [freq : Nat, samples : SUBSET Samples]
    BY DEF Init, Nothing
  <2>3. dongle \in [freq : Nat, direct : BOOLEAN] /\ setup \in Nat \ {0}
    BY DEF Init, Threshold, Bypass
  <2>4. FreqInv
    BY DEF Init, FreqInv
  <2> QED
    BY <2>1, <2>2, <2>3, <2>4 DEF Init, TypeInv, TypeOK
<1>2. TypeInv /\ [Next]_vars => TypeInv'
  <2> SUFFICES ASSUME TypeInv, [Next]_vars PROVE TypeInv'
    OBVIOUS
  <2> USE DEF TypeInv, FreqInv
  <2>0. Sample \in Samples /\ (at \in {"convert", "dongle"} => Target \in Nat)
    BY HopFacts DEF TypeOK, Sample, Target, Samples
  <2>1. \A s \in SUBSET Samples : Mirrored(s) \in SUBSET Samples
    BY DEF Mirrored, Samples
  <2>F. Fault => faults' \in 0 .. MaxFaults
    BY TunerAssumption DEF Fault, TypeOK
  <2>2. CASE Open
    BY <2>2 DEF Open, TypeOK, scanVars, tuneVars, dataVars, deviceVars
  <2>3. CASE Throw
    BY <2>3, <2>F DEF Throw, TypeOK, configVars, scanVars, tuneVars, dataVars, deviceVars
  <2>4. CASE Begin
    BY <2>4 DEF Begin, TypeOK, configVars, scanVars, tuneVars, dataVars, deviceVars
  <2>5. CASE Hop
    BY <2>5, HopFacts DEF Hop, TypeOK, configVars, dataVars, deviceVars
  <2>6. CASE Convert
    BY <2>6, <2>0, HopFacts DEF Convert, TypeOK, configVars, scanVars, dataVars
  <2>7. CASE SwitchDirect
    <3>1. dongle' \in [freq : Nat, direct : BOOLEAN] /\ direct_sampling' \in BOOLEAN
      BY <2>7 DEF SwitchDirect, TypeOK
    <3> QED
      BY <2>7, <3>1 DEF SwitchDirect, TypeOK, configVars, scanVars, dataVars
  <2>8. CASE SetCenterFreq
    <3>1. dongle' \in [freq : Nat, direct : BOOLEAN]
      BY <2>8, <2>0 DEF SetCenterFreq, TypeOK
    <3>2. fifo' \in SUBSET Samples /\ mRunning' \in BOOLEAN
      BY <2>8 DEF SetCenterFreq, TypeOK
    <3>3. faults' \in 0 .. MaxFaults
      BY <2>8, <2>F DEF SetCenterFreq, TypeOK
    <3> QED
      BY <2>8, <3>1, <3>2, <3>3 DEF SetCenterFreq, TypeOK, configVars, scanVars, tuneVars, dataVars
  <2>9. CASE SetCenterFreqFails
    BY <2>9, <2>F DEF SetCenterFreqFails, TypeOK, configVars, scanVars, tuneVars, dataVars, deviceVars
  <2>10. CASE ReadSync
    <3>1. iq_buf' \in SUBSET Samples /\ fifo' \in SUBSET Samples
      BY <2>10, <2>0, <2>1 DEF ReadSync, TypeOK
    <3>2. segment' \in [freq : Nat, samples : SUBSET Samples]
      BY <2>10, <3>1 DEF ReadSync, TypeOK
    <3> QED
      BY <2>10, <3>1, <3>2 DEF ReadSync, TypeOK, configVars, scanVars, tuneVars
  <2>11. CASE ReadFails
    <3>1. iq_buf' \in SUBSET Samples
      BY <2>11, <2>0, <2>1 DEF ReadFails, TypeOK
    <3>2. segment' \in [freq : Nat, samples : SUBSET Samples]
      BY <2>11, <3>1 DEF ReadFails, TypeOK
    <3> QED
      BY <2>11, <3>1, <3>2, <2>F
      DEF ReadFails, TypeOK, configVars, scanVars, tuneVars, deviceVars
  <2>12. CASE End
    BY <2>12 DEF End, TypeOK, configVars, scanVars, tuneVars, dataVars, deviceVars
  <2>13. CASE Stop
    BY <2>13 DEF Stop, TypeOK, configVars, scanVars, tuneVars, dataVars, deviceVars
  <2>14. CASE UNCHANGED vars
    BY <2>14 DEF TypeOK, vars, configVars, scanVars, tuneVars, dataVars, deviceVars
  <2> QED
    BY <2>2, <2>3, <2>4, <2>5, <2>6, <2>7, <2>8, <2>9, <2>10, <2>11, <2>12, <2>13, <2>14
    DEF Next, Run, Over
<1> QED
  BY <1>1, <1>2, PTL DEF Spec

(* Every variable keeps its type, whatever a device does, for every range, *)
(* step and converter.                                                     *)
THEOREM TypeCorrect == Spec => []TypeOK
<1>1. TypeInv => TypeOK
  BY DEF TypeInv
<1> QED
  BY <1>1, TypeAlways, PTL

-----------------------------------------------------------------------------
(* Mirroring what the converter has mirrored sets it right.                *)
LEMMA MirrorTwice ==
  ASSUME NEW s \in Samples, s.mirrored
  PROVE  \A t \in Mirrored({s}) : t.freq = s.freq /\ ~t.mirrored
BY DEF Samples, Mirrored

(* A read from the tuned and empty dongle is honest.                       *)
LEMMA HonestRead ==
  ASSUME TypeInv, HonestInv, mRunning, ReadSync
  PROVE  Honest'
<1>1. fifo = {} /\ dongle.freq = Target /\ segment'.freq = center_freq
  BY DEF HonestInv, TunedInv, ReadSync, TypeInv, TypeOK
<1>2. Sample \in Samples /\ Sample.freq = center_freq /\ Sample.mirrored = mustInvert
  <2>1. CASE mConverterEnabled
    BY <1>1, <2>1, HopFacts DEF ReadSync, HonestInv, SetupInv, Sample, Samples, Target, TypeInv, TypeOK, FreqInv
  <2>2. CASE ~mConverterEnabled
    BY <1>1, <2>2 DEF ReadSync, HonestInv, SetupInv, Sample, Samples, Target, TypeInv, TypeOK
  <2> QED
    BY <2>1, <2>2
<1>3. segment'.samples = IF mustInvert THEN Mirrored({Sample}) ELSE {Sample}
  BY <1>1 DEF ReadSync
<1>4. CASE mustInvert
  BY <1>1, <1>2, <1>3, <1>4, MirrorTwice DEF Honest
<1>5. CASE ~mustInvert
  BY <1>1, <1>2, <1>3, <1>5 DEF Honest
<1> QED
  BY <1>4, <1>5

(* The inductive invariant of a scan whose every hop retunes.              *)
LEMMA HonestAlways ==
  ASSUME EveryHopRetunes
  PROVE  Spec => []HonestInv
<1>1. Init => HonestInv
  BY DEF Init, Nothing, Honest, HonestInv, QuietInv, HopInv, ProxyInv, SetupInv, TunedInv
<1>2. TypeInv /\ HonestInv /\ [Next]_vars => HonestInv'
  <2> SUFFICES ASSUME TypeInv, HonestInv, [Next]_vars PROVE HonestInv'
    OBVIOUS
  <2> USE DEF HonestInv, QuietInv, HopInv, ProxyInv, SetupInv, TunedInv
  <2>2. CASE Open
    BY <2>2 DEF Open, Honest, scanVars, tuneVars, dataVars, deviceVars
  <2>3. CASE Throw
    BY <2>3 DEF Throw, Honest, TypeInv, TypeOK, configVars, scanVars, tuneVars, dataVars, deviceVars
  <2>4. CASE Begin
    BY <2>4 DEF Begin, Honest, Nothing, configVars, scanVars, tuneVars, dataVars, deviceVars
  <2>5. CASE Hop
    <3> USE <2>5 DEF Hop
    <3>1. center_freq' \in Freqs /\ center_freq' \in Nat \ {0}
      BY HopFacts DEF TypeInv, TypeOK
    <3>2. HopInv'
      BY <3>1 DEF TypeInv, TypeOK
    <3>3. center_freq # 0 => /\ center_freq' # center_freq
                             /\ Conversion[center_freq'].proxy # Conversion[center_freq].proxy
      BY NextDiffers
    <3>4. at' # "read"
      BY <3>1, <3>3
    <3>5. ProxyInv'
      <4>1. Conversion[center_freq'].proxy # 0
        BY <3>1, HopFacts
      <4> QED
        BY <3>3, <3>4, <4>1 DEF configVars
    <3>6. QuietInv' /\ SetupInv' /\ TunedInv'
      BY <3>4 DEF configVars
    <3>7. (mRunning => Honest)'
      BY DEF Honest, dataVars
    <3> QED
      BY <3>2, <3>5, <3>6, <3>7
  <2>6. CASE Convert
    <3> USE <2>6 DEF Convert
    <3>1. mConverterEnabled
      OBVIOUS
    <3>2. at' = "dongle"
      BY <3>1 DEF Target
    <3> QED
      <4>1. previous_proxy_freq' = Conversion[center_freq].proxy
        BY <3>1 DEF Target
      <4>2. HopInv' /\ QuietInv' /\ SetupInv' /\ TunedInv'
        BY <3>1, <3>2, HopFacts DEF configVars, scanVars, dataVars, TypeInv, FreqInv
      <4>3. ProxyInv' /\ (mRunning => Honest)'
        BY <3>1, <3>2, <4>1 DEF Honest, configVars, scanVars, dataVars
      <4> QED
        BY <4>2, <4>3
  <2>7. CASE SwitchDirect
    BY <2>7 DEF SwitchDirect, Honest, configVars, scanVars, dataVars
  <2>8. CASE SetCenterFreq
    <3>1. TunedInv'
      BY <2>8 DEF SetCenterFreq, Target, configVars, scanVars, TypeInv, TypeOK
    <3>2. (mRunning => Honest)'
      BY <2>8 DEF SetCenterFreq, Honest, dataVars
    <3> QED
      BY <2>8, <3>1, <3>2 DEF SetCenterFreq, configVars, scanVars, tuneVars
  <2>9. CASE SetCenterFreqFails
    BY <2>9 DEF SetCenterFreqFails, Honest, configVars, scanVars, tuneVars, dataVars, deviceVars
  <2>10. CASE ReadSync
    <3>1. (mRunning => Honest)'
      BY <2>10, HonestRead DEF ReadSync
    <3> QED
      BY <2>10, <3>1 DEF ReadSync, configVars, scanVars, tuneVars
  <2>11. CASE ReadFails
    BY <2>11 DEF ReadFails, configVars, scanVars, tuneVars
  <2>12. CASE End
    BY <2>12 DEF End, Honest, configVars, scanVars, tuneVars, dataVars, deviceVars
  <2>13. CASE Stop
    BY <2>13 DEF Stop, Honest, configVars, scanVars, tuneVars, dataVars, deviceVars
  <2>14. CASE UNCHANGED vars
    BY <2>14 DEF Honest, Target, vars, configVars, scanVars, tuneVars, dataVars, deviceVars
  <2> QED
    BY <2>2, <2>3, <2>4, <2>5, <2>6, <2>7, <2>8, <2>9, <2>10, <2>11, <2>12, <2>13, <2>14
    DEF Next, Run, Over
<1> QED
  BY <1>1, <1>2, TypeAlways, PTL DEF Spec

(* A scan whose every hop retunes goes on only after honest segments,      *)
(* whatever calls to the devices fail and whenever it is stopped.          *)
THEOREM HonestScan == Spec => []HonestWhileRunning
<1>1. CASE EveryHopRetunes
  <2>1. HonestInv => HonestWhileRunning
    BY DEF HonestInv, HonestWhileRunning
  <2>2. Spec => []HonestInv
    BY <1>1, HonestAlways
  <2> QED
    BY <2>1, <2>2, PTL
<1>2. CASE ~EveryHopRetunes
  <2>1. TypeInv => HonestWhileRunning
    BY <1>2 DEF HonestWhileRunning
  <2> QED
    BY <2>1, TypeAlways, PTL
<1> QED
  BY <1>1, <1>2

-----------------------------------------------------------------------------
(* What the loop believes of direct sampling: when it has left it, so has  *)
(* the dongle, and a frequency it has dealt with is in the mode it wants.  *)
DirectInv ==
  /\ ~direct_sampling => ~dongle.direct
  /\ mode > 0 => ~mConverterEnabled
  /\ at \in {"open", "begin"} => center_freq = 0
  /\ previous_freq = center_freq
  /\ at = "convert" => mConverterEnabled
  /\ mode > 0 /\ center_freq # 0 /\ at \in {"test", "dongle", "read"}
       => (direct_sampling <=> center_freq < Threshold)

(* It is right about the dongle.                                           *)
Right == direct_sampling = dongle.direct

ReadInMode == at = "read" /\ mode > 0 => (dongle.direct <=> center_freq < Threshold)

(* Every step keeps DirectInv, and what the loop believes stays right.     *)
LEMMA DirectStep ==
  ASSUME TypeInv, DirectInv, [Next]_vars
  PROVE  DirectInv' /\ (Right => Right')
<1> USE DEF DirectInv, Right
<1>1. CASE Open
  BY <1>1 DEF Open, scanVars, tuneVars, deviceVars
<1>2. CASE Throw
  BY <1>2 DEF Throw, configVars, scanVars, tuneVars, deviceVars
<1>3. CASE Begin
  BY <1>3 DEF Begin, configVars, scanVars, tuneVars, deviceVars
<1>4. CASE Hop
  BY <1>4, HopFacts DEF Hop, configVars, deviceVars, TypeInv, TypeOK
<1>5. CASE Convert
  BY <1>5 DEF Convert, configVars, scanVars
<1>6. CASE SwitchDirect
  <2> USE DEF SwitchDirect
  <2>1. UNCHANGED <<mode, mConverterEnabled, center_freq, previous_freq>> /\ at' = "dongle"
    BY <1>6 DEF configVars, scanVars
  <2>2. center_freq >= Threshold <=> ~(center_freq < Threshold)
    BY DEF TypeInv, TypeOK, Threshold
  <2>3. CASE direct_sampling' = FALSE /\ dongle' = [dongle EXCEPT !.direct = FALSE] /\ center_freq >= Threshold
    BY <2>1, <2>2, <2>3 DEF TypeInv, TypeOK
  <2>4. CASE direct_sampling' = TRUE /\ dongle' = [dongle EXCEPT !.direct = TRUE] /\ center_freq < Threshold
    BY <2>1, <2>2, <2>4 DEF TypeInv, TypeOK
  <2>5. CASE (mode > 0 => (center_freq < Threshold <=> direct_sampling)) /\ UNCHANGED <<dongle, direct_sampling>>
    BY <2>1, <2>5
  <2> QED
    BY <1>6, <2>3, <2>4, <2>5
<1>7. CASE SetCenterFreq
  BY <1>7 DEF SetCenterFreq, configVars, scanVars, tuneVars, TypeInv, TypeOK
<1>8. CASE SetCenterFreqFails \/ ReadSync \/ ReadFails \/ End \/ Stop \/ UNCHANGED vars
  BY <1>8 DEF SetCenterFreqFails, ReadSync, ReadFails, End, Stop, vars, configVars, scanVars,
     tuneVars, deviceVars
<1> QED
  BY <1>1, <1>2, <1>3, <1>4, <1>5, <1>6, <1>7, <1>8 DEF Next, Run, Over

(* A loop that has left direct sampling reads, from then on, in the mode   *)
(* that the frequency calls for.                                           *)
THEOREM DirectFollows == Spec => DirectOnceLeft
<1>1. Init => DirectInv
  BY DEF Init, DirectInv
<1>2. TypeInv /\ DirectInv /\ [Next]_vars => DirectInv' /\ (Right => Right')
  BY DirectStep
<1>3. TypeInv /\ DirectInv /\ ~direct_sampling => Right
  BY DEF DirectInv, Right, TypeInv, TypeOK
<1>4. TypeInv /\ DirectInv /\ Right => ReadInMode
  BY HopFacts DEF DirectInv, Right, ReadInMode, TypeInv, TypeOK, FreqInv
<1>5. DirectOnceLeft <=> [](~direct_sampling => []ReadInMode)
  BY DEF DirectOnceLeft, ReadInMode
<1> QED
  BY <1>1, <1>2, <1>3, <1>4, <1>5, TypeAlways, PTL DEF Spec

=============================================================================
