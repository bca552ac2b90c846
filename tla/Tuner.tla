------------------------------- MODULE Tuner --------------------------------
(***************************************************************************)
(* The scan of the PSD pipeline: rtlsdrDriver::open() and SyncSampling(),  *)
(* the hops of SequentialHopping, and the optional down-converter.  The    *)
(* loop remembers what it has last told the device (previous_freq,         *)
(* previous_proxy_freq, direct_sampling) so as not to say it twice, and    *)
(* the question is whether a segment is what its label says when a call to *)
(* the device fails.                                                       *)
(*                                                                         *)
(* Frequencies are in MHz.  The dongle and the converter are external:     *)
(* what is received is what they are set to, and samples taken before the  *)
(* last change stay in the dongle until its buffer is reset.               *)
(***************************************************************************)
EXTENDS Integers, Sequences

CONSTANTS
  MinFreq, MaxFreq,  \* the positional arguments of es_sensor
  FreqStep,          \* (1 - freq_overlap) * samp_rate, truncated
  Conversion,        \* what the converter does with a frequency
  MaxFaults          \* how many calls to a device fail (BOUND)

VARIABLES
  at,               \* where rtlsdrDriver is
  mRunning,
  mConverterEnabled,
  mode,             \* ElectrosenseContext::mDirectSamplingMode
  mIndex,
  center_freq, previous_freq, previous_proxy_freq,
  mustInvert,
  direct_sampling,
  iq_buf,           \* the samples it holds
  segment,          \* the last one enqueued
  \* -- the devices
  dongle,           \* its frequency, and whether it is in direct sampling
  setup,            \* the frequency the converter was last set up for
  fifo,             \* samples the dongle has not delivered yet
  faults

scanVars == <<mIndex, center_freq, previous_freq>>
tuneVars == <<previous_proxy_freq, mustInvert, direct_sampling>>
configVars == <<mConverterEnabled, mode>>
dataVars == <<iq_buf, segment>>
deviceVars == <<dongle, setup, fifo>>
vars == <<at, mRunning, configVars, scanVars, tuneVars, dataVars, deviceVars, faults>>

-----------------------------------------------------------------------------
(* SequentialHopping: at least one hop, whatever mTotalHops is.            *)
mTotalHops == (MaxFreq - MinFreq + 1) \div FreqStep
Hops == 1 .. (IF mTotalHops > 1 THEN mTotalHops ELSE 1)
mFreqs == [i \in Hops |-> MinFreq + FreqStep \div 2 + (i - 1) * FreqStep]

(* Fault of the next definition: mIndex >= mFreqs.size() - 1.              *)
FaultShortRound(i) == IF i + 2 \in Hops THEN i + 1 ELSE 1

(* nextHop(): the index of the hop after this one.                         *)
Following(i) == IF i + 1 \in Hops THEN i + 1 ELSE 1

Threshold == 24        \* direct sampling is for what lies below
Bypass == 100          \* converterInit

(* main() refuses an empty range.  A frequency is never 0, which stands for *)
(* "none yet" in the loop.                                                 *)
ASSUME TunerAssumption ==
  /\ MinFreq \in Nat /\ MaxFreq \in Nat /\ MinFreq < MaxFreq
  /\ FreqStep \in Nat /\ FreqStep >= 2
  /\ \A f \in {mFreqs[i] : i \in Hops} \cup {Bypass} :
       Conversion[f] \in [proxy : Nat \ {0}, invert : BOOLEAN]
  /\ MaxFaults \in Nat

(* What the dongle is to be set to.                                        *)
Target == IF mConverterEnabled THEN Conversion[center_freq].proxy ELSE center_freq

(* What the samples taken now are: the frequency, 0 when it is none of     *)
(* those asked for, and whether their spectrum is mirrored.                *)
Sample ==
  IF mConverterEnabled
  THEN [freq |-> IF dongle.freq = Conversion[setup].proxy THEN setup ELSE 0,
        mirrored |-> Conversion[setup].invert, direct |-> dongle.direct]
  ELSE [freq |-> dongle.freq, mirrored |-> FALSE, direct |-> dongle.direct]

Nothing == [freq |-> 0, samples |-> {}]

Mirrored(samples) == {[s EXCEPT !.mirrored = ~s.mirrored] : s \in samples}

Fault == faults < MaxFaults /\ faults' = faults + 1

-----------------------------------------------------------------------------
(* Faults: what some of the definitions below would be if the code had a   *)
(* plausible mistake in it.  No specification uses them.                   *)

(* A failed rtlsdr_set_center_freq is reported, and the read goes on.      *)
FaultReadOn ==
  /\ at = "dongle"
  /\ Fault
  /\ at' = "read"
  /\ UNCHANGED <<mRunning, configVars, scanVars, tuneVars, dataVars, deviceVars>>

(* The loop does not note that it has entered direct sampling.             *)
FaultSwitchForgets ==
  /\ at = "direct"
  /\ LET leave == mode > 0 /\ center_freq >= Threshold /\ direct_sampling
         enter == mode > 0 /\ center_freq < Threshold /\ ~direct_sampling
     IN /\ dongle' = [dongle EXCEPT !.direct = (@ \/ enter) /\ ~leave]
        /\ direct_sampling' = (direct_sampling /\ ~leave)
  /\ at' = "dongle"
  /\ UNCHANGED <<mRunning, configVars, scanVars, previous_proxy_freq, mustInvert, dataVars,
                 setup, fifo, faults>>

-----------------------------------------------------------------------------
Init ==
  /\ at = "open"
  /\ mRunning \in BOOLEAN
  /\ mConverterEnabled = FALSE
  /\ mode = 0
  /\ mIndex = 1
  /\ center_freq = 0 /\ previous_freq = 0 /\ previous_proxy_freq = 0
  /\ mustInvert = FALSE
  /\ direct_sampling = TRUE
  /\ iq_buf = {}
  /\ segment = Nothing
  /\ dongle = [freq |-> Threshold, direct |-> FALSE]
  /\ setup = Bypass
  /\ fifo = {}
  /\ faults = 0

(* open() sets the dongle up with the mode of the context, which is still  *)
(* the default 0, looks for the converter, and then sets the mode.         *)
Open ==
  /\ at = "open"
  /\ mConverterEnabled' \in BOOLEAN
  /\ mode' = IF ~mConverterEnabled' /\ MinFreq < Threshold THEN 2 ELSE 0
  /\ at' = "begin"
  /\ UNCHANGED <<mRunning, scanVars, tuneVars, dataVars, deviceVars, faults>>

(* An exception nobody catches: in open(), when the converter does not     *)
(* answer, or when the mode or the gain cannot be set.                     *)
Throw ==
  /\ \/ at = "open"
     \/ at = "convert"
     \/ at = "direct" /\ mode > 0 /\ (center_freq >= Threshold <=> direct_sampling)
  /\ Fault
  /\ at' = "terminated"
  /\ mRunning' = (mRunning /\ at # "convert")
  /\ UNCHANGED <<configVars, scanVars, tuneVars, dataVars, deviceVars>>

Begin ==
  /\ at = "begin"
  /\ mRunning' = TRUE
  /\ at' = "test"
  /\ UNCHANGED <<configVars, scanVars, tuneVars, dataVars, deviceVars, faults>>

(* nextHop(); a frequency that was the last one asked for, too, is not     *)
(* asked for again.                                                        *)
Hop ==
  /\ at = "test" /\ mRunning
  /\ center_freq' = mFreqs[mIndex]
  /\ mIndex' = Following(mIndex)
  /\ mustInvert' = FALSE
  /\ previous_freq' = center_freq'
  /\ at' = CASE previous_freq = center_freq' -> "read"
             [] previous_freq # center_freq' /\ mConverterEnabled -> "convert"
             [] previous_freq # center_freq' /\ ~mConverterEnabled -> "direct"
  /\ UNCHANGED <<mRunning, configVars, previous_proxy_freq, direct_sampling, dataVars, deviceVars,
                 faults>>

(* converterTune(); the dongle is left alone when it is to stay where it   *)
(* was last sent.                                                          *)
Convert ==
  /\ at = "convert"
  /\ setup' = center_freq
  /\ mustInvert' = Conversion[center_freq].invert
  /\ previous_proxy_freq' = Target
  /\ at' = IF previous_proxy_freq # Target THEN "dongle" ELSE "read"
  /\ UNCHANGED <<mRunning, configVars, scanVars, direct_sampling, dataVars, dongle, fifo, faults>>

(* Leave or enter direct sampling, as the loop believes it must.           *)
SwitchDirect ==
  /\ at = "direct"
  /\ \/ /\ mode > 0 /\ center_freq >= Threshold /\ direct_sampling
        /\ dongle' = [dongle EXCEPT !.direct = FALSE]
        /\ direct_sampling' = FALSE
     \/ /\ mode > 0 /\ center_freq < Threshold /\ ~direct_sampling
        /\ dongle' = [dongle EXCEPT !.direct = TRUE]
        /\ direct_sampling' = TRUE
     \/ /\ mode > 0 => (center_freq < Threshold <=> direct_sampling)
        /\ UNCHANGED <<dongle, direct_sampling>>
  /\ at' = "dongle"
  /\ UNCHANGED <<mRunning, configVars, scanVars, previous_proxy_freq, mustInvert, dataVars,
                 setup, fifo, faults>>

(* rtlsdr_set_center_freq and rtlsdr_reset_buffer.  When the reset fails   *)
(* the loop is to end, after one more read.                                *)
SetCenterFreq ==
  /\ at = "dongle"
  /\ dongle' = [dongle EXCEPT !.freq = Target]
  /\ \/ fifo' = {} /\ UNCHANGED <<mRunning, faults>>
     \/ Fault /\ mRunning' = FALSE /\ UNCHANGED fifo
  /\ at' = "read"
  /\ UNCHANGED <<configVars, scanVars, tuneVars, dataVars, setup>>

SetCenterFreqFails ==
  /\ at = "dongle"
  /\ Fault
  /\ at' = "test"
  /\ UNCHANGED <<mRunning, configVars, scanVars, tuneVars, dataVars, deviceVars>>

(* rtlsdr_read_sync; the samples go out as AvgFactor segments, all alike.  *)
ReadSync ==
  /\ at = "read"
  /\ iq_buf' = IF mustInvert THEN Mirrored(fifo \cup {Sample}) ELSE fifo \cup {Sample}
  /\ fifo' = {Sample}
  /\ segment' = [freq |-> center_freq, samples |-> iq_buf']
  /\ at' = "test"
  /\ UNCHANGED <<mRunning, configVars, scanVars, tuneVars, dongle, setup, faults>>

(* A read that fails ends the loop, after what the buffer holds, some or   *)
(* all of it from the read before, has gone out.                           *)
ReadFails ==
  /\ at = "read"
  /\ Fault
  /\ mRunning' = FALSE
  /\ \E new \in SUBSET (fifo \cup {Sample}) :
       iq_buf' = iq_buf \cup (IF mustInvert THEN Mirrored(new) ELSE new)
  /\ segment' = [freq |-> center_freq, samples |-> iq_buf']
  /\ at' = "test"
  /\ UNCHANGED <<configVars, scanVars, tuneVars, deviceVars>>

End ==
  /\ at = "test" /\ ~mRunning
  /\ at' = "ended"
  /\ UNCHANGED <<mRunning, configVars, scanVars, tuneVars, dataVars, deviceVars, faults>>

(* stop(), once the driver has been started.                               *)
Stop ==
  /\ at \notin {"open", "terminated"} /\ mRunning
  /\ mRunning' = FALSE
  /\ UNCHANGED <<at, configVars, scanVars, tuneVars, dataVars, deviceVars, faults>>

Over == at \in {"ended", "terminated"} /\ UNCHANGED vars

Run ==
  \/ Open \/ Begin \/ Hop \/ Convert \/ SwitchDirect \/ SetCenterFreq \/ ReadSync \/ End

Next == Run \/ Throw \/ SetCenterFreqFails \/ ReadFails \/ Stop \/ Over

Spec == Init /\ [][Next]_vars

(* The thread runs, and no call to the device blocks for ever.             *)
FairSpec == Spec /\ WF_vars(Run)

-----------------------------------------------------------------------------
Samples == [freq : Nat, mirrored : BOOLEAN, direct : BOOLEAN]

TypeOK ==
  /\ at \in {"open", "begin", "test", "convert", "direct", "dongle", "read", "ended", "terminated"}
  /\ mRunning \in BOOLEAN
  /\ mConverterEnabled \in BOOLEAN
  /\ mode \in {0, 2}
  /\ mIndex \in Hops
  /\ center_freq \in Nat
  /\ previous_freq \in Nat
  /\ previous_proxy_freq \in Nat
  /\ mustInvert \in BOOLEAN
  /\ direct_sampling \in BOOLEAN
  /\ iq_buf \in SUBSET Samples
  /\ segment \in [freq : Nat, samples : SUBSET Samples]
  /\ dongle \in [freq : Nat, direct : BOOLEAN]
  /\ setup \in Nat \ {0}
  /\ fifo \in SUBSET Samples
  /\ faults \in 0 .. MaxFaults

(* The scan has several hops, and the converter leads them to different    *)
(* frequencies of the dongle: only then does every hop retune the dongle.  *)
EveryHopRetunes ==
  /\ mTotalHops > 1
  /\ \A i, j \in Hops : Conversion[mFreqs[i]].proxy = Conversion[mFreqs[j]].proxy => i = j

Honest ==
  \A s \in segment.samples : s.freq = segment.freq /\ ~s.mirrored

(* Whatever call to a device fails, a scan goes on only after segments     *)
(* that were taken at the frequency of their label, the right way round: a *)
(* failed tune is followed by the next hop and not by a read, and a failed *)
(* reset or read is the last.  It takes a retune at every hop: a scan of   *)
(* one hop, or a converter that leads two hops to one frequency, leaves    *)
(* out the retune, the reset and, for one hop, the mirroring.              *)
HonestWhileRunning == EveryHopRetunes /\ mRunning => Honest

(* Once the loop has left direct sampling, what it believes about the mode *)
(* is so: every later read is in the mode its frequency calls for.         *)
DirectOnceLeft ==
  [](~direct_sampling =>
       [](at = "read" /\ mode > 0 => (dongle.direct <=> center_freq < Threshold)))

(* Liveness: as long as the driver runs, it comes back to every frequency  *)
(* of the scan, whatever failed before.                                    *)
EveryHopHeard ==
  \A i \in Hops :
    []<>(at \in {"ended", "terminated"} \/ (at = "test" /\ segment.freq = mFreqs[i]))

=============================================================================
