------------------------------ MODULE Retuner -------------------------------
(***************************************************************************)
(* Listening on request, in the DEC pipeline: PSDFast sends spectra and    *)
(* receives messages that say where to listen and with what gain, the      *)
(* context holds what the last one said, and socket_webrtc_thread polls    *)
(* the context and sets the device while rtlsdrDriver samples from it.     *)
(* The three threads share the context and the device without a lock.      *)
(*                                                                         *)
(* Frequencies are in MHz.  The dongle and the converter are external:     *)
(* what is received is what they are set to.  A segment is the frequency   *)
(* it was received at; queue also stands for the buffers of librtlsdr,     *)
(* which a retune does not empty.  What will be asked is chosen at the     *)
(* start, so that the properties can speak of earlier and later requests.  *)
(***************************************************************************)
EXTENDS Integers, Sequences

CONSTANTS
  Freq0, Gain0,  \* the command line
  Conversations, \* what may be asked: messages in order, fc and gain (BOUND)
  Conversion,    \* Conversion[f]: where the converter moves f
  MaxQueue,      \* segments on their way to PSDFast (BOUND)
  MaxFaults      \* how many calls to a device fail (BOUND)

OpenFreq == 24   \* rtlsdrDriver::open()
Bypass == 100    \* converterInit()

Freqs == {Freq0, Bypass} \cup UNION {{c[n].fc : n \in DOMAIN c} : c \in Conversations}

(* A message without fc or without gain says 0; gains are whole dB.        *)
ASSUME RetunerAssumption ==
  /\ Freq0 \in Nat \ {0} /\ Gain0 \in Int
  /\ Conversations \subseteq Seq([fc : Nat, gain : Int])
  /\ \A f \in Freqs : Conversion[f] \in Nat
  /\ MaxQueue \in Nat /\ MaxFaults \in Nat

VARIABLES
  mMinFreq, mGain,    \* ElectrosenseContext
  mConverterEnabled,
  drv,                \* rtlsdrDriver::run()
  ret,                \* socket_webrtc_thread
  last_fc, last_gain, previous_proxy_freq,
  psd,                \* PSDFast::run()
  queue,              \* its mQueueIn
  spectrum,           \* the last one sent: its label, and what it shows
  asks, asked,        \* the messages, and how many have been received
  \* -- the devices
  dongle,             \* its frequency
  setup,              \* the frequency the converter was last set up for
  tuner,              \* its gain, and whether that is set by hand
  faults,
  status,             \* of the process
  \* -- history
  first_asked,        \* messages received when socket_webrtc_thread began
  first_gain,         \* the gain that it saw first
  crossed             \* a message came between two readings of the frequency

firstSeen == <<first_asked, first_gain>>
contextVars == <<mMinFreq, mGain, mConverterEnabled>>
retVars == <<ret, last_fc, last_gain, previous_proxy_freq, firstSeen>>
psdVars == <<psd, spectrum, asks, asked, crossed>>
deviceVars == <<dongle, setup, tuner, faults>>
vars == <<contextVars, drv, retVars, psdVars, queue, deviceVars, status>>

Nobody == -1     \* a frequency that nobody asked for

(* What is received now.                                                   *)
Heard ==
  IF ~mConverterEnabled \/ setup = Bypass THEN dongle
  ELSE IF dongle = Conversion[setup] THEN setup ELSE Nobody

(* The label of a spectrum is the frequency less 1.2 MHz, as an unsigned.  *)
Low(f) == f < 2
LabelOf(f) == IF Low(f) THEN Nobody ELSE f

(* The n-th frequency asked for, the 0-th on the command line.             *)
Nth(n) == IF n = 0 THEN Freq0 ELSE asks[n].fc

Fault == faults < MaxFaults /\ faults' = faults + 1

(* A call of librtlsdr that sets x, or fails and does not.                 *)
SetDongle(f) == (dongle' = f /\ UNCHANGED faults) \/ (Fault /\ UNCHANGED dongle)

(* cp lives on the stack of rtlsdrDriver::run(): once that has returned it *)
(* holds anything.                                                         *)
ConverterEnable == IF drv = "over" THEN BOOLEAN ELSE {mConverterEnabled}

-----------------------------------------------------------------------------
(* Faults: what some of the definitions below would be if the code had a   *)
(* plausible mistake in it.  No specification uses them.                   *)

(* last_fc is brought up to date at the head of the loop.                  *)
FaultReadGain ==
  /\ ret = "gain"
  /\ last_gain' = mGain
  /\ last_fc' = mMinFreq
  /\ ret' = IF mGain # last_gain THEN "apply" ELSE "fc"
  /\ UNCHANGED <<contextVars, drv, previous_proxy_freq, firstSeen, psdVars, queue,
                 deviceVars, status>>

(* The gain is read again when it is applied.                              *)
FaultApplyGain ==
  /\ ret = "apply"
  /\ ret' = "fc"
  /\ tuner' = IF mGain > 0 THEN [manual |-> TRUE, gain |-> mGain]
              ELSE IF mGain = 0 THEN [tuner EXCEPT !.manual = FALSE] ELSE tuner
  /\ UNCHANGED <<contextVars, drv, last_fc, last_gain, previous_proxy_freq, firstSeen,
                 psdVars, queue, dongle, setup, faults, status>>

(* last_fc is 0 at first, so that the first round tunes.                   *)
FaultStart ==
  /\ ret = "start"
  /\ last_fc' = 0
  /\ first_asked' = asked
  /\ ret' = "start2"
  /\ UNCHANGED <<contextVars, drv, last_gain, first_gain, previous_proxy_freq, psdVars, queue,
                 deviceVars, status>>

(* The label is that of the segment, which the callback takes from cp.     *)
FaultSend ==
  /\ psd = "poll"
  /\ queue # <<>>
  /\ queue' = Tail(queue)
  /\ spectrum' = [label |-> Freq0, heard |-> Head(queue)]
  /\ psd' = "receive"
  /\ UNCHANGED <<contextVars, drv, retVars, asks, asked, crossed, deviceVars, status>>

-----------------------------------------------------------------------------
(* After rtlsdrDriver::open(), which sets the gain by hand whatever it is. *)
Init ==
  /\ mMinFreq = Freq0
  /\ mGain = Gain0
  /\ mConverterEnabled \in BOOLEAN
  /\ drv = "begin"
  /\ ret = "none"
  /\ last_fc = 0
  /\ last_gain = 0
  /\ previous_proxy_freq = 0
  /\ psd = "poll"
  /\ queue = <<>>
  /\ spectrum = [label |-> Nobody, heard |-> Nobody]
  /\ asks \in Conversations
  /\ asked = 0
  /\ dongle = OpenFreq
  /\ setup = Bypass
  /\ tuner = [manual |-> TRUE, gain |-> Gain0]
  /\ faults = 0
  /\ status = "up"
  /\ first_asked = 0
  /\ first_gain = 0
  /\ crossed = FALSE

(* rtlsdrDriver::run(): the dongle is tuned, the converter left alone; the *)
(* retuning thread is created, then the one that samples.                  *)
Begin ==
  /\ drv = "begin"
  /\ SetDongle(mMinFreq)
  /\ drv' = "sampling"
  /\ ret' = "start"
  /\ UNCHANGED <<contextVars, last_fc, last_gain, previous_proxy_freq, firstSeen, psdVars,
                 queue, setup, tuner, status>>

(* capbuf_rtlsdr_callback(): a segment for PSDFast.                        *)
Capture ==
  /\ drv = "sampling"
  /\ Len(queue) < MaxQueue
  /\ queue' = Append(queue, Heard)
  /\ UNCHANGED <<contextVars, drv, retVars, psdVars, deviceVars, status>>

(* The read ends, by stop() or because the device is gone.                 *)
Over ==
  /\ drv = "sampling"
  /\ drv' = "over"
  /\ UNCHANGED <<contextVars, retVars, psdVars, queue, deviceVars, status>>

(* finish_ok() has stopped the components and the process exits, retuning  *)
(* thread and all.                                                         *)
Exit ==
  /\ drv = "over"
  /\ psd = "poll"
  /\ status' = "exited"
  /\ UNCHANGED <<contextVars, drv, retVars, psdVars, queue, deviceVars>>

-----------------------------------------------------------------------------
(* PSDFast::run()                                                          *)

(* A spectrum, labelled with the frequency in the context.                 *)
Send ==
  /\ psd = "poll"
  /\ queue # <<>>
  /\ queue' = Tail(queue)
  /\ spectrum' = [label |-> LabelOf(mMinFreq), heard |-> Head(queue)]
  /\ psd' = "receive"
  /\ UNCHANGED <<contextVars, drv, retVars, asks, asked, crossed, deviceVars, status>>

NoMessage ==
  /\ psd = "receive"
  /\ psd' = "poll"
  /\ UNCHANGED <<contextVars, drv, retVars, queue, spectrum, asks, asked, crossed,
                 deviceVars, status>>

(* setMinFreq(), and only then setGain().                                  *)
Receive ==
  /\ psd = "receive"
  /\ asked < Len(asks)
  /\ asked' = asked + 1
  /\ mMinFreq' = asks[asked'].fc
  /\ crossed' = (crossed \/ ret \in {"start", "tune"})
  /\ psd' = "gain"
  /\ UNCHANGED <<mGain, mConverterEnabled, drv, retVars, queue, spectrum, asks, deviceVars,
                 status>>

SetGain ==
  /\ psd = "gain"
  /\ mGain' = asks[asked].gain
  /\ psd' = "poll"
  /\ UNCHANGED <<mMinFreq, mConverterEnabled, drv, retVars, queue, spectrum, asks, asked,
                 crossed, deviceVars, status>>

-----------------------------------------------------------------------------
(* socket_webrtc_thread()                                                  *)

(* It takes what it first sees for what the device is set to.              *)
Start ==
  /\ ret = "start"
  /\ last_fc' = mMinFreq
  /\ first_asked' = asked
  /\ ret' = "start2"
  /\ UNCHANGED <<contextVars, drv, last_gain, first_gain, previous_proxy_freq, psdVars, queue,
                 deviceVars, status>>

StartGain ==
  /\ ret = "start2"
  /\ last_gain' = mGain
  /\ first_gain' = mGain
  /\ ret' = "gain"
  /\ UNCHANGED <<contextVars, drv, last_fc, previous_proxy_freq, first_asked, psdVars, queue,
                 deviceVars, status>>

ReadGain ==
  /\ ret = "gain"
  /\ last_gain' = mGain
  /\ ret' = IF mGain # last_gain THEN "apply" ELSE "fc"
  /\ UNCHANGED <<contextVars, drv, last_fc, previous_proxy_freq, firstSeen, psdVars, queue,
                 deviceVars, status>>

(* current_gain is last_gain by now.  By hand, automatic, or not allowed;  *)
(* either call may fail, and is not repeated.                              *)
ApplyGain ==
  /\ ret = "apply"
  /\ ret' = "fc"
  /\ \/ last_gain > 0 /\ tuner' = [manual |-> TRUE, gain |-> last_gain] /\ UNCHANGED faults
     \/ last_gain = 0 /\ tuner' = [tuner EXCEPT !.manual = FALSE] /\ UNCHANGED faults
     \/ last_gain < 0 /\ UNCHANGED <<tuner, faults>>
     \/ last_gain > 0 /\ Fault /\ tuner' \in {tuner, [tuner EXCEPT !.manual = TRUE]}
     \/ last_gain = 0 /\ Fault /\ UNCHANGED tuner
  /\ UNCHANGED <<contextVars, drv, last_fc, last_gain, previous_proxy_freq, firstSeen,
                 psdVars, queue, dongle, setup, status>>

ReadFc ==
  /\ ret = "fc"
  /\ last_fc' = mMinFreq
  /\ ret' = IF mMinFreq # last_fc THEN "tune" ELSE "gain"
  /\ UNCHANGED <<contextVars, drv, last_gain, previous_proxy_freq, firstSeen, psdVars, queue,
                 deviceVars, status>>

(* The frequency is read again, and it is this one that is set.            *)
TuneNative ==
  /\ ret = "tune"
  /\ FALSE \in ConverterEnable
  /\ SetDongle(mMinFreq)
  /\ ret' = "gain"
  /\ UNCHANGED <<contextVars, drv, last_fc, last_gain, previous_proxy_freq, firstSeen,
                 psdVars, queue, setup, tuner, status>>

TuneConverter ==
  /\ ret = "tune"
  /\ TRUE \in ConverterEnable
  /\ mConverterEnabled
  /\ setup' = mMinFreq
  /\ previous_proxy_freq' = Conversion[mMinFreq]
  /\ ret' = IF previous_proxy_freq' # previous_proxy_freq THEN "dongle" ELSE "gain"
  /\ UNCHANGED <<contextVars, drv, last_fc, last_gain, firstSeen, psdVars, queue, dongle,
                 tuner, faults, status>>

(* converterTune() fails, for one because there is none; the exception has *)
(* no handler in this thread and ends the process.                         *)
TuneThrows ==
  /\ ret = "tune"
  /\ TRUE \in ConverterEnable
  /\ IF mConverterEnabled THEN Fault ELSE UNCHANGED faults
  /\ status' = "terminated"
  /\ UNCHANGED <<contextVars, drv, retVars, psdVars, queue, dongle, setup, tuner>>

TuneDongle ==
  /\ ret = "dongle"
  /\ SetDongle(previous_proxy_freq)
  /\ ret' = "gain"
  /\ UNCHANGED <<contextVars, drv, last_fc, last_gain, previous_proxy_freq, firstSeen,
                 psdVars, queue, setup, tuner, status>>

-----------------------------------------------------------------------------
PSDFast == Send \/ NoMessage \/ Receive \/ SetGain
Polling ==
  \/ Start \/ StartGain \/ ReadGain \/ ApplyGain \/ ReadFc
  \/ TuneNative \/ TuneConverter \/ TuneThrows \/ TuneDongle

Up(A) == status = "up" /\ A

(* The process is gone and nothing can follow.                             *)
Gone == status # "up" /\ UNCHANGED vars

Next == Up(Begin \/ Capture \/ Over \/ Exit \/ PSDFast \/ Polling) \/ Gone

Spec == Init /\ [][Next]_vars

(* Every thread is scheduled, and a device that is being read delivers.    *)
FairSpec ==
  Spec /\ WF_vars(Up(Begin)) /\ WF_vars(Up(Capture)) /\ WF_vars(Up(Send \/ NoMessage \/ SetGain))
       /\ WF_vars(Up(Polling))

-----------------------------------------------------------------------------
(* The type of every variable.                                             *)
TypeOK ==
  /\ mMinFreq \in Nat /\ mGain \in Int /\ mConverterEnabled \in BOOLEAN
  /\ drv \in {"begin", "sampling", "over"}
  /\ ret \in {"none", "start", "start2", "gain", "apply", "fc", "tune", "dongle"}
  /\ last_fc \in Nat /\ last_gain \in Int /\ previous_proxy_freq \in Nat
  /\ psd \in {"poll", "receive", "gain"}
  /\ queue \in Seq(Nat \cup {Nobody})
  /\ spectrum \in [label : Nat \cup {Nobody}, heard : Nat \cup {Nobody}]
  /\ asks \in Conversations
  /\ asked \in 0 .. Len(asks)
  /\ dongle \in Nat /\ setup \in Nat
  /\ tuner \in [manual : BOOLEAN, gain : Int]
  /\ faults \in 0 .. MaxFaults
  /\ status \in {"up", "exited", "terminated"}
  /\ first_asked \in 0 .. asked /\ first_gain \in Int /\ crossed \in BOOLEAN

(* The device is being read and no call to it has failed.                  *)
Undisturbed == status = "up" /\ drv = "sampling" /\ faults = 0

(* No frequency is asked for twice.                                        *)
Distinct == \A m, n \in 0 .. Len(asks) : m # n => Nth(m) # Nth(n)

(* The thread compares a frequency that it reads with one that it read     *)
(* before, and tunes to one that it reads afterwards (at first, run() has  *)
(* tuned to one read before).  A message in between makes the two differ:  *)
(* harmless, unless that was the last message at the start, or a message   *)
(* asks again for what the thread takes for tuned.                         *)
Noticed == crossed => Distinct /\ asked # first_asked

(* The device ends up where the last message asked, whatever messages come *)
(* and whenever, if only that was noticed.                                 *)
Follows == <>[](Undisturbed /\ Noticed => Heard = mMinFreq)

(* And with the gain it asked for, even when gains return; a negative one  *)
(* is refused.  The first gain the thread sees must be that of the command *)
(* line, which open() has set by hand, even if it is 0.                    *)
GainFollows ==
  Gain0 > 0 =>
    <>[](Undisturbed /\ first_gain = Gain0 /\ mGain >= 0 =>
           tuner.manual = (mGain > 0) /\ (mGain > 0 => tuner.gain = mGain))

(* PSDFast labels a segment with the frequency asked for by now, wherever  *)
(* it was received.  Still, successive spectra never go back to show what  *)
(* was asked for earlier, and none shows what was asked for later than its *)
(* label: that is where requests can be told apart, from one another and   *)
(* from the frequencies that nobody asked for.                             *)
Fresh == Distinct /\ \A n \in 0 .. Len(asks) : Nth(n) \notin {OpenFreq, Bypass}
InAskedOrder ==
  [][Fresh => \A n \in 0 .. Len(asks) : spectrum'.heard = Nth(n) =>
                /\ \A m \in 0 .. Len(asks) : spectrum.heard = Nth(m) => m <= n
                /\ \A k \in 0 .. Len(asks) : spectrum'.label = Nth(k) => n <= k]_spectrum

(* And in the end a spectrum is labelled with where it was received, if    *)
(* the label does not wrap.                                                *)
LabelsSettle ==
  /\ InAskedOrder
  /\ <>[](Undisturbed /\ Noticed /\ ~Low(mMinFreq) => spectrum.label = spectrum.heard)

(* The retuning thread can end the process, for one with a call it makes   *)
(* after run() has returned and its cp is gone.  But it only ever does so  *)
(* for a message that asked for another frequency after it began.          *)
DiesOfChange ==
  status = "terminated" => \E n \in first_asked + 1 .. asked : Nth(n) # Nth(n - 1)

=============================================================================
