------------------------------- MODULE Setup --------------------------------
(***************************************************************************)
(* From the command line to the components: parse_args() calls a setter of *)
(* ElectrosenseContext for each option as it meets it, main() refuses some *)
(* results, builds the components of the pipeline, hands each the queue it *)
(* is to read, and starts them.  SyncSampling() then cuts every read into  *)
(* frames, as the context says.                                            *)
(*                                                                         *)
(* Components have the names of their variables in main(), queues the name *)
(* of the component that owns them; rtlDriver owns two.  Options that only *)
(* set a field of their own, and that nothing here reads, are left out.    *)
(***************************************************************************)
EXTENDS Integers, Sequences

CONSTANTS
  Sizes,       \* arguments of -f
  Overlaps,    \* arguments of -o, after their conversion to unsigned
  Factors,     \* arguments of -a
  Word,        \* 2^32, the values of an unsigned int
  MaxOptions   \* options on the command line (BOUND)

VARIABLES
  at,
  options,     \* options parsed so far
  mPipeline, mLog2FftSize, mAvgFactor, mSoverlap, mTcpHost, mTlsHost, mOutputFileName, mOutputType,
  band,        \* how mMinFreq and mMaxFreq compare
  vComponents, \* in the order of their start, each with the queue it was given
  clampedTo    \* history: the FFT size when the overlap was set

frameVars == <<mLog2FftSize, mAvgFactor, mSoverlap, clampedTo>>
sinkVars == <<mTcpHost, mTlsHost, mOutputFileName, mOutputType>>
contextVars == <<mPipeline, frameVars, sinkVars>>
vars == <<at, options, contextVars, band, vComponents>>

DEFAULT_LOG2_FFT_SIZE == 8
DEFAULT_AVG_FACTOR == 5
DEFAULT_SOVERLAP == 128
BULK_TRANSFER_MULTIPLE == 512

(* The product of an FFT size and an averaging factor fits a word.  (That  *)
(* a power of two is a positive number is a fact, stated for the proofs.)  *)
ASSUME SetupAssumption ==
  /\ Word \in Nat
  /\ DEFAULT_LOG2_FFT_SIZE \in Sizes /\ DEFAULT_AVG_FACTOR \in Factors
  /\ Overlaps \subseteq Nat /\ Factors \subseteq Nat
  /\ \A f \in Sizes : 2^f \in Nat \ {0}
  /\ 2^DEFAULT_LOG2_FFT_SIZE > DEFAULT_SOVERLAP
  /\ \A f \in Sizes, a \in Factors : 2 * (2^f * (a + 1)) + BULK_TRANSFER_MULTIPLE < Word
  /\ MaxOptions \in Nat

-----------------------------------------------------------------------------
(*        The frames of a synchronous read, in unsigned arithmetic         *)

fft_size == 2^mLog2FftSize

(* How far a frame begins behind the one before it, in samples.            *)
Advance == (fft_size - mSoverlap) % Word

(* What is read, in bytes, a sample being two: whole blocks of the bus.    *)
Wanted == ((Advance * mAvgFactor + mSoverlap) * 2) % Word
slen ==
  IF Wanted % BULK_TRANSFER_MULTIPLE = 0 THEN Wanted
  ELSE Wanted + BULK_TRANSFER_MULTIPLE - (Wanted % BULK_TRANSFER_MULTIPLE)

(* The byte of the read that frame i takes as its j-th.                    *)
ByteOf(i, j) == (j + i * Advance * 2) % Word

-----------------------------------------------------------------------------
(* Faults, here and below: what a definition would be if the code had a    *)
(* plausible mistake in it.  No specification uses them.                   *)

(* An overlap as long as the frame is accepted.                            *)
FaultOverlap(soverlap) ==
  IF soverlap > 2^mLog2FftSize THEN 2^mLog2FftSize \div 2 ELSE soverlap

-----------------------------------------------------------------------------
(*                     The setters of the context                          *)

NewAvgFactor(avgFactor) == IF avgFactor < 1 THEN DEFAULT_AVG_FACTOR ELSE avgFactor

NewSoverlap(soverlap) ==
  IF soverlap > 2^mLog2FftSize - 1 THEN 2^mLog2FftSize \div 2 ELSE soverlap

(* The constructor; mOutputType has no value before an output file is set. *)
Init ==
  /\ at = "parse"
  /\ options = 0
  /\ mPipeline = "PSD"
  /\ mLog2FftSize = DEFAULT_LOG2_FFT_SIZE
  /\ mAvgFactor = DEFAULT_AVG_FACTOR
  /\ mSoverlap = DEFAULT_SOVERLAP
  /\ clampedTo = 2^DEFAULT_LOG2_FFT_SIZE
  /\ mTcpHost = "default"
  /\ mTlsHost = "default"
  /\ mOutputFileName = "default"
  /\ mOutputType \in {"BYTE", "FLOAT"}
  /\ band \in {"rising", "single", "falling"}
  /\ vComponents = <<>>

(* One more option of parse_args().                                        *)
Option ==
  /\ at = "parse"
  /\ options < MaxOptions
  /\ options' = options + 1
  /\ UNCHANGED <<band, vComponents>>

SetPipeline ==
  /\ Option
  /\ mPipeline' \in {"PSD", "IQ", "DEC", "other"}
  /\ UNCHANGED <<at, frameVars, sinkVars>>

SetLog2FftSize ==
  /\ Option
  /\ mLog2FftSize' \in Sizes
  /\ UNCHANGED <<at, mPipeline, mAvgFactor, mSoverlap, clampedTo, sinkVars>>

SetAvgFactor ==
  /\ Option
  /\ \E a \in Factors : mAvgFactor' = NewAvgFactor(a)
  /\ UNCHANGED <<at, mPipeline, mLog2FftSize, mSoverlap, clampedTo, sinkVars>>

SetSoverlap ==
  /\ Option
  /\ \E o \in Overlaps : mSoverlap' = NewSoverlap(o)
  /\ clampedTo' = 2^mLog2FftSize
  /\ UNCHANGED <<at, mPipeline, mLog2FftSize, mAvgFactor, sinkVars>>

SetHosts ==
  /\ Option
  /\ \/ mTcpHost' \in {"given", "default"} /\ UNCHANGED mTlsHost
     \/ mTlsHost' \in {"given", "default"} /\ UNCHANGED mTcpHost
  /\ UNCHANGED <<at, mPipeline, frameVars, mOutputFileName, mOutputType>>

(* Without a colon, the argument is the name; with one, what is before it  *)
(* is the type, and "BYTE:" gives back the default, an empty name.  An     *)
(* empty argument changes nothing, another type ends the program.          *)
SetOutputFileName ==
  /\ Option
  /\ \/ \E type \in {"BYTE", "FLOAT"}, name \in {"given", "default"} :
          /\ mOutputType' = type /\ mOutputFileName' = name
          /\ UNCHANGED at
     \/ at' \in {at, "exit"} /\ UNCHANGED <<mOutputFileName, mOutputType>>
  /\ UNCHANGED <<mPipeline, frameVars, mTcpHost, mTlsHost>>

(* usage(): -h, an unknown option, a gain below -1, or other than two      *)
(* arguments at the end.                                                   *)
Usage ==
  /\ at = "parse"
  /\ at' = "exit"
  /\ UNCHANGED <<options, contextVars, band, vComponents>>

(* main() refuses a range that does not suit the pipeline.                 *)
Refuse ==
  /\ at = "parse"
  /\ \/ mPipeline = "IQ" /\ band # "single"
     \/ mPipeline = "PSD" /\ band # "rising"
  /\ at' = "exit"
  /\ UNCHANGED <<options, contextVars, band, vComponents>>

-----------------------------------------------------------------------------
(*                              The wiring                                 *)

(* Components of which each reads the one before it, the first reads from. *)
Chain(names, from) ==
  [i \in 1 .. Len(names) |-> [name |-> names[i], in |-> IF i = 1 THEN from ELSE names[i - 1]]]

(* The pipeline itself.  A name that is none of the three gets the driver. *)
Blocks ==
  CASE mPipeline = "PSD" ->
         Chain(<<"rtlDriver", "rdcBlock", "winBlock", "fftBlock", "avgBlock">>, "none")
    [] mPipeline = "DEC" ->
         Chain(<<"rtlDriver">>, "none") \o Chain(<<"psdfastBlock">>, "rtlDriver2")
                                        \o Chain(<<"iqStream">>, "rtlDriver")
    [] OTHER -> Chain(<<"rtlDriver">>, "none")

(* With a server.  In DEC the transBlock gets the queue of an avroBlock    *)
(* that is never started.                                                  *)
ToServer ==
  CASE mPipeline = "PSD" -> Chain(<<"avroBlock", "transBlock">>, "avgBlock")
    [] mPipeline = "IQ" -> Chain(<<"rdcRTLBlock", "avroBlock", "transBlock">>, "rtlDriver")
    [] OTHER -> Chain(<<"transBlock">>, "avroBlock")

(* With a file; DEC writes none.                                           *)
ToFile ==
  CASE mPipeline = "PSD" -> Chain(<<"fileSink">>, "avgBlock")
    [] mPipeline = "IQ" /\ mOutputType = "BYTE" -> Chain(<<"iqSink">>, "rtlDriver")
    [] mPipeline = "IQ" /\ mOutputType = "FLOAT" -> Chain(<<"rdcRTLBlock", "iqSink">>, "rtlDriver")
    [] OTHER -> <<>>

(* Fault: the file is written beside the server.                           *)
FaultOutputs ==
  (IF mTlsHost # "default" THEN ToServer ELSE <<>>)
    \o (IF mOutputFileName # "default" THEN ToFile ELSE <<>>)

(* A server goes before a file.  The TCP hosts are not looked at.          *)
Outputs ==
  IF mTlsHost # "default" THEN ToServer
  ELSE IF mOutputFileName # "default" THEN ToFile
  ELSE <<>>

Start ==
  /\ at = "parse"
  /\ mPipeline = "IQ" => band = "single"
  /\ mPipeline = "PSD" => band = "rising"
  /\ vComponents' = Blocks \o Outputs
  /\ at' = "started"
  /\ UNCHANGED <<options, contextVars, band>>

Over == at \in {"started", "exit"} /\ UNCHANGED vars

Next ==
  \/ SetPipeline \/ SetLog2FftSize \/ SetAvgFactor \/ SetSoverlap \/ SetHosts
  \/ SetOutputFileName \/ Usage \/ Refuse \/ Start \/ Over

Spec == Init /\ [][Next]_vars

-----------------------------------------------------------------------------
Started == at = "started"

(* There is somewhere to write to.                                         *)
Sunk == mTlsHost # "default" \/ mOutputFileName # "default"

(* However the options were ordered, the frames SyncSampling() cuts lie    *)
(* within the bytes it has read, each begins behind the one before it and  *)
(* shares mSoverlap samples with it, and less than a block of the bus is   *)
(* read for nothing: as long as -f has not made the frames smaller than    *)
(* they were when the overlap was set, which no one checks again           *)
(* (setSoverlap(), SyncSampling()).                                        *)
FramesWithin ==
  Started /\ mPipeline = "PSD" /\ fft_size >= clampedTo =>
    /\ mAvgFactor >= 1
    /\ \A i \in 0 .. mAvgFactor - 1 :
         /\ \A j \in 0 .. 2 * fft_size - 1 : ByteOf(i, j) < slen
         /\ i > 0 => /\ ByteOf(i, 0) > ByteOf(i - 1, 0)
                     /\ ByteOf(i, 0) + 2 * mSoverlap = ByteOf(i - 1, 2 * fft_size - 1) + 1
    /\ slen - ByteOf(mAvgFactor - 1, 2 * fft_size - 1) <= BULK_TRANSFER_MULTIPLE

(* Whatever the options, no queue, safe for one reader, is given to two;   *)
(* and a PSD or IQ pipeline with somewhere to write to is the chain that   *)
(* Pipeline assumes: every component reads the one started, and to be      *)
(* stopped, just before it, so that no queue is without a reader, only the *)
(* last one is a sink, and only the PSD pipeline averages, once (main()).  *)
Wired ==
  Started =>
    /\ \A i, j \in 1 .. Len(vComponents) : vComponents[i].in = vComponents[j].in => i = j
    /\ mPipeline \in {"PSD", "IQ"} /\ Sunk =>
         /\ Len(vComponents) >= 2
         /\ vComponents[1] = [name |-> "rtlDriver", in |-> "none"]
         /\ \A i \in 2 .. Len(vComponents) :
              /\ vComponents[i].in = vComponents[i - 1].name
              /\ vComponents[i].name \in {"fileSink", "iqSink", "transBlock"} <=> i = Len(vComponents)
         /\ \A i, j \in 1 .. Len(vComponents) :
              vComponents[i].name = "avgBlock" /\ vComponents[j].name = "avgBlock" =>
                i = j /\ mPipeline = "PSD"

=============================================================================
