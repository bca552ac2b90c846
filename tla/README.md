# A verification of es-sensor in TLA+

This directory models the concurrent core of `es_sensor`, the Electrosense
sensing application (C++11, one process, a thread per component), checks it
with TLC and proves part of it with TLAPS. Paths below are those of the
repository under `src/`.

## 1. The system

`es_sensor` drives an RTL-SDR dongle, optionally behind a down-converter, and
turns its samples into spectra or IQ streams. `main()` builds one of three
pipelines, each a chain of components:

| pipeline | chain |
|---|---|
| `PSD` | `rtlsdrDriver` (SyncSampling) → `RemoveDC` → `Windowing` → `FFT` → `Averaging` → `FileSink`, or `AvroSerialization` → `Transmission` |
| `IQ`  | `rtlsdrDriver` (asynchronous) → `RemoveDCRTL` → `IQSink`, or `AvroSerialization` → `Transmission` (or straight to `IQSink`) |
| `DEC` | `rtlsdrDriver` (asynchronous, two queues) → `PSDFast` and `IQStream`, which feeds a decoder process |

### Components, their state and operations

| component | state | operations | correct when |
|---|---|---|---|
| `main.cpp` | `vComponents`, `current_dec` | start all, watch once a second, restart IQStream, `finish_ok` (also from the signal handlers) | stops in order, terminates, restarts when it should |
| `Component.h` | `mThread`, `mRunning` (never initialised) | `start`, `run`, `stop`, `isRunning`, `waitForThread` | a stopped thread ends and is joined once |
| `rtlsdrDriver.cpp` | the device, the last frequency and mode asked for, the sample buffer | `open`, `SyncSampling`, `run` + `aux_thread` + callback, `socket_webrtc_thread`, `stop` | a segment is what its label says |
| `SequentialHopping.cpp` | the table of hops, `mIndex` | `nextHop` | every hop is visited |
| `converter.c` | the serial port | open, command and reply, tune | a reply belongs to its command |
| processing blocks | segments held, `avgVector` | one loop each | nothing lost, duplicated, reordered or mixed |
| sinks, `AvroSerialization`, `Transmission` | file or connection | one loop each; connect until it works | everything captured is written |
| `PSDFast.cpp` | UDP socket | send spectra, receive frequency, gain and decoder | requests are carried out |
| `IQStream.cpp` | socket, connection, `mChildPID`, `mDecoderState` | fork and exec, accept, resample, send, `stop` | one decoder, the one asked for, in its own format |
| `readerwriterqueue.h` | ring of blocks | `enqueue`, `try_dequeue`, `size_approx` | a queue |
| `Downsampler`, `CIC`, `RationalFIR` | registers, delay line, phase, all kept from call to call | `filter` | the samples of one stream, at the right rate |
| `ElectrosenseContext` | the options, some checked against others | setters and accessors | the components can work with any of them |
| TCP, TLS, segment | descriptors, fields | connect, write; accessors | see `Uplink` and section 7 |

### How they interact, and what is hard

Segments go from thread to thread as bare pointers through single-producer,
single-consumer queues; whoever dequeues a pointer owns it. Everything else is
shared without locks: the flags (`mRunning`, read by the loop, by the watcher
and by `finish_ok`), the fields of `ElectrosenseContext` (decoder, frequency,
gain), and the device. Signal handlers run `finish_ok`, which joins threads,
on top of whatever `main()` was doing. The DEC pipeline adds processes that
connect, die and hang. The hard behaviours are therefore

* stopping: in which order, from where, how often, and what is still queued;
* values read twice that may differ (the decoder is read by `main()` three
  times per restart, by the child, and by IQStream for every segment);
* failures half-way (a tune noted before it succeeded, a write that fails, a
  decoder that dies before it connects);
* the lock-free queue;
* arithmetic that wraps on purpose (the CIC) or by accident (frames longer than
  the FFT), and filters whose state outlives a call.

`PROJECT.json` lists each such hazard at its line with the properties that
would catch it.

## 2. The modules

| module | models | composed of |
|---|---|---|
| `Pipeline` | the PSD and IQ pipelines: threads, queues, start, watcher, shutdown, signals | — |
| `PipelineProofs` | theorems about `Pipeline` | `Pipeline` |
| `Tuner` | the scan: `open`, `SyncSampling`, hops, converter, direct sampling | — |
| `TunerProofs` | theorems about `Tuner` | `Tuner` |
| `Decoder` | watcher, `IQStream`, decoder processes, requests | — |
| `DecoderProofs` | theorems about `Decoder` | `Decoder` |
| `ReaderWriterQueue` | the ring of blocks, step by step | implements `Fifo` |
| `QueueProofs` | theorems about the ring | `ReaderWriterQueue` |
| `Fifo` | what a queue promises | — |
| `Uplink` | `AvroSerialization` → `Transmission` → TCP or TLS | implements `Feed` |
| `UplinkProofs` | theorems about `Uplink` | `Uplink` |
| `Feed` | what the server is promised | — |
| `Retuner` | `socket_webrtc_thread`, `PSDFast` and the sampling driver | — |
| `RetunerProofs` | theorems about `Retuner` | `Retuner` |
| `Setup` | `parse_args`, the setters, the wiring in `main()`, the frames of a synchronous read | — |
| `SetupProofs` | theorems about `Setup` | `Setup` |
| `Resampler` | `Downsampler`: the CIC and the polyphase filter, over several segments | — |
| `ResamplerProofs` | theorems about `Resampler` | `Resampler` |
| `MCPipeline`, `MCTuner`, `MCDecoder`, `MCUplink`, `MCRetuner`, `MCSetup`, `MCResampler` | instances for TLC | the above |

`Pipeline` uses a queue as a sequence with atomic operations; that the ring of
blocks may be seen this way is what `ReaderWriterQueue` shows. `Pipeline` sees
a synchronous read as one step that may fail; `Tuner` opens that step. It sees
a write to the server likewise; `Uplink` opens that one. Its chain is a
constant; that `main()` builds such chains, whatever the options, is what
`Setup` shows (`Wired`).

Every module has a section of *faults*: definitions, never used by a
specification, that say what one of the real definitions would be with a
plausible mistake in it. They document which mistake each property would
notice.

### Pipeline

`pc[i]` says where the thread of component *i* is, `queue[i]` is its
`mQueueIn`, `hold[i]` the segments it has dequeued and not passed on. The
chain is a constant, `Kind`, so one module stands for every pipeline `main()`
can build. The loops are of two kinds: `while (mRunning)` and
`while (mRunning || mQueueIn->size_approx() != 0)`; `Test` and `SizeApprox`
read the two in the order of the code, as two steps. `Begin` is the first
statement of each `run()`: until then the flag holds whatever it held, which
`Init` leaves open. `frames` is the stack of active calls of `finish_ok`: a
signal pushes one, and only the innermost makes progress. `JoinBegins` aborts
the process where `std::thread::join` would throw. Asynchronous sampling
follows librtlsdr: a cancellation acts only on a read under way.

A segment is the number of its creation, and `origin` gives the read it was
cut from. `Windowing` and the Avro loop of the PSD pipeline have the loop of
`RemoveDC`. The centre-frequency check of `Averaging` is modelled on reads:
two reads count as two frequencies, the worst case. `ChainAssumption` says what
`main()` builds: a source first, a sink last, and one averaging component at
most, in the pipeline that reads synchronously; `Wired` of `Setup` is the other
side of it.

### Tuner

`center_freq`, `previous_freq`, `previous_proxy_freq`, `mustInvert` and
`direct_sampling` are the locals of `SyncSampling` of the same names. The
dongle is what it was last successfully told; the converter likewise; samples
that were taken and not read stay in `fifo` until a reset, which is what the
code's resets are for. `segment` is the last one enqueued, with the samples
its buffer held. Every call that can fail has an action in which it does:
`Throw` (an exception nobody catches), `SetCenterFreqFails` (the loop's
`continue`), the second branch of `SetCenterFreq` (a failed reset), and
`ReadFails`. The samples are sets of what was heard; that they are cut into
`avg_factor` overlapping frames makes no difference here.

### Decoder

`at` is the line of `main()`, `thread` the line of `IQStream::run()`,
`children` the processes in the order of their forks. Each read of the decoder
in the code is a read of `request` in a step of its own, except that the reads
of one `sendIQSamples` iteration, and the five table look-ups of the
configuration, are one step. `mChildPID` is 0 while indeterminate. The
descriptor `sd` that `select()` waits for is never initialised
(`IQStream.cpp:176`); `StraySelect` says what it may be.

### ReaderWriterQueue and Fifo

One action per access of a shared variable: the producer copies `front` and
`tail` of its block, stores the element, publishes the tail; or moves to the
next block, or links a new one. The consumer looks again at a block it found
empty before it leaves it. The refinement mapping (`Contents`) walks from the
front of the front block through the places where the consumer will find the
items that were sent and not taken, and reads what lies there: were an item
lost, or overwritten, the walk would meet another one. Memory is sequentially consistent; the acquire and release fences
of `atomicops.h` are what the code relies on to make it so.

### Uplink and Feed

A record is its number, its size and the number of values in it. `Told` is
what libavro does with a buffer that is too small: it stops at the first item
that does not fit, and nobody looks at its result. `pc` follows
`Transmission::run()`: dequeue, `checkConnection()`, pack, write. `con` is the
connection: not there, fresh, unusable (what `init` did not get), joined (the
TCP connection is made and the handshake has failed), up. `wire` holds every
packet with the bytes of it that the kernel has taken, which a chunk of
`tcp_write()` advances. The mapping to `Feed` (`Received`) reads off the packets
that are whole and have only whole packets before them, for a server reads a
stream. A failed host lookup leaves the address 0.0.0.0, which is this machine;
the model takes it for unreachable.

`AvroSerialization` and `Transmission` compute the number of bins each for
itself: the one has `reduced_fft_size`, made odd in every round of its loop, the
other `HeaderBins`, made odd once before the loop. A record also has `first`,
the index of its first bin, an `unsigned` (`FirstBin`, modulo `UINT`). With
hardly an overlap there is one bin more than the spectrum has and the index
wraps; the loop then reads outside of the spectrum (`Outside`), which gives it
anything or ends the process (`ReadFault`).

### Retuner

`ret` is where `socket_webrtc_thread` is, with `last_fc`, `last_gain` and
`previous_proxy_freq` its locals; each reading of the context is a step. `psd`
is where `PSDFast::run()` is: a message sets the frequency and the gain in two
steps. `drv` says whether `rtlsdrDriver::run()` still samples; once it has
returned, `cp.converter_enable` is read from a dead stack frame and may be
anything (`ConverterEnable`). `Heard` is what is received with the dongle and
the converter as they are set; a segment is the frequency it was received at,
and `queue` keeps it for a while, as librtlsdr and the queue do. The label of a
spectrum is the frequency less 1.2 MHz, an unsigned difference that wraps for a
message without a frequency (`LabelOf`). `asks` is the conversation, chosen at
the start and read one message at a time, `asked` how far it has got;
`first_asked`, `first_gain` and `crossed` are history.

### Setup

`at` says whether options are being parsed, the components have been started,
or the program has given up; the other variables have the names of the fields
of `ElectrosenseContext`. An option is an action that may come at any point,
as often as it likes: what `setSoverlap()` accepts depends on the FFT size of
the moment, so the order matters. `Start` is `main()` up to the loop that starts
the components: it records their names in the order of `vComponents`, each with
the owner of the queue it was given. `slen` and `ByteOf` are the lengths and the
indices of `SyncSampling()`, in the unsigned arithmetic of the code.

### Resampler

`Init` is the constructor for each of the rates IQStream asks for; a step is one
turn of a loop of `CIC::filter()` or `RationalFIR::filter()`, and `Call` is the
next segment. The CIC is modelled by value, its registers over `0 .. Word - 1`.
The polyphase filter works on floats, of which the model keeps only where they
are from: samples are numbers, `calcPolyphase` is the set of pairs of a tap and
the sample it was multiplied with. Taps and samples are then compared with the
textbook: moving sums (`MovingSums`) and an interpolated, filtered and decimated
stream (`Convolution`). The I and the Q stream have a resampler each, with the
same calls; one is modelled.

## 3. The runs

| run | instance | shows |
|---|---|---|
| `IQ` | driver, DC removal, Avro, Transmission; 2 signals, start time, monitor time, 2 segments | `Conserved`, `InOrder`, `NoLossOnExit`, `StopsInOrder`, `AbortNeedsOverlap` |
| `IQLive` | driver, DC removal, file; 1 signal | `StopCompletes`, `Delivered` |
| `PSD` | driver, FFT in batches of 3, averages of 2, file; 6 segments | `AveragedTogether` |
| `Tuner` | 4 hops from 21 to 27 MHz, 3 failing calls | `HonestWhileRunning`, `DirectOnceLeft`, `EveryHopHeard` |
| `DecSafe` | requests 3, 1, −1; 3 starts, 1 failing decoder, 1 signal | `RestartJoins`, `OneDecoder`, `OrphanNeedsSignal`, `MismatchIsTransient` |
| `DecLive` | the same requests, 5 starts, no signal | `StopReturns`, `Converges`, `AcceptedReplaced`, `StopRequestEnds` |
| `DecFollow` | requests 1, 2, 1 | a finding: `DecoderFollows` fails |
| `Uplink` | PSD and IQ, TCP and TLS, overlaps 0.003, 0.004, 0.03 and 1/6; words of 16 bits; 3 records of different sizes, 2 lengths of a short write | `Framed`, `RightBins`, `WholeRecords`, `IsFeed`, `Arrives` |
| `Retuner` | 3 messages, which go on to other frequencies and return to a gain, or lack their fields and return to a frequency; with and without converter; 1 failing call | `Follows`, `GainFollows`, `LabelsSettle`, `DiesOfChange` |
| `Queue` | blocks of 1 and 3 slots, 6 items | `IsFifo`, `NothingMissed`, `AssertionsHold`, `NoTornRead`, `AllTaken` |
| `Setup` | all command lines of up to 4 options; 4 FFT sizes, 12 overlaps, 4 averaging factors | `FramesWithin`, `Wired` |
| `Resampler` | the rates of the six decoders; 5 segments of 2 lengths and 2 levels | `SumsExactly`, `Convolves`, `KeepsRate`, `InBounds` |

The comment at each property says what it means for the code.

### What they found

* **A request can be missed** (`DecFollow`). `main()` compares with what it
  noted, IQStream forks what it reads later.

Not runs, but conditions that the properties had to be given, each because
TLC showed a behaviour of the code without it:

* A stop can be lost (`StopCompletes`): `start()` returns before `run()` has
  set `mRunning`; a signal in between clears a flag that is then set, and
  `stop()` waits for ever. So can a cancellation while the sampling thread
  sleeps until the start time of `-x`.
* `Follows` and `LabelsSettle` excuse a message that comes between two readings
  of the frequency (`Noticed`). The retuning thread compares one reading and sets
  another: it may note A, set B, and see nothing to do when the client returns
  to A. No such message harms when no frequency is asked for twice, except the
  last one at the start: the thread takes what it first reads for what is set.
  For that reason `GainFollows` needs a thread that began with the gain of the
  command line.
* `LabelsSettle` is about labels that do not wrap: a message without a frequency
  asks for 0 Hz.
* `DiesOfChange` says no more than that a message has asked for another
  frequency: the retuning thread goes on with a callback package whose stack
  frame is gone, and may then end the process.
* `Arrives` excuses a failed handshake, after which every attempt connects the
  same socket again, and a failed `tcp_init` or `tls_init`, whose result
  nobody looks at.
* `AcceptedReplaced` is about decoders that have connected. One that dies before
  is not replaced: only a failed write tells, and there is none before.
* `FramesWithin` excuses an FFT made smaller after the overlap was set, which
  nobody checks again: `-f 6` alone leaves 64 bins and the default overlap of
  128 samples, and the offsets of the frames run backwards.
* `Wired` asks for a chain only where there is somewhere to write to: without
  `-n` and `-u`, and always in DEC with `-n`, a queue has no reader.
* `Convolves` needs a place for every tap (`NoTapLost`). The constructor of
  `RationalFIR` adds `size % rateI` zeros, not what is missing to a multiple, so
  decoder 6 (57 taps in 4 phases) works without its last tap.
* `SumsExactly` is about the six decoders. For the rate IQStream takes
  otherwise, 6 kHz, the growth of the CIC is 128^6, which is 0 in 32 bits, and
  the samples are divided by it: `Fits` does not hold of it.
* `WholeRecords` is about the contexts in `Roomy`: the buffer of a PSD record has
  room for 20 bytes beside the bins, so that with 256 bins it takes an overlap of
  0.03; with less the record is cut off.
* `RightBins` is an equivalence: with 256 bins, the bins of an overlap of 0.004
  are those of the middle, and those of 0.003 are not, as the index wraps.

Plain from the code: `-t` has no effect on the PSD pipeline; `TimeMicrosecs`
of a record holds nanoseconds (`AvroSerialization.cpp:468`); the retuning
thread computes `mustInvert` and does not use it; a gain of 0 is manual for
`open()` and automatic for a message; direct sampling is announced in the context
without being entered, and `SyncSampling` believes to be in it from the start;
the hosts of `-m` and the window of `-w` are stored and not used (the window is
always a Hamming window); `FractionalFIR` is used by no decoder.
`HonestWhileRunning` needs a scan whose every hop retunes. A scan of a single
hop never repeats a tune that failed and loses the inversion of a converter
after its first read; two hops that the converter leads to one frequency of
the dongle are read without a reset in between.

### Bounds, and why they are enough

Each bound is a named constant. Four components have two inner links, one to a
draining loop before a sink that may fail; longer chains repeat them, and the
proofs of section 5 cover every length. Two segments let one be queued while
another is held, six cover two reads of each batch and a rest that is carried
over. Two signals give the nested `finish_ok`; a third adds a deeper stack of
the same. Four hops have neighbours on both sides of the threshold and a wrap;
three faults allow a failure while another is being recovered from. Three
requests give a change, a change during a restart and the −1; the liveness run
has more starts than the requests and failures can cause. Six items fill the
first block, make the producer allocate, wrap, and return to a block. Three
records give a change of size and a size that stays; the short writes end in
the first and in the second chunk. Three messages give one that overtakes the
retuning thread between its two readings and one after it.
Four options are enough for any order of the three that interact, and for one
of them to come twice; FFT sizes on both sides of the default and overlaps on
both sides of each make every branch of `setSoverlap()` happen. The samples,
the registers and the order of the CIC are scaled down together (4 bits, 16
bits, order 3 for 8, 32 and 6), so that growth uses the register as in the code,
and the taps are fewer with the same remainder; five segments of two lengths, one of them shorter than a delay line,
put the border between segments at every phase.
Two runs go without deadlock checking. In `DecSafe`, with a closed stray
descriptor, `accept()` may really block `run()` for ever, and `stop()` with it;
in `Uplink` both threads may have come to their end.

## 4. Fairness

*Pipeline*: every thread that can move eventually does (the loops poll and
sleep for microseconds, and the scheduler is preemptive), and so do `main()`
and a started read. The device need not deliver or fail, the server need not
accept, the user need not signal. *Tuner*: the thread runs and no call to the
device blocks for ever, as libusb's time-outs ensure. *Decoder*: both threads
run, the device keeps delivering (IQStream notices a dead decoder only by
writing to it), and a decoder that does not fail gets to exec and to connect.
`hurried`, in the properties, excuses the runs in which a thread has not
started after the second `main()` sleeps; in the liveness runs `MayHurry` rules
them out. *Uplink*: `Transmission` runs, a server that can be reached is reached
in the end and takes what it is sent; that it is unreachable for good, or that
a handshake fails, is allowed and excused by name. *Retuner*: the three threads
run and a device that is being read delivers; the client need not send.
*Queue*: both threads finish what they have begun.

## 5. What is proved

Every safety property and every refinement that the passing runs check is a
theorem. Assumptions: the named `ASSUME`s of the modules
(`ChainAssumption`, `BoundsAssumption`, `TunerAssumption`, `DecoderAssumption`,
`SizeAssumption`, `UplinkAssumption`, `RetunerAssumption`, `SetupAssumption`,
`ResamplerAssumption`), which say no more than that the constants have their
types, that sources come first and sinks last and averages are those of
synchronous reads, that `main()` refuses an empty range, that the converter answers for every hop, that the blocks of a queue
have a power of two of slots (2 to 1024), that an FFT size times an averaging
factor fits a word, and that the rates are what `Downsampler` accepts:
interpolation at most 32 and at most the decimation. One theorem has a
hypothesis of its own, `Fits` (`CicIsExact`), which TLC evaluates for the
instances it checks.

`PipelineProofs`, for every chain, any set of signals and any bound:

* `TypeCorrect`: `TypeOK`.
* `OrderlyStop`: `StopsInOrder`. The property is not inductive: that a thread
  has ended says nothing of its producer unless one knows why it ended.
  `StopInv` adds that `finish_ok` has waited for every component before the
  one it is at (`FrameInv`, for every frame of the stack, since a nested call
  overtakes an outer one), that a component that has not begun still holds
  nothing (`StartInv`, `HoldInv`), that a cleared flag of a running component
  means its predecessor is done (`FlagInv`), and what follows at the end of a
  loop (`EndInv`, `EmptyInv`).
* `NothingAstray`: `Conserved`, by following each segment through the action
  that moves it.
* `NoLoss`: `NoLossOnExit`. `LossInv` adds that an IQ chain deletes a segment
  only when the connection breaks (`DropInv`) and that at the end of
  `finish_ok` every component is done (`ExitInv`); with `OrderlyStop` all
  queues are then empty, and with `NothingAstray` all segments written.
* `NothingOvertakes`: `InOrder`, which is inductive together with `Conserved`:
  every action takes the oldest segments of a place to the end of the next one,
  and what the device delivers is newer than all there is.
* `OneFinishIsSafe`: `AbortNeedsOverlap`. `ClaimInv` says what a call of
  `finish_ok` that is the only one has done: it has joined no component beyond
  the one it is at; so it never joins twice, nor a thread never started.
* `OneReadPerAverage`: `AveragedTogether`, for any batch of the FFT and any
  averaging factor. That no two reads are mixed is a matter of counting:
  `AverageInv` says that a read is a block of `AvgFactor` consecutive segments
  (`OriginInv`), and that what `Averaging` holds is the beginning of a block
  while all the segments after it, up to the last one captured, are still
  before it (`AlignInv`). It rests on `InOrder`: since nothing overtakes and
  nothing is astray, the next segment to arrive is the next one of the block.

`TunerProofs`, for every range, step and converter and any number of failures:

* `TypeCorrect`: `TypeOK`, strengthened by the frequencies being frequencies
  of the scan (`FreqInv`).
* `HonestScan`: `HonestWhileRunning`. `HonestInv` follows a hop to its read:
  the next hop differs from the present one (`HopInv`), so it is tuned; the
  dongle was last sent where the last hop wanted it, so the converter's path
  tunes it too (`ProxyInv`); the converter is set up and `mustInvert` is its
  answer (`SetupInv`); and before a read that is not the last one the dongle
  is tuned and its buffer empty (`TunedInv`).

* `DirectFollows`: `DirectOnceLeft`. `DirectInv` says that a loop that believes
  to have left direct sampling is right about the dongle; no step makes it wrong
  again, and what it believes is what the frequency of a read calls for.

`DecoderProofs`, for any requests, number of restarts, failures and answers of
the stray `select()`:

* `TypeCorrect`: `TypeOK`.
* `RestartsJoin`: `RestartJoins`. `MainInv`: `main()` is at a restart only if it
  has seen the flag set, which a thread that is up does once, or the thread has
  been waited for.
* `OneDecoderAlways`: `OneDecoder`. `ReapInv` ties `mChildPID` to the newest
  child from the moment `run()` notes it, so that `stop()` kills and waits for
  the right process; `QuietInv`, with it, gives `OrphansNeedSignal`:
  without a signal a stop finds `run()` started.
* `MismatchesAreTransient`: `MismatchIsTransient`. `ConnInv`: whoever is
  connected, is the newest decoder. `MatchInv`: there is a request that
  `main()` noted, and both the decoder forked and the formats in use were read
  no earlier. If the requests differ and the newest is the noted one, all three
  are the same.

`QueueProofs`, for any sizes and any number of blocks, any number of items and
every interleaving:

* `TypeCorrect`: `TypeOK`; `HeaderAssertions`: `AssertionsHold`;
  `NothingTorn`: `NoTornRead`. In a block, `localFront`, `front`, `localTail` and
  `tail` lie in this order around the ring (`Ordered`): a copy is old, never
  wrong. `ProducerOK` and `ConsumerOK` say that what a thread has found out
  stays true until it acts on it. Neither is inductive without the ring:
  `Shape` says that no two blocks have the same successor, and `InUse` that
  there is a set of blocks, from the front block to the tail block, that are
  full but for the front block, while all others are empty, save the one the
  producer has filled and is about to enter. That is why the block after the
  tail block is free unless it is the front block, and the block after the
  front block is filled unless the front block is the tail block.
* `NoneMissed`: `NothingMissed`. `ItemInv` adds what lies in the slots.
  `Numbered` says that the items of the blocks in use can be numbered through: a
  block holds consecutive numbers, its successor goes on where it ends, the
  front block begins with the item to be taken next and the tail block ends
  with the last one sent. `Pending` follows the item that has been put and not
  published, and `Found` says what the consumer may conclude: once it has seen
  its block empty and, looking again, found no other, the ring held nothing of
  what was there when the call began.
* `ImplementsFifo`: `IsFifo`, step by step. By the numbering the walk of the
  mapping meets the items sent and not taken, in order (`ContentsAre`); so
  `Publish` and `AdvanceTail` enqueue, `Release` dequeues, and all other steps
  stutter. The walk is a recursive function; that it exists is shown from the
  least number for which it would not (`Iterates`).

`UplinkProofs`, for every context, records of any size and any short writes:

* `TypeCorrect`: `TypeOK`; `PacketsAreFramed`: `Framed`. `SizeInv`: the size that
  is kept from the last record is the one this record needs whenever it is not
  computed again. `WireInv`: of the packet being written as much is out as
  `bytes_written` counts. `RecordInv`: what waits in the queue is not empty and
  was cut from the spectrum where `reduced_fft_size` says (`Cut`).
* `BinsAreRight`: `RightBins`. `Rounded` says what rounding down and up to an odd
  number leaves, for any overlap; `MiddleBins` follows the index from there
  through the subtraction that wraps, in both directions of the equivalence.
* `ImplementsFeed`: `IsFeed`. `NumberInv`: the packets on the wire, the record
  the thread is busy with and those in the queue are numbered without a gap, so
  that the packet completed is the next one of the feed; and once writing has
  failed nothing is added to what is whole.
* `RecordsAreWhole`: `WholeRecords`, for every context, by way of what it says of
  those in `Roomy`: the overlap takes away enough bins of a spectrum for what a
  record holds beside the bins.

`RetunerProofs`, for any conversation, any failures and any content of the dead
stack frame:

* `TypeCorrect`: `TypeOK`. What the retuning thread tunes to is a frequency of the
  command line or of a message (`KnownInv`), so only a failed call leaves it
  without an answer.
* `OnlyChangeKills`: `DiesOfChange`. `CalmInv`: as long as every message since the
  thread began has asked for what the one before it did, the thread has noted
  what the context holds and is not tuning.
* `SpectraInOrder`: `InAskedOrder`, the safety half of `LabelsSettle`, for any
  conversation that can be told apart (`Fresh`). `LineInv` puts the last
  spectrum, the segments on their way and what is received now in the order of
  the requests; each step adds to its end or takes from its front, since the
  device is only ever set to the newest request (`SameLine`).

`SetupProofs`, for any sizes, overlaps and factors whose products fit a word,
and any number of options:

* `FramesAreWithin`: `FramesWithin`. `FrameInv` says that the overlap is below
  the FFT size it was checked against; then nothing wraps (`NothingWraps`), and
  with the rounding to blocks of the bus (`Read`) every byte of a frame has been
  read.
* `AllWired`: `Wired`: no queue with two readers, for any command line, and a chain
  for a PSD or IQ pipeline with an output. The components are put together
  from pieces; two lemmas say when joining two pieces leaves every queue with one
  reader (`JoinedReads`) and makes a chain (`JoinedChain`), and two say which
  pieces `main()` joins (`BlocksRead`, `OutputsRead`).

`ResamplerProofs`, for any rates, number of taps and blocks, and any number of
calls:

* `FirKeepsRate`, `FirConvolves`, `FirInBounds`: the three properties of the
  polyphase filter, the second where no tap is lost (`NoTapLost`). Its inductive invariant, `FirInv`, says that the phase is
  how far the outputs are ahead of the samples (`PhaseInv`), that the delay
  line holds the last samples, each in the place its number gives it
  (`DelayInv`), that the CIC's output is the samples that come next
  (`BufferInv`), and that a call makes no more outputs than samples
  (`RoomInv`).
* `CicIsExact`: `SumsExactly`, for any samples, order and rate whose moving sums
  fit a word (`Fits`, true of the decoders). The registers alone do not tell
  what is put out, since they wrap. `CicInv` says that there is a table of
  integers without bound, `T[c][j][n]`, what c combs make of what j integrators
  make of the samples up to the n-th, and that the registers keep it modulo
  `Word` (`Tells`): the integrators its row without combs at the last sample,
  the combs its column with all integrators, where the last value was put out.
  A sample continues the table (`Continued`: what has been combed can be
  integrated just as well), both loops keep it modulo `Word`
  (`IntegratesWords`, `CombsWords`), and its diagonal is the moving sums
  (`CombedIntegrals`), which are less than `Word` (`MovingBound`): so equal to
  the word that keeps them (`KeptWord`). Induction over the registers, the
  samples and the order goes by the least number for which a statement fails
  (`UpTo`), and that a recursive function is what it says by building one step
  by step (`Steps`).

## 6. What is only model-checked

* Liveness under fairness, which is beyond the prover: all properties of the
  live runs, and `EveryHopHeard`, `Arrives`, `AllTaken`, `Follows`,
  `GainFollows` and the other half of `LabelsSettle`.

The library's theorems for induction take an operator, which no prover here can
instantiate; where a proof needs induction, it goes by the least number for
which the statement fails (`LeastOf` in `QueueProofs`, `UpTo` in
`ResamplerProofs`).

## 7. What is not modelled

* Sample arithmetic: windows, transforms, powers, the values of the taps, Avro
  encoding.
* The delivery of a signal to a thread other than the main one, and of the
  same signal while its handler runs (it is blocked then).
* `exit()` on an error of Avro, of a file or of a socket that cannot be set
  up; a failing `fork()` or allocation; leaked memory and descriptors.
* The size of queues (unbounded in the code; the models bound what the device
  delivers) and the memory model below sequential consistency.
* The serial protocol of the converter: a reply that takes more than 250 ms
  fails the call, a failed call ends the process (`Throw` of `Tuner`,
  `TuneThrows` of `Retuner`), and the next process empties the port before
  it sends a command, so a late reply is never taken for another one. The closing of `PSDFast`'s socket by
  its `stop()`; `PSDFast` and `IQStream` together, on one callback.
* `rtlsdr_proxy.c`, `peek`, `pop`, `try_enqueue` and `isRoundFinished`: nothing
  calls them.

## 8. Plan

Done: every module of section 2, in the order of their importance, and the
proofs of section 5.

Next, in this order:

1. The DEC pipeline as a composition: both consumers of the callback, and the
   closing of `PSDFast`'s socket while `run()` uses it.
2. The cases that the properties excuse (section 3) as properties of corrected
   code, once it is corrected.
