------------------------------ MODULE Pipeline ------------------------------
(***************************************************************************)
(* The PSD and IQ pipelines of es_sensor as main() wires them: a chain of  *)
(* components, each a thread, each fed by a single-producer/single-        *)
(* consumer queue of SpectrumSegment pointers, started in order by main(), *)
(* watched once a second, and stopped in order by finish_ok(), which runs  *)
(* in main() or in a signal handler that interrupts main() anywhere.       *)
(*                                                                         *)
(* Component 1 is rtlsdrDriver, component N the sink.  A segment is the    *)
(* number of its creation; origin[s] is the device read that produced it.  *)
(* The contents of a segment play no part here.                            *)
(***************************************************************************)
EXTENDS Integers, Sequences, Functions

CONSTANTS
  N,            \* the number of components in vComponents
  Kind,         \* Kind[i] is the class of component i
  AvgFactor,    \* getAvgFactor(): segments per synchronous read, and per average
  FFTBatch,     \* getFFTbatchlen()
  Signals,      \* signals delivered to main(), each at most once (BOUND)
  Timed,        \* getMonitorTime() # 0
  Delayed,      \* getStartTimeSampling() # 0
  MaxSegments   \* segments the device produces (BOUND)

Sources == {"SyncSampling", "AsyncSampling"}
PlainLoops == {"RemoveDC", "Windowing", "FFT", "Averaging", "AvroPSD", "FileSink"}
DrainingLoops == {"RemoveDCRTL", "AvroIQ", "IQSink", "Transmission"}
Sinks == {"FileSink", "IQSink", "Transmission"}

Stages == 1 .. N

ASSUME ChainAssumption ==
  /\ N \in Nat /\ N >= 2
  /\ Kind \in [Stages -> Sources \cup PlainLoops \cup DrainingLoops]
  /\ \A i \in Stages : (Kind[i] \in Sources <=> i = 1) /\ (Kind[i] \in Sinks <=> i = N)
  \* only the PSD pipeline averages: once, and what synchronous reads bring in
  /\ \A i, j \in Stages : Kind[i] = "Averaging" /\ Kind[j] = "Averaging" => i = j
  /\ \A i \in Stages : Kind[i] = "Averaging" => Kind[1] = "SyncSampling"

ASSUME BoundsAssumption ==
  /\ AvgFactor \in Nat \ {0}
  /\ FFTBatch \in Nat \ {0}
  /\ MaxSegments \in Nat
  /\ Timed \in BOOLEAN
  /\ Delayed \in BOOLEAN

VARIABLES
  \* -- component threads
  pc,           \* where the thread of each component is
  mRunning,     \* Component::mRunning, indeterminate until the thread writes it
  queue,        \* queue[i]: mQueueIn of component i
  hold,         \* hold[i]: segments dequeued (or just created) and not yet passed on
  origin,       \* origin[s]: the device read segment s was created from
  out,          \* segments the sink has written, in order
  dropped,      \* segments deleted without having been passed on
  asyncCancel,  \* librtlsdr: rtlsdr_cancel_async took effect on a running read_async
  link,         \* the connection of Transmission
  \* -- the main thread
  started,      \* components started so far
  frames,       \* active calls of finish_ok, innermost last
  claimed,      \* components whose thread some finish_ok has begun to join
  delivered,    \* signals already delivered
  status        \* of the process

threadVars == <<queue, hold, origin, out, dropped, link>>
mainVars == <<started, frames, claimed, delivered, status>>
vars == <<pc, mRunning, threadVars, asyncCancel, mainVars>>

Captured == Len(origin)
ReadCount == IF origin = <<>> THEN 0 ELSE origin[Captured]

(* How many segments the loop of component i collects before it passes any on. *)
Batch(i) ==
  CASE Kind[i] = "FFT" -> FFTBatch
    [] Kind[i] = "Averaging" -> AvgFactor
    [] OTHER -> 1

(* while (mRunning || mQueueIn->size_approx() != 0), as against while (mRunning) *)
Drains(i) == Kind[i] \in DrainingLoops

Async == Kind[1] = "AsyncSampling"

Goto(i, label) == pc' = [pc EXCEPT ![i] = label]
SetRunning(i, b) == mRunning' = [mRunning EXCEPT ![i] = b]

NewFrame == Append(frames, [at |-> 1, step |-> "clear"])
top == frames[Len(frames)]
TopTo(at, step) == frames' = [frames EXCEPT ![Len(frames)] = [at |-> at, step |-> step]]

-----------------------------------------------------------------------------
(* Faults: what some of the definitions below would be if the code had a   *)
(* plausible mistake in it.  No specification uses them.                   *)

(* while (mRunning) where the code drains.                                 *)
FaultTestNoDrain(i) ==
  /\ pc[i] = "test"
  /\ Goto(i, CASE mRunning[i] -> IF i = 1 THEN "hop" ELSE "poll"
               [] ~mRunning[i] -> IF i = 1 THEN "end" ELSE "done")
  /\ UNCHANGED <<mRunning, threadVars, asyncCancel, mainVars>>

(* while (mRunning && size_approx() != 0)                                  *)
FaultTestAnd(i) ==
  /\ pc[i] = "test"
  /\ Goto(i, CASE i = 1 -> IF mRunning[i] THEN "hop" ELSE "end"
               [] OTHER -> IF mRunning[i] /\ queue[i] # <<>> THEN "poll" ELSE "done")
  /\ UNCHANGED <<mRunning, threadVars, asyncCancel, mainVars>>

(* The loop goes on whatever size_approx() returns.                        *)
FaultSizeIgnored(i) ==
  /\ pc[i] = "size"
  /\ Goto(i, "poll")
  /\ UNCHANGED <<mRunning, threadVars, asyncCancel, mainVars>>

(* A segment dequeued after the flag was cleared is thrown away.           *)
FaultDequeueDiscards(i) ==
  /\ pc[i] = "poll"
  /\ queue[i] # <<>>
  /\ queue' = [queue EXCEPT ![i] = Tail(@)]
  /\ hold' = IF mRunning[i] THEN [hold EXCEPT ![i] = Append(@, Head(queue[i]))] ELSE hold
  /\ Goto(i, IF Len(hold'[i]) = Batch(i) THEN "emit" ELSE "test")
  /\ UNCHANGED <<mRunning, origin, out, dropped, link, asyncCancel, mainVars>>

(* Segments are passed on newest first.                                    *)
FaultForwardLIFO(i) ==
  /\ pc[i] = "emit"
  /\ Kind[i] \notin Sinks \cup {"Averaging"}
  /\ queue' = [queue EXCEPT ![i + 1] = <<Head(hold[i])>> \o @]
  /\ hold' = [hold EXCEPT ![i] = Tail(@)]
  /\ Goto(i, IF Len(hold[i]) = 1 THEN (IF Async /\ i = 1 THEN "duration" ELSE "test") ELSE "emit")
  /\ UNCHANGED <<mRunning, origin, out, dropped, link, asyncCancel, mainVars>>

(* The read is cut into one segment too few.                               *)
FaultReadShort ==
  /\ pc[1] = "hop"
  /\ Captured + AvgFactor <= MaxSegments
  /\ origin' = origin \o [k \in 1 .. AvgFactor - 1 |-> ReadCount + 1]
  /\ hold' = [hold EXCEPT ![1] = [k \in 1 .. AvgFactor - 1 |-> Captured + k]]
  /\ mRunning' \in {mRunning, [mRunning EXCEPT ![1] = FALSE]}
  /\ Goto(1, "emit")
  /\ UNCHANGED <<queue, out, dropped, link, asyncCancel, mainVars>>

(* for (i = 0; i <= vComponents.size(); ...)                               *)
FaultStartOneMore ==
  /\ frames = <<>>
  /\ started <= N
  /\ Goto(started + 1, "begin")
  /\ started' = started + 1
  /\ UNCHANGED <<mRunning, threadVars, asyncCancel, frames, claimed, delivered, status>>

(* stop() does not wait for its thread.                                    *)
FaultNoWait ==
  /\ frames # <<>>
  /\ top.step = "joining"
  /\ TopTo(top.at + 1, "clear")
  /\ UNCHANGED <<pc, mRunning, threadVars, asyncCancel, started, claimed, delivered, status>>

(* finish_ok() waits for a thread that stop() has waited for.              *)
FaultWaitTwice ==
  /\ frames # <<>>
  /\ top.step = "joining"
  /\ pc[top.at] = "done"
  /\ TopTo(top.at, "join")
  /\ UNCHANGED <<pc, mRunning, threadVars, asyncCancel, started, claimed, delivered, status>>

-----------------------------------------------------------------------------
Init ==
  /\ pc = [i \in Stages |-> "none"]
  /\ mRunning \in [Stages -> BOOLEAN]
  /\ queue = [i \in Stages |-> <<>>]
  /\ hold = [i \in Stages |-> <<>>]
  /\ origin = <<>>
  /\ out = <<>>
  /\ dropped = {}
  /\ asyncCancel = FALSE
  /\ link = "down"
  /\ started = 0
  /\ frames = <<>>
  /\ claimed = {}
  /\ delivered = {}
  /\ status = "up"

-----------------------------------------------------------------------------
(* run(): the first thing every thread does is to set its own flag.        *)
Begin(i) ==
  /\ pc[i] = "begin"
  /\ SetRunning(i, TRUE)
  /\ Goto(i, IF Kind[i] = "AsyncSampling" THEN "open" ELSE "test")
  /\ UNCHANGED <<threadVars, asyncCancel, mainVars>>

(* rtlsdrDriver::run, IQ: tune and reset the device.  A failure clears the *)
(* flag and carries on with the sampling thread all the same.              *)
OpenDevice ==
  /\ pc[1] = "open"
  /\ Goto(1, "wait")
  /\ mRunning' \in {mRunning, [mRunning EXCEPT ![1] = FALSE]}
  /\ UNCHANGED <<threadVars, asyncCancel, mainVars>>

(* aux_thread: a start time in the past ends it before it has sampled.     *)
StartTimePast ==
  /\ pc[1] = "wait"
  /\ Delayed
  /\ Goto(1, "end")
  /\ UNCHANGED <<mRunning, threadVars, asyncCancel, mainVars>>

(* aux_thread, once clock_nanosleep is over: rtlsdr_read_async, which      *)
(* forgets any cancellation asked for before it.                           *)
ReadAsync ==
  /\ pc[1] = "wait"
  /\ asyncCancel' = FALSE
  /\ Goto(1, "read")
  /\ UNCHANGED <<mRunning, threadVars, mainVars>>

(* capbuf_rtlsdr_callback makes one segment of each buffer of the device.  *)
Capture ==
  /\ pc[1] = "read"
  /\ Captured < MaxSegments
  /\ origin' = Append(origin, ReadCount + 1)
  /\ hold' = [hold EXCEPT ![1] = <<Captured + 1>>]
  /\ Goto(1, "emit")
  /\ UNCHANGED <<mRunning, queue, out, dropped, link, asyncCancel, mainVars>>

(* The end of the callback: with a monitor time the sampling thread cancels *)
(* the read and ends itself once that time is over.                        *)
CheckDuration ==
  /\ pc[1] = "duration"
  /\ \/ Goto(1, "read") /\ UNCHANGED asyncCancel
     \/ Timed /\ Goto(1, "end") /\ asyncCancel' = TRUE
  /\ UNCHANGED <<mRunning, threadVars, mainVars>>

(* rtlsdr_read_async returns after a cancellation, or if the device is lost. *)
ReadCanceled ==
  /\ pc[1] = "read"
  /\ asyncCancel
  /\ Goto(1, "end")
  /\ UNCHANGED <<mRunning, threadVars, asyncCancel, mainVars>>

DeviceLost ==
  /\ pc[1] = "read"
  /\ ~asyncCancel
  /\ Goto(1, "end")
  /\ UNCHANGED <<mRunning, threadVars, asyncCancel, mainVars>>

(* SyncSampling: hop to the next frequency; if that fails, back to the loop. *)
HopFails ==
  /\ pc[1] = "hop"
  /\ Goto(1, "test")
  /\ UNCHANGED <<mRunning, threadVars, asyncCancel, mainVars>>

(* SyncSampling: one rtlsdr_read_sync, cut into AvgFactor segments.  A     *)
(* failed read clears the flag, and its buffer is cut up like any other.   *)
ReadSync ==
  /\ pc[1] = "hop"
  /\ Captured + AvgFactor <= MaxSegments
  /\ origin' = origin \o [k \in 1 .. AvgFactor |-> ReadCount + 1]
  /\ hold' = [hold EXCEPT ![1] = [k \in 1 .. AvgFactor |-> Captured + k]]
  /\ mRunning' \in {mRunning, [mRunning EXCEPT ![1] = FALSE]}
  /\ Goto(1, "emit")
  /\ UNCHANGED <<queue, out, dropped, link, asyncCancel, mainVars>>

(* The end of rtlsdrDriver::run.                                           *)
EndDriver ==
  /\ pc[1] = "end"
  /\ SetRunning(1, FALSE)
  /\ Goto(1, "done")
  /\ UNCHANGED <<threadVars, asyncCancel, mainVars>>

-----------------------------------------------------------------------------
(* The loop condition, read in the order the code evaluates it: mRunning   *)
(* first, and size_approx() only by the loops that drain their queue.      *)
Test(i) ==
  /\ pc[i] = "test"
  /\ Goto(i, CASE mRunning[i] -> IF i = 1 THEN "hop" ELSE "poll"
               [] ~mRunning[i] /\ i = 1 -> "end"
               [] ~mRunning[i] /\ i # 1 -> IF Drains(i) THEN "size" ELSE "done")
  /\ UNCHANGED <<mRunning, threadVars, asyncCancel, mainVars>>

SizeApprox(i) ==
  /\ pc[i] = "size"
  /\ Goto(i, IF queue[i] # <<>> THEN "poll" ELSE "done")
  /\ UNCHANGED <<mRunning, threadVars, asyncCancel, mainVars>>

(* try_dequeue: a segment to collect, or a short sleep.                    *)
Dequeue(i) ==
  /\ pc[i] = "poll"
  /\ queue[i] # <<>>
  /\ queue' = [queue EXCEPT ![i] = Tail(@)]
  /\ hold' = [hold EXCEPT ![i] = Append(@, Head(queue[i]))]
  /\ Goto(i, IF Len(hold[i]) + 1 = Batch(i) THEN "emit" ELSE "test")
  /\ UNCHANGED <<mRunning, origin, out, dropped, link, asyncCancel, mainVars>>

PollEmpty(i) ==
  /\ pc[i] = "poll"
  /\ queue[i] = <<>>
  /\ Goto(i, "test")
  /\ UNCHANGED <<mRunning, threadVars, asyncCancel, mainVars>>

(* Where a thread goes when it has passed on what it held.                 *)
AfterEmit(i) == IF Kind[i] = "AsyncSampling" THEN "duration" ELSE "test"

(* Pass on the oldest segment held: mQueueOut->enqueue, one at a time.     *)
Forward(i) ==
  /\ pc[i] = "emit"
  /\ Kind[i] \notin Sinks \cup {"Averaging"}
  /\ queue' = [queue EXCEPT ![i + 1] = Append(@, Head(hold[i]))]
  /\ hold' = [hold EXCEPT ![i] = Tail(@)]
  /\ Goto(i, IF Len(hold[i]) = 1 THEN AfterEmit(i) ELSE "emit")
  /\ UNCHANGED <<mRunning, origin, out, dropped, link, asyncCancel, mainVars>>

(* Segments of different reads carry different centre frequencies.         *)
WrongCf(s) == \E k \in 2 .. Len(s) : origin[s[k - 1]] # origin[s[k]]

(* Averaging: the first segment carries the average on, the others are     *)
(* deleted.  On different frequencies it keeps them all and loops.         *)
Average(i) ==
  /\ pc[i] = "emit"
  /\ Kind[i] = "Averaging"
  /\ Goto(i, "test")
  /\ IF WrongCf(hold[i])
     THEN UNCHANGED <<queue, hold, dropped>>
     ELSE /\ queue' = [queue EXCEPT ![i + 1] = Append(@, hold[i][1])]
          /\ dropped' = dropped \cup {hold[i][k] : k \in 2 .. Len(hold[i])}
          /\ hold' = [hold EXCEPT ![i] = <<>>]
  /\ UNCHANGED <<mRunning, origin, out, link, asyncCancel, mainVars>>

(* Transmission::checkConnection, which tries until it succeeds.           *)
Connect(i) ==
  /\ pc[i] = "emit"
  /\ Kind[i] = "Transmission"
  /\ link = "down"
  /\ link' = "up"
  /\ UNCHANGED <<pc, mRunning, queue, hold, origin, out, dropped, asyncCancel, mainVars>>

(* A sink writes its segment and deletes it.                               *)
Write(i) ==
  /\ pc[i] = "emit"
  /\ Kind[i] \in Sinks
  /\ Kind[i] = "Transmission" => link = "up"
  /\ out' = out \o hold[i]
  /\ hold' = [hold EXCEPT ![i] = <<>>]
  /\ Goto(i, "test")
  /\ UNCHANGED <<mRunning, queue, origin, dropped, link, asyncCancel, mainVars>>

(* Transmission: a failed write clears the flag and leaves the loop.       *)
WriteFails(i) ==
  /\ pc[i] = "emit"
  /\ Kind[i] = "Transmission"
  /\ link = "up"
  /\ link' = "broken"
  /\ dropped' = dropped \cup Range(hold[i])
  /\ hold' = [hold EXCEPT ![i] = <<>>]
  /\ SetRunning(i, FALSE)
  /\ Goto(i, "done")
  /\ UNCHANGED <<queue, origin, out, asyncCancel, mainVars>>

-----------------------------------------------------------------------------
(* main(): start the components, in order.                                 *)
StartNext ==
  /\ frames = <<>>
  /\ started < N
  /\ Goto(started + 1, "begin")
  /\ started' = started + 1
  /\ UNCHANGED <<mRunning, threadVars, asyncCancel, frames, claimed, delivered, status>>

(* main(): the watcher leaves its loop when some component is not running. *)
Watch ==
  /\ frames = <<>>
  /\ started = N
  /\ \E i \in Stages : ~mRunning[i]
  /\ frames' = NewFrame
  /\ UNCHANGED <<pc, mRunning, threadVars, asyncCancel, started, claimed, delivered, status>>

(* signal_callback_handler interrupts the main thread wherever it is.      *)
Deliver(s) ==
  /\ s \notin delivered
  /\ delivered' = delivered \cup {s}
  /\ frames' = NewFrame
  /\ UNCHANGED <<pc, mRunning, threadVars, asyncCancel, started, claimed, status>>

(* stop() of the next component: mRunning = false ...                      *)
ClearFlag ==
  /\ frames # <<>>
  /\ top.step = "clear" /\ top.at <= N
  /\ SetRunning(top.at, FALSE)
  /\ TopTo(top.at, IF Kind[top.at] = "AsyncSampling" THEN "cancel" ELSE "join")
  /\ UNCHANGED <<pc, threadVars, asyncCancel, started, claimed, delivered, status>>

(* ... rtlsdr_cancel_async, which does nothing unless a read is under way ... *)
CancelAsync ==
  /\ frames # <<>>
  /\ top.step = "cancel"
  /\ asyncCancel' = (asyncCancel \/ pc[1] \in {"read", "emit", "duration"})
  /\ TopTo(top.at, "join")
  /\ UNCHANGED <<pc, mRunning, threadVars, started, claimed, delivered, status>>

(* ... and waitForThread().  std::thread::join throws for a thread that was *)
(* never started and for one that was or is being joined: the exception    *)
(* leaves finish_ok and, in the end, aborts the process.                   *)
JoinBegins ==
  /\ frames # <<>>
  /\ top.step = "join"
  /\ IF pc[top.at] = "none" \/ top.at \in claimed
     THEN status' = "aborted" /\ UNCHANGED <<frames, claimed>>
     ELSE /\ claimed' = claimed \cup {top.at}
          /\ TopTo(top.at, "joining")
          /\ UNCHANGED status
  /\ UNCHANGED <<pc, mRunning, threadVars, asyncCancel, started, delivered>>

JoinReturns ==
  /\ frames # <<>>
  /\ top.step = "joining"
  /\ pc[top.at] = "done"
  /\ TopTo(top.at + 1, "clear")
  /\ UNCHANGED <<pc, mRunning, threadVars, asyncCancel, started, claimed, delivered, status>>

(* finish_ok() is over: main() returns, or the handler calls exit().       *)
Exit ==
  /\ frames # <<>>
  /\ top.step = "clear" /\ top.at = N + 1
  /\ status' = "exited"
  /\ UNCHANGED <<pc, mRunning, threadVars, asyncCancel, started, frames, claimed, delivered>>

-----------------------------------------------------------------------------
Driver ==
  \/ OpenDevice \/ StartTimePast \/ ReadAsync \/ Capture \/ CheckDuration
  \/ ReadCanceled \/ DeviceLost \/ HopFails \/ ReadSync \/ EndDriver

Loop(i) ==
  \/ Begin(i) \/ Test(i) \/ SizeApprox(i) \/ Dequeue(i) \/ PollEmpty(i)
  \/ Forward(i) \/ Average(i) \/ Connect(i) \/ Write(i) \/ WriteFails(i)

Main ==
  \/ StartNext \/ Watch \/ ClearFlag \/ CancelAsync
  \/ JoinBegins \/ JoinReturns \/ Exit

(* The process is gone and nothing can follow.                             *)
Gone == status # "up" /\ UNCHANGED vars

Next ==
  \/ /\ status = "up"
     /\ \/ Driver
        \/ \E i \in Stages : Loop(i)
        \/ Main
        \/ \E s \in Signals : Deliver(s)
  \/ Gone

Spec == Init /\ [][Next]_vars

(* Every thread is scheduled again and again and a sleeping one wakes up;  *)
(* the device, the network and the user owe nothing.                       *)
Up(A) == status = "up" /\ A
Fairness ==
  /\ \A i \in Stages : WF_vars(Up(Begin(i) \/ Test(i) \/ SizeApprox(i) \/ Dequeue(i)
                                  \/ PollEmpty(i) \/ Forward(i) \/ Average(i) \/ Write(i)))
  /\ WF_vars(Up(OpenDevice \/ ReadAsync \/ CheckDuration \/ ReadCanceled \/ EndDriver))
  /\ WF_vars(Up(HopFails \/ ReadSync))
  /\ WF_vars(Up(Main))

FairSpec == Spec /\ Fairness

-----------------------------------------------------------------------------
(*                              Properties                                 *)

Labels == {"none", "begin", "open", "wait", "read", "duration", "hop", "end",
           "test", "size", "poll", "emit", "done"}

(* A call of finish_ok: the component it is at, and how far its stop() is. *)
Frame == [at : 1 .. N + 1, step : {"clear"}]
           \cup [at : Stages, step : {"cancel", "join", "joining"}]

(* The type of every variable.                                             *)
TypeOK ==
  /\ pc \in [Stages -> Labels]
  /\ mRunning \in [Stages -> BOOLEAN]
  /\ queue \in [Stages -> Seq(Nat)]
  /\ hold \in [Stages -> Seq(Nat)]
  /\ origin \in Seq(Nat)
  /\ out \in Seq(Nat)
  /\ dropped \subseteq Nat
  /\ asyncCancel \in BOOLEAN
  /\ link \in {"down", "up", "broken"}
  /\ started \in 0 .. N
  /\ frames \in Seq(Frame)
  /\ claimed \subseteq Stages
  /\ delivered \subseteq Signals
  /\ status \in {"up", "exited", "aborted"}

(* No segment is lost track of: every one the driver created is written,   *)
(* deleted, queued, or held by exactly the thread that is to pass it on.   *)
Conserved ==
  1 .. Captured = Range(out) \cup dropped
                    \cup UNION {Range(queue[i]) \cup Range(hold[i]) : i \in Stages}

Ascending(s) == \A a, b \in DOMAIN s : a < b => s[a] < s[b]
Before(s, t) == \A x \in Range(s), y \in Range(t) : x < y

(* Segments never overtake one another, wherever they are between the      *)
(* device and the sink; in particular none is in two places, so that no    *)
(* thread touches a segment that another may delete.                       *)
InOrder ==
  /\ Ascending(out)
  /\ \A i \in Stages :
       /\ Ascending(hold[i]) /\ Ascending(queue[i])
       /\ Before(out, hold[i]) /\ Before(out, queue[i]) /\ Before(hold[i], queue[i])
       /\ \A j \in Stages : i < j => /\ Before(hold[j], hold[i]) /\ Before(hold[j], queue[i])
                                     /\ Before(queue[j], hold[i]) /\ Before(queue[j], queue[i])

(* The chains of the IQ pipeline: every loop after the driver drains.      *)
IQChain == \A i \in 2 .. N : Drains(i)

(* finish_ok() stops the components in the order of the chain, so a        *)
(* draining loop sees its flag cleared only after its producer's thread    *)
(* has ended: when the process ends, every IQ segment the device delivered *)
(* has been written, unless the connection broke.                          *)
NoLossOnExit ==
  (status = "exited" /\ IQChain /\ link # "broken") => Range(out) = 1 .. Captured

(* A loop ends only after the thread that feeds it has ended, whatever     *)
(* signals interrupt main() and whatever the flags held at first; and a    *)
(* draining loop leaves nothing behind.                                    *)
StopsInOrder ==
  \A i \in 2 .. N : (pc[i] = "done" /\ link # "broken") =>
    /\ pc[i - 1] = "done"
    /\ Drains(i) => queue[i] = <<>> /\ hold[i] = <<>>

(* The segments Averaging collects are those of one synchronous read, so   *)
(* that its centre-frequency check never stalls it: the driver's count per *)
(* read, FFT batches and Averaging's count stay aligned.                   *)
AveragedTogether ==
  \A i \in Stages : Kind[i] = "Averaging" =>
    \A k, m \in DOMAIN hold[i] : origin[hold[i][k]] = origin[hold[i][m]]

(* finish_ok() aborts the process only if it was entered twice, or before  *)
(* main() had started every component.                                     *)
AbortNeedsOverlap ==
  status = "aborted" => Len(frames) >= 2 \/ started < N

(* Liveness.  A single call of finish_ok() that begins once every thread   *)
(* runs, and the device is being read, ends the process.                   *)
AllRunning ==
  /\ \A i \in Stages : pc[i] \notin {"none", "begin"}
  /\ pc[1] \notin {"open", "wait"}
  /\ Kind[N] # "Transmission"
StopCompletes ==
  (frames = <<[at |-> 1, step |-> "clear"]>> /\ AllRunning) ~> status # "up"

(* What the device delivers to an IQ file reaches the file, unless the     *)
(* process is being stopped.                                               *)
Delivered ==
  \A n \in 1 .. MaxSegments :
    (Captured >= n) ~> (n \in Range(out) \/ frames # <<>>)

=============================================================================
