--------------------------- MODULE PipelineProofs ---------------------------
(* Safety of the pipelines of Pipeline, for any chain main() could build.  *)
EXTENDS Pipeline, SequenceTheorems, TLAPS

LEMMA NType == N \in Nat /\ N >= 2 /\ 1 \in Stages /\ N \in Stages
BY ChainAssumption DEF Stages

LEMMA BatchType == ASSUME NEW i \in Stages PROVE Batch(i) \in Nat \ {0}
BY BoundsAssumption DEF Batch

LEMMA Predecessor == \A i \in 2 .. N : i \in Stages /\ i - 1 \in Stages /\ i # 1
BY NType DEF Stages

(* Only the last component is a sink, so every other one has a successor.  *)
LEMMA Successor ==
  ASSUME NEW i \in Stages, Kind[i] \notin Sinks
  PROVE  i + 1 \in 2 .. N /\ i + 1 \in Stages
BY ChainAssumption DEF Stages

(* What queues and threads do to their sequences of segments.              *)
LEMMA AppendFacts ==
  ASSUME NEW s \in Seq(Nat), NEW x \in Nat
  PROVE  /\ Append(s, x) \in Seq(Nat) /\ Append(s, x) # <<>>
         /\ Range(Append(s, x)) = Range(s) \cup {x}
<1>1. Append(s, x) \in Seq(Nat) /\ Len(Append(s, x)) = Len(s) + 1
  OBVIOUS
<1>2. Append(s, x) # <<>>
  BY <1>1, LenProperties, EmptySeq
<1>3. \A k \in 1 .. Len(s) : Append(s, x)[k] = s[k]
  OBVIOUS
<1>4. Append(s, x)[Len(s) + 1] = x
  OBVIOUS
<1>5. Range(Append(s, x)) = Range(s) \cup {x}
  <2>1. DOMAIN Append(s, x) = 1 .. (Len(s) + 1) /\ DOMAIN s = 1 .. Len(s) /\ Len(s) \in Nat
    BY <1>1, LenProperties
  <2>2. 1 .. (Len(s) + 1) = 1 .. Len(s) \cup {Len(s) + 1}
    BY <2>1
  <2>3. QED
    BY <2>1, <2>2, <1>3, <1>4 DEF Range
<1>6. QED
  BY <1>1, <1>2, <1>5

LEMMA HeadTailFacts ==
  ASSUME NEW s \in Seq(Nat), s # <<>>
  PROVE  /\ Head(s) \in Nat /\ Tail(s) \in Seq(Nat)
         /\ Len(Tail(s)) = Len(s) - 1
         /\ Range(s) = {Head(s)} \cup Range(Tail(s))
<1>1. Head(s) \in Nat /\ Tail(s) \in Seq(Nat) /\ Len(Tail(s)) = Len(s) - 1
  OBVIOUS
<1>2. Head(s) = s[1] /\ \A k \in 1 .. Len(Tail(s)) : Tail(s)[k] = s[k + 1]
  OBVIOUS
<1>3. DOMAIN s = 1 .. Len(s) /\ DOMAIN Tail(s) = 1 .. (Len(s) - 1) /\ Len(s) \in Nat \ {0}
  BY <1>1, LenProperties, EmptySeq
<1>4. Range(s) \subseteq {Head(s)} \cup Range(Tail(s))
  <2> SUFFICES ASSUME NEW k \in 1 .. Len(s) PROVE s[k] \in {Head(s)} \cup Range(Tail(s))
    BY <1>3 DEF Range
  <2>1. CASE k = 1
    BY <2>1, <1>2
  <2>2. CASE k # 1
    <3>1. k - 1 \in DOMAIN Tail(s) /\ Tail(s)[k - 1] = s[k]
      BY <2>2, <1>1, <1>2, <1>3
    <3>2. QED
      BY <3>1 DEF Range
  <2>3. QED
    BY <2>1, <2>2
<1>5. {Head(s)} \cup Range(Tail(s)) \subseteq Range(s)
  <2>1. Head(s) \in Range(s)
    BY <1>2, <1>3 DEF Range
  <2>2. ASSUME NEW k \in DOMAIN Tail(s) PROVE Tail(s)[k] \in Range(s)
    <3>1. k + 1 \in DOMAIN s /\ Tail(s)[k] = s[k + 1]
      BY <1>1, <1>2, <1>3
    <3>2. QED
      BY <3>1 DEF Range
  <2>3. QED
    BY <2>1, <2>2 DEF Range
<1>6. QED
  BY <1>1, <1>4, <1>5

-----------------------------------------------------------------------------
(* A thread about to pass a segment on holds one.                          *)
EmitOK == \A i \in Stages : pc[i] = "emit" => hold[i] # <<>>

TypeInv == TypeOK /\ EmitOK

LEMMA InitTypeInv == Init => TypeInv
<1> SUFFICES ASSUME Init PROVE TypeInv
  OBVIOUS
<1>1. /\ queue \in [Stages -> Seq(Nat)] /\ hold \in [Stages -> Seq(Nat)]
      /\ origin \in Seq(Nat) /\ out \in Seq(Nat)
      /\ frames \in Seq(Frame)
  BY DEF Init
<1>2. started \in 0 .. N
  BY NType DEF Init
<1>3. TypeOK
  BY <1>1, <1>2 DEF Init, TypeOK, Labels
<1>4. EmitOK
  BY DEF Init, EmitOK
<1>5. QED
  BY <1>3, <1>4 DEF TypeInv

LEMMA DriverTypeInv == ASSUME TypeInv, Driver PROVE TypeInv'
<1> USE NType DEF TypeInv, TypeOK, EmitOK, Labels, Goto, SetRunning, threadVars, mainVars
<1>1. CASE OpenDevice
  BY <1>1 DEF OpenDevice
<1>2. CASE StartTimePast
  BY <1>2 DEF StartTimePast
<1>3. CASE ReadAsync
  BY <1>3 DEF ReadAsync
<1>4. CASE Capture
  <2>1. Captured \in Nat /\ ReadCount \in Nat
    BY LenProperties, ElementOfSeq DEF Captured, ReadCount
  <2>2. <<Captured + 1>> \in Seq(Nat) /\ <<Captured + 1>> # <<>>
    BY <2>1
  <2>3. origin' \in Seq(Nat)
    BY <1>4, <2>1 DEF Capture
  <2>4. TypeOK'
    BY <1>4, <2>2, <2>3 DEF Capture
  <2>5. EmitOK'
    BY <1>4, <2>2 DEF Capture
  <2>6. QED
    BY <2>4, <2>5
<1>5. CASE CheckDuration
  BY <1>5 DEF CheckDuration
<1>6. CASE ReadCanceled
  BY <1>6 DEF ReadCanceled
<1>7. CASE DeviceLost
  BY <1>7 DEF DeviceLost
<1>8. CASE HopFails
  BY <1>8 DEF HopFails
<1>9. CASE ReadSync
  <2> DEFINE cut == [k \in 1 .. AvgFactor |-> Captured + k]
             read == [k \in 1 .. AvgFactor |-> ReadCount + 1]
  <2>1. Captured \in Nat /\ ReadCount \in Nat /\ AvgFactor \in Nat \ {0}
    BY LenProperties, ElementOfSeq, BoundsAssumption DEF Captured, ReadCount
  <2>2. cut \in Seq(Nat) /\ Len(cut) = AvgFactor /\ read \in Seq(Nat)
    BY <2>1
  <2>3. cut # <<>>
    BY <2>1, <2>2
  <2>4. origin' \in Seq(Nat)
    BY <1>9, <2>2 DEF ReadSync
  <2>5. hold' = [hold EXCEPT ![1] = cut]
    BY <1>9 DEF ReadSync
  <2> HIDE DEF cut, read
  <2>9. hold' \in [Stages -> Seq(Nat)]
    BY <2>2, <2>5
  <2>6. TypeOK'
    BY <1>9, <2>4, <2>9 DEF ReadSync
  <2>7. EmitOK'
    BY <1>9, <2>3, <2>5 DEF ReadSync
  <2>8. QED
    BY <2>6, <2>7
<1>10. CASE EndDriver
  BY <1>10 DEF EndDriver
<1>11. QED
  BY <1>1, <1>2, <1>3, <1>4, <1>5, <1>6, <1>7, <1>8, <1>9, <1>10 DEF Driver

LEMMA LoopTypeInv == ASSUME TypeInv, NEW i \in Stages, Loop(i) PROVE TypeInv'
<1> USE NType DEF TypeInv, TypeOK, EmitOK, Labels, Goto, SetRunning, threadVars, mainVars
<1>1. CASE Begin(i)
  BY <1>1 DEF Begin
<1>2. CASE Test(i)
  BY <1>2 DEF Test
<1>3. CASE SizeApprox(i)
  BY <1>3 DEF SizeApprox
<1>4. CASE Dequeue(i)
  <2>1. Head(queue[i]) \in Nat /\ Tail(queue[i]) \in Seq(Nat)
    BY <1>4 DEF Dequeue
  <2>2. Append(hold[i], Head(queue[i])) \in Seq(Nat) /\ Append(hold[i], Head(queue[i])) # <<>>
    BY <2>1, AppendFacts
  <2>3. TypeOK'
    BY <1>4, <2>1, <2>2 DEF Dequeue
  <2>4. EmitOK'
    BY <1>4, <2>2 DEF Dequeue
  <2>5. QED
    BY <2>3, <2>4
<1>5. CASE PollEmpty(i)
  BY <1>5 DEF PollEmpty
<1>6. CASE Forward(i)
  <2>1. hold[i] # <<>>
    BY <1>6 DEF Forward
  <2>2. Head(hold[i]) \in Nat /\ Tail(hold[i]) \in Seq(Nat) /\ Len(Tail(hold[i])) = Len(hold[i]) - 1
    BY <2>1
  <2>3. i + 1 \in Stages
    BY <1>6, Successor DEF Forward
  <2>4. Append(queue[i + 1], Head(hold[i])) \in Seq(Nat)
    BY <2>2, <2>3
  <2>5. TypeOK'
    BY <1>6, <2>2, <2>4 DEF Forward, AfterEmit
  <2>6. Len(hold[i]) # 1 => Tail(hold[i]) # <<>>
    <3>1. Len(hold[i]) # 0
      BY <2>1, EmptySeq, hold[i] \in Seq(Nat)
    <3>2. Len(hold[i]) # 1 => Len(Tail(hold[i])) # 0
      BY <3>1, <2>2, LenProperties, hold[i] \in Seq(Nat)
    <3>3. QED
      BY <3>2, <2>2, EmptySeq
  <2>7. EmitOK'
    BY <1>6, <2>6 DEF Forward, AfterEmit
  <2>8. QED
    BY <2>5, <2>7
<1>7. CASE Average(i)
  <2>1. hold[i] # <<>>
    BY <1>7 DEF Average
  <2>2. \A k \in 1 .. Len(hold[i]) : hold[i][k] \in Nat
    OBVIOUS
  <2>9. Kind[i] \notin Sinks
    BY <1>7 DEF Average, Sinks
  <2>3. hold[i][1] \in Nat /\ i + 1 \in Stages
    <3>1. Len(hold[i]) \in Nat \ {0}
      BY <2>1, EmptySeq, hold[i] \in Seq(Nat)
    <3>2. hold[i][1] \in Nat
      BY <3>1, <2>2
    <3>3. QED
      BY <3>2, <2>9, Successor
  <2>4. Append(queue[i + 1], hold[i][1]) \in Seq(Nat)
    BY <2>3
  <2>5. {hold[i][k] : k \in 2 .. Len(hold[i])} \subseteq Nat
    BY <2>2
  <2>12. \/ queue' = queue /\ hold' = hold
         \/ /\ queue' = [queue EXCEPT ![i + 1] = Append(queue[i + 1], hold[i][1])]
            /\ hold' = [hold EXCEPT ![i] = <<>>]
    BY <1>7 DEF Average
  <2>10. queue' \in [Stages -> Seq(Nat)] /\ hold' \in [Stages -> Seq(Nat)]
    <3>1. ASSUME NEW s \in Seq(Nat) PROVE [queue EXCEPT ![i + 1] = s] \in [Stages -> Seq(Nat)]
      OBVIOUS
    <3>2. [hold EXCEPT ![i] = <<>>] \in [Stages -> Seq(Nat)]
      OBVIOUS
    <3>3. QED
      BY <2>12, <2>4, <3>1, <3>2
  <2>11. dropped' \subseteq Nat
    BY <1>7, <2>5 DEF Average
  <2>6. TypeOK'
    BY <1>7, <2>10, <2>11 DEF Average
  <2>7. EmitOK'
    BY <1>7 DEF Average
  <2>8. QED
    BY <2>6, <2>7
<1>8. CASE Connect(i)
  BY <1>8 DEF Connect
<1>9. CASE Write(i)
  <2>1. out' \in Seq(Nat) /\ hold' \in [Stages -> Seq(Nat)]
    BY <1>9 DEF Write
  <2>2. QED
    BY <1>9, <2>1 DEF Write
<1>10. CASE WriteFails(i)
  <2>1. Range(hold[i]) \subseteq Nat
    BY DEF Range
  <2>2. hold' \in [Stages -> Seq(Nat)]
    BY <1>10 DEF WriteFails
  <2>4. dropped' \subseteq Nat
    BY <1>10, <2>1 DEF WriteFails
  <2>3. QED
    BY <1>10, <2>2, <2>4 DEF WriteFails
<1>11. QED
  BY <1>1, <1>2, <1>3, <1>4, <1>5, <1>6, <1>7, <1>8, <1>9, <1>10 DEF Loop

(* The innermost call of finish_ok is a call of finish_ok.                 *)
LEMMA TopType ==
  ASSUME TypeOK, frames # <<>>
  PROVE  Len(frames) \in DOMAIN frames /\ top \in Frame
<1>1. frames \in Seq(Frame)
  BY DEF TypeOK
<1>2. Len(frames) \in 1 .. Len(frames)
  BY <1>1, EmptySeq, LenProperties
<1>3. QED
  BY <1>1, <1>2, ElementOfSeq, LenProperties DEF top

LEMMA TopToType ==
  ASSUME TypeOK, frames # <<>>, NEW a, NEW b, [at |-> a, step |-> b] \in Frame, TopTo(a, b)
  PROVE  frames' \in Seq(Frame)
BY TopType, ExceptSeq DEF TypeOK, TopTo

LEMMA MainTypeInv ==
  ASSUME TypeInv, Main \/ \E s \in Signals : Deliver(s) PROVE TypeInv'
<1> USE NType DEF TypeInv, TypeOK, EmitOK, Labels, Goto, SetRunning, threadVars, mainVars
<1>0. NewFrame \in Seq(Frame)
  BY DEF NewFrame, Frame
<1>1. CASE StartNext
  <2>1. started + 1 \in Stages /\ started' \in 0 .. N
    BY <1>1 DEF StartNext, Stages
  <2>2. TypeOK'
    BY <1>1, <2>1 DEF StartNext
  <2>3. EmitOK'
    BY <1>1 DEF StartNext
  <2>4. QED
    BY <2>2, <2>3
<1>2. CASE Watch
  BY <1>2, <1>0 DEF Watch
<1>3. ASSUME NEW s \in Signals, Deliver(s) PROVE TypeInv'
  BY <1>3, <1>0 DEF Deliver
<1>5. CASE ClearFlag
  <2>1. top.at \in Stages
    BY <1>5, TopType DEF ClearFlag, Frame, Stages
  <2>2. \A b \in {"cancel", "join"} : [at |-> top.at, step |-> b] \in Frame
    BY <2>1 DEF Frame
  <2>3. frames' \in Seq(Frame)
    BY <1>5, <2>2, TopToType DEF ClearFlag
  <2>4. QED
    BY <1>5, <2>1, <2>3 DEF ClearFlag
<1>6. CASE CancelAsync
  <2>1. [at |-> top.at, step |-> "join"] \in Frame
    BY <1>6, TopType DEF CancelAsync, Frame
  <2>2. frames' \in Seq(Frame)
    BY <1>6, <2>1, TopToType DEF CancelAsync
  <2>3. QED
    BY <1>6, <2>2 DEF CancelAsync
<1>7. CASE JoinBegins
  <2>1. top.at \in Stages
    BY <1>7, TopType DEF JoinBegins, Frame
  <2>2. [at |-> top.at, step |-> "joining"] \in Frame
    BY <2>1 DEF Frame
  <2>3. frames' \in Seq(Frame)
    BY <1>7, <2>2, TopToType DEF JoinBegins
  <2>4. claimed' \subseteq Stages /\ status' \in {"up", "exited", "aborted"}
    BY <1>7, <2>1 DEF JoinBegins
  <2>5. QED
    BY <1>7, <2>3, <2>4 DEF JoinBegins
<1>8. CASE JoinReturns
  <2>1. top.at \in Stages
    BY <1>8, TopType DEF JoinReturns, Frame
  <2>2. [at |-> top.at + 1, step |-> "clear"] \in Frame
    BY <2>1 DEF Frame, Stages
  <2>3. frames' \in Seq(Frame)
    BY <1>8, <2>2, TopToType DEF JoinReturns
  <2>4. QED
    BY <1>8, <2>3 DEF JoinReturns
<1>9. CASE Exit
  BY <1>9 DEF Exit
<1>10. QED
  BY <1>1, <1>2, <1>3, <1>5, <1>6, <1>7, <1>8, <1>9 DEF Main

LEMMA TypeInvInductive == TypeInv /\ [Next]_vars => TypeInv'
<1> SUFFICES ASSUME TypeInv, [Next]_vars PROVE TypeInv'
  OBVIOUS
<1>1. CASE UNCHANGED vars
  BY <1>1 DEF vars, threadVars, mainVars, TypeInv, TypeOK, EmitOK
<1>2. QED
  BY <1>1, DriverTypeInv, LoopTypeInv, MainTypeInv DEF Next, Gone

(* The variables keep their types.                                         *)
THEOREM TypeCorrect == Spec => []TypeOK
<1>1. TypeInv => TypeOK
  BY DEF TypeInv
<1>2. QED
  BY <1>1, InitTypeInv, TypeInvInductive, PTL DEF Spec

-----------------------------------------------------------------------------
(* Why the components stop in order.  Every call of finish_ok has seen the *)
(* threads before the component it is at end; so the flag of a component   *)
(* whose thread runs is cleared only after its producer ended, its loop    *)
(* ends only then, and a draining loop only once its queue, to which       *)
(* nobody adds any more, is empty.                                         *)
FrameInv == \A n \in DOMAIN frames : \A j \in Stages : j < frames[n].at => pc[j] = "done"
StartInv == \A i \in Stages : i > started => pc[i] = "none"
HoldInv == \A i \in Stages : (i = 1 \/ Drains(i)) /\ pc[i] # "emit" => hold[i] = <<>>
FlagInv ==
  link # "broken" =>
    \A i \in 2 .. N : pc[i] \notin {"none", "begin"} /\ ~mRunning[i] => pc[i - 1] = "done"
EndInv ==
  link # "broken" => \A i \in 2 .. N : pc[i] \in {"size", "done"} => pc[i - 1] = "done"
EmptyInv ==
  link # "broken" => \A i \in 2 .. N : Drains(i) /\ pc[i] = "done" => queue[i] = <<>>

StopInv ==
  FrameInv /\ StartInv /\ HoldInv /\ FlagInv /\ EndInv /\ EmptyInv

LEMMA InitStopInv == Init => StopInv
BY DEF Init, StopInv, FrameInv, StartInv, HoldInv, FlagInv, EndInv, EmptyInv, Stages

(* A thread that has ended stays ended.                                    *)
LEMMA DoneStays ==
  ASSUME TypeInv, StopInv, Next, NEW j \in Stages, pc[j] = "done" PROVE pc'[j] = "done"
<1> USE NType DEF TypeInv, TypeOK, Goto, threadVars, mainVars
<1>1. CASE Driver
  BY <1>1 DEF Driver, OpenDevice, StartTimePast, ReadAsync, Capture, CheckDuration,
       ReadCanceled, DeviceLost, HopFails, ReadSync, EndDriver
<1>2. ASSUME NEW i \in Stages, Loop(i) PROVE pc'[j] = "done"
  BY <1>2 DEF Loop, Begin, Test, SizeApprox, Dequeue, PollEmpty, Forward, Average,
       Connect, Write, WriteFails
<1>3. CASE StartNext
  <2>1. j <= started
    BY <1>3, NType DEF StopInv, StartInv, Stages
  <2>2. QED
    BY <1>3, <2>1 DEF StartNext, Stages
<1>4. CASE Main /\ ~StartNext
  BY <1>4 DEF Main, Watch, ClearFlag, CancelAsync, JoinBegins, JoinReturns, Exit
<1>5. ASSUME NEW s \in Signals, Deliver(s) PROVE pc'[j] = "done"
  BY <1>5 DEF Deliver
<1>6. CASE Gone
  BY <1>6 DEF Gone, vars
<1>7. QED
  BY <1>1, <1>2, <1>3, <1>4, <1>5, <1>6 DEF Next

LEMMA DriverStopInv ==
  ASSUME TypeInv, StopInv, Next, Driver PROVE StopInv'
<1> USE NType DEF TypeInv, TypeOK, Goto, SetRunning, threadVars, mainVars
<1>1. \A j \in Stages : pc[j] = "done" => pc'[j] = "done"
  BY DoneStays
<1>2. \A j \in Stages : j # 1 => pc'[j] = pc[j] /\ mRunning'[j] = mRunning[j] /\ hold'[j] = hold[j]
  BY DEF Driver, OpenDevice, StartTimePast, ReadAsync, Capture, CheckDuration,
       ReadCanceled, DeviceLost, HopFails, ReadSync, EndDriver
<1>3. UNCHANGED <<queue, link, frames, started>>
  BY DEF Driver, OpenDevice, StartTimePast, ReadAsync, Capture, CheckDuration,
       ReadCanceled, DeviceLost, HopFails, ReadSync, EndDriver
<1>4. pc[1] # "none" /\ pc'[1] # "none"
  BY DEF Driver, OpenDevice, StartTimePast, ReadAsync, Capture, CheckDuration,
       ReadCanceled, DeviceLost, HopFails, ReadSync, EndDriver
<1>5. pc[1] # "emit" /\ (pc'[1] # "emit" => hold'[1] = hold[1])
  BY DEF Driver, OpenDevice, StartTimePast, ReadAsync, Capture, CheckDuration,
       ReadCanceled, DeviceLost, HopFails, ReadSync, EndDriver
<1>6. FrameInv'
  BY <1>1, <1>3 DEF StopInv, FrameInv
<1>7. StartInv'
  BY <1>2, <1>3, <1>4 DEF StopInv, StartInv
<1>8. HoldInv'
  BY <1>2, <1>5 DEF StopInv, HoldInv
<1>9. FlagInv' /\ EndInv' /\ EmptyInv'
  <2>1. FlagInv'
    BY <1>1, <1>2, <1>3, Predecessor DEF StopInv, FlagInv
  <2>2. EndInv'
    BY <1>1, <1>2, <1>3, Predecessor DEF StopInv, EndInv
  <2>3. EmptyInv'
    BY <1>1, <1>2, <1>3, Predecessor DEF StopInv, EmptyInv
  <2>4. QED
    BY <2>1, <2>2, <2>3
<1>10. QED
  BY <1>6, <1>7, <1>8, <1>9 DEF StopInv

LEMMA MainStopInv ==
  ASSUME TypeInv, StopInv, Next, Main \/ \E s \in Signals : Deliver(s) PROVE StopInv'
<1> USE NType DEF TypeInv, TypeOK, Goto, SetRunning, threadVars, mainVars
<1>1. \A j \in Stages : pc[j] = "done" => pc'[j] = "done"
  BY DoneStays
<1>2. UNCHANGED <<queue, hold, link>>
  BY DEF Main, StartNext, Watch, ClearFlag, CancelAsync, JoinBegins, JoinReturns, Exit, Deliver
<1>3. FrameInv'
  <2> SUFFICES ASSUME NEW n \in DOMAIN frames', NEW j \in Stages, j < frames'[n].at
               PROVE  pc'[j] = "done"
    BY DEF FrameInv
  <2>1. CASE frames' = frames
    BY <2>1, <1>1 DEF StopInv, FrameInv
  <2>2. CASE frames' = NewFrame
    <3>1. (n \in DOMAIN frames /\ frames'[n] = frames[n]) \/ frames'[n].at = 1
      BY <2>2 DEF NewFrame
    <3>2. QED
      BY <3>1, <1>1 DEF StopInv, FrameInv, Stages
  <2>3. ASSUME frames # <<>>, NEW a \in {top.at, top.at + 1}, NEW b, TopTo(a, b),
               a = top.at + 1 => pc[top.at] = "done"
        PROVE  pc'[j] = "done"
    <3>1. Len(frames) \in DOMAIN frames /\ top \in Frame
      BY <2>3, TopType
    <3>2. DOMAIN frames' = DOMAIN frames
      BY <2>3 DEF TopTo
    <3>3. CASE n # Len(frames)
      BY <2>3, <3>2, <3>3, <1>1 DEF StopInv, FrameInv, TopTo
    <3>4. CASE n = Len(frames)
      <4>1. frames'[n].at = a
        BY <2>3, <3>1, <3>4 DEF TopTo
      <4>2. top.at \in Nat /\ (j < top.at => pc[j] = "done")
        BY <3>1 DEF StopInv, FrameInv, top, Frame, Stages
      <4>3. j < top.at \/ (j = top.at /\ a = top.at + 1)
        <5>1. j \in Int /\ top.at \in Int /\ j < a
          BY <4>1, <4>2 DEF Stages
        <5>2. CASE a = top.at
          BY <5>1, <5>2
        <5>3. CASE a = top.at + 1
          BY <5>1, <5>3
        <5>4. QED
          BY <5>2, <5>3, <2>3
      <4>4. QED
        BY <4>2, <4>3, <2>3, <1>1
    <3>5. QED
      BY <3>3, <3>4
  <2>4. CASE StartNext \/ Exit
    BY <2>4, <2>1 DEF StartNext, Exit
  <2>5. CASE Watch \/ \E s \in Signals : Deliver(s)
    BY <2>5, <2>2 DEF Watch, Deliver
  <2>6. CASE ClearFlag
    BY <2>6, <2>3, TopType DEF ClearFlag, Frame, Stages
  <2>7. CASE CancelAsync
    BY <2>7, <2>3, TopType DEF CancelAsync, Frame, Stages
  <2>8. CASE JoinBegins
    BY <2>8, <2>1, <2>3, TopType DEF JoinBegins, Frame, Stages
  <2>9. CASE JoinReturns
    BY <2>9, <2>3 DEF JoinReturns
  <2>10. QED
    BY <2>4, <2>5, <2>6, <2>7, <2>8, <2>9 DEF Main
<1>4. StartInv'
  <2>1. CASE StartNext
    BY <2>1 DEF StopInv, StartInv, StartNext, Stages
  <2>2. CASE ~StartNext
    <3>1. UNCHANGED <<pc, started>>
      BY <2>2 DEF Main, Watch, ClearFlag, CancelAsync, JoinBegins, JoinReturns, Exit, Deliver
    <3>2. QED
      BY <3>1 DEF StopInv, StartInv
  <2>3. QED
    BY <2>1, <2>2
<1>5. HoldInv'
  BY <1>2 DEF StopInv, HoldInv, StartInv, Main, StartNext, Watch, ClearFlag, CancelAsync, JoinBegins,
         JoinReturns, Exit, Deliver, Stages
<1>6. FlagInv'
  <2>1. CASE ClearFlag
    <3>1. top.at \in Stages /\ Len(frames) \in DOMAIN frames
      BY <2>1, TopType DEF ClearFlag, Frame, Stages
    <3>2. \A j \in Stages : j < top.at => pc[j] = "done"
      BY <3>1 DEF StopInv, FrameInv, top
    <3>3. QED
      BY <2>1, <3>1, <3>2 DEF StopInv, FlagInv, ClearFlag, Stages
  <2>2. CASE ~ClearFlag
    <3>1. UNCHANGED mRunning /\ \A j \in Stages : pc'[j] = pc[j] \/ pc'[j] = "begin"
      BY <2>2 DEF Main, StartNext, Watch, CancelAsync, JoinBegins, JoinReturns, Exit, Deliver
    <3>2. QED
      BY <3>1, <1>1, <1>2 DEF StopInv, FlagInv, Stages
  <2>3. QED
    BY <2>1, <2>2
<1>7. EndInv' /\ EmptyInv'
  <2>1. \A j \in Stages : pc'[j] = pc[j] \/ pc'[j] = "begin"
    BY DEF Main, StartNext, Watch, ClearFlag, CancelAsync, JoinBegins, JoinReturns, Exit, Deliver
  <2>2. EndInv'
    BY <2>1, <1>1, <1>2, Predecessor DEF StopInv, EndInv
  <2>3. EmptyInv'
    BY <2>1, <1>1, <1>2, Predecessor DEF StopInv, EmptyInv
  <2>4. QED
    BY <2>2, <2>3
<1>8. QED
  BY <1>3, <1>4, <1>5, <1>6, <1>7 DEF StopInv

LEMMA LoopStopInv ==
  ASSUME TypeInv, StopInv, Next, NEW i \in Stages, Loop(i) PROVE StopInv'
<1> USE NType DEF TypeInv, TypeOK, Goto, SetRunning, threadVars, mainVars
<1>1. \A j \in Stages : pc[j] = "done" => pc'[j] = "done"
  BY DoneStays
<1>2. /\ UNCHANGED <<frames, started>>
      /\ pc[i] \notin {"none", "done"} /\ pc'[i] # "none"
      /\ \A j \in Stages : j # i => pc'[j] = pc[j] /\ hold'[j] = hold[j] /\ mRunning'[j] = mRunning[j]
  <2>1. CASE Begin(i) \/ Test(i) \/ SizeApprox(i) \/ PollEmpty(i) \/ Connect(i)
    BY <2>1 DEF Begin, Test, SizeApprox, PollEmpty, Connect
  <2>2. CASE Dequeue(i) \/ Forward(i)
    BY <2>2 DEF Dequeue, Forward, AfterEmit
  <2>3. CASE Average(i)
    BY <2>3 DEF Average
  <2>4. CASE Write(i) \/ WriteFails(i)
    BY <2>4 DEF Write, WriteFails
  <2>5. QED
    BY <2>1, <2>2, <2>3, <2>4 DEF Loop
<1>3. link' # "broken" => link # "broken"
  BY DEF Loop, Begin, Test, SizeApprox, Dequeue, PollEmpty, Forward, Average, Connect,
         Write, WriteFails
<1>4. FrameInv'
  BY <1>1, <1>2 DEF StopInv, FrameInv
<1>5. StartInv'
  BY <1>2 DEF StopInv, StartInv
<1>6. HoldInv'
  <2> SUFFICES ASSUME i = 1 \/ Drains(i), pc'[i] # "emit" PROVE hold'[i] = <<>>
    BY <1>2 DEF StopInv, HoldInv
  <2>1. pc[i] # "emit" => hold[i] = <<>>
    BY DEF StopInv, HoldInv
  <2>2. CASE Begin(i) \/ Test(i) \/ SizeApprox(i) \/ PollEmpty(i)
    BY <2>1, <2>2 DEF Begin, Test, SizeApprox, PollEmpty
  <2>3. CASE Dequeue(i)
    <3>1. Batch(i) = 1
      BY ChainAssumption DEF Batch, Drains, DrainingLoops, Sources, Stages
    <3>2. Len(hold[i]) = 0
      BY <2>1, <2>3, EmptySeq DEF Dequeue
    <3>3. pc'[i] = "emit"
      BY <2>3, <3>1, <3>2 DEF Dequeue
    <3>4. QED
      BY <3>3
  <2>4. CASE Forward(i)
    <3>1. hold[i] # <<>> /\ hold[i] \in Seq(Nat)
      BY <2>4 DEF Forward, EmitOK
    <3>2. Tail(hold[i]) \in Seq(Nat) /\ Len(Tail(hold[i])) = Len(hold[i]) - 1
      BY <3>1, HeadTailFacts
    <3>3. Len(hold[i]) = 1 /\ hold'[i] = Tail(hold[i])
      BY <2>4 DEF Forward
    <3>4. QED
      <4>1. Len(Tail(hold[i])) = 0
        BY <3>2, <3>3
      <4>2. Tail(hold[i]) = <<>>
        BY <4>1, <3>2, EmptySeq
      <4>3. QED
        BY <4>2, <3>3
  <2>5. CASE Average(i)
    BY <2>5, ChainAssumption DEF Average, Drains, DrainingLoops, Sources, Stages
  <2>6. CASE Connect(i)
    BY <2>1, <2>6 DEF Connect
  <2>7. CASE Write(i) \/ WriteFails(i)
    BY <2>7 DEF Write, WriteFails
  <2>8. QED
    BY <2>2, <2>3, <2>4, <2>5, <2>6, <2>7 DEF Loop
<1>7. FlagInv'
  <2>1. link' # "broken" => (mRunning'[i] = mRunning[i] \/ mRunning'[i])
    BY DEF Loop, Begin, Test, SizeApprox, Dequeue, PollEmpty, Forward, Average, Connect,
         Write, WriteFails
  <2>2. pc[i] = "begin" /\ pc'[i] # "begin" => mRunning'[i]
    BY DEF Loop, Begin, Test, SizeApprox, Dequeue, PollEmpty, Forward, Average, Connect,
         Write, WriteFails
  <2>3. QED
    BY <1>1, <1>2, <1>3, <2>1, <2>2, Predecessor DEF StopInv, FlagInv
<1>8. EndInv'
  <2>1. link' # "broken" /\ pc'[i] \in {"size", "done"} =>
          pc[i] = "size" \/ (pc[i] = "test" /\ ~mRunning[i])
    BY DEF Loop, Begin, Test, SizeApprox, Dequeue, PollEmpty, Forward, Average, Connect,
         Write, WriteFails, AfterEmit
  <2>2. QED
    BY <1>1, <1>2, <1>3, <2>1, Predecessor DEF StopInv, FlagInv, EndInv
<1>9. EmptyInv'
  <2> SUFFICES ASSUME link' # "broken", NEW j \in 2 .. N, Drains(j), pc'[j] = "done"
               PROVE  queue'[j] = <<>>
    BY DEF EmptyInv
  <2>1. pc'[j - 1] = "done" /\ j \in Stages /\ j - 1 \in Stages
    BY <1>8, Predecessor DEF EndInv
  <2>2. CASE j = i
    BY <2>2, <2>1, <1>2 DEF Loop, Begin, Test, SizeApprox, Dequeue, PollEmpty, Forward, Average,
         Connect, Write, WriteFails, AfterEmit
  <2>3. CASE j # i
    <3>1. pc[j] = "done" /\ queue[j] = <<>>
      BY <2>1, <2>3, <1>2, <1>3 DEF StopInv, EmptyInv
    <3>2. pc[j - 1] = "done"
      BY <3>1, <1>3 DEF StopInv, EndInv
    <3>3. j - 1 # i
      BY <3>2, <1>2
    <3>4. i + 1 # j
      BY <3>3 DEF Stages
    <3>5. queue'[j] = queue[j]
      BY <2>1, <2>3, <3>4 DEF Loop, Begin, Test, SizeApprox, Dequeue, PollEmpty, Forward, Average,
         Connect, Write, WriteFails
    <3>6. QED
      BY <3>1, <3>5
  <2>4. QED
    BY <2>2, <2>3
<1>10. QED
  BY <1>4, <1>5, <1>6, <1>7, <1>8, <1>9 DEF StopInv

LEMMA StopInvInductive == TypeInv /\ StopInv /\ [Next]_vars => StopInv'
<1> SUFFICES ASSUME TypeInv, StopInv, [Next]_vars PROVE StopInv'
  OBVIOUS
<1>1. CASE UNCHANGED vars
  BY <1>1 DEF vars, threadVars, mainVars, StopInv, FrameInv, StartInv, HoldInv, FlagInv,
              EndInv, EmptyInv
<1>2. CASE Next
  BY <1>1, <1>2, DriverStopInv, LoopStopInv, MainStopInv DEF Next, Gone
<1>3. QED
  BY <1>1, <1>2

(* A loop ends only after the loop that feeds it, and a draining one has   *)
(* then emptied its queue.                                                 *)
THEOREM OrderlyStop == Spec => []StopsInOrder
<1>1. StopInv => StopsInOrder
  BY Predecessor DEF StopInv, HoldInv, EndInv, EmptyInv, StopsInOrder
<1>2. QED
  BY <1>1, InitTypeInv, InitStopInv, TypeInvInductive, StopInvInductive, PTL DEF Spec

-----------------------------------------------------------------------------
(* Why nothing is lost.  A step moves segments between neighbouring places *)
(* or adds the ones the device delivers; only Averaging and a failed write *)
(* delete any.                                                             *)
Place(i) == Range(queue[i]) \cup Range(hold[i])
Everywhere == Range(out) \cup dropped \cup UNION {Place(i) : i \in Stages}

DropInv == link # "broken" /\ IQChain => dropped = {}
ExitInv == status = "exited" => \A i \in Stages : pc[i] = "done"
FirstInv == queue[1] = <<>>

LossInv == Conserved /\ DropInv /\ ExitInv /\ FirstInv

LEMMA EverywhereConserved == Conserved <=> 1 .. Captured = Everywhere
BY DEF Conserved, Everywhere, Place

LEMMA EverywhereConservedNext == Conserved' <=> 1 .. Captured' = Everywhere'
BY DEF Conserved, Everywhere, Place

(* A step that touches two places and the two ends moves segments only if  *)
(* these four hold together what they held before, and the new ones.       *)
LEMMA Moves ==
  ASSUME NEW i \in Stages, NEW k \in Stages, NEW new,
         \A j \in Stages \ {i, k} : Place(j)' = Place(j),
         Place(i)' \cup Place(k)' \cup Range(out)' \cup dropped' =
           Place(i) \cup Place(k) \cup Range(out) \cup dropped \cup new
  PROVE  Everywhere' = Everywhere \cup new
<1> DEFINE rest == UNION {Place(j) : j \in Stages \ {i, k}}
<1>1. Everywhere = Range(out) \cup dropped \cup Place(i) \cup Place(k) \cup rest
  BY DEF Everywhere
<1>2. Everywhere' = Range(out)' \cup dropped' \cup Place(i)' \cup Place(k)' \cup rest'
  BY DEF Everywhere
<1>3. rest' = rest
  OBVIOUS
<1> HIDE DEF rest
<1>4. QED
  BY <1>1, <1>2, <1>3

LEMMA MovesWithin ==
  ASSUME NEW i \in Stages, NEW k \in Stages,
         \A j \in Stages \ {i, k} : Place(j)' = Place(j),
         Place(i)' \cup Place(k)' \cup Range(out)' \cup dropped' =
           Place(i) \cup Place(k) \cup Range(out) \cup dropped
  PROVE  Everywhere' = Everywhere
<1>1. Place(i)' \cup Place(k)' \cup Range(out)' \cup dropped' =
        Place(i) \cup Place(k) \cup Range(out) \cup dropped \cup {}
  OBVIOUS
<1> HIDE DEF Place
<1>2. Everywhere' = Everywhere \cup {}
  BY <1>1, Moves
<1>3. QED
  BY <1>2

LEMMA EmptyRange == Range(<<>>) = {}
BY DEF Range

LEMMA InitLossInv == Init => LossInv
<1> SUFFICES ASSUME Init PROVE LossInv
  OBVIOUS
<1>1. Captured = 0 /\ Range(out) = {} /\ dropped = {}
  BY EmptyRange DEF Init, Captured
<1>2. \A i \in Stages : Place(i) = {}
  BY EmptyRange DEF Init, Place
<1>3. Everywhere = {}
  BY <1>1, <1>2 DEF Everywhere
<1>4. Conserved
  BY <1>1, <1>3, EverywhereConserved
<1>5. DropInv /\ ExitInv /\ FirstInv
  BY <1>1, NType DEF Init, DropInv, ExitInv, FirstInv
<1>6. QED
  BY <1>4, <1>5 DEF LossInv

LEMMA StillConserved == Conserved /\ UNCHANGED threadVars => Conserved'
BY DEF Conserved, threadVars, Captured

LEMMA DriverConserved ==
  ASSUME TypeInv, StopInv, Conserved, Driver PROVE Conserved'
<1>1. CASE Capture
  <2>1. hold[1] = <<>> /\ 1 \in Stages
    BY <1>1, NType DEF Capture, StopInv, HoldInv
  <2>2. hold' = [hold EXCEPT ![1] = <<Captured + 1>>] /\ UNCHANGED <<queue, out, dropped>>
    BY <1>1 DEF Capture
  <2>3. Captured \in Nat /\ Captured' = Captured + 1
    BY <1>1 DEF Capture, Captured, TypeInv, TypeOK
  <2>4. hold'[1] = <<Captured + 1>> /\ \A j \in Stages \ {1} : hold'[j] = hold[j]
    BY <2>1, <2>2 DEF TypeInv, TypeOK
  <2>5. Range(hold'[1]) = {Captured + 1} /\ Range(hold[1]) = {}
    BY <2>1, <2>4, EmptyRange DEF Range
  <2>6. Everywhere' = Everywhere \cup {Captured + 1}
    BY <2>1, <2>2, <2>4, <2>5, Moves DEF Place
  <2>7. 1 .. (Captured + 1) = 1 .. Captured \cup {Captured + 1}
    BY <2>3
  <2>8. QED
    BY <2>3, <2>6, <2>7, EverywhereConserved, EverywhereConservedNext
<1>2. CASE ReadSync
  <2> DEFINE cut == [k \in 1 .. AvgFactor |-> Captured + k]
             read == [k \in 1 .. AvgFactor |-> ReadCount + 1]
  <2>1. hold[1] = <<>> /\ 1 \in Stages
    BY <1>2, NType DEF ReadSync, StopInv, HoldInv
  <2>2. hold' = [hold EXCEPT ![1] = cut] /\ origin' = origin \o read /\ UNCHANGED <<queue, out, dropped>>
    BY <1>2 DEF ReadSync
  <2>3. Captured \in Nat /\ ReadCount \in Nat /\ AvgFactor \in Nat \ {0}
    BY LenProperties, ElementOfSeq, BoundsAssumption DEF Captured, ReadCount, TypeInv, TypeOK
  <2>4. read \in Seq(Nat) /\ Len(read) = AvgFactor
    BY <2>3
  <2>5. Range(cut) = Captured + 1 .. Captured + AvgFactor
    <3>1. ASSUME NEW s \in Captured + 1 .. Captured + AvgFactor PROVE s \in Range(cut)
      <4>1. s - Captured \in 1 .. AvgFactor /\ cut[s - Captured] = s
        BY <2>3
      <4>2. QED
        BY <4>1 DEF Range
    <3>2. ASSUME NEW k \in 1 .. AvgFactor PROVE cut[k] \in Captured + 1 .. Captured + AvgFactor
      BY <2>3
    <3>3. QED
      BY <3>1, <3>2 DEF Range
  <2> HIDE DEF cut, read
  <2>6. Captured' = Captured + AvgFactor
    <3>1. origin \in Seq(Nat)
      BY DEF TypeInv, TypeOK
    <3>2. Len(origin \o read) = Len(origin) + Len(read)
      BY <3>1, <2>4
    <3>3. QED
      BY <3>2, <2>2, <2>4 DEF Captured
  <2>7. hold'[1] = cut /\ \A j \in Stages \ {1} : hold'[j] = hold[j]
    BY <2>1, <2>2 DEF TypeInv, TypeOK
  <2>8. Everywhere' = Everywhere \cup Captured + 1 .. Captured + AvgFactor
    <3> DEFINE new == Captured + 1 .. Captured + AvgFactor
    <3>1. Range(hold'[1]) = new /\ Range(hold[1]) = {}
      BY <2>1, <2>5, <2>7, EmptyRange
    <3> HIDE DEF new
    <3>2. Everywhere' = Everywhere \cup new
      BY <2>1, <2>2, <2>7, <3>1, Moves DEF Place
    <3>3. QED
      BY <3>2 DEF new
  <2>9. 1 .. (Captured + AvgFactor) = 1 .. Captured \cup Captured + 1 .. Captured + AvgFactor
    BY <2>3
  <2>10. QED
    BY <2>6, <2>8, <2>9, EverywhereConserved, EverywhereConservedNext
<1>3. CASE ~Capture /\ ~ReadSync
  BY <1>3, StillConserved DEF Driver, OpenDevice, StartTimePast, ReadAsync, CheckDuration,
     ReadCanceled, DeviceLost, HopFails, EndDriver
<1>4. QED
  BY <1>1, <1>2, <1>3

LEMMA LoopConserved ==
  ASSUME TypeInv, StopInv, Conserved, NEW i \in Stages, Loop(i) PROVE Conserved'
<1> USE NType DEF TypeInv, TypeOK, EmitOK, threadVars
<1>1. UNCHANGED origin
  BY DEF Loop, Begin, Test, SizeApprox, Dequeue, PollEmpty, Forward, Average, Connect,
         Write, WriteFails
<1>2. CASE Begin(i) \/ Test(i) \/ SizeApprox(i) \/ PollEmpty(i) \/ Connect(i)
  BY <1>2 DEF Begin, Test, SizeApprox, PollEmpty, Connect, Conserved, Captured
<1>3. ASSUME Everywhere' = Everywhere PROVE Conserved'
  BY <1>1, <1>3, EverywhereConserved, EverywhereConservedNext DEF Captured
<1>4. CASE Dequeue(i)
  <2>1. queue[i] \in Seq(Nat) /\ queue[i] # <<>> /\ hold[i] \in Seq(Nat)
    BY <1>4 DEF Dequeue
  <2>2. /\ queue'[i] = Tail(queue[i]) /\ hold'[i] = Append(hold[i], Head(queue[i]))
        /\ \A j \in Stages \ {i} : queue'[j] = queue[j] /\ hold'[j] = hold[j]
        /\ UNCHANGED <<out, dropped>>
    BY <1>4 DEF Dequeue
  <2>3. Range(queue[i]) = {Head(queue[i])} \cup Range(queue'[i])
    BY <2>1, <2>2, HeadTailFacts
  <2>4. Range(hold'[i]) = Range(hold[i]) \cup {Head(queue[i])}
    BY <2>1, <2>2, HeadTailFacts, AppendFacts
  <2>5. Everywhere' = Everywhere
    <3>1. \A j \in Stages \ {i, i} : Place(j)' = Place(j)
      BY <2>2, <2>3, <2>4 DEF Place
    <3>2. Place(i)' \cup Place(i)' \cup Range(out)' \cup dropped' =
           Place(i) \cup Place(i) \cup Range(out) \cup dropped
      BY <2>2, <2>3, <2>4 DEF Place
    <3>3. QED
      BY <3>1, <3>2, MovesWithin
  <2>6. QED
    BY <2>5, <1>3
<1>5. CASE Forward(i)
  <2>1. /\ hold[i] \in Seq(Nat) /\ hold[i] # <<>>
        /\ i + 1 \in Stages /\ i + 1 # i /\ queue[i + 1] \in Seq(Nat)
    BY <1>5, Successor DEF Forward, Stages
  <2>2. /\ hold'[i] = Tail(hold[i]) /\ queue'[i + 1] = Append(queue[i + 1], Head(hold[i]))
        /\ queue'[i] = queue[i] /\ hold'[i + 1] = hold[i + 1]
        /\ \A j \in Stages \ {i, i + 1} : queue'[j] = queue[j] /\ hold'[j] = hold[j]
        /\ UNCHANGED <<out, dropped>>
    BY <1>5, <2>1 DEF Forward
  <2>3. Range(hold[i]) = {Head(hold[i])} \cup Range(hold'[i])
    BY <2>1, <2>2, HeadTailFacts
  <2>4. Range(queue'[i + 1]) = Range(queue[i + 1]) \cup {Head(hold[i])}
    <3>1. Head(hold[i]) \in Nat
      BY <2>1, HeadTailFacts
    <3>2. Range(Append(queue[i + 1], Head(hold[i]))) = Range(queue[i + 1]) \cup {Head(hold[i])}
      BY <2>1, <3>1, AppendFacts
    <3>3. QED
      BY <3>2, <2>2
  <2>5. Everywhere' = Everywhere
    <3>1. \A j \in Stages \ {i, i + 1} : Place(j)' = Place(j)
      BY <2>1, <2>2, <2>3, <2>4 DEF Place
    <3>2. Place(i)' \cup Place(i + 1)' \cup Range(out)' \cup dropped' =
           Place(i) \cup Place(i + 1) \cup Range(out) \cup dropped
      BY <2>1, <2>2, <2>3, <2>4 DEF Place
    <3>3. QED
      BY <3>1, <3>2, MovesWithin, <2>1
  <2>6. QED
    BY <2>5, <1>3
<1>6. CASE Average(i)
  <2> DEFINE rest == {hold[i][k] : k \in 2 .. Len(hold[i])}
  <2>1. CASE UNCHANGED <<queue, hold, dropped>>
    BY <2>1, <1>6 DEF Average, Conserved, Captured
  <2>2. CASE ~UNCHANGED <<queue, hold, dropped>>
    <3>1. Kind[i] \notin Sinks /\ hold[i] \in Seq(Nat) /\ hold[i] # <<>>
      BY <1>6 DEF Average, Sinks
    <3>2. i + 1 \in Stages /\ i + 1 # i /\ queue[i + 1] \in Seq(Nat)
      BY <3>1, Successor DEF Stages
    <3>3. /\ queue' = [queue EXCEPT ![i + 1] = Append(@, hold[i][1])]
          /\ hold' = [hold EXCEPT ![i] = <<>>] /\ dropped' = dropped \cup rest /\ UNCHANGED out
      BY <1>6, <2>2 DEF Average
    <3>4. /\ hold'[i] = <<>> /\ queue'[i + 1] = Append(queue[i + 1], hold[i][1])
          /\ queue'[i] = queue[i] /\ hold'[i + 1] = hold[i + 1]
          /\ \A j \in Stages \ {i, i + 1} : queue'[j] = queue[j] /\ hold'[j] = hold[j]
      BY <3>2, <3>3
    <3>5. Len(hold[i]) \in Nat \ {0} /\ DOMAIN hold[i] = 1 .. Len(hold[i]) /\ hold[i][1] \in Nat
      BY <3>1, EmptySeq, LenProperties, ElementOfSeq
    <3>6. Range(hold[i]) = {hold[i][1]} \cup rest
      <4>1. DOMAIN hold[i] = {1} \cup 2 .. Len(hold[i])
        BY <3>5
      <4>2. QED
        BY <4>1 DEF Range
    <3>7. Range(queue'[i + 1]) = Range(queue[i + 1]) \cup {hold[i][1]} /\ Range(hold'[i]) = {}
      BY <3>2, <3>4, <3>5, AppendFacts, EmptyRange
    <3> HIDE DEF rest
    <3>8. Everywhere' = Everywhere
      <4>1. \A j \in Stages \ {i, i + 1} : Place(j)' = Place(j)
        BY <3>2, <3>3, <3>4, <3>6, <3>7 DEF Place
      <4>2. Place(i)' \cup Place(i + 1)' \cup Range(out)' \cup dropped' =
             Place(i) \cup Place(i + 1) \cup Range(out) \cup dropped
        BY <3>2, <3>3, <3>4, <3>6, <3>7 DEF Place
      <4>3. QED
        BY <4>1, <4>2, MovesWithin, <3>2
    <3>9. QED
      BY <3>8, <1>3
  <2>3. QED
    BY <2>1, <2>2
<1>7. CASE Write(i)
  <2>1. out \in Seq(Nat) /\ hold[i] \in Seq(Nat)
    OBVIOUS
  <2>2. /\ out' = out \o hold[i] /\ hold'[i] = <<>> /\ UNCHANGED <<queue, dropped>>
        /\ \A j \in Stages \ {i} : hold'[j] = hold[j]
    BY <1>7 DEF Write
  <2>3. Range(out') = Range(out) \cup Range(hold[i]) /\ Range(hold'[i]) = {}
    BY <2>1, <2>2, RangeConcatenation, EmptyRange
  <2>4. Everywhere' = Everywhere
    <3>1. \A j \in Stages \ {i, i} : Place(j)' = Place(j)
      BY <2>2, <2>3 DEF Place
    <3>2. Place(i)' \cup Place(i)' \cup Range(out)' \cup dropped' =
           Place(i) \cup Place(i) \cup Range(out) \cup dropped
      BY <2>2, <2>3 DEF Place
    <3>3. QED
      BY <3>1, <3>2, MovesWithin
  <2>5. QED
    BY <2>4, <1>3
<1>8. CASE WriteFails(i)
  <2>1. /\ dropped' = dropped \cup Range(hold[i]) /\ hold'[i] = <<>> /\ UNCHANGED <<queue, out>>
        /\ \A j \in Stages \ {i} : hold'[j] = hold[j]
    BY <1>8 DEF WriteFails
  <2>2. Range(hold'[i]) = {}
    BY <2>1, EmptyRange
  <2>3. Everywhere' = Everywhere
    <3>1. \A j \in Stages \ {i, i} : Place(j)' = Place(j)
      BY <2>1, <2>2 DEF Place
    <3>2. Place(i)' \cup Place(i)' \cup Range(out)' \cup dropped' =
           Place(i) \cup Place(i) \cup Range(out) \cup dropped
      BY <2>1, <2>2 DEF Place
    <3>3. QED
      BY <3>1, <3>2, MovesWithin
  <2>4. QED
    BY <2>3, <1>3
<1>9. QED
  BY <1>2, <1>4, <1>5, <1>6, <1>7, <1>8 DEF Loop

LEMMA LossInvInductive == TypeInv /\ StopInv /\ LossInv /\ [Next]_vars => LossInv'
<1> SUFFICES ASSUME TypeInv, StopInv, LossInv, [Next]_vars PROVE LossInv'
  OBVIOUS
<1> USE NType DEF threadVars, mainVars
<1>1. CASE UNCHANGED vars
  BY <1>1 DEF vars, LossInv, Conserved, Captured, DropInv, ExitInv, FirstInv
<1>2. CASE status = "up" /\ Driver
  <2>1. UNCHANGED <<queue, dropped, link, status>>
    BY <1>2 DEF Driver, OpenDevice, StartTimePast, ReadAsync, Capture, CheckDuration,
         ReadCanceled, DeviceLost, HopFails, ReadSync, EndDriver
  <2>2. QED
    BY <1>2, <2>1, DriverConserved DEF LossInv, DropInv, ExitInv, FirstInv
<1>3. ASSUME status = "up", NEW i \in Stages, Loop(i) PROVE LossInv'
  <2>1. DropInv'
    <3>1. CASE Average(i)
      <4>1. Kind[i] = "Averaging"
        BY <3>1 DEF Average
      <4>2. i # 1
        BY <4>1, ChainAssumption DEF Sources
      <4>3. ~IQChain
        BY <4>1, <4>2 DEF IQChain, Drains, DrainingLoops, Stages
      <4>4. QED
        BY <4>3 DEF DropInv, IQChain, Drains
    <3>2. CASE ~Average(i)
      <4>1. link' # "broken" => link # "broken" /\ UNCHANGED dropped
        BY <1>3, <3>2 DEF Loop, Begin, Test, SizeApprox, Dequeue, PollEmpty, Forward, Connect,
           Write, WriteFails
      <4>2. QED
        BY <4>1 DEF LossInv, DropInv, IQChain, Drains
    <3>3. QED
      BY <3>1, <3>2
  <2>2. ExitInv'
    BY <1>3 DEF ExitInv, Loop, Begin, Test, SizeApprox, Dequeue, PollEmpty, Forward, Average,
           Connect, Write, WriteFails
  <2>3. FirstInv'
    <3>1. \A k \in 2 .. N : k # 1
      BY Predecessor
    <3>2. CASE Dequeue(i)
      BY <3>2 DEF LossInv, FirstInv, Dequeue, TypeInv, TypeOK
    <3>3. CASE Forward(i) \/ Average(i)
      <4>1. Kind[i] \notin Sinks
        BY <3>3 DEF Forward, Average, Sinks
      <4>2. i + 1 # 1
        BY <4>1, Successor, <3>1
      <4>3. queue'[1] = queue[1]
        BY <3>3, <4>2 DEF Forward, Average, TypeInv, TypeOK
      <4>4. QED
        BY <4>3 DEF LossInv, FirstInv
    <3>4. CASE ~Dequeue(i) /\ ~Forward(i) /\ ~Average(i)
      BY <1>3, <3>4 DEF LossInv, FirstInv, Loop, Begin, Test, SizeApprox, PollEmpty, Connect,
         Write, WriteFails
    <3>5. QED
      BY <3>2, <3>3, <3>4
  <2>4. QED
    BY <1>3, <2>1, <2>2, <2>3, LoopConserved DEF LossInv
<1>4. CASE status = "up" /\ (Main \/ \E s \in Signals : Deliver(s))
  <2>1. UNCHANGED threadVars
    BY <1>4 DEF Main, StartNext, Watch, ClearFlag, CancelAsync, JoinBegins, JoinReturns, Exit, Deliver
  <2>2. CASE Exit
    <3>1. Len(frames) \in DOMAIN frames /\ top.at = N + 1 /\ UNCHANGED pc
      BY <2>2, TopType DEF Exit, TypeInv
    <3>2. \A j \in Stages : pc[j] = "done"
      BY <3>1 DEF StopInv, FrameInv, top, Stages
    <3>3. QED
      BY <2>1, <3>1, <3>2, StillConserved DEF LossInv, DropInv, ExitInv, FirstInv
  <2>3. CASE ~Exit
    <3>1. status' # "exited"
      BY <1>4, <2>3 DEF Main, StartNext, Watch, ClearFlag, CancelAsync, JoinBegins, JoinReturns, Deliver
    <3>2. QED
      BY <2>1, <3>1, StillConserved DEF LossInv, DropInv, ExitInv, FirstInv
  <2>4. QED
    BY <2>2, <2>3
<1>5. QED
  BY <1>1, <1>2, <1>3, <1>4 DEF Next, Gone

(* No segment goes astray.                                                 *)
THEOREM NothingAstray == Spec => []Conserved
<1>1. LossInv => Conserved
  BY DEF LossInv
<1>2. QED
  BY <1>1, InitTypeInv, InitStopInv, InitLossInv, TypeInvInductive, StopInvInductive,
     LossInvInductive, PTL DEF Spec

(* When an IQ pipeline ends by finish_ok, whatever signals came in between *)
(* and however long its chain, every segment the device delivered was      *)
(* written, unless the connection broke.                                   *)
THEOREM NoLoss == Spec => []NoLossOnExit
<1>1. TypeInv /\ StopInv /\ LossInv => NoLossOnExit
  <2> SUFFICES ASSUME TypeInv, StopInv, LossInv, status = "exited", IQChain, link # "broken"
               PROVE  Range(out) = 1 .. Captured
    BY DEF NoLossOnExit
  <2>1. \A i \in Stages : pc[i] = "done"
    BY DEF LossInv, ExitInv
  <2>2. \A i \in Stages : i = 1 \/ i \in 2 .. N
    BY NType DEF Stages
  <2>3. \A i \in Stages : hold[i] = <<>>
    BY <2>1, <2>2 DEF StopInv, HoldInv, IQChain
  <2>4. \A i \in Stages : queue[i] = <<>>
    BY <2>1, <2>2 DEF StopInv, EmptyInv, IQChain, LossInv, FirstInv
  <2>5. dropped = {}
    BY DEF LossInv, DropInv
  <2>6. \A i \in Stages : Place(i) = {}
    BY <2>3, <2>4, EmptyRange DEF Place
  <2>7. Everywhere = Range(out)
    BY <2>5, <2>6 DEF Everywhere
  <2>8. QED
    BY <2>7, EverywhereConserved DEF LossInv
<1>2. QED
  BY <1>1, InitTypeInv, InitStopInv, InitLossInv, TypeInvInductive, StopInvInductive,
     LossInvInductive, PTL DEF Spec

-----------------------------------------------------------------------------
(* Why segments stay in order.  Every step takes the oldest of a place to  *)
(* the end of the next one towards the sink, or deletes some; what the     *)
(* device delivers is newer than all there is.                             *)
LEMMA AscendingTail ==
  ASSUME NEW s \in Seq(Nat), s # <<>>, Ascending(s)
  PROVE  Ascending(Tail(s)) /\ \A y \in Range(Tail(s)) : Head(s) < y
<1>1. /\ Tail(s) \in Seq(Nat) /\ Len(Tail(s)) = Len(s) - 1
      /\ Head(s) = s[1] /\ \A k \in 1 .. Len(Tail(s)) : Tail(s)[k] = s[k + 1]
  OBVIOUS
<1>2. DOMAIN s = 1 .. Len(s) /\ DOMAIN Tail(s) = 1 .. (Len(s) - 1) /\ Len(s) \in Nat \ {0}
  BY <1>1, LenProperties, EmptySeq
<1>3. Ascending(Tail(s))
  <2> SUFFICES ASSUME NEW a \in DOMAIN Tail(s), NEW b \in DOMAIN Tail(s), a < b
               PROVE  Tail(s)[a] < Tail(s)[b]
    BY DEF Ascending
  <2>1. a + 1 \in DOMAIN s /\ b + 1 \in DOMAIN s /\ a + 1 < b + 1
    BY <1>2
  <2>2. s[a + 1] < s[b + 1]
    BY <2>1 DEF Ascending
  <2> QED
    BY <1>1, <1>2, <2>2
<1>4. ASSUME NEW k \in DOMAIN Tail(s) PROVE Head(s) < Tail(s)[k]
  <2>1. 1 \in DOMAIN s /\ k + 1 \in DOMAIN s /\ 1 < k + 1
    BY <1>2
  <2>2. s[1] < s[k + 1]
    BY <2>1 DEF Ascending
  <2> QED
    BY <1>1, <1>2, <2>2
<1> QED
  BY <1>3, <1>4 DEF Range

LEMMA AscendingAppend ==
  ASSUME NEW s \in Seq(Nat), NEW x \in Nat, Ascending(s), \A y \in Range(s) : y < x
  PROVE  Ascending(Append(s, x))
<1>1. /\ DOMAIN Append(s, x) = 1 .. (Len(s) + 1) /\ DOMAIN s = 1 .. Len(s) /\ Len(s) \in Nat
      /\ \A k \in 1 .. Len(s) : Append(s, x)[k] = s[k]
      /\ Append(s, x)[Len(s) + 1] = x
  BY AppendProperties, LenProperties
<1> SUFFICES ASSUME NEW a \in 1 .. (Len(s) + 1), NEW b \in 1 .. (Len(s) + 1), a < b
             PROVE  Append(s, x)[a] < Append(s, x)[b]
  BY <1>1 DEF Ascending
<1>2. a \in 1 .. Len(s) /\ s[a] \in Range(s)
  BY <1>1 DEF Range
<1>3. CASE b = Len(s) + 1
  BY <1>1, <1>2, <1>3
<1>4. CASE b # Len(s) + 1
  <2>1. b \in 1 .. Len(s)
    BY <1>1, <1>4
  <2> QED
    BY <1>1, <1>2, <2>1 DEF Ascending
<1> QED
  BY <1>3, <1>4

LEMMA AscendingConcat ==
  ASSUME NEW s \in Seq(Nat), NEW t \in Seq(Nat), Ascending(s), Ascending(t), Before(s, t)
  PROVE  Ascending(s \o t)
<1> DEFINE c == s \o t
<1>1. /\ DOMAIN c = 1 .. (Len(s) + Len(t)) /\ DOMAIN s = 1 .. Len(s) /\ DOMAIN t = 1 .. Len(t)
      /\ Len(s) \in Nat /\ Len(t) \in Nat
      /\ \A k \in 1 .. Len(s) : c[k] = s[k]
      /\ \A k \in Len(s) + 1 .. Len(s) + Len(t) : c[k] = t[k - Len(s)]
  BY ConcatProperties, LenProperties
<1> HIDE DEF c
<1> SUFFICES ASSUME NEW a \in 1 .. (Len(s) + Len(t)), NEW b \in 1 .. (Len(s) + Len(t)), a < b
             PROVE  c[a] < c[b]
  BY <1>1 DEF Ascending, c
<1>2. CASE b <= Len(s)
  <2>1. a \in 1 .. Len(s) /\ b \in 1 .. Len(s)
    BY <1>1, <1>2
  <2> QED
    BY <1>1, <2>1 DEF Ascending
<1>3. CASE a <= Len(s) /\ b > Len(s)
  <2>1. a \in DOMAIN s /\ b - Len(s) \in DOMAIN t /\ b \in Len(s) + 1 .. Len(s) + Len(t)
    BY <1>1, <1>3
  <2>2. c[a] \in Range(s) /\ c[b] \in Range(t)
    BY <1>1, <2>1 DEF Range
  <2> QED
    BY <2>2 DEF Before
<1>4. CASE a > Len(s)
  <2>1. /\ a - Len(s) \in DOMAIN t /\ b - Len(s) \in DOMAIN t /\ a - Len(s) < b - Len(s)
        /\ a \in Len(s) + 1 .. Len(s) + Len(t) /\ b \in Len(s) + 1 .. Len(s) + Len(t)
    BY <1>1, <1>4
  <2>2. t[a - Len(s)] < t[b - Len(s)]
    BY <2>1 DEF Ascending
  <2> QED
    BY <1>1, <2>1, <2>2
<1> QED
  BY <1>1, <1>2, <1>3, <1>4

LEMMA EmptyInOrder == Ascending(<<>>) /\ \A s : Before(s, <<>>) /\ Before(<<>>, s)
BY EmptyRange DEF Ascending, Before

(* What is deleted leaves the rest in order, and so does what moves on.    *)
LEMMA DequeueInOrder ==
  ASSUME TypeInv, InOrder, NEW i \in Stages, Dequeue(i) PROVE InOrder'
<1> DEFINE x == Head(queue[i])
<1>1. queue[i] \in Seq(Nat) /\ queue[i] # <<>> /\ hold[i] \in Seq(Nat)
  BY DEF Dequeue, TypeInv, TypeOK
<1>2. /\ queue'[i] = Tail(queue[i]) /\ hold'[i] = Append(hold[i], x)
      /\ \A a \in Stages \ {i} : queue'[a] = queue[a] /\ hold'[a] = hold[a]
      /\ out' = out
  BY DEF Dequeue, TypeInv, TypeOK
<1>3. x \in Nat /\ x \in Range(queue[i]) /\ Range(queue'[i]) \subseteq Range(queue[i])
  BY <1>1, <1>2, HeadTailFacts
<1>4. Range(hold'[i]) = Range(hold[i]) \cup {x}
  BY <1>1, <1>2, <1>3, AppendFacts
<1>5. Ascending(queue'[i]) /\ \A y \in Range(queue'[i]) : x < y
  BY <1>1, <1>2, AscendingTail DEF InOrder
<1>6. Ascending(hold'[i])
  BY <1>1, <1>2, <1>3, AscendingAppend DEF InOrder, Before
<1> HIDE DEF x
<1>7. ASSUME NEW a \in Stages
      PROVE  /\ Ascending(hold'[a]) /\ Ascending(queue'[a])
             /\ Before(out', hold'[a]) /\ Before(out', queue'[a]) /\ Before(hold'[a], queue'[a])
  <2>1. CASE a = i
    BY <1>2, <1>3, <1>4, <1>5, <1>6, <2>1 DEF InOrder, Before
  <2>2. CASE a # i
    BY <1>2, <2>2 DEF InOrder
  <2> QED
    BY <2>1, <2>2
<1>8. ASSUME NEW a \in Stages, NEW b \in Stages, a < b
      PROVE  /\ Before(hold'[b], hold'[a]) /\ Before(hold'[b], queue'[a])
             /\ Before(queue'[b], hold'[a]) /\ Before(queue'[b], queue'[a])
  <2>0. /\ Before(hold[b], hold[a]) /\ Before(hold[b], queue[a])
        /\ Before(queue[b], hold[a]) /\ Before(queue[b], queue[a])
    BY <1>8 DEF InOrder
  <2>1. CASE a = i /\ b # i
    BY <1>2, <1>3, <1>4, <2>0, <2>1 DEF Before
  <2>2. CASE b = i /\ a # i
    BY <1>2, <1>3, <1>4, <2>0, <2>2 DEF Before
  <2>3. CASE a # i /\ b # i
    BY <1>2, <2>0, <2>3
  <2>4. a # b
    BY <1>8 DEF Stages
  <2> QED
    BY <2>1, <2>2, <2>3, <2>4
<1> QED
  BY <1>2, <1>7, <1>8 DEF InOrder

(* The oldest segment held goes into the next queue; k more of them may be *)
(* deleted with it.                                                        *)
LEMMA EmitInOrder ==
  ASSUME TypeInv, InOrder, NEW i \in Stages, i + 1 \in Stages, NEW x \in Range(hold[i]),
         queue' = [queue EXCEPT ![i + 1] = Append(@, x)],
         \A a \in Stages \ {i} : hold'[a] = hold[a],
         Ascending(hold'[i]), Range(hold'[i]) \subseteq Range(hold[i]),
         \A y \in Range(hold'[i]) : x < y,
         out' = out
  PROVE  InOrder'
<1> DEFINE n == i + 1
<1>1. n \in Stages /\ i < n /\ queue[n] \in Seq(Nat) /\ hold[i] \in Seq(Nat) /\ x \in Nat
  <2>1. hold[i] \in Seq(Nat) /\ queue[n] \in Seq(Nat)
    BY DEF TypeInv, TypeOK
  <2>2. \A k \in DOMAIN hold[i] : hold[i][k] \in Nat
    BY <2>1, LenProperties, ElementOfSeq
  <2> QED
    BY <2>1, <2>2 DEF Range, Stages
<1>2. queue'[n] = Append(queue[n], x) /\ \A a \in Stages \ {n} : queue'[a] = queue[a]
  BY <1>1 DEF TypeInv, TypeOK
<1>3. Range(queue'[n]) = Range(queue[n]) \cup {x}
  BY <1>1, <1>2, AppendFacts
<1>4. \A a \in Stages : a < n => a = i \/ a < i
  BY DEF Stages
<1>5. \A a \in Stages : i < a => a = n \/ n < a
  BY DEF Stages
<1> HIDE DEF n
<1>6. Ascending(queue'[n])
  <2>1. Before(queue[n], hold[i])
    BY <1>1 DEF InOrder
  <2> QED
    BY <1>1, <1>2, <2>1, AscendingAppend DEF InOrder, Before
<1>7. \A a \in Stages : Range(hold'[a]) \subseteq Range(hold[a]) /\ Ascending(hold'[a])
  BY DEF InOrder
<1>8. \A a \in Stages : Ascending(queue'[a])
  BY <1>2, <1>6 DEF InOrder
<1>9. ASSUME NEW a \in Stages
      PROVE  Before(out', hold'[a]) /\ Before(out', queue'[a]) /\ Before(hold'[a], queue'[a])
  <2>0. Before(out, hold[a]) /\ Before(out, queue[a]) /\ Before(hold[a], queue[a]) /\ Before(out, hold[i])
    BY DEF InOrder
  <2>1. CASE a = n
    <3>1. Before(hold[n], hold[i])
      BY <1>1 DEF InOrder
    <3> QED
      BY <1>3, <1>7, <2>0, <2>1, <3>1 DEF Before
  <2>2. CASE a # n
    BY <1>2, <1>7, <2>0, <2>2 DEF Before
  <2> QED
    BY <2>1, <2>2
<1>10. ASSUME NEW a \in Stages, NEW b \in Stages, a < b
       PROVE  /\ Before(hold'[b], hold'[a]) /\ Before(hold'[b], queue'[a])
              /\ Before(queue'[b], hold'[a]) /\ Before(queue'[b], queue'[a])
  <2>0. /\ Before(hold[b], hold[a]) /\ Before(hold[b], queue[a])
        /\ Before(queue[b], hold[a]) /\ Before(queue[b], queue[a])
    BY <1>10 DEF InOrder
  <2>1. Before(hold'[b], hold'[a])
    BY <1>7, <2>0 DEF Before
  <2>2. Before(hold'[b], queue'[a])
    <3>1. CASE a = n
      <4>1. i < b
        BY <1>1, <1>10, <3>1 DEF Stages
      <4>2. Before(hold[b], hold[i])
        BY <4>1 DEF InOrder
      <4> QED
        BY <1>3, <1>7, <2>0, <3>1, <4>2 DEF Before
    <3>2. CASE a # n
      BY <1>2, <1>7, <2>0, <3>2 DEF Before
    <3> QED
      BY <3>1, <3>2
  <2>3. Before(queue'[b], hold'[a])
    <3>1. CASE b = n /\ a = i
      BY <1>3, <1>7, <2>0, <3>1 DEF Before
    <3>2. CASE b = n /\ a < i
      <4>1. Before(hold[i], hold[a])
        BY <3>2 DEF InOrder
      <4> QED
        BY <1>3, <1>7, <2>0, <3>2, <4>1 DEF Before
    <3>3. CASE b # n
      BY <1>2, <1>7, <2>0, <3>3 DEF Before
    <3> QED
      BY <1>4, <1>10, <3>1, <3>2, <3>3
  <2>4. Before(queue'[b], queue'[a])
    <3>1. CASE b = n
      <4>1. a # n
        BY <1>10, <3>1 DEF Stages
      <4>2. Before(hold[i], queue[a])
        BY <1>4, <1>10, <3>1 DEF InOrder
      <4> QED
        BY <1>2, <1>3, <2>0, <3>1, <4>1, <4>2 DEF Before
    <3>2. CASE a = n /\ b # n
      <4>1. Before(queue[b], hold[i])
        <5>1. i < b
          BY <1>1, <1>10, <3>2 DEF Stages
        <5> QED
          BY <5>1 DEF InOrder
      <4> QED
        BY <1>2, <1>3, <2>0, <3>2, <4>1 DEF Before
    <3>3. CASE a # n /\ b # n
      BY <1>2, <2>0, <3>3
    <3> QED
      BY <3>1, <3>2, <3>3
  <2> QED
    BY <2>1, <2>2, <2>3, <2>4
<1>11. Ascending(out')
  BY DEF InOrder
<1> QED
  BY <1>7, <1>8, <1>9, <1>10, <1>11 DEF InOrder

LEMMA WriteInOrder ==
  ASSUME TypeInv, InOrder, NEW i \in Stages, Write(i) \/ WriteFails(i) PROVE InOrder'
<1>1. /\ hold'[i] = <<>> /\ \A a \in Stages \ {i} : hold'[a] = hold[a]
      /\ queue' = queue /\ out' \in {out, out \o hold[i]}
  BY DEF Write, WriteFails, TypeInv, TypeOK
<1>2. \A a \in Stages : a < i \/ a = i
  <2>1. Kind[i] \in Sinks
    BY DEF Write, WriteFails, Sinks
  <2>2. i = N
    BY <2>1, ChainAssumption
  <2> QED
    BY <2>2, NType DEF Stages
<1>3. out \in Seq(Nat) /\ hold[i] \in Seq(Nat) /\ Before(out, hold[i])
  BY DEF TypeInv, TypeOK, InOrder
<1>4. Ascending(out') /\ Range(out') \subseteq Range(out) \cup Range(hold[i])
  <2>1. Ascending(out) /\ Ascending(hold[i])
    BY DEF InOrder
  <2>2. Ascending(out \o hold[i]) /\ Range(out \o hold[i]) = Range(out) \cup Range(hold[i])
    BY <1>3, <2>1, AscendingConcat, RangeConcatenation
  <2> QED
    BY <1>1, <2>1, <2>2
<1>5. \A a \in Stages : Ascending(hold'[a]) /\ Range(hold'[a]) \subseteq Range(hold[a])
  BY <1>1, EmptyInOrder, EmptyRange DEF InOrder
<1>6. ASSUME NEW a \in Stages
      PROVE  Before(out', hold'[a]) /\ Before(out', queue'[a]) /\ Before(hold'[a], queue'[a])
  <2>1. Before(out, hold[a]) /\ Before(out, queue[a]) /\ Before(hold[a], queue[a])
    BY DEF InOrder
  <2>2. Before(hold[i], queue[a])
    BY <1>2 DEF InOrder
  <2>3. Before(hold[i], hold[a]) \/ a = i
    BY <1>2 DEF InOrder
  <2>4. Before(out', hold'[a])
    BY <1>1, <1>4, <1>5, <2>1, <2>3, EmptyInOrder DEF Before
  <2>5. Before(out', queue'[a]) /\ Before(hold'[a], queue'[a])
    BY <1>1, <1>4, <1>5, <2>1, <2>2 DEF Before
  <2> QED
    BY <2>4, <2>5
<1>7. ASSUME NEW a \in Stages, NEW b \in Stages, a < b
      PROVE  /\ Before(hold'[b], hold'[a]) /\ Before(hold'[b], queue'[a])
             /\ Before(queue'[b], hold'[a]) /\ Before(queue'[b], queue'[a])
  <2>1. /\ Before(hold[b], hold[a]) /\ Before(hold[b], queue[a])
        /\ Before(queue[b], hold[a]) /\ Before(queue[b], queue[a])
    BY <1>7 DEF InOrder
  <2> QED
    BY <1>1, <1>5, <2>1 DEF Before
<1> QED
  BY <1>1, <1>4, <1>5, <1>6, <1>7 DEF InOrder

LEMMA LoopInOrder ==
  ASSUME TypeInv, InOrder, NEW i \in Stages, Loop(i) PROVE InOrder'
<1>0. hold[i] \in Seq(Nat) /\ queue \in [Stages -> Seq(Nat)] /\ hold \in [Stages -> Seq(Nat)]
  BY DEF TypeInv, TypeOK
<1>1. CASE Dequeue(i)
  BY <1>1, DequeueInOrder
<1>2. CASE Write(i) \/ WriteFails(i)
  BY <1>2, WriteInOrder
<1>3. CASE Forward(i)
  <2>1. i + 1 \in Stages /\ hold[i] # <<>>
    BY <1>3, Successor DEF Forward, TypeInv, EmitOK
  <2>2. /\ queue' = [queue EXCEPT ![i + 1] = Append(@, Head(hold[i]))] /\ out' = out
        /\ hold'[i] = Tail(hold[i]) /\ \A a \in Stages \ {i} : hold'[a] = hold[a]
    BY <1>0, <1>3 DEF Forward
  <2>3. Head(hold[i]) \in Range(hold[i]) /\ Range(hold'[i]) \subseteq Range(hold[i])
    BY <1>0, <2>1, <2>2, HeadTailFacts
  <2>4. Ascending(hold'[i]) /\ \A y \in Range(hold'[i]) : Head(hold[i]) < y
    BY <1>0, <2>1, <2>2, AscendingTail DEF InOrder
  <2> QED
    BY <2>1, <2>2, <2>3, <2>4, EmitInOrder
<1>4. CASE Average(i)
  <2>1. CASE UNCHANGED <<queue, hold>>
    BY <1>4, <2>1 DEF Average, InOrder
  <2>2. CASE ~UNCHANGED <<queue, hold>>
    <3>1. i + 1 \in Stages /\ hold[i] # <<>>
      BY <1>4, Successor DEF Average, TypeInv, EmitOK, Sinks
    <3>2. /\ queue' = [queue EXCEPT ![i + 1] = Append(@, hold[i][1])] /\ out' = out
          /\ hold'[i] = <<>> /\ \A a \in Stages \ {i} : hold'[a] = hold[a]
      BY <1>0, <1>4, <2>2 DEF Average
    <3>3. hold[i][1] \in Range(hold[i])
      BY <1>0, <3>1, EmptySeq, LenProperties DEF Range
    <3>4. Range(hold'[i]) = {} /\ Ascending(hold'[i])
      BY <3>2, EmptyRange, EmptyInOrder
    <3> QED
      BY <3>1, <3>2, <3>3, <3>4, EmitInOrder
  <2> QED
    BY <2>1, <2>2
<1>5. CASE Begin(i) \/ Test(i) \/ SizeApprox(i) \/ PollEmpty(i) \/ Connect(i)
  BY <1>5 DEF Begin, Test, SizeApprox, PollEmpty, Connect, threadVars, InOrder
<1> QED
  BY <1>1, <1>2, <1>3, <1>4, <1>5 DEF Loop

(* What the device delivers goes to places that are empty, and is newer.   *)
LEMMA DeliverInOrder ==
  ASSUME TypeInv, InOrder, Conserved, hold[1] = <<>>, queue[1] = <<>>,
         NEW s \in Seq(Nat), Ascending(s), \A y \in Range(s) : y > Captured,
         hold' = [hold EXCEPT ![1] = s], UNCHANGED <<queue, out>>
  PROVE  InOrder'
<1>1. /\ 1 \in Stages /\ Captured \in Nat
      /\ hold'[1] = s /\ \A a \in Stages \ {1} : hold'[a] = hold[a]
  BY NType, LenProperties DEF TypeInv, TypeOK, Captured
<1>2. \A a \in Stages : a = 1 \/ 1 < a
  BY DEF Stages
<1>3. ASSUME NEW t, Range(t) \subseteq 1 .. Captured PROVE Before(t, s)
  <2> SUFFICES ASSUME NEW u \in Range(t), NEW v \in Range(s) PROVE u < v
    BY DEF Before
  <2>1. v \in Nat
    <3>1. \A k \in DOMAIN s : s[k] \in Nat
      BY LenProperties, ElementOfSeq
    <3> QED
      BY <3>1 DEF Range
  <2> QED
    BY <1>1, <1>3, <2>1
<1>4. Before(out, s) /\ \A a \in Stages : Before(hold[a], s) /\ Before(queue[a], s)
  BY <1>3 DEF Conserved
<1>5. \A a \in Stages :
         /\ Ascending(hold'[a]) /\ Ascending(queue'[a])
         /\ Before(out', hold'[a]) /\ Before(out', queue'[a]) /\ Before(hold'[a], queue'[a])
  BY <1>1, <1>4, EmptyInOrder DEF InOrder
<1>6. ASSUME NEW a \in Stages, NEW b \in Stages, a < b
      PROVE  /\ Before(hold'[b], hold'[a]) /\ Before(hold'[b], queue'[a])
             /\ Before(queue'[b], hold'[a]) /\ Before(queue'[b], queue'[a])
  <2>1. b # 1 /\ hold'[b] = hold[b] /\ queue'[b] = queue[b] /\ queue'[a] = queue[a]
    BY <1>1, <1>2, <1>6 DEF Stages
  <2>2. /\ Before(hold[b], hold[a]) /\ Before(hold[b], queue[a])
        /\ Before(queue[b], hold[a]) /\ Before(queue[b], queue[a])
    BY <1>6 DEF InOrder
  <2> QED
    BY <1>1, <1>4, <2>1, <2>2
<1> QED
  BY <1>5, <1>6 DEF InOrder

LEMMA DriverInOrder ==
  ASSUME TypeInv, StopInv, LossInv, InOrder, Driver PROVE InOrder'
<1>1. queue[1] = <<>> /\ Conserved /\ Captured \in Nat
  BY LenProperties DEF LossInv, FirstInv, TypeInv, TypeOK, Captured
<1>2. CASE Capture
  <2> DEFINE s == <<Captured + 1>>
  <2>1. hold[1] = <<>> /\ hold' = [hold EXCEPT ![1] = s] /\ UNCHANGED <<queue, out>>
    BY <1>2, NType DEF Capture, StopInv, HoldInv
  <2>2. s \in Seq(Nat) /\ Ascending(s) /\ \A y \in Range(s) : y > Captured
    BY <1>1 DEF Ascending, Range
  <2> HIDE DEF s
  <2> QED
    BY <1>1, <2>1, <2>2, DeliverInOrder
<1>3. CASE ReadSync
  <2> DEFINE s == [k \in 1 .. AvgFactor |-> Captured + k]
  <2>1. hold[1] = <<>> /\ hold' = [hold EXCEPT ![1] = s] /\ UNCHANGED <<queue, out>>
    BY <1>3, NType DEF ReadSync, StopInv, HoldInv
  <2>2. s \in Seq(Nat) /\ Ascending(s) /\ \A y \in Range(s) : y > Captured
    BY <1>1, BoundsAssumption DEF Ascending, Range
  <2> HIDE DEF s
  <2> QED
    BY <1>1, <2>1, <2>2, DeliverInOrder
<1>4. CASE ~Capture /\ ~ReadSync
  <2>1. UNCHANGED <<hold, queue, out>>
    BY <1>4 DEF Driver, OpenDevice, StartTimePast, ReadAsync, CheckDuration, ReadCanceled,
       DeviceLost, HopFails, EndDriver, threadVars
  <2> QED
    BY <2>1 DEF InOrder
<1> QED
  BY <1>2, <1>3, <1>4

(* No segment overtakes another or is in two places, so no two threads     *)
(* touch the same one, in a chain of any length.                           *)
THEOREM NothingOvertakes == Spec => []InOrder
<1>1. Init => InOrder
  <2> SUFFICES ASSUME Init PROVE InOrder
    OBVIOUS
  <2>1. out = <<>> /\ \A a \in Stages : hold[a] = <<>> /\ queue[a] = <<>>
    BY DEF Init
  <2> QED
    BY <2>1, EmptyInOrder DEF InOrder
<1>2. TypeInv /\ StopInv /\ LossInv /\ InOrder /\ [Next]_vars => InOrder'
  <2> SUFFICES ASSUME TypeInv, StopInv, LossInv, InOrder, [Next]_vars PROVE InOrder'
    OBVIOUS
  <2>1. CASE Driver
    BY <2>1, DriverInOrder
  <2>2. ASSUME NEW i \in Stages, Loop(i) PROVE InOrder'
    BY <2>2, LoopInOrder
  <2>3. CASE Main \/ (\E g \in Signals : Deliver(g)) \/ UNCHANGED vars
    <3>1. UNCHANGED <<hold, queue, out>>
      BY <2>3 DEF Main, StartNext, Watch, ClearFlag, CancelAsync, JoinBegins, JoinReturns, Exit,
         Deliver, vars, threadVars
    <3> QED
      BY <3>1 DEF InOrder
  <2> QED
    BY <2>1, <2>2, <2>3 DEF Next, Gone
<1> QED
  BY <1>1, <1>2, InitTypeInv, InitStopInv, InitLossInv, TypeInvInductive, StopInvInductive,
     LossInvInductive, PTL DEF Spec

-----------------------------------------------------------------------------
(* A call of finish_ok() that is the only one has waited for the           *)
(* components before the one it is at, and for no other.                   *)
ClaimInv ==
  /\ \A i \in Stages : i <= started => pc[i] # "none"
  /\ frames = <<>> => claimed = {}
  /\ Len(frames) = 1 =>
       \A i \in claimed : i < top.at \/ (i = top.at /\ top.step = "joining")

(* One finish_ok() at a time, begun when all components are started, never *)
(* waits for a thread twice, nor for one that was never started.           *)
THEOREM OneFinishIsSafe == Spec => []AbortNeedsOverlap
<1>1. Init => ClaimInv /\ AbortNeedsOverlap
  BY EmptySeq DEF Init, ClaimInv, AbortNeedsOverlap, Stages
<1>2. TypeInv /\ ClaimInv /\ AbortNeedsOverlap /\ [Next]_vars => ClaimInv' /\ AbortNeedsOverlap'
  <2> SUFFICES ASSUME TypeInv, ClaimInv, AbortNeedsOverlap, [Next]_vars
               PROVE  ClaimInv' /\ AbortNeedsOverlap'
    OBVIOUS
  <2> USE DEF threadVars, mainVars
  <2>0. started \in 0 .. N /\ frames \in Seq(Frame) /\ Len(frames) \in Nat /\ pc \in [Stages -> Labels]
    BY LenProperties DEF TypeInv, TypeOK
  <2>1. CASE Driver \/ (\E i \in Stages : Loop(i)) \/ UNCHANGED vars
    <3>1. /\ UNCHANGED mainVars
          /\ \A i \in Stages : pc[i] # "none" => pc'[i] # "none"
      <4>1. CASE Driver
        BY <2>0, <4>1, NType DEF Driver, OpenDevice, StartTimePast, ReadAsync, Capture, CheckDuration,
           ReadCanceled, DeviceLost, HopFails, ReadSync, EndDriver, Goto
      <4>2. ASSUME NEW i \in Stages, Loop(i)
            PROVE  UNCHANGED mainVars /\ \A j \in Stages : pc[j] # "none" => pc'[j] # "none"
        BY <2>0, <4>2 DEF Loop, Begin, Test, SizeApprox, Dequeue, PollEmpty, Forward, AfterEmit, Average,
           Connect, Write, WriteFails, Goto, TypeInv, TypeOK
      <4> QED
        BY <2>1, <4>1, <4>2 DEF vars
    <3> QED
      BY <3>1 DEF ClaimInv, AbortNeedsOverlap, top
  <2>2. CASE status = "up" /\ StartNext
    <3>1. started + 1 \in Stages /\ frames' = frames /\ frames = <<>> /\ status' = status
      BY <2>0, <2>2, NType DEF StartNext, Stages
    <3>2. ASSUME NEW i \in Stages, i <= started' PROVE pc'[i] # "none"
      <4>1. i <= started \/ i = started + 1
        BY <2>0, <2>2, <3>2 DEF StartNext, Stages
      <4> QED
        BY <2>0, <2>2, <3>1, <4>1 DEF StartNext, ClaimInv, Goto
    <3>3. claimed' = {} /\ Len(frames') = 0
      BY <2>2, <3>1, EmptySeq DEF StartNext, ClaimInv
    <3> QED
      BY <2>2, <3>1, <3>2, <3>3 DEF ClaimInv, AbortNeedsOverlap
  <2>3. CASE status = "up" /\ (Watch \/ \E g \in Signals : Deliver(g))
    <3>1. frames' = NewFrame /\ UNCHANGED <<pc, started, claimed, status>>
      BY <2>3 DEF Watch, Deliver
    <3>2. Len(frames') = Len(frames) + 1
      BY <2>0, <3>1 DEF NewFrame
    <3>3. Len(frames') = 1 => claimed = {}
      BY <2>0, <3>2, EmptySeq DEF ClaimInv
    <3>4. frames' # <<>>
      BY <2>0, <3>2, EmptySeq
    <3> QED
      BY <2>3, <3>1, <3>3, <3>4 DEF ClaimInv, AbortNeedsOverlap
  <2>4. ASSUME frames # <<>>, NEW a, NEW b, TopTo(a, b)
        PROVE  Len(frames') = Len(frames) /\ frames' # <<>> /\ top'.at = a /\ top'.step = b
    <3>1. Len(frames) \in DOMAIN frames /\ DOMAIN frames = 1 .. Len(frames)
      BY <2>0, <2>4, TopType, LenProperties DEF TypeInv
    <3>2. frames' = [frames EXCEPT ![Len(frames)] = [at |-> a, step |-> b]]
      BY <2>4 DEF TopTo
    <3>3. DOMAIN frames' = 1 .. Len(frames) /\ frames'[Len(frames)] = [at |-> a, step |-> b]
      BY <3>1, <3>2
    <3>4. Len(frames') = Len(frames)
      BY <2>0, <3>3
    <3> QED
      BY <3>1, <3>3, <3>4 DEF top
  <2>5. CASE status = "up" /\ (ClearFlag \/ CancelAsync \/ JoinReturns)
    <3>1. frames # <<>> /\ top.at \in Nat /\ UNCHANGED <<pc, started, claimed, status>>
      <4>1. frames # <<>> /\ UNCHANGED <<pc, started, claimed, status>>
        BY <2>5 DEF ClearFlag, CancelAsync, JoinReturns
      <4>2. top.at \in Nat
        BY <4>1, TopType, NType DEF TypeInv, Frame, Stages
      <4> QED
        BY <4>1, <4>2
    <3>2. \/ top.step # "joining" /\ \E b \in {"cancel", "join"} : TopTo(top.at, b)
          \/ TopTo(top.at + 1, "clear")
      BY <2>5 DEF ClearFlag, CancelAsync, JoinReturns
    <3>3. ASSUME Len(frames') = 1, NEW i \in claimed PROVE i < top'.at
      <4>1. Len(frames) = 1 /\ i \in Stages
        BY <2>4, <3>1, <3>2, <3>3 DEF TypeInv, TypeOK
      <4>2. CASE top.step # "joining"
        <5>1. i < top.at
          BY <4>1, <4>2, <3>3 DEF ClaimInv
        <5>2. top'.at \in {top.at, top.at + 1}
          BY <2>4, <3>1, <3>2
        <5> QED
          BY <3>1, <4>1, <5>1, <5>2 DEF Stages
      <4>3. CASE top.step = "joining"
        <5>1. i < top.at \/ i = top.at
          BY <4>1, <3>3 DEF ClaimInv
        <5>2. top'.at = top.at + 1
          BY <2>4, <3>1, <3>2, <4>3
        <5> QED
          BY <3>1, <4>1, <5>1, <5>2 DEF Stages
      <4> QED
        BY <4>2, <4>3
    <3>4. frames' # <<>>
      BY <2>4, <3>1, <3>2
    <3> QED
      BY <2>5, <3>1, <3>3, <3>4 DEF ClaimInv, AbortNeedsOverlap
  <2>6. CASE Exit
    BY <2>6 DEF Exit, ClaimInv, AbortNeedsOverlap, top
  <2>7. CASE status = "up" /\ JoinBegins
    <3>1. frames # <<>> /\ top.at \in Stages /\ top.step = "join" /\ UNCHANGED <<pc, started>>
      BY <2>7, TopType DEF JoinBegins, TypeInv, Frame
    <3>2. Len(frames) # 0
      BY <2>0, <3>1, EmptySeq
    <3>3. CASE pc[top.at] = "none" \/ top.at \in claimed
      <4>1. status' = "aborted" /\ UNCHANGED <<frames, claimed>>
        BY <2>7, <3>3 DEF JoinBegins
      <4>2. CASE pc[top.at] = "none"
        <5>1. ~(top.at <= started)
          BY <3>1, <4>2 DEF ClaimInv
        <5>2. started < N
          BY <2>0, <3>1, <5>1, NType DEF Stages
        <5> QED
          BY <3>1, <4>1, <5>2 DEF ClaimInv, AbortNeedsOverlap, top
      <4>3. CASE top.at \in claimed
        <5>1. Len(frames) # 1
          BY <3>1, <4>3 DEF ClaimInv, Stages
        <5>2. Len(frames) >= 2
          <6> DEFINE len == Len(frames)
          <6>1. len \in Nat /\ len # 0 /\ len # 1
            BY <2>0, <3>2, <5>1
          <6> HIDE DEF len
          <6>2. len >= 2
            BY <6>1
          <6> QED
            BY <6>2 DEF len
        <5> QED
          BY <3>1, <4>1, <5>2 DEF ClaimInv, AbortNeedsOverlap, top
      <4> QED
        BY <3>3, <4>2, <4>3
    <3>4. CASE ~(pc[top.at] = "none" \/ top.at \in claimed)
      <4>1. claimed' = claimed \cup {top.at} /\ TopTo(top.at, "joining") /\ status' = status
        BY <2>7, <3>4 DEF JoinBegins
      <4>2. Len(frames') = Len(frames) /\ frames' # <<>> /\ top'.at = top.at /\ top'.step = "joining"
        BY <2>4, <3>1, <4>1
      <4>3. ASSUME Len(frames) = 1, NEW i \in claimed' PROVE i < top.at \/ i = top.at
        BY <4>1, <4>3 DEF ClaimInv
      <4> QED
        BY <2>7, <3>1, <4>1, <4>2, <4>3 DEF ClaimInv, AbortNeedsOverlap
    <3> QED
      BY <3>3, <3>4
  <2> QED
    BY <2>1, <2>2, <2>3, <2>5, <2>6, <2>7 DEF Next, Main, Gone
<1> QED
  BY <1>1, <1>2, InitTypeInv, TypeInvInductive, PTL DEF Spec

-----------------------------------------------------------------------------
(* Why Averaging never meets two centre frequencies.  A synchronous read   *)
(* is a block of AvgFactor consecutive segments, and the segments reach    *)
(* Averaging one by one in their order, none missing: what it holds is the *)
(* beginning of a block, and the rest of that block is still before it.    *)
Base(r) == r * AvgFactor

LEMMA BaseType == Base(0) = 0 /\ \A r \in Nat : Base(r) \in Nat
BY BoundsAssumption DEF Base

LEMMA BaseNext == ASSUME NEW r \in Nat PROVE Base(r + 1) = Base(r) + AvgFactor
BY BoundsAssumption DEF Base

LEMMA BaseApart ==
  ASSUME NEW r \in Nat, NEW s \in Nat, r < s PROVE Base(r) + AvgFactor <= Base(s)
<1>1. AvgFactor \in Nat \ {0}
  BY BoundsAssumption
<1>2. PICK d \in Nat : s = (r + 1) + d
  <2>1. s - (r + 1) \in Nat /\ s = (r + 1) + (s - (r + 1))
    OBVIOUS
  <2> QED
    BY <2>1
<1>3. s * AvgFactor = (r + 1) * AvgFactor + d * AvgFactor /\ d * AvgFactor \in Nat
  BY <1>1, <1>2
<1>4. Base(r + 1) = Base(r) + AvgFactor /\ Base(r) \in Nat /\ Base(s) \in Nat
  BY BaseType, BaseNext
<1> QED
  BY <1>1, <1>3, <1>4 DEF Base

LEMMA SameElements ==
  ASSUME NEW s, NEW t, \A y : y \in s <=> y \in t PROVE s = t
OBVIOUS

(* With a synchronous driver the thread is never at a label of the other.  *)
SyncInv == Kind[1] = "SyncSampling" => pc[1] \notin {"open", "wait", "read", "duration"}

(* Read r + 1 delivered block r.                                           *)
OriginInv ==
  Kind[1] = "SyncSampling" =>
    /\ ReadCount \in Nat /\ Captured = Base(ReadCount)
    /\ \A r \in Nat, k \in 1 .. AvgFactor :
         Base(r) + k <= Captured => origin[Base(r) + k] = r + 1

(* The segments that have still to reach the thread of component a.        *)
Ahead(a) == Range(queue[a]) \cup UNION {Place(j) : j \in 1 .. a - 1}

Aligned(a, r) ==
  /\ \A k \in DOMAIN hold[a] : hold[a][k] = Base(r) + k
  /\ Base(r) + Len(hold[a]) <= Captured
  /\ Ahead(a) = Base(r) + Len(hold[a]) + 1 .. Captured

Full(a) == IF pc[a] = "emit" THEN Len(hold[a]) = AvgFactor ELSE Len(hold[a]) < AvgFactor

AlignInv ==
  \A a \in Stages : Kind[a] = "Averaging" => Full(a) /\ \E r \in Nat : Aligned(a, r)

AverageInv == SyncInv /\ OriginInv /\ AlignInv

LEMMA InitAverageInv == Init => AverageInv
<1> SUFFICES ASSUME Init PROVE AverageInv
  OBVIOUS
<1>1. Captured = 0 /\ ReadCount = 0 /\ \A i \in Stages : hold[i] = <<>> /\ queue[i] = <<>> /\ pc[i] = "none"
  BY DEF Init, Captured, ReadCount
<1>2. SyncInv
  BY <1>1, NType DEF SyncInv
<1>3. OriginInv
  BY <1>1, BaseType, BoundsAssumption DEF OriginInv
<1>4. ASSUME NEW a \in Stages, Kind[a] = "Averaging" PROVE Full(a) /\ Aligned(a, 0)
  <2>1. \A j \in 1 .. a - 1 : j \in Stages
    BY NType DEF Stages
  <2>2. Range(queue[a]) = {} /\ \A j \in 1 .. a - 1 : Place(j) = {}
    BY <1>1, <2>1, EmptyRange DEF Place
  <2>3. Ahead(a) = {}
    BY <2>2 DEF Ahead
  <2>4. Len(hold[a]) = 0 /\ DOMAIN hold[a] = {}
    BY <1>1
  <2>5. Full(a)
    BY <1>1, <2>4, BoundsAssumption DEF Full
  <2>6. Aligned(a, 0)
    BY <1>1, <2>3, <2>4, BaseType DEF Aligned
  <2> QED
    BY <2>5, <2>6
<1>5. AlignInv
  BY <1>4 DEF AlignInv
<1> QED
  BY <1>2, <1>3, <1>5 DEF AverageInv

LEMMA SyncStep == ASSUME TypeInv, SyncInv, [Next]_vars PROVE SyncInv'
<1> SUFFICES ASSUME Kind[1] = "SyncSampling"
             PROVE  pc'[1] \notin {"open", "wait", "read", "duration"}
  BY DEF SyncInv
<1>1. pc[1] \notin {"open", "wait", "read", "duration"} /\ pc \in [Stages -> Labels] /\ 1 \in Stages
  BY NType DEF SyncInv, TypeInv, TypeOK
<1>2. CASE Driver
  BY <1>1, <1>2 DEF Driver, OpenDevice, StartTimePast, ReadAsync, Capture, CheckDuration,
     ReadCanceled, DeviceLost, HopFails, ReadSync, EndDriver, Goto
<1>3. ASSUME NEW i \in Stages, Loop(i) PROVE pc'[1] \notin {"open", "wait", "read", "duration"}
  <2>1. CASE i = 1
    <3>1. CASE Begin(i) \/ Dequeue(i) \/ PollEmpty(i) \/ Forward(i) \/ Average(i) \/ Write(i)
               \/ WriteFails(i) \/ Connect(i)
      BY <1>1, <2>1, <3>1 DEF Begin, Dequeue, PollEmpty, Forward, Average, Write, WriteFails,
         Connect, Goto, AfterEmit
    <3>2. CASE Test(i)
      BY <1>1, <2>1, <3>2 DEF Test, Goto
    <3>3. CASE SizeApprox(i)
      BY <1>1, <2>1, <3>3 DEF SizeApprox, Goto
    <3> QED
      BY <1>3, <3>1, <3>2, <3>3 DEF Loop
  <2>2. CASE i # 1
    <3>1. pc'[1] = pc[1]
      BY <1>1, <1>3, <2>2 DEF Loop, Begin, Test, SizeApprox, Dequeue, PollEmpty, Forward,
         Average, Write, WriteFails, Connect, Goto
    <3> QED
      BY <1>1, <3>1
  <2> QED
    BY <2>1, <2>2
<1>4. CASE Main \/ (\E g \in Signals : Deliver(g)) \/ UNCHANGED vars
  BY <1>1, <1>4 DEF Main, StartNext, Watch, ClearFlag, CancelAsync, JoinBegins, JoinReturns, Exit,
     Deliver, vars, Goto
<1> QED
  BY <1>2, <1>3, <1>4 DEF Next, Gone

(* Only a read adds to the segments.                                       *)
LEMMA OriginStep == ASSUME TypeInv, SyncInv, OriginInv, [Next]_vars PROVE OriginInv'
<1> SUFFICES ASSUME Kind[1] = "SyncSampling"
             PROVE  /\ ReadCount' \in Nat /\ Captured' = Base(ReadCount')
                    /\ \A r \in Nat, k \in 1 .. AvgFactor :
                         Base(r) + k <= Captured' => origin'[Base(r) + k] = r + 1
  BY DEF OriginInv
<1>1. /\ ReadCount \in Nat /\ Captured = Base(ReadCount) /\ Captured \in Nat
      /\ \A r \in Nat, k \in 1 .. AvgFactor :
           Base(r) + k <= Captured => origin[Base(r) + k] = r + 1
  BY BaseType DEF OriginInv
<1>2. CASE ReadSync
  <2> DEFINE t == [k \in 1 .. AvgFactor |-> ReadCount + 1]
  <2>1. AvgFactor \in Nat \ {0} /\ origin \in Seq(Nat) /\ t \in Seq(Nat) /\ Len(t) = AvgFactor
        /\ \A k \in 1 .. AvgFactor : t[k] = ReadCount + 1
    BY <1>1, BoundsAssumption DEF TypeInv, TypeOK
  <2>2. origin' = origin \o t
    BY <1>2 DEF ReadSync
  <2> HIDE DEF t
  <2>3. /\ Captured' = Captured + AvgFactor /\ origin' \in Seq(Nat)
        /\ \A k \in 1 .. Captured : origin'[k] = origin[k]
        /\ \A k \in 1 .. AvgFactor : origin'[Captured + k] = ReadCount + 1
    <3>1. Len(origin \o t) = Len(origin) + Len(t) /\ origin \o t \in Seq(Nat)
      BY <2>1, ConcatProperties
    <3>2. \A k \in 1 .. Len(origin) : (origin \o t)[k] = origin[k]
      BY <2>1, ConcatProperties
    <3>3. \A k \in Len(origin) + 1 .. Len(origin) + Len(t) : (origin \o t)[k] = t[k - Len(origin)]
      BY <2>1, ConcatProperties
    <3>4. ASSUME NEW k \in 1 .. AvgFactor PROVE (origin \o t)[Captured + k] = ReadCount + 1
      <4>1. Captured + k \in Len(origin) + 1 .. Len(origin) + Len(t) /\ (Captured + k) - Len(origin) = k
        BY <1>1, <2>1 DEF Captured
      <4> QED
        BY <2>1, <3>3, <4>1
    <3> QED
      BY <2>1, <2>2, <3>1, <3>2, <3>4 DEF Captured
  <2>4. origin' # <<>>
    BY <1>1, <2>1, <2>3 DEF Captured
  <2>5. ReadCount' = ReadCount + 1
    BY <1>1, <2>1, <2>3, <2>4 DEF ReadCount
  <2>6. Captured' = Base(ReadCount')
    BY <1>1, <2>3, <2>5, BaseNext
  <2>7. ASSUME NEW r \in Nat, NEW k \in 1 .. AvgFactor, Base(r) + k <= Captured'
        PROVE  origin'[Base(r) + k] = r + 1
    <3>1. Base(r) \in Nat /\ k \in Nat \ {0} /\ k <= AvgFactor
      BY <2>1, BaseType
    <3>2. CASE r < ReadCount
      <4>1. Base(r) + AvgFactor <= Captured
        BY <1>1, <3>2, BaseApart
      <4>2. Base(r) + k <= Captured /\ Base(r) + k \in 1 .. Captured
        BY <1>1, <2>1, <3>1, <4>1
      <4> QED
        BY <1>1, <2>3, <4>2
    <3>3. CASE r = ReadCount
      BY <1>1, <2>3, <3>3
    <3>4. CASE r > ReadCount
      <4>1. Captured + AvgFactor <= Base(r)
        BY <1>1, <3>4, BaseApart
      <4> QED
        BY <1>1, <2>1, <2>3, <2>7, <3>1, <4>1
    <3> QED
      BY <1>1, <3>2, <3>3, <3>4
  <2> QED
    BY <1>1, <2>5, <2>6, <2>7
<1>3. CASE ~ReadSync
  <2>2. CASE UNCHANGED origin
    BY <1>1, <2>2 DEF Captured, ReadCount
  <2>3. Driver \/ UNCHANGED origin
    BY DEF Next, Gone, Loop, Begin, Test, SizeApprox, Dequeue, PollEmpty, Forward, Average, Write,
       WriteFails, Connect, Main, StartNext, Watch, ClearFlag, CancelAsync, JoinBegins, JoinReturns,
       Exit, Deliver, vars, threadVars
  <2>4. Driver => UNCHANGED origin
    BY <1>3 DEF Driver, OpenDevice, StartTimePast, ReadAsync, Capture, CheckDuration,
       ReadCanceled, DeviceLost, HopFails, EndDriver, threadVars, SyncInv
  <2> QED
    BY <2>2, <2>3, <2>4
<1> QED
  BY <1>2, <1>3

(* A step of a component before Averaging moves segments within what is    *)
(* ahead of it; a step of one behind it leaves that alone.                 *)
LEMMA Earlier ==
  ASSUME NEW a \in Stages
  PROVE  (\A j \in 1 .. a - 1 : j \in Stages /\ j < a /\ j # a /\ j # N) /\ a \notin 1 .. a - 1
BY NType DEF Stages

LEMMA AheadSame ==
  ASSUME NEW a \in Stages, Range(queue'[a]) = Range(queue[a]),
         \A j \in 1 .. a - 1 : Place(j)' = Place(j)
  PROVE  Ahead(a)' = Ahead(a)
BY DEF Ahead

(* Two places before Averaging, or one and its queue, exchange segments.   *)
LEMMA AheadMoves ==
  ASSUME NEW a \in Stages, NEW i \in 1 .. a - 1, NEW k \in 1 .. a - 1,
         \A j \in 1 .. a - 1 \ {i, k} : Place(j)' = Place(j),
         Range(queue[a])' \cup Place(i)' \cup Place(k)' = Range(queue[a]) \cup Place(i) \cup Place(k)
  PROVE  Ahead(a)' = Ahead(a)
<1> DEFINE rest == UNION {Place(j) : j \in 1 .. a - 1 \ {i, k}}
<1>1. Ahead(a) = Range(queue[a]) \cup Place(i) \cup Place(k) \cup rest
  BY DEF Ahead
<1>2. Ahead(a)' = Range(queue[a])' \cup Place(i)' \cup Place(k)' \cup rest'
  BY DEF Ahead
<1>3. rest' = rest
  OBVIOUS
<1> HIDE DEF rest
<1> QED
  BY <1>1, <1>2, <1>3

LEMMA AheadKept ==
  ASSUME TypeInv, NEW a \in Stages, Kind[a] = "Averaging", NEW i \in Stages, i # a, Loop(i)
  PROVE  Ahead(a)' = Ahead(a)
<1>1. queue \in [Stages -> Seq(Nat)] /\ hold \in [Stages -> Seq(Nat)]
  BY DEF TypeInv, TypeOK
<1>2. Kind[i] # "Averaging"
  BY ChainAssumption
<1>3. CASE Dequeue(i)
  <2>1. queue[i] \in Seq(Nat) /\ queue[i] # <<>> /\ hold[i] \in Seq(Nat)
    BY <1>1, <1>3 DEF Dequeue
  <2>2. /\ queue'[i] = Tail(queue[i]) /\ hold'[i] = Append(hold[i], Head(queue[i]))
        /\ \A j \in Stages \ {i} : queue'[j] = queue[j] /\ hold'[j] = hold[j]
    BY <1>1, <1>3 DEF Dequeue
  <2>3. Range(queue[i]) = {Head(queue[i])} \cup Range(queue'[i]) /\ Head(queue[i]) \in Nat
    BY <2>1, <2>2, HeadTailFacts
  <2>4. Range(hold'[i]) = Range(hold[i]) \cup {Head(queue[i])}
    BY <2>1, <2>2, <2>3, AppendFacts
  <2>5. \A j \in Stages : Place(j)' = Place(j)
    BY <2>2, <2>3, <2>4 DEF Place
  <2>6. queue'[a] = queue[a]
    BY <2>2
  <2> QED
    BY <2>5, <2>6, Earlier, AheadSame
<1>4. CASE Forward(i)
  <2> DEFINE x == Head(hold[i])  n == i + 1
  <2>0. n \in Stages /\ n # i
    BY <1>4, Successor DEF Forward, Stages
  <2>1. n \in Stages /\ n # i /\ hold[i] \in Seq(Nat) /\ hold[i] # <<>> /\ queue[n] \in Seq(Nat)
    <3>1. hold[i] # <<>>
      BY <1>4 DEF Forward, TypeInv, EmitOK
    <3> QED
      BY <1>1, <2>0, <3>1
  <2>2. /\ queue'[n] = Append(queue[n], x) /\ \A j \in Stages \ {n} : queue'[j] = queue[j]
        /\ hold'[i] = Tail(hold[i]) /\ \A j \in Stages \ {i} : hold'[j] = hold[j]
    BY <1>1, <1>4, <2>1 DEF Forward
  <2>3. Range(hold[i]) = {x} \cup Range(hold'[i]) /\ x \in Nat
    BY <2>1, <2>2, HeadTailFacts
  <2>4. Range(queue'[n]) = Range(queue[n]) \cup {x}
    BY <2>1, <2>2, <2>3, AppendFacts
  <2>5. i \in 1 .. a - 1 => n = a \/ n \in 1 .. a - 1
    BY <2>1, NType DEF Stages
  <2>6. n \in 1 .. a - 1 \/ n = a => i \in 1 .. a - 1
    BY NType DEF Stages
  <2> HIDE DEF x, n
  <2>7. CASE i \notin 1 .. a - 1
    <3>1. n \notin 1 .. a - 1 /\ n # a
      BY <2>6, <2>7
    <3>2. queue'[a] = queue[a] /\ \A j \in 1 .. a - 1 : Place(j)' = Place(j)
      BY <2>2, <2>7, <3>1, Earlier DEF Place
    <3> QED
      BY <3>2, AheadSame
  <2>8. CASE i \in 1 .. a - 1 /\ n = a
    <3>1. \A j \in 1 .. a - 1 \ {i, i} : Place(j)' = Place(j)
      BY <2>2, <2>8, Earlier DEF Place
    <3>2. Place(i) = Place(i)' \cup {x} /\ Range(queue'[a]) = Range(queue[a]) \cup {x}
      BY <2>1, <2>2, <2>3, <2>4, <2>8 DEF Place
    <3>3. Range(queue[a])' \cup Place(i)' \cup Place(i)' = Range(queue[a]) \cup Place(i) \cup Place(i)
      BY <3>2
    <3> QED
      BY <2>8, <3>1, <3>3, AheadMoves
  <2>9. CASE i \in 1 .. a - 1 /\ n \in 1 .. a - 1
    <3>1. queue'[a] = queue[a] /\ \A j \in 1 .. a - 1 \ {i, n} : Place(j)' = Place(j)
      BY <2>2, <2>9, Earlier DEF Place
    <3>2. Place(i) = Place(i)' \cup {x} /\ Place(n)' = Place(n) \cup {x}
      BY <2>1, <2>2, <2>3, <2>4 DEF Place
    <3>3. Range(queue[a])' \cup Place(i)' \cup Place(n)' = Range(queue[a]) \cup Place(i) \cup Place(n)
      BY <3>1, <3>2
    <3> QED
      BY <2>9, <3>1, <3>3, AheadMoves
  <2> QED
    BY <2>5, <2>7, <2>8, <2>9
<1>5. CASE Write(i) \/ WriteFails(i)
  <2>1. queue' = queue /\ \A j \in Stages \ {i} : hold'[j] = hold[j]
    BY <1>1, <1>5 DEF Write, WriteFails
  <2>2. i = N
    BY <1>5, ChainAssumption DEF Write, WriteFails, Sinks
  <2>3. \A j \in 1 .. a - 1 : Place(j)' = Place(j)
    BY <2>1, <2>2, Earlier DEF Place
  <2> QED
    BY <2>1, <2>3, AheadSame
<1>6. CASE Begin(i) \/ Test(i) \/ SizeApprox(i) \/ PollEmpty(i) \/ Connect(i)
  <2>1. UNCHANGED <<queue, hold>>
    BY <1>6 DEF Begin, Test, SizeApprox, PollEmpty, Connect, threadVars
  <2> QED
    BY <2>1 DEF Ahead, Place
<1>7. ~Average(i)
  BY <1>2 DEF Average
<1> QED
  BY <1>3, <1>4, <1>5, <1>6, <1>7 DEF Loop

(* Averaging stays aligned as long as nothing reaches it or leaves it.     *)
LEMMA AlignedStill ==
  ASSUME NEW a \in Stages, hold'[a] = hold[a], Captured' = Captured, Ahead(a)' = Ahead(a)
  PROVE  \A r \in Nat : Aligned(a, r) => Aligned(a, r)'
BY DEF Aligned

(* The next segment to reach Averaging is the one that follows those held. *)
LEMMA NextInLine ==
  ASSUME TypeInv, InOrder, NEW a \in Stages, NEW r \in Nat, Aligned(a, r), queue[a] # <<>>
  PROVE  /\ Head(queue[a]) = Base(r) + Len(hold[a]) + 1
         /\ Base(r) + Len(hold[a]) + 1 <= Captured
         /\ Head(queue[a]) \notin Range(Tail(queue[a]))
         /\ \A j \in 1 .. a - 1 : Head(queue[a]) \notin Place(j)
<1> DEFINE x == Head(queue[a])  m == Base(r) + Len(hold[a]) + 1
<1>1. queue[a] \in Seq(Nat) /\ hold[a] \in Seq(Nat) /\ origin \in Seq(Nat)
  BY DEF TypeInv, TypeOK
<1>2. Range(queue[a]) = {x} \cup Range(Tail(queue[a])) /\ x \in Nat
  BY <1>1, HeadTailFacts
<1>3. \A y \in Range(Tail(queue[a])) : x < y
  BY <1>1, AscendingTail DEF InOrder
<1>4. ASSUME NEW j \in 1 .. a - 1, NEW y \in Place(j) PROVE x < y
  <2>1. j \in Stages /\ j < a
    BY NType DEF Stages
  <2>2. Before(queue[a], hold[j]) /\ Before(queue[a], queue[j])
    BY <2>1 DEF InOrder
  <2> QED
    BY <1>2, <1>4, <2>2 DEF Before, Place
<1>5. m \in Nat /\ Captured \in Nat
  <2>1. Base(r) \in Nat
    BY BaseType
  <2>2. Len(hold[a]) \in Nat /\ Captured \in Nat
    BY <1>1, LenProperties DEF Captured
  <2> QED
    BY <2>1, <2>2
<1>6. Ahead(a) = m .. Captured
  BY DEF Aligned
<1> HIDE DEF x, m
<1>7. x \in Ahead(a) /\ \A y \in Ahead(a) : y = x \/ x < y
  <2>1. \A y : y \in Ahead(a) <=> y \in Range(queue[a]) \/ \E j \in 1 .. a - 1 : y \in Place(j)
    BY DEF Ahead
  <2> QED
    BY <1>2, <1>3, <1>4, <2>1
<1>8. x \in m .. Captured
  BY <1>6, <1>7
<1>9. m \in Ahead(a)
  BY <1>5, <1>6, <1>8
<1>10. x = m /\ m <= Captured
  BY <1>5, <1>7, <1>8, <1>9
<1>11. x \notin Range(Tail(queue[a])) /\ \A j \in 1 .. a - 1 : x \notin Place(j)
  BY <1>2, <1>3, <1>4
<1> QED
  BY <1>10, <1>11 DEF x, m

LEMMA DequeueAligned ==
  ASSUME TypeInv, InOrder, NEW a \in Stages, Kind[a] = "Averaging", Dequeue(a), Full(a),
         NEW r \in Nat, Aligned(a, r)
  PROVE  Full(a)' /\ Aligned(a, r)'
<1> DEFINE x == Head(queue[a])
<1>1. /\ queue[a] \in Seq(Nat) /\ hold[a] \in Seq(Nat) /\ origin \in Seq(Nat) /\ queue[a] # <<>>
      /\ Len(hold[a]) \in Nat /\ DOMAIN hold[a] = 1 .. Len(hold[a])
      /\ Base(r) \in Nat /\ Captured \in Nat /\ AvgFactor \in Nat \ {0}
  BY BaseType, BoundsAssumption, LenProperties DEF Dequeue, TypeInv, TypeOK, Captured
<1>2. /\ queue'[a] = Tail(queue[a]) /\ hold'[a] = Append(hold[a], x) /\ Captured' = Captured
      /\ \A j \in Stages \ {a} : queue'[j] = queue[j] /\ hold'[j] = hold[j]
  BY DEF Dequeue, TypeInv, TypeOK, Captured
<1>3. /\ x = Base(r) + Len(hold[a]) + 1 /\ Base(r) + Len(hold[a]) + 1 <= Captured
      /\ x \notin Range(Tail(queue[a])) /\ \A j \in 1 .. a - 1 : x \notin Place(j)
  BY <1>1, NextInLine
<1>4. Range(queue[a]) = {x} \cup Range(queue'[a]) /\ x \in Nat
  BY <1>1, <1>2, HeadTailFacts
<1> HIDE DEF x
<1>5. /\ Len(hold'[a]) = Len(hold[a]) + 1 /\ DOMAIN hold'[a] = 1 .. Len(hold[a]) + 1
      /\ \A k \in 1 .. Len(hold[a]) : hold'[a][k] = hold[a][k]
      /\ hold'[a][Len(hold[a]) + 1] = x
  BY <1>1, <1>2, <1>4, AppendProperties, LenProperties
<1>6. Full(a)'
  <2>1. Len(hold[a]) < AvgFactor
    BY DEF Full, Dequeue
  <2>2. pc'[a] = IF Len(hold[a]) + 1 = AvgFactor THEN "emit" ELSE "test"
    BY DEF Dequeue, Goto, Batch, TypeInv, TypeOK
  <2> QED
    BY <1>1, <1>5, <2>1, <2>2 DEF Full
<1>7. \A k \in 1 .. Len(hold[a]) + 1 : hold'[a][k] = Base(r) + k
  <2>1. \A k \in 1 .. Len(hold[a]) : hold'[a][k] = Base(r) + k
    BY <1>1, <1>5 DEF Aligned
  <2>2. hold'[a][Len(hold[a]) + 1] = Base(r) + (Len(hold[a]) + 1)
    BY <1>1, <1>3, <1>5
  <2>3. \A k \in 1 .. Len(hold[a]) + 1 : k \in 1 .. Len(hold[a]) \/ k = Len(hold[a]) + 1
    BY <1>1
  <2> QED
    BY <2>1, <2>2, <2>3
<1>8. \A y : y \in Ahead(a)' <=> y \in Ahead(a) /\ y # x
  <2>1. \A j \in 1 .. a - 1 : Place(j)' = Place(j)
    BY <1>2, Earlier DEF Place
  <2>2. Ahead(a)' = Range(queue'[a]) \cup UNION {Place(j) : j \in 1 .. a - 1}
    BY <2>1 DEF Ahead
  <2>3. x \notin UNION {Place(j) : j \in 1 .. a - 1} /\ x \notin Range(queue'[a])
    BY <1>2, <1>3
  <2>4. Ahead(a) = Range(queue[a]) \cup UNION {Place(j) : j \in 1 .. a - 1}
    BY DEF Ahead
  <2> QED
    BY <1>4, <2>2, <2>3, <2>4
<1>9. Ahead(a) = Base(r) + Len(hold[a]) + 1 .. Captured
  BY DEF Aligned
<1>10. Ahead(a)' = Base(r) + (Len(hold[a]) + 1) + 1 .. Captured
  <2>1. PICK m \in Nat : m = Base(r) + Len(hold[a]) + 1
    BY <1>1
  <2>2. x = m /\ Base(r) + (Len(hold[a]) + 1) + 1 = m + 1
    BY <1>1, <1>3, <2>1
  <2>3. \A y : y \in Ahead(a)' <=> y \in m .. Captured /\ y # m
    BY <1>8, <1>9, <2>1, <2>2
  <2>4. \A y : y \in m .. Captured /\ y # m <=> y \in m + 1 .. Captured
    BY <1>1
  <2>5. Ahead(a)' = m + 1 .. Captured
    BY <2>3, <2>4, SameElements
  <2> QED
    BY <2>2, <2>5
<1>11. Aligned(a, r)'
  <2>1. Base(r) + (Len(hold[a]) + 1) <= Captured
    BY <1>1, <1>3
  <2>2. /\ \A k \in DOMAIN hold'[a] : hold'[a][k] = Base(r) + k
        /\ Base(r) + Len(hold'[a]) <= Captured'
        /\ Ahead(a)' = Base(r) + Len(hold'[a]) + 1 .. Captured'
    BY <1>2, <1>5, <1>7, <1>10, <2>1
  <2> QED
    BY <2>2 DEF Aligned
<1> QED
  BY <1>6, <1>11

(* A full block is averaged whole, and the next one begins.                *)
LEMMA AverageAligned ==
  ASSUME TypeInv, OriginInv, NEW a \in Stages, Average(a), Full(a), NEW r \in Nat, Aligned(a, r)
  PROVE  Full(a)' /\ Aligned(a, r + 1)'
<1>1. /\ hold[a] \in Seq(Nat) /\ Len(hold[a]) = AvgFactor /\ DOMAIN hold[a] = 1 .. AvgFactor
      /\ AvgFactor \in Nat \ {0} /\ Base(r) \in Nat /\ Captured \in Nat
      /\ Base(r + 1) = Base(r) + AvgFactor /\ origin \in Seq(Nat)
  BY BaseType, BaseNext, BoundsAssumption, LenProperties DEF Average, Full, TypeInv, TypeOK, Captured
<1>2. \A k \in 1 .. AvgFactor : hold[a][k] = Base(r) + k /\ Base(r) + k <= Captured
  BY <1>1 DEF Aligned
<1>3. Kind[1] = "SyncSampling"
  BY ChainAssumption DEF Average
<1>4. \A k \in 1 .. AvgFactor : origin[hold[a][k]] = r + 1
  BY <1>2, <1>3 DEF OriginInv
<1>5. ~WrongCf(hold[a])
  <2>1. \A k \in 2 .. AvgFactor : k \in 1 .. AvgFactor /\ k - 1 \in 1 .. AvgFactor
    BY <1>1
  <2>2. \A k \in 2 .. AvgFactor : origin[hold[a][k - 1]] = origin[hold[a][k]]
    BY <1>4, <2>1
  <2> QED
    BY <1>1, <2>2 DEF WrongCf
<1>6. /\ queue' = [queue EXCEPT ![a + 1] = Append(@, hold[a][1])]
      /\ hold' = [hold EXCEPT ![a] = <<>>] /\ origin' = origin /\ pc' = [pc EXCEPT ![a] = "test"]
  BY <1>5 DEF Average, Goto
<1>7. /\ hold'[a] = <<>> /\ pc'[a] = "test" /\ Captured' = Captured
      /\ queue'[a] = queue[a] /\ \A j \in 1 .. a - 1 : Place(j)' = Place(j)
  <2>1. a + 1 # a /\ \A j \in 1 .. a - 1 : j # a + 1
    BY DEF Stages
  <2> QED
    BY <1>6, <2>1, Earlier DEF TypeInv, TypeOK, Place, Captured
<1>8. Ahead(a)' = Ahead(a)
  BY <1>7, AheadSame
<1>9. Ahead(a)' = Base(r + 1) + 0 + 1 .. Captured
  BY <1>1, <1>8 DEF Aligned
<1>10. Len(hold'[a]) = 0 /\ DOMAIN hold'[a] = {}
  BY <1>7
<1>11. Full(a)'
  BY <1>1, <1>7, <1>10 DEF Full
<1>12. Aligned(a, r + 1)'
  <2>1. Base(r + 1) <= Captured
    BY <1>1 DEF Aligned
  <2>2. /\ \A k \in DOMAIN hold'[a] : hold'[a][k] = Base(r + 1) + k
        /\ Base(r + 1) + Len(hold'[a]) <= Captured'
        /\ Ahead(a)' = Base(r + 1) + Len(hold'[a]) + 1 .. Captured'
    BY <1>1, <1>7, <1>9, <1>10, <2>1
  <2> QED
    BY <2>2 DEF Aligned
<1> QED
  BY <1>11, <1>12

(* A read puts the next block ahead.                                       *)
LEMMA ReadAligned ==
  ASSUME TypeInv, StopInv, NEW a \in Stages, Kind[a] = "Averaging", ReadSync,
         NEW r \in Nat, Aligned(a, r)
  PROVE  Aligned(a, r)'
<1> DEFINE t == [k \in 1 .. AvgFactor |-> Captured + k]
<1>1. /\ AvgFactor \in Nat \ {0} /\ origin \in Seq(Nat) /\ Captured \in Nat /\ Base(r) \in Nat
      /\ hold[a] \in Seq(Nat) /\ Len(hold[a]) \in Nat /\ 1 \in Stages
  BY NType, BaseType, BoundsAssumption, LenProperties DEF TypeInv, TypeOK, Captured
<1>2. a # 1 /\ 1 \in 1 .. a - 1
  <2>1. a # 1
    BY ChainAssumption, NType DEF Sources
  <2> QED
    BY <2>1 DEF Stages
<1>3. Captured' = Captured + AvgFactor
  <2>1. origin' = origin \o [k \in 1 .. AvgFactor |-> ReadCount + 1]
    BY DEF ReadSync
  <2>3. ASSUME NEW w PROVE Len(origin \o [k \in 1 .. AvgFactor |-> w]) = Len(origin) + AvgFactor
    <3> DEFINE u == [k \in 1 .. AvgFactor |-> w]
    <3>1. u \in Seq(Nat \cup {w}) /\ Len(u) = AvgFactor /\ origin \in Seq(Nat \cup {w})
      BY <1>1
    <3> HIDE DEF u
    <3>2. Len(origin \o u) = Len(origin) + Len(u)
      BY <3>1, ConcatProperties
    <3> QED
      BY <3>1, <3>2 DEF u
  <2>4. Len(origin') = Len(origin) + AvgFactor
    BY <2>1, <2>3
  <2> QED
    BY <2>4 DEF Captured
<1>4. /\ hold[1] = <<>> /\ hold'[1] = t /\ \A j \in Stages \ {1} : hold'[j] = hold[j]
      /\ queue' = queue
  BY <1>1 DEF ReadSync, StopInv, HoldInv, TypeInv, TypeOK
<1>5. Range(t) = Captured + 1 .. Captured + AvgFactor
  <2>1. \A y \in Captured + 1 .. Captured + AvgFactor :
          y - Captured \in 1 .. AvgFactor /\ y = Captured + (y - Captured)
    BY <1>1
  <2>2. \A k \in 1 .. AvgFactor : Captured + k \in Captured + 1 .. Captured + AvgFactor
    BY <1>1
  <2> QED
    BY <2>1, <2>2 DEF Range
<1> HIDE DEF t
<1>6. /\ Place(1)' = Place(1) \cup Range(t) /\ \A j \in 1 .. a - 1 : j # 1 => Place(j)' = Place(j)
  BY <1>4, EmptyRange, Earlier DEF Place
<1>7. Ahead(a)' = Ahead(a) \cup Range(t)
  <2> DEFINE rest == UNION {Place(j) : j \in 1 .. a - 1 \ {1}}
  <2>1. Ahead(a) = Range(queue[a]) \cup Place(1) \cup rest
    BY <1>2 DEF Ahead
  <2>2. Ahead(a)' = Range(queue'[a]) \cup Place(1)' \cup rest'
    BY <1>2 DEF Ahead
  <2>3. rest' = rest
    BY <1>6
  <2> HIDE DEF rest
  <2> QED
    BY <1>4, <1>6, <2>1, <2>2, <2>3
<1>8. Ahead(a)' = Base(r) + Len(hold[a]) + 1 .. Captured + AvgFactor
  <2> DEFINE m == Base(r) + Len(hold[a])
  <2>1. m \in Nat /\ m <= Captured /\ Ahead(a)' = (m + 1 .. Captured) \cup (Captured + 1 .. Captured + AvgFactor)
    BY <1>1, <1>5, <1>7 DEF Aligned
  <2> HIDE DEF m
  <2>2. (m + 1 .. Captured) \cup (Captured + 1 .. Captured + AvgFactor) = m + 1 .. Captured + AvgFactor
    BY <1>1, <2>1
  <2> QED
    BY <2>1, <2>2 DEF m
<1>9. Base(r) + Len(hold[a]) <= Captured + AvgFactor /\ hold'[a] = hold[a]
  BY <1>1, <1>2, <1>4 DEF Aligned
<1> QED
  BY <1>3, <1>8, <1>9 DEF Aligned

LEMMA AlignStep ==
  ASSUME TypeInv, StopInv, InOrder, SyncInv, OriginInv, AlignInv, [Next]_vars PROVE AlignInv'
<1> SUFFICES ASSUME NEW a \in Stages, Kind[a] = "Averaging"
             PROVE  Full(a)' /\ \E r \in Nat : Aligned(a, r)'
  BY DEF AlignInv
<1>0. Full(a) /\ Kind[1] = "SyncSampling" /\ a # 1 /\ 1 \in Stages /\ pc \in [Stages -> Labels]
  BY ChainAssumption, NType DEF AlignInv, Sources, TypeInv, TypeOK
<1>1. PICK r \in Nat : Aligned(a, r)
  BY DEF AlignInv
<1>2. ASSUME hold'[a] = hold[a], pc'[a] = pc[a], Captured' = Captured, Ahead(a)' = Ahead(a)
      PROVE  Full(a)' /\ Aligned(a, r)'
  BY <1>0, <1>1, <1>2, AlignedStill DEF Full
<1>3. CASE Driver
  <2>1. pc'[a] = pc[a] /\ hold'[a] = hold[a]
    BY <1>0, <1>3 DEF Driver, OpenDevice, StartTimePast, ReadAsync, Capture, CheckDuration,
       ReadCanceled, DeviceLost, HopFails, ReadSync, EndDriver, Goto, threadVars, TypeInv, TypeOK
  <2>2. CASE ReadSync
    <3>1. Full(a)'
      BY <1>0, <2>1 DEF Full
    <3>2. Aligned(a, r)'
      BY <1>1, <2>2, ReadAligned
    <3> QED
      BY <3>1, <3>2
  <2>3. CASE ~ReadSync
    <3>1. UNCHANGED <<queue, hold, origin>>
      BY <1>0, <1>3, <2>3 DEF Driver, OpenDevice, StartTimePast, ReadAsync, Capture, CheckDuration,
         ReadCanceled, DeviceLost, HopFails, EndDriver, threadVars, SyncInv
    <3> QED
      BY <1>2, <2>1, <3>1 DEF Captured, Ahead, Place
  <2> QED
    BY <2>2, <2>3
<1>4. ASSUME NEW i \in Stages, Loop(i), i # a PROVE Full(a)' /\ Aligned(a, r)'
  <2>1. pc'[a] = pc[a] /\ hold'[a] = hold[a] /\ origin' = origin
    BY <1>0, <1>4 DEF Loop, Begin, Test, SizeApprox, Dequeue, PollEmpty, Forward, Average, Write,
       WriteFails, Connect, Goto, threadVars, TypeInv, TypeOK
  <2>2. Ahead(a)' = Ahead(a)
    BY <1>4, AheadKept
  <2> QED
    BY <1>2, <2>1, <2>2 DEF Captured
<1>5. CASE Dequeue(a)
  BY <1>0, <1>1, <1>5, DequeueAligned
<1>6. CASE Average(a)
  <2>1. Full(a)' /\ Aligned(a, r + 1)'
    BY <1>0, <1>1, <1>6, AverageAligned
  <2>2. r + 1 \in Nat
    OBVIOUS
  <2> QED
    BY <2>1, <2>2
<1>7. CASE Begin(a) \/ Test(a) \/ SizeApprox(a) \/ PollEmpty(a)
  <2>1. UNCHANGED <<queue, hold, origin>>
    BY <1>7 DEF Begin, Test, SizeApprox, PollEmpty, threadVars
  <2>2. pc[a] # "emit"
    BY <1>7 DEF Begin, Test, SizeApprox, PollEmpty
  <2>3. pc'[a] # "emit"
    <3>1. CASE Begin(a) \/ PollEmpty(a)
      BY <1>0, <3>1 DEF Begin, PollEmpty, Goto
    <3>2. CASE SizeApprox(a)
      BY <1>0, <3>2 DEF SizeApprox, Goto
    <3>3. CASE Test(a)
      <4>1. mRunning[a] \/ ~mRunning[a]
        OBVIOUS
      <4> QED
        BY <1>0, <3>3, <4>1 DEF Test, Goto
    <3> QED
      BY <1>7, <3>1, <3>2, <3>3
  <2>4. Full(a)'
    BY <1>0, <2>1, <2>2, <2>3 DEF Full
  <2>5. hold'[a] = hold[a] /\ Captured' = Captured /\ Ahead(a)' = Ahead(a)
    BY <2>1 DEF Captured, Ahead, Place
  <2> QED
    BY <1>1, <2>4, <2>5, AlignedStill
<1>8. ~Forward(a) /\ ~Connect(a) /\ ~Write(a) /\ ~WriteFails(a)
  BY DEF Forward, Connect, Write, WriteFails, Sinks
<1>9. CASE Main \/ (\E g \in Signals : Deliver(g)) \/ UNCHANGED vars
  <2>1. UNCHANGED <<queue, hold, origin>>
    BY <1>9 DEF Main, StartNext, Watch, ClearFlag, CancelAsync, JoinBegins, JoinReturns, Exit,
       Deliver, vars, threadVars
  <2>2. pc'[a] = pc[a] \/ (pc'[a] = "begin" /\ pc[a] = "none")
    <3>1. CASE StartNext
      <4>1. pc'[a] = pc[a] \/ (a = started + 1 /\ pc'[a] = "begin")
        BY <1>0, <3>1 DEF StartNext, Goto
      <4>2. a = started + 1 => pc[a] = "none"
        <5>1. started \in 0 .. N
          BY DEF TypeInv, TypeOK
        <5> QED
          BY <5>1 DEF StopInv, StartInv
      <4> QED
        BY <4>1, <4>2
    <3>2. CASE ~StartNext
      BY <1>9, <3>2 DEF Main, Watch, ClearFlag, CancelAsync, JoinBegins, JoinReturns, Exit,
         Deliver, vars
    <3> QED
      BY <3>1, <3>2
  <2>3. Full(a)'
    BY <1>0, <2>1, <2>2 DEF Full
  <2>4. hold'[a] = hold[a] /\ Captured' = Captured /\ Ahead(a)' = Ahead(a)
    BY <2>1 DEF Captured, Ahead, Place
  <2> QED
    BY <1>1, <2>3, <2>4, AlignedStill
<1>10. ASSUME NEW i \in Stages, Loop(i) PROVE Full(a)' /\ \E s \in Nat : Aligned(a, s)'
  <2>1. CASE i # a
    BY <1>4, <1>10, <2>1
  <2>2. CASE i = a
    BY <1>5, <1>6, <1>7, <1>8, <1>10, <2>2 DEF Loop
  <2> QED
    BY <2>1, <2>2
<1> QED
  BY <1>3, <1>9, <1>10 DEF Next, Gone

(* Averaging collects the segments of one synchronous read, for whatever   *)
(* batch length of the FFT, chain and averaging factor: its check of the   *)
(* centre frequencies never finds two.                                     *)
THEOREM OneReadPerAverage == Spec => []AveragedTogether
<1>1. TypeInv /\ AverageInv => AveragedTogether
  <2> SUFFICES ASSUME TypeInv, AverageInv, NEW a \in Stages, Kind[a] = "Averaging",
                      NEW k \in DOMAIN hold[a], NEW m \in DOMAIN hold[a]
               PROVE  origin[hold[a][k]] = origin[hold[a][m]]
    BY DEF AveragedTogether
  <2>1. PICK r \in Nat : Aligned(a, r)
    BY DEF AverageInv, AlignInv
  <2>2. /\ DOMAIN hold[a] = 1 .. Len(hold[a]) /\ Len(hold[a]) \in Nat /\ AvgFactor \in Nat
        /\ Base(r) \in Nat /\ Captured \in Nat /\ Len(hold[a]) <= AvgFactor
    <3>1. hold[a] \in Seq(Nat) /\ origin \in Seq(Nat) /\ AvgFactor \in Nat /\ Base(r) \in Nat
      BY BaseType, BoundsAssumption DEF TypeInv, TypeOK
    <3>2. Full(a)
      BY DEF AverageInv, AlignInv
    <3> QED
      BY <3>1, <3>2, LenProperties DEF Captured, Full
  <2>3. Kind[1] = "SyncSampling"
    BY ChainAssumption
  <2>4. ASSUME NEW n \in DOMAIN hold[a] PROVE origin[hold[a][n]] = r + 1
    <3>1. hold[a][n] = Base(r) + n /\ n \in 1 .. AvgFactor /\ Base(r) + n <= Captured
      BY <2>1, <2>2 DEF Aligned
    <3> QED
      BY <2>3, <3>1 DEF AverageInv, OriginInv
  <2> QED
    BY <2>4
<1>2. TypeInv /\ StopInv /\ InOrder /\ AverageInv /\ [Next]_vars => AverageInv'
  BY SyncStep, OriginStep, AlignStep DEF AverageInv
<1> QED
  BY <1>1, <1>2, InitTypeInv, InitStopInv, InitAverageInv, TypeInvInductive, StopInvInductive,
     NothingOvertakes, PTL DEF Spec

=============================================================================
