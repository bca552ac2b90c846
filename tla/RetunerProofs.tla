--------------------------- MODULE RetunerProofs ----------------------------
(* Theorems about Retuner, for any conversation and any faults.            *)
EXTENDS Retuner, SequenceTheorems, TLAPS

(* What is received now is a frequency, or none that anybody asked for.    *)
LEMMA HeardType ==
  ASSUME TypeOK
  PROVE  Heard \in Nat \cup {Nobody}
BY DEF TypeOK, Heard

(* So is what the converter makes of what the context asks for, which is a *)
(* frequency of the command line or of a message.                          *)
KnownInv ==
  /\ mMinFreq \in Freqs
  /\ psd = "gain" => asked \in DOMAIN asks

TypeInv == TypeOK /\ KnownInv

(* A message has a frequency and a gain, and another one is the next.      *)
LEMMA AskFacts ==
  ASSUME TypeOK
  PROVE  /\ \A n \in DOMAIN asks : asks[n].fc \in Nat /\ asks[n].fc \in Freqs /\ asks[n].gain \in Int
         /\ \A n \in 0 .. Len(asks) : n < Len(asks) => n + 1 \in DOMAIN asks /\ n + 1 \in 0 .. Len(asks)
         /\ asks \in Conversations /\ Len(asks) \in Nat /\ DOMAIN asks = 1 .. Len(asks)
<1>1. asks \in Conversations
  BY DEF TypeOK
<1>2. asks \in Seq([fc : Nat, gain : Int])
  BY <1>1, RetunerAssumption
<1>3. \A n \in 1 .. Len(asks) : asks[n] \in [fc : Nat, gain : Int]
  BY <1>2, ElementOfSeq
<1>4. \A n \in DOMAIN asks : asks[n].fc \in Freqs
  <2>1. {asks[n].fc : n \in DOMAIN asks} \in {{c[n].fc : n \in DOMAIN c} : c \in Conversations}
    BY <1>1, Zenon
  <2>2. \A n \in DOMAIN asks : asks[n].fc \in {asks[m].fc : m \in DOMAIN asks}
    BY Zenon
  <2> QED
    BY <2>1, <2>2, Zenon DEF Freqs
<1>5. DOMAIN asks = 1 .. Len(asks) /\ Len(asks) \in Nat
  BY <1>2
<1> QED
  BY <1>1, <1>3, <1>4, <1>5

(* A call that sets the dongle to a frequency leaves it at one.            *)
LEMMA DongleType ==
  ASSUME TypeOK, NEW f \in Nat, SetDongle(f)
  PROVE  dongle' \in Nat /\ faults' \in 0 .. MaxFaults
BY RetunerAssumption DEF TypeOK, SetDongle, Fault

LEMMA TypeAlways == Spec => []TypeInv
<1>1. Init => TypeInv
  <2>1. Init => TypeOK
    <3> SUFFICES ASSUME Init PROVE TypeOK
      OBVIOUS
    <3>1. asks \in Conversations /\ Len(asks) \in Nat
      BY RetunerAssumption DEF Init
    <3>2. asked \in 0 .. Len(asks) /\ first_asked \in 0 .. asked
      BY <3>1 DEF Init
    <3>3. queue \in Seq(Nat \cup {Nobody})
      BY EmptySeq DEF Init
    <3>4. Freq0 \in Nat /\ Gain0 \in Int /\ 0 \in 0 .. MaxFaults
      BY RetunerAssumption
    <3>5. spectrum \in [label : Nat \cup {Nobody}, heard : Nat \cup {Nobody}]
      BY DEF Init
    <3>6. tuner \in [manual : BOOLEAN, gain : Int]
      BY <3>4 DEF Init
    <3>7. /\ mMinFreq \in Nat /\ mGain \in Int /\ mConverterEnabled \in BOOLEAN
          /\ drv = "begin" /\ ret = "none" /\ psd = "poll" /\ status = "up"
          /\ last_fc = 0 /\ last_gain = 0 /\ previous_proxy_freq = 0 /\ first_gain = 0
          /\ dongle \in Nat /\ setup \in Nat /\ crossed \in BOOLEAN
      BY <3>4 DEF Init, OpenFreq, Bypass
    <3>8. faults \in 0 .. MaxFaults
      BY <3>4 DEF Init
    <3> QED
      BY <3>1, <3>2, <3>3, <3>5, <3>6, <3>7, <3>8 DEF TypeOK
  <2>2. Init => KnownInv
    BY DEF Init, KnownInv, Freqs
  <2> QED
    BY <2>1, <2>2 DEF TypeInv
<1>2. TypeInv /\ [Next]_vars => TypeInv'
  <2> SUFFICES ASSUME TypeInv, [Next]_vars PROVE TypeInv'
    OBVIOUS
  <2> USE DEF TypeInv, TypeOK, KnownInv
  <2>1. CASE Begin
    BY <2>1, DongleType DEF Begin, contextVars, psdVars, firstSeen
  <2>2. CASE Capture
    BY <2>2, HeardType DEF Capture, contextVars, retVars, firstSeen, psdVars, deviceVars
  <2>3. CASE Over \/ Exit \/ NoMessage
    BY <2>3 DEF Over, Exit, NoMessage, contextVars, retVars, firstSeen, psdVars, deviceVars
  <2>4. CASE Send
    <3>1. Head(queue) \in Nat \cup {Nobody} /\ Tail(queue) \in Seq(Nat \cup {Nobody})
      BY <2>4, HeadTailProperties DEF Send
    <3>2. LabelOf(mMinFreq) \in Nat \cup {Nobody}
      BY DEF LabelOf
    <3> QED
      BY <2>4, <3>1, <3>2 DEF Send, contextVars, retVars, firstSeen, deviceVars
  <2>5. CASE Receive
    <3>1. asked < Len(asks) /\ asked' = asked + 1
      BY <2>5 DEF Receive
    <3> QED
      BY <2>5, <3>1, AskFacts DEF Receive, retVars, firstSeen, deviceVars
  <2>6. CASE SetGain
    BY <2>6, AskFacts DEF SetGain, retVars, firstSeen, deviceVars
  <2>7. CASE Start \/ StartGain \/ ReadGain \/ ReadFc
    <3>1. Len(asks) \in Nat /\ asked \in 0 .. asked
      BY AskFacts
    <3> QED
      BY <2>7, <3>1 DEF Start, StartGain, ReadGain, ReadFc, contextVars, psdVars, deviceVars,
         firstSeen
  <2>8. CASE ApplyGain
    <3>1. \/ tuner' = [manual |-> TRUE, gain |-> last_gain]
          \/ tuner' = tuner
          \/ \E b \in BOOLEAN : tuner' = [tuner EXCEPT !.manual = b]
      BY <2>8 DEF ApplyGain
    <3>2. faults' = faults \/ Fault
      BY <2>8 DEF ApplyGain
    <3>3. tuner' \in [manual : BOOLEAN, gain : Int]
      <4>1. \A b \in BOOLEAN : [tuner EXCEPT !.manual = b] \in [manual : BOOLEAN, gain : Int]
        OBVIOUS
      <4>2. [manual |-> TRUE, gain |-> last_gain] \in [manual : BOOLEAN, gain : Int]
        OBVIOUS
      <4> QED
        BY <3>1, <4>1, <4>2
    <3>4. faults' \in 0 .. MaxFaults
      <4>1. MaxFaults \in Nat
        BY RetunerAssumption
      <4> QED
        BY <3>2, <4>1 DEF Fault
    <3> QED
      BY <2>8, <3>3, <3>4 DEF ApplyGain, contextVars, psdVars, firstSeen
  <2>9. CASE TuneNative
    BY <2>9, DongleType DEF TuneNative, contextVars, psdVars, firstSeen
  <2>10. CASE TuneConverter
    BY <2>10, RetunerAssumption DEF TuneConverter, contextVars, psdVars, firstSeen
  <2>11. CASE TuneThrows
    BY <2>11, RetunerAssumption DEF TuneThrows, Fault, contextVars, retVars, psdVars, firstSeen
  <2>12. CASE TuneDongle
    BY <2>12, DongleType DEF TuneDongle, contextVars, psdVars, firstSeen
  <2>13. CASE UNCHANGED vars
    BY <2>13 DEF vars, contextVars, retVars, firstSeen, psdVars, deviceVars
  <2> QED
    BY <2>1, <2>2, <2>3, <2>4, <2>5, <2>6, <2>7, <2>8, <2>9, <2>10, <2>11, <2>12, <2>13
    DEF Next, Up, PSDFast, Polling, Gone
<1> QED
  BY <1>1, <1>2, PTL DEF Spec

(* Every variable keeps its type.                                          *)
THEOREM TypeCorrect == Spec => []TypeOK
<1>1. TypeInv => TypeOK
  BY DEF TypeInv
<1> QED
  BY <1>1, TypeAlways, PTL

-----------------------------------------------------------------------------
(* The context holds the last frequency asked for.  While every message    *)
(* since the retuning thread began has asked for the one before it, that   *)
(* is also what the thread compares it with, so that it has nothing to do. *)
AskedAt(c, n) == IF n = 0 THEN Freq0 ELSE c[n].fc
Calm(c, first, last) == \A n \in first + 1 .. last : AskedAt(c, n) = AskedAt(c, n - 1)
Begun == ret \notin {"none", "start"}

ContextInv == mMinFreq = AskedAt(asks, asked)
CalmInv ==
  /\ Begun /\ Calm(asks, first_asked, asked) => last_fc = mMinFreq /\ ret # "tune"
  /\ status = "terminated" => ~Calm(asks, first_asked, asked)

LEMMA OneMore ==
  ASSUME NEW c, NEW first \in Nat, NEW last \in Nat, first <= last
  PROVE  Calm(c, first, last + 1) <=>
           (Calm(c, first, last) /\ AskedAt(c, last + 1) = AskedAt(c, last))
<1>1. \A n : n \in first + 1 .. last + 1 <=> (n \in first + 1 .. last \/ n = last + 1)
  OBVIOUS
<1>2. (last + 1) - 1 = last
  OBVIOUS
<1> QED
  BY <1>1, <1>2 DEF Calm

LEMMA ContextAlways == Spec => []ContextInv
<1>1. Init => ContextInv
  BY DEF Init, ContextInv, AskedAt
<1>2. TypeInv /\ ContextInv /\ [Next]_vars => ContextInv'
  <2> SUFFICES ASSUME TypeInv, ContextInv, [Next]_vars PROVE ContextInv'
    OBVIOUS
  <2>1. CASE Receive
    <3>1. asked \in Nat /\ asked' = asked + 1 /\ asks' = asks /\ mMinFreq' = asks[asked'].fc
      BY <2>1, AskFacts DEF Receive, TypeInv, TypeOK
    <3> QED
      BY <3>1 DEF ContextInv, AskedAt
  <2>2. CASE UNCHANGED <<mMinFreq, asks, asked>>
    BY <2>2 DEF ContextInv, AskedAt
  <2> QED
    BY <2>1, <2>2 DEF Next, Up, Gone, Begin, Capture, Over, Exit, PSDFast, Send, NoMessage,
       SetGain, Polling, Start, StartGain, ReadGain, ApplyGain, ReadFc, TuneNative,
       TuneConverter, TuneThrows, TuneDongle, vars, contextVars, psdVars
<1> QED
  BY <1>1, <1>2, TypeAlways, PTL DEF Spec

LEMMA CalmAlways == Spec => []CalmInv
<1>1. Init => CalmInv
  BY DEF Init, CalmInv, Begun
<1>2. TypeInv /\ ContextInv /\ CalmInv /\ [Next]_vars => CalmInv'
  <2> SUFFICES ASSUME TypeInv, ContextInv, CalmInv, [Next]_vars PROVE CalmInv'
    OBVIOUS
  <2> DEFINE calm == Calm(asks, first_asked, asked)
  <2>1. CASE status = "up" /\ Receive
    <3>1. /\ asked \in Nat /\ first_asked \in Nat /\ first_asked <= asked
          /\ asked' = asked + 1 /\ mMinFreq' = AskedAt(asks, asked + 1)
          /\ UNCHANGED <<asks, first_asked, ret, last_fc, status>>
      BY <2>1, AskFacts DEF Receive, retVars, firstSeen, TypeInv, TypeOK, AskedAt
    <3>2. Calm(asks, first_asked, asked + 1)
            => calm /\ AskedAt(asks, asked + 1) = AskedAt(asks, asked)
      BY <3>1, OneMore
    <3>3. Calm(asks, first_asked, asked + 1) => calm /\ mMinFreq' = mMinFreq
      BY <3>1, <3>2 DEF ContextInv
    <3> HIDE DEF calm
    <3>4. (Calm(asks, first_asked, asked))' <=> Calm(asks, first_asked, asked + 1)
      BY <3>1
    <3>5. Begun' <=> Begun
      BY <3>1 DEF Begun
    <3>6. Begun /\ calm => last_fc = mMinFreq /\ ret # "tune"
      BY DEF CalmInv, calm
    <3>7. status' = "up"
      BY <2>1, <3>1
    <3> QED
      BY <3>1, <3>3, <3>4, <3>5, <3>6, <3>7 DEF CalmInv
  <2>2. CASE status = "up" /\ Start
    BY <2>2 DEF Start, contextVars, psdVars, CalmInv, Begun
  <2>3. ASSUME status = "up", UNCHANGED <<mMinFreq, asks, asked, first_asked>>,
               status' = "terminated" => ret = "tune",
               Begun' => Begun /\ (calm => last_fc' = mMinFreq /\ ret' # "tune")
        PROVE  CalmInv'
    <3>1. calm' <=> calm
      BY <2>3
    <3>2. status' = "terminated" => ~calm
      BY <2>3 DEF CalmInv, Begun
    <3> QED
      BY <2>3, <3>1, <3>2 DEF CalmInv
  <2>4. CASE status = "up" /\ ReadFc
    <3>1. Begun /\ (calm => last_fc = mMinFreq)
      BY <2>4 DEF ReadFc, Begun, CalmInv
    <3> QED
      BY <2>3, <2>4, <3>1 DEF ReadFc, contextVars, psdVars, firstSeen
  <2>5. CASE status = "up" /\ (StartGain \/ ReadGain \/ ApplyGain)
    <3>1. Begun /\ (calm => last_fc = mMinFreq)
      BY <2>5 DEF StartGain, ReadGain, ApplyGain, Begun, CalmInv
    <3> QED
      BY <2>3, <2>5, <3>1 DEF StartGain, ReadGain, ApplyGain, contextVars, psdVars, firstSeen
  <2>6. CASE status = "up" /\ (TuneNative \/ TuneConverter \/ TuneThrows \/ TuneDongle)
    <3>1. Begun /\ (calm => last_fc = mMinFreq)
      BY <2>6 DEF TuneNative, TuneConverter, TuneThrows, TuneDongle, Begun, CalmInv
    <3>2. ret = "tune" => ~calm
      BY <3>1 DEF CalmInv
    <3> QED
      BY <2>3, <2>6, <3>1, <3>2 DEF TuneNative, TuneConverter, TuneThrows, TuneDongle,
         contextVars, psdVars, retVars, firstSeen
  <2>7. CASE status = "up" /\ (Capture \/ Over \/ Exit \/ Send \/ NoMessage \/ SetGain)
    <3>1. Begun => (calm => last_fc = mMinFreq /\ ret # "tune")
      BY DEF CalmInv
    <3> QED
      BY <2>3, <2>7, <3>1 DEF Capture, Over, Exit, Send, NoMessage, SetGain, contextVars, psdVars,
         retVars, firstSeen, Begun
  <2>8. CASE status = "up" /\ Begin
    BY <2>8 DEF Begin, CalmInv, Begun
  <2>9. CASE UNCHANGED vars
    BY <2>9 DEF vars, contextVars, retVars, firstSeen, psdVars, CalmInv, Begun
  <2> QED
    BY <2>1, <2>2, <2>4, <2>5, <2>6, <2>7, <2>8, <2>9 DEF Next, Up, Gone, PSDFast, Polling
<1> QED
  BY <1>1, <1>2, TypeAlways, ContextAlways, PTL DEF Spec

(* Whatever is asked and whatever fails, only a message that asks for      *)
(* another frequency makes the retuning thread end the process, even when  *)
(* the frame of run() that it works from is gone.                          *)
THEOREM OnlyChangeKills == Spec => []DiesOfChange
<1>1. CalmInv => DiesOfChange
  BY DEF CalmInv, Calm, AskedAt, DiesOfChange, Nth
<1> QED
  BY <1>1, CalmAlways, PTL

-----------------------------------------------------------------------------
(* Why spectra come in the order of the requests.  A frequency may be that *)
(* of a request, or of none: Known says that f was asked for by the n-th   *)
(* request at the latest, Before that f was not asked for after g.  What   *)
(* the last spectrum shows, the segments and what is received now are in   *)
(* order, since the device is only ever set to the newest request.         *)
Known(c, f, n) == \A m \in 0 .. Len(c) : f = AskedAt(c, m) => m <= n
Before(c, f, g) == \A m, n \in 0 .. Len(c) : f = AskedAt(c, m) /\ g = AskedAt(c, n) => m <= n
Apart(c) ==
  /\ \A m, n \in 0 .. Len(c) : AskedAt(c, m) = AskedAt(c, n) => m = n
  /\ \A n \in 0 .. Len(c) : AskedAt(c, n) \in Nat \ {OpenFreq, Bypass}

Now == IF ~mConverterEnabled \/ setup = Bypass THEN dongle ELSE setup

LineInv ==
  /\ Known(asks, spectrum.heard, asked)
  /\ \A i \in 1 .. Len(queue) :
       Known(asks, queue[i], asked) /\ Before(asks, spectrum.heard, queue[i])
  /\ \A i, j \in 1 .. Len(queue) : i < j => Before(asks, queue[i], queue[j])

NowInv ==
  /\ ret = "dongle" => mConverterEnabled /\ setup # Bypass
  /\ drv # "over" =>
       /\ Known(asks, Now, asked) /\ Before(asks, spectrum.heard, Now)
       /\ \A i \in 1 .. Len(queue) : Before(asks, queue[i], Now)

OrderInv == Apart(asks) => LineInv /\ NowInv

LEMMA FreshIsApart == TypeOK /\ Fresh => Apart(asks)
<1> SUFFICES ASSUME TypeOK, Fresh PROVE Apart(asks)
  OBVIOUS
<1>1. \A n \in 0 .. Len(asks) : Nth(n) = AskedAt(asks, n)
  BY DEF Nth, AskedAt
<1>2. \A n \in 0 .. Len(asks) : AskedAt(asks, n) \in Nat
  <2> SUFFICES ASSUME NEW n \in 0 .. Len(asks) PROVE AskedAt(asks, n) \in Nat
    OBVIOUS
  <2>1. n # 0 => n \in DOMAIN asks
    BY AskFacts
  <2> QED
    BY <2>1, AskFacts, RetunerAssumption DEF AskedAt
<1> QED
  BY <1>1, <1>2, Zenon DEF Fresh, Distinct, Apart

(* What is asked for last is not before anything known.                    *)
LEMMA Newest ==
  ASSUME NEW c, Len(c) \in Nat, Apart(c), NEW n \in 0 .. Len(c)
  PROVE  /\ Known(c, AskedAt(c, n), n)
         /\ \A f : Known(c, f, n) => Before(c, f, AskedAt(c, n))
<1>1. \A m \in 0 .. Len(c) : AskedAt(c, m) = AskedAt(c, n) => m = n
  BY DEF Apart
<1>2. n <= n
  OBVIOUS
<1> QED
  BY <1>1, <1>2 DEF Known, Before

LEMMA Unasked ==
  ASSUME NEW c, Apart(c), NEW f \in {OpenFreq, Bypass, Nobody}
  PROVE  /\ \A n : Known(c, f, n)
         /\ \A g : Before(c, f, g) /\ Before(c, g, f)
<1>1. Nobody \notin Nat
  BY DEF Nobody
<1>2. \A m \in 0 .. Len(c) : f # AskedAt(c, m)
  BY <1>1 DEF Apart
<1> QED
  BY <1>2 DEF Known, Before

LEMMA Itself ==
  ASSUME NEW c, Apart(c), Len(c) \in Nat, NEW f
  PROVE  Before(c, f, f)
<1>1. \A m \in 0 .. Len(c) : m <= m
  OBVIOUS
<1> QED
  BY <1>1 DEF Apart, Before

LEMMA Later ==
  ASSUME NEW c, Len(c) \in Nat, NEW n \in Nat, NEW f, Known(c, f, n)
  PROVE  Known(c, f, n + 1)
BY DEF Known

(* A step that leaves the segments and the spectra alone and receives what *)
(* it did before, or the newest request, or nothing more.                  *)
LEMMA SameLine ==
  ASSUME TypeInv, ContextInv, OrderInv, Apart(asks),
         UNCHANGED <<asks, asked, queue, spectrum>>,
         drv' # "over" => drv # "over" /\ Now' \in {Now, mMinFreq},
         ret' = "dongle" => mConverterEnabled' /\ setup' # Bypass
  PROVE  LineInv' /\ NowInv'
<1>1. LineInv'
  BY DEF LineInv, OrderInv
<1>2. ASSUME drv' # "over" PROVE Now' = Now \/ Now' = AskedAt(asks, asked)
  BY <1>2 DEF ContextInv
<1>3. /\ Len(asks) \in Nat /\ asked \in 0 .. Len(asks)
  BY AskFacts DEF TypeInv, TypeOK
<1>4. /\ Known(asks, AskedAt(asks, asked), asked)
      /\ Before(asks, spectrum.heard, AskedAt(asks, asked))
      /\ \A i \in 1 .. Len(queue) : Before(asks, queue[i], AskedAt(asks, asked))
  BY <1>3, Newest DEF LineInv, OrderInv
<1>5. drv' # "over" => /\ Known(asks, Now', asked) /\ Before(asks, spectrum.heard, Now')
                       /\ \A i \in 1 .. Len(queue) : Before(asks, queue[i], Now')
  BY <1>2, <1>4 DEF NowInv, OrderInv
<1>6. NowInv'
  BY <1>5 DEF NowInv
<1> QED
  BY <1>1, <1>6

LEMMA OrderAlways == Spec => []OrderInv
<1>1. Init => OrderInv
  <2> SUFFICES ASSUME Init, Apart(asks) PROVE LineInv /\ NowInv
    BY DEF OrderInv
  <2>1. Len(queue) = 0 /\ spectrum.heard = Nobody /\ ret = "none"
    BY DEF Init
  <2>2. Now = OpenFreq
    BY DEF Init, Now
  <2> QED
    BY <2>1, <2>2, Unasked DEF LineInv, NowInv
<1>2. TypeInv /\ ContextInv /\ OrderInv /\ [Next]_vars => OrderInv'
  <2> SUFFICES ASSUME TypeInv, ContextInv, OrderInv, [Next]_vars, Apart(asks')
               PROVE  LineInv' /\ NowInv'
    BY DEF OrderInv
  <2>1. asks' = asks
    BY DEF Next, Up, Gone, Begin, Capture, Over, Exit, PSDFast, Send, NoMessage, Receive,
       SetGain, Polling, Start, StartGain, ReadGain, ApplyGain, ReadFc, TuneNative,
       TuneConverter, TuneThrows, TuneDongle, vars, psdVars
  <2>2. /\ Apart(asks) /\ LineInv /\ NowInv
        /\ Len(asks) \in Nat /\ asked \in 0 .. Len(asks)
        /\ mMinFreq = AskedAt(asks, asked) /\ mMinFreq # Bypass
    <3>1. Apart(asks) /\ Len(asks) \in Nat /\ asked \in 0 .. Len(asks)
      BY <2>1, AskFacts DEF TypeInv, TypeOK
    <3> QED
      BY <3>1 DEF OrderInv, ContextInv, Apart
  <2>3. CASE Begin
    <3>1. UNCHANGED <<asks, asked, queue, spectrum, mConverterEnabled, setup>>
      BY <2>3 DEF Begin, psdVars, contextVars
    <3>2. drv = "begin" /\ ret' = "start" /\ dongle' \in {dongle, mMinFreq}
      BY <2>3 DEF Begin, SetDongle
    <3>3. Now' \in {Now, mMinFreq}
      BY <3>1, <3>2 DEF Now
    <3> QED
      BY <2>2, <3>1, <3>2, <3>3, SameLine
  <2>4. CASE Capture
    <3>1. /\ queue' = Append(queue, Heard) /\ drv = "sampling"
          /\ UNCHANGED <<spectrum, asked, ret, drv, mConverterEnabled, setup, dongle>>
      BY <2>4 DEF Capture, psdVars, contextVars, retVars, deviceVars
    <3>2. Heard \in {Now, Nobody}
      BY DEF Heard, Now
    <3>3. /\ Known(asks, Heard, asked) /\ Before(asks, spectrum.heard, Heard)
          /\ Before(asks, Heard, Now)
          /\ \A i \in 1 .. Len(queue) : Before(asks, queue[i], Heard)
      BY <2>2, <3>1, <3>2, Unasked, Itself DEF NowInv
    <3>4. /\ Len(queue') = Len(queue) + 1 /\ queue'[Len(queue) + 1] = Heard /\ Len(queue) \in Nat
          /\ \A i \in 1 .. Len(queue) : queue'[i] = queue[i]
      BY <3>1, AppendProperties, HeardType DEF TypeInv, TypeOK
    <3>5. \A i \in 1 .. Len(queue') : i \in 1 .. Len(queue) \/ i = Len(queue) + 1
      BY <3>4
    <3>6. Now' = Now
      BY <3>1 DEF Now
    <3>7. \A i \in 1 .. Len(queue') :
            /\ Known(asks, queue'[i], asked) /\ Before(asks, spectrum.heard, queue'[i])
            /\ Before(asks, queue'[i], Now)
      BY <2>2, <3>1, <3>3, <3>4, <3>5 DEF LineInv, NowInv
    <3>8. ASSUME NEW i \in 1 .. Len(queue'), NEW j \in 1 .. Len(queue'), i < j
          PROVE  Before(asks, queue'[i], queue'[j])
      <4>1. i \in 1 .. Len(queue)
        BY <3>4, <3>8
      <4>2. CASE j \in 1 .. Len(queue)
        BY <2>2, <3>4, <3>8, <4>1, <4>2 DEF LineInv
      <4>3. CASE j = Len(queue) + 1
        BY <3>3, <3>4, <4>1, <4>3
      <4> QED
        BY <3>5, <4>2, <4>3
    <3>9. LineInv'
      BY <2>1, <2>2, <3>1, <3>7, <3>8 DEF LineInv
    <3>10. NowInv'
      BY <2>1, <2>2, <3>1, <3>6, <3>7 DEF NowInv
    <3> QED
      BY <3>9, <3>10
  <2>5. CASE Send
    <3>1. /\ queue # <<>> /\ queue' = Tail(queue) /\ spectrum'.heard = Head(queue)
          /\ UNCHANGED <<asked, ret, drv, mConverterEnabled, setup, dongle>>
      BY <2>5 DEF Send, contextVars, retVars, deviceVars
    <3>2. /\ Len(queue) \in Nat \ {0} /\ Len(queue') = Len(queue) - 1
          /\ \A i \in 1 .. Len(queue') : queue'[i] = queue[i + 1]
          /\ Head(queue) = queue[1]
      BY <3>1, HeadTailProperties, EmptySeq, LenProperties DEF TypeInv, TypeOK
    <3>3. \A i \in 1 .. Len(queue') : i + 1 \in 1 .. Len(queue) /\ 1 < i + 1
      BY <3>2
    <3>4. 1 \in 1 .. Len(queue)
      BY <3>2
    <3>5. Known(asks, spectrum'.heard, asked)
      BY <2>2, <3>1, <3>2, <3>4 DEF LineInv
    <3>6. \A i \in 1 .. Len(queue') : /\ Known(asks, queue'[i], asked)
                                      /\ Before(asks, spectrum'.heard, queue'[i])
      BY <2>2, <3>1, <3>2, <3>3, <3>4 DEF LineInv
    <3>7. \A i, j \in 1 .. Len(queue') : i < j => i + 1 < j + 1
      BY <3>2
    <3>8. \A i, j \in 1 .. Len(queue') : i < j => Before(asks, queue'[i], queue'[j])
      BY <2>2, <3>2, <3>3, <3>7 DEF LineInv
    <3>9. LineInv'
      BY <2>1, <3>1, <3>5, <3>6, <3>8 DEF LineInv
    <3>10. Now' = Now
      BY <3>1 DEF Now
    <3>11. drv # "over" => /\ Before(asks, spectrum'.heard, Now)
                           /\ \A i \in 1 .. Len(queue') : Before(asks, queue'[i], Now)
      BY <2>2, <3>1, <3>2, <3>3, <3>4 DEF NowInv
    <3>12. NowInv'
      BY <2>1, <2>2, <3>1, <3>10, <3>11 DEF NowInv
    <3> QED
      BY <3>9, <3>12
  <2>6. CASE Receive
    <3>1. /\ asked' = asked + 1
          /\ UNCHANGED <<queue, spectrum, ret, drv, mConverterEnabled, setup, dongle>>
      BY <2>6 DEF Receive, retVars, deviceVars
    <3>2. Now' = Now
      BY <3>1 DEF Now
    <3>3. \A f : Known(asks, f, asked) => Known(asks, f, asked + 1)
      BY <2>2, Later
    <3>4. LineInv'
      BY <2>1, <2>2, <3>1, <3>3 DEF LineInv
    <3>5. NowInv'
      BY <2>1, <2>2, <3>1, <3>2, <3>3 DEF NowInv
    <3> QED
      BY <3>4, <3>5
  <2>7. CASE Over \/ Exit \/ NoMessage \/ SetGain
    <3>1. /\ UNCHANGED <<asks, asked, queue, spectrum, ret, mConverterEnabled, setup, dongle>>
          /\ drv' # "over" => drv # "over"
      BY <2>7 DEF Over, Exit, NoMessage, SetGain, psdVars, contextVars, retVars, deviceVars
    <3>2. Now' = Now
      BY <3>1 DEF Now
    <3> QED
      BY <2>2, <3>1, <3>2, SameLine DEF NowInv
  <2>8. CASE Start \/ StartGain \/ ReadGain \/ ApplyGain \/ ReadFc
    <3>1. /\ UNCHANGED <<asks, asked, queue, spectrum, drv, mConverterEnabled, setup, dongle>>
          /\ ret' # "dongle"
      BY <2>8 DEF Start, StartGain, ReadGain, ApplyGain, ReadFc, psdVars, contextVars, deviceVars
    <3>2. Now' = Now
      BY <3>1 DEF Now
    <3> QED
      BY <2>2, <3>1, <3>2, SameLine
  <2>9. CASE TuneNative
    <3>1. /\ UNCHANGED <<asks, asked, queue, spectrum, drv, mConverterEnabled, setup>>
          /\ ret' # "dongle" /\ dongle' \in {dongle, mMinFreq}
          /\ drv # "over" => ~mConverterEnabled
      BY <2>9 DEF TuneNative, SetDongle, ConverterEnable, psdVars, contextVars, TypeInv, TypeOK
    <3>2. drv # "over" => Now' \in {Now, mMinFreq}
      BY <3>1 DEF Now
    <3> QED
      BY <2>2, <3>1, <3>2, SameLine
  <2>10. CASE TuneConverter
    <3>1. /\ UNCHANGED <<asks, asked, queue, spectrum, drv, mConverterEnabled>>
          /\ mConverterEnabled /\ setup' = mMinFreq
      BY <2>10 DEF TuneConverter, psdVars, contextVars
    <3>2. Now' = mMinFreq /\ setup' # Bypass
      BY <2>2, <3>1 DEF Now
    <3> QED
      BY <2>2, <3>1, <3>2, SameLine
  <2>11. CASE TuneThrows
    <3>1. UNCHANGED <<asks, asked, queue, spectrum, drv, ret, mConverterEnabled, setup, dongle>>
      BY <2>11 DEF TuneThrows, psdVars, contextVars, retVars
    <3>2. Now' = Now
      BY <3>1 DEF Now
    <3> QED
      BY <2>2, <3>1, <3>2, SameLine DEF NowInv
  <2>12. CASE TuneDongle
    <3>1. /\ UNCHANGED <<asks, asked, queue, spectrum, drv, mConverterEnabled, setup>>
          /\ ret = "dongle" /\ ret' = "gain"
      BY <2>12 DEF TuneDongle, psdVars, contextVars
    <3>2. Now' = Now
      BY <2>2, <3>1 DEF Now, NowInv
    <3> QED
      BY <2>2, <3>1, <3>2, SameLine
  <2>13. CASE UNCHANGED vars
    <3>1. UNCHANGED <<asks, asked, queue, spectrum, drv, ret, mConverterEnabled, setup, dongle>>
      BY <2>13 DEF vars, psdVars, contextVars, retVars, deviceVars
    <3>2. Now' = Now
      BY <3>1 DEF Now
    <3> QED
      BY <2>2, <3>1, <3>2, SameLine DEF NowInv
  <2> QED
    BY <2>3, <2>4, <2>5, <2>6, <2>7, <2>8, <2>9, <2>10, <2>11, <2>12, <2>13
    DEF Next, Up, Gone, PSDFast, Polling
<1> QED
  BY <1>1, <1>2, TypeAlways, ContextAlways, PTL DEF Spec

(* For any conversation that asks for no frequency twice, nor for one that *)
(* the device is parked at (Fresh): whenever the messages arrive, whatever *)
(* label a spectrum then gets and whichever calls fail, what spectra show  *)
(* follows the order of the requests and was never asked for later than    *)
(* their label.                                                            *)
THEOREM SpectraInOrder == Spec => InAskedOrder
<1> DEFINE Step == Fresh => \A n \in 0 .. Len(asks) : spectrum'.heard = Nth(n) =>
                     /\ \A m \in 0 .. Len(asks) : spectrum.heard = Nth(m) => m <= n
                     /\ \A k \in 0 .. Len(asks) : spectrum'.label = Nth(k) => n <= k
<1>1. TypeInv /\ ContextInv /\ OrderInv /\ [Next]_vars => [Step]_spectrum
  <2> SUFFICES ASSUME TypeInv, ContextInv, OrderInv, [Next]_vars, spectrum' # spectrum, Fresh,
                      NEW n \in 0 .. Len(asks), spectrum'.heard = Nth(n)
               PROVE  /\ \A m \in 0 .. Len(asks) : spectrum.heard = Nth(m) => m <= n
                      /\ \A k \in 0 .. Len(asks) : spectrum'.label = Nth(k) => n <= k
    OBVIOUS
  <2>1. Send
    BY DEF Next, Up, Gone, Begin, Capture, Over, Exit, PSDFast, NoMessage, Receive, SetGain,
       Polling, Start, StartGain, ReadGain, ApplyGain, ReadFc, TuneNative, TuneConverter,
       TuneThrows, TuneDongle, vars, psdVars
  <2>2. \A m \in 0 .. Len(asks) : Nth(m) = AskedAt(asks, m)
    BY DEF Nth, AskedAt
  <2>3. Apart(asks) /\ LineInv /\ mMinFreq = AskedAt(asks, asked) /\ asked \in 0 .. Len(asks)
    BY FreshIsApart DEF OrderInv, ContextInv, TypeInv, TypeOK
  <2>4. /\ spectrum'.heard = queue[1] /\ 1 \in 1 .. Len(queue)
        /\ spectrum'.label = LabelOf(mMinFreq)
    <3>1. queue # <<>> /\ spectrum' = [label |-> LabelOf(mMinFreq), heard |-> Head(queue)]
      BY <2>1 DEF Send
    <3>2. Head(queue) = queue[1] /\ Len(queue) \in Nat \ {0}
      BY <3>1, HeadTailProperties, EmptySeq, LenProperties DEF TypeInv, TypeOK
    <3> QED
      BY <3>1, <3>2
  <2>5. Before(asks, spectrum.heard, queue[1]) /\ Known(asks, queue[1], asked)
    BY <2>3, <2>4 DEF LineInv
  <2>6. ASSUME NEW m \in 0 .. Len(asks), spectrum.heard = Nth(m) PROVE m <= n
    BY <2>2, <2>4, <2>5, <2>6 DEF Before
  <2>7. ASSUME NEW k \in 0 .. Len(asks), spectrum'.label = Nth(k) PROVE n <= k
    <3>1. Nth(k) # Nobody
      BY <2>2, <2>3 DEF Apart, Nobody
    <3>2. AskedAt(asks, k) = AskedAt(asks, asked)
      BY <2>2, <2>3, <2>4, <2>7, <3>1 DEF LabelOf
    <3>3. k = asked
      BY <2>3, <3>2 DEF Apart
    <3>4. n <= asked
      BY <2>2, <2>4, <2>5 DEF Known
    <3> QED
      BY <3>3, <3>4
  <2> QED
    BY <2>6, <2>7
<1> QED
  BY <1>1, TypeAlways, ContextAlways, OrderAlways, PTL DEF Spec, InAskedOrder

=============================================================================
