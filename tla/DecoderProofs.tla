--------------------------- MODULE DecoderProofs ----------------------------
(* Theorems about Decoder: the safety properties of IQStream's restarts,   *)
(* for all requests, any number of starts, failures and at most a signal.  *)
EXTENDS Decoder, SequenceTheorems, TLAPS


(* A process whose state is set is still a process, with its decoder.      *)
LEMMA ChildFacts ==
  ASSUME children \in Seq(Process), NEW c \in DOMAIN children,
         NEW state \in Live \cup {"dead", "reaped"}, ChildBecomes(c, state)
  PROVE  /\ children' \in Seq(Process) /\ Len(children') = Len(children)
         /\ \A d \in DOMAIN children :
              /\ children'[d].decoder = children[d].decoder
              /\ children'[d].state = IF d = c THEN state ELSE children[d].state
<1>1. children[c] \in Process
  BY ElementOfSeq, LenProperties
<1>2. [children[c] EXCEPT !.state = state] \in Process
  BY <1>1 DEF Process
<1>3. children' = [children EXCEPT ![c] = [children[c] EXCEPT !.state = state]]
  BY DEF ChildBecomes
<1>4. children' \in Seq(Process) /\ Len(children') = Len(children)
  BY <1>2, <1>3, ExceptSeq, LenProperties
<1>5. \A d \in DOMAIN children :
         /\ children'[d].decoder = children[d].decoder
         /\ children'[d].state = IF d = c THEN state ELSE children[d].state
  <2> SUFFICES ASSUME NEW d \in DOMAIN children
               PROVE  /\ children'[d].decoder = children[d].decoder
                      /\ children'[d].state = IF d = c THEN state ELSE children[d].state
    OBVIOUS
  <2>1. CASE d = c
    BY <1>1, <1>3, <2>1 DEF Process
  <2>2. CASE d # c
    BY <1>3, <2>2
  <2> QED
    BY <2>1, <2>2
<1> QED
  BY <1>4, <1>5

(* So are the processes of a group that is killed.                         *)
LEMMA GroupFacts ==
  ASSUME children \in Seq(Process),
         children' = [c \in DOMAIN children |-> [children[c] EXCEPT !.state = "reaped"]]
  PROVE  /\ children' \in Seq(Process) /\ Len(children') = Len(children)
         /\ \A d \in DOMAIN children :
              children'[d].decoder = children[d].decoder /\ children'[d].state = "reaped"
<1>1. DOMAIN children = 1 .. Len(children) /\ Len(children) \in Nat
  BY LenProperties
<1>2. \A d \in DOMAIN children : children[d] \in Process
  BY <1>1, ElementOfSeq
<1>3. \A d \in DOMAIN children :
         /\ children'[d] \in Process
         /\ children'[d].decoder = children[d].decoder /\ children'[d].state = "reaped"
  BY <1>2 DEF Process
<1>4. children' \in Seq(Process)
  BY <1>1, <1>3
<1> QED
  BY <1>1, <1>3, <1>4, LenProperties

(* A process is added at the end.                                          *)
LEMMA ForkFacts ==
  ASSUME children \in Seq(Process), request \in Int,
         children' = Append(children, [decoder |-> request, state |-> "forked"])
  PROVE  /\ children' \in Seq(Process) /\ Len(children') = Len(children) + 1
         /\ \A d \in DOMAIN children : children'[d] = children[d]
         /\ children'[Len(children')].decoder = request
<1>1. [decoder |-> request, state |-> "forked"] \in Process
  BY DEF Process, Live
<1> QED
  BY <1>1, AppendProperties, LenProperties

-----------------------------------------------------------------------------
LEMMA TypeAlways == Spec => []TypeOK
<1>1. Init => TypeOK
  <2>1. Len(Requests) \in Nat /\ MaxFailures \in Nat
    BY DecoderAssumption, LenProperties
  <2>2. Init => children \in Seq(Process) /\ Len(children) = 0
    BY EmptySeq DEF Init
  <2>3. Init => /\ finishing \in BOOLEAN /\ interrupted \in BOOLEAN /\ hurried \in BOOLEAN
                /\ mRunning \in BOOLEAN /\ mDecoderState \in BOOLEAN /\ mSocketEnable \in BOOLEAN
                /\ ready \in BOOLEAN /\ listening \in BOOLEAN
    BY DEF Init
  <2>4. Init => /\ request = 0 /\ asked = 0 /\ at = "sleep" /\ current_dec = 0
                /\ status = "up" /\ thread = "begin" /\ mChildPID = 0 /\ cfg = 0
                /\ pending = 0 /\ conn = 0 /\ failures = 0
    BY DEF Init, NoDecoder
  <2> QED
    BY <2>1, <2>2, <2>3, <2>4 DEF TypeOK, Starting
<1>2. TypeOK /\ [Next]_vars => TypeOK'
  <2> SUFFICES ASSUME TypeOK, [Next]_vars PROVE TypeOK'
    OBVIOUS
  <2> USE DEF TypeOK, askVars, mainVars, runVars, socketVars, childVars
  <2> Len(children) \in Nat
    BY LenProperties
  <2>1. CASE Ask
    <3>1. Len(Requests) \in Nat /\ \A n \in 1 .. Len(Requests) : Requests[n] \in Int
      BY DecoderAssumption, LenProperties, ElementOfSeq
    <3> QED
      BY <2>1, <3>1 DEF Ask
  <2>2. CASE Watch
    <3>1. hurried' \in BOOLEAN /\ finishing' \in BOOLEAN
      BY <2>2 DEF Watch
    <3>2. at' \in {"compare", "stop"}
      BY <2>2 DEF Watch
    <3> QED
      BY <2>2, <3>1, <3>2 DEF Watch
  <2>3. CASE Kill
    <3>1. DOMAIN children = 1 .. Len(children)
      BY LenProperties
    <3>2. children' \in Seq(Process) /\ Len(children') = Len(children)
      <4>1. CASE mChildPID # 0 /\ ChildBecomes(mChildPID, "reaped")
        BY <3>1, <4>1, ChildFacts
      <4>2. CASE children' = [c \in DOMAIN children |-> [children[c] EXCEPT !.state = "reaped"]]
        BY <4>2, GroupFacts
      <4>3. CASE UNCHANGED children
        BY <4>3
      <4> QED
        BY <2>3, <4>1, <4>2, <4>3 DEF Kill
    <3>3. status' \in {status, "killed"}
      BY <2>3 DEF Kill
    <3> QED
      BY <2>3, <3>2, <3>3 DEF Kill
  <2>4. CASE Fork
    <3>1. children' \in Seq(Process) /\ Len(children') = Len(children) + 1
      BY <2>4, ForkFacts DEF Fork
    <3> QED
      BY <2>4, <3>1 DEF Fork, Goto, Starting
  <2>5. CASE SendFails
    <3>1. mDecoderState' \in BOOLEAN
      BY <2>5 DEF SendFails
    <3> QED
      BY <2>5, <3>1 DEF SendFails, Goto
  <2>6. ASSUME NEW c \in DOMAIN children, Child(c) \/ Fail(c) PROVE TypeOK'
    <3>1. /\ \E state \in Live \cup {"dead", "reaped"} : ChildBecomes(c, state)
          /\ UNCHANGED <<askVars, mainVars, status, thread, mRunning, runVars, ready, listening, conn>>
          /\ pending' \in {pending, c}
          /\ failures' \in {failures, failures + 1} /\ (failures' # failures => failures < MaxFailures)
      BY <2>6 DEF Child, Exec, Connect, Fail, Live
    <3>2. children' \in Seq(Process) /\ Len(children') = Len(children)
      BY <3>1, ChildFacts
    <3>3. c \in 0 .. Len(children)
      BY LenProperties
    <3>4. failures' \in 0 .. MaxFailures
      BY <3>1, DecoderAssumption
    <3> QED
      BY <3>1, <3>2, <3>3, <3>4
  <2>7. CASE UNCHANGED vars
    BY <2>7 DEF vars
  <2>8. CASE Produce
    BY <2>8 DEF Produce
  <2>9. CASE Interrupt
    BY <2>9 DEF Interrupt
  <2>10. CASE Compare
    BY <2>10 DEF Compare
  <2>11. CASE Note
    BY <2>11 DEF Note
  <2>12. CASE Stop
    <3>1. mRunning' \in BOOLEAN /\ at' \in {"kill", "exit", "start"}
      BY <2>12 DEF Stop, AfterStop
    <3> QED
      BY <2>12, <3>1 DEF Stop
  <2>13. CASE CloseConnection
    BY <2>13 DEF CloseConnection
  <2>14. CASE Join
    BY <2>14 DEF Join, AfterStop
  <2>15. CASE Start
    BY <2>15 DEF Start, Starting
  <2>16. CASE Exit
    <3>1. listening' \in BOOLEAN /\ pending' = 0 /\ conn' = 0 /\ status' = "exited"
      BY <2>16 DEF Exit
    <3> QED
      BY <2>16, <3>1 DEF Exit
  <2>17. CASE Begin
    BY <2>17 DEF Begin, Goto, Starting
  <2>18. CASE SetState
    <3>1. mSocketEnable' \in BOOLEAN /\ mDecoderState' \in BOOLEAN /\ thread' = "socket"
      BY <2>18 DEF SetState, Goto
    <3> QED
      BY <2>18, <3>1 DEF SetState, Starting
  <2>19. CASE InitSocket
    BY <2>19 DEF InitSocket, Goto, Starting
  <2>20. CASE StorePID
    BY <2>20 DEF StorePID, Goto
  <2>21. CASE Configure
    BY <2>21 DEF Configure, Goto, NoDecoder
  <2>22. CASE ReadTables
    BY <2>22 DEF ReadTables, Goto
  <2>23. CASE Test
    BY <2>23 DEF Test, Goto
  <2>24. CASE Select
    BY <2>24 DEF Select, Goto
  <2>25. CASE Accept
    <3>1. /\ listening' \in BOOLEAN /\ mSocketEnable' \in BOOLEAN /\ thread' = "poll"
          /\ conn' = pending /\ pending' = 0
      BY <2>25 DEF Accept, Goto
    <3> QED
      BY <2>25, <3>1 DEF Accept
  <2>26. CASE Poll
    BY <2>26 DEF Poll, Goto
  <2>27. CASE Check
    BY <2>27 DEF Check, Goto
  <2>28. CASE Send
    BY <2>28 DEF Send, Goto
  <2> QED
    BY <2>1, <2>2, <2>3, <2>4, <2>5, <2>6, <2>7, <2>8, <2>9, <2>10, <2>11, <2>12, <2>13, <2>14, <2>15, <2>16, <2>17,
       <2>18, <2>19, <2>20, <2>21, <2>22, <2>23, <2>24, <2>25, <2>26, <2>27, <2>28 DEF Next, Main, Run, Gone
<1> QED
  BY <1>1, <1>2, PTL DEF Spec

(* Every variable keeps its type.                                          *)
THEOREM TypeCorrect == Spec => []TypeOK
BY TypeAlways

-----------------------------------------------------------------------------
(* main() is at a restart only if it has seen the flag set, or run() has   *)
(* been waited for.                                                        *)
MainInv ==
  /\ finishing => at \in {"stop", "kill", "close", "join", "exit"}
  /\ interrupted => finishing
  /\ (at \in {"compare", "note"} \/ (at = "stop" /\ ~finishing)) => mRunning
  /\ at = "start" => thread = "none"
  /\ status # "terminated"

(* What a step does that main() does not take.                             *)
LEMMA OthersStep ==
  ASSUME TypeOK, Next, ~Main, ~Interrupt
  PROVE  /\ UNCHANGED <<at, current_dec, finishing, interrupted, hurried>>
         /\ mRunning' = mRunning \/ (thread = "begin" /\ mRunning' = TRUE)
         /\ thread = "none" => thread' = "none"
         /\ thread' # "none" \/ thread' = thread
         /\ status' \in {status, "crashed"}
<1> USE DEF askVars, mainVars, runVars, socketVars, childVars
<1>1. CASE Run
  <2>1. CASE Begin
    BY <2>1 DEF Begin, Goto
  <2>2. CASE SetState \/ InitSocket \/ Fork \/ StorePID
    BY <2>2 DEF SetState, InitSocket, Fork, StorePID, Goto
  <2>3. CASE Configure \/ ReadTables
    BY <2>3 DEF Configure, ReadTables, Goto
  <2>4. CASE Test
    BY <2>4 DEF Test, Goto, TypeOK
  <2>5. CASE Select \/ Accept
    BY <2>5 DEF Select, Accept, Goto
  <2>6. CASE Poll \/ Check
    BY <2>6 DEF Poll, Check, Goto
  <2>7. CASE Send \/ SendFails
    BY <2>7 DEF Send, SendFails, Goto
  <2> QED
    BY <1>1, <2>1, <2>2, <2>3, <2>4, <2>5, <2>6, <2>7 DEF Run
<1>2. CASE Ask \/ Produce
  BY <1>2 DEF Ask, Produce
<1>3. CASE \E c \in DOMAIN children : Child(c) \/ Fail(c)
  BY <1>3 DEF Child, Exec, Connect, Fail
<1>4. CASE Gone
  BY <1>4 DEF Gone, vars
<1> QED
  BY <1>1, <1>2, <1>3, <1>4 DEF Next

LEMMA MainAlways == Spec => []MainInv
<1>1. Init => MainInv
  BY DEF Init, MainInv
<1>2. TypeOK /\ MainInv /\ [Next]_vars => MainInv'
  <2> SUFFICES ASSUME TypeOK, MainInv, [Next]_vars PROVE MainInv'
    OBVIOUS
  <2> USE DEF MainInv
  <2>1. CASE Next /\ ~Main /\ ~Interrupt
    <3>1. /\ at' = at /\ finishing' = finishing /\ interrupted' = interrupted
          /\ mRunning' = mRunning \/ mRunning' = TRUE
          /\ thread = "none" => thread' = "none"
          /\ status' \in {status, "crashed"}
      BY <2>1, OthersStep
    <3>2. mRunning => mRunning'
      BY <3>1
    <3>3. status' # "terminated"
      BY <3>1
    <3> QED
      BY <3>1, <3>2, <3>3
  <2>2. CASE UNCHANGED vars
    BY <2>2 DEF vars, mainVars
  <2>3. CASE Interrupt
    BY <2>3 DEF Interrupt
  <2>4. CASE Watch \/ Compare \/ Note
    BY <2>4 DEF Watch, Compare, Note
  <2>5. CASE Stop
    BY <2>5 DEF Stop, AfterStop
  <2>6. CASE Kill
    BY <2>6 DEF Kill, Up
  <2>7. CASE CloseConnection
    BY <2>7 DEF CloseConnection
  <2>8. CASE Join
    BY <2>8 DEF Join, AfterStop
  <2>9. CASE Start
    BY <2>9 DEF Start
  <2>10. CASE Exit
    BY <2>10 DEF Exit, mainVars
  <2> QED
    BY <2>1, <2>2, <2>3, <2>4, <2>5, <2>6, <2>7, <2>8, <2>9, <2>10 DEF Main
<1> QED
  BY <1>1, <1>2, TypeAlways, PTL DEF Spec

(* main() never assigns to the thread it has not joined, whatever it is    *)
(* asked, and however often run() ends by itself.                          *)
THEOREM RestartsJoin == Spec => []RestartJoins
<1>1. MainInv => RestartJoins
  BY DEF MainInv, RestartJoins
<1> QED
  BY <1>1, MainAlways, PTL

-----------------------------------------------------------------------------
Before == {"begin", "state", "socket", "fork"}     \* run() has yet to fork
EarlierReaped == \A c \in 1 .. Len(children) - 1 : children[c].state = "reaped"
AllReaped == \A c \in 1 .. Len(children) : children[c].state = "reaped"

(* Only a fork adds a process, and one that is reaped stays so.            *)
LEMMA ReapedStay ==
  ASSUME TypeOK, [Next]_vars, ~Fork
  PROVE  /\ Len(children') = Len(children)
         /\ \A c \in 1 .. Len(children) :
              /\ children'[c].decoder = children[c].decoder
              /\ children[c].state = "reaped" => children'[c].state = "reaped"
<1> USE DEF childVars, socketVars, runVars, mainVars, askVars
<1>0. children \in Seq(Process) /\ DOMAIN children = 1 .. Len(children) /\ mChildPID \in 0 .. Len(children)
  BY LenProperties DEF TypeOK
<1>1. CASE UNCHANGED children
  BY <1>1
<1>2. CASE Kill
  <2>1. CASE mChildPID # 0 /\ ChildBecomes(mChildPID, "reaped")
    BY <1>0, <2>1, ChildFacts
  <2>2. CASE children' = [c \in DOMAIN children |-> [children[c] EXCEPT !.state = "reaped"]]
    BY <1>0, <2>2, GroupFacts
  <2> QED
    BY <1>1, <1>2, <2>1, <2>2 DEF Kill
<1>3. ASSUME NEW c \in DOMAIN children, Child(c) \/ Fail(c)
      PROVE  /\ Len(children') = Len(children)
             /\ \A d \in 1 .. Len(children) :
                  /\ children'[d].decoder = children[d].decoder
                  /\ children[d].state = "reaped" => children'[d].state = "reaped"
  <2>1. /\ \E state \in Live \cup {"dead", "reaped"} : ChildBecomes(c, state)
        /\ children[c].state # "reaped"
    BY <1>3 DEF Child, Exec, Connect, Fail, Live
  <2> QED
    BY <1>0, <2>1, ChildFacts
<1>4. \/ UNCHANGED children \/ Kill
      \/ \E c \in DOMAIN children : Child(c) \/ Fail(c)
  <2>1. CASE Main
    BY <2>1 DEF Main, Watch, Compare, Note, Stop, CloseConnection, Join, Start, Exit
  <2>2. CASE Run
    BY <2>2 DEF Run, Begin, SetState, InitSocket, StorePID, Configure, ReadTables, Test, Select,
                Accept, Poll, Check, Send, SendFails
  <2>3. CASE Ask \/ Produce \/ Interrupt \/ UNCHANGED vars
    BY <2>3 DEF Ask, Produce, Interrupt, vars
  <2> QED
    BY <2>1, <2>2, <2>3 DEF Next, Gone
<1> QED
  BY <1>1, <1>2, <1>3, <1>4

LEMMA ReapedStep ==
  ASSUME TypeOK, [Next]_vars, ~Fork
  PROVE  /\ Len(children') = Len(children)
         /\ (EarlierReaped => EarlierReaped') /\ (AllReaped => AllReaped')
<1>1. Len(children) \in Nat
  BY LenProperties DEF TypeOK
<1> QED
  BY <1>1, ReapedStay DEF EarlierReaped, AllReaped

(* While main() sleeps long enough, every decoder but the newest has been  *)
(* waited for, the newest too when run() starts, and after that mChildPID  *)
(* is the newest.                                                          *)
ReapInv ==
  ~hurried =>
    /\ EarlierReaped
    /\ thread \in Before => AllReaped
    /\ thread = "pid" => Len(children) # 0
    /\ thread \notin Starting => mChildPID = Len(children) /\ mChildPID # 0

(* Without a signal main() stops IQStream only when run() has started, and *)
(* once the flag is cleared its decoder is waited for.                     *)
QuietInv ==
  ~hurried /\ ~interrupted =>
    /\ at # "sleep" => thread \notin Starting
    /\ at \in {"kill", "close", "join", "start", "exit"} => ~mRunning
    /\ ~mRunning /\ thread \notin Starting /\ at # "kill" => AllReaped
    /\ thread \in {"state", "socket", "fork", "pid"} => mRunning
    /\ status # "killed"
    /\ status = "exited" => at = "exit"

LEMMA ReapAlways == Spec => [](ReapInv /\ QuietInv)
<1>1. Init => ReapInv /\ QuietInv
  BY LenProperties DEF Init, ReapInv, QuietInv, EarlierReaped, AllReaped, Starting
<1>2. TypeOK /\ MainInv /\ ReapInv /\ QuietInv /\ [Next]_vars => ReapInv' /\ QuietInv'
  <2> SUFFICES ASSUME TypeOK, MainInv, ReapInv, QuietInv, [Next]_vars PROVE ReapInv' /\ QuietInv'
    OBVIOUS
  <2> USE DEF ReapInv, QuietInv, Before, Starting, askVars, mainVars, runVars, socketVars, childVars
  <2>1. CASE Fork
    <3>1. /\ children' \in Seq(Process) /\ Len(children') = Len(children) + 1
          /\ \A d \in DOMAIN children : children'[d] = children[d]
          /\ Len(children) \in Nat /\ DOMAIN children = 1 .. Len(children)
      BY <2>1, ForkFacts, LenProperties DEF Fork, TypeOK
    <3>2. AllReaped => EarlierReaped'
      BY <3>1 DEF AllReaped, EarlierReaped
    <3>3. Len(children') # 0
      BY <3>1
    <3> QED
      BY <2>1, <3>2, <3>3 DEF Fork, Goto
  <2>2. CASE Kill
    <3>1. /\ Len(children') = Len(children)
          /\ (EarlierReaped => EarlierReaped') /\ (AllReaped => AllReaped')
      BY <2>2, ReapedStep DEF Kill, Fork, childVars
    <3>2. EarlierReaped /\ mChildPID = Len(children) /\ mChildPID # 0 => AllReaped' /\ status' = status
      <4> SUFFICES ASSUME EarlierReaped, mChildPID = Len(children), mChildPID # 0
                   PROVE  AllReaped' /\ status' = status
        OBVIOUS
      <4>1. ChildBecomes(mChildPID, "reaped") /\ status' = status
        BY <2>2 DEF Kill
      <4>2. Len(children) \in Nat /\ mChildPID \in DOMAIN children
        BY LenProperties DEF TypeOK
      <4>3. \A d \in 1 .. Len(children) : children'[d].state = "reaped"
        BY <4>1, <4>2, ChildFacts, LenProperties DEF TypeOK, EarlierReaped
      <4> QED
        BY <3>1, <4>1, <4>3 DEF AllReaped
    <3> QED
      BY <2>2, <3>1, <3>2 DEF Kill
  <2>3. CASE ~Fork /\ ~Kill
    <3> USE DEF Goto
    <3>1. /\ Len(children') = Len(children)
          /\ (EarlierReaped => EarlierReaped') /\ (AllReaped => AllReaped')
      BY <2>3, ReapedStep
    <3>2. CASE Watch
      BY <3>1, <3>2 DEF Watch
    <3>3. CASE Compare \/ Note
      BY <3>1, <3>3 DEF Compare, Note
    <3>4. CASE Stop
      BY <3>1, <3>4 DEF Stop, AfterStop
    <3>5. CASE CloseConnection
      BY <3>1, <3>5 DEF CloseConnection
    <3>6. CASE Join
      BY <3>1, <3>6 DEF Join, AfterStop
    <3>7. CASE Start
      BY <3>1, <3>7 DEF Start, MainInv
    <3>8. CASE Exit
      BY <3>1, <3>8 DEF Exit
    <3>9. CASE Interrupt
      BY <3>1, <3>9 DEF Interrupt
    <3>10. CASE Begin
      BY <3>1, <3>10 DEF Begin
    <3>11. CASE SetState \/ InitSocket
      BY <3>1, <3>11 DEF SetState, InitSocket
    <3>12. CASE StorePID
      BY <3>1, <3>12 DEF StorePID
    <3>13. CASE Configure \/ ReadTables
      BY <3>1, <3>13 DEF Configure, ReadTables
    <3>14. CASE Test \/ Select \/ Accept
      BY <3>1, <3>14 DEF Test, Select, Accept
    <3>15. CASE Poll \/ Check \/ Send \/ SendFails
      BY <3>1, <3>15 DEF Poll, Check, Send, SendFails
    <3>16. CASE Ask \/ Produce \/ UNCHANGED vars
      BY <3>1, <3>16 DEF Ask, Produce, vars
    <3>17. CASE \E c \in DOMAIN children : Child(c) \/ Fail(c)
      BY <3>1, <3>17 DEF Child, Exec, Connect, Fail
    <3> QED
      BY <2>3, <3>2, <3>3, <3>4, <3>5, <3>6, <3>7, <3>8, <3>9, <3>10, <3>11, <3>12, <3>13, <3>14,
         <3>15, <3>16, <3>17 DEF Next, Main, Run, Gone
  <2> QED
    BY <2>1, <2>2, <2>3
<1> QED
  BY <1>1, <1>2, TypeAlways, MainAlways, PTL DEF Spec

(* However the decoders fail, no two of them are alive when the watcher    *)
(* leaves run() the time to start.                                         *)
THEOREM OneDecoderAlways == Spec => []OneDecoder
<1>1. ReapInv => OneDecoder
  BY DEF ReapInv, OneDecoder, EarlierReaped
<1> QED
  BY <1>1, ReapAlways, PTL

(* Nor is one left behind, or es_sensor killed by its own stop(), unless a *)
(* signal came.                                                            *)
THEOREM OrphansNeedSignal == Spec => []OrphanNeedsSignal
<1>1. TypeOK /\ ReapInv /\ QuietInv => OrphanNeedsSignal
  <2> SUFFICES ASSUME TypeOK, ReapInv, QuietInv, ~hurried, ~interrupted
               PROVE  /\ status = "exited" => \A c \in DOMAIN children : children[c].state = "reaped"
                      /\ status # "killed"
    BY DEF OrphanNeedsSignal
  <2>1. status # "killed" /\ (status = "exited" => AllReaped)
    BY DEF QuietInv
  <2>2. DOMAIN children = 1 .. Len(children)
    BY LenProperties DEF TypeOK
  <2> QED
    BY <2>1, <2>2 DEF AllReaped
<1> QED
  BY <1>1, TypeAlways, ReapAlways, PTL

-----------------------------------------------------------------------------
(* Whoever is at the other end of the connection, once it has been         *)
(* accepted, is the newest decoder.                                        *)
ConnInv ==
  ~hurried =>
    /\ pending \in {0, Len(children)}
    /\ thread = "fork" => pending = 0
    /\ mSocketEnable /\ thread \notin Starting => conn \in {0, Len(children)}
    /\ thread \in {"socket", "fork", "pid"} => ~mSocketEnable
    /\ thread \in {"check", "send", "blocked"} => mSocketEnable

LEMMA ConnAlways == Spec => []ConnInv
<1>1. Init => ConnInv
  BY DEF Init, ConnInv, Starting
<1>2. TypeOK /\ ReapInv /\ ConnInv /\ [Next]_vars => ConnInv'
  <2> SUFFICES ASSUME TypeOK, ReapInv, ConnInv, [Next]_vars PROVE ConnInv'
    OBVIOUS
  <2> USE DEF ConnInv, Starting, Goto, askVars, mainVars, runVars, socketVars, childVars
  <2>1. CASE Fork
    BY <2>1 DEF Fork
  <2>2. CASE ~Fork
    <3>1. Len(children') = Len(children)
      BY <2>2, ReapedStep
    <3>2. CASE Watch
      BY <3>1, <3>2 DEF Watch
    <3>3. CASE Compare \/ Note \/ Stop \/ Kill
      BY <3>1, <3>3 DEF Compare, Note, Stop, Kill
    <3>4. CASE CloseConnection
      BY <3>1, <3>4 DEF CloseConnection
    <3>5. CASE Join \/ Start
      BY <3>1, <3>5 DEF Join, Start
    <3>6. CASE Exit \/ Interrupt
      BY <3>1, <3>6 DEF Exit, Interrupt
    <3>7. CASE Begin \/ SetState
      BY <3>1, <3>7 DEF Begin, SetState
    <3>8. CASE InitSocket \/ StorePID
      BY <3>1, <3>8 DEF InitSocket, StorePID
    <3>9. CASE Configure \/ ReadTables
      BY <3>1, <3>9 DEF Configure, ReadTables
    <3>10. CASE Test \/ Select
      BY <3>1, <3>10 DEF Test, Select
    <3>11. CASE Accept
      BY <3>1, <3>11 DEF Accept
    <3>12. CASE Poll \/ Check \/ Send \/ SendFails
      BY <3>1, <3>12 DEF Poll, Check, Send, SendFails
    <3>13. CASE Ask \/ Produce \/ UNCHANGED vars
      BY <3>1, <3>13 DEF Ask, Produce, vars
    <3>14. ASSUME NEW c \in DOMAIN children, Connect(c) PROVE ConnInv'
      <4>1. children[c].state # "reaped"
        BY <3>14 DEF Connect
      <4>2. c \in 1 .. Len(children) /\ Len(children) \in Nat
        BY LenProperties DEF TypeOK
      <4>3. ~hurried => c = Len(children)
        BY <4>1, <4>2 DEF ReapInv, EarlierReaped
      <4>4. ~hurried => thread # "fork"
        BY <4>1, <4>2 DEF ReapInv, AllReaped, Before
      <4> QED
        BY <3>1, <3>14, <4>3, <4>4 DEF Connect
    <3>15. CASE \E c \in DOMAIN children : Exec(c) \/ Fail(c)
      BY <3>1, <3>15 DEF Exec, Fail
    <3> QED
      BY <2>2, <3>2, <3>3, <3>4, <3>5, <3>6, <3>7, <3>8, <3>9, <3>10, <3>11, <3>12, <3>13, <3>14,
         <3>15 DEF Next, Main, Run, Gone, Child
  <2> QED
    BY <2>1, <2>2
<1> QED
  BY <1>1, <1>2, TypeAlways, ReapAlways, PTL DEF Spec

(* The decoder that runs, and the one the resampler is built for, were     *)
(* asked for no earlier than request k.                                    *)
Fresh(k) ==
  /\ thread \notin Before =>
       \E n \in k .. asked : children[Len(children)].decoder = Asked(n)
  /\ thread \notin Starting \cup {"config", "rates"} =>
       \E n \in k .. asked : cfg = Asked(n)

(* main() has seen some request k, and what runs is no older unless it is  *)
(* about to be stopped.                                                    *)
MatchInv ==
  /\ request = Asked(asked)
  /\ thread \notin Before => Len(children) # 0
  /\ \E k \in 0 .. asked :
       current_dec = Asked(k) /\ (at = "stop" \/ ~mRunning \/ Fresh(k))

(* run() goes through its start in order, and cfg is written nowhere else. *)
LEMMA ThreadStep ==
  ASSUME [Next]_vars
  PROVE  /\ ~Fork /\ thread \in Before => thread' \in Before
         /\ ~Configure /\ ~ReadTables =>
              cfg' = cfg /\ (thread \in Starting \cup {"config", "rates"} =>
                               thread' \in Starting \cup {"config", "rates"})
         /\ ~Ask => request' = request /\ asked' = asked
<1> USE DEF Before, Starting, Goto, askVars, mainVars, runVars, socketVars, childVars
<1>1. CASE Main
  <2>1. CASE Watch \/ Compare \/ Note \/ Stop \/ Kill \/ CloseConnection \/ Exit
    BY <2>1 DEF Watch, Compare, Note, Stop, Kill, CloseConnection, Exit
  <2>2. CASE Join \/ Start
    BY <2>2 DEF Join, Start
  <2> QED
    BY <1>1, <2>1, <2>2 DEF Main
<1>2. CASE Run
  <2>1. CASE Begin \/ SetState \/ InitSocket
    BY <2>1 DEF Begin, SetState, InitSocket
  <2>2. CASE Fork
    BY <2>2 DEF Fork
  <2>3. CASE StorePID
    BY <2>3 DEF StorePID
  <2>4. CASE Configure \/ ReadTables
    BY <2>4 DEF Configure, ReadTables
  <2>5. CASE Test \/ Select \/ Accept
    BY <2>5 DEF Test, Select, Accept
  <2>6. CASE Poll \/ Check \/ Send \/ SendFails
    BY <2>6 DEF Poll, Check, Send, SendFails
  <2> QED
    BY <1>2, <2>1, <2>2, <2>3, <2>4, <2>5, <2>6 DEF Run
<1>3. CASE Ask \/ Produce \/ Interrupt \/ UNCHANGED vars
  BY <1>3 DEF Ask, Produce, Interrupt, vars
<1>4. CASE \E c \in DOMAIN children : Child(c) \/ Fail(c)
  BY <1>4 DEF Child, Exec, Connect, Fail
<1> QED
  BY <1>1, <1>2, <1>3, <1>4 DEF Next, Gone

(* What is fresh stays so, while the client asks for nothing.              *)
LEMMA FreshStep ==
  ASSUME TypeOK, MatchInv, [Next]_vars, ~Ask, NEW k \in 0 .. asked, Fresh(k)
  PROVE  Fresh(k)'
<1>1. /\ asked' = asked /\ request' = request
      /\ asked \in k .. asked /\ request = Asked(asked)
  <2>1. Len(Requests) \in Nat
    BY DecoderAssumption, LenProperties
  <2> QED
    BY <2>1, ThreadStep DEF TypeOK, MatchInv
<1>2. ASSUME thread' \notin Before
      PROVE  \E n \in k .. asked : children'[Len(children')].decoder = Asked(n)
  <2>1. CASE Fork
    <3>1. children'[Len(children')].decoder = request
      BY <2>1, ForkFacts DEF Fork, TypeOK
    <3> QED
      BY <1>1, <3>1
  <2>2. CASE ~Fork
    <3>1. thread \notin Before /\ Len(children) \in Nat /\ Len(children) # 0
      BY <1>2, <2>2, ThreadStep, LenProperties DEF MatchInv, TypeOK
    <3>2. Len(children') = Len(children) /\ children'[Len(children)].decoder = children[Len(children)].decoder
      BY <2>2, <3>1, ReapedStay
    <3> QED
      BY <3>1, <3>2 DEF Fresh
  <2> QED
    BY <2>1, <2>2
<1>3. ASSUME thread' \notin Starting \cup {"config", "rates"}
      PROVE  \E n \in k .. asked : cfg' = Asked(n)
  <2>1. CASE Configure \/ ReadTables
    <3>1. cfg' = request
      BY <1>3, <2>1 DEF Configure, ReadTables, Goto
    <3> QED
      BY <1>1, <3>1
  <2>2. CASE ~Configure /\ ~ReadTables
    BY <1>3, <2>2, ThreadStep DEF Fresh
  <2> QED
    BY <2>1, <2>2
<1> QED
  BY <1>1, <1>2, <1>3 DEF Fresh, Asked

LEMMA MatchAlways == Spec => []MatchInv
<1>1. Init => MatchInv
  <2> SUFFICES ASSUME Init PROVE MatchInv
    OBVIOUS
  <2>1. thread \in Before /\ asked = 0 /\ request = Asked(0) /\ current_dec = Asked(0)
    BY DEF Init, Asked, NoDecoder, Before
  <2>2. Fresh(0)
    BY <2>1 DEF Fresh, Before, Starting
  <2> QED
    BY <2>1, <2>2 DEF MatchInv
<1>2. TypeOK /\ MatchInv /\ [Next]_vars => MatchInv'
  <2> SUFFICES ASSUME TypeOK, MatchInv, [Next]_vars PROVE MatchInv'
    OBVIOUS
  <2> USE DEF askVars, mainVars, runVars, socketVars, childVars
  <2>0. Len(Requests) \in Nat /\ asked \in Nat /\ Len(children) \in Nat
    BY DecoderAssumption, LenProperties DEF TypeOK
  <2>1. PICK k \in 0 .. asked : current_dec = Asked(k) /\ (at = "stop" \/ ~mRunning \/ Fresh(k))
    BY DEF MatchInv
  <2>2. CASE Ask
    <3>1. asked' = asked + 1 /\ request' = Asked(asked')
      BY <2>0, <2>2 DEF Ask, Asked
    <3>2. k \in 0 .. asked' /\ \A n \in k .. asked : n \in k .. asked'
      BY <2>0, <3>1
    <3>3. at' = at /\ mRunning' = mRunning /\ thread' = thread /\ children' = children /\ cfg' = cfg
          /\ current_dec' = current_dec
      BY <2>2 DEF Ask
    <3>4. Fresh(k) => Fresh(k)'
      BY <3>2, <3>3 DEF Fresh, Asked
    <3> QED
      BY <2>1, <3>1, <3>2, <3>3, <3>4 DEF MatchInv, Asked
  <2>3. CASE ~Ask
    <3>1. asked' = asked /\ request' = request
      BY <2>3, ThreadStep
    <3>2. thread' \notin Before => Len(children') # 0
      <4>1. CASE Fork
        BY <2>0, <4>1, ForkFacts DEF Fork, TypeOK
      <4>2. CASE ~Fork
        BY <4>2, ThreadStep, ReapedStay DEF MatchInv
      <4> QED
        BY <4>1, <4>2
    <3>3. CASE Note
      <4>1. current_dec' = Asked(asked) /\ at' = "stop" /\ asked \in 0 .. asked
        BY <2>0, <3>3 DEF Note, MatchInv
      <4> QED
        BY <3>1, <3>2, <4>1 DEF MatchInv, Asked
    <3>4. CASE ~Note
      <4>1. current_dec' = current_dec
        BY <3>4 DEF Next, Main, Run, Gone, Child, vars, Ask, Produce, Interrupt, Watch, Compare, Stop,
          Kill, CloseConnection, Join, Start, Exit, Begin, SetState, InitSocket, Fork, StorePID,
          Configure, ReadTables, Test, Select, Accept, Poll, Check, Send, SendFails, Exec, Connect, Fail
      <4>2. Fresh(k) => Fresh(k)'
        BY <2>1, <2>3, FreshStep
      <4>3. at = "stop" => at' = "stop" \/ ~mRunning'
        <5>1. CASE Stop
          BY <5>1 DEF Stop
        <5>2. CASE Interrupt
          BY <5>2 DEF Interrupt
        <5>3. CASE Main /\ ~Stop
          BY <5>3 DEF Main, Watch, Compare, Note, Kill, CloseConnection, Join, Start, Exit
        <5>4. CASE Next /\ ~Main /\ ~Interrupt
          BY <5>4, OthersStep
        <5>5. CASE UNCHANGED vars
          BY <5>5 DEF vars
        <5> QED
          BY <5>1, <5>2, <5>3, <5>4, <5>5
      <4>4. ~mRunning => ~mRunning' \/ Fresh(k)'
        <5>1. CASE Begin
          BY <5>1 DEF Begin, Goto, Fresh, Before, Starting
        <5>2. CASE ~Begin
          BY <5>2 DEF Next, Main, Run, Gone, Child, vars, Ask, Produce, Interrupt, Watch, Compare, Note,
            Stop, Kill, CloseConnection, Join, Start, Exit, SetState, InitSocket, Fork, StorePID,
            Configure, ReadTables, Test, Select, Accept, Poll, Check, Send, SendFails, Exec, Connect, Fail
        <5> QED
          BY <5>1, <5>2
      <4> QED
        BY <2>1, <3>1, <3>2, <4>1, <4>2, <4>3, <4>4 DEF MatchInv, Asked
    <3> QED
      BY <3>3, <3>4
  <2> QED
    BY <2>2, <2>3
<1> QED
  BY <1>1, <1>2, TypeAlways, PTL DEF Spec

(* Whatever is asked and in whichever order things fail, a segment in the  *)
(* wrong format is sent only while a change has yet to reach IQStream.     *)
THEOREM MismatchesAreTransient == Spec => MismatchIsTransient
<1> DEFINE Excused == \/ Suits(children[conn].decoder) \/ request # current_dec
                      \/ at = "stop" \/ ~mRunning \/ hurried
<1>1. TypeOK /\ ConnInv /\ MatchInv /\ Send /\ AllDifferent => Excused
  <2> SUFFICES ASSUME TypeOK, ConnInv, MatchInv, Send, AllDifferent, request = current_dec,
                      at # "stop", mRunning, ~hurried
               PROVE  Suits(children[conn].decoder)
    OBVIOUS
  <2>1. thread = "send" /\ conn # 0
    BY DEF Send
  <2>2. conn = Len(children)
    BY <2>1 DEF ConnInv, Starting
  <2>3. asked \in Nat
    BY DecoderAssumption, LenProperties DEF TypeOK
  <2>4. PICK k \in 0 .. asked : current_dec = Asked(k) /\ Fresh(k)
    BY DEF MatchInv
  <2>5. k = asked
    <3>1. Asked(k) = Asked(asked)
      BY <2>4 DEF MatchInv
    <3>2. asked \in 0 .. asked
      BY <2>3
    <3> QED
      BY <2>4, <3>1, <3>2 DEF AllDifferent
  <2>6. children[conn].decoder = request /\ cfg = request
    BY <2>1, <2>2, <2>3, <2>4, <2>5 DEF Fresh, Before, Starting, MatchInv
  <2> QED
    BY <2>6 DEF Suits
<1> QED
  BY <1>1, TypeAlways, ConnAlways, MatchAlways, PTL DEF MismatchIsTransient

=============================================================================
