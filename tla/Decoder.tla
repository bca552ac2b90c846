------------------------------ MODULE Decoder ------------------------------
(***************************************************************************)
(* The decoder pipeline of es_sensor ("DEC"): IQStream forks a decoder     *)
(* process, listens on a local socket for it, and streams it IQ segments   *)
(* in the format it needs.  The watcher loop of main() restarts IQStream   *)
(* when the decoder that PSDFast was asked for changes, or when IQStream   *)
(* reports that it could not write to the decoder.                         *)
(*                                                                         *)
(* Three threads meet here, main(), IQStream::run() and PSDFast::run(),    *)
(* and the decoder processes, which are external.  A process id is the     *)
(* index of the process in children.                                       *)
(***************************************************************************)
EXTENDS Integers, Sequences, FiniteSets

CONSTANTS
  Requests,    \* the decoders the client asks for, in this order
  MayHurry,    \* main() may sleep its second while run() is still starting
  Signalled,   \* a signal may be delivered, once
  MaxStarts,   \* how often IQStream is started (BOUND)
  MaxFailures, \* how many decoder processes fail (BOUND)
  StraySelect  \* what the indeterminate descriptor in the select() set may be

Known == 1 .. 6     \* id_decoders
Raw == 3            \* dump1090, which takes the samples as they are
NoDecoder == 0      \* the initial value of mDecoder
StopRequest == -1

ASSUME DecoderAssumption ==
  /\ Requests \in Seq(Int)
  /\ MayHurry \in BOOLEAN
  /\ Signalled \in BOOLEAN
  /\ MaxStarts \in Nat \ {0}
  /\ MaxFailures \in Nat
  /\ StraySelect \subseteq {"open", "closed", "outside"} /\ StraySelect # {}

VARIABLES
  \* -- PSDFast
  request,       \* ElectrosenseContext::mDecoder
  asked,         \* how many of Requests have been received
  \* -- main()
  at,            \* where main() is
  current_dec,
  finishing,     \* main() is in finish_ok(), or a signal handler is
  interrupted,   \* the signal has been delivered
  hurried,       \* main() has done so
  status,        \* of the process
  \* -- IQStream
  thread,        \* where run() is; "none" when mThread is not joinable
  mRunning,
  mDecoderState,
  mSocketEnable,
  mChildPID,     \* 0 while indeterminate
  cfg,           \* the decoder whose rates the resampler was built for
  ready,         \* mQueueIn holds a segment
  listening,     \* m_fd is open
  pending,       \* the process in the backlog of m_fd, or 0
  conn,          \* the process at the other end of m_cfd, or 0
  \* -- decoder processes
  children,
  failures

mainVars == <<at, current_dec, finishing, interrupted, hurried>>
runVars == <<mDecoderState, mSocketEnable, mChildPID, cfg>>
socketVars == <<listening, pending, conn>>
childVars == <<children, failures>>
askVars == <<request, asked>>
vars == <<askVars, mainVars, status, thread, mRunning, runVars, ready, socketVars, childVars>>

Up == status = "up"
Starting == {"begin", "state", "socket", "fork", "pid"}
Live == {"forked", "running", "connected", "hung"}

ChildBecomes(c, state) == children' = [children EXCEPT ![c].state = state]

(* What a segment sent now is worth to decoder d: dump1090 wants it raw,   *)
(* any other decoder wants it resampled with its own rates and filters.    *)
Suits(d) == IF request = Raw THEN d = Raw ELSE d # Raw /\ cfg = d

-----------------------------------------------------------------------------
(* Faults: what some of the definitions below would be if the code had a   *)
(* plausible mistake in it.  No specification uses them.                   *)

(* The watcher looks at getDecoderState() only.                            *)
FaultCompareStateOnly ==
  /\ Up /\ at = "compare"
  /\ at' = IF mDecoderState THEN "sleep" ELSE "note"
  /\ UNCHANGED <<askVars, current_dec, finishing, interrupted, hurried, status, thread, mRunning,
                 runVars, ready, socketVars, childVars>>

(* stop() does its work only once the decoder has connected.               *)
FaultStopConnected ==
  /\ Up /\ at = "stop"
  /\ mRunning' = FALSE
  /\ at' = CASE mRunning /\ mSocketEnable -> "kill"
            [] finishing /\ ~(mRunning /\ mSocketEnable) -> "exit"
            [] OTHER -> "start"
  /\ UNCHANGED <<askVars, current_dec, finishing, interrupted, hurried, status, thread, runVars,
                 ready, socketVars, childVars>>

(* stop() does not waitpid().                                              *)
FaultNoWaitpid ==
  /\ Up /\ at = "kill"
  /\ at' = "close"
  /\ children' = [c \in DOMAIN children |->
                    IF c = mChildPID THEN [children[c] EXCEPT !.state = "dead"] ELSE children[c]]
  /\ UNCHANGED <<askVars, current_dec, finishing, interrupted, hurried, status, thread, mRunning,
                 runVars, ready, socketVars, failures>>

(* IQStream is started whatever the decoder.                               *)
FaultStartAlways ==
  /\ Up /\ at = "start"
  /\ Len(children) < MaxStarts
  /\ at' = "sleep"
  /\ thread' = "begin"
  /\ UNCHANGED <<askVars, current_dec, finishing, interrupted, hurried, status, mRunning, runVars,
                 ready, socketVars, childVars>>

(* The resampler is configured only once.                                  *)
FaultConfigureOnce ==
  /\ Up /\ thread = "config"
  /\ thread' = IF request # NoDecoder /\ cfg = NoDecoder THEN "rates" ELSE "test"
  /\ UNCHANGED <<askVars, mainVars, status, mRunning, runVars, ready, socketVars, childVars>>

(* A loop that ends by itself clears its flag.                             *)
FaultFailStops ==
  /\ Up /\ thread \in {"send", "blocked"}
  /\ conn # 0 => children[conn].state \in {"dead", "reaped"}
  /\ mDecoderState' = (mDecoderState /\ ~mRunning)
  /\ mRunning' = FALSE
  /\ thread' = IF mRunning THEN "done" ELSE "test"
  /\ UNCHANGED <<askVars, mainVars, status, mSocketEnable, mChildPID, cfg, ready, socketVars,
                 childVars>>

(* The loop ends only by itself, when a write fails.                       *)
FaultTestForever ==
  /\ Up /\ thread = "test"
  /\ thread' = IF mSocketEnable THEN "poll" ELSE "select"
  /\ UNCHANGED <<askVars, mainVars, status, mRunning, runVars, ready, socketVars, childVars>>

(* A failed write is not reported.                                         *)
FaultFailSilent ==
  /\ Up /\ thread \in {"send", "blocked"}
  /\ conn # 0 => children[conn].state \in {"dead", "reaped"}
  /\ thread' = IF mRunning THEN "done" ELSE "test"
  /\ UNCHANGED <<askVars, mainVars, status, mRunning, runVars, ready, socketVars, childVars>>

-----------------------------------------------------------------------------
Init ==
  /\ request = NoDecoder
  /\ asked = 0
  /\ at = "sleep"
  /\ current_dec = 0
  /\ finishing = FALSE
  /\ interrupted = FALSE
  /\ hurried = FALSE
  /\ status = "up"
  /\ thread = "begin"
  /\ mRunning \in BOOLEAN
  /\ mDecoderState = FALSE
  /\ mSocketEnable = FALSE
  /\ mChildPID = 0
  /\ cfg = NoDecoder
  /\ ready = FALSE
  /\ listening = FALSE
  /\ pending = 0
  /\ conn = 0
  /\ children = <<>>
  /\ failures = 0

-----------------------------------------------------------------------------
(*                       PSDFast and the driver                            *)

(* A message on the control channel: setDecoder().                         *)
Ask ==
  /\ Up
  /\ asked < Len(Requests)
  /\ asked' = asked + 1
  /\ request' = Requests[asked + 1]
  /\ UNCHANGED <<mainVars, status, thread, mRunning, runVars, ready, socketVars, childVars>>

(* The driver enqueues a segment.                                          *)
Produce ==
  /\ Up
  /\ ~ready
  /\ ready' = TRUE
  /\ UNCHANGED <<askVars, mainVars, status, thread, mRunning, runVars, socketVars, childVars>>

-----------------------------------------------------------------------------
(*                               main()                                    *)

(* Wake up and look at every component's isRunning(); any other component  *)
(* may have stopped.                                                       *)
Watch ==
  /\ Up /\ at = "sleep"
  /\ thread \in Starting => MayHurry
  /\ hurried' = (hurried \/ thread \in Starting)
  /\ \E othersRun \in BOOLEAN :
       IF mRunning /\ othersRun
       THEN at' = "compare" /\ UNCHANGED finishing
       ELSE at' = "stop" /\ finishing' = TRUE
  /\ UNCHANGED <<askVars, current_dec, interrupted, status, thread, mRunning, runVars,
                 ready, socketVars, childVars>>

Compare ==
  /\ Up /\ at = "compare"
  /\ at' = IF request # current_dec \/ ~mDecoderState THEN "note" ELSE "sleep"
  /\ UNCHANGED <<askVars, current_dec, finishing, interrupted, hurried, status, thread, mRunning,
                 runVars, ready, socketVars, childVars>>

Note ==
  /\ Up /\ at = "note"
  /\ current_dec' = request
  /\ at' = "stop"
  /\ UNCHANGED <<askVars, finishing, interrupted, hurried, status, thread, mRunning, runVars,
                 ready, socketVars, childVars>>

AfterStop == IF finishing THEN "exit" ELSE "start"

(* IQStream::stop does nothing unless the flag is set.                     *)
Stop ==
  /\ Up /\ at = "stop"
  /\ mRunning' = FALSE
  /\ at' = IF mRunning THEN "kill" ELSE AfterStop
  /\ UNCHANGED <<askVars, current_dec, finishing, interrupted, hurried, status, thread, runVars,
                 ready, socketVars, childVars>>

(* kill() and waitpid() of mChildPID.  Before the first fork has returned  *)
(* that is an indeterminate number; if it is 0 it names the process group  *)
(* of es_sensor itself.                                                    *)
Kill ==
  /\ Up /\ at = "kill"
  /\ at' = "close"
  /\ \/ /\ mChildPID # 0
        /\ ChildBecomes(mChildPID, "reaped")
        /\ UNCHANGED status
     \/ /\ mChildPID = 0
        /\ UNCHANGED <<children, status>>
     \/ /\ mChildPID = 0
        /\ status' = "killed"
        /\ children' = [c \in DOMAIN children |-> [children[c] EXCEPT !.state = "reaped"]]
  /\ UNCHANGED <<askVars, current_dec, finishing, interrupted, hurried, thread, mRunning, runVars,
                 ready, socketVars, failures>>

(* close(m_cfd); a sendmsg() that is blocked keeps the connection.         *)
CloseConnection ==
  /\ Up /\ at = "close"
  /\ conn' = IF thread = "blocked" THEN conn ELSE 0
  /\ at' = "join"
  /\ UNCHANGED <<askVars, current_dec, finishing, interrupted, hurried, status, thread, mRunning,
                 runVars, ready, listening, pending, childVars>>

Join ==
  /\ Up /\ at = "join"
  /\ thread = "done"
  /\ thread' = "none"
  /\ at' = AfterStop
  /\ UNCHANGED <<askVars, current_dec, finishing, interrupted, hurried, status, mRunning, runVars,
                 ready, socketVars, childVars>>

(* Read the decoder a third time, and start IQStream unless it is -1.      *)
(* Assigning to a joinable std::thread calls std::terminate.               *)
Start ==
  /\ Up /\ at = "start"
  /\ at' = "sleep"
  /\ \/ /\ request # StopRequest
        /\ Len(children) < MaxStarts
        /\ thread' = IF thread = "none" THEN "begin" ELSE thread
        /\ status' = IF thread = "none" THEN status ELSE "terminated"
     \/ /\ request = StopRequest
        /\ UNCHANGED <<thread, status>>
  /\ UNCHANGED <<askVars, current_dec, finishing, interrupted, hurried, mRunning, runVars,
                 ready, socketVars, childVars>>

(* A signal interrupts main() wherever it is; its handler runs finish_ok() *)
(* and exits, so that main() never goes on.                                *)
Interrupt ==
  /\ Up /\ Signalled /\ ~interrupted
  /\ at # "exit"
  /\ interrupted' = TRUE
  /\ finishing' = TRUE
  /\ at' = "stop"
  /\ UNCHANGED <<askVars, current_dec, hurried, status, thread, mRunning, runVars, ready,
                 socketVars, childVars>>

Exit ==
  /\ Up /\ at = "exit"
  /\ status' = "exited"
  /\ listening' = FALSE /\ pending' = 0 /\ conn' = 0
  /\ UNCHANGED <<askVars, mainVars, thread, mRunning, runVars, ready, childVars>>

-----------------------------------------------------------------------------
(*                           IQStream::run()                               *)

Goto(label) == thread' = label

Begin ==
  /\ Up /\ thread = "begin"
  /\ mRunning' = TRUE
  /\ Goto("state")
  /\ UNCHANGED <<askVars, mainVars, status, runVars, ready, socketVars, childVars>>

SetState ==
  /\ Up /\ thread = "state"
  /\ mSocketEnable' = FALSE
  /\ mDecoderState' = TRUE
  /\ Goto("socket")
  /\ UNCHANGED <<askVars, mainVars, status, mRunning, mChildPID, cfg, ready, socketVars, childVars>>

(* unlink, bind and listen: the name now leads to the new socket.          *)
InitSocket ==
  /\ Up /\ thread = "socket"
  /\ listening' = TRUE
  /\ pending' = 0
  /\ Goto("fork")
  /\ UNCHANGED <<askVars, mainVars, status, mRunning, runVars, ready, conn, childVars>>

(* The child has the parent's mDecoder of this moment.                     *)
Fork ==
  /\ Up /\ thread = "fork"
  /\ children' = Append(children, [decoder |-> request, state |-> "forked"])
  /\ Goto("pid")
  /\ UNCHANGED <<askVars, mainVars, status, mRunning, runVars, ready, socketVars, failures>>

StorePID ==
  /\ Up /\ thread = "pid"
  /\ mChildPID' = Len(children)
  /\ Goto("config")
  /\ UNCHANGED <<askVars, mainVars, status, mRunning, mDecoderState, mSocketEnable, cfg, ready,
                 socketVars, childVars>>

(* if (getDecoder() != 0)                                                  *)
Configure ==
  /\ Up /\ thread = "config"
  /\ cfg' = NoDecoder
  /\ Goto(IF request # NoDecoder THEN "rates" ELSE "test")
  /\ UNCHANGED <<askVars, mainVars, status, mRunning, mDecoderState, mSocketEnable, mChildPID,
                 ready, socketVars, childVars>>

(* getDecoder() again, as an index.  Outside of the tables it reads what   *)
(* lies there, or crashes.                                                 *)
ReadTables ==
  /\ Up /\ thread = "rates"
  /\ \/ /\ cfg' = request
        /\ Goto("test")
        /\ UNCHANGED status
     \/ /\ request \notin Known
        /\ status' = "crashed"
        /\ UNCHANGED <<cfg, thread>>
  /\ UNCHANGED <<askVars, mainVars, mRunning, mDecoderState, mSocketEnable, mChildPID, ready,
                 socketVars, childVars>>

Test ==
  /\ Up /\ thread = "test"
  /\ Goto(CASE ~mRunning -> "done"
             [] mRunning /\ mSocketEnable -> "poll"
             [] mRunning /\ ~mSocketEnable -> "select")
  /\ UNCHANGED <<askVars, mainVars, status, mRunning, runVars, ready, socketVars, childVars>>

(* Wait 5 ms for a connection.  The set also holds an indeterminate        *)
(* descriptor.  One that is open changes nothing; one that is closed makes *)
(* select() fail and leave m_fd in the set; one outside of the set is      *)
(* written over something else, of which a crash is all that is modelled.  *)
Select ==
  /\ Up /\ thread = "select"
  /\ \E stray \in StraySelect :
       /\ status' = IF stray = "outside" THEN "crashed" ELSE status
       /\ Goto(IF stray = "closed" \/ pending # 0 THEN "accept" ELSE "poll")
  /\ UNCHANGED <<askVars, mainVars, mRunning, runVars, ready, socketVars, childVars>>

Accept ==
  /\ Up /\ thread = "accept"
  /\ pending # 0
  /\ conn' = pending
  /\ pending' = 0
  /\ listening' = FALSE
  /\ mSocketEnable' = TRUE
  /\ Goto("poll")
  /\ UNCHANGED <<askVars, mainVars, status, mRunning, mDecoderState, mChildPID, cfg, ready, childVars>>

(* try_dequeue; without a decoder the segment is deleted.                  *)
Poll ==
  /\ Up /\ thread = "poll"
  /\ \/ ready /\ ready' \in BOOLEAN /\ Goto(IF mSocketEnable THEN "check" ELSE "test")
     \/ ~ready /\ UNCHANGED ready /\ Goto("test")
  /\ UNCHANGED <<askVars, mainVars, status, mRunning, runVars, socketVars, childVars>>

Check ==
  /\ Up /\ thread = "check"
  /\ Goto(IF mRunning THEN "send" ELSE "done")
  /\ UNCHANGED <<askVars, mainVars, status, mRunning, runVars, ready, socketVars, childVars>>

(* sendmsg() to a live decoder; one that hangs does not take the segment.  *)
Send ==
  /\ Up /\ thread = "send"
  /\ conn # 0 /\ children[conn].state \in {"connected", "hung"}
  /\ Goto(IF children[conn].state = "hung" THEN "blocked" ELSE "test")
  /\ UNCHANGED <<askVars, mainVars, status, mRunning, runVars, ready, socketVars, childVars>>

(* The connection is closed, or nobody is at its other end.  If IQStream   *)
(* is not being stopped the loop ends, with mRunning still set.            *)
SendFails ==
  /\ Up /\ thread \in {"send", "blocked"}
  /\ conn # 0 => children[conn].state \in {"dead", "reaped"}
  /\ mDecoderState' = (mDecoderState /\ ~mRunning)
  /\ Goto(IF mRunning THEN "done" ELSE "test")
  /\ UNCHANGED <<askVars, mainVars, status, mRunning, mSocketEnable, mChildPID, cfg, ready,
                 socketVars, childVars>>

-----------------------------------------------------------------------------
(*                     The decoder processes                               *)

(* The switch of run(): exec the decoder, or, when there is none, fall     *)
(* through to the end of run() and of the process.                         *)
Exec(c) ==
  /\ Up /\ children[c].state = "forked"
  /\ ChildBecomes(c, IF children[c].decoder \in Known THEN "running" ELSE "dead")
  /\ UNCHANGED <<askVars, mainVars, status, thread, mRunning, runVars, ready, socketVars, failures>>

(* The decoder connects to SOCKET_NAME (external).                         *)
Connect(c) ==
  /\ Up /\ children[c].state = "running"
  /\ listening /\ pending = 0
  /\ pending' = c
  /\ ChildBecomes(c, "connected")
  /\ UNCHANGED <<askVars, mainVars, status, thread, mRunning, runVars, ready, listening, conn,
                 failures>>

(* execl fails, or the decoder dies or hangs (external).                   *)
Fail(c) ==
  /\ Up /\ failures < MaxFailures
  /\ failures' = failures + 1
  /\ \/ children[c].state \in Live /\ ChildBecomes(c, "dead")
     \/ children[c].state = "connected" /\ ChildBecomes(c, "hung")
  /\ UNCHANGED <<askVars, mainVars, status, thread, mRunning, runVars, ready, socketVars>>

-----------------------------------------------------------------------------
Main ==
  Watch \/ Compare \/ Note \/ Stop \/ Kill \/ CloseConnection \/ Join \/ Start \/ Exit
Run ==
  \/ Begin \/ SetState \/ InitSocket \/ Fork \/ StorePID \/ Configure \/ ReadTables
  \/ Test \/ Select \/ Accept \/ Poll \/ Check \/ Send \/ SendFails
Child(c) == Exec(c) \/ Connect(c)

(* The process is gone.                                                    *)
Gone == ~Up /\ UNCHANGED vars

Next ==
  \/ Ask \/ Produce \/ Main \/ Interrupt \/ Run \/ Gone
  \/ \E c \in DOMAIN children : Child(c) \/ Fail(c)

Spec == Init /\ [][Next]_vars

(* Every thread is scheduled, the device delivers, and a decoder that does *)
(* not fail gets to connect.  Nobody has to ask, to signal or to fail.     *)
FairSpec ==
  /\ Spec
  /\ WF_vars(Main) /\ WF_vars(Run) /\ WF_vars(Produce)
  /\ \A c \in 1 .. MaxStarts : WF_vars(c \in DOMAIN children /\ Child(c))

-----------------------------------------------------------------------------
Process == [decoder : Int, state : Live \cup {"dead", "reaped"}]

TypeOK ==
  /\ request \in Int
  /\ asked \in 0 .. Len(Requests)
  /\ at \in {"sleep", "compare", "note", "stop", "kill", "close", "join", "start", "exit"}
  /\ current_dec \in Int
  /\ finishing \in BOOLEAN
  /\ interrupted \in BOOLEAN
  /\ hurried \in BOOLEAN
  /\ status \in {"up", "exited", "killed", "terminated", "crashed"}
  /\ thread \in Starting \cup {"config", "rates", "test", "select", "accept", "poll", "check",
                             "send", "blocked", "done", "none"}
  /\ mRunning \in BOOLEAN
  /\ mDecoderState \in BOOLEAN
  /\ mSocketEnable \in BOOLEAN
  /\ children \in Seq(Process)
  /\ mChildPID \in 0 .. Len(children)
  /\ cfg \in Int
  /\ ready \in BOOLEAN
  /\ listening \in BOOLEAN
  /\ pending \in 0 .. Len(children)
  /\ conn \in 0 .. Len(children)
  /\ failures \in 0 .. MaxFailures

(* A restart never overwrites the thread it has not waited for, which      *)
(* would end the process: stop() skips the join only when the flag is      *)
(* clear, and main() goes on to restart only after it has seen the flag    *)
(* set, even when run() has ended by itself.                               *)
RestartJoins == status # "terminated"

(* run() has started by the time the watcher looks again, a second later;  *)
(* what follows holds while it does.  IQStream stops its decoder before it *)
(* starts another: when a decoder is forked, every earlier one is dead and *)
(* has been waited for.                                                    *)
OneDecoder ==
  hurried \/ \A c \in 1 .. Len(children) - 1 : children[c].state = "reaped"

(* es_sensor exits with a decoder left behind, or kills its own process    *)
(* group, only if a signal interrupted it.                                 *)
OrphanNeedsSignal ==
  hurried \/ interrupted \/
    /\ status = "exited" => \A c \in DOMAIN children : children[c].state = "reaped"
    /\ status # "killed"

(* The client has never asked for a decoder it had asked for before.       *)
Asked(i) == IF i = 0 THEN NoDecoder ELSE Requests[i]
AllDifferent == \A i, j \in 0 .. asked : Asked(i) = Asked(j) => i = j

(* A decoder is sent segments in a format that is not its own only while   *)
(* main() has yet to see a change of the request, or is stopping IQStream. *)
MismatchIsTransient ==
  [][(Send /\ AllDifferent) =>
       (Suits(children[conn].decoder) \/ request # current_dec \/ at = "stop"
          \/ ~mRunning \/ hurried)]_vars

(* Liveness.  stop() returns: it kills the decoder before it waits for the *)
(* thread that may be writing to it.                                       *)
StopReturns == (at = "kill") ~> (at \notin {"kill", "close", "join"} \/ ~Up \/ hurried)

Newest == Len(children)

(* The decoder asked for is connected, and sent what it needs.             *)
Serving ==
  /\ conn # 0 /\ conn = Newest
  /\ children[conn].decoder = request
  /\ Suits(request)

FailedEarly == Newest # 0 /\ ~mSocketEnable /\ children[Newest].state = "dead"

(* When the client stops asking, and has not asked for any decoder twice,  *)
(* the last one is served for good, unless es_sensor stops or the decoder  *)
(* failed before it was accepted.                                          *)
Converges ==
  <>[](request \in Known /\ AllDifferent) =>
    <>[](~Up \/ finishing \/ hurried \/ FailedEarly \/ Serving)

(* A decoder that dies after it was accepted is replaced.                  *)
AcceptedReplaced ==
  \A c \in 1 .. MaxStarts :
    (conn = c /\ children[c].state = "dead")
       ~> (~Up \/ finishing \/ (mChildPID > c /\ conn # c) \/ request = StopRequest)

(* The client asks es_sensor to stop with decoder -1.                      *)
StopRequestEnds == <>[](request = StopRequest) => <>(~Up \/ hurried)

-----------------------------------------------------------------------------
(*         What a comment says of the code, and the code does not do       *)

(* main.cpp:479 "Restart IQStream and decoder if 1) decoder changes": the  *)
(* decoder in the end is the one last asked for.                           *)
DecoderFollows ==
  <>[](request \in Known) =>
    <>[](~Up \/ finishing \/ hurried \/ (Newest # 0 => children[Newest].decoder = request))

=============================================================================
