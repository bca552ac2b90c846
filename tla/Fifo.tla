-------------------------------- MODULE Fifo --------------------------------
(***************************************************************************)
(* What the queue between two components promises: the items come out in   *)
(* the order they went in, each once.  Items are numbered as they go in.   *)
(***************************************************************************)
EXTENDS Integers, Sequences

CONSTANT MaxItems  \* items enqueued (BOUND)

VARIABLES
  queue,  \* what is in it
  taken   \* what has been dequeued, in order

vars == <<queue, taken>>

Init == queue = <<>> /\ taken = <<>>

Entered == Len(taken) + Len(queue)

Enqueue ==
  /\ Entered < MaxItems
  /\ queue' = Append(queue, Entered + 1)
  /\ UNCHANGED taken

Dequeue ==
  /\ queue # <<>>
  /\ taken' = Append(taken, Head(queue))
  /\ queue' = Tail(queue)

Next == Enqueue \/ Dequeue

Spec == Init /\ [][Next]_vars
=============================================================================
