------------------------- MODULE ReaderWriterQueue -------------------------
(***************************************************************************)
(* misc/readerwriterqueue.h, the queue between the threads of es_sensor: a *)
(* ring of blocks, each a circular buffer with its own front and tail, one *)
(* producer and one consumer and no lock.  One step is at most one access  *)
(* to a variable that the other thread writes; the accesses are taken to   *)
(* be sequentially consistent, which is what the fences are there for.     *)
(*                                                                         *)
(* The producer calls enqueue(), the consumer try_dequeue() and            *)
(* size_approx(): the three operations the components use.                 *)
(***************************************************************************)
EXTENDS Integers, Sequences, FiniteSets, Functions

CONSTANTS
  InitialSize,   \* slots of the first block: ceilToPow2(maxSize + 1)
  MAX_BLOCK_SIZE,
  MaxItems       \* items enqueued (BOUND)

ASSUME SizeAssumption ==
  /\ InitialSize \in {2, 4, 8, 16, 32, 64, 128, 256, 512, 1024}
  /\ MAX_BLOCK_SIZE \in {2, 4, 8, 16, 32, 64, 128, 256, 512, 1024}
  /\ MaxItems \in Nat

VARIABLES
  blocks,      \* the blocks in the order of their allocation
  frontBlock,  \* where the consumer takes from
  tailBlock,   \* where the producer puts
  largestBlockSize,
  sent,        \* items enqueued
  taken,       \* items dequeued, in order
  producer,    \* where enqueue() is
  consumer,    \* where try_dequeue() or size_approx() is
  got,         \* the element try_dequeue() has read
  visiting,    \* the block size_approx() looks at
  seen,        \* size_approx() has counted something
  mark         \* sent when the call of the consumer began

producerVars == <<tailBlock, largestBlockSize, sent, producer>>
consumerVars == <<frontBlock, taken, consumer, got, visiting, seen, mark>>
vars == <<blocks, producerVars, consumerVars>>

front(b) == blocks[b].front
tail(b) == blocks[b].tail
next(b) == blocks[b].next

After(b, slot) == (slot + 1) % blocks[b].size    \* & sizeMask

EmptyBlock(size) ==
  [front |-> 0, tail |-> 0, localFront |-> 0, localTail |-> 0, next |-> 1, size |-> size,
   data |-> [slot \in 0 .. size - 1 |-> 0]]

Item == sent + 1  \* the one being enqueued

ProducerGoes(to) == producer' = to
ConsumerGoes(to) == consumer' = to

-----------------------------------------------------------------------------
(* Faults: what some of the definitions below would be if the code had a   *)
(* plausible mistake in it.  No specification uses them.                   *)

(* tail == front is taken for room: the spare slot is forgotten.           *)
FaultNoSpareSlot ==
  /\ producer = "idle" /\ sent < MaxItems
  /\ ProducerGoes("put")
  /\ UNCHANGED <<blocks, tailBlock, largestBlockSize, sent, consumerVars>>

(* enqueue() goes on to the next block without looking where the consumer is. *)
FaultAdvanceAlways ==
  /\ producer = "full"
  /\ ProducerGoes("advance")
  /\ UNCHANGED <<blocks, tailBlock, largestBlockSize, sent, consumerVars>>

(* tailBlock is not looked at: an empty front block is an empty queue.     *)
FaultOneBlock ==
  /\ consumer = "other"
  /\ ConsumerGoes("empty")
  /\ UNCHANGED <<blocks, producerVars, frontBlock, taken, got, visiting, seen, mark>>

(* The front block is not looked at again once tailBlock has been read.    *)
FaultNoSecondLook ==
  /\ consumer = "other"
  /\ ConsumerGoes(IF frontBlock = tailBlock THEN "empty" ELSE "hop")
  /\ UNCHANGED <<blocks, producerVars, frontBlock, taken, got, visiting, seen, mark>>

-----------------------------------------------------------------------------
Init ==
  /\ blocks = <<EmptyBlock(InitialSize)>>
  /\ frontBlock = 1
  /\ tailBlock = 1
  /\ largestBlockSize = InitialSize
  /\ sent = 0
  /\ taken = <<>>
  /\ producer = "idle"
  /\ consumer = "idle"
  /\ got = 0
  /\ visiting = 1
  /\ seen = FALSE
  /\ mark = 0

-----------------------------------------------------------------------------
(*                              enqueue()                                  *)

(* Is there room in the tail block?  front is read only if the producer's  *)
(* own copy of it says no.                                                 *)
FindRoom ==
  /\ producer = "idle" /\ sent < MaxItems
  /\ LET b == tailBlock
         full(f) == After(b, tail(b)) = f
     IN IF ~full(blocks[b].localFront)
        THEN ProducerGoes("put") /\ UNCHANGED blocks
        ELSE /\ blocks' = [blocks EXCEPT ![b].localFront = front(b)]
             /\ ProducerGoes(IF full(front(b)) THEN "full" ELSE "put")
  /\ UNCHANGED <<tailBlock, largestBlockSize, sent, consumerVars>>

Put ==
  /\ producer = "put"
  /\ blocks' = [blocks EXCEPT ![tailBlock].data[tail(tailBlock)] = Item]
  /\ ProducerGoes("publish")
  /\ UNCHANGED <<tailBlock, largestBlockSize, sent, consumerVars>>

Publish ==
  /\ producer = "publish"
  /\ blocks' = [blocks EXCEPT ![tailBlock].tail = After(tailBlock, @)]
  /\ sent' = Item
  /\ ProducerGoes("idle")
  /\ UNCHANGED <<tailBlock, largestBlockSize, consumerVars>>

(* The tail block is full.  The next one may be used unless the consumer   *)
(* is in it.                                                               *)
NextBlock ==
  /\ producer = "full"
  /\ ProducerGoes(IF next(tailBlock) # frontBlock THEN "advance" ELSE "alloc")
  /\ UNCHANGED <<blocks, tailBlock, largestBlockSize, sent, consumerVars>>

PutAhead ==
  /\ producer = "advance"
  /\ LET b == next(tailBlock)
     IN blocks' = [blocks EXCEPT ![b].localFront = front(b), ![b].data[tail(b)] = Item]
  /\ ProducerGoes("ahead")
  /\ UNCHANGED <<tailBlock, largestBlockSize, sent, consumerVars>>

PublishAhead ==
  /\ producer = "ahead"
  /\ LET b == next(tailBlock) IN blocks' = [blocks EXCEPT ![b].tail = After(b, @)]
  /\ ProducerGoes("linked")
  /\ UNCHANGED <<tailBlock, largestBlockSize, sent, consumerVars>>

(* make_block(), with the element in it and its next already set ...       *)
Allocate ==
  /\ producer = "alloc"
  /\ largestBlockSize' =
       IF largestBlockSize >= MAX_BLOCK_SIZE THEN largestBlockSize ELSE 2 * largestBlockSize
  /\ blocks' = Append(blocks, [EmptyBlock(largestBlockSize') EXCEPT
                                 !.data[0] = Item, !.tail = 1, !.localTail = 1,
                                 !.next = next(tailBlock)])
  /\ ProducerGoes("link")
  /\ UNCHANGED <<tailBlock, sent, consumerVars>>

(* ... linked into the ring ...                                            *)
Link ==
  /\ producer = "link"
  /\ blocks' = [blocks EXCEPT ![tailBlock].next = Len(blocks)]
  /\ ProducerGoes("linked")
  /\ UNCHANGED <<tailBlock, largestBlockSize, sent, consumerVars>>

(* ... and made the tail block, as one that was free is.                   *)
AdvanceTail ==
  /\ producer = "linked"
  /\ tailBlock' = next(tailBlock)
  /\ sent' = Item
  /\ ProducerGoes("idle")
  /\ UNCHANGED <<blocks, largestBlockSize, consumerVars>>

-----------------------------------------------------------------------------
(*                            try_dequeue()                                *)

LookAt(b, empty) ==
  /\ blocks' = [blocks EXCEPT ![b].localTail = tail(b)]
  /\ ConsumerGoes(IF front(b) # tail(b) THEN "take" ELSE empty)

(* tail is read only if the consumer's own copy of it says "empty".        *)
LookInFront ==
  /\ consumer = "idle"
  /\ mark' = sent
  /\ IF front(frontBlock) # blocks[frontBlock].localTail
     THEN ConsumerGoes("take") /\ UNCHANGED blocks
     ELSE LookAt(frontBlock, "other")
  /\ UNCHANGED <<producerVars, frontBlock, taken, got, visiting, seen>>

(* Is there another block?  If not, the queue is empty.                    *)
OtherBlock ==
  /\ consumer = "other"
  /\ ConsumerGoes(IF frontBlock = tailBlock THEN "empty" ELSE "again")
  /\ UNCHANGED <<blocks, producerVars, frontBlock, taken, got, visiting, seen, mark>>

LookAgain ==
  /\ consumer = "again"
  /\ LookAt(frontBlock, "hop")
  /\ UNCHANGED <<producerVars, frontBlock, taken, got, visiting, seen, mark>>

(* Look into the next block, then leave the front block to the producer.   *)
LookAhead ==
  /\ consumer = "hop"
  /\ LET b == next(frontBlock) IN blocks' = [blocks EXCEPT ![b].localTail = tail(b)]
  /\ ConsumerGoes("leave")
  /\ UNCHANGED <<producerVars, frontBlock, taken, got, visiting, seen, mark>>

LeaveFront ==
  /\ consumer = "leave"
  /\ frontBlock' = next(frontBlock)
  /\ ConsumerGoes("take")
  /\ UNCHANGED <<blocks, producerVars, taken, got, visiting, seen, mark>>

Take ==
  /\ consumer = "take"
  /\ got' = blocks[frontBlock].data[front(frontBlock)]
  /\ ConsumerGoes("release")
  /\ UNCHANGED <<blocks, producerVars, frontBlock, taken, visiting, seen, mark>>

Release ==
  /\ consumer = "release"
  /\ blocks' = [blocks EXCEPT ![frontBlock].front = After(frontBlock, @)]
  /\ taken' = Append(taken, got)
  /\ ConsumerGoes("idle")
  /\ UNCHANGED <<producerVars, frontBlock, got, visiting, seen, mark>>

(* try_dequeue() has returned false, or size_approx() its sum.             *)
Return ==
  /\ consumer \in {"empty", "sized"}
  /\ ConsumerGoes("idle")
  /\ UNCHANGED <<blocks, producerVars, frontBlock, taken, got, visiting, seen, mark>>

-----------------------------------------------------------------------------
(*                            size_approx()                                *)

Size ==
  /\ consumer = "idle"
  /\ mark' = sent
  /\ visiting' = frontBlock
  /\ seen' = FALSE
  /\ ConsumerGoes("size")
  /\ UNCHANGED <<blocks, producerVars, frontBlock, taken, got>>

(* Round the ring once, reading a block's front and tail, then its next.   *)
Visit ==
  /\ consumer = "size"
  /\ seen' = (seen \/ front(visiting) # tail(visiting))
  /\ ConsumerGoes("onwards")
  /\ UNCHANGED <<blocks, producerVars, frontBlock, taken, got, visiting, mark>>

Onwards ==
  /\ consumer = "onwards"
  /\ visiting' = next(visiting)
  /\ ConsumerGoes(IF visiting' = frontBlock THEN "sized" ELSE "size")
  /\ UNCHANGED <<blocks, producerVars, frontBlock, taken, got, seen, mark>>

-----------------------------------------------------------------------------
Producer ==
  \/ FindRoom \/ Put \/ Publish \/ NextBlock \/ PutAhead \/ PublishAhead
  \/ Allocate \/ Link \/ AdvanceTail

TryDequeue ==
  LookInFront \/ OtherBlock \/ LookAgain \/ LookAhead \/ LeaveFront \/ Take \/ Release \/ Return
SizeApprox == Size \/ Visit \/ Onwards

Next == Producer \/ TryDequeue \/ SizeApprox

Spec == Init /\ [][Next]_vars

(* Both threads are scheduled, and the consumer keeps calling try_dequeue. *)
FairSpec ==
  /\ Spec /\ WF_vars(Producer) /\ WF_vars(TryDequeue \/ Visit \/ Onwards) /\ SF_vars(LookInFront)

-----------------------------------------------------------------------------
TypeOK ==
  /\ \A b \in DOMAIN blocks :
       LET size == blocks[b].size
       IN /\ size \in 1 .. largestBlockSize
          /\ {front(b), tail(b), blocks[b].localFront, blocks[b].localTail} \subseteq 0 .. size - 1
          /\ next(b) \in DOMAIN blocks
          /\ blocks[b].data \in [0 .. size - 1 -> 0 .. MaxItems]
  /\ {frontBlock, tailBlock, visiting} \subseteq DOMAIN blocks
  /\ sent \in 0 .. MaxItems
  /\ mark \in 0 .. sent
  /\ got \in 0 .. MaxItems
  /\ seen \in BOOLEAN

(* Where the consumer finds the next item: in the block it is in or, past  *)
(* the last one there, in the next block.                                  *)
At(b, slot) == IF slot # tail(b) THEN <<b, slot>> ELSE <<next(b), front(next(b))>>

Left == sent - Len(taken)

(* The places of the items it has yet to take, were the producer to stop.  *)
place[k \in 1 .. Left] ==
  IF k = 1 THEN At(frontBlock, front(frontBlock))
  ELSE At(place[k - 1][1], After(place[k - 1][1], place[k - 1][2]))

Contents == [k \in 1 .. Left |-> blocks[place[k][1]].data[place[k][2]]]

(* The blocks implement a queue: what lies in them, from the consumer on,  *)
(* is what was enqueued and not dequeued, in order.                        *)
Promise == INSTANCE Fifo WITH queue <- Contents
IsFifo == Promise!Spec

(* try_dequeue() returns false, and size_approx() zero, only if all that   *)
(* was enqueued before the call began has been dequeued: a loop that stops *)
(* on a size of zero after its producer has ended leaves nothing behind.   *)
NothingMissed ==
  (consumer = "empty" \/ (consumer = "sized" /\ ~seen)) => Len(taken) >= mark

(* The assertions of the header: the block after a full tail block is      *)
(* empty, and the block after an empty front block is not.                 *)
AssertionsHold ==
  /\ producer = "advance" => front(next(tailBlock)) = tail(next(tailBlock))
  /\ consumer \in {"hop", "leave"} => front(next(frontBlock)) # tail(next(frontBlock))

(* A slot is never written while the consumer may be reading it.           *)
NoTornRead ==
  consumer = "take" =>
    /\ producer = "put" => <<tailBlock, tail(tailBlock)>> # <<frontBlock, front(frontBlock)>>
    /\ producer = "advance" => next(tailBlock) # frontBlock

(* Liveness.  What is enqueued is dequeued.                                *)
AllTaken == \A n \in 1 .. MaxItems : (sent >= n) ~> (Len(taken) >= n)

=============================================================================
