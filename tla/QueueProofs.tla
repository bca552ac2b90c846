---------------------------- MODULE QueueProofs -----------------------------
(* The ring of blocks of ReaderWriterQueue: what the two threads may rely  *)
(* on, for any sizes of blocks and any number of them.                     *)
EXTENDS ReaderWriterQueue, SequenceTheorems, WellFoundedInduction, TLAPS

Items == 0 .. MaxItems

(* How far y is ahead of x in a ring of size slots.                        *)
Dist(size, x, y) == IF x <= y THEN y - x ELSE y - x + size

Step(size, x) == IF x + 1 = size THEN 0 ELSE x + 1

(* The indices of a block lie in the order localFront, front, localTail,   *)
(* tail around its ring: each thread's copy of the other's index is old,   *)
(* never wrong.                                                            *)
Ordered(size, localFront, front_, localTail, tail_) ==
  /\ Dist(size, localFront, front_) + Dist(size, front_, tail_) = Dist(size, localFront, tail_)
  /\ Dist(size, front_, localTail) + Dist(size, localTail, tail_) = Dist(size, front_, tail_)

(* What the two threads may do to one block's indices.                     *)
LEMMA Indices ==
  ASSUME NEW size \in Nat, size >= 2,
         NEW lf \in 0 .. size - 1, NEW f \in 0 .. size - 1,
         NEW lt \in 0 .. size - 1, NEW t \in 0 .. size - 1,
         Ordered(size, lf, f, lt, t)
  PROVE  /\ Ordered(size, f, f, lt, t)
         /\ Ordered(size, lf, f, t, t)
         /\ Step(size, t) # lf => f # Step(size, t) /\ Ordered(size, lf, f, lt, Step(size, t))
         /\ f # lt => f # t /\ Ordered(size, lf, Step(size, f), lt, t)
         /\ Step(size, t) \in 0 .. size - 1 /\ Step(size, t) # t
         /\ Step(size, f) \in 0 .. size - 1
BY Z3 DEF Ordered, Dist, Step

LEMMA StepIsMod ==
  ASSUME NEW size \in Nat, size >= 2, NEW x \in 0 .. size - 1
  PROVE  (x + 1) % size = Step(size, x)
BY Z3 DEF Step

Block == [front : Nat, tail : Nat, localFront : Nat, localTail : Nat, next : Nat, size : Nat,
          data : UNION {[0 .. s - 1 -> Items] : s \in Nat}]

Good(r) ==
  /\ r \in Block /\ r.size >= 2 /\ r.data \in [0 .. r.size - 1 -> Items]
  /\ r.front \in 0 .. r.size - 1 /\ r.tail \in 0 .. r.size - 1
  /\ r.localFront \in 0 .. r.size - 1 /\ r.localTail \in 0 .. r.size - 1
  /\ Ordered(r.size, r.localFront, r.front, r.localTail, r.tail)

LEMMA GoodLocalFront ==
  ASSUME NEW r, Good(r)
  PROVE  Good([r EXCEPT !.localFront = r.front])
<1> DEFINE q == [r EXCEPT !.localFront = r.front]
<1>1. /\ q \in Block /\ q.size = r.size /\ q.data = r.data /\ q.front = r.front /\ q.tail = r.tail
      /\ q.localFront = r.front /\ q.localTail = r.localTail
  BY DEF Good, Block
<1>2. r.size \in Nat
  BY DEF Good, Block
<1>3. Ordered(r.size, r.front, r.front, r.localTail, r.tail)
  BY <1>2, Indices DEF Good
<1> QED
  BY <1>1, <1>3 DEF Good

LEMMA GoodLocalTail ==
  ASSUME NEW r, Good(r)
  PROVE  Good([r EXCEPT !.localTail = r.tail])
<1> DEFINE q == [r EXCEPT !.localTail = r.tail]
<1>1. /\ q \in Block /\ q.size = r.size /\ q.data = r.data /\ q.front = r.front /\ q.tail = r.tail
      /\ q.localFront = r.localFront /\ q.localTail = r.tail
  BY DEF Good, Block
<1>2. r.size \in Nat
  BY DEF Good, Block
<1>3. Ordered(r.size, r.localFront, r.front, r.tail, r.tail)
  BY <1>2, Indices DEF Good
<1> QED
  BY <1>1, <1>3 DEF Good

LEMMA GoodNext ==
  ASSUME NEW r, Good(r), NEW n \in Nat
  PROVE  Good([r EXCEPT !.next = n])
<1> DEFINE q == [r EXCEPT !.next = n]
<1>1. /\ q \in Block /\ q.size = r.size /\ q.data = r.data /\ q.front = r.front /\ q.tail = r.tail
      /\ q.localFront = r.localFront /\ q.localTail = r.localTail
  BY DEF Good, Block
<1> QED
  BY <1>1 DEF Good

LEMMA GoodData ==
  ASSUME NEW r, Good(r), NEW item \in Items, NEW slot \in 0 .. r.size - 1
  PROVE  Good([r EXCEPT !.data = [r.data EXCEPT ![slot] = item]])
<1> DEFINE d == [r.data EXCEPT ![slot] = item]
           q == [r EXCEPT !.data = d]
<1>1. d \in [0 .. r.size - 1 -> Items]
  BY DEF Good
<1>2. r.size \in Nat
  BY DEF Good, Block
<1> HIDE DEF d
<1>3. d \in UNION {[0 .. s - 1 -> Items] : s \in Nat}
  BY <1>1, <1>2
<1>4. /\ q \in Block /\ q.size = r.size /\ q.data = d /\ q.front = r.front /\ q.tail = r.tail
      /\ q.localFront = r.localFront /\ q.localTail = r.localTail
  BY <1>3 DEF Good, Block
<1>5. Good(q)
  BY <1>1, <1>4 DEF Good
<1> QED
  BY <1>5 DEF d

(* With room for one more, the tail may advance.                           *)
LEMMA GoodPublish ==
  ASSUME NEW r, Good(r), (r.tail + 1) % r.size # r.localFront
  PROVE  /\ Good([r EXCEPT !.tail = (r.tail + 1) % r.size])
         /\ r.front # (r.tail + 1) % r.size
<1> DEFINE t == Step(r.size, r.tail)
           q == [r EXCEPT !.tail = t]
<1>1. r.size \in Nat /\ r.size >= 2 /\ r.tail \in 0 .. r.size - 1
  BY DEF Good, Block
<1>2. (r.tail + 1) % r.size = t
  BY <1>1, StepIsMod
<1>3. /\ r.front # t /\ t \in 0 .. r.size - 1
      /\ Ordered(r.size, r.localFront, r.front, r.localTail, t)
  BY <1>1, <1>2, Indices DEF Good
<1> HIDE DEF t
<1>. t \in Nat
  BY <1>1, <1>3
<1>4. /\ q \in Block /\ q.size = r.size /\ q.data = r.data /\ q.front = r.front /\ q.tail = t
      /\ q.localFront = r.localFront /\ q.localTail = r.localTail
  BY <1>1, <1>3 DEF Good, Block
<1>5. Good(q)
  BY <1>3, <1>4 DEF Good
<1> QED
  BY <1>2, <1>3, <1>5

(* With something to take, the front may advance.                          *)
LEMMA GoodRelease ==
  ASSUME NEW r, Good(r), r.front # r.localTail
  PROVE  Good([r EXCEPT !.front = (r.front + 1) % r.size])
<1> DEFINE f == Step(r.size, r.front)
           q == [r EXCEPT !.front = f]
<1>1. r.size \in Nat /\ r.size >= 2 /\ r.front \in 0 .. r.size - 1
  BY DEF Good, Block
<1>2. (r.front + 1) % r.size = f
  BY <1>1, StepIsMod
<1>3. /\ f \in 0 .. r.size - 1
      /\ Ordered(r.size, r.localFront, f, r.localTail, r.tail)
  BY <1>1, Indices DEF Good
<1> HIDE DEF f
<1>. f \in Nat
  BY <1>1, <1>3
<1>4. /\ q \in Block /\ q.size = r.size /\ q.data = r.data /\ q.front = f /\ q.tail = r.tail
      /\ q.localFront = r.localFront /\ q.localTail = r.localTail
  BY <1>1, <1>3 DEF Good, Block
<1>5. Good(q)
  BY <1>3, <1>4 DEF Good
<1> QED
  BY <1>2, <1>5

(* What the consumer's own copy of the tail shows is there.                *)
LEMMA GoodSeen ==
  ASSUME NEW r, Good(r), r.front # r.localTail
  PROVE  r.front # r.tail
<1>1. r.size \in Nat
  BY DEF Good, Block
<1>2. Dist(r.size, r.front, r.localTail) + Dist(r.size, r.localTail, r.tail) = Dist(r.size, r.front, r.tail)
  BY DEF Good, Ordered
<1> QED
  BY <1>1, <1>2 DEF Good, Dist

(* A new block, empty or with an item in its first slot.                   *)
LEMMA GoodFields ==
  ASSUME NEW size \in Nat, size >= 2, NEW d \in [0 .. size - 1 -> Items], NEW n \in Nat,
         NEW t \in {0, 1}
  PROVE  Good([front |-> 0, tail |-> t, localFront |-> 0, localTail |-> t, next |-> n,
               size |-> size, data |-> d])
<1>1. d \in UNION {[0 .. s - 1 -> Items] : s \in Nat}
  OBVIOUS
<1> DEFINE q == [front |-> 0, tail |-> t, localFront |-> 0, localTail |-> t, next |-> n,
                 size |-> size, data |-> d]
<1>2. q \in Block
  BY <1>1 DEF Block
<1>3. Ordered(size, 0, 0, t, t)
  BY DEF Ordered, Dist
<1> QED
  BY <1>2, <1>3 DEF Good

LEMMA GoodEmpty ==
  ASSUME NEW size \in Nat, size >= 2
  PROVE  Good(EmptyBlock(size)) /\ EmptyBlock(size).size = size
<1>1. [slot \in 0 .. size - 1 |-> 0] \in [0 .. size - 1 -> Items]
  BY SizeAssumption DEF Items
<1> QED
  BY <1>1, GoodFields DEF EmptyBlock

FirstItem(size, item, n) ==
  [EmptyBlock(size) EXCEPT !.data[0] = item, !.tail = 1, !.localTail = 1, !.next = n]

LEMMA GoodNew ==
  ASSUME NEW size \in Nat, size >= 2, NEW item \in Items, NEW n \in Nat
  PROVE  LET r == FirstItem(size, item, n)
         IN  Good(r) /\ r.size = size /\ r.front = 0 /\ r.tail = 1 /\ r.next = n
             /\ r.data[0] = item
<1> DEFINE e == EmptyBlock(size)
           d == [e.data EXCEPT ![0] = item]
           r == [e EXCEPT !.data[0] = item, !.tail = 1, !.localTail = 1, !.next = n]
<1>1. Good(e) /\ e.size = size /\ e.front = 0 /\ e.localFront = 0
  BY GoodEmpty DEF EmptyBlock
<1>10. d[0] = item
  BY <1>1 DEF Good
<1> HIDE DEF e
<1>2. d \in [0 .. size - 1 -> Items]
  BY <1>1 DEF Good
<1>3. /\ r.data = d /\ r.front = 0 /\ r.localFront = 0 /\ r.size = size
      /\ r.tail = 1 /\ r.localTail = 1 /\ r.next = n
  BY <1>1 DEF Good, Block
<1>4. r = [[[[e EXCEPT !.data = d] EXCEPT !.tail = 1] EXCEPT !.localTail = 1] EXCEPT !.next = n]
  BY <1>1 DEF Good, Block
<1>5. d \in UNION {[0 .. s - 1 -> Items] : s \in Nat}
  BY <1>2
<1> HIDE DEF d
<1>6. [e EXCEPT !.data = d] \in Block
  BY <1>1, <1>5 DEF Good, Block
<1>7. r \in Block
  BY <1>4, <1>6 DEF Block
<1>8. Ordered(size, 0, 0, 1, 1)
  BY DEF Ordered, Dist
<1> HIDE DEF r
<1>9. Good(r)
  BY <1>2, <1>3, <1>7, <1>8 DEF Good
<1> QED
  BY <1>3, <1>9, <1>10 DEF e, r, d, FirstItem

-----------------------------------------------------------------------------
(*                         The inductive invariant                         *)

(* The blocks that are part of the ring: all but one not yet linked.       *)
Linked == IF producer = "link" THEN 1 .. Len(blocks) - 1 ELSE 1 .. Len(blocks)

Empty(b) == front(b) = tail(b)

Room(b) == After(b, tail(b)) # blocks[b].localFront

BlocksOK ==
  /\ blocks \in Seq(Block)
  /\ largestBlockSize \in Nat /\ largestBlockSize >= 2
  /\ \A b \in DOMAIN blocks :
       Good(blocks[b]) /\ blocks[b].size <= largestBlockSize /\ next(b) \in DOMAIN blocks

ControlOK ==
  /\ producer \in {"idle", "put", "publish", "full", "advance", "ahead", "alloc", "link", "linked"}
  /\ consumer \in {"idle", "other", "again", "hop", "leave", "take", "release", "empty",
                   "size", "onwards", "sized"}
  /\ sent \in Items /\ mark \in 0 .. sent /\ got \in Items /\ seen \in BOOLEAN
  /\ producer # "idle" => sent < MaxItems
  /\ visiting \in DOMAIN blocks

(* What the producer has found out stays true until it acts on it ...      *)
ProducerOK ==
  /\ producer \in {"put", "publish"} => Room(tailBlock)
  /\ producer = "ahead" => Room(next(tailBlock))
  /\ producer \in {"advance", "ahead", "linked"} => next(tailBlock) # frontBlock

(* ... and so does what the consumer has.                                  *)
ConsumerOK ==
  /\ consumer \in {"take", "release"} => front(frontBlock) # blocks[frontBlock].localTail
  /\ consumer = "leave" => front(next(frontBlock)) # blocks[next(frontBlock)].localTail
  /\ consumer \in {"again", "hop", "leave"} => frontBlock # tailBlock
  /\ consumer \in {"hop", "leave"} => Empty(frontBlock)

(* The linked blocks form rings, and a new block waits to be put behind    *)
(* the tail block.                                                         *)
Shape ==
  /\ frontBlock \in Linked /\ tailBlock \in Linked
  /\ \A b \in Linked : next(b) \in Linked
  /\ \A b, c \in Linked : next(b) = next(c) => b = c
  /\ producer = "link" =>
       next(Len(blocks)) = next(tailBlock) /\ ~Empty(Len(blocks)) /\ Len(blocks) \in DOMAIN blocks

(* V are the blocks from the front block to the tail block.  All of them   *)
(* but the front block hold items, the others hold none, except the one    *)
(* that the producer has filled and is about to make its tail block.       *)
InUse(V) ==
  /\ V \subseteq Linked /\ frontBlock \in V /\ tailBlock \in V
  /\ \A b \in V \ {tailBlock} : next(b) \in V \ {frontBlock}
  /\ \A b \in V \ {frontBlock} : \E p \in V \ {tailBlock} : next(p) = b
  /\ \A b \in V \ {frontBlock} : ~Empty(b)
  /\ \A b \in Linked \ V : Empty(b) <=> ~(producer = "linked" /\ b = next(tailBlock))

RingOK == Shape /\ \E V \in SUBSET Linked : InUse(V)

Inv == BlocksOK /\ ControlOK /\ ProducerOK /\ ConsumerOK /\ RingOK

-----------------------------------------------------------------------------
(*                  What each action does to the blocks                    *)

SameLength == DOMAIN blocks' = DOMAIN blocks /\ Len(blocks') = Len(blocks)

SameOutside(b) == \A c \in DOMAIN blocks : c # b => blocks'[c] = blocks[c]

LEMMA Edit ==
  ASSUME BlocksOK, largestBlockSize' = largestBlockSize,
         NEW b \in DOMAIN blocks, NEW r, Good(r), r.size = blocks[b].size, r.next \in DOMAIN blocks,
         blocks' = [blocks EXCEPT ![b] = r]
  PROVE  BlocksOK' /\ SameLength /\ SameOutside(b) /\ blocks'[b] = r
<1>1. blocks \in Seq(Block) /\ r \in Block
  BY DEF BlocksOK, Good
<1>2. b \in 1 .. Len(blocks)
  BY <1>1, LenProperties
<1>3. /\ blocks' \in Seq(Block) /\ Len(blocks') = Len(blocks) /\ blocks'[b] = r
      /\ \A c \in 1 .. Len(blocks) \ {b} : blocks'[c] = blocks[c]
  BY <1>1, <1>2, ExceptSeq
<1>4. DOMAIN blocks' = DOMAIN blocks /\ DOMAIN blocks = 1 .. Len(blocks)
  BY <1>1, <1>3, LenProperties
<1>5. SameLength /\ SameOutside(b)
  BY <1>3, <1>4 DEF SameLength, SameOutside
<1>6. ASSUME NEW c \in DOMAIN blocks
      PROVE  Good(blocks'[c]) /\ blocks'[c].size <= largestBlockSize /\ blocks'[c].next \in DOMAIN blocks
  <2>1. CASE c = b
    BY <1>3, <2>1 DEF BlocksOK
  <2>2. CASE c # b
    BY <1>5, <2>2 DEF SameOutside, BlocksOK, next
  <2> QED
    BY <2>1, <2>2
<1>7. BlocksOK'
  BY <1>3, <1>4, <1>6 DEF BlocksOK, next
<1> QED
  BY <1>3, <1>5, <1>7

LEMMA BlockAt ==
  ASSUME BlocksOK, NEW b \in DOMAIN blocks
  PROVE  /\ Good(blocks[b]) /\ blocks[b] \in Block /\ blocks[b].next \in DOMAIN blocks
         /\ DOMAIN blocks = 1 .. Len(blocks) /\ Len(blocks) \in Nat /\ b \in Nat
         /\ After(b, tail(b)) # tail(b) /\ tail(b) \in 0 .. blocks[b].size - 1
         /\ After(b, tail(b)) = (blocks[b].tail + 1) % blocks[b].size
         /\ After(b, front(b)) = (blocks[b].front + 1) % blocks[b].size
<1>1. Good(blocks[b]) /\ blocks[b] \in Block /\ blocks[b].next \in DOMAIN blocks
  BY DEF BlocksOK, Good, next
<1>2. DOMAIN blocks = 1 .. Len(blocks) /\ Len(blocks) \in Nat
  BY LenProperties DEF BlocksOK
<1>3. /\ blocks[b].size \in Nat /\ blocks[b].size >= 2 /\ blocks[b].tail \in 0 .. blocks[b].size - 1
  BY <1>1 DEF Good, Block
<1>4. /\ After(b, tail(b)) = (blocks[b].tail + 1) % blocks[b].size
      /\ After(b, front(b)) = (blocks[b].front + 1) % blocks[b].size
  BY DEF After, tail, front
<1>5. After(b, tail(b)) = Step(blocks[b].size, blocks[b].tail)
  BY <1>3, <1>4, StepIsMod
<1>6. After(b, tail(b)) # tail(b)
  BY <1>3, <1>5 DEF Step, tail
<1> QED
  BY <1>1, <1>2, <1>3, <1>4, <1>6 DEF tail

(* The five edits of a block's indices and item.                           *)
LEMMA SeeFront ==
  ASSUME BlocksOK, largestBlockSize' = largestBlockSize, NEW b \in DOMAIN blocks,
         blocks' = [blocks EXCEPT ![b].localFront = front(b)]
  PROVE  /\ BlocksOK' /\ SameLength /\ SameOutside(b)
         /\ blocks'[b].localFront = front(b) /\ blocks'[b].localTail = blocks[b].localTail
         /\ blocks'[b].front = front(b) /\ blocks'[b].tail = tail(b) /\ blocks'[b].next = next(b)
         /\ blocks'[b].size = blocks[b].size /\ blocks'[b].data = blocks[b].data
<1> DEFINE r == [blocks[b] EXCEPT !.localFront = blocks[b].front]
<1>1. blocks' = [blocks EXCEPT ![b] = r]
  BY DEF front
<1>2. Good(blocks[b]) /\ blocks[b] \in Block /\ blocks[b].next \in DOMAIN blocks
  BY BlockAt
<1>3. Good(r)
  BY <1>2, GoodLocalFront
<1>4. /\ r.localFront = front(b) /\ r.localTail = blocks[b].localTail /\ r.front = front(b)
      /\ r.tail = tail(b) /\ r.next = next(b) /\ r.size = blocks[b].size
      /\ r.data = blocks[b].data
  BY <1>2 DEF Block, front, tail, next
<1> HIDE DEF r
<1>5. r.next \in DOMAIN blocks
  BY <1>2, <1>4 DEF next
<1>6. BlocksOK' /\ SameLength /\ SameOutside(b) /\ blocks'[b] = r
  BY <1>1, <1>3, <1>4, <1>5, Edit
<1> QED
  BY <1>4, <1>6

LEMMA SeeTail ==
  ASSUME BlocksOK, largestBlockSize' = largestBlockSize, NEW b \in DOMAIN blocks,
         blocks' = [blocks EXCEPT ![b].localTail = tail(b)]
  PROVE  /\ BlocksOK' /\ SameLength /\ SameOutside(b)
         /\ blocks'[b].localFront = blocks[b].localFront /\ blocks'[b].localTail = tail(b)
         /\ blocks'[b].front = front(b) /\ blocks'[b].tail = tail(b) /\ blocks'[b].next = next(b)
         /\ blocks'[b].size = blocks[b].size /\ blocks'[b].data = blocks[b].data
<1> DEFINE r == [blocks[b] EXCEPT !.localTail = blocks[b].tail]
<1>1. blocks' = [blocks EXCEPT ![b] = r]
  BY DEF tail
<1>2. Good(blocks[b]) /\ blocks[b] \in Block /\ blocks[b].next \in DOMAIN blocks
  BY BlockAt
<1>3. Good(r)
  BY <1>2, GoodLocalTail
<1>4. /\ r.localFront = blocks[b].localFront /\ r.localTail = tail(b) /\ r.front = front(b)
      /\ r.tail = tail(b) /\ r.next = next(b) /\ r.size = blocks[b].size
      /\ r.data = blocks[b].data
  BY <1>2 DEF Block, front, tail, next
<1> HIDE DEF r
<1>5. r.next \in DOMAIN blocks
  BY <1>2, <1>4 DEF next
<1>6. BlocksOK' /\ SameLength /\ SameOutside(b) /\ blocks'[b] = r
  BY <1>1, <1>3, <1>4, <1>5, Edit
<1> QED
  BY <1>4, <1>6

LEMMA PutItem ==
  ASSUME BlocksOK, largestBlockSize' = largestBlockSize, NEW b \in DOMAIN blocks, NEW item \in Items,
         blocks' = [blocks EXCEPT ![b].data[tail(b)] = item]
  PROVE  /\ BlocksOK' /\ SameLength /\ SameOutside(b)
         /\ blocks'[b].localFront = blocks[b].localFront /\ blocks'[b].localTail = blocks[b].localTail
         /\ blocks'[b].front = front(b) /\ blocks'[b].tail = tail(b) /\ blocks'[b].next = next(b)
         /\ blocks'[b].size = blocks[b].size
         /\ blocks'[b].data = [blocks[b].data EXCEPT ![tail(b)] = item]
<1> DEFINE r == [blocks[b] EXCEPT !.data = [blocks[b].data EXCEPT ![blocks[b].tail] = item]]
<1>1. blocks' = [blocks EXCEPT ![b] = r]
  BY DEF tail
<1>2. /\ Good(blocks[b]) /\ blocks[b] \in Block /\ blocks[b].next \in DOMAIN blocks
      /\ blocks[b].tail \in 0 .. blocks[b].size - 1
  BY BlockAt DEF tail
<1>3. Good(r)
  BY <1>2, GoodData
<1>4. /\ r.localFront = blocks[b].localFront /\ r.localTail = blocks[b].localTail /\ r.front = front(b)
      /\ r.tail = tail(b) /\ r.next = next(b) /\ r.size = blocks[b].size
      /\ r.data = [blocks[b].data EXCEPT ![tail(b)] = item]
  BY <1>2 DEF Block, front, tail, next
<1> HIDE DEF r
<1>5. r.next \in DOMAIN blocks
  BY <1>2, <1>4 DEF next
<1>6. BlocksOK' /\ SameLength /\ SameOutside(b) /\ blocks'[b] = r
  BY <1>1, <1>3, <1>4, <1>5, Edit
<1> QED
  BY <1>4, <1>6

LEMMA AdvanceTailOf ==
  ASSUME BlocksOK, largestBlockSize' = largestBlockSize, NEW b \in DOMAIN blocks, Room(b),
         blocks' = [blocks EXCEPT ![b].tail = After(b, blocks[b].tail)]
  PROVE  /\ BlocksOK' /\ SameLength /\ SameOutside(b)
         /\ blocks'[b].localFront = blocks[b].localFront /\ blocks'[b].localTail = blocks[b].localTail
         /\ blocks'[b].front = front(b) /\ blocks'[b].tail # front(b) /\ blocks'[b].next = next(b)
         /\ blocks'[b].tail = After(b, tail(b))
         /\ blocks'[b].size = blocks[b].size /\ blocks'[b].data = blocks[b].data
<1> DEFINE t == (blocks[b].tail + 1) % blocks[b].size
           r == [blocks[b] EXCEPT !.tail = t]
<1>1. blocks' = [blocks EXCEPT ![b] = r]
  BY BlockAt DEF tail
<1>2. Good(blocks[b]) /\ blocks[b] \in Block /\ blocks[b].next \in DOMAIN blocks
  BY BlockAt
<1>3. Good(r) /\ blocks[b].front # t
  BY <1>2, BlockAt, GoodPublish DEF Room
<1>7. t = After(b, tail(b))
  BY BlockAt
<1> HIDE DEF t
<1>4. /\ r.localFront = blocks[b].localFront /\ r.localTail = blocks[b].localTail /\ r.front = front(b)
      /\ r.tail # front(b) /\ r.next = next(b) /\ r.size = blocks[b].size
      /\ r.data = blocks[b].data /\ r.tail = t
  BY <1>2, <1>3 DEF Block, front, next
<1> HIDE DEF r
<1>5. r.next \in DOMAIN blocks
  BY <1>2, <1>4 DEF next
<1>6. BlocksOK' /\ SameLength /\ SameOutside(b) /\ blocks'[b] = r
  BY <1>1, <1>3, <1>4, <1>5, Edit
<1> QED
  BY <1>4, <1>6, <1>7

LEMMA AdvanceFrontOf ==
  ASSUME BlocksOK, largestBlockSize' = largestBlockSize, NEW b \in DOMAIN blocks,
         front(b) # blocks[b].localTail,
         blocks' = [blocks EXCEPT ![b].front = After(b, blocks[b].front)]
  PROVE  /\ BlocksOK' /\ SameLength /\ SameOutside(b)
         /\ blocks'[b].localFront = blocks[b].localFront /\ blocks'[b].front = After(b, front(b))
         /\ blocks'[b].tail = tail(b) /\ blocks'[b].next = next(b)
         /\ blocks'[b].size = blocks[b].size /\ blocks'[b].data = blocks[b].data
<1> DEFINE f == (blocks[b].front + 1) % blocks[b].size
           r == [blocks[b] EXCEPT !.front = f]
<1>1. blocks' = [blocks EXCEPT ![b] = r]
  BY BlockAt DEF front
<1>2. Good(blocks[b]) /\ blocks[b] \in Block /\ blocks[b].next \in DOMAIN blocks
  BY BlockAt
<1>3. Good(r)
  BY <1>2, GoodRelease DEF front
<1>7. f = After(b, front(b))
  BY BlockAt
<1> HIDE DEF f
<1>4. /\ r.localFront = blocks[b].localFront
      /\ r.tail = tail(b) /\ r.next = next(b) /\ r.size = blocks[b].size
      /\ r.data = blocks[b].data /\ r.front = f
  BY <1>2, <1>3 DEF Block, tail, next
<1> HIDE DEF r
<1>5. r.next \in DOMAIN blocks
  BY <1>2, <1>4 DEF next
<1>6. BlocksOK' /\ SameLength /\ SameOutside(b) /\ blocks'[b] = r
  BY <1>1, <1>3, <1>4, <1>5, Edit
<1> QED
  BY <1>4, <1>6, <1>7

LEMMA PutItemAhead ==
  ASSUME BlocksOK, largestBlockSize' = largestBlockSize, NEW b \in DOMAIN blocks, NEW item \in Items,
         blocks' = [blocks EXCEPT ![b].localFront = front(b), ![b].data[tail(b)] = item]
  PROVE  /\ BlocksOK' /\ SameLength /\ SameOutside(b)
         /\ blocks'[b].localFront = front(b) /\ blocks'[b].localTail = blocks[b].localTail
         /\ blocks'[b].front = front(b) /\ blocks'[b].tail = tail(b) /\ blocks'[b].next = next(b)
         /\ blocks'[b].size = blocks[b].size
         /\ blocks'[b].data = [blocks[b].data EXCEPT ![tail(b)] = item]
<1> DEFINE q == [blocks[b] EXCEPT !.localFront = blocks[b].front]
           r == [q EXCEPT !.data = [q.data EXCEPT ![blocks[b].tail] = item]]
<1>1. /\ Good(blocks[b]) /\ blocks[b] \in Block /\ blocks[b].next \in DOMAIN blocks
      /\ blocks[b].tail \in 0 .. blocks[b].size - 1
  BY BlockAt DEF tail
<1>2. q.data = blocks[b].data /\ q.size = blocks[b].size /\ q \in Block
  BY <1>1 DEF Block, Good
<1>3. blocks' = [blocks EXCEPT ![b] = r]
  BY <1>2 DEF tail, front
<1>4. Good(q)
  BY <1>1, GoodLocalFront
<1>5. /\ q.localFront = front(b) /\ q.localTail = blocks[b].localTail /\ q.front = front(b)
      /\ q.tail = tail(b) /\ q.next = next(b)
  BY <1>1 DEF Block, front, tail, next
<1> HIDE DEF q
<1>6. Good(r)
  BY <1>1, <1>2, <1>4, GoodData
<1>7. /\ r.localFront = front(b) /\ r.localTail = blocks[b].localTail /\ r.front = front(b)
      /\ r.tail = tail(b) /\ r.next = next(b) /\ r.size = blocks[b].size
      /\ r.data = [blocks[b].data EXCEPT ![tail(b)] = item]
  BY <1>2, <1>5 DEF Block, tail
<1> HIDE DEF r
<1>8. r.next \in DOMAIN blocks
  BY <1>1, <1>7 DEF next
<1>9. BlocksOK' /\ SameLength /\ SameOutside(b) /\ blocks'[b] = r
  BY <1>1, <1>3, <1>6, <1>7, <1>8, Edit
<1> QED
  BY <1>7, <1>9

LEMMA SetNext ==
  ASSUME BlocksOK, largestBlockSize' = largestBlockSize, NEW b \in DOMAIN blocks, NEW n \in DOMAIN blocks,
         blocks' = [blocks EXCEPT ![b].next = n]
  PROVE  /\ BlocksOK' /\ SameLength /\ SameOutside(b)
         /\ blocks'[b].localFront = blocks[b].localFront /\ blocks'[b].localTail = blocks[b].localTail
         /\ blocks'[b].front = front(b) /\ blocks'[b].tail = tail(b) /\ blocks'[b].next = n
         /\ blocks'[b].size = blocks[b].size /\ blocks'[b].data = blocks[b].data
<1> DEFINE r == [blocks[b] EXCEPT !.next = n]
<1>1. blocks' = [blocks EXCEPT ![b] = r]
  OBVIOUS
<1>2. Good(blocks[b]) /\ blocks[b] \in Block /\ n \in Nat
  BY BlockAt
<1>3. Good(r)
  BY <1>2, GoodNext
<1>4. /\ r.localFront = blocks[b].localFront /\ r.localTail = blocks[b].localTail /\ r.front = front(b)
      /\ r.tail = tail(b) /\ r.next = n /\ r.size = blocks[b].size
      /\ r.data = blocks[b].data
  BY <1>2 DEF Block, front, tail
<1> HIDE DEF r
<1>5. BlocksOK' /\ SameLength /\ SameOutside(b) /\ blocks'[b] = r
  BY <1>1, <1>3, <1>4, Edit
<1> QED
  BY <1>4, <1>5

LEMMA AddBlock ==
  ASSUME BlocksOK, ControlOK, tailBlock \in DOMAIN blocks, Allocate
  PROVE  /\ BlocksOK' /\ Len(blocks') = Len(blocks) + 1
         /\ DOMAIN blocks' = 1 .. Len(blocks')
         /\ \A b \in DOMAIN blocks : blocks'[b] = blocks[b]
         /\ blocks'[Len(blocks')].front = 0 /\ blocks'[Len(blocks')].tail = 1
         /\ blocks'[Len(blocks')].size \in Nat /\ blocks'[Len(blocks')].size >= 2
         /\ blocks'[Len(blocks')].data[0] = Item
         /\ blocks'[Len(blocks')].next = next(tailBlock)
<1> DEFINE n == next(tailBlock)
           size == largestBlockSize'
           item == Item
           r == FirstItem(size, item, n)
<1>1. size \in Nat /\ size >= 2 /\ largestBlockSize <= size
  BY SizeAssumption DEF Allocate, BlocksOK
<1>2. n \in DOMAIN blocks /\ DOMAIN blocks = 1 .. Len(blocks) /\ Len(blocks) \in Nat
  BY BlockAt DEF next
<1>3. item \in Items
  BY SizeAssumption DEF Item, Items, ControlOK, Allocate
<1> HIDE DEF n, size, item
<1>4. Good(r) /\ r.size = size /\ r.front = 0 /\ r.tail = 1 /\ r.next = n /\ r.data[0] = item
  BY <1>1, <1>2, <1>3, GoodNew
<1>5. blocks' = Append(blocks, r)
  BY DEF Allocate, FirstItem, n, size, item
<1> HIDE DEF r
<1> USE DEF size, item
<1>6. r \in Block /\ blocks \in Seq(Block)
  BY <1>4 DEF Good, BlocksOK
<1>7. /\ blocks' \in Seq(Block) /\ Len(blocks') = Len(blocks) + 1
      /\ blocks'[Len(blocks) + 1] = r /\ \A b \in 1 .. Len(blocks) : blocks'[b] = blocks[b]
  BY <1>5, <1>6, AppendProperties
<1>8. DOMAIN blocks' = 1 .. Len(blocks')
  BY <1>7, LenProperties
<1>9. ASSUME NEW c \in DOMAIN blocks'
      PROVE  Good(blocks'[c]) /\ blocks'[c].size <= largestBlockSize' /\ blocks'[c].next \in DOMAIN blocks'
  <2>1. CASE c = Len(blocks) + 1
    BY <1>1, <1>2, <1>4, <1>7, <1>8, <2>1
  <2>2. CASE c # Len(blocks) + 1
    <3>1. c \in DOMAIN blocks /\ blocks'[c] = blocks[c]
      BY <1>2, <1>7, <1>8, <2>2
    <3>2. Good(blocks[c]) /\ blocks[c].size <= largestBlockSize /\ blocks[c].next \in 1 .. Len(blocks)
      BY <1>2, <3>1 DEF BlocksOK, next
    <3>3. blocks[c].size \in Nat
      BY <3>2 DEF Good, Block
    <3>4. blocks[c].next \in 1 .. Len(blocks')
      BY <1>2, <1>7, <3>2
    <3>5. blocks[c].size <= largestBlockSize'
      BY <1>1, <3>2, <3>3 DEF BlocksOK
    <3> QED
      BY <1>8, <3>1, <3>2, <3>4, <3>5
  <2> QED
    BY <2>1, <2>2
<1>10. BlocksOK'
  BY <1>1, <1>7, <1>9 DEF BlocksOK, next
<1> QED
  BY <1>1, <1>2, <1>4, <1>7, <1>8, <1>10 DEF n

-----------------------------------------------------------------------------
(*                       What each step does to the ring                   *)

LEMMA LinkedBlocks ==
  ASSUME BlocksOK, RingOK
  PROVE  /\ frontBlock \in DOMAIN blocks /\ tailBlock \in DOMAIN blocks
         /\ next(frontBlock) \in DOMAIN blocks /\ next(tailBlock) \in DOMAIN blocks
         /\ Linked \subseteq DOMAIN blocks /\ Len(blocks) \in Nat /\ DOMAIN blocks = 1 .. Len(blocks)
<1>1. DOMAIN blocks = 1 .. Len(blocks) /\ Len(blocks) \in Nat
  BY LenProperties DEF BlocksOK
<1>2. Linked \subseteq DOMAIN blocks
  BY <1>1 DEF Linked
<1> QED
  BY <1>1, <1>2 DEF RingOK, Shape, BlocksOK

(* The block after the tail block is the front block or not in use.        *)
LEMMA AfterTail ==
  ASSUME BlocksOK, RingOK, next(tailBlock) # frontBlock, NEW V \in SUBSET Linked, InUse(V)
  PROVE  next(tailBlock) \notin V
BY DEF RingOK, Shape, InUse

(* The ring is the same if the links are, and the same blocks are empty    *)
(* but for an item put into the tail block or taken from the front block.  *)
LEMMA RingKept ==
  ASSUME BlocksOK, RingOK, SameLength, UNCHANGED <<frontBlock, tailBlock>>,
         (producer' = "link") <=> (producer = "link"),
         (producer' = "linked") <=> (producer = "linked"),
         \A b \in DOMAIN blocks : next(b)' = next(b),
         \A b \in DOMAIN blocks \ {frontBlock, tailBlock} : Empty(b)' <=> Empty(b),
         tailBlock # frontBlock /\ Empty(tailBlock)' => Empty(tailBlock)
  PROVE  RingOK'
<1>1. Linked' = Linked
  BY DEF Linked, SameLength
<1>2. Linked \subseteq DOMAIN blocks /\ tailBlock \in DOMAIN blocks
  BY LinkedBlocks
<1>3. Shape'
  <2>1. frontBlock' \in Linked' /\ tailBlock' \in Linked'
    BY <1>1 DEF RingOK, Shape
  <2>2. \A b \in Linked' : next(b)' \in Linked'
    BY <1>1, <1>2 DEF RingOK, Shape
  <2>3. \A b, c \in Linked' : next(b)' = next(c)' => b = c
    BY <1>1, <1>2 DEF RingOK, Shape
  <2>4. ASSUME producer' = "link"
        PROVE  /\ blocks'[Len(blocks')].next = blocks'[tailBlock'].next
               /\ blocks'[Len(blocks')].front # blocks'[Len(blocks')].tail
               /\ Len(blocks') \in DOMAIN blocks'
    <3>1. next(Len(blocks)) = next(tailBlock) /\ ~Empty(Len(blocks)) /\ Len(blocks) \in DOMAIN blocks
      BY <2>4 DEF RingOK, Shape
    <3>2. Len(blocks') = Len(blocks) /\ DOMAIN blocks' = DOMAIN blocks
      BY DEF SameLength
    <3>3. Len(blocks) \notin Linked
      BY <2>4, LinkedBlocks DEF Linked
    <3>4. Len(blocks) \in DOMAIN blocks \ {frontBlock, tailBlock}
      BY <3>1, <3>3 DEF RingOK, Shape
    <3> QED
      BY <1>2, <3>1, <3>2, <3>4 DEF next, Empty, front, tail
  <2> QED
    BY <2>1, <2>2, <2>3, <2>4 DEF Shape, next, Empty, front, tail
<1>4. PICK V \in SUBSET Linked : InUse(V)
  BY DEF RingOK
<1>5. InUse(V)'
  <2>1. frontBlock \in V /\ tailBlock \in V
    BY <1>4 DEF InUse
  <2>2. \A b \in V \ {tailBlock'} : next(b)' \in V \ {frontBlock'}
    BY <1>2, <1>4 DEF InUse
  <2>3. \A b \in V \ {frontBlock'} : \E p \in V \ {tailBlock'} : next(p)' = b
    BY <1>2, <1>4 DEF InUse
  <2>4. \A b \in V \ {frontBlock'} : ~Empty(b)'
    BY <1>2, <1>4, <2>1 DEF InUse
  <2>5. \A b \in Linked' \ V : Empty(b)' <=> ~(producer' = "linked" /\ b = next(tailBlock)')
    BY <1>1, <1>2, <1>4, <2>1 DEF InUse
  <2> QED
    BY <1>1, <2>1, <2>2, <2>3, <2>4, <2>5 DEF InUse
<1> QED
  BY <1>1, <1>3, <1>5 DEF RingOK

(* The consumer's findings survive a step of the producer ...              *)
LEMMA ConsumerKept ==
  ASSUME BlocksOK, RingOK, ConsumerOK, UNCHANGED <<consumer, frontBlock>>,
         \A b \in DOMAIN blocks :
           blocks'[b].front = blocks[b].front /\ blocks'[b].localTail = blocks[b].localTail,
         frontBlock # tailBlock =>
           /\ tailBlock' # frontBlock
           /\ blocks'[frontBlock].next = blocks[frontBlock].next
           /\ blocks'[frontBlock].tail = blocks[frontBlock].tail
  PROVE  ConsumerOK'
<1>1. frontBlock \in DOMAIN blocks /\ next(frontBlock) \in DOMAIN blocks
  BY LinkedBlocks
<1> QED
  BY <1>1 DEF ConsumerOK, Empty, front, tail, next

(* ... and the producer's a step of the consumer.                          *)
LEMMA ProducerKept ==
  ASSUME BlocksOK, RingOK, ProducerOK, UNCHANGED <<producer, tailBlock>>,
         \A b \in DOMAIN blocks :
           /\ blocks'[b].tail = blocks[b].tail /\ blocks'[b].localFront = blocks[b].localFront
           /\ blocks'[b].next = blocks[b].next /\ blocks'[b].size = blocks[b].size,
         next(tailBlock) # frontBlock => frontBlock' # next(tailBlock)
  PROVE  ProducerOK'
<1>1. tailBlock \in DOMAIN blocks /\ next(tailBlock) \in DOMAIN blocks
  BY LinkedBlocks
<1>2. \A b \in DOMAIN blocks : Room(b) => Room(b)'
  BY DEF Room, After, tail
<1>3. next(tailBlock)' = next(tailBlock)
  BY <1>1 DEF next
<1>4. producer' \in {"put", "publish"} => Room(tailBlock)'
  BY <1>1, <1>2 DEF ProducerOK
<1>5. producer' = "ahead" => Room(next(tailBlock))'
  BY <1>1, <1>2, <1>3 DEF ProducerOK
<1>6. producer' \in {"advance", "ahead", "linked"} => next(tailBlock)' # frontBlock'
  BY <1>3 DEF ProducerOK
<1> QED
  BY <1>4, <1>5, <1>6 DEF ProducerOK

-----------------------------------------------------------------------------
(*                    The invariant: the producer's steps                  *)

LEMMA FindRoomKeeps == ASSUME Inv, FindRoom PROVE Inv'
<1> DEFINE b == tailBlock
<1>1. b \in DOMAIN blocks /\ Linked \subseteq DOMAIN blocks
  BY LinkedBlocks DEF Inv
<1>2. /\ producer = "idle" /\ sent < MaxItems /\ UNCHANGED <<tailBlock, largestBlockSize, sent>>
      /\ UNCHANGED <<frontBlock, consumer, got, visiting, seen, mark>>
  BY DEF FindRoom, consumerVars
<1>3. CASE /\ Room(b) /\ producer' = "put" /\ UNCHANGED blocks
  <2>1. BlocksOK' /\ SameLength
    BY <1>2, <1>3 DEF Inv, BlocksOK, next, SameLength
  <2>2. ControlOK'
    BY <1>2, <1>3 DEF Inv, ControlOK
  <2>3. ProducerOK'
    BY <1>2, <1>3 DEF ProducerOK, Room, After, tail, next
  <2>4. ConsumerOK'
    BY <1>2, <1>3 DEF Inv, ConsumerOK, Empty, front, tail, next
  <2>5. RingOK'
    BY <1>2, <1>3, <2>1, RingKept DEF Inv, Empty, front, tail, next
  <2> QED
    BY <2>1, <2>2, <2>3, <2>4, <2>5 DEF Inv
<1>4. CASE /\ blocks' = [blocks EXCEPT ![b].localFront = front(b)]
           /\ producer' = IF After(b, tail(b)) = front(b) THEN "full" ELSE "put"
  <2>1. /\ BlocksOK' /\ SameLength /\ SameOutside(b)
        /\ blocks'[b].localFront = front(b) /\ blocks'[b].localTail = blocks[b].localTail
        /\ blocks'[b].front = front(b) /\ blocks'[b].tail = tail(b) /\ blocks'[b].next = next(b)
        /\ blocks'[b].size = blocks[b].size
    BY <1>1, <1>2, <1>4, SeeFront DEF Inv
  <2>2. ControlOK'
    BY <1>2, <1>4, <2>1 DEF Inv, ControlOK, SameLength
  <2>3. ProducerOK'
    BY <1>2, <1>4, <2>1 DEF ProducerOK, Room, After, tail, next
  <2>4. \A c \in DOMAIN blocks :
          /\ blocks'[c].front = blocks[c].front /\ blocks'[c].tail = blocks[c].tail
          /\ blocks'[c].next = blocks[c].next /\ blocks'[c].localTail = blocks[c].localTail
    BY <2>1 DEF SameOutside, front, tail, next
  <2>5. ConsumerOK'
    BY <1>1, <1>2, <2>4, ConsumerKept, LinkedBlocks DEF Inv
  <2>6. RingOK'
    BY <1>1, <1>2, <1>4, <2>1, <2>4, RingKept DEF Inv, Empty, front, tail, next
  <2> QED
    BY <2>1, <2>2, <2>3, <2>5, <2>6 DEF Inv
<1> QED
  BY <1>3, <1>4 DEF FindRoom, ProducerGoes, Room

LEMMA PutKeeps == ASSUME Inv, Put PROVE Inv'
<1> DEFINE b == tailBlock
<1>1. b \in DOMAIN blocks /\ Linked \subseteq DOMAIN blocks
  BY LinkedBlocks DEF Inv
<1>2. /\ producer = "put" /\ producer' = "publish" /\ UNCHANGED <<tailBlock, largestBlockSize, sent>>
      /\ UNCHANGED <<frontBlock, consumer, got, visiting, seen, mark>>
  BY DEF Put, consumerVars, ProducerGoes
<1>3. Item \in Items
  BY <1>2, SizeAssumption DEF Item, Items, Inv, ControlOK
<1>4. /\ BlocksOK' /\ SameLength /\ SameOutside(b)
      /\ blocks'[b].localFront = blocks[b].localFront /\ blocks'[b].localTail = blocks[b].localTail
      /\ blocks'[b].front = front(b) /\ blocks'[b].tail = tail(b) /\ blocks'[b].next = next(b)
      /\ blocks'[b].size = blocks[b].size
  <2> DEFINE item == Item
  <2>1. blocks' = [blocks EXCEPT ![b].data[tail(b)] = item]
    BY DEF Put
  <2>2. item \in Items
    BY <1>3
  <2> HIDE DEF item
  <2> QED
    BY <1>1, <1>2, <2>1, <2>2, PutItem DEF Inv
<1>5. ControlOK'
  BY <1>2, <1>4 DEF Inv, ControlOK, SameLength
<1>6. ProducerOK'
  BY <1>2, <1>4 DEF Inv, ProducerOK, Room, After, tail, next
<1>7. \A c \in DOMAIN blocks :
        /\ blocks'[c].front = blocks[c].front /\ blocks'[c].tail = blocks[c].tail
        /\ blocks'[c].next = blocks[c].next /\ blocks'[c].localTail = blocks[c].localTail
  BY <1>4 DEF SameOutside, front, tail, next
<1>8. ConsumerOK'
  BY <1>1, <1>2, <1>7, ConsumerKept, LinkedBlocks DEF Inv
<1>9. RingOK'
  BY <1>1, <1>2, <1>4, <1>7, RingKept DEF Inv, Empty, front, tail, next
<1> QED
  BY <1>4, <1>5, <1>6, <1>8, <1>9 DEF Inv

LEMMA PublishKeeps == ASSUME Inv, Publish PROVE Inv'
<1> DEFINE b == tailBlock
<1>1. b \in DOMAIN blocks /\ Linked \subseteq DOMAIN blocks
  BY LinkedBlocks DEF Inv
<1>2. /\ producer = "publish" /\ producer' = "idle" /\ sent' = sent + 1
      /\ UNCHANGED <<tailBlock, largestBlockSize>>
      /\ UNCHANGED <<frontBlock, consumer, got, visiting, seen, mark>>
  BY DEF Publish, consumerVars, ProducerGoes, Item
<1>3. /\ BlocksOK' /\ SameLength /\ SameOutside(b)
      /\ blocks'[b].localFront = blocks[b].localFront /\ blocks'[b].localTail = blocks[b].localTail
      /\ blocks'[b].front = front(b) /\ blocks'[b].tail # front(b) /\ blocks'[b].next = next(b)
      /\ blocks'[b].size = blocks[b].size
  <2>1. Room(b)
    BY <1>2 DEF Inv, ProducerOK
  <2>2. blocks' = [blocks EXCEPT ![b].tail = After(b, blocks[b].tail)]
    BY DEF Publish
  <2> QED
    BY <1>1, <1>2, <2>1, <2>2, AdvanceTailOf DEF Inv
<1>4. ControlOK'
  <2>1. sent' \in Items /\ mark' \in 0 .. sent'
    BY <1>2, SizeAssumption DEF Inv, ControlOK, Items
  <2> QED
    BY <1>2, <1>3, <2>1 DEF Inv, ControlOK, SameLength
<1>5. ProducerOK'
  BY <1>2 DEF ProducerOK
<1>6. \A c \in DOMAIN blocks :
        /\ blocks'[c].front = blocks[c].front /\ blocks'[c].next = blocks[c].next
        /\ blocks'[c].localTail = blocks[c].localTail
        /\ c # b => blocks'[c].tail = blocks[c].tail
  BY <1>3 DEF SameOutside, front, tail, next
<1>7. ConsumerOK'
  BY <1>1, <1>2, <1>6, ConsumerKept, LinkedBlocks DEF Inv
<1>8. ~Empty(tailBlock)'
  BY <1>2, <1>3 DEF Empty, front, tail
<1>9. RingOK'
  BY <1>1, <1>2, <1>3, <1>6, <1>8, RingKept DEF Inv, Empty, front, tail, next
<1> QED
  BY <1>3, <1>4, <1>5, <1>7, <1>9 DEF Inv

LEMMA NextBlockKeeps == ASSUME Inv, NextBlock PROVE Inv'
<1>1. /\ producer = "full" /\ producer' = IF next(tailBlock) # frontBlock THEN "advance" ELSE "alloc"
      /\ UNCHANGED <<blocks, tailBlock, largestBlockSize, sent>>
      /\ UNCHANGED <<frontBlock, consumer, got, visiting, seen, mark>>
  BY DEF NextBlock, consumerVars, ProducerGoes
<1>2. BlocksOK' /\ SameLength
  BY <1>1 DEF Inv, BlocksOK, next, SameLength
<1>3. ControlOK'
  BY <1>1 DEF Inv, ControlOK
<1>4. ProducerOK'
  BY <1>1 DEF ProducerOK, next
<1>5. ConsumerOK'
  BY <1>1 DEF Inv, ConsumerOK, Empty, front, tail, next
<1>6. RingOK'
  BY <1>1, <1>2, RingKept DEF Inv, Empty, front, tail, next
<1> QED
  BY <1>2, <1>3, <1>4, <1>5, <1>6 DEF Inv

(* The block after a full tail block, once the producer has found that the *)
(* consumer is not in it.                                                  *)
LEMMA NextIsFree ==
  ASSUME Inv, producer \in {"advance", "ahead", "linked"}
  PROVE  /\ next(tailBlock) \in Linked /\ next(tailBlock) # frontBlock /\ next(tailBlock) # tailBlock
         /\ \A V \in SUBSET Linked : InUse(V) => next(tailBlock) \notin V
         /\ Empty(next(tailBlock)) <=> producer # "linked"
<1>1. next(tailBlock) \in Linked /\ next(tailBlock) # frontBlock
  BY DEF Inv, ProducerOK, RingOK, Shape
<1>2. \A V \in SUBSET Linked : InUse(V) => next(tailBlock) \notin V
  BY <1>1, AfterTail DEF Inv
<1>3. PICK V \in SUBSET Linked : InUse(V)
  BY DEF Inv, RingOK
<1> QED
  BY <1>1, <1>2, <1>3 DEF InUse

LEMMA PutAheadKeeps == ASSUME Inv, PutAhead PROVE Inv'
<1>0. PICK b \in DOMAIN blocks : b = next(tailBlock)
  BY LinkedBlocks DEF Inv
<1>1. /\ tailBlock \in DOMAIN blocks /\ b \in DOMAIN blocks /\ Linked \subseteq DOMAIN blocks
      /\ frontBlock \in DOMAIN blocks
  BY LinkedBlocks DEF Inv
<1>2. /\ producer = "advance" /\ producer' = "ahead" /\ UNCHANGED <<tailBlock, largestBlockSize, sent>>
      /\ UNCHANGED <<frontBlock, consumer, got, visiting, seen, mark>>
  BY DEF PutAhead, consumerVars, ProducerGoes
<1>3. b # frontBlock /\ b # tailBlock /\ Empty(b)
  BY <1>0, <1>2, NextIsFree
<1>4. Item \in Items
  BY <1>2, SizeAssumption DEF Item, Items, Inv, ControlOK
<1>5. blocks' = [blocks EXCEPT ![b].localFront = front(b), ![b].data[tail(b)] = Item]
  BY <1>0 DEF PutAhead
<1>6. After(b, tail(b)) # front(b)
  BY <1>1, <1>3, BlockAt DEF Inv, Empty
<1>7. /\ BlocksOK' /\ SameLength /\ SameOutside(b)
      /\ blocks'[b].localFront = front(b) /\ blocks'[b].localTail = blocks[b].localTail
      /\ blocks'[b].front = front(b) /\ blocks'[b].tail = tail(b) /\ blocks'[b].next = next(b)
      /\ blocks'[b].size = blocks[b].size
  <2> DEFINE item == Item
  <2>1. item \in Items /\ blocks' = [blocks EXCEPT ![b].localFront = front(b), ![b].data[tail(b)] = item]
    BY <1>4, <1>5
  <2> HIDE DEF item
  <2> QED
    BY <1>1, <1>2, <2>1, PutItemAhead DEF Inv
<1>8. ControlOK'
  BY <1>2, <1>7 DEF Inv, ControlOK, SameLength
<1>9. \A c \in DOMAIN blocks :
        /\ blocks'[c].front = blocks[c].front /\ blocks'[c].tail = blocks[c].tail
        /\ blocks'[c].next = blocks[c].next /\ blocks'[c].localTail = blocks[c].localTail
  BY <1>7 DEF SameOutside, front, tail, next
<1>10. ProducerOK'
  <2>1. next(tailBlock)' = b
    BY <1>0, <1>1, <1>2, <1>9 DEF next
  <2>2. Room(b)'
    BY <1>6, <1>7 DEF Room, After, tail, front
  <2> QED
    BY <1>2, <1>3, <2>1, <2>2 DEF ProducerOK
<1>11. ConsumerOK'
  BY <1>1, <1>2, <1>9, ConsumerKept DEF Inv
<1>12. RingOK'
  BY <1>1, <1>2, <1>7, <1>9, RingKept DEF Inv, Empty, front, tail, next
<1> QED
  BY <1>7, <1>8, <1>10, <1>11, <1>12 DEF Inv

LEMMA PublishAheadKeeps == ASSUME Inv, PublishAhead PROVE Inv'
<1>0. PICK b \in DOMAIN blocks : b = next(tailBlock)
  BY LinkedBlocks DEF Inv
<1>1. /\ tailBlock \in DOMAIN blocks /\ b \in DOMAIN blocks /\ Linked \subseteq DOMAIN blocks
      /\ frontBlock \in DOMAIN blocks
  BY LinkedBlocks DEF Inv
<1>2. /\ producer = "ahead" /\ producer' = "linked" /\ UNCHANGED <<tailBlock, largestBlockSize, sent>>
      /\ UNCHANGED <<frontBlock, consumer, got, visiting, seen, mark>>
  BY DEF PublishAhead, consumerVars, ProducerGoes
<1>3. /\ b # frontBlock /\ b # tailBlock /\ b \in Linked
      /\ \A V \in SUBSET Linked : InUse(V) => b \notin V
  BY <1>0, <1>2, NextIsFree
<1>4. Room(b)
  BY <1>0, <1>2 DEF Inv, ProducerOK
<1>5. blocks' = [blocks EXCEPT ![b].tail = After(b, blocks[b].tail)]
  BY <1>0 DEF PublishAhead
<1>7. /\ BlocksOK' /\ SameLength /\ SameOutside(b)
      /\ blocks'[b].localFront = blocks[b].localFront /\ blocks'[b].localTail = blocks[b].localTail
      /\ blocks'[b].front = front(b) /\ blocks'[b].tail # front(b) /\ blocks'[b].next = next(b)
      /\ blocks'[b].size = blocks[b].size
  BY <1>1, <1>2, <1>4, <1>5, AdvanceTailOf DEF Inv
<1>8. ControlOK'
  BY <1>2, <1>7 DEF Inv, ControlOK, SameLength
<1>9. \A c \in DOMAIN blocks :
        /\ blocks'[c].front = blocks[c].front /\ blocks'[c].next = blocks[c].next
        /\ blocks'[c].localTail = blocks[c].localTail
        /\ c # b => blocks'[c].tail = blocks[c].tail
  BY <1>7 DEF SameOutside, front, tail, next
<1>10. next(tailBlock)' = b
  BY <1>0, <1>1, <1>2, <1>9 DEF next
<1>11. ProducerOK'
  BY <1>2, <1>3, <1>10 DEF ProducerOK
<1>12. ConsumerOK'
  BY <1>1, <1>2, <1>3, <1>9, ConsumerKept DEF Inv
<1>13. RingOK'
  <2>1. Linked' = Linked
    BY <1>2, <1>7 DEF Linked, SameLength
  <2>2. Shape'
    BY <1>1, <1>2, <1>9, <2>1 DEF Inv, RingOK, Shape, next
  <2>3. PICK V \in SUBSET Linked : InUse(V)
    BY DEF Inv, RingOK
  <2>4. \A c \in DOMAIN blocks : c # b => (Empty(c)' <=> Empty(c))
    BY <1>9 DEF Empty, front, tail
  <2>5. ~Empty(b)' /\ b \notin V
    BY <1>3, <1>7, <2>3 DEF Empty, front, tail
  <2>6. \A c \in DOMAIN blocks : next(c)' = next(c)
    BY <1>9 DEF next
  <2>7. InUse(V)'
    <3>1. \A c \in V : c \in DOMAIN blocks /\ c # b
      BY <1>1, <2>5
    <3>2. \A c \in V \ {tailBlock'} : next(c)' \in V \ {frontBlock'}
      BY <1>2, <2>3, <2>6, <3>1 DEF InUse
    <3>3. \A c \in V \ {frontBlock'} : \E p \in V \ {tailBlock'} : next(p)' = c
      BY <1>2, <2>3, <2>6, <3>1 DEF InUse
    <3>4. \A c \in V \ {frontBlock'} : ~Empty(c)'
      BY <1>2, <2>3, <2>4, <3>1 DEF InUse
    <3>5. \A c \in Linked' \ V : Empty(c)' <=> ~(producer' = "linked" /\ c = next(tailBlock)')
      BY <1>1, <1>2, <1>10, <2>1, <2>3, <2>4, <2>5 DEF InUse
    <3> QED
      BY <1>2, <2>1, <2>3, <3>2, <3>3, <3>4, <3>5 DEF InUse
  <2> QED
    BY <2>1, <2>2, <2>7 DEF RingOK
<1> QED
  BY <1>7, <1>8, <1>11, <1>12, <1>13 DEF Inv

LEMMA AllocateKeeps == ASSUME Inv, Allocate PROVE Inv'
<1>1. /\ tailBlock \in DOMAIN blocks /\ frontBlock \in DOMAIN blocks /\ Linked \subseteq DOMAIN blocks
      /\ DOMAIN blocks = 1 .. Len(blocks) /\ Len(blocks) \in Nat
  BY LinkedBlocks DEF Inv
<1>2. /\ producer = "alloc" /\ producer' = "link" /\ UNCHANGED <<tailBlock, sent>>
      /\ UNCHANGED <<frontBlock, consumer, got, visiting, seen, mark>>
  BY DEF Allocate, consumerVars, ProducerGoes
<1>3. /\ BlocksOK' /\ Len(blocks') = Len(blocks) + 1 /\ DOMAIN blocks' = 1 .. Len(blocks')
      /\ \A b \in DOMAIN blocks : blocks'[b] = blocks[b]
      /\ blocks'[Len(blocks')].front = 0 /\ blocks'[Len(blocks')].tail = 1
      /\ blocks'[Len(blocks')].next = next(tailBlock)
  BY <1>1, AddBlock DEF Inv
<1>4. DOMAIN blocks \subseteq DOMAIN blocks' /\ Len(blocks') \in DOMAIN blocks'
  BY <1>1, <1>3
<1>5. ControlOK'
  BY <1>2, <1>4 DEF Inv, ControlOK
<1>6. ProducerOK'
  BY <1>2 DEF ProducerOK
<1>7. ConsumerOK'
  BY <1>1, <1>2, <1>3, ConsumerKept DEF Inv
<1>8. RingOK'
  <2>1. Linked' = Linked /\ Linked = DOMAIN blocks
    BY <1>1, <1>2, <1>3 DEF Linked
  <2>2. \A b \in Linked : next(b)' = next(b) /\ (Empty(b)' <=> Empty(b))
    BY <1>3, <2>1 DEF next, Empty, front, tail
  <2>3. Shape'
    <3>1. \A b \in Linked' : next(b)' \in Linked'
      BY <2>1, <2>2 DEF Inv, RingOK, Shape
    <3>2. \A b, c \in Linked' : next(b)' = next(c)' => b = c
      BY <2>1, <2>2 DEF Inv, RingOK, Shape
    <3>3. /\ blocks'[Len(blocks')].next = blocks'[tailBlock'].next
          /\ blocks'[Len(blocks')].front # blocks'[Len(blocks')].tail
      BY <1>1, <1>2, <1>3 DEF next
    <3> QED
      BY <1>1, <1>2, <1>4, <2>1, <3>1, <3>2, <3>3 DEF Shape, next, Empty, front, tail
  <2>4. PICK V \in SUBSET Linked : InUse(V)
    BY DEF Inv, RingOK
  <2>5. InUse(V)'
    <3>1. \A b \in V \ {tailBlock'} : next(b)' \in V \ {frontBlock'}
      BY <1>2, <2>2, <2>4 DEF InUse
    <3>2. \A b \in V \ {frontBlock'} : \E p \in V \ {tailBlock'} : next(p)' = b
      BY <1>2, <2>2, <2>4 DEF InUse
    <3>3. \A b \in V \ {frontBlock'} : ~Empty(b)'
      BY <1>2, <2>2, <2>4 DEF InUse
    <3>4. \A b \in Linked' \ V : Empty(b)' <=> ~(producer' = "linked" /\ b = next(tailBlock)')
      BY <1>2, <2>1, <2>2, <2>4 DEF InUse
    <3> QED
      BY <1>2, <2>1, <2>4, <3>1, <3>2, <3>3, <3>4 DEF InUse
  <2> QED
    BY <2>1, <2>3, <2>5 DEF RingOK
<1> QED
  BY <1>3, <1>5, <1>6, <1>7, <1>8 DEF Inv

LEMMA LinkKeeps == ASSUME Inv, Link PROVE Inv'
<1>0. PICK t \in DOMAIN blocks, n \in DOMAIN blocks : t = tailBlock /\ n = Len(blocks)
  BY LinkedBlocks DEF Inv, RingOK, Shape, Link
<1>1. /\ tailBlock \in DOMAIN blocks /\ frontBlock \in DOMAIN blocks /\ Linked \subseteq DOMAIN blocks
      /\ DOMAIN blocks = 1 .. Len(blocks) /\ Len(blocks) \in Nat
  BY LinkedBlocks DEF Inv
<1>2. /\ producer = "link" /\ producer' = "linked" /\ UNCHANGED <<tailBlock, largestBlockSize, sent>>
      /\ UNCHANGED <<frontBlock, consumer, got, visiting, seen, mark>>
  BY DEF Link, consumerVars, ProducerGoes
<1>3. n \notin Linked /\ t \in Linked /\ Linked = 1 .. n - 1 /\ frontBlock \in Linked
  BY <1>0, <1>1, <1>2 DEF Linked, Inv, RingOK, Shape
<1>4. blocks' = [blocks EXCEPT ![t].next = n]
  BY <1>0 DEF Link
<1>5. /\ BlocksOK' /\ SameLength /\ SameOutside(t)
      /\ blocks'[t].localFront = blocks[t].localFront /\ blocks'[t].localTail = blocks[t].localTail
      /\ blocks'[t].front = front(t) /\ blocks'[t].tail = tail(t) /\ blocks'[t].next = n
      /\ blocks'[t].size = blocks[t].size
  BY <1>2, <1>4, SetNext DEF Inv
<1>6. ControlOK'
  BY <1>2, <1>5 DEF Inv, ControlOK, SameLength
<1>7. \A c \in DOMAIN blocks :
        /\ blocks'[c].front = blocks[c].front /\ blocks'[c].tail = blocks[c].tail
        /\ blocks'[c].localTail = blocks[c].localTail
        /\ c # t => blocks'[c].next = blocks[c].next
  BY <1>5 DEF SameOutside, front, tail, next
<1>8. next(tailBlock)' = n
  BY <1>0, <1>2, <1>5 DEF next
<1>9. ProducerOK'
  BY <1>2, <1>3, <1>8 DEF ProducerOK
<1>10. ConsumerOK'
  BY <1>0, <1>1, <1>2, <1>7, ConsumerKept DEF Inv
<1>11. RingOK'
  <2>1. Linked' = Linked \cup {n} /\ Linked' = DOMAIN blocks
    BY <1>0, <1>1, <1>2, <1>3, <1>5 DEF Linked, SameLength
  <2>2. /\ next(n) = next(t) /\ ~Empty(n) /\ \A b \in Linked : next(b) \in Linked
        /\ \A b, c \in Linked : next(b) = next(c) => b = c
    BY <1>0, <1>2 DEF Inv, RingOK, Shape
  <2>3. /\ next(t)' = n /\ next(n)' = next(t) /\ \A b \in Linked \ {t} : next(b)' = next(b)
    BY <1>1, <1>3, <1>5, <1>7, <2>2 DEF next
  <2>4. \A b \in DOMAIN blocks : Empty(b)' <=> Empty(b)
    BY <1>7 DEF Empty, front, tail
  <2>5. Shape'
    <3>1. \A b \in Linked' : next(b)' \in Linked'
      BY <1>3, <2>1, <2>2, <2>3
    <3>2. \A b, c \in Linked' : next(b)' = next(c)' => b = c
      BY <1>3, <2>1, <2>2, <2>3
    <3>3. frontBlock' \in Linked' /\ tailBlock' \in Linked'
      BY <1>0, <1>2, <1>3, <2>1
    <3> QED
      BY <1>2, <3>1, <3>2, <3>3 DEF Shape
  <2>6. PICK V \in SUBSET Linked : InUse(V)
    BY DEF Inv, RingOK
  <2>7. InUse(V)'
    <3>0. n \notin V /\ \A b \in V : b \in DOMAIN blocks /\ b \in Linked
      BY <1>1, <1>3
    <3>1. \A b \in V \ {tailBlock'} : next(b)' \in V \ {frontBlock'}
      BY <1>0, <1>2, <2>3, <2>6, <3>0 DEF InUse
    <3>2. \A b \in V \ {frontBlock'} : \E p \in V \ {tailBlock'} : next(p)' = b
      BY <1>0, <1>2, <2>3, <2>6, <3>0 DEF InUse
    <3>3. \A b \in V \ {frontBlock'} : ~Empty(b)'
      BY <1>2, <2>4, <2>6, <3>0 DEF InUse
    <3>4. \A b \in Linked' \ V : Empty(b)' <=> ~(producer' = "linked" /\ b = next(tailBlock)')
      BY <1>1, <1>2, <1>8, <2>1, <2>2, <2>4, <2>6 DEF InUse
    <3> QED
      BY <1>2, <2>1, <2>6, <3>1, <3>2, <3>3, <3>4 DEF InUse
  <2> QED
    BY <2>1, <2>5, <2>7 DEF RingOK
<1> QED
  BY <1>5, <1>6, <1>9, <1>10, <1>11 DEF Inv

LEMMA AdvanceTailKeeps == ASSUME Inv, AdvanceTail PROVE Inv'
<1>0. PICK t \in DOMAIN blocks, n \in DOMAIN blocks : t = tailBlock /\ n = next(tailBlock)
  BY LinkedBlocks DEF Inv
<1>1. frontBlock \in DOMAIN blocks /\ Linked \subseteq DOMAIN blocks
  BY LinkedBlocks DEF Inv
<1>2. /\ producer = "linked" /\ producer' = "idle" /\ tailBlock' = n /\ sent' = sent + 1
      /\ UNCHANGED <<blocks, largestBlockSize>>
      /\ UNCHANGED <<frontBlock, consumer, got, visiting, seen, mark>>
  BY <1>0 DEF AdvanceTail, consumerVars, ProducerGoes, Item
<1>3. /\ n \in Linked /\ n # frontBlock /\ n # t /\ ~Empty(n)
      /\ \A V \in SUBSET Linked : InUse(V) => n \notin V
  BY <1>0, <1>2, NextIsFree
<1>4. BlocksOK' /\ SameLength
  BY <1>2 DEF Inv, BlocksOK, next, SameLength
<1>5. ControlOK'
  <2>1. sent' \in Items /\ mark' \in 0 .. sent'
    BY <1>2, SizeAssumption DEF Inv, ControlOK, Items
  <2> QED
    BY <1>2, <2>1 DEF Inv, ControlOK
<1>6. ProducerOK'
  BY <1>2 DEF ProducerOK
<1>7. ConsumerOK'
  BY <1>1, <1>2, <1>3, ConsumerKept DEF Inv
<1>8. RingOK'
  <2>1. Linked' = Linked
    BY <1>2 DEF Linked
  <2>2. Shape'
    BY <1>2, <1>3, <2>1 DEF Inv, RingOK, Shape, next
  <2>3. PICK V \in SUBSET Linked : InUse(V)
    BY DEF Inv, RingOK
  <2>4. n \notin V /\ t \in V /\ frontBlock \in V /\ next(t) = n
    BY <1>0, <1>3, <2>3 DEF InUse
  <2>5. \A b : next(b)' = next(b) /\ (Empty(b)' <=> Empty(b))
    BY <1>2 DEF next, Empty, front, tail
  <2> DEFINE W == V \cup {n}
  <2>6. \A b \in W \ {tailBlock'} : next(b)' \in W \ {frontBlock'}
    BY <1>0, <1>2, <1>3, <2>3, <2>4, <2>5 DEF InUse
  <2>7. \A b \in W \ {frontBlock'} : \E p \in W \ {tailBlock'} : next(p)' = b
    BY <1>0, <1>2, <1>3, <2>3, <2>4, <2>5 DEF InUse
  <2>8. \A b \in W \ {frontBlock'} : ~Empty(b)'
    BY <1>2, <1>3, <2>3, <2>5 DEF InUse
  <2>9. \A b \in Linked' \ W : Empty(b)' <=> ~(producer' = "linked" /\ b = next(tailBlock)')
    BY <1>0, <1>2, <2>1, <2>3, <2>5 DEF InUse
  <2>10. W \subseteq Linked' /\ frontBlock' \in W /\ tailBlock' \in W
    BY <1>2, <1>3, <2>1, <2>4
  <2>11. InUse(W)'
    BY <2>6, <2>7, <2>8, <2>9, <2>10 DEF InUse
  <2> QED
    BY <2>2, <2>10, <2>11 DEF RingOK
<1> QED
  BY <1>4, <1>5, <1>6, <1>7, <1>8 DEF Inv

-----------------------------------------------------------------------------
(*                    The invariant: the consumer's steps                  *)

(* A step of the consumer that changes no block and stays in its own.      *)
LEMMA IdleKeeps ==
  ASSUME Inv, UNCHANGED <<blocks, producerVars, frontBlock>>, ControlOK', ConsumerOK'
  PROVE  Inv'
<1>1. UNCHANGED <<tailBlock, largestBlockSize, sent, producer>>
  BY DEF producerVars
<1>2. BlocksOK' /\ SameLength
  BY <1>1 DEF Inv, BlocksOK, next, SameLength
<1>3. ProducerOK'
  BY <1>1, ProducerKept DEF Inv
<1>4. RingOK'
  BY <1>1, <1>2, RingKept DEF Inv, Empty, front, tail, next
<1> QED
  BY <1>2, <1>3, <1>4 DEF Inv

(* A step of the consumer that reads the tail of block b.                  *)
LEMMA LookKeeps ==
  ASSUME Inv, NEW b \in DOMAIN blocks, blocks' = [blocks EXCEPT ![b].localTail = tail(b)],
         UNCHANGED <<producerVars, frontBlock, got, visiting, seen>>, mark' \in {mark, sent},
         consumer' \in {"other", "hop", "leave", "take"},
         consumer' = "take" => b = frontBlock /\ front(b) # tail(b),
         consumer' = "hop" => frontBlock # tailBlock /\ Empty(frontBlock),
         consumer' = "leave" => /\ frontBlock # tailBlock /\ Empty(frontBlock)
                                /\ b = next(frontBlock) /\ ~Empty(b)
  PROVE  Inv'
<1>1. /\ UNCHANGED <<tailBlock, largestBlockSize, sent, producer>>
      /\ frontBlock \in DOMAIN blocks
  BY LinkedBlocks DEF producerVars, Inv
<1>2. /\ BlocksOK' /\ SameLength /\ SameOutside(b)
      /\ blocks'[b].localFront = blocks[b].localFront /\ blocks'[b].localTail = tail(b)
      /\ blocks'[b].front = front(b) /\ blocks'[b].tail = tail(b) /\ blocks'[b].next = next(b)
      /\ blocks'[b].size = blocks[b].size
  BY <1>1, SeeTail DEF Inv
<1>3. ControlOK'
  <2>1. mark' \in 0 .. sent'
    BY <1>1, SizeAssumption DEF Inv, ControlOK, Items
  <2> QED
    BY <1>1, <1>2, <2>1 DEF Inv, ControlOK, SameLength
<1>4. \A c \in DOMAIN blocks :
        /\ blocks'[c].front = blocks[c].front /\ blocks'[c].tail = blocks[c].tail
        /\ blocks'[c].next = blocks[c].next /\ blocks'[c].localFront = blocks[c].localFront
        /\ blocks'[c].size = blocks[c].size
  BY <1>2 DEF SameOutside, front, tail, next
<1>5. ProducerOK'
  BY <1>1, <1>4, ProducerKept DEF Inv
<1>6. ConsumerOK'
  BY <1>1, <1>2, <1>4 DEF ConsumerOK, Empty, front, tail, next
<1>7. RingOK'
  BY <1>1, <1>2, <1>4, RingKept DEF Inv, Empty, front, tail, next
<1> QED
  BY <1>2, <1>3, <1>5, <1>6, <1>7 DEF Inv

(* The block after an empty front block that is not the tail block.        *)
LEMMA NextHolds ==
  ASSUME Inv, frontBlock # tailBlock
  PROVE  ~Empty(next(frontBlock))
BY DEF Inv, RingOK, InUse

LEMMA LookInFrontKeeps == ASSUME Inv, LookInFront PROVE Inv'
<1>1. /\ consumer = "idle" /\ mark' = sent /\ UNCHANGED <<producerVars, frontBlock, got, visiting, seen>>
      /\ UNCHANGED <<tailBlock, largestBlockSize, sent, producer>>
  BY DEF LookInFront, producerVars
<1>2. CASE front(frontBlock) # blocks[frontBlock].localTail /\ consumer' = "take" /\ UNCHANGED blocks
  <2>1. ControlOK'
    <3>1. mark' \in 0 .. sent'
      BY <1>1, SizeAssumption DEF Inv, ControlOK, Items
    <3> QED
      BY <1>1, <1>2, <3>1 DEF Inv, ControlOK
  <2>2. ConsumerOK'
    BY <1>1, <1>2 DEF ConsumerOK, front
  <2> QED
    BY <1>1, <1>2, <2>1, <2>2, IdleKeeps
<1>3. CASE LookAt(frontBlock, "other")
  <2>1. frontBlock \in DOMAIN blocks
    BY LinkedBlocks DEF Inv
  <2> QED
    BY <1>1, <1>3, <2>1, LookKeeps DEF LookAt, ConsumerGoes
<1> QED
  BY <1>2, <1>3 DEF LookInFront, ConsumerGoes

LEMMA OtherBlockKeeps == ASSUME Inv, OtherBlock PROVE Inv'
<1>1. /\ consumer = "other" /\ consumer' = IF frontBlock = tailBlock THEN "empty" ELSE "again"
      /\ UNCHANGED <<blocks, producerVars, frontBlock, got, visiting, seen, mark>>
      /\ UNCHANGED <<tailBlock, largestBlockSize, sent, producer>>
  BY DEF OtherBlock, ConsumerGoes, producerVars
<1>2. ControlOK'
  BY <1>1 DEF Inv, ControlOK
<1>3. ConsumerOK'
  BY <1>1 DEF ConsumerOK
<1> QED
  BY <1>1, <1>2, <1>3, IdleKeeps

LEMMA LookAgainKeeps == ASSUME Inv, LookAgain PROVE Inv'
<1>1. /\ consumer = "again" /\ UNCHANGED <<producerVars, frontBlock, got, visiting, seen, mark>>
      /\ blocks' = [blocks EXCEPT ![frontBlock].localTail = tail(frontBlock)]
      /\ consumer' = IF front(frontBlock) # tail(frontBlock) THEN "take" ELSE "hop"
  BY DEF LookAgain, LookAt, ConsumerGoes
<1>2. frontBlock \in DOMAIN blocks /\ frontBlock # tailBlock
  BY <1>1, LinkedBlocks DEF Inv, ConsumerOK
<1> QED
  BY <1>1, <1>2, LookKeeps DEF Empty

LEMMA LookAheadKeeps == ASSUME Inv, LookAhead PROVE Inv'
<1>0. PICK b \in DOMAIN blocks : b = next(frontBlock)
  BY LinkedBlocks DEF Inv
<1>1. /\ consumer = "hop" /\ UNCHANGED <<producerVars, frontBlock, got, visiting, seen, mark>>
      /\ blocks' = [blocks EXCEPT ![b].localTail = tail(b)] /\ consumer' = "leave"
  BY <1>0 DEF LookAhead, ConsumerGoes
<1>2. frontBlock # tailBlock /\ Empty(frontBlock)
  BY <1>1 DEF Inv, ConsumerOK
<1>3. ~Empty(b)
  BY <1>0, <1>2, NextHolds
<1> QED
  BY <1>0, <1>1, <1>2, <1>3, LookKeeps

LEMMA LeaveFrontKeeps == ASSUME Inv, LeaveFront PROVE Inv'
<1>0. PICK f \in DOMAIN blocks, n \in DOMAIN blocks : f = frontBlock /\ n = next(frontBlock)
  BY LinkedBlocks DEF Inv
<1>1. tailBlock \in DOMAIN blocks /\ Linked \subseteq DOMAIN blocks
  BY LinkedBlocks DEF Inv
<1>2. /\ consumer = "leave" /\ consumer' = "take" /\ frontBlock' = n
      /\ UNCHANGED <<blocks, tailBlock, largestBlockSize, sent, producer, got, visiting, seen, mark>>
  BY <1>0 DEF LeaveFront, ConsumerGoes, producerVars
<1>3. f # tailBlock /\ Empty(f) /\ front(n) # blocks[n].localTail
  BY <1>0, <1>2 DEF Inv, ConsumerOK
<1>4. /\ \A b \in Linked : next(b) \in Linked
      /\ \A b, c \in Linked : next(b) = next(c) => b = c
      /\ f \in Linked /\ tailBlock \in Linked /\ n \in Linked
  BY <1>0 DEF Inv, RingOK, Shape
<1>5. BlocksOK' /\ SameLength
  BY <1>2 DEF Inv, BlocksOK, next, SameLength
<1>6. ControlOK'
  BY <1>2 DEF Inv, ControlOK
<1>7. ProducerOK'
  <2>1. next(tailBlock) # n
    BY <1>0, <1>3, <1>4
  <2> QED
    BY <1>2, <2>1, ProducerKept DEF Inv
<1>8. ConsumerOK'
  BY <1>2, <1>3 DEF ConsumerOK, front
<1>9. RingOK'
  <2>1. Linked' = Linked
    BY <1>2 DEF Linked
  <2>2. Shape'
    BY <1>2, <1>4, <2>1 DEF Inv, RingOK, Shape, next, Empty, front, tail
  <2>3. PICK V \in SUBSET Linked : InUse(V)
    BY DEF Inv, RingOK
  <2>4. \A b : next(b)' = next(b) /\ (Empty(b)' <=> Empty(b))
    BY <1>2 DEF next, Empty, front, tail
  <2> DEFINE W == V \ {f}
  <2>5. n \in W /\ tailBlock \in W
    BY <1>0, <1>3, <2>3 DEF InUse
  <2>6. \A b \in W \ {tailBlock'} : next(b)' \in W \ {frontBlock'}
    BY <1>0, <1>2, <1>3, <1>4, <2>3, <2>4 DEF InUse
  <2>7. \A b \in W \ {frontBlock'} : \E p \in W \ {tailBlock'} : next(p)' = b
    BY <1>0, <1>2, <1>3, <1>4, <2>3, <2>4 DEF InUse
  <2>8. \A b \in W \ {frontBlock'} : ~Empty(b)'
    BY <1>0, <1>2, <2>3, <2>4 DEF InUse
  <2>9. \A b \in Linked' \ W : Empty(b)' <=> ~(producer' = "linked" /\ b = next(tailBlock)')
    <3>1. producer = "linked" => next(tailBlock) # f
      BY <1>0 DEF Inv, ProducerOK
    <3>2. next(tailBlock)' = next(tailBlock)
      BY <1>2, <2>4
    <3>3. \A b \in Linked \ V : Empty(b) <=> ~(producer = "linked" /\ b = next(tailBlock))
      BY <2>3 DEF InUse
    <3> QED
      BY <1>2, <1>3, <2>1, <2>4, <3>1, <3>2, <3>3
  <2>10. W \subseteq Linked' /\ frontBlock' \in W /\ tailBlock' \in W
    BY <1>2, <2>1, <2>5
  <2>11. InUse(W)'
    BY <2>6, <2>7, <2>8, <2>9, <2>10 DEF InUse
  <2> QED
    BY <2>2, <2>10, <2>11 DEF RingOK
<1> QED
  BY <1>5, <1>6, <1>7, <1>8, <1>9 DEF Inv

LEMMA TakeKeeps == ASSUME Inv, Take PROVE Inv'
<1>1. /\ consumer = "take" /\ consumer' = "release"
      /\ got' = blocks[frontBlock].data[blocks[frontBlock].front]
      /\ UNCHANGED <<blocks, producerVars, frontBlock, visiting, seen, mark>>
      /\ UNCHANGED <<tailBlock, largestBlockSize, sent, producer>>
  BY DEF Take, ConsumerGoes, producerVars, front
<1>2. got' \in Items
  <2>1. frontBlock \in DOMAIN blocks
    BY LinkedBlocks DEF Inv
  <2>2. Good(blocks[frontBlock])
    BY <2>1, BlockAt DEF Inv
  <2> QED
    BY <1>1, <2>2 DEF Good
<1>3. ControlOK'
  BY <1>1, <1>2 DEF Inv, ControlOK
<1>4. ConsumerOK'
  BY <1>1 DEF Inv, ConsumerOK, front
<1> QED
  BY <1>1, <1>3, <1>4, IdleKeeps

LEMMA ReleaseKeeps == ASSUME Inv, Release PROVE Inv'
<1>0. PICK f \in DOMAIN blocks : f = frontBlock
  BY LinkedBlocks DEF Inv
<1>1. tailBlock \in DOMAIN blocks /\ Linked \subseteq DOMAIN blocks
  BY LinkedBlocks DEF Inv
<1>2. /\ consumer = "release" /\ consumer' = "idle"
      /\ UNCHANGED <<frontBlock, tailBlock, largestBlockSize, sent, producer, got, visiting, seen, mark>>
      /\ blocks' = [blocks EXCEPT ![f].front = After(f, blocks[f].front)]
  BY <1>0 DEF Release, ConsumerGoes, producerVars
<1>3. front(f) # blocks[f].localTail
  BY <1>0, <1>2 DEF Inv, ConsumerOK
<1>4. /\ BlocksOK' /\ SameLength /\ SameOutside(f)
      /\ blocks'[f].localFront = blocks[f].localFront
      /\ blocks'[f].tail = tail(f) /\ blocks'[f].next = next(f)
      /\ blocks'[f].size = blocks[f].size
  BY <1>2, <1>3, AdvanceFrontOf DEF Inv
<1>5. ControlOK'
  BY <1>2, <1>4 DEF Inv, ControlOK, SameLength
<1>6. \A c \in DOMAIN blocks :
        /\ blocks'[c].tail = blocks[c].tail /\ blocks'[c].localFront = blocks[c].localFront
        /\ blocks'[c].next = blocks[c].next /\ blocks'[c].size = blocks[c].size
        /\ c # f => blocks'[c].front = blocks[c].front
  BY <1>4 DEF SameOutside, front, tail, next
<1>7. ProducerOK'
  BY <1>2, <1>6, ProducerKept DEF Inv
<1>8. ConsumerOK'
  BY <1>2 DEF ConsumerOK
<1>9. RingOK'
  BY <1>0, <1>1, <1>2, <1>4, <1>6, RingKept DEF Inv, Empty, front, tail, next
<1> QED
  BY <1>4, <1>5, <1>7, <1>8, <1>9 DEF Inv

(* Return and the three steps of size_approx() only move the consumer.     *)
LEMMA OthersKeep ==
  ASSUME Inv, Return \/ Size \/ Visit \/ Onwards
  PROVE  Inv'
<1>1. /\ consumer' \in {"idle", "size", "onwards", "sized"}
      /\ UNCHANGED <<blocks, producerVars, frontBlock, got>>
      /\ UNCHANGED <<tailBlock, largestBlockSize, sent, producer>>
  BY DEF Return, Size, Visit, Onwards, ConsumerGoes, producerVars
<1>2. frontBlock \in DOMAIN blocks /\ \A b \in DOMAIN blocks : next(b) \in DOMAIN blocks
  BY LinkedBlocks DEF Inv, BlocksOK
<1>3. visiting' \in DOMAIN blocks
  BY <1>2 DEF Return, Size, Visit, Onwards, Inv, ControlOK
<1>4. mark' \in 0 .. sent
  BY SizeAssumption DEF Return, Size, Visit, Onwards, Inv, ControlOK, Items
<1>5. seen' \in BOOLEAN
  BY DEF Return, Size, Visit, Onwards, Inv, ControlOK
<1>6. ControlOK'
  BY <1>1, <1>3, <1>4, <1>5 DEF Inv, ControlOK
<1>7. ConsumerOK'
  BY <1>1 DEF ConsumerOK
<1> QED
  BY <1>1, <1>6, <1>7, IdleKeeps

-----------------------------------------------------------------------------
LEMMA InitInv == Init => Inv
<1> SUFFICES ASSUME Init PROVE Inv
  OBVIOUS
<1> DEFINE e == EmptyBlock(InitialSize)
<1>1. InitialSize \in Nat /\ InitialSize >= 2
  BY SizeAssumption
<1>2. Good(e) /\ e.size = InitialSize /\ e.next = 1 /\ e.front = e.tail
  BY <1>1, GoodEmpty DEF EmptyBlock
<1>3. blocks = <<e>>
  BY DEF Init
<1> HIDE DEF e
<1>4. /\ blocks \in Seq(Block) /\ Len(blocks) = 1 /\ DOMAIN blocks = {1} /\ blocks[1] = e
  BY <1>2, <1>3 DEF Good
<1>5. BlocksOK
  BY <1>1, <1>2, <1>4 DEF Init, BlocksOK, next
<1>6. ControlOK
  <2>1. 0 \in Items /\ 0 \in 0 .. 0
    BY SizeAssumption DEF Items
  <2>2. sent = 0 /\ mark = 0 /\ got = 0 /\ seen = FALSE /\ visiting = 1 /\ producer = "idle" /\ consumer = "idle"
    BY DEF Init
  <2> QED
    BY <1>4, <2>1, <2>2 DEF ControlOK
<1>7. ProducerOK /\ ConsumerOK
  BY DEF Init, ProducerOK, ConsumerOK
<1>8. RingOK
  <2>1. Linked = {1} /\ next(1) = 1 /\ Empty(1)
    BY <1>2, <1>4 DEF Init, Linked, next, Empty, front, tail
  <2>2. Shape
    BY <2>1 DEF Init, Shape
  <2>3. InUse({1})
    BY <2>1 DEF Init, InUse
  <2> QED
    BY <2>1, <2>2, <2>3 DEF RingOK
<1> QED
  BY <1>5, <1>6, <1>7, <1>8 DEF Inv

LEMMA StutterKeeps == ASSUME Inv, UNCHANGED vars PROVE Inv'
<1>1. UNCHANGED <<blocks, producerVars, frontBlock, consumer, got, visiting, seen, mark>>
  BY DEF vars, consumerVars
<1>2. ControlOK'
  BY <1>1 DEF Inv, ControlOK, producerVars
<1>3. ConsumerOK'
  BY <1>1 DEF Inv, ConsumerOK, Empty, front, tail, next, producerVars
<1> QED
  BY <1>1, <1>2, <1>3, IdleKeeps

LEMMA InvHolds == Spec => []Inv
<1>1. Inv /\ [Next]_vars => Inv'
  <2> SUFFICES ASSUME Inv, [Next]_vars PROVE Inv'
    OBVIOUS
  <2>1. CASE Producer
    BY <2>1, FindRoomKeeps, PutKeeps, PublishKeeps, NextBlockKeeps, PutAheadKeeps, PublishAheadKeeps,
       AllocateKeeps, LinkKeeps, AdvanceTailKeeps DEF Producer
  <2>2. CASE TryDequeue
    BY <2>2, LookInFrontKeeps, OtherBlockKeeps, LookAgainKeeps, LookAheadKeeps, LeaveFrontKeeps,
       TakeKeeps, ReleaseKeeps, OthersKeep DEF TryDequeue
  <2>3. CASE SizeApprox
    BY <2>3, OthersKeep DEF SizeApprox
  <2>4. CASE UNCHANGED vars
    BY <2>4, StutterKeeps
  <2> QED
    BY <2>1, <2>2, <2>3, <2>4 DEF Next
<1> QED
  BY InitInv, <1>1, PTL DEF Spec

-----------------------------------------------------------------------------
(* Each index stays within its block, every link leads to a block, and no  *)
(* item that was never enqueued is stored or taken.                        *)
THEOREM TypeCorrect == Spec => []TypeOK
<1>1. Inv => TypeOK
  <2> SUFFICES ASSUME Inv PROVE TypeOK
    OBVIOUS
  <2>1. ASSUME NEW b \in DOMAIN blocks
        PROVE  /\ blocks[b].size \in 1 .. largestBlockSize
               /\ {front(b), tail(b), blocks[b].localFront, blocks[b].localTail}
                     \subseteq 0 .. blocks[b].size - 1
               /\ next(b) \in DOMAIN blocks
               /\ blocks[b].data \in [0 .. blocks[b].size - 1 -> 0 .. MaxItems]
    <3>1. /\ Good(blocks[b]) /\ blocks[b].size <= largestBlockSize /\ next(b) \in DOMAIN blocks
          /\ largestBlockSize \in Nat
      BY DEF Inv, BlocksOK
    <3>2. blocks[b].size \in Nat
      BY <3>1 DEF Good, Block
    <3> QED
      BY <3>1, <3>2 DEF Good, Items, front, tail
  <2>2. {frontBlock, tailBlock, visiting} \subseteq DOMAIN blocks
    BY LinkedBlocks DEF Inv, ControlOK
  <2> QED
    BY <2>1, <2>2 DEF TypeOK, Inv, ControlOK, Items
<1> QED
  BY InvHolds, <1>1, PTL

(* The assertions of the header: the block after a full tail block is      *)
(* empty when the producer goes on to it, and the block after an empty     *)
(* front block is not when the consumer does.                              *)
THEOREM HeaderAssertions == Spec => []AssertionsHold
<1>1. Inv => AssertionsHold
  <2> SUFFICES ASSUME Inv PROVE AssertionsHold
    OBVIOUS
  <2>1. producer = "advance" => Empty(next(tailBlock))
    BY NextIsFree
  <2>2. consumer \in {"hop", "leave"} => ~Empty(next(frontBlock))
    BY NextHolds DEF Inv, ConsumerOK
  <2> QED
    BY <2>1, <2>2 DEF AssertionsHold, Empty
<1> QED
  BY InvHolds, <1>1, PTL

(* The slot that the consumer reads is never the one the producer writes.  *)
THEOREM NothingTorn == Spec => []NoTornRead
<1>1. Inv => NoTornRead
  <2> SUFFICES ASSUME Inv, consumer = "take"
               PROVE  /\ producer = "put" =>
                           <<tailBlock, tail(tailBlock)>> # <<frontBlock, front(frontBlock)>>
                      /\ producer = "advance" => next(tailBlock) # frontBlock
    BY DEF NoTornRead
  <2>1. frontBlock \in DOMAIN blocks /\ front(frontBlock) # blocks[frontBlock].localTail
    BY LinkedBlocks DEF Inv, ConsumerOK
  <2>2. Good(blocks[frontBlock])
    BY <2>1, BlockAt DEF Inv
  <2>3. front(frontBlock) # tail(frontBlock)
    BY <2>1, <2>2, GoodSeen DEF front, tail
  <2>4. producer = "advance" => next(tailBlock) # frontBlock
    BY DEF Inv, ProducerOK
  <2> QED
    BY <2>3, <2>4
<1> QED
  BY InvHolds, <1>1, PTL

-----------------------------------------------------------------------------
(*                      The items and their numbers                        *)

(* How many places of block b slot lies behind the front, and how many     *)
(* items there are.                                                        *)
Nth(b, slot) == Dist(blocks[b].size, front(b), slot)
Count(b) == Nth(b, tail(b))

(* The items of block b are numbered from n on.                            *)
Holds(b, n) ==
  \A slot \in 0 .. blocks[b].size - 1 :
    Nth(b, slot) < Count(b) => blocks[b].data[slot] = n + Nth(b, slot)

(* The blocks from the front block to the tail block.                      *)
Used ==
  {b \in Linked : \/ b = frontBlock
                  \/ ~Empty(b) /\ ~(producer = "linked" /\ b = next(tailBlock))}

(* F[b] is the number of the first item of block b: they go on from one    *)
(* block to the next, from the one to be taken next to the last one sent.  *)
Numbered(F) ==
  /\ F[frontBlock] = Len(taken) + 1
  /\ F[tailBlock] + Count(tailBlock) = sent + 1
  /\ \A b \in Used \ {tailBlock} : F[next(b)] = F[b] + Count(b)
  /\ \A b \in Used : Holds(b, F[b]) /\ F[b] + Count(b) <= sent + 1

(* The item that has been put but not published, and the one that has been *)
(* read but not released.                                                  *)
Pending ==
  /\ producer = "publish" => blocks[tailBlock].data[tail(tailBlock)] = Item
  /\ producer = "ahead" => blocks[next(tailBlock)].data[tail(next(tailBlock))] = Item
  /\ producer = "linked" => Count(next(tailBlock)) = 1 /\ Holds(next(tailBlock), Item)
  /\ producer = "link" => Count(Len(blocks)) = 1 /\ Holds(Len(blocks), Item)
  /\ consumer = "release" => got = Len(taken) + 1

(* What the consumer knows of the items there were when its call began: if *)
(* it has found none, they have all been taken, or there is another block, *)
(* which holds some.                                                       *)
AllSeen == Len(taken) >= mark

Found ==
  /\ consumer = "other" => AllSeen \/ frontBlock # tailBlock
  /\ consumer = "empty" => AllSeen
  /\ consumer = "onwards" /\ ~seen =>
       AllSeen \/ (visiting = frontBlock /\ frontBlock # tailBlock)
  /\ consumer = "size" /\ ~seen =>
       \/ AllSeen
       \/ visiting = frontBlock
       \/ visiting = next(frontBlock) /\ frontBlock # tailBlock
  /\ consumer = "sized" /\ ~seen => AllSeen

Taken == taken \in Seq(Items) /\ \A i \in 1 .. Len(taken) : taken[i] = i

ItemInv ==
  /\ Taken /\ Pending /\ Found
  /\ \E F \in [Nat -> Nat] : Numbered(F)

LEMMA Distances ==
  ASSUME NEW size \in Nat, size >= 2, NEW f \in 0 .. size - 1, NEW s \in 0 .. size - 1,
         NEW t \in 0 .. size - 1
  PROVE  /\ Dist(size, f, s) \in 0 .. size - 1
         /\ Dist(size, f, s) = 0 <=> s = f
         /\ Step(size, t) # f => Dist(size, f, Step(size, t)) = Dist(size, f, t) + 1
         /\ s # f => Dist(size, Step(size, f), s) = Dist(size, f, s) - 1
         /\ Dist(size, f, s) = Dist(size, f, t) => s = t
BY Z3 DEF Dist, Step

LEMMA Counts ==
  ASSUME Inv, NEW b \in DOMAIN blocks
  PROVE  /\ blocks[b].size \in Nat /\ blocks[b].size >= 2
         /\ front(b) \in 0 .. blocks[b].size - 1 /\ tail(b) \in 0 .. blocks[b].size - 1
         /\ blocks[b].data \in [0 .. blocks[b].size - 1 -> Items]
         /\ Count(b) \in Nat
         /\ Count(b) = 0 <=> Empty(b)
         /\ \A slot \in 0 .. blocks[b].size - 1 :
              Nth(b, slot) \in Nat /\ (Nth(b, slot) = 0 <=> slot = front(b))
         /\ After(b, tail(b)) = Step(blocks[b].size, tail(b))
         /\ After(b, front(b)) = Step(blocks[b].size, front(b))
<1>1. Good(blocks[b])
  BY BlockAt DEF Inv
<1>2. /\ blocks[b].size \in Nat /\ blocks[b].size >= 2
      /\ front(b) \in 0 .. blocks[b].size - 1 /\ tail(b) \in 0 .. blocks[b].size - 1
      /\ blocks[b].data \in [0 .. blocks[b].size - 1 -> Items]
  BY <1>1 DEF Good, Block, front, tail
<1>3. After(b, tail(b)) = Step(blocks[b].size, tail(b)) /\ After(b, front(b)) = Step(blocks[b].size, front(b))
  BY <1>2, StepIsMod DEF After
<1>4. ASSUME NEW slot \in 0 .. blocks[b].size - 1
      PROVE  Nth(b, slot) \in Nat /\ (Nth(b, slot) = 0 <=> slot = front(b))
  <2> DEFINE size == blocks[b].size  f == front(b)
  <2>1. /\ size \in Nat /\ size >= 2 /\ f \in 0 .. size - 1 /\ slot \in 0 .. size - 1
        /\ Nth(b, slot) = Dist(size, f, slot)
    BY <1>2 DEF Nth
  <2> HIDE DEF size, f
  <2>2. Dist(size, f, slot) \in 0 .. size - 1 /\ (Dist(size, f, slot) = 0 <=> slot = f)
    BY <2>1, Distances
  <2> QED
    BY <2>1, <2>2 DEF f
<1>5. Count(b) \in Nat /\ (Count(b) = 0 <=> Empty(b))
  BY <1>2, <1>4 DEF Count, Empty
<1> QED
  BY <1>2, <1>3, <1>4, <1>5

LEMMA UsedRing ==
  ASSUME Inv
  PROVE  InUse(Used) /\ Used \subseteq Linked /\ Used \subseteq DOMAIN blocks
<1>1. PICK V \in SUBSET Linked : InUse(V)
  BY DEF Inv, RingOK
<1>2. producer = "linked" => next(tailBlock) \notin V
  BY <1>1, NextIsFree
<1>3. V = Used
  BY <1>1, <1>2 DEF InUse, Used
<1>4. Linked \subseteq DOMAIN blocks
  BY LinkedBlocks DEF Inv
<1> QED
  BY <1>1, <1>3, <1>4

(* What is in use stays numbered as it is if its indices, links and items  *)
(* do, and neither thread moves on.                                        *)
LEMMA NumbersKept ==
  ASSUME Inv, NEW F, Numbered(F), UNCHANGED <<frontBlock, tailBlock, sent, taken>>, Used' = Used,
         \A b \in Used :
           /\ blocks'[b].front = blocks[b].front /\ blocks'[b].tail = blocks[b].tail
           /\ b # tailBlock => blocks'[b].next = blocks[b].next
           /\ blocks'[b].size = blocks[b].size
           /\ \A slot \in 0 .. blocks[b].size - 1 :
                Nth(b, slot) < Count(b) => blocks'[b].data[slot] = blocks[b].data[slot]
  PROVE  Numbered(F)'
<1>1. frontBlock \in Used /\ tailBlock \in Used
  BY UsedRing DEF InUse
<1>2. ASSUME NEW b \in Used
      PROVE  /\ b # tailBlock => next(b)' = next(b)
             /\ Count(b)' = Count(b)
             /\ \A slot : Nth(b, slot)' = Nth(b, slot)
  BY <1>2 DEF next, Count, Nth, front, tail
<1>3. \A b \in Used : Holds(b, F[b])' /\ F[b] + Count(b)' <= sent' + 1
  BY <1>2 DEF Numbered, Holds
<1>4. F[tailBlock'] + Count(tailBlock)' = sent' + 1
  BY <1>1, <1>2 DEF Numbered
<1>5. \A b \in Used' \ {tailBlock'} : F[next(b)'] = F[b] + Count(b)'
  BY <1>2 DEF Numbered
<1>6. F[frontBlock'] = Len(taken') + 1
  BY DEF Numbered
<1> QED
  BY <1>3, <1>4, <1>5, <1>6 DEF Numbered

(* No block but the two that the threads are in may become empty or be     *)
(* filled, and the one that waits to be the tail block stays the same.     *)
LEMMA UsedKept ==
  ASSUME Inv, Linked' = Linked, frontBlock' = frontBlock,
         \A b \in Linked \ {frontBlock} :
           (~Empty(b) /\ ~(producer = "linked" /\ b = next(tailBlock))) <=>
             (~Empty(b)' /\ ~(producer' = "linked" /\ b = next(tailBlock)'))
  PROVE  Used' = Used
BY DEF Used

Same(b) ==
  /\ blocks'[b].front = blocks[b].front /\ blocks'[b].tail = blocks[b].tail
  /\ blocks'[b].next = blocks[b].next /\ blocks'[b].size = blocks[b].size
  /\ blocks'[b].data = blocks[b].data

LEMMA Quiet ==
  ASSUME Inv, NEW F, Numbered(F), UNCHANGED <<frontBlock, tailBlock, sent, taken>>, SameLength,
         (producer' = "link") <=> (producer = "link"),
         (producer' = "linked") <=> (producer = "linked"),
         \A b \in DOMAIN blocks : Same(b)
  PROVE  Numbered(F)'
<1>1. Linked' = Linked
  BY DEF Linked, SameLength
<1>2. Linked \subseteq DOMAIN blocks /\ tailBlock \in DOMAIN blocks
  BY LinkedBlocks DEF Inv
<1>3. \A b \in DOMAIN blocks : (Empty(b)' <=> Empty(b)) /\ next(b)' = next(b)
  BY DEF Same, Empty, front, tail, next
<1>4. Used' = Used
  BY <1>1, <1>2, <1>3, UsedKept
<1>5. \A b \in Used : b \in DOMAIN blocks /\ Same(b)
  BY UsedRing
<1> QED
  BY <1>4, <1>5, NumbersKept DEF Same

(* A step of the consumer leaves what the producer is about alone ...      *)
LEMMA PendingKept ==
  ASSUME Inv, Pending, UNCHANGED <<producer, tailBlock, sent>>, SameLength,
         \A b \in DOMAIN blocks :
           /\ blocks'[b].tail = blocks[b].tail /\ blocks'[b].next = blocks[b].next
           /\ blocks'[b].size = blocks[b].size /\ blocks'[b].data = blocks[b].data
           /\ b # frontBlock => blocks'[b].front = blocks[b].front,
         consumer' = "release" => got' = Len(taken') + 1
  PROVE  Pending'
<1>1. tailBlock \in DOMAIN blocks /\ next(tailBlock) \in DOMAIN blocks
  BY LinkedBlocks DEF Inv
<1>2. next(tailBlock)' = next(tailBlock) /\ Item' = Item /\ Len(blocks') = Len(blocks)
  BY <1>1 DEF next, Item, SameLength
<1>3. \A b \in DOMAIN blocks \ {frontBlock} :
        Count(b)' = Count(b) /\ \A n : Holds(b, n)' <=> Holds(b, n)
  BY DEF Count, Holds, Nth, front, tail
<1>4. producer = "linked" => next(tailBlock) # frontBlock
  BY DEF Inv, ProducerOK
<1>5. producer = "link" => Len(blocks) \in DOMAIN blocks /\ Len(blocks) # frontBlock
  BY LinkedBlocks DEF Inv, RingOK, Shape, Linked
<1>6. producer' = "linked" => Count(next(tailBlock))' = 1 /\ Holds(next(tailBlock), Item)'
  BY <1>1, <1>2, <1>3, <1>4 DEF Pending
<1>7. producer' = "link" => Count(Len(blocks))' = 1 /\ Holds(Len(blocks), Item)'
  BY <1>2, <1>3, <1>5 DEF Pending
<1>8. producer' = "publish" => (blocks[tailBlock].data[tail(tailBlock)])' = Item'
  BY <1>1, <1>2 DEF Pending, tail
<1>9. producer' = "ahead" => (blocks[next(tailBlock)].data[tail(next(tailBlock))])' = Item'
  BY <1>1, <1>2 DEF Pending, tail
<1> QED
  BY <1>6, <1>7, <1>8, <1>9 DEF Pending

(* ... and one of the producer what the consumer has found.                *)
LEMMA FoundKept ==
  ASSUME Found, UNCHANGED consumerVars,
         frontBlock # tailBlock => tailBlock' # frontBlock /\ next(frontBlock)' = next(frontBlock)
  PROVE  Found'
<1>1. UNCHANGED <<frontBlock, taken, consumer, visiting, seen, mark>>
  BY DEF consumerVars
<1> QED
  BY <1>1 DEF Found, AllSeen

-----------------------------------------------------------------------------
(*                    The items: the producer's steps                      *)

LEMMA FindRoomItems == ASSUME Inv, ItemInv, FindRoom PROVE ItemInv'
<1> DEFINE b == tailBlock
<1>1. /\ producer = "idle" /\ producer' \in {"put", "full"} /\ UNCHANGED <<tailBlock, largestBlockSize, sent>>
      /\ UNCHANGED <<frontBlock, taken, consumer, got, visiting, seen, mark>>
      /\ UNCHANGED consumerVars
  BY DEF FindRoom, ProducerGoes, consumerVars
<1>2. b \in DOMAIN blocks /\ frontBlock \in DOMAIN blocks
  BY LinkedBlocks DEF Inv
<1>3. SameLength /\ \A c \in DOMAIN blocks : Same(c)
  <2>1. CASE UNCHANGED blocks
    BY <2>1 DEF SameLength, Same
  <2>2. CASE blocks' = [blocks EXCEPT ![b].localFront = front(b)]
    <3>1. /\ SameLength /\ SameOutside(b)
          /\ blocks'[b].front = front(b) /\ blocks'[b].tail = tail(b) /\ blocks'[b].next = next(b)
          /\ blocks'[b].size = blocks[b].size /\ blocks'[b].data = blocks[b].data
      BY <1>1, <1>2, <2>2, SeeFront DEF Inv
    <3> QED
      BY <3>1 DEF Same, SameOutside, front, tail, next
  <2> QED
    BY <2>1, <2>2 DEF FindRoom
<1>4. \A F : Numbered(F) => Numbered(F)'
  BY <1>1, <1>3, Quiet
<1>5. Pending'
  BY <1>1 DEF ItemInv, Pending
<1>6. Found'
  BY <1>1, <1>2, <1>3, FoundKept DEF ItemInv, Same, next
<1>7. Taken'
  BY <1>1 DEF ItemInv, Taken
<1> QED
  BY <1>4, <1>5, <1>6, <1>7 DEF ItemInv

LEMMA NextBlockItems == ASSUME Inv, ItemInv, NextBlock PROVE ItemInv'
<1>1. /\ producer = "full" /\ producer' \in {"advance", "alloc"}
      /\ UNCHANGED <<blocks, tailBlock, largestBlockSize, sent>>
      /\ UNCHANGED <<frontBlock, taken, consumer, got, visiting, seen, mark>>
      /\ UNCHANGED consumerVars
  BY DEF NextBlock, ProducerGoes, consumerVars
<1>2. SameLength /\ \A c \in DOMAIN blocks : Same(c)
  BY <1>1 DEF SameLength, Same
<1>3. \A F : Numbered(F) => Numbered(F)'
  BY <1>1, <1>2, Quiet
<1>4. Pending'
  BY <1>1 DEF ItemInv, Pending
<1>5. Found'
  BY <1>1, FoundKept DEF ItemInv, next
<1>6. Taken'
  BY <1>1 DEF ItemInv, Taken
<1> QED
  BY <1>3, <1>4, <1>5, <1>6 DEF ItemInv

LEMMA PutItems == ASSUME Inv, ItemInv, Put PROVE ItemInv'
<1> DEFINE b == tailBlock
<1>1. /\ producer = "put" /\ producer' = "publish" /\ UNCHANGED <<tailBlock, largestBlockSize, sent>>
      /\ UNCHANGED <<frontBlock, taken, consumer, got, visiting, seen, mark>>
      /\ UNCHANGED consumerVars
  BY DEF Put, ProducerGoes, consumerVars
<1>2. b \in DOMAIN blocks /\ frontBlock \in DOMAIN blocks /\ Linked \subseteq DOMAIN blocks
  BY LinkedBlocks DEF Inv
<1>3. Item \in Items
  BY <1>1, SizeAssumption DEF Item, Items, Inv, ControlOK
<1>4. /\ SameLength /\ SameOutside(b)
      /\ blocks'[b].front = front(b) /\ blocks'[b].tail = tail(b) /\ blocks'[b].next = next(b)
      /\ blocks'[b].size = blocks[b].size
      /\ blocks'[b].data = [blocks[b].data EXCEPT ![tail(b)] = Item]
  <2> DEFINE item == Item
  <2>1. item \in Items /\ blocks' = [blocks EXCEPT ![b].data[tail(b)] = item]
    BY <1>3 DEF Put
  <2> HIDE DEF item
  <2>2. /\ SameLength /\ SameOutside(b)
        /\ blocks'[b].front = front(b) /\ blocks'[b].tail = tail(b) /\ blocks'[b].next = next(b)
        /\ blocks'[b].size = blocks[b].size
        /\ blocks'[b].data = [blocks[b].data EXCEPT ![tail(b)] = item]
    BY <1>1, <1>2, <2>1, PutItem DEF Inv
  <2> QED
    BY <2>2 DEF item
<1>5. /\ tail(b) \in 0 .. blocks[b].size - 1 /\ blocks[b].data \in [0 .. blocks[b].size - 1 -> Items]
  BY <1>2, Counts
<1>6. \A c \in DOMAIN blocks :
        /\ blocks'[c].front = blocks[c].front /\ blocks'[c].tail = blocks[c].tail
        /\ blocks'[c].next = blocks[c].next /\ blocks'[c].size = blocks[c].size
  BY <1>4 DEF SameOutside, front, tail, next
<1>7. ASSUME NEW c \in DOMAIN blocks, NEW slot \in 0 .. blocks[c].size - 1, Nth(c, slot) < Count(c)
      PROVE  blocks'[c].data[slot] = blocks[c].data[slot]
  <2>1. CASE c # b
    BY <1>4, <2>1 DEF SameOutside
  <2>2. CASE c = b
    <3>1. slot # tail(b)
      BY <1>2, <1>7, <2>2, Counts DEF Count
    <3> QED
      BY <1>4, <1>5, <1>7, <2>2, <3>1
  <2> QED
    BY <2>1, <2>2
<1>8. Used' = Used
  <2>1. Linked' = Linked
    BY <1>1, <1>4 DEF Linked, SameLength
  <2>2. \A c \in DOMAIN blocks : Empty(c)' <=> Empty(c)
    BY <1>6 DEF Empty, front, tail
  <2> QED
    BY <1>1, <1>2, <2>1, <2>2, UsedKept
<1>9. ASSUME NEW F, Numbered(F) PROVE Numbered(F)'
  <2>1. \A c \in Used : c \in DOMAIN blocks
    BY UsedRing
  <2> QED
    BY <1>1, <1>6, <1>7, <1>8, <1>9, <2>1, NumbersKept
<1>10. Pending'
  <2>1. (blocks[tailBlock].data[tail(tailBlock)])' = Item'
    BY <1>1, <1>4, <1>5 DEF tail, Item
  <2> QED
    BY <1>1, <2>1 DEF ItemInv, Pending
<1>11. Found'
  BY <1>1, <1>2, <1>6, FoundKept DEF ItemInv, next
<1>12. Taken'
  BY <1>1 DEF ItemInv, Taken
<1> QED
  BY <1>9, <1>10, <1>11, <1>12 DEF ItemInv


LEMMA SameCounts ==
  ASSUME NEW b, Same(b)
  PROVE  /\ Count(b)' = Count(b) /\ next(b)' = next(b) /\ (Empty(b)' <=> Empty(b))
         /\ \A n : Holds(b, n)' <=> Holds(b, n)
BY DEF Same, Count, Holds, Nth, Empty, front, tail, next

(* The item behind the last one of a block joins them.                     *)
LEMMA Published ==
  ASSUME Inv, NEW b \in DOMAIN blocks, NEW n \in Nat, Holds(b, n),
         blocks[b].data[tail(b)] = n + Count(b),
         blocks'[b].front = front(b), blocks'[b].tail = After(b, tail(b)),
         blocks'[b].tail # front(b), blocks'[b].size = blocks[b].size, blocks'[b].data = blocks[b].data
  PROVE  Count(b)' = Count(b) + 1 /\ Holds(b, n)' /\ ~Empty(b)'
<1> DEFINE size == blocks[b].size  f == front(b)  t == tail(b)
<1>1. size \in Nat /\ size >= 2 /\ f \in 0 .. size - 1 /\ t \in 0 .. size - 1 /\ Step(size, t) # f
  BY Counts
<1>2. Count(b) = Dist(size, f, t) /\ Count(b)' = Dist(size, f, Step(size, t))
  BY Counts DEF Count, Nth, front, tail
<1>3. \A slot : Nth(b, slot) = Dist(size, f, slot) /\ Nth(b, slot)' = Dist(size, f, slot)
  BY DEF Nth, front
<1> HIDE DEF size, f, t
<1>4. Dist(size, f, Step(size, t)) = Dist(size, f, t) + 1
  BY <1>1, Distances
<1>5. Count(b)' = Count(b) + 1
  BY <1>2, <1>4
<1>6. ASSUME NEW slot \in 0 .. size - 1, Nth(b, slot)' < Count(b)'
      PROVE  blocks'[b].data[slot] = n + Nth(b, slot)'
  <2>1. Nth(b, slot) \in Nat /\ Count(b) \in Nat
    BY Counts DEF size
  <2>2. Nth(b, slot)' = Nth(b, slot)
    BY <1>3
  <2>3. CASE Nth(b, slot) < Count(b)
    BY <2>2, <2>3 DEF Holds, size
  <2>4. CASE Nth(b, slot) = Count(b)
    <3>1. slot = t
      BY <1>1, <1>2, <1>3, <2>4, Distances
    <3> QED
      BY <2>2, <2>4, <3>1 DEF t
  <2> QED
    BY <1>5, <1>6, <2>1, <2>2, <2>3, <2>4
<1>7. Holds(b, n)'
  BY <1>6 DEF Holds, size
<1>8. ~Empty(b)'
  BY DEF Empty, front, tail
<1> QED
  BY <1>5, <1>7, <1>8

LEMMA PublishItems == ASSUME Inv, ItemInv, Publish PROVE ItemInv'
<1>0. PICK b \in DOMAIN blocks : b = tailBlock
  BY LinkedBlocks DEF Inv
<1>1. /\ producer = "publish" /\ producer' = "idle" /\ sent' = sent + 1 /\ sent \in Nat
      /\ UNCHANGED <<tailBlock, largestBlockSize>>
      /\ UNCHANGED <<frontBlock, taken, consumer, got, visiting, seen, mark>>
      /\ UNCHANGED consumerVars
  BY SizeAssumption DEF Publish, ProducerGoes, consumerVars, Item, Inv, ControlOK, Items
<1>2. b \in DOMAIN blocks /\ frontBlock \in DOMAIN blocks /\ Linked \subseteq DOMAIN blocks
  BY LinkedBlocks DEF Inv
<1>3. /\ SameLength /\ SameOutside(b)
      /\ blocks'[b].front = front(b) /\ blocks'[b].tail # front(b) /\ blocks'[b].next = next(b)
      /\ blocks'[b].tail = After(b, tail(b))
      /\ blocks'[b].size = blocks[b].size /\ blocks'[b].data = blocks[b].data
  <2>1. Room(b)
    BY <1>0, <1>1 DEF Inv, ProducerOK
  <2>2. blocks' = [blocks EXCEPT ![b].tail = After(b, blocks[b].tail)]
    BY <1>0 DEF Publish
  <2> QED
    BY <1>1, <1>2, <2>1, <2>2, AdvanceTailOf DEF Inv
<1>4. \A c \in DOMAIN blocks : c # b => Same(c)
  BY <1>3 DEF SameOutside, Same
<1>5. ~Empty(b)' /\ (b # frontBlock => ~Empty(b)) /\ b \in Used
  <2>1. ~Empty(b)'
    BY <1>3 DEF Empty, front, tail
  <2> QED
    BY <1>0, <2>1, UsedRing DEF InUse
<1>6. Used' = Used
  <2>1. Linked' = Linked
    BY <1>1, <1>3 DEF Linked, SameLength
  <2>2. \A c \in DOMAIN blocks \ {frontBlock} : Empty(c)' <=> Empty(c)
    BY <1>4, <1>5, SameCounts
  <2> QED
    BY <1>1, <1>2, <2>1, <2>2, UsedKept
<1>7. ASSUME NEW F \in [Nat -> Nat], Numbered(F) PROVE Numbered(F)'
  <2>1. \A c \in Used : c \in DOMAIN blocks
    BY UsedRing
  <2>2. F[b] \in Nat /\ Holds(b, F[b]) /\ F[b] + Count(b) = sent + 1 /\ Count(b) \in Nat
    BY <1>0, <1>2, <1>5, <1>7, BlockAt, Counts DEF Numbered, Inv
  <2>3. blocks[b].data[tail(b)] = F[b] + Count(b)
    BY <1>0, <1>1, <2>2 DEF ItemInv, Pending, Item
  <2>4. Count(b)' = Count(b) + 1 /\ Holds(b, F[b])'
    BY <1>2, <1>3, <2>2, <2>3, Published
  <2>5. F[frontBlock'] = Len(taken') + 1
    BY <1>1, <1>7 DEF Numbered
  <2>6. F[tailBlock'] + Count(tailBlock)' = sent' + 1
    BY <1>0, <1>1, <2>2, <2>4
  <2>7. \A c \in Used' \ {tailBlock'} : F[next(c)'] = F[c] + Count(c)'
    BY <1>0, <1>1, <1>4, <1>6, <1>7, <2>1, SameCounts DEF Numbered
  <2>8. ASSUME NEW c \in Used' PROVE Holds(c, F[c])' /\ F[c] + Count(c)' <= sent' + 1
    <3>1. CASE c = b
      BY <1>0, <1>1, <2>4, <2>6, <3>1
    <3>2. CASE c # b
      <4>1. /\ c \in DOMAIN blocks /\ F[c] \in Nat /\ Count(c) \in Nat
            /\ Holds(c, F[c]) /\ F[c] + Count(c) <= sent + 1
        BY <1>6, <1>7, <2>1, <2>8, BlockAt, Counts DEF Numbered, Inv
      <4> QED
        BY <1>1, <1>4, <3>2, <4>1, SameCounts
    <3> QED
      BY <3>1, <3>2
  <2> QED
    BY <2>5, <2>6, <2>7, <2>8 DEF Numbered
<1>8. Pending'
  BY <1>1 DEF ItemInv, Pending
<1>9. Found'
  BY <1>0, <1>1, <1>2, <1>4, FoundKept, SameCounts DEF ItemInv
<1>10. Taken'
  BY <1>1 DEF ItemInv, Taken
<1> QED
  BY <1>7, <1>8, <1>9, <1>10 DEF ItemInv

LEMMA PutAheadItems == ASSUME Inv, ItemInv, PutAhead PROVE ItemInv'
<1>0. PICK b \in DOMAIN blocks : b = next(tailBlock)
  BY LinkedBlocks DEF Inv
<1>1. /\ producer = "advance" /\ producer' = "ahead" /\ UNCHANGED <<tailBlock, largestBlockSize, sent>>
      /\ UNCHANGED <<frontBlock, taken, consumer, got, visiting, seen, mark>>
      /\ UNCHANGED consumerVars
  BY DEF PutAhead, ProducerGoes, consumerVars
<1>2. /\ frontBlock \in DOMAIN blocks /\ tailBlock \in DOMAIN blocks /\ Linked \subseteq DOMAIN blocks
  BY LinkedBlocks DEF Inv
<1>3. Item \in Items
  BY <1>1, SizeAssumption DEF Item, Items, Inv, ControlOK
<1>4. /\ SameLength /\ SameOutside(b)
      /\ blocks'[b].front = front(b) /\ blocks'[b].tail = tail(b) /\ blocks'[b].next = next(b)
      /\ blocks'[b].size = blocks[b].size
      /\ blocks'[b].data = [blocks[b].data EXCEPT ![tail(b)] = Item]
  <2> DEFINE item == Item
  <2>1. item \in Items /\ blocks' = [blocks EXCEPT ![b].localFront = front(b), ![b].data[tail(b)] = item]
    BY <1>0, <1>3 DEF PutAhead
  <2> HIDE DEF item
  <2>2. /\ SameLength /\ SameOutside(b)
        /\ blocks'[b].front = front(b) /\ blocks'[b].tail = tail(b) /\ blocks'[b].next = next(b)
        /\ blocks'[b].size = blocks[b].size
        /\ blocks'[b].data = [blocks[b].data EXCEPT ![tail(b)] = item]
    BY <1>1, <1>2, <2>1, PutItemAhead DEF Inv
  <2> QED
    BY <2>2 DEF item
<1>5. b \notin Used
  <2>1. Used \in SUBSET Linked /\ InUse(Used)
    BY UsedRing
  <2> QED
    BY <1>0, <1>1, <2>1, NextIsFree
<1>6. \A c \in DOMAIN blocks :
        /\ blocks'[c].front = blocks[c].front /\ blocks'[c].tail = blocks[c].tail
        /\ blocks'[c].next = blocks[c].next /\ blocks'[c].size = blocks[c].size
        /\ c # b => blocks'[c].data = blocks[c].data
  BY <1>4 DEF SameOutside, front, tail, next
<1>7. Used' = Used
  <2>1. Linked' = Linked
    BY <1>1, <1>4 DEF Linked, SameLength
  <2>2. \A c \in DOMAIN blocks : Empty(c)' <=> Empty(c)
    BY <1>6 DEF Empty, front, tail
  <2> QED
    BY <1>1, <1>2, <2>1, <2>2, UsedKept
<1>8. ASSUME NEW F, Numbered(F) PROVE Numbered(F)'
  <2>1. \A c \in Used : c \in DOMAIN blocks /\ c # b
    BY <1>5, UsedRing
  <2> QED
    BY <1>1, <1>6, <1>7, <1>8, <2>1, NumbersKept
<1>9. Pending'
  <2>1. next(tailBlock)' = b
    BY <1>0, <1>1, <1>2, <1>6 DEF next
  <2>2. blocks'[b].data[blocks'[b].tail] = Item
    BY <1>4, Counts
  <2>3. (blocks[next(tailBlock)].data[tail(next(tailBlock))])' = Item'
    BY <1>1, <2>1, <2>2 DEF tail, Item
  <2> QED
    BY <1>1, <2>3 DEF ItemInv, Pending
<1>10. Found'
  BY <1>1, <1>2, <1>6, FoundKept DEF ItemInv, next
<1>11. Taken'
  BY <1>1 DEF ItemInv, Taken
<1> QED
  BY <1>8, <1>9, <1>10, <1>11 DEF ItemInv

LEMMA PublishAheadItems == ASSUME Inv, ItemInv, PublishAhead PROVE ItemInv'
<1>0. PICK b \in DOMAIN blocks : b = next(tailBlock)
  BY LinkedBlocks DEF Inv
<1>1. /\ producer = "ahead" /\ producer' = "linked" /\ UNCHANGED <<tailBlock, largestBlockSize, sent>>
      /\ UNCHANGED <<frontBlock, taken, consumer, got, visiting, seen, mark>>
      /\ UNCHANGED consumerVars /\ sent \in Nat
  BY SizeAssumption DEF PublishAhead, ProducerGoes, consumerVars, Inv, ControlOK, Items
<1>2. /\ frontBlock \in DOMAIN blocks /\ tailBlock \in DOMAIN blocks /\ Linked \subseteq DOMAIN blocks
  BY LinkedBlocks DEF Inv
<1>3. /\ SameLength /\ SameOutside(b)
      /\ blocks'[b].front = front(b) /\ blocks'[b].tail # front(b) /\ blocks'[b].next = next(b)
      /\ blocks'[b].tail = After(b, tail(b))
      /\ blocks'[b].size = blocks[b].size /\ blocks'[b].data = blocks[b].data
  <2>1. Room(b)
    BY <1>0, <1>1 DEF Inv, ProducerOK
  <2>2. blocks' = [blocks EXCEPT ![b].tail = After(b, blocks[b].tail)]
    BY <1>0 DEF PublishAhead
  <2> QED
    BY <1>1, <2>1, <2>2, AdvanceTailOf DEF Inv
<1>4. \A c \in DOMAIN blocks : c # b => Same(c)
  BY <1>3 DEF SameOutside, Same
<1>5. b \notin Used /\ Empty(b) /\ b # frontBlock /\ b # tailBlock
  <2>1. Used \in SUBSET Linked /\ InUse(Used)
    BY UsedRing
  <2> QED
    BY <1>0, <1>1, <2>1, NextIsFree
<1>6. next(tailBlock)' = b
  BY <1>0, <1>1, <1>2, <1>4, <1>5, SameCounts
<1>7. Used' = Used
  <2>1. Linked' = Linked
    BY <1>1, <1>3 DEF Linked, SameLength
  <2>2. \A c \in DOMAIN blocks : c # b => (Empty(c)' <=> Empty(c))
    BY <1>4, SameCounts
  <2> QED
    BY <1>0, <1>1, <1>2, <1>5, <1>6, <2>1, <2>2, UsedKept
<1>8. ASSUME NEW F, Numbered(F) PROVE Numbered(F)'
  <2>1. \A c \in Used : Same(c)
    BY <1>4, <1>5, UsedRing
  <2> QED
    BY <1>1, <1>7, <1>8, <2>1, NumbersKept DEF Same
<1>9. Pending'
  <2>1. PICK n \in Nat : n = Item /\ Item' = n /\ blocks[b].data[tail(b)] = n
    BY <1>0, <1>1 DEF Item, ItemInv, Pending
  <2>2. Count(b) = 0
    BY <1>5, Counts
  <2>3. Holds(b, n)
    BY <2>2, Counts DEF Holds
  <2>4. Count(b)' = 1 /\ Holds(b, n)'
    BY <1>3, <2>1, <2>2, <2>3, Published
  <2>5. Count(next(tailBlock))' = 1 /\ Holds(next(tailBlock), Item)'
    BY <1>6, <2>1, <2>4
  <2> QED
    BY <1>1, <2>5 DEF ItemInv, Pending
<1>10. Found'
  BY <1>1, <1>2, <1>4, <1>5, FoundKept, SameCounts DEF ItemInv
<1>11. Taken'
  BY <1>1 DEF ItemInv, Taken
<1> QED
  BY <1>8, <1>9, <1>10, <1>11 DEF ItemInv

LEMMA AllocateItems == ASSUME Inv, ItemInv, Allocate PROVE ItemInv'
<1>1. /\ producer = "alloc" /\ producer' = "link" /\ UNCHANGED <<tailBlock, sent>> /\ sent \in Nat
      /\ UNCHANGED <<frontBlock, taken, consumer, got, visiting, seen, mark>>
      /\ UNCHANGED consumerVars
  BY SizeAssumption DEF Allocate, ProducerGoes, consumerVars, Inv, ControlOK, Items
<1>2. /\ tailBlock \in DOMAIN blocks /\ frontBlock \in DOMAIN blocks /\ Linked \subseteq DOMAIN blocks
      /\ DOMAIN blocks = 1 .. Len(blocks) /\ Len(blocks) \in Nat
  BY LinkedBlocks DEF Inv
<1>3. /\ Len(blocks') = Len(blocks) + 1
      /\ \A b \in DOMAIN blocks : blocks'[b] = blocks[b]
      /\ blocks'[Len(blocks')].front = 0 /\ blocks'[Len(blocks')].tail = 1
      /\ blocks'[Len(blocks')].size \in Nat /\ blocks'[Len(blocks')].size >= 2
      /\ blocks'[Len(blocks')].data[0] = Item
  BY <1>2, AddBlock DEF Inv
<1>4. \A b \in DOMAIN blocks : Same(b)
  BY <1>3 DEF Same
<1>5. Used' = Used
  <2>1. Linked' = Linked
    BY <1>1, <1>2, <1>3 DEF Linked
  <2> QED
    BY <1>1, <1>2, <1>4, <2>1, SameCounts, UsedKept
<1>6. ASSUME NEW F, Numbered(F) PROVE Numbered(F)'
  <2>1. \A b \in Used : Same(b)
    BY <1>4, UsedRing
  <2> QED
    BY <1>1, <1>5, <1>6, <2>1, NumbersKept DEF Same
<1>7. Pending'
  <2>0. Len(blocks') \in Nat /\ Item \in Nat
    BY <1>1, <1>2, <1>3 DEF Item
  <2>1. PICK b \in Nat, n \in Nat, size \in Nat :
           b = Len(blocks') /\ n = Item /\ size = blocks'[b].size
    BY <1>3, <2>0, Zenon
  <2>2. \A slot \in 0 .. size - 1 : Dist(size, 0, slot) = slot
    BY DEF Dist
  <2>3. \A slot \in 0 .. size - 1 : Nth(b, slot)' = slot
    BY <1>3, <2>1, <2>2 DEF Nth, front
  <2>4. Count(b)' = 1
    BY <1>3, <2>1, <2>3 DEF Count, tail
  <2>5. Holds(b, n)'
    BY <1>3, <2>1, <2>3, <2>4 DEF Holds
  <2>6. Count(Len(blocks))' = 1 /\ Holds(Len(blocks), Item)'
    BY <1>1, <2>1, <2>4, <2>5 DEF Item
  <2> QED
    BY <1>1, <2>6 DEF ItemInv, Pending
<1>8. Found'
  BY <1>1, <1>2, <1>4, FoundKept, SameCounts DEF ItemInv
<1>9. Taken'
  BY <1>1 DEF ItemInv, Taken
<1> QED
  BY <1>6, <1>7, <1>8, <1>9 DEF ItemInv

LEMMA LinkItems == ASSUME Inv, ItemInv, Link PROVE ItemInv'
<1>0. PICK t \in DOMAIN blocks, n \in DOMAIN blocks : t = tailBlock /\ n = Len(blocks)
  BY LinkedBlocks DEF Inv, RingOK, Shape, Link
<1>1. /\ producer = "link" /\ producer' = "linked" /\ UNCHANGED <<tailBlock, largestBlockSize, sent>>
      /\ UNCHANGED <<frontBlock, taken, consumer, got, visiting, seen, mark>>
      /\ UNCHANGED consumerVars
  BY DEF Link, ProducerGoes, consumerVars
<1>2. /\ frontBlock \in DOMAIN blocks /\ Linked \subseteq DOMAIN blocks
      /\ DOMAIN blocks = 1 .. Len(blocks) /\ Len(blocks) \in Nat
  BY LinkedBlocks DEF Inv
<1>3. n \notin Linked /\ Linked = 1 .. n - 1 /\ t \in Linked /\ frontBlock \in Linked
  BY <1>0, <1>1, <1>2 DEF Linked, Inv, RingOK, Shape
<1>4. /\ SameLength /\ SameOutside(t)
      /\ blocks'[t].front = front(t) /\ blocks'[t].tail = tail(t) /\ blocks'[t].next = n
      /\ blocks'[t].size = blocks[t].size /\ blocks'[t].data = blocks[t].data
  <2>1. blocks' = [blocks EXCEPT ![t].next = n]
    BY <1>0 DEF Link
  <2> QED
    BY <1>1, <2>1, SetNext DEF Inv
<1>5. \A c \in DOMAIN blocks :
        /\ blocks'[c].front = blocks[c].front /\ blocks'[c].tail = blocks[c].tail
        /\ blocks'[c].size = blocks[c].size /\ blocks'[c].data = blocks[c].data
        /\ c # t => blocks'[c].next = blocks[c].next
  BY <1>4 DEF SameOutside, front, tail, next
<1>6. next(tailBlock)' = n
  BY <1>0, <1>1, <1>4 DEF next
<1>7. Used' = Used
  <2>1. Linked' = Linked \cup {n}
    BY <1>0, <1>1, <1>2, <1>3, <1>4 DEF Linked, SameLength
  <2>2. \A c \in DOMAIN blocks : Empty(c)' <=> Empty(c)
    BY <1>5 DEF Empty, front, tail
  <2> QED
    BY <1>1, <1>2, <1>3, <1>6, <2>1, <2>2 DEF Used
<1>8. ASSUME NEW F, Numbered(F) PROVE Numbered(F)'
  <2>1. \A c \in Used : c \in DOMAIN blocks
    BY UsedRing
  <2> QED
    BY <1>0, <1>1, <1>5, <1>7, <1>8, <2>1, NumbersKept
<1>9. Pending'
  <2>1. Count(n)' = Count(n) /\ \A i : Holds(n, i)' <=> Holds(n, i)
    BY <1>0, <1>3, <1>5, SameCounts DEF Same
  <2>2. PICK i : i = Item /\ Item' = i
    BY <1>1 DEF Item
  <2>3. Count(n) = 1 /\ Holds(n, i)
    BY <1>0, <1>1, <2>2 DEF ItemInv, Pending
  <2>4. Count(next(tailBlock))' = 1 /\ Holds(next(tailBlock), Item)'
    BY <1>6, <2>1, <2>2, <2>3
  <2> QED
    BY <1>1, <2>4 DEF ItemInv, Pending
<1>10. Found'
  BY <1>0, <1>1, <1>2, <1>5, FoundKept DEF ItemInv, next
<1>11. Taken'
  BY <1>1 DEF ItemInv, Taken
<1> QED
  BY <1>8, <1>9, <1>10, <1>11 DEF ItemInv

LEMMA AdvanceTailItems == ASSUME Inv, ItemInv, AdvanceTail PROVE ItemInv'
<1>0. PICK t \in DOMAIN blocks, n \in DOMAIN blocks : t = tailBlock /\ n = next(tailBlock)
  BY LinkedBlocks DEF Inv
<1>1. /\ producer = "linked" /\ producer' = "idle" /\ tailBlock' = n /\ sent' = sent + 1
      /\ UNCHANGED <<blocks, largestBlockSize>> /\ sent \in Nat
      /\ UNCHANGED <<frontBlock, taken, consumer, got, visiting, seen, mark>>
      /\ UNCHANGED consumerVars
  BY <1>0, SizeAssumption
  DEF AdvanceTail, ProducerGoes, consumerVars, Item, Inv, ControlOK, Items
<1>2. n \notin Used /\ n \in Linked /\ n # frontBlock /\ n # t /\ ~Empty(n)
  <2>1. Used \in SUBSET Linked /\ InUse(Used)
    BY UsedRing
  <2> QED
    BY <1>0, <1>1, <2>1, NextIsFree
<1>3. /\ t \in Used /\ \A b \in Used \ {t} : next(b) \in Used
      /\ Used \subseteq DOMAIN blocks /\ frontBlock \in Used
  BY <1>0, UsedRing DEF InUse
<1>4. \A b : Same(b)
  BY <1>1 DEF Same
<1>5. Used' = Used \cup {n}
  <2>1. Linked' = Linked
    BY <1>1 DEF Linked
  <2> QED
    BY <1>0, <1>1, <1>2, <1>4, <2>1, SameCounts DEF Used
<1>6. ASSUME NEW F \in [Nat -> Nat], Numbered(F)
      PROVE  \E G \in [Nat -> Nat] : Numbered(G)'
  <2>1. PICK i \in Nat : i = Item
    BY <1>1 DEF Item
  <2> DEFINE G == [F EXCEPT ![n] = i]
  <2>2. DOMAIN blocks \subseteq Nat
    BY LinkedBlocks DEF Inv
  <2>3. G \in [Nat -> Nat] /\ G[n] = i /\ \A b \in Used : G[b] = F[b]
    BY <1>2, <1>3, <2>1, <2>2
  <2> HIDE DEF G
  <2>4. Count(n) = 1 /\ Holds(n, i)
    BY <1>0, <1>1, <2>1 DEF ItemInv, Pending
  <2>5. G[frontBlock'] = Len(taken') + 1
    BY <1>1, <1>3, <1>6, <2>3 DEF Numbered
  <2>6. Count(n)' = 1 /\ Holds(n, i)'
    BY <1>4, <2>4, SameCounts
  <2>7. G[tailBlock'] + Count(tailBlock)' = sent' + 1
    BY <1>1, <2>1, <2>3, <2>6 DEF Item
  <2>8. ASSUME NEW b \in Used' \ {tailBlock'}
        PROVE  G[next(b)'] = G[b] + Count(b)'
    <3>1. b \in Used /\ Count(b)' = Count(b) /\ next(b)' = next(b)
      BY <1>1, <1>4, <1>5, <2>8, SameCounts
    <3>2. CASE b = t
      BY <1>0, <1>3, <1>6, <2>1, <2>3, <3>1, <3>2 DEF Numbered, Item
    <3>3. CASE b # t
      BY <1>0, <1>3, <1>6, <2>3, <3>1, <3>3 DEF Numbered
    <3> QED
      BY <3>2, <3>3
  <2>9. ASSUME NEW b \in Used'
        PROVE  Holds(b, G[b])' /\ G[b] + Count(b)' <= sent' + 1
    <3>1. CASE b = n
      BY <1>1, <2>1, <2>3, <2>6, <3>1 DEF Item
    <3>2. CASE b # n
      <4>1. /\ b \in DOMAIN blocks /\ b \in Used /\ F[b] \in Nat /\ Count(b) \in Nat
            /\ Holds(b, F[b]) /\ F[b] + Count(b) <= sent + 1
        BY <1>3, <1>5, <1>6, <2>2, <2>9, <3>2, Counts DEF Numbered
      <4> QED
        BY <1>1, <1>4, <2>3, <4>1, SameCounts
    <3> QED
      BY <3>1, <3>2
  <2> QED
    BY <2>3, <2>5, <2>7, <2>8, <2>9 DEF Numbered
<1>7. Pending'
  BY <1>1 DEF ItemInv, Pending
<1>8. Found'
  BY <1>1, <1>2, <1>4, FoundKept, SameCounts DEF ItemInv
<1>9. Taken'
  BY <1>1 DEF ItemInv, Taken
<1> QED
  BY <1>6, <1>7, <1>8, <1>9 DEF ItemInv

-----------------------------------------------------------------------------
(*                    The items: the consumer's steps                      *)

(* A step of the consumer that at most renews its copy of a tail.          *)
LEMMA LooksKeepItems ==
  ASSUME Inv, ItemInv, SameLength, \A b \in DOMAIN blocks : Same(b),
         UNCHANGED <<producerVars, frontBlock, taken>>,
         consumer' = "release" => got' = Len(taken) + 1, Found'
  PROVE  ItemInv'
<1>1. UNCHANGED <<tailBlock, largestBlockSize, sent, producer>>
  BY DEF producerVars
<1>2. \A F : Numbered(F) => Numbered(F)'
  BY <1>1, Quiet
<1>3. Pending'
  BY <1>1, PendingKept DEF ItemInv, Same
<1>4. Taken'
  BY DEF ItemInv, Taken
<1> QED
  BY <1>2, <1>3, <1>4 DEF ItemInv

LEMMA LookSame ==
  ASSUME Inv, NEW b \in DOMAIN blocks, blocks' = [blocks EXCEPT ![b].localTail = tail(b)],
         largestBlockSize' = largestBlockSize
  PROVE  SameLength /\ \A c \in DOMAIN blocks : Same(c)
<1>1. /\ SameLength /\ SameOutside(b)
      /\ blocks'[b].front = front(b) /\ blocks'[b].tail = tail(b) /\ blocks'[b].next = next(b)
      /\ blocks'[b].size = blocks[b].size /\ blocks'[b].data = blocks[b].data
  BY SeeTail DEF Inv
<1> QED
  BY <1>1 DEF Same, SameOutside, front, tail, next

(* An empty block that is the front block and the tail block: an empty     *)
(* queue.                                                                  *)
LEMMA NoneLeft ==
  ASSUME Inv, ItemInv, frontBlock = tailBlock, Empty(frontBlock)
  PROVE  Len(taken) = sent
<1>1. frontBlock \in DOMAIN blocks /\ sent \in Nat /\ Len(taken) \in Nat
  BY LinkedBlocks, LenProperties, SizeAssumption DEF Inv, ControlOK, Items, ItemInv, Taken
<1>2. Count(frontBlock) = 0
  BY <1>1, Counts
<1>3. PICK F \in [Nat -> Nat] : Numbered(F)
  BY DEF ItemInv
<1> QED
  BY <1>1, <1>2, <1>3 DEF Numbered

LEMMA LookInFrontItems == ASSUME Inv, ItemInv, LookInFront PROVE ItemInv'
<1>1. /\ consumer = "idle" /\ mark' = sent /\ UNCHANGED <<producerVars, frontBlock, taken>>
      /\ UNCHANGED <<tailBlock, largestBlockSize, sent>> /\ consumer' \in {"take", "other"}
  BY DEF LookInFront, LookAt, ConsumerGoes, producerVars
<1>2. frontBlock \in DOMAIN blocks /\ sent \in Nat
  BY LinkedBlocks, SizeAssumption DEF Inv, ControlOK, Items
<1>3. SameLength /\ \A b \in DOMAIN blocks : Same(b)
  <2>1. CASE UNCHANGED blocks
    BY <2>1 DEF SameLength, Same
  <2>2. CASE LookAt(frontBlock, "other")
    BY <1>1, <1>2, <2>2, LookSame DEF LookAt
  <2> QED
    BY <2>1, <2>2 DEF LookInFront
<1>4. consumer' = "other" => Empty(frontBlock)
  BY DEF LookInFront, LookAt, ConsumerGoes, Empty
<1>5. Found'
  <2>1. consumer' = "other" => AllSeen' \/ frontBlock' # tailBlock'
    BY <1>1, <1>2, <1>4, NoneLeft DEF AllSeen
  <2> QED
    BY <1>1, <2>1 DEF Found
<1> QED
  BY <1>1, <1>3, <1>5, LooksKeepItems

LEMMA OtherBlockItems == ASSUME Inv, ItemInv, OtherBlock PROVE ItemInv'
<1>1. /\ consumer = "other" /\ consumer' = IF frontBlock = tailBlock THEN "empty" ELSE "again"
      /\ UNCHANGED <<blocks, producerVars, frontBlock, taken, mark>>
  BY DEF OtherBlock, ConsumerGoes
<1>2. SameLength /\ \A b \in DOMAIN blocks : Same(b)
  BY <1>1 DEF SameLength, Same
<1>3. Found'
  BY <1>1 DEF ItemInv, Found, AllSeen
<1> QED
  BY <1>1, <1>2, <1>3, LooksKeepItems

LEMMA LookAgainItems == ASSUME Inv, ItemInv, LookAgain PROVE ItemInv'
<1>1. /\ consumer' \in {"take", "hop"} /\ UNCHANGED <<producerVars, frontBlock, taken>>
      /\ blocks' = [blocks EXCEPT ![frontBlock].localTail = tail(frontBlock)]
      /\ largestBlockSize' = largestBlockSize
  BY DEF LookAgain, LookAt, ConsumerGoes, producerVars
<1>2. frontBlock \in DOMAIN blocks
  BY LinkedBlocks DEF Inv
<1>3. SameLength /\ \A b \in DOMAIN blocks : Same(b)
  BY <1>1, <1>2, LookSame
<1>4. Found'
  BY <1>1 DEF Found
<1> QED
  BY <1>1, <1>3, <1>4, LooksKeepItems

LEMMA LookAheadItems == ASSUME Inv, ItemInv, LookAhead PROVE ItemInv'
<1>0. PICK b \in DOMAIN blocks : b = next(frontBlock)
  BY LinkedBlocks DEF Inv
<1>1. /\ consumer' = "leave" /\ UNCHANGED <<producerVars, frontBlock, taken>>
      /\ blocks' = [blocks EXCEPT ![b].localTail = tail(b)]
      /\ largestBlockSize' = largestBlockSize
  BY <1>0 DEF LookAhead, ConsumerGoes, producerVars
<1>2. SameLength /\ \A c \in DOMAIN blocks : Same(c)
  BY <1>1, LookSame
<1>3. Found'
  BY <1>1 DEF Found
<1> QED
  BY <1>1, <1>2, <1>3, LooksKeepItems

LEMMA LeaveFrontItems == ASSUME Inv, ItemInv, LeaveFront PROVE ItemInv'
<1>0. PICK f \in DOMAIN blocks, n \in DOMAIN blocks : f = frontBlock /\ n = next(frontBlock)
  BY LinkedBlocks DEF Inv
<1>1. /\ consumer = "leave" /\ consumer' = "take" /\ frontBlock' = n
      /\ UNCHANGED <<blocks, tailBlock, sent, producer, taken>>
  BY <1>0 DEF LeaveFront, ConsumerGoes, producerVars
<1>2. f # tailBlock /\ Empty(f) /\ Count(f) = 0 /\ Len(taken) \in Nat
  BY <1>0, <1>1, Counts, LenProperties DEF Inv, ConsumerOK, ItemInv, Taken
<1>3. /\ InUse(Used) /\ f \in Used /\ n \in Used /\ n # f /\ ~Empty(n) /\ Used \subseteq Linked
      /\ Used \subseteq DOMAIN blocks
  BY <1>0, <1>2, UsedRing DEF InUse
<1>4. \A b : Same(b)
  BY <1>1 DEF Same
<1>5. Used' = Used \ {f}
  <2>1. Linked' = Linked
    BY <1>1 DEF Linked
  <2>2. next(tailBlock)' = next(tailBlock)
    BY <1>1 DEF next
  <2>3. ~(producer = "linked" /\ n = next(tailBlock))
    <3>1. producer = "linked" => next(tailBlock) \notin Used
      BY <1>3, NextIsFree
    <3> QED
      BY <1>3, <3>1
  <2> QED
    BY <1>0, <1>1, <1>2, <1>3, <1>4, <2>1, <2>2, <2>3, SameCounts DEF Used
<1>6. ASSUME NEW F \in [Nat -> Nat], Numbered(F) PROVE Numbered(F)'
  <2>1. F[n] = F[f] + Count(f) /\ F[f] = Len(taken) + 1
    BY <1>0, <1>2, <1>3, <1>6 DEF Numbered
  <2>2. F[frontBlock'] = Len(taken') + 1
    BY <1>1, <1>2, <2>1
  <2>3. F[tailBlock'] + Count(tailBlock)' = sent' + 1
    BY <1>1, <1>6 DEF Numbered, Count, Nth, front, tail
  <2>4. \A b \in Used' \ {tailBlock'} : F[next(b)'] = F[b] + Count(b)'
    BY <1>1, <1>4, <1>5, <1>6, SameCounts DEF Numbered
  <2>5. \A b \in Used' : Holds(b, F[b])' /\ F[b] + Count(b)' <= sent' + 1
    BY <1>1, <1>4, <1>5, <1>6, SameCounts DEF Numbered
  <2> QED
    BY <2>2, <2>3, <2>4, <2>5 DEF Numbered
<1>7. Pending'
  <2>1. SameLength /\ consumer' # "release"
    BY <1>1 DEF SameLength
  <2> QED
    BY <1>1, <1>4, <2>1, PendingKept DEF ItemInv, Same
<1>8. Found'
  BY <1>1 DEF Found
<1>9. Taken'
  BY <1>1 DEF ItemInv, Taken
<1> QED
  BY <1>6, <1>7, <1>8, <1>9 DEF ItemInv

(* What the consumer takes is the item that comes next.                    *)
LEMMA TakeItems == ASSUME Inv, ItemInv, Take PROVE ItemInv'
<1>1. /\ consumer = "take" /\ consumer' = "release"
      /\ got' = blocks[frontBlock].data[front(frontBlock)]
      /\ UNCHANGED <<blocks, producerVars, frontBlock, taken>>
  BY DEF Take, ConsumerGoes
<1>2. SameLength /\ \A b \in DOMAIN blocks : Same(b)
  BY <1>1 DEF SameLength, Same
<1>3. frontBlock \in DOMAIN blocks /\ ~Empty(frontBlock)
  <2>1. frontBlock \in DOMAIN blocks /\ front(frontBlock) # blocks[frontBlock].localTail
    BY <1>1, LinkedBlocks DEF Inv, ConsumerOK
  <2>2. Good(blocks[frontBlock])
    BY <2>1, BlockAt DEF Inv
  <2> QED
    BY <2>1, <2>2, GoodSeen DEF front, tail, Empty
<1>4. PICK F \in [Nat -> Nat] : Numbered(F)
  BY DEF ItemInv
<1>5. got' = Len(taken) + 1
  <2>1. Holds(frontBlock, F[frontBlock]) /\ F[frontBlock] = Len(taken) + 1 /\ Len(taken) \in Nat
    BY <1>4, UsedRing, LenProperties DEF Numbered, InUse, ItemInv, Taken
  <2>2. /\ front(frontBlock) \in 0 .. blocks[frontBlock].size - 1
        /\ Count(frontBlock) \in Nat /\ Count(frontBlock) # 0
        /\ Nth(frontBlock, front(frontBlock)) = 0
    BY <1>3, Counts
  <2>3. blocks[frontBlock].data[front(frontBlock)] = F[frontBlock] + Nth(frontBlock, front(frontBlock))
    <3>1. 0 < Count(frontBlock)
      BY <2>2
    <3> QED
      BY <2>1, <2>2, <3>1 DEF Holds
  <2> QED
    BY <1>1, <2>1, <2>2, <2>3
<1>6. Found'
  BY <1>1 DEF Found
<1> QED
  BY <1>1, <1>2, <1>5, <1>6, LooksKeepItems

(* The first item of a block leaves it.                                    *)
LEMMA Released ==
  ASSUME Inv, NEW b \in DOMAIN blocks, NEW n \in Nat, Holds(b, n), ~Empty(b),
         blocks'[b].front = After(b, front(b)), blocks'[b].tail = tail(b),
         blocks'[b].size = blocks[b].size, blocks'[b].data = blocks[b].data
  PROVE  Count(b)' \in Nat /\ Count(b) = Count(b)' + 1 /\ Holds(b, n + 1)'
<1> DEFINE size == blocks[b].size  f == front(b)  t == tail(b)
<1>1. size \in Nat /\ size >= 2 /\ f \in 0 .. size - 1 /\ t \in 0 .. size - 1 /\ t # f
  BY Counts DEF Empty
<1>2. Count(b) = Dist(size, f, t) /\ Count(b)' = Dist(size, Step(size, f), t)
  BY Counts DEF Count, Nth, front, tail
<1>3. \A slot : Nth(b, slot) = Dist(size, f, slot) /\ Nth(b, slot)' = Dist(size, Step(size, f), slot)
  BY Counts DEF Nth, front
<1>4. Count(b) \in Nat /\ \A slot \in 0 .. size - 1 : Nth(b, slot) \in Nat
  BY Counts
<1> HIDE DEF size, f, t
<1>5. Dist(size, Step(size, f), t) = Dist(size, f, t) - 1
  BY <1>1, Distances
<1>6. Count(b)' = Count(b) - 1 /\ Count(b) # 0
  BY <1>2, <1>5, Counts
<1>7. ASSUME NEW slot \in 0 .. size - 1, Nth(b, slot)' < Count(b)'
      PROVE  blocks'[b].data[slot] = n + 1 + Nth(b, slot)'
  <2>1. slot # f
    <3>1. CASE slot = f
      <4>1. Dist(size, Step(size, f), f) = size - 1 /\ Dist(size, Step(size, f), t) \in 0 .. size - 1
        <5>1. Step(size, f) \in 0 .. size - 1
          BY <1>1 DEF Step
        <5>2. Dist(size, Step(size, f), t) \in 0 .. size - 1
          BY <1>1, <5>1, Distances
        <5>3. Dist(size, Step(size, f), f) = size - 1
          BY <1>1, Z3 DEF Dist, Step
        <5> QED
          BY <5>2, <5>3
      <4> QED
        BY <1>1, <1>2, <1>3, <1>7, <3>1, <4>1
    <3> QED
      BY <3>1
  <2>2. Nth(b, slot)' = Nth(b, slot) - 1
    BY <1>1, <1>3, <2>1, Distances
  <2>3. Nth(b, slot) < Count(b)
    BY <1>4, <1>6, <1>7, <2>2
  <2>4. blocks[b].data[slot] = n + Nth(b, slot)
    BY <2>3 DEF Holds, size
  <2> QED
    BY <1>4, <2>2, <2>4
<1>8. Holds(b, n + 1)'
  BY <1>7 DEF Holds, size
<1> QED
  BY <1>4, <1>6, <1>8

LEMMA ReleaseItems == ASSUME Inv, ItemInv, Release PROVE ItemInv'
<1>0. PICK f \in DOMAIN blocks : f = frontBlock
  BY LinkedBlocks DEF Inv
<1>1. /\ consumer = "release" /\ consumer' = "idle" /\ taken' = Append(taken, got)
      /\ UNCHANGED <<frontBlock, tailBlock, largestBlockSize, sent, producer>>
      /\ blocks' = [blocks EXCEPT ![f].front = After(f, blocks[f].front)]
  BY <1>0 DEF Release, ConsumerGoes, producerVars
<1>2. /\ front(f) # blocks[f].localTail /\ ~Empty(f)
      /\ got = Len(taken) + 1 /\ got \in Items /\ Len(taken) \in Nat
  <2>1. front(f) # blocks[f].localTail
    BY <1>0, <1>1 DEF Inv, ConsumerOK
  <2>2. Good(blocks[f])
    BY BlockAt DEF Inv
  <2>3. ~Empty(f)
    BY <2>1, <2>2, GoodSeen DEF front, tail, Empty
  <2> QED
    BY <1>1, <2>1, <2>3, LenProperties DEF ItemInv, Taken, Pending, Inv, ControlOK
<1>3. /\ SameLength /\ SameOutside(f)
      /\ blocks'[f].front = After(f, front(f)) /\ blocks'[f].tail = tail(f)
      /\ blocks'[f].next = next(f)
      /\ blocks'[f].size = blocks[f].size /\ blocks'[f].data = blocks[f].data
  BY <1>1, <1>2, AdvanceFrontOf DEF Inv
<1>4. /\ \A c \in DOMAIN blocks : c # f => Same(c)
      /\ \A c \in DOMAIN blocks : next(c)' = next(c)
  BY <1>3 DEF SameOutside, Same, next
<1>5. Used' = Used
  <2>1. Linked' = Linked /\ Linked \subseteq DOMAIN blocks /\ tailBlock \in DOMAIN blocks
    BY <1>1, <1>3, LinkedBlocks DEF Linked, SameLength, Inv
  <2> QED
    BY <1>0, <1>1, <1>4, <2>1, SameCounts, UsedKept
<1>6. Taken' /\ Len(taken') = Len(taken) + 1
  <2>1. taken \in Seq(Items) /\ \A i \in 1 .. Len(taken) : taken[i] = i
    BY DEF ItemInv, Taken
  <2>2. /\ taken' \in Seq(Items) /\ Len(taken') = Len(taken) + 1
        /\ \A i \in 1 .. Len(taken) : taken'[i] = taken[i]
        /\ taken'[Len(taken) + 1] = got
    BY <1>1, <1>2, <2>1, AppendProperties
  <2>3. \A i \in 1 .. Len(taken') : taken'[i] = i
    BY <1>2, <2>1, <2>2
  <2> QED
    BY <2>2, <2>3 DEF Taken
<1>7. ASSUME NEW F \in [Nat -> Nat], Numbered(F)
      PROVE  \E G \in [Nat -> Nat] : Numbered(G)'
  <2>1. /\ f \in Used /\ tailBlock \in Used /\ Used \subseteq DOMAIN blocks /\ DOMAIN blocks \subseteq Nat
        /\ \A b \in Used \ {tailBlock} : next(b) \in Used \ {f}
    <3>1. DOMAIN blocks \subseteq Nat
      BY LinkedBlocks DEF Inv
    <3> QED
      BY <1>0, <3>1, UsedRing DEF InUse
  <2> DEFINE G == [F EXCEPT ![f] = F[f] + 1]
  <2>2. G \in [Nat -> Nat] /\ G[f] = F[f] + 1 /\ \A b \in Used : b # f => G[b] = F[b]
    BY <2>1
  <2> HIDE DEF G
  <2>3. F[f] \in Nat /\ F[f] = Len(taken) + 1 /\ Holds(f, F[f])
    BY <1>0, <1>7, <2>1 DEF Numbered
  <2>4. Count(f)' \in Nat /\ Count(f) = Count(f)' + 1 /\ Holds(f, F[f] + 1)'
    BY <1>2, <1>3, <2>3, Released
  <2>6. G[frontBlock'] = Len(taken') + 1
    BY <1>0, <1>1, <1>6, <2>2, <2>3
  <2>7. ASSUME NEW b \in Used
        PROVE  G[b] + Count(b)' = F[b] + Count(b)
    <3>1. CASE b = f
      BY <2>2, <2>3, <2>4, <3>1 DEF Count, Nth, front, tail
    <3>2. CASE b # f
      BY <1>4, <2>1, <2>2, <3>2, SameCounts
    <3> QED
      BY <3>1, <3>2
  <2>8. PICK t \in Used : t = tailBlock
    BY <2>1
  <2>9. G[tailBlock'] + Count(tailBlock)' = sent' + 1
    BY <1>1, <1>7, <2>7, <2>8 DEF Numbered
  <2>10. \A b \in Used' \ {tailBlock'} : G[next(b)'] = G[b] + Count(b)'
    BY <1>1, <1>4, <1>5, <1>7, <2>1, <2>2, <2>7 DEF Numbered
  <2>11. \A b \in Used' : Holds(b, G[b])' /\ G[b] + Count(b)' <= sent' + 1
    <3>1. \A b \in Used : Holds(b, G[b])'
      BY <1>4, <1>7, <2>1, <2>2, <2>4, SameCounts DEF Numbered
    <3> QED
      BY <1>1, <1>5, <1>7, <2>7, <3>1 DEF Numbered
  <2> QED
    BY <2>2, <2>6, <2>9, <2>10, <2>11 DEF Numbered
<1>8. Pending'
  BY <1>0, <1>1, <1>3, <1>4, PendingKept DEF ItemInv, Same, next, tail
<1>9. Found'
  BY <1>1 DEF Found
<1> QED
  BY <1>6, <1>7, <1>8, <1>9 DEF ItemInv

LEMMA ReturnItems == ASSUME Inv, ItemInv, Return PROVE ItemInv'
<1>1. consumer' = "idle" /\ UNCHANGED <<blocks, producerVars, frontBlock, taken>>
  BY DEF Return, ConsumerGoes
<1>2. SameLength /\ \A b \in DOMAIN blocks : Same(b)
  BY <1>1 DEF SameLength, Same
<1>3. Found'
  BY <1>1 DEF Found
<1> QED
  BY <1>1, <1>2, <1>3, LooksKeepItems

LEMMA SizeItems == ASSUME Inv, ItemInv, Size PROVE ItemInv'
<1>1. /\ consumer' = "size" /\ visiting' = frontBlock
      /\ UNCHANGED <<blocks, producerVars, frontBlock, taken>>
  BY DEF Size, ConsumerGoes
<1>2. SameLength /\ \A b \in DOMAIN blocks : Same(b)
  BY <1>1 DEF SameLength, Same
<1>3. Found'
  BY <1>1 DEF Found
<1> QED
  BY <1>1, <1>2, <1>3, LooksKeepItems

LEMMA VisitItems == ASSUME Inv, ItemInv, Visit PROVE ItemInv'
<1>1. /\ consumer = "size" /\ consumer' = "onwards" /\ seen' = (seen \/ ~Empty(visiting))
      /\ UNCHANGED <<blocks, producerVars, frontBlock, taken, visiting, mark, tailBlock>>
  BY DEF Visit, ConsumerGoes, producerVars, Empty
<1>2. SameLength /\ \A b \in DOMAIN blocks : Same(b)
  BY <1>1 DEF SameLength, Same
<1>3. ASSUME ~seen' PROVE AllSeen \/ (visiting = frontBlock /\ frontBlock # tailBlock)
  <2>1. ~seen /\ Empty(visiting)
    BY <1>1, <1>3
  <2>2. frontBlock = tailBlock /\ visiting = frontBlock => AllSeen
    <3>1. mark \in 0 .. sent /\ sent \in Nat
      BY SizeAssumption DEF Inv, ControlOK, Items
    <3> QED
      BY <2>1, <3>1, NoneLeft DEF AllSeen
  <2>3. frontBlock # tailBlock => visiting # next(frontBlock)
    BY <2>1, NextHolds
  <2> QED
    BY <1>1, <2>1, <2>2, <2>3 DEF ItemInv, Found
<1>4. Found'
  BY <1>1, <1>3 DEF Found, AllSeen
<1> QED
  BY <1>1, <1>2, <1>4, LooksKeepItems

LEMMA OnwardsItems == ASSUME Inv, ItemInv, Onwards PROVE ItemInv'
<1>1. /\ consumer = "onwards" /\ visiting' = next(visiting)
      /\ consumer' = IF visiting' = frontBlock THEN "sized" ELSE "size"
      /\ UNCHANGED <<blocks, producerVars, frontBlock, taken, seen, mark, tailBlock>>
  BY DEF Onwards, ConsumerGoes, producerVars
<1>2. SameLength /\ \A b \in DOMAIN blocks : Same(b)
  BY <1>1 DEF SameLength, Same
<1>3. frontBlock # tailBlock => next(frontBlock) # frontBlock
  BY UsedRing DEF InUse
<1>4. Found'
  BY <1>1, <1>3 DEF ItemInv, Found, AllSeen, next
<1> QED
  BY <1>1, <1>2, <1>4, LooksKeepItems

-----------------------------------------------------------------------------
LEMMA InitItems == ASSUME Init PROVE ItemInv
<1>1. /\ frontBlock = 1 /\ tailBlock = 1 /\ sent = 0 /\ taken = <<>> /\ producer = "idle"
      /\ consumer = "idle" /\ blocks = <<EmptyBlock(InitialSize)>>
  BY DEF Init
<1>2. Inv
  BY InitInv
<1>3. front(1) = 0 /\ tail(1) = 0 /\ 1 \in DOMAIN blocks
  BY <1>1 DEF front, tail, EmptyBlock
<1>4. Count(1) = 0 /\ Holds(1, 1)
  BY <1>2, <1>3, Counts DEF Empty, Holds
<1>5. Used = {1}
  BY <1>1, <1>3 DEF Used, Linked, Empty
<1> DEFINE F == [b \in Nat |-> 1]
<1>6. F \in [Nat -> Nat] /\ F[1] = 1
  OBVIOUS
<1> HIDE DEF F
<1>7. Numbered(F)
  BY <1>1, <1>4, <1>5, <1>6 DEF Numbered
<1>8. Taken /\ Pending /\ Found
  BY <1>1 DEF Taken, Pending, Found
<1> QED
  BY <1>6, <1>7, <1>8 DEF ItemInv

LEMMA StutterItems == ASSUME Inv, ItemInv, UNCHANGED vars PROVE ItemInv'
<1>1. /\ UNCHANGED <<blocks, producerVars, frontBlock, taken>>
      /\ UNCHANGED <<tailBlock, consumer, got, visiting, seen, mark>>
  BY DEF vars, consumerVars, producerVars
<1>2. SameLength /\ \A b \in DOMAIN blocks : Same(b)
  BY <1>1 DEF SameLength, Same
<1>3. Found'
  BY <1>1 DEF ItemInv, Found, AllSeen, next
<1>4. consumer' = "release" => got' = Len(taken) + 1
  BY <1>1 DEF ItemInv, Pending
<1> QED
  BY <1>1, <1>2, <1>3, <1>4, LooksKeepItems

LEMMA ItemsHold == Spec => [](Inv /\ ItemInv)
<1>1. Inv /\ ItemInv /\ [Next]_vars => ItemInv'
  <2> SUFFICES ASSUME Inv, ItemInv, [Next]_vars PROVE ItemInv'
    OBVIOUS
  <2>1. CASE Producer
    BY <2>1, FindRoomItems, PutItems, PublishItems, NextBlockItems, PutAheadItems, PublishAheadItems,
       AllocateItems, LinkItems, AdvanceTailItems DEF Producer
  <2>2. CASE TryDequeue
    BY <2>2, LookInFrontItems, OtherBlockItems, LookAgainItems, LookAheadItems, LeaveFrontItems,
       TakeItems, ReleaseItems, ReturnItems DEF TryDequeue
  <2>3. CASE SizeApprox
    BY <2>3, SizeItems, VisitItems, OnwardsItems DEF SizeApprox
  <2>4. CASE UNCHANGED vars
    BY <2>4, StutterItems
  <2> QED
    BY <2>1, <2>2, <2>3, <2>4 DEF Next
<1>2. Init => ItemInv
  BY InitItems
<1> QED
  BY InvHolds, <1>1, <1>2, PTL DEF Spec

(* try_dequeue() finds nothing, and size_approx() counts nothing, only if  *)
(* all that was enqueued before the call began has been dequeued.          *)
THEOREM NoneMissed == Spec => []NothingMissed
<1>1. ItemInv => NothingMissed
  BY DEF ItemInv, Found, AllSeen, NothingMissed
<1> QED
  BY ItemsHold, <1>1, PTL

-----------------------------------------------------------------------------
(*                  The ring of blocks implements a queue                  *)

LEMMA LeastOf ==
  ASSUME NEW T \in SUBSET Nat, T # {}
  PROVE  \E m \in T : \A k \in T : m <= k
<1>1. IsWellFoundedOn(OpToRel(<, Nat), Nat)
  BY NatLessThanWellFounded
<1>2. \A x, y \in Nat : x < y => <<x, y>> \in OpToRel(<, Nat)
  BY DEF OpToRel
<1>3. PICK R, N : N = Nat /\ IsWellFoundedOn(R, N) /\ \A x, y \in N : x < y => <<x, y>> \in R
  BY <1>1, <1>2
<1>4. T \subseteq N /\ IsWellFoundedOn(R, N)
  BY <1>3
<1>5. PICK m \in T : \A y \in T : ~ (<<y, m>> \in R)
  BY <1>4, WFMin
<1>6. \A y \in T : ~ (y < m)
  BY <1>3, <1>5
<1> QED
  BY <1>6

(* A walk of n steps of G from a.                                          *)
Walk(f, G, a, n) == \A k \in 1 .. n : f[k] = IF k = 1 THEN a ELSE G[f[k - 1]]

(* A step that stays in P can be taken any number of times from a in P.    *)
LEMMA Iterates ==
  ASSUME NEW P, NEW G \in [P -> P], NEW a \in P, NEW n \in Nat
  PROVE  \E f \in [1 .. n -> P] : Walk(f, G, a, n)
<1> DEFINE Leads(i) == \E f \in [1 .. i -> P] : Walk(f, G, a, i)
           T == {i \in Nat : ~Leads(i)}
<1>1. SUFFICES ASSUME T # {} PROVE FALSE
  OBVIOUS
<1>2. PICK m \in T : \A k \in T : m <= k
  <2>1. T \in SUBSET Nat
    OBVIOUS
  <2> HIDE DEF T
  <2> QED
    BY <1>1, <2>1, LeastOf
<1>3. m # 0
  <2>1. [k \in 1 .. 0 |-> a] \in [1 .. 0 -> P] /\ 1 .. 0 = {}
    OBVIOUS
  <2>2. Leads(0)
    BY <2>1 DEF Walk
  <2> QED
    BY <1>2, <2>2
<1>4. m - 1 \in Nat /\ m \in Nat /\ ~Leads(m)
  BY <1>2, <1>3
<1>5. Leads(m - 1)
  <2>1. m - 1 \notin T
    <3> HIDE DEF T
    <3> QED
      BY <1>2, <1>4
  <2> HIDE DEF Leads
  <2> QED
    BY <1>4, <2>1
<1>6. PICK f \in [1 .. m - 1 -> P] : \A k \in 1 .. m - 1 : f[k] = IF k = 1 THEN a ELSE G[f[k - 1]]
  BY <1>5 DEF Walk
<1> DEFINE last == IF m = 1 THEN a ELSE G[f[m - 1]]
           g == [k \in 1 .. m |-> IF k = m THEN last ELSE f[k]]
<1>7. last \in P
  BY <1>4, <1>6
<1>8. g \in [1 .. m -> P] /\ g[m] = last /\ \A k \in 1 .. m - 1 : g[k] = f[k]
  BY <1>4, <1>6, <1>7
<1> HIDE DEF g
<1>9. ASSUME NEW k \in 1 .. m PROVE g[k] = IF k = 1 THEN a ELSE G[g[k - 1]]
  <2>1. CASE k = m
    BY <1>4, <1>8, <2>1
  <2>2. CASE k # m
    BY <1>4, <1>6, <1>8, <2>2
  <2> QED
    BY <2>1, <2>2
<1>10. Leads(m)
  BY <1>8, <1>9 DEF Walk
<1> QED
  BY <1>4, <1>10

(* The slots of the blocks, and that the walk from one to the next stays   *)
(* among them.                                                             *)
Places == {<<b, slot>> : b \in DOMAIN blocks, slot \in 0 .. largestBlockSize - 1}
Slots == {p \in Places : p[2] < blocks[p[1]].size}

Onward(p) == At(p[1], After(p[1], p[2]))

LEMMA SlotsClosed ==
  ASSUME Inv, NEW b \in DOMAIN blocks, NEW slot \in 0 .. blocks[b].size - 1
  PROVE  At(b, slot) \in Slots /\ After(b, slot) \in 0 .. blocks[b].size - 1
<1>1. \A c \in DOMAIN blocks : /\ blocks[c].size \in Nat /\ blocks[c].size >= 2
                               /\ blocks[c].size <= largestBlockSize /\ largestBlockSize \in Nat
                               /\ front(c) \in 0 .. blocks[c].size - 1 /\ next(c) \in DOMAIN blocks
  BY Counts DEF Inv, BlocksOK
<1>2. ASSUME NEW c \in DOMAIN blocks, NEW s \in 0 .. blocks[c].size - 1
      PROVE  <<c, s>> \in Slots
  <2>1. s \in 0 .. largestBlockSize - 1
    BY <1>1
  <2>2. <<c, s>> \in Places
    BY <2>1 DEF Places
  <2> QED
    BY <1>1, <2>2 DEF Slots
<1>3. At(b, slot) \in Slots
  BY <1>1, <1>2 DEF At
<1>4. After(b, slot) = Step(blocks[b].size, slot)
  BY <1>1, StepIsMod DEF After
<1> QED
  BY <1>1, <1>3, <1>4 DEF Step

LEMMA PlaceIs ==
  ASSUME Inv, NEW k \in 1 .. Left, Left \in Nat
  PROVE  place[k] = IF k = 1 THEN At(frontBlock, front(frontBlock)) ELSE Onward(place[k - 1])
<1> DEFINE G == [p \in Slots |-> Onward(p)]
           a == At(frontBlock, front(frontBlock))
<1>1. a \in Slots
  BY LinkedBlocks, Counts, SlotsClosed DEF Inv
<1>2. ASSUME NEW p \in Slots PROVE Onward(p) \in Slots
  <2>1. PICK b \in DOMAIN blocks, slot \in 0 .. largestBlockSize - 1 : p = <<b, slot>>
    BY DEF Slots, Places
  <2>2. p[1] = b /\ p[2] = slot /\ slot < blocks[b].size
    BY <2>1 DEF Slots
  <2>3. slot \in 0 .. blocks[b].size - 1
    <3>1. blocks[b].size \in Nat /\ largestBlockSize \in Nat
      BY Counts DEF Inv, BlocksOK
    <3> QED
      BY <2>2, <3>1
  <2>4. After(b, slot) \in 0 .. blocks[b].size - 1
    BY <2>3, SlotsClosed
  <2>5. At(b, After(b, slot)) \in Slots
    BY <2>4, SlotsClosed
  <2> QED
    BY <2>2, <2>5 DEF Onward
<1>3. G \in [Slots -> Slots]
  BY <1>2
<1> HIDE DEF G, a
<1>4. PICK f \in [1 .. Left -> Slots] : \A i \in 1 .. Left : f[i] = IF i = 1 THEN a ELSE G[f[i - 1]]
  <2>1. \E f \in [1 .. Left -> Slots] : Walk(f, G, a, Left)
    BY <1>1, <1>3, Iterates
  <2> QED
    BY <2>1 DEF Walk
<1>5. ASSUME NEW i \in 1 .. Left PROVE f[i] = IF i = 1 THEN a ELSE Onward(f[i - 1])
  <2>1. CASE i = 1
    BY <1>4, <2>1
  <2>2. CASE i # 1
    <3>1. f[i - 1] \in Slots
      BY <1>4, <2>2
    <3>2. G[f[i - 1]] = Onward(f[i - 1])
      BY <3>1 DEF G
    <3> QED
      BY <1>4, <2>2, <3>2
  <2> QED
    BY <2>1, <2>2
<1>6. f = [i \in 1 .. Left |-> IF i = 1 THEN a ELSE Onward(f[i - 1])]
  BY <1>4, <1>5
<1>7. place = [i \in 1 .. Left |-> IF i = 1 THEN a ELSE Onward(place[i - 1])]
  BY <1>6 DEF place, a, Onward
<1> QED
  BY <1>7 DEF a

(* The k-th item of the queue.                                             *)
LEMMA Arrives ==
  ASSUME Inv, NEW F \in [Nat -> Nat], Numbered(F), Len(taken) \in Nat,
         NEW b \in Used, NEW slot \in 0 .. blocks[b].size - 1, Nth(b, slot) <= Count(b),
         NEW k \in 1 .. Left, F[b] + Nth(b, slot) = Len(taken) + k
  PROVE  \E c \in Used, s \in Nat :
           /\ s \in 0 .. blocks[c].size - 1 /\ At(b, slot) = <<c, s>>
           /\ Nth(c, s) < Count(c) /\ F[c] + Nth(c, s) = Len(taken) + k
<1>1. /\ Used \subseteq DOMAIN blocks /\ DOMAIN blocks \subseteq Nat
      /\ sent \in Nat /\ k \in Nat /\ k <= sent - Len(taken)
  <2>1. sent \in Nat
    BY SizeAssumption DEF Inv, ControlOK, Items
  <2>2. DOMAIN blocks \subseteq Nat
    BY LinkedBlocks DEF Inv
  <2>3. Used \subseteq DOMAIN blocks
    BY UsedRing
  <2>4. k \in Nat /\ k <= sent - Len(taken)
    BY <2>1 DEF Left
  <2> QED
    BY <2>1, <2>2, <2>3, <2>4
<1>2. /\ Nth(b, slot) \in Nat /\ Count(b) \in Nat /\ blocks[b].size \in Nat
      /\ tail(b) \in 0 .. blocks[b].size - 1 /\ front(b) \in 0 .. blocks[b].size - 1
      /\ blocks[b].size >= 2 /\ F[b] \in Nat
  BY <1>1, Counts
<1>3. CASE slot # tail(b)
  <2>1. Nth(b, slot) # Count(b)
    <3> DEFINE size == blocks[b].size  f == front(b)  t == tail(b)
    <3>1. Nth(b, slot) = Dist(size, f, slot) /\ Count(b) = Dist(size, f, t)
      BY DEF Nth, Count
    <3>2. /\ size \in Nat /\ size >= 2 /\ f \in 0 .. size - 1 /\ t \in 0 .. size - 1
          /\ slot \in 0 .. size - 1 /\ slot # t
      BY <1>2, <1>3
    <3> HIDE DEF size, f, t
    <3> QED
      BY <3>1, <3>2, Distances
  <2>2. Nth(b, slot) < Count(b)
    BY <1>2, <2>1
  <2>3. At(b, slot) = <<b, slot>> /\ slot \in Nat
    BY <1>2, <1>3 DEF At
  <2> QED
    BY <2>2, <2>3
<1>4. CASE slot = tail(b)
  <2>1. Nth(b, slot) = Count(b)
    BY <1>4 DEF Count
  <2>2. b # tailBlock
    <3>1. F[tailBlock] + Count(tailBlock) = sent + 1
      BY DEF Numbered
    <3>2. SUFFICES ASSUME b = tailBlock PROVE FALSE
      OBVIOUS
    <3>3. Len(taken) + k = sent + 1
      BY <2>1, <3>1, <3>2
    <3> QED
      BY <1>1, <3>3
  <2>3. next(b) \in Used /\ ~Empty(next(b)) /\ F[next(b)] = F[b] + Count(b)
    BY <2>2, UsedRing DEF InUse, Numbered
  <2>4. PICK c \in Used : c = next(b)
    BY <2>3
  <2> DEFINE s == front(c)
  <2>8. s \in Nat /\ s \in 0 .. blocks[c].size - 1 /\ F[c] \in Nat
    <3>1. blocks[c].size \in Nat /\ s \in 0 .. blocks[c].size - 1
      BY <1>1, Counts
    <3>2. F[c] \in Nat
      BY <1>1
    <3> HIDE DEF s
    <3> QED
      BY <3>1, <3>2
  <2>5. At(b, slot) = <<c, s>>
    BY <1>4, <2>4 DEF At
  <2>6. Nth(c, s) = 0 /\ Count(c) \in Nat /\ Count(c) # 0
    BY <1>1, <2>3, <2>4, <2>8, Counts
  <2> HIDE DEF s
  <2>7. F[c] + Nth(c, s) = Len(taken) + k
    BY <1>1, <1>2, <2>1, <2>3, <2>4, <2>6, <2>8
  <2> QED
    BY <2>5, <2>6, <2>7, <2>8
<1> QED
  BY <1>3, <1>4

(* Where the k-th item of the queue lies.                                  *)
Lies(F, k) ==
  \E b \in Used, slot \in Nat :
    /\ slot \in 0 .. blocks[b].size - 1 /\ place[k] = <<b, slot>>
    /\ Nth(b, slot) < Count(b) /\ F[b] + Nth(b, slot) = Len(taken) + k

LEMMA AllLie ==
  ASSUME Inv, NEW F \in [Nat -> Nat], Numbered(F), Len(taken) \in Nat, Left \in Nat,
         NEW k \in 1 .. Left
  PROVE  Lies(F, k)
<1> DEFINE T == {i \in 1 .. Left : ~Lies(F, i)}
<1>1. SUFFICES ASSUME T # {} PROVE FALSE
  OBVIOUS
<1>2. PICK m \in T : \A i \in T : m <= i
  <2>1. T \in SUBSET Nat
    OBVIOUS
  <2> HIDE DEF T
  <2> QED
    BY <1>1, <2>1, LeastOf
<1>3. m \in 1 .. Left /\ ~Lies(F, m) /\ \A i \in 1 .. Left : i < m => Lies(F, i)
  BY <1>2
<1> HIDE DEF T
<1>4. Used \subseteq DOMAIN blocks /\ DOMAIN blocks \subseteq Nat /\ frontBlock \in Used
  <2>1. DOMAIN blocks \subseteq Nat
    BY LinkedBlocks DEF Inv
  <2> QED
    BY <2>1, UsedRing DEF InUse
<1>5. CASE m = 1
  <2>1. place[m] = At(frontBlock, front(frontBlock))
    BY <1>3, <1>5, PlaceIs
  <2>2. /\ front(frontBlock) \in 0 .. blocks[frontBlock].size - 1
        /\ Nth(frontBlock, front(frontBlock)) = 0 /\ Count(frontBlock) \in Nat
    BY <1>4, Counts
  <2>3. F[frontBlock] + Nth(frontBlock, front(frontBlock)) = Len(taken) + m
    BY <1>5, <2>2 DEF Numbered
  <2>4. Nth(frontBlock, front(frontBlock)) <= Count(frontBlock)
    BY <2>2
  <2>5. PICK c \in Used, s \in Nat :
          /\ s \in 0 .. blocks[c].size - 1 /\ At(frontBlock, front(frontBlock)) = <<c, s>>
          /\ Nth(c, s) < Count(c) /\ F[c] + Nth(c, s) = Len(taken) + m
    <3> DEFINE f == front(frontBlock)
    <3>1. /\ f \in 0 .. blocks[frontBlock].size - 1 /\ Nth(frontBlock, f) <= Count(frontBlock)
          /\ F[frontBlock] + Nth(frontBlock, f) = Len(taken) + m
      BY <2>2, <2>3, <2>4
    <3> HIDE DEF f
    <3>2. \E c \in Used, s \in Nat :
            /\ s \in 0 .. blocks[c].size - 1 /\ At(frontBlock, f) = <<c, s>>
            /\ Nth(c, s) < Count(c) /\ F[c] + Nth(c, s) = Len(taken) + m
      BY <1>3, <1>4, <3>1, Arrives
    <3> QED
      BY <3>2 DEF f
  <2>6. Lies(F, m)
    BY <2>1, <2>5 DEF Lies
  <2> QED
    BY <1>3, <2>6
<1>6. CASE m # 1
  <2>1. m - 1 \in 1 .. Left /\ m - 1 < m /\ m \in Nat
    BY <1>3, <1>6
  <2>2. PICK b \in Used, slot \in Nat :
          /\ slot \in 0 .. blocks[b].size - 1 /\ place[m - 1] = <<b, slot>>
          /\ Nth(b, slot) < Count(b) /\ F[b] + Nth(b, slot) = Len(taken) + (m - 1)
    BY <1>3, <2>1 DEF Lies
  <2>3. place[m] = At(b, After(b, slot))
    <3>1. place[m] = Onward(place[m - 1])
      BY <1>3, <1>6, PlaceIs
    <3> QED
      BY <2>2, <3>1 DEF Onward
  <2>4. After(b, slot) \in 0 .. blocks[b].size - 1
    BY <1>4, <2>2, SlotsClosed
  <2>5. Nth(b, After(b, slot)) = Nth(b, slot) + 1 /\ Nth(b, slot) \in Nat /\ Count(b) \in Nat
    <3> DEFINE size == blocks[b].size  f == front(b)  t == tail(b)
    <3>1. /\ Nth(b, slot) = Dist(size, f, slot) /\ Count(b) = Dist(size, f, t)
          /\ Nth(b, After(b, slot)) = Dist(size, f, After(b, slot))
      BY DEF Nth, Count
    <3>2. /\ size \in Nat /\ size >= 2 /\ f \in 0 .. size - 1 /\ t \in 0 .. size - 1
          /\ slot \in 0 .. size - 1
      BY <1>4, <2>2, Counts
    <3>3. After(b, slot) = Step(size, slot)
      BY <3>2, StepIsMod DEF After
    <3>4. Count(b) \in Nat /\ Nth(b, slot) \in Nat
      BY <1>4, <2>2, Counts
    <3> HIDE DEF size, f, t
    <3>5. Dist(size, f, t) \in 0 .. size - 1
      BY <3>2, Distances
    <3>6. Step(size, slot) # f
      <4>1. Step(size, slot) = f => Dist(size, f, slot) = size - 1
        BY <3>2, Z3 DEF Dist, Step
      <4> QED
        BY <2>2, <3>1, <3>2, <3>5, <4>1
    <3>7. Dist(size, f, Step(size, slot)) = Dist(size, f, slot) + 1
      BY <3>2, <3>6, Distances
    <3> QED
      BY <3>1, <3>3, <3>4, <3>7
  <2>6. Nth(b, After(b, slot)) <= Count(b)
    BY <2>2, <2>5
  <2>7. F[b] + Nth(b, After(b, slot)) = Len(taken) + m
    <3>1. F[b] \in Nat
      BY <1>4
    <3>2. F[b] + Nth(b, slot) = Len(taken) + (m - 1)
      BY <2>2
    <3>3. Nth(b, slot) \in Nat /\ Nth(b, After(b, slot)) = Nth(b, slot) + 1 /\ m \in Nat
      BY <2>1, <2>5
    <3>4. PICK x \in Nat, y \in Nat, l \in Nat :
            x = F[b] /\ y = Nth(b, slot) /\ l = Len(taken)
      BY <3>1, <3>3
    <3>5. x + y = l + (m - 1)
      BY <3>2, <3>4
    <3>6. x + (y + 1) = l + m
      BY <3>3, <3>5
    <3> QED
      BY <3>3, <3>4, <3>6
  <2>8. PICK c \in Used, s \in Nat :
          /\ s \in 0 .. blocks[c].size - 1 /\ At(b, After(b, slot)) = <<c, s>>
          /\ Nth(c, s) < Count(c) /\ F[c] + Nth(c, s) = Len(taken) + m
    <3> DEFINE next_ == After(b, slot)
    <3>1. next_ \in 0 .. blocks[b].size - 1 /\ Nth(b, next_) <= Count(b) /\ F[b] + Nth(b, next_) = Len(taken) + m
      BY <2>4, <2>6, <2>7
    <3> HIDE DEF next_
    <3>2. \E c \in Used, s \in Nat :
            /\ s \in 0 .. blocks[c].size - 1 /\ At(b, next_) = <<c, s>>
            /\ Nth(c, s) < Count(c) /\ F[c] + Nth(c, s) = Len(taken) + m
      BY <1>3, <3>1, Arrives
    <3> QED
      BY <3>2 DEF next_
  <2>9. Lies(F, m)
    BY <2>3, <2>8 DEF Lies
  <2> QED
    BY <1>3, <2>9
<1> QED
  BY <1>5, <1>6

(* The numbers after t, n of them.                                         *)
Run(t, n) == [k \in 1 .. n |-> t + k]

LEMMA Runs ==
  ASSUME NEW t \in Nat, NEW n \in Nat
  PROVE  /\ Run(t, n) \in Seq(Nat) /\ Len(Run(t, n)) = n
         /\ Append(Run(t, n), t + n + 1) = Run(t, n + 1)
         /\ n # 0 => /\ Run(t, n) # <<>> /\ Head(Run(t, n)) = t + 1
                     /\ Tail(Run(t, n)) = Run(t + 1, n - 1)
<1>1. Run(t, n) \in Seq(Nat) /\ Len(Run(t, n)) = n /\ \A k \in 1 .. n : Run(t, n)[k] = t + k
  BY DEF Run
<1>2. Append(Run(t, n), t + n + 1) = Run(t, n + 1)
  BY DEF Run
<1>3. ASSUME n # 0
      PROVE  Run(t, n) # <<>> /\ Head(Run(t, n)) = t + 1 /\ Tail(Run(t, n)) = Run(t + 1, n - 1)
  <2>1. Run(t, n) # <<>> /\ Head(Run(t, n)) = t + 1
    BY <1>1, <1>3
  <2>2. /\ Tail(Run(t, n)) \in Seq(Nat) /\ Len(Tail(Run(t, n))) = n - 1
        /\ \A k \in 1 .. n - 1 : Tail(Run(t, n))[k] = Run(t, n)[k + 1]
    BY <1>1, <2>1, HeadTailProperties
  <2>3. /\ Run(t + 1, n - 1) \in Seq(Nat) /\ Len(Run(t + 1, n - 1)) = n - 1
        /\ \A k \in 1 .. n - 1 : Run(t + 1, n - 1)[k] = t + 1 + k
    BY <1>3 DEF Run
  <2>4. \A k \in 1 .. n - 1 : Tail(Run(t, n))[k] = Run(t + 1, n - 1)[k]
    BY <1>1, <2>2, <2>3
  <2>5. Tail(Run(t, n)) = Run(t + 1, n - 1)
    BY <2>2, <2>3, <2>4, SeqEqual
  <2> QED
    BY <2>1, <2>5
<1> QED
  BY <1>1, <1>2, <1>3

(* What the queue holds are the items that have been sent and not taken.   *)
LEMMA ContentsAre ==
  Inv /\ ItemInv =>
    /\ Left \in Nat /\ Len(taken) \in Nat /\ sent \in 0 .. MaxItems
    /\ sent = Len(taken) + Left /\ Contents = Run(Len(taken), Left)
<1> SUFFICES ASSUME Inv, ItemInv
             PROVE  /\ Left \in Nat /\ Len(taken) \in Nat /\ sent \in 0 .. MaxItems
                    /\ sent = Len(taken) + Left /\ Contents = Run(Len(taken), Left)
  OBVIOUS
<1>1. PICK F \in [Nat -> Nat] : Numbered(F)
  BY DEF ItemInv
<1>2. sent \in 0 .. MaxItems /\ sent \in Nat /\ Len(taken) \in Nat
  BY LenProperties, SizeAssumption DEF Inv, ControlOK, Items, ItemInv, Taken
<1>3. Used \subseteq DOMAIN blocks /\ DOMAIN blocks \subseteq Nat /\ frontBlock \in Used
  <2>1. DOMAIN blocks \subseteq Nat
    BY LinkedBlocks DEF Inv
  <2> QED
    BY <2>1, UsedRing DEF InUse
<1>4. Left \in Nat /\ sent = Len(taken) + Left
  <2>1. Count(frontBlock) \in Nat
    BY <1>3, Counts
  <2>2. F[frontBlock] = Len(taken) + 1 /\ F[frontBlock] + Count(frontBlock) <= sent + 1
    BY <1>1, <1>3 DEF Numbered
  <2> QED
    BY <1>2, <2>1, <2>2 DEF Left
<1>5. ASSUME NEW k \in 1 .. Left PROVE blocks[place[k][1]].data[place[k][2]] = Len(taken) + k
  <2>1. PICK b \in Used, slot \in Nat :
          /\ slot \in 0 .. blocks[b].size - 1 /\ place[k] = <<b, slot>>
          /\ Nth(b, slot) < Count(b) /\ F[b] + Nth(b, slot) = Len(taken) + k
    BY <1>1, <1>2, <1>4, AllLie DEF Lies
  <2>2. blocks[b].data[slot] = F[b] + Nth(b, slot)
    BY <1>1, <2>1 DEF Numbered, Holds
  <2> QED
    BY <2>1, <2>2
<1>6. Contents = Run(Len(taken), Left)
  BY <1>5 DEF Contents, Run
<1> QED
  BY <1>2, <1>4, <1>6

LEMMA SentOrTaken ==
  ASSUME [Next]_vars
  PROVE  \/ UNCHANGED <<sent, taken>>
         \/ sent' = sent + 1 /\ UNCHANGED taken
         \/ consumer = "release" /\ taken' = Append(taken, got) /\ UNCHANGED sent
<1>1. CASE Producer
  BY <1>1 DEF Producer, FindRoom, Put, Publish, NextBlock, PutAhead, PublishAhead, Allocate, Link,
              AdvanceTail, consumerVars, Item
<1>2. CASE TryDequeue
  BY <1>2 DEF TryDequeue, LookInFront, OtherBlock, LookAgain, LookAhead, LeaveFront, Take, Release,
              Return, producerVars
<1>3. CASE SizeApprox
  BY <1>3 DEF SizeApprox, Size, Visit, Onwards, producerVars
<1>4. CASE UNCHANGED vars
  BY <1>4 DEF vars, producerVars, consumerVars
<1> QED
  BY <1>1, <1>2, <1>3, <1>4 DEF Next

(* The ring of blocks is a queue: what is dequeued is what was enqueued,   *)
(* in order and each once, and what lies in the blocks from the consumer   *)
(* on is what is left.                                                     *)
THEOREM ImplementsFifo == Spec => IsFifo
<1>1. Init => Promise!Init
  <2> SUFFICES ASSUME Init PROVE Promise!Init
    OBVIOUS
  <2>1. taken = <<>> /\ Left = 0
    <3>1. sent = 0
      BY DEF Init
    <3>2. taken = <<>>
      BY DEF Init
    <3>3. Len(taken) = 0
      BY <3>2
    <3>4. Left = 0
      BY <3>1, <3>3 DEF Left
    <3> QED
      BY <3>2, <3>4
  <2>2. Contents = <<>>
    BY <2>1 DEF Contents
  <2> QED
    BY <2>1, <2>2 DEF Promise!Init
<1>2. (Inv /\ ItemInv) /\ (Inv /\ ItemInv)' /\ [Next]_vars => [Promise!Next]_(Promise!vars)
  <2> SUFFICES ASSUME Inv, ItemInv, (Inv /\ ItemInv)', [Next]_vars
               PROVE  [Promise!Next]_(Promise!vars)
    OBVIOUS
  <2>1. PICK t \in Nat, n \in Nat :
          /\ t = Len(taken) /\ n = Left /\ sent \in 0 .. MaxItems
          /\ sent = t + n /\ Contents = Run(t, n)
    BY ContentsAre
  <2>2. /\ Left' \in Nat /\ Len(taken') \in Nat /\ sent' \in 0 .. MaxItems
        /\ sent' = Len(taken') + Left' /\ Contents' = Run(Len(taken'), Left')
    <3>1. (Inv /\ ItemInv =>
             /\ Left \in Nat /\ Len(taken) \in Nat /\ sent \in 0 .. MaxItems
             /\ sent = Len(taken) + Left /\ Contents = Run(Len(taken), Left))'
      BY ContentsAre, PTL
    <3> QED
      BY <3>1 DEF Run
  <2>3. CASE UNCHANGED <<sent, taken>>
    <3>1. Left' = n
      BY <2>1, <2>3 DEF Left
    <3>2. Contents' = Contents
      BY <2>1, <2>2, <2>3, <3>1
    <3> QED
      BY <2>3, <3>2 DEF Promise!vars
  <2>4. CASE sent' = sent + 1 /\ UNCHANGED taken
    <3>1. Left' = n + 1
      BY <2>1, <2>4 DEF Left
    <3>2. Contents' = Append(Contents, t + n + 1)
      BY <2>1, <2>2, <2>4, <3>1, Runs
    <3>3. Len(Contents) = n
      BY <2>1, Runs
    <3>4. Promise!Entered = t + n /\ t + n < MaxItems
      BY <2>1, <2>2, <2>4, <3>3, SizeAssumption DEF Promise!Entered
    <3>5. Promise!Enqueue
      BY <2>4, <3>2, <3>4 DEF Promise!Enqueue
    <3> QED
      BY <3>5 DEF Promise!Next
  <2>5. CASE consumer = "release" /\ taken' = Append(taken, got) /\ UNCHANGED sent
    <3>1. got = t + 1 /\ Len(taken') = t + 1
      <4>1. got \in Items /\ taken \in Seq(Items)
        BY DEF Inv, ControlOK, ItemInv, Taken
      <4>2. Len(taken') = t + 1
        BY <2>1, <2>5, <4>1, AppendProperties
      <4> QED
        BY <2>1, <2>5, <4>2 DEF ItemInv, Pending
    <3>2. n # 0 /\ Left' = n - 1
      <4>1. Left' = n - 1
        BY <2>1, <2>5, <3>1 DEF Left
      <4> QED
        BY <2>1, <2>2, <4>1
    <3>3. Contents # <<>> /\ Head(Contents) = t + 1 /\ Tail(Contents) = Run(t + 1, n - 1)
      BY <2>1, <3>2, Runs
    <3>4. Contents' = Tail(Contents)
      BY <2>2, <3>1, <3>2, <3>3
    <3>5. Promise!Dequeue
      BY <2>5, <3>1, <3>3, <3>4 DEF Promise!Dequeue
    <3> QED
      BY <3>5 DEF Promise!Next
  <2> QED
    BY <2>3, <2>4, <2>5, SentOrTaken
<1> QED
  BY ItemsHold, <1>1, <1>2, PTL DEF Spec, IsFifo, Promise!Spec
=============================================================================
