------------------------------- MODULE Uplink -------------------------------
(***************************************************************************)
(* The way of a segment to the server: AvroSerialization turns it into a   *)
(* record, Transmission into a packet, and TCP.cpp or TLS.cpp writes the   *)
(* packet, with the connection made when the first record is at hand.      *)
(*                                                                         *)
(* A record is its number, its bytes and the values it holds; a packet is  *)
(* its header, the bytes it occupies and how many of them the connection   *)
(* has taken.  wire is what the kernel has accepted: the server reads a    *)
(* prefix of it.  libavro, OpenSSL and the kernel are external.            *)
(***************************************************************************)
EXTENDS Integers, Sequences

CONSTANTS
  Contexts,          \* the command lines: what ElectrosenseContext may hold
  Heads,             \* bytes of a record other than its values (BOUND)
  Floats,            \* sizes of an IQ segment (BOUND)
  Short,             \* what a short write may accept (BOUND)
  UINT,              \* 2 ^ 32, the range of an unsigned int (BOUND: less for TLC)
  DEFAULT_PKT_SIZE_B,
  MaxRecords         \* segments serialised (BOUND)

(* An FFT has more than one sample.  (That a power of two is an even       *)
(* number is stated for the proofs.)                                       *)
ASSUME UplinkAssumption ==
  /\ Contexts \subseteq [pipeline : {"PSD", "IQ"}, connection : {"TCP", "TLS"},
                         log2_fft_size : Nat \ {0}, freq_overlap : 0 .. 1000]
  /\ \A c \in Contexts :
       /\ 2 ^ c.log2_fft_size \in Nat \ {0}
       /\ 2 ^ c.log2_fft_size < UINT
       /\ \E half \in 0 .. 2 ^ c.log2_fft_size : 2 ^ c.log2_fft_size = 2 * half
  /\ Heads \subseteq Nat /\ Floats \subseteq Nat /\ Short \subseteq Nat \ {0}
  /\ UINT \in Nat /\ DEFAULT_PKT_SIZE_B \in Nat \ {0}
  /\ MaxRecords \in Nat

VARIABLES
  context,        \* ElectrosenseContext; freq_overlap in thousandths
  serializing,    \* the thread of AvroSerialization has not been stopped
  made,           \* records it has made
  reduced_fft_size, \* the bins of a spectrum that it keeps
  alive,          \* the process
  queue,          \* mQueueIn of Transmission
  mRunning,       \* Transmission::mRunning
  pc,             \* where Transmission::run() is
  segment,        \* the record it has dequeued
  con,            \* tcp_con or tls_con
  prev_data_size,
  packet_size,
  bytes_written,  \* of the packet being written
  wire            \* the packets handed to the connection, in order

senderVars == <<mRunning, pc, segment, con, prev_data_size, packet_size, bytes_written, wire>>
avroVars == <<serializing, made, reduced_fft_size>>
vars == <<context, avroVars, queue, senderVars, alive>>

PSD == context.pipeline = "PSD"
TLS == context.connection = "TLS"
fft_size == 2 ^ context.log2_fft_size

(* (1 - freq_overlap) * (fft_size + 1), cut to an unsigned.                *)
Reduced == ((1000 - context.freq_overlap) * (fft_size + 1)) \div 1000
Odd(n) == IF n % 2 = 0 THEN n + 1 ELSE n
Multiple4(n) == ((n + 3) \div 4) * 4
Least(a, b) == IF a < b THEN a ELSE b

None == [id |-> 0, data_size |-> 0, first |-> 0, values |-> 0, whole |-> TRUE]

-----------------------------------------------------------------------------
(* Faults, here and before Init: what some of the definitions below would  *)
(* be if the code had a plausible mistake in it.  No specification uses    *)
(* them.                                                                   *)

(* Room for the bins that are kept, not for all of them.                   *)
FaultBufSize(values) == IF PSD THEN Multiple4(5 * 4 + Reduced * 4) ELSE Multiple4(values * 2 * 4)

-----------------------------------------------------------------------------
(* Transmission computes the number of bins once, before its loop;         *)
(* AvroSerialization begins with Reduced and makes that odd in its own.    *)
HeaderBins == Odd(Reduced)

(* The first of the bins that are kept, as an unsigned.                    *)
FirstBin(bins) == ((fft_size - bins) % UINT) \div 2
Outside(bins) == FirstBin(bins) + bins > fft_size

(* The buffer a record is written to.                                      *)
BufSize(values) == IF PSD THEN Multiple4(5 * 4 + fft_size * 4)
                          ELSE Multiple4(4096 + values * 2 * 4)

(* avro_writer_tell() after a record of head bytes, values floats and the  *)
(* zero that ends an array: the writer stops at the first item that does   *)
(* not fit, and nobody looks at its result.                                *)
Told(head, values, buf_size) ==
  IF head + 4 * values + 1 <= buf_size THEN head + 4 * values + 1
  ELSE head + 4 * Least(values, (buf_size - head) \div 4)

HeaderWords == IF PSD THEN 2 ELSE 1

-----------------------------------------------------------------------------
(* Faults, again.                                                          *)

(* One bin more, whether their number is odd or even.                      *)
FaultSerializePSD ==
  /\ PSD
  /\ serializing
  /\ made < MaxRecords
  /\ made' = made + 1
  /\ reduced_fft_size' = reduced_fft_size + 1
  /\ \E head \in Heads :
       LET size == Told(head, reduced_fft_size', BufSize(0))
       IN  queue' = Append(queue, [id |-> made', data_size |-> size,
                                   first |-> FirstBin(reduced_fft_size'),
                                   values |-> reduced_fft_size',
                                   whole |-> size = head + 4 * reduced_fft_size' + 1])
  /\ UNCHANGED <<context, serializing, senderVars>>

(* The packet is resized only when it has to grow.                         *)
FaultPack ==
  /\ pc = "pack"
  /\ LET grown == segment.data_size > prev_data_size
     IN  /\ packet_size' = IF grown THEN HeaderWords * 4 + Multiple4(segment.data_size)
                                    ELSE packet_size
         /\ prev_data_size' = IF grown THEN segment.data_size ELSE prev_data_size
  /\ wire' = Append(wire, [data_size |-> segment.data_size,
                           bins |-> IF PSD THEN HeaderBins ELSE 0,
                           record |-> segment, size |-> packet_size', sent |-> 0])
  /\ bytes_written' = 0
  /\ pc' = "write"
  /\ UNCHANGED <<context, avroVars, queue, mRunning, segment, con>>

(* The newest record first.                                                *)
FaultTake ==
  /\ pc = "loop"
  /\ queue # <<>>
  /\ segment' = queue[Len(queue)]
  /\ queue' = SubSeq(queue, 1, Len(queue) - 1)
  /\ pc' = "connect"
  /\ UNCHANGED <<context, avroVars, mRunning, con, prev_data_size,
                 packet_size, bytes_written, wire>>

(* while (mRunning)                                                        *)
FaultLeave ==
  /\ pc = "loop"
  /\ ~mRunning
  /\ pc' = "close"
  /\ UNCHANGED <<context, avroVars, queue, mRunning, segment, con,
                 prev_data_size, packet_size, bytes_written, wire>>

-----------------------------------------------------------------------------
Init ==
  /\ context \in Contexts
  /\ serializing = TRUE
  /\ made = 0
  /\ reduced_fft_size = Reduced
  /\ alive = TRUE
  /\ queue = <<>>
  /\ mRunning = TRUE
  /\ pc = "loop"
  /\ segment = None
  /\ con = "NULL"
  /\ prev_data_size = 0
  /\ packet_size = 0
  /\ bytes_written = 0
  /\ wire = <<>>

(* One round of a loop of AvroSerialization: the values of a segment, from *)
(* first on, are written to a buffer of their own and handed on with the   *)
(* size the record got.                                                    *)
Serialize(first, values) ==
  /\ serializing
  /\ made < MaxRecords
  /\ made' = made + 1
  /\ \E head \in Heads :
       LET size == Told(head, values, BufSize(values))
       IN  queue' = Append(queue, [id |-> made', data_size |-> size, first |-> first,
                                   values |-> values, whole |-> size = head + 4 * values + 1])
  /\ UNCHANGED <<context, serializing, senderVars>>

SerializePSD ==
  /\ PSD
  /\ reduced_fft_size' = Odd(reduced_fft_size)
  /\ Serialize(FirstBin(reduced_fft_size'), reduced_fft_size')

SerializeIQ ==
  /\ ~PSD
  /\ \E values \in Floats : Serialize(0, values)
  /\ UNCHANGED reduced_fft_size

(* Bins that are not those of the spectrum are read from outside it, which *)
(* gives SerializePSD whatever is there, or ends the process.              *)
ReadFault ==
  /\ PSD
  /\ serializing
  /\ made < MaxRecords
  /\ Outside(Odd(reduced_fft_size))
  /\ alive' = FALSE
  /\ UNCHANGED <<context, avroVars, queue, senderVars>>

(* finish_ok() stops the components in order: AvroSerialization, and once  *)
(* its thread has ended, Transmission.                                     *)
StopSerialization ==
  /\ serializing
  /\ serializing' = FALSE
  /\ UNCHANGED <<context, made, reduced_fft_size, queue, senderVars>>

Stop ==
  /\ ~serializing
  /\ mRunning
  /\ mRunning' = FALSE
  /\ UNCHANGED <<context, avroVars, queue, pc, segment, con, prev_data_size,
                 packet_size, bytes_written, wire>>

-----------------------------------------------------------------------------
(* Transmission::run()                                                     *)

(* while (mRunning || mQueueIn->size_approx() != 0) try_dequeue(segment)   *)
Take ==
  /\ pc = "loop"
  /\ queue # <<>>
  /\ segment' = Head(queue)
  /\ queue' = Tail(queue)
  /\ pc' = "connect"
  /\ UNCHANGED <<context, avroVars, mRunning, con, prev_data_size,
                 packet_size, bytes_written, wire>>

Leave ==
  /\ pc = "loop"
  /\ ~mRunning
  /\ queue = <<>>
  /\ pc' = "close"
  /\ UNCHANGED <<context, avroVars, queue, mRunning, segment, con,
                 prev_data_size, packet_size, bytes_written, wire>>

ConTo(state) ==
  /\ pc = "connect"
  /\ con' = state
  /\ pc' = IF state = "up" THEN "pack" ELSE pc
  /\ UNCHANGED <<context, avroVars, queue, mRunning, segment, prev_data_size,
                 packet_size, bytes_written, wire>>

(* The first time, tcp_init() or tls_init(), whose result is not looked    *)
(* at: a socket or an address that it did not get stays missing, and under *)
(* TLS so does a certificate.                                              *)
InitTCP == ~TLS /\ con = "NULL" /\ \E state \in {"fresh", "unusable"} : ConTo(state)
InitTLS == TLS /\ con = "NULL" /\ \E state \in {"fresh", "unusable"} : ConTo(state)

(* checkConnection() returns at once when there is a connection.           *)
HaveConnection == con = "up" /\ ConTo("up")

(* tcp_connect() or tls_connect() succeeds.                                *)
Connected == con = "fresh" /\ ConTo("up")

(* The TCP connection is made, the handshake fails.  The next attempt will *)
(* connect the same socket again, which connect(2) refuses.                *)
HandshakeFails == TLS /\ con = "fresh" /\ ConTo("joined")

(* connect(2) fails; sleep(1), and again.                                  *)
ConnectFails == con \in {"fresh", "unusable", "joined"} /\ ConTo(con)

(* The header and the payload, padded to a multiple of four bytes; sizes   *)
(* are computed anew only when the size of the data has changed.           *)
Pack ==
  /\ pc = "pack"
  /\ LET changed == segment.data_size # prev_data_size
     IN  /\ packet_size' = IF changed THEN HeaderWords * 4 + Multiple4(segment.data_size)
                                      ELSE packet_size
         /\ prev_data_size' = segment.data_size
  /\ wire' = Append(wire, [data_size |-> segment.data_size,
                           bins |-> IF PSD THEN HeaderBins ELSE 0,
                           record |-> segment, size |-> packet_size', sent |-> 0])
  /\ bytes_written' = 0
  /\ pc' = "write"
  /\ UNCHANGED <<context, avroVars, queue, mRunning, segment, con>>

(* b more bytes of the packet are with the kernel; with the last of them   *)
(* the write returns 0 and the segment is deleted.                         *)
Wrote(b) ==
  /\ bytes_written' = bytes_written + b
  /\ wire' = [wire EXCEPT ![Len(wire)].sent = @ + b]
  /\ pc' = IF bytes_written' = packet_size THEN "loop" ELSE "write"
  /\ segment' = IF bytes_written' = packet_size THEN None ELSE segment
  /\ UNCHANGED <<context, avroVars, queue, mRunning, con, prev_data_size, packet_size>>

(* tcp_write(): a chunk, of which the kernel may take less.                *)
WriteChunk ==
  /\ pc = "write"
  /\ ~TLS
  /\ LET chunk == Least(DEFAULT_PKT_SIZE_B, packet_size - bytes_written)
     IN  \E b \in {chunk} \cup {k \in Short : k < chunk} : Wrote(b)

(* tls_write(): SSL_write() takes all or fails.                            *)
WriteTLS ==
  /\ pc = "write"
  /\ TLS
  /\ Wrote(packet_size)

(* r != 0, with or without SIGPIPE, whose handler clears the same flag.    *)
(* Of the packet a part may have gone out under TLS, too.                  *)
WriteFails ==
  /\ pc = "write"
  /\ mRunning' = FALSE
  /\ pc' = "close"
  /\ segment' = None
  /\ wire' \in {wire} \cup
               {[wire EXCEPT ![Len(wire)].sent = k] : k \in {k \in Short : TLS /\ k < packet_size}}
  /\ UNCHANGED <<context, avroVars, queue, con, prev_data_size, packet_size,
                 bytes_written>>

(* tls_disconnect() leaves the socket open when SSL_shutdown() has not     *)
(* succeeded in five attempts.                                             *)
Close ==
  /\ pc = "close"
  /\ pc' = "closed"
  /\ con' \in IF con = "NULL" THEN {"NULL"} ELSE {"closed"} \cup (IF TLS THEN {"open"} ELSE {})
  /\ UNCHANGED <<context, avroVars, queue, mRunning, segment, prev_data_size,
                 packet_size, bytes_written, wire>>

Run ==
  \/ Take \/ Leave \/ InitTCP \/ InitTLS \/ HaveConnection \/ Connected
  \/ Pack \/ WriteChunk \/ WriteTLS \/ Close

Up(A) == alive /\ A /\ UNCHANGED alive

Next ==
  \/ Up(\/ SerializePSD \/ SerializeIQ \/ StopSerialization \/ Stop
        \/ Run \/ HandshakeFails \/ ConnectFails \/ WriteFails)
  \/ alive /\ ReadFault

Spec == Init /\ [][Next]_vars

(* Transmission's thread is scheduled; a server that can be reached is     *)
(* reached in the end and reads what it is sent.                           *)
FairSpec == Spec /\ WF_vars(Up(Run))

-----------------------------------------------------------------------------
Records == [id : Nat, data_size : Nat, first : Nat, values : Nat, whole : BOOLEAN]

(* The type of every variable.                                             *)
TypeOK ==
  /\ context \in Contexts
  /\ serializing \in BOOLEAN
  /\ made \in 0 .. MaxRecords
  /\ reduced_fft_size \in Nat
  /\ alive \in BOOLEAN
  /\ queue \in Seq(Records)
  /\ mRunning \in BOOLEAN
  /\ pc \in {"loop", "connect", "pack", "write", "close", "closed"}
  /\ segment \in Records
  /\ con \in {"NULL", "fresh", "unusable", "joined", "up", "closed", "open"}
  /\ prev_data_size \in Nat
  /\ packet_size \in Nat
  /\ bytes_written \in 0 .. packet_size
  /\ wire \in Seq([data_size : Nat, bins : Nat, record : Records, size : Nat, sent : Nat])

(* The server finds every packet where the headers before it say: each but *)
(* the last has gone out to the last byte and is as long as its own header *)
(* makes it, whatever sizes came before it and however short the writes.   *)
Framed ==
  \A n \in DOMAIN wire :
    /\ wire[n].size = HeaderWords * 4 + Multiple4(wire[n].data_size)
    /\ wire[n].sent <= wire[n].size
    /\ n < Len(wire) => wire[n].sent = wire[n].size

(* The record of a spectrum has its middle bins, one more above them than  *)
(* below: the same ones in every record, and as many as the header says,   *)
(* which another component computes.  With those of the next hop, which    *)
(* SequentialHopping puts (1 - freq_overlap) * fft_size bins further, they *)
(* leave out no bin of the band.  So it is as soon as the overlap takes    *)
(* away more than one of the fft_size + 1 bins, and not otherwise: then    *)
(* the index of the first bin wraps, and the record is made of what lies   *)
(* outside the spectrum.                                                   *)
Middle(record) ==
  /\ record.first + record.values <= fft_size
  /\ fft_size - (record.first + record.values) = record.first + 1
RightBins ==
  PSD => \A n \in DOMAIN wire :
    /\ wire[n].bins = wire[n].record.values
    /\ (Middle(wire[n].record) <=> (context.freq_overlap * (fft_size + 1) > 1000))
    /\ 1000 * (wire[n].bins + 1) > (1000 - context.freq_overlap) * fft_size

(* When a record fits its buffer.  The buffer of a spectrum has room for   *)
(* fft_size floats and 20 bytes, and the record may have one bin more than *)
(* fft_size and much more than 20 bytes besides: it fits only because the  *)
(* overlap takes bins away.  Say it takes away more than taken of the      *)
(* fft_size + 1; rounding up to an odd number gives none of them back when *)
(* taken is odd, as fft_size is even.                                      *)
EnoughTaken(c, head) ==
  LET size == 2 ^ c.log2_fft_size IN
  \E pairs \in 0 .. size :
    LET taken == 2 * pairs + 1
    IN  c.freq_overlap * (size + 1) > 1000 * taken /\ head <= 4 * taken + 19

(* The rest of an IQ record has 4096 bytes to itself.                      *)
Roomy ==
  {c \in Contexts : \A head \in Heads :
     IF c.pipeline = "PSD" THEN EnoughTaken(c, head) ELSE head < 4096}

(* No record is cut off by the end of its buffer.                          *)
WholeRecords ==
  context \in Roomy =>
    /\ segment.whole
    /\ \A n \in DOMAIN queue : queue[n].whole
    /\ \A n \in DOMAIN wire : wire[n].record.whole

(* What the server has in full is a feed: in order, without a gap, and     *)
(* nothing after the connection has failed.  It reads a stream, so a       *)
(* packet counts only if those ahead of it have arrived.                   *)
Complete(packet) == packet.sent = packet.size
Received == LET whole == {n \in DOMAIN wire : \A m \in 1 .. n : Complete(wire[m])}
            IN  [n \in whole |-> wire[n].record.id]
Server == INSTANCE Feed WITH got <- Received, over <- pc \in {"close", "closed"}
IsFeed == Server!Spec

(* Every record arrives, stopped or not, unless the connection could not   *)
(* be set up, a handshake has failed, the connection has broken, or the    *)
(* process has read outside of a spectrum.                                 *)
GaveUp ==
  \/ ~alive
  \/ con \in {"unusable", "joined"}
  \/ pc \in {"close", "closed"} /\ wire # <<>> /\ ~Complete(wire[Len(wire)])
Arrives == \A n \in 1 .. MaxRecords : made >= n ~> (Len(Received) >= n \/ GaveUp)

=============================================================================
