---------------------------- MODULE UplinkProofs ----------------------------
(* The packets of Uplink are framed and in order, for any sizes and any    *)
(* short writes, their records have the right bins, and are whole where the *)
(* buffers have room.                                                      *)
EXTENDS Uplink, SequenceTheorems, TLAPS

USE DEF avroVars

Packet == [data_size : Nat, bins : Nat, record : Records, size : Nat, sent : Nat]

PacketSize(data_size) == HeaderWords * 4 + Multiple4(data_size)

-----------------------------------------------------------------------------
LEMMA Rounding == \A n \in Nat : Multiple4(n) \in Nat /\ Multiple4(n) >= n
BY DEF Multiple4

LEMMA BinsType ==
  ASSUME context \in Contexts
  PROVE  /\ fft_size \in Nat \ {0} /\ fft_size < UINT /\ UINT \in Nat \ {0}
         /\ Reduced \in Nat /\ HeaderBins \in Nat /\ FirstBin(HeaderBins) \in Nat
         /\ Odd(HeaderBins) = HeaderBins /\ HeaderWords \in {1, 2}
<1>1. fft_size \in Nat \ {0} /\ fft_size < UINT /\ UINT \in Nat /\ context.freq_overlap \in 0 .. 1000
  BY UplinkAssumption DEF fft_size
<1> DEFINE keep == 1000 - context.freq_overlap  product == keep * (fft_size + 1)
<1>2. keep \in Nat
  BY <1>1
<1>3. product \in Nat
  <2> HIDE DEF keep
  <2> QED BY <1>1, <1>2
<1>4. Reduced \in Nat
  <2>1. Reduced = product \div 1000
    BY DEF Reduced
  <2> HIDE DEF product
  <2> QED BY <1>3, <2>1
<1>5. HeaderBins \in Nat /\ HeaderBins % 2 # 0
  BY <1>4 DEF HeaderBins, Odd
<1>6. Odd(HeaderBins) = HeaderBins
  BY <1>5 DEF Odd
<1>7. UINT \in Nat \ {0}
  BY <1>1
<1>8. FirstBin(HeaderBins) \in Nat
  <2>1. PICK d \in Int, w \in Nat \ {0} : d = fft_size - HeaderBins /\ w = UINT
    BY <1>1, <1>5, <1>7
  <2>2. d % w \in Nat
    OBVIOUS
  <2>3. (d % w) \div 2 \in Nat
    BY <2>2
  <2> QED
    BY <2>1, <2>3 DEF FirstBin
<1> QED
  BY <1>1, <1>4, <1>5, <1>6, <1>7, <1>8 DEF HeaderWords

(* A record is never empty: not even one that its buffer cuts off.         *)
LEMMA ToldPositive ==
  ASSUME NEW head \in Nat, NEW values \in Nat, context \in Contexts
  PROVE  Told(head, values, BufSize(values)) \in Nat \ {0}
<1> DEFINE buf == BufSize(values)
<1>1. buf \in Nat /\ buf >= 20
  <2>1. CASE PSD
    <3>1. buf = Multiple4(5 * 4 + fft_size * 4) /\ fft_size \in Nat
      BY <2>1, BinsType DEF BufSize
    <3> QED
      BY <3>1, Rounding
  <2>2. CASE ~PSD
    BY <2>2, Rounding DEF BufSize
  <2> QED
    BY <2>1, <2>2
<1> HIDE DEF buf
<1>2. Told(head, values, buf) \in Nat \ {0}
  <2>1. CASE head + 4 * values + 1 <= buf
    BY <1>1, <2>1 DEF Told
  <2>2. CASE ~(head + 4 * values + 1 <= buf)
    <3> DEFINE room == (buf - head) \div 4
    <3>1. room \in Int /\ 4 * room > buf - head - 4
      BY <1>1
    <3>2. Told(head, values, buf) = head + 4 * Least(values, room)
      BY <2>2 DEF Told
    <3> HIDE DEF room
    <3>3. head + 4 * Least(values, room) \in Nat \ {0}
      BY <1>1, <2>2, <3>1 DEF Least
    <3> QED
      BY <3>2, <3>3
  <2> QED
    BY <2>1, <2>2
<1> QED
  BY <1>2 DEF buf

(* The last packet gets another count of bytes sent, the rest stay.        *)
LEMMA LastSent ==
  ASSUME wire \in Seq(Packet), wire # <<>>, NEW k \in Nat,
         wire' = [wire EXCEPT ![Len(wire)].sent = k]
  PROVE  /\ wire' \in Seq(Packet) /\ Len(wire') = Len(wire) /\ Len(wire) \in 1 .. Len(wire)
         /\ \A n \in 1 .. Len(wire) : n # Len(wire) => wire'[n] = wire[n]
         /\ wire'[Len(wire)] = [wire[Len(wire)] EXCEPT !.sent = k]
         /\ wire[Len(wire)] \in Packet
<1>1. DOMAIN wire = 1 .. Len(wire) /\ Len(wire) \in 1 .. Len(wire)
  BY LenProperties, EmptySeq
<1>2. wire[Len(wire)] \in Packet
  BY <1>1, ElementOfSeq
<1>3. wire' = [wire EXCEPT ![Len(wire)] = [wire[Len(wire)] EXCEPT !.sent = k]]
  OBVIOUS
<1>4. [wire[Len(wire)] EXCEPT !.sent = k] \in Packet
  BY <1>2 DEF Packet
<1> HIDE DEF Packet
<1>5. wire' \in Seq(Packet) /\ Len(wire') = Len(wire)
  BY <1>1, <1>3, <1>4, ExceptSeq
<1> QED
  BY <1>1, <1>2, <1>3, <1>5

-----------------------------------------------------------------------------
(* The record of a spectrum has the bins that follow from the context.     *)
Cut(record) == record.values = HeaderBins /\ record.first = FirstBin(HeaderBins)

(* What AvroSerialization hands on: a record that is not empty, with these *)
(* bins.  It goes on counting them from where it has got to.               *)
Filled == {r \in Records : r.data_size # 0 /\ (PSD => Cut(r))}

RecordInv ==
  /\ Odd(reduced_fft_size) = HeaderBins
  /\ queue \in Seq(Filled)
  /\ pc \in {"connect", "pack", "write"} => segment \in Filled

SizeInv == prev_data_size # 0 => packet_size = PacketSize(prev_data_size)

(* Every packet is as long as its header makes it, all but the last are    *)
(* out, and of the last as much as has been counted.                       *)
WireInv ==
  /\ \A n \in 1 .. Len(wire) :
       /\ wire[n].size = PacketSize(wire[n].data_size)
       /\ wire[n].sent <= wire[n].size
       /\ n < Len(wire) \/ pc \in {"loop", "connect", "pack"} => wire[n].sent = wire[n].size
       /\ PSD => wire[n].bins = HeaderBins /\ Cut(wire[n].record)
  /\ pc = "write" =>
       /\ wire # <<>>
       /\ wire[Len(wire)].size = packet_size /\ wire[Len(wire)].sent = bytes_written
       /\ bytes_written < packet_size /\ (TLS => bytes_written = 0)

UplinkInv == TypeOK /\ RecordInv /\ SizeInv /\ WireInv

LEMMA InitInv == Init => UplinkInv
<1> SUFFICES ASSUME Init PROVE UplinkInv
  OBVIOUS
<1>1. queue \in Seq(Records) /\ queue \in Seq(Filled) /\ wire \in Seq(Packet) /\ Len(wire) = 0
  BY EmptySeq DEF Init
<1>2. segment \in Records
  BY DEF Init, None, Records
<1>3. serializing \in BOOLEAN /\ mRunning \in BOOLEAN
  BY DEF Init
<1>4. TypeOK
  <2>1. reduced_fft_size \in Nat /\ alive \in BOOLEAN
    BY BinsType DEF Init
  <2> QED
    BY <1>1, <1>2, <1>3, <2>1, UplinkAssumption DEF Init, TypeOK, Packet
<1>5. RecordInv /\ SizeInv /\ WireInv
  BY <1>1 DEF Init, RecordInv, SizeInv, WireInv, HeaderBins
<1> QED
  BY <1>4, <1>5 DEF UplinkInv

(* Filled means the same all along: the context does not change.           *)
LEMMA SameContext ==
  ASSUME UNCHANGED context
  PROVE  /\ Filled' = Filled /\ HeaderWords' = HeaderWords /\ PSD' = PSD /\ TLS' = TLS
         /\ \A n : PacketSize(n)' = PacketSize(n)
         /\ HeaderBins' = HeaderBins /\ \A r : Cut(r)' = Cut(r)
BY DEF Filled, Cut, HeaderBins, FirstBin, Reduced, fft_size, HeaderWords, PSD, TLS, PacketSize

LEMMA SerializeInv ==
  ASSUME UplinkInv, NEW first \in Nat, NEW values \in Nat, Serialize(first, values),
         PSD => values = HeaderBins /\ first = FirstBin(HeaderBins),
         reduced_fft_size' \in Nat, Odd(reduced_fft_size') = HeaderBins, UNCHANGED alive
  PROVE  UplinkInv'
<1> USE DEF senderVars
<1>1. /\ context \in Contexts /\ queue \in Seq(Records) /\ queue \in Seq(Filled)
      /\ made \in Nat /\ MaxRecords \in Nat
  BY UplinkAssumption DEF UplinkInv, TypeOK, RecordInv
<1>2. PICK head \in Heads :
        queue' = Append(queue, [id |-> made', data_size |-> Told(head, values, BufSize(values)),
                                first |-> first, values |-> values,
                                whole |-> Told(head, values, BufSize(values)) = head + 4 * values + 1])
  BY DEF Serialize
<1> DEFINE record == [id |-> made', data_size |-> Told(head, values, BufSize(values)), first |-> first, values |-> values,
                      whole |-> Told(head, values, BufSize(values)) = head + 4 * values + 1]
<1>3. Told(head, values, BufSize(values)) \in Nat \ {0}
  BY <1>1, ToldPositive, UplinkAssumption
<1>4. made' \in 0 .. MaxRecords
  BY <1>1, UplinkAssumption DEF Serialize
<1>5. record \in Records
  <2>1. (Told(head, values, BufSize(values)) = head + 4 * values + 1) \in BOOLEAN
    OBVIOUS
  <2> QED
    BY <1>3, <1>4, <2>1 DEF Records
<1>6. record \in Filled
  BY <1>3, <1>5 DEF Filled, Cut
<1> HIDE DEF record
<1>7. queue' \in Seq(Records) /\ queue' \in Seq(Filled)
  BY <1>1, <1>2, <1>5, <1>6, AppendProperties DEF record
<1>8. UNCHANGED <<context, serializing, senderVars>>
  BY DEF Serialize
<1>9. Filled' = Filled /\ HeaderBins' = HeaderBins
  BY <1>8, SameContext
<1>10. TypeOK'
  BY <1>4, <1>7, <1>8 DEF UplinkInv, TypeOK
<1>11. RecordInv'
  BY <1>7, <1>8, <1>9 DEF UplinkInv, RecordInv
<1>12. SizeInv' /\ WireInv'
  BY <1>8, SameContext DEF UplinkInv, SizeInv, WireInv
<1> QED
  BY <1>10, <1>11, <1>12 DEF UplinkInv

LEMMA TakeInv == ASSUME UplinkInv, Take, UNCHANGED alive PROVE UplinkInv'
<1>1. /\ queue # <<>> /\ segment' = Head(queue) /\ queue' = Tail(queue) /\ pc' = "connect" /\ pc = "loop"
      /\ UNCHANGED <<context, avroVars, mRunning, con, prev_data_size, packet_size,
                     bytes_written, wire>>
  BY DEF Take
<1>2. queue \in Seq(Records) /\ queue \in Seq(Filled)
  BY DEF UplinkInv, TypeOK, RecordInv
<1>3. segment' \in Records /\ segment' \in Filled /\ queue' \in Seq(Records) /\ queue' \in Seq(Filled)
  BY <1>1, <1>2, HeadTailProperties
<1>4. TypeOK'
  BY <1>1, <1>3 DEF UplinkInv, TypeOK
<1>5. RecordInv'
  BY <1>1, <1>3, SameContext DEF UplinkInv, RecordInv
<1>6. SizeInv' /\ WireInv'
  BY <1>1, SameContext DEF UplinkInv, SizeInv, WireInv
<1> QED
  BY <1>4, <1>5, <1>6 DEF UplinkInv

LEMMA PackInv == ASSUME UplinkInv, Pack, UNCHANGED alive PROVE UplinkInv'
<1> DEFINE packet == [data_size |-> segment.data_size, bins |-> IF PSD THEN HeaderBins ELSE 0,
                      record |-> segment, size |-> packet_size', sent |-> 0]
<1>1. /\ pc = "pack" /\ pc' = "write" /\ bytes_written' = 0 /\ wire' = Append(wire, packet)
      /\ UNCHANGED <<context, avroVars, queue, mRunning, segment, con>>
  BY DEF Pack
<1>2. segment \in Records /\ segment.data_size \in Nat \ {0} /\ (PSD => Cut(segment))
  BY <1>1 DEF UplinkInv, RecordInv, Filled, Records
<1>3. /\ context \in Contexts /\ prev_data_size \in Nat /\ packet_size \in Nat /\ wire \in Seq(Packet)
  BY DEF UplinkInv, TypeOK, Packet
<1>4. packet_size' = PacketSize(segment.data_size) /\ prev_data_size' = segment.data_size
  <2>1. CASE segment.data_size = prev_data_size
    BY <1>2, <1>3, <2>1 DEF Pack, UplinkInv, SizeInv
  <2>2. CASE segment.data_size # prev_data_size
    BY <2>2 DEF Pack, PacketSize
  <2> QED
    BY <2>1, <2>2
<1>5. packet_size' \in Nat /\ packet_size' > 0
  <2> DEFINE words == HeaderWords  bytes == Multiple4(segment.data_size)
  <2>1. words \in {1, 2} /\ bytes \in Nat /\ packet_size' = words * 4 + bytes
    BY <1>2, <1>3, <1>4, BinsType, Rounding DEF PacketSize
  <2> HIDE DEF words, bytes
  <2>2. words * 4 \in {4, 8}
    BY <2>1
  <2> QED
    BY <2>1, <2>2
<1>6. packet \in Packet
  BY <1>2, <1>3, <1>5, BinsType DEF Packet
<1>7. /\ wire' \in Seq(Packet) /\ Len(wire') = Len(wire) + 1 /\ Len(wire) \in Nat
      /\ wire'[Len(wire')] = packet /\ wire' # <<>>
      /\ \A n \in 1 .. Len(wire) : wire'[n] = wire[n]
  <2> HIDE DEF packet, Packet
  <2>1. wire' \in Seq(Packet) /\ Len(wire') = Len(wire) + 1 /\ Len(wire) \in Nat
        /\ wire'[Len(wire')] = packet
        /\ \A n \in 1 .. Len(wire) : wire'[n] = wire[n]
    BY <1>1, <1>3, <1>6, AppendProperties, LenProperties
  <2> QED
    BY <2>1, EmptySeq
<1>8. TypeOK'
  <2>1. bytes_written' \in 0 .. packet_size'
    BY <1>1, <1>5
  <2> QED
    BY <1>1, <1>2, <1>4, <1>5, <1>7, <2>1 DEF UplinkInv, TypeOK, Packet
<1>9. RecordInv' /\ SizeInv'
  BY <1>1, <1>4, SameContext DEF UplinkInv, RecordInv, SizeInv
<1>10. WireInv'
  <2>1. ASSUME NEW n \in 1 .. Len(wire)
        PROVE  /\ wire[n].size = PacketSize(wire[n].data_size)
               /\ wire[n].sent <= wire[n].size /\ wire[n].sent = wire[n].size
               /\ PSD => wire[n].bins = HeaderBins /\ Cut(wire[n].record)
    BY <1>1 DEF UplinkInv, WireInv
  <2>2. /\ packet.size = PacketSize(packet.data_size) /\ packet.size = packet_size' /\ packet.sent = 0
        /\ PSD => packet.bins = HeaderBins /\ Cut(packet.record)
    BY <1>2, <1>3, <1>4
  <2> HIDE DEF packet
  <2>3. ASSUME NEW n \in 1 .. Len(wire')
        PROVE  /\ wire'[n].size = PacketSize(wire'[n].data_size)
               /\ wire'[n].sent <= wire'[n].size
               /\ n < Len(wire') => wire'[n].sent = wire'[n].size
               /\ PSD => wire'[n].bins = HeaderBins /\ Cut(wire'[n].record)
    <3>1. CASE n = Len(wire')
      <4>1. wire'[n] = packet /\ ~(n < Len(wire'))
        BY <1>7, <3>1
      <4>2. packet.sent <= packet.size
        BY <1>5, <2>2
      <4> QED
        BY <2>2, <4>1, <4>2
    <3>2. CASE n # Len(wire')
      <4>1. n \in 1 .. Len(wire)
        BY <1>7, <3>2
      <4> QED
        BY <1>7, <2>1, <4>1
    <3> QED
      BY <3>1, <3>2
  <2> QED
    BY <1>1, <1>5, <1>7, <2>2, <2>3, SameContext DEF WireInv
<1> QED
  BY <1>8, <1>9, <1>10 DEF UplinkInv

(* b more bytes are out.                                                   *)
LEMMA WroteInv ==
  ASSUME UplinkInv, pc = "write", NEW b \in Nat \ {0}, b <= packet_size - bytes_written,
         TLS => b = packet_size, Wrote(b), UNCHANGED alive
  PROVE  UplinkInv'
<1>1. /\ packet_size \in Nat /\ bytes_written \in Nat /\ wire \in Seq(Packet) /\ wire # <<>>
      /\ wire[Len(wire)].size = packet_size /\ wire[Len(wire)].sent = bytes_written
      /\ segment \in Records
  BY DEF UplinkInv, TypeOK, Packet, WireInv
<1>2. /\ bytes_written' = bytes_written + b /\ wire' = [wire EXCEPT ![Len(wire)].sent = bytes_written']
      /\ pc' = (IF bytes_written' = packet_size THEN "loop" ELSE "write")
      /\ segment' = (IF bytes_written' = packet_size THEN None ELSE segment)
      /\ UNCHANGED <<context, avroVars, queue, mRunning, con, prev_data_size, packet_size>>
  BY <1>1 DEF Wrote
<1>3. bytes_written' \in Nat /\ bytes_written' <= packet_size
  BY <1>1, <1>2
<1>4. /\ wire' \in Seq(Packet) /\ Len(wire') = Len(wire) /\ Len(wire) \in 1 .. Len(wire)
      /\ \A n \in 1 .. Len(wire) : n # Len(wire) => wire'[n] = wire[n]
      /\ wire'[Len(wire)] = [wire[Len(wire)] EXCEPT !.sent = bytes_written']
      /\ wire[Len(wire)] \in Packet
  BY <1>1, <1>2, <1>3, LastSent
<1>5. segment' \in Records /\ (pc' = "write" => segment' = segment)
  BY <1>1, <1>2 DEF None, Records
<1>6. TypeOK'
  <2>1. bytes_written' \in 0 .. packet_size'
    BY <1>2, <1>3
  <2> QED
    BY <1>2, <1>4, <1>5, <2>1 DEF UplinkInv, TypeOK, Packet
<1>7. RecordInv' /\ SizeInv'
  BY <1>2, <1>5, SameContext DEF UplinkInv, RecordInv, SizeInv
<1>8. WireInv'
  <2>1. ASSUME NEW n \in 1 .. Len(wire')
        PROVE  /\ wire'[n].size = PacketSize(wire'[n].data_size)
               /\ wire'[n].sent <= wire'[n].size
               /\ n < Len(wire') \/ pc' = "loop" => wire'[n].sent = wire'[n].size
               /\ PSD => wire'[n].bins = HeaderBins /\ Cut(wire'[n].record)
    <3>1. CASE n = Len(wire)
      <4>1. /\ wire'[n].size = packet_size /\ wire'[n].sent = bytes_written'
            /\ wire'[n].data_size = wire[n].data_size /\ wire'[n].bins = wire[n].bins
            /\ wire'[n].record = wire[n].record
        BY <1>1, <1>4, <3>1 DEF Packet
      <4>2. wire[n].size = PacketSize(wire[n].data_size) /\ (PSD => wire[n].bins = HeaderBins /\ Cut(wire[n].record))
        BY <1>4, <3>1 DEF UplinkInv, WireInv
      <4>3. ~(n < Len(wire'))
        BY <1>4, <3>1
      <4> QED
        BY <1>1, <1>2, <1>3, <3>1, <4>1, <4>2, <4>3
    <3>2. CASE n # Len(wire)
      <4>1. wire'[n] = wire[n] /\ n < Len(wire) /\ n \in 1 .. Len(wire)
        BY <1>4, <2>1, <3>2
      <4> QED
        BY <4>1 DEF UplinkInv, WireInv
    <3> QED
      BY <3>1, <3>2
  <2>2. pc' = "write" => bytes_written' < packet_size /\ ~TLS
    <3>1. CASE TLS
      BY <1>1, <1>2, <1>3, <3>1
    <3>2. CASE ~TLS
      BY <1>1, <1>2, <1>3, <3>2
    <3> QED
      BY <3>1, <3>2
  <2>3. wire' # <<>> /\ wire'[Len(wire')].size = packet_size /\ wire'[Len(wire')].sent = bytes_written'
    <3>1. wire' # <<>>
      BY <1>4, EmptySeq
    <3> QED
      BY <1>1, <1>4, <3>1 DEF Packet
  <2> QED
    BY <1>2, <2>1, <2>2, <2>3, SameContext DEF WireInv
<1> QED
  BY <1>6, <1>7, <1>8 DEF UplinkInv

LEMMA WriteFailsInv == ASSUME UplinkInv, WriteFails, UNCHANGED alive PROVE UplinkInv'
<1>1. /\ packet_size \in Nat /\ wire \in Seq(Packet) /\ wire # <<>>
      /\ wire[Len(wire)].size = packet_size
  BY DEF UplinkInv, TypeOK, Packet, WireInv, WriteFails
<1>2. /\ segment' = None /\ mRunning' \in BOOLEAN /\ pc = "write" /\ pc' = "close"
      /\ UNCHANGED <<context, avroVars, queue, con, prev_data_size, packet_size, bytes_written>>
  BY DEF WriteFails
<1>3. PICK k \in Nat :
        wire' = wire \/ (k < packet_size /\ wire' = [wire EXCEPT ![Len(wire)].sent = k])
  <2>1. CASE wire' = wire
    BY <2>1
  <2>2. ASSUME NEW k \in Short, k < packet_size, wire' = [wire EXCEPT ![Len(wire)].sent = k]
        PROVE  \E m \in Nat : m < packet_size /\ wire' = [wire EXCEPT ![Len(wire)].sent = m]
    BY <2>2, UplinkAssumption
  <2>3. \/ wire' = wire
        \/ \E k \in Short : k < packet_size /\ wire' = [wire EXCEPT ![Len(wire)].sent = k]
    BY DEF WriteFails
  <2> QED
    BY <2>1, <2>2, <2>3
<1>4. CASE wire' = wire
  <2>1. WireInv'
    BY <1>2, <1>4, SameContext DEF UplinkInv, WireInv
  <2>2. TypeOK'
    BY <1>2, <1>4 DEF UplinkInv, TypeOK, None, Records
  <2>3. RecordInv' /\ SizeInv'
    BY <1>2, SameContext DEF UplinkInv, RecordInv, SizeInv
  <2> QED
    BY <2>1, <2>2, <2>3 DEF UplinkInv
<1>5. CASE k < packet_size /\ wire' = [wire EXCEPT ![Len(wire)].sent = k]
  <2>1. /\ wire' \in Seq(Packet) /\ Len(wire') = Len(wire) /\ Len(wire) \in 1 .. Len(wire)
        /\ \A n \in 1 .. Len(wire) : n # Len(wire) => wire'[n] = wire[n]
        /\ wire'[Len(wire)] = [wire[Len(wire)] EXCEPT !.sent = k]
        /\ wire[Len(wire)] \in Packet
    BY <1>1, <1>5, LastSent
  <2>2. ASSUME NEW n \in 1 .. Len(wire')
        PROVE  /\ wire'[n].size = PacketSize(wire'[n].data_size)
               /\ wire'[n].sent <= wire'[n].size
               /\ n < Len(wire') => wire'[n].sent = wire'[n].size
               /\ PSD => wire'[n].bins = HeaderBins /\ Cut(wire'[n].record)
    <3>1. CASE n = Len(wire)
      <4>1. /\ wire'[n].size = packet_size /\ wire'[n].sent = k
            /\ wire'[n].data_size = wire[n].data_size /\ wire'[n].bins = wire[n].bins
            /\ wire'[n].record = wire[n].record
        BY <1>1, <2>1, <3>1 DEF Packet
      <4>2. wire[n].size = PacketSize(wire[n].data_size) /\ (PSD => wire[n].bins = HeaderBins /\ Cut(wire[n].record))
        BY <2>1, <3>1 DEF UplinkInv, WireInv
      <4>3. ~(n < Len(wire'))
        BY <2>1, <3>1
      <4> QED
        BY <1>1, <1>5, <3>1, <4>1, <4>2, <4>3
    <3>2. CASE n # Len(wire)
      <4>1. wire'[n] = wire[n] /\ n < Len(wire) /\ n \in 1 .. Len(wire)
        BY <2>1, <2>2, <3>2
      <4> QED
        BY <2>1, <4>1 DEF UplinkInv, WireInv
    <3> QED
      BY <3>1, <3>2
  <2>3. WireInv'
    BY <1>2, <2>2, SameContext DEF WireInv
  <2>4. TypeOK'
    BY <1>2, <2>1 DEF UplinkInv, TypeOK, None, Records, Packet
  <2>5. RecordInv' /\ SizeInv'
    BY <1>2, SameContext DEF UplinkInv, RecordInv, SizeInv
  <2> QED
    BY <2>3, <2>4, <2>5 DEF UplinkInv
<1> QED
  BY <1>3, <1>4, <1>5

LEMMA ConnectInv ==
  ASSUME UplinkInv, NEW state \in {"fresh", "unusable", "joined", "up", con}, ConTo(state),
         UNCHANGED alive
  PROVE  UplinkInv'
<1>1. /\ pc = "connect" /\ pc' \in {"connect", "pack"} /\ con' = state
      /\ UNCHANGED <<context, avroVars, queue, mRunning, segment, prev_data_size,
                     packet_size, bytes_written, wire>>
  BY DEF ConTo
<1>2. con' \in {"NULL", "fresh", "unusable", "joined", "up", "closed", "open"}
  BY <1>1 DEF UplinkInv, TypeOK
<1>3. TypeOK'
  BY <1>1, <1>2 DEF UplinkInv, TypeOK
<1>4. RecordInv' /\ SizeInv' /\ WireInv'
  BY <1>1, SameContext DEF UplinkInv, RecordInv, SizeInv, WireInv
<1> QED
  BY <1>3, <1>4 DEF UplinkInv

LEMMA UplinkAlways == Spec => []UplinkInv
<1>1. UplinkInv /\ [Next]_vars => UplinkInv'
  <2> SUFFICES ASSUME UplinkInv, [Next]_vars PROVE UplinkInv'
    OBVIOUS
  <2> USE DEF senderVars
  <2>0. alive' \in BOOLEAN
    BY DEF Next, Up, ReadFault, vars, UplinkInv, TypeOK
  <2>1. CASE (SerializePSD \/ SerializeIQ) /\ UNCHANGED alive
    <3>0. context \in Contexts /\ Odd(reduced_fft_size) = HeaderBins
      BY DEF UplinkInv, TypeOK, RecordInv
    <3>1. CASE SerializePSD
      <4>1. /\ reduced_fft_size' = HeaderBins /\ Serialize(FirstBin(HeaderBins), HeaderBins)
        BY <3>0, <3>1 DEF SerializePSD
      <4> QED
        BY <2>1, <3>0, <4>1, SerializeInv, BinsType
    <3>2. CASE SerializeIQ
      <4>1. PICK values \in Floats : Serialize(0, values)
        BY <3>2 DEF SerializeIQ
      <4>2. ~PSD /\ reduced_fft_size' = reduced_fft_size /\ reduced_fft_size \in Nat /\ values \in Nat
        BY <3>2, UplinkAssumption DEF SerializeIQ, UplinkInv, TypeOK
      <4> QED
        BY <2>1, <3>0, <4>1, <4>2, SerializeInv
    <3> QED
      BY <2>1, <3>1, <3>2
  <2>2. CASE StopSerialization \/ Stop \/ ReadFault \/ UNCHANGED vars
    <3>1. /\ serializing' \in BOOLEAN /\ mRunning' \in BOOLEAN
          /\ UNCHANGED <<context, made, reduced_fft_size, queue, pc, segment, con, prev_data_size,
                         packet_size, bytes_written, wire>>
      BY <2>2 DEF StopSerialization, Stop, ReadFault, vars, UplinkInv, TypeOK
    <3>2. TypeOK'
      BY <2>0, <3>1 DEF UplinkInv, TypeOK
    <3>3. RecordInv' /\ SizeInv' /\ WireInv'
      BY <3>1, SameContext DEF UplinkInv, RecordInv, SizeInv, WireInv
    <3> QED
      BY <3>2, <3>3 DEF UplinkInv
  <2>3. CASE Take /\ UNCHANGED alive
    BY <2>3, TakeInv
  <2>4. CASE (Leave \/ Close) /\ UNCHANGED alive
    <3>1. /\ pc' \in {"close", "closed"} /\ pc \in {"loop", "close"}
          /\ con' \in {con, "NULL", "closed", "open"}
          /\ UNCHANGED <<context, avroVars, queue, mRunning, segment, prev_data_size,
                         packet_size, bytes_written, wire>>
      BY <2>4 DEF Leave, Close
    <3>2. con' \in {"NULL", "fresh", "unusable", "joined", "up", "closed", "open"}
      BY <3>1 DEF UplinkInv, TypeOK
    <3>3. TypeOK'
      BY <2>4, <3>1, <3>2 DEF UplinkInv, TypeOK
    <3>4. RecordInv' /\ SizeInv' /\ WireInv'
      BY <3>1, SameContext DEF UplinkInv, RecordInv, SizeInv, WireInv
    <3> QED
      BY <3>3, <3>4 DEF UplinkInv
  <2>5. CASE (InitTCP \/ InitTLS \/ HaveConnection \/ Connected \/ HandshakeFails \/ ConnectFails) /\ UNCHANGED alive
    BY <2>5, ConnectInv DEF InitTCP, InitTLS, HaveConnection, Connected, HandshakeFails, ConnectFails
  <2>6. CASE Pack /\ UNCHANGED alive
    BY <2>6, PackInv
  <2>7. CASE WriteChunk /\ UNCHANGED alive
    <3>1. /\ pc = "write" /\ ~TLS /\ packet_size \in Nat /\ bytes_written \in Nat
          /\ bytes_written < packet_size
      BY <2>7 DEF WriteChunk, UplinkInv, TypeOK, WireInv
    <3> DEFINE left == packet_size - bytes_written  chunk == Least(DEFAULT_PKT_SIZE_B, left)
    <3>2. left \in Nat \ {0} /\ DEFAULT_PKT_SIZE_B \in Nat \ {0}
      BY <3>1, UplinkAssumption
    <3>3. chunk \in Nat \ {0} /\ chunk <= left
      <4> HIDE DEF left
      <4> QED BY <3>2 DEF Least
    <3>4. PICK b \in {chunk} \cup {k \in Short : k < chunk} : Wrote(b)
      BY <2>7 DEF WriteChunk
    <3>5. b \in Nat \ {0} /\ b <= left
      <4> HIDE DEF chunk, left
      <4> QED BY <3>2, <3>3, <3>4, UplinkAssumption
    <3> QED
      BY <2>7, <3>1, <3>4, <3>5, WroteInv
  <2>8. CASE WriteTLS /\ UNCHANGED alive
    <3>1. /\ pc = "write" /\ TLS /\ packet_size \in Nat \ {0} /\ bytes_written = 0 /\ Wrote(packet_size)
      BY <2>8 DEF WriteTLS, UplinkInv, TypeOK, WireInv
    <3>2. packet_size <= packet_size - bytes_written
      BY <3>1
    <3> QED
      BY <2>8, <3>1, <3>2, WroteInv
  <2>9. CASE WriteFails /\ UNCHANGED alive
    BY <2>9, WriteFailsInv
  <2> QED
    BY <2>1, <2>2, <2>3, <2>4, <2>5, <2>6, <2>7, <2>8, <2>9 DEF Next, Up, Run
<1> QED
  BY <1>1, InitInv, PTL DEF Spec

(* The variables keep their types, for any sizes.                          *)
THEOREM TypeCorrect == Spec => []TypeOK
<1>1. UplinkInv => TypeOK
  BY DEF UplinkInv
<1> QED
  BY <1>1, UplinkAlways, PTL

(* Every packet has the length its header announces, and no packet begins  *)
(* before the one ahead of it is out, for any sizes and short writes.      *)
THEOREM PacketsAreFramed == Spec => []Framed
<1>1. UplinkInv => Framed
  <2> SUFFICES ASSUME UplinkInv PROVE Framed
    OBVIOUS
  <2>1. DOMAIN wire = 1 .. Len(wire)
    BY LenProperties DEF UplinkInv, TypeOK
  <2> QED
    BY <2>1 DEF UplinkInv, WireInv, PacketSize, Framed
<1> QED
  BY <1>1, UplinkAlways, PTL

(* Which bins HeaderBins and FirstBin are, whatever the overlap: n is the  *)
(* FFT size, p the overlap in thousandths of a bin.                        *)
RoundedTo(n, p, bins) ==
  /\ p > 1000 => bins <= n
  /\ p <= 1000 => bins = n + 1
  /\ bins % 2 = 1 /\ 1000 * (bins + 1) > 1000 * (n + 1) - p

LEMMA Rounded ==
  \A half, p, bins \in Nat :
    p <= 1000 * (2 * half + 1) /\ bins = Odd((1000 * (2 * half + 1) - p) \div 1000)
      => RoundedTo(2 * half, p, bins)
<1> SUFFICES ASSUME NEW half \in Nat, NEW p \in Nat, NEW bins \in Nat,
                    p <= 1000 * (2 * half + 1), bins = Odd((1000 * (2 * half + 1) - p) \div 1000)
             PROVE  RoundedTo(2 * half, p, bins)
  OBVIOUS
<1>0. PICK n \in Nat : n = 2 * half
  OBVIOUS
<1> DEFINE kept == (1000 * (n + 1) - p) \div 1000
<1>1. /\ kept \in Nat /\ 1000 * kept <= 1000 * (n + 1) - p
      /\ 1000 * (kept + 1) > 1000 * (n + 1) - p
  BY <1>0
<1>2. bins = Odd(kept)
  BY <1>0
<1> HIDE DEF kept
<1>3. bins = IF kept % 2 = 0 THEN kept + 1 ELSE kept
  BY <1>2 DEF Odd
<1>4. bins % 2 = 1 /\ bins >= kept /\ bins <= kept + 1
  BY <1>1, <1>3
<1>5. p > 1000 => kept < n
  BY <1>1
<1>6. p > 1000 => bins <= n
  BY <1>1, <1>4, <1>5
<1>7. p <= 1000 => kept \in {n, n + 1}
  BY <1>1
<1>8. n % 2 = 0 /\ (n + 1) % 2 = 1
  BY <1>0
<1>9. p <= 1000 => bins = n + 1
  BY <1>3, <1>7, <1>8
<1> QED
  BY <1>0, <1>1, <1>4, <1>6, <1>9 DEF RoundedTo

(* The overlap takes away a number of thousandths of a bin.                *)
LEMMA Taken ==
  ASSUME context \in Contexts
  PROVE  \E p \in Nat : /\ p = context.freq_overlap * (fft_size + 1)
                        /\ p <= 1000 * (fft_size + 1)
                        /\ (1000 - context.freq_overlap) * (fft_size + 1) = 1000 * (fft_size + 1) - p
                        /\ (1000 - context.freq_overlap) * fft_size <= 1000 * (fft_size + 1) - p
<1>1. PICK n \in Nat, v \in Nat : n = fft_size /\ v = context.freq_overlap /\ v <= 1000
  BY BinsType, UplinkAssumption
<1>2. PICK w \in Nat : w = 1000 - v
  BY <1>1
<1>3. PICK p \in Nat : p = v * (n + 1)
  OBVIOUS
<1>4. w * (n + 1) = w * n + w /\ w * n \in Nat /\ w * (n + 1) \in Nat
  OBVIOUS
<1>5. (1000 - v) * (n + 1) = 1000 * (n + 1) - v * (n + 1)
  OBVIOUS
<1>6. w * (n + 1) = 1000 * (n + 1) - p
  BY <1>2, <1>3, <1>5
<1>7. p <= 1000 * (n + 1) /\ w * n <= 1000 * (n + 1) - p
  BY <1>4, <1>6
<1> QED
  BY <1>1, <1>2, <1>3, <1>6, <1>7

LEMMA MiddleBins ==
  ASSUME context \in Contexts, NEW record, Cut(record)
  PROVE  /\ (Middle(record) <=> (context.freq_overlap * (fft_size + 1) > 1000))
         /\ 1000 * (HeaderBins + 1) > (1000 - context.freq_overlap) * fft_size
<1>1. PICK p \in Nat : /\ p = context.freq_overlap * (fft_size + 1)
                       /\ p <= 1000 * (fft_size + 1)
                       /\ (1000 - context.freq_overlap) * (fft_size + 1) = 1000 * (fft_size + 1) - p
                       /\ (1000 - context.freq_overlap) * fft_size <= 1000 * (fft_size + 1) - p
  BY Taken
<1>2. PICK n \in Nat, bins \in Nat, w \in Nat \ {0} : n = fft_size /\ bins = HeaderBins /\ w = UINT /\ n < w
  BY BinsType
<1>3. PICK half \in Nat : n = 2 * half
  BY <1>2, UplinkAssumption DEF fft_size
<1>4. bins = Odd((1000 * (n + 1) - p) \div 1000)
  BY <1>1, <1>2 DEF HeaderBins, Reduced
<1>5. /\ p > 1000 => bins <= n
      /\ p <= 1000 => bins = n + 1
      /\ bins % 2 = 1 /\ 1000 * (bins + 1) > 1000 * (n + 1) - p
  <2>1. p <= 1000 * (n + 1)
    BY <1>1, <1>2
  <2>2. RoundedTo(2 * half, p, bins)
    BY <1>3, <1>4, <2>1, Rounded
  <2> QED
    BY <1>3, <2>2 DEF RoundedTo
<1>6. PICK first \in Nat : first = FirstBin(HeaderBins) /\ first = ((n - bins) % w) \div 2
  BY <1>2, BinsType DEF FirstBin
<1>7. record.first = first /\ record.values = bins
  BY <1>2, <1>6 DEF Cut
<1>8. Middle(record) <=> (first + bins <= n /\ n - (first + bins) = first + 1)
  BY <1>2, <1>7 DEF Middle
<1> DEFINE enough == context.freq_overlap * (fft_size + 1) > 1000
           joins == 1000 * (HeaderBins + 1) > (1000 - context.freq_overlap) * fft_size
<1>11. enough <=> (p > 1000)
  BY <1>1
<1>12. joins
  <2>1. PICK r \in Nat, q \in Nat : /\ r = (1000 - context.freq_overlap) * fft_size
                                    /\ q = 1000 * (n + 1) - p /\ r <= q
    <3>1. (1000 - context.freq_overlap) * fft_size \in Nat
      <4>1. PICK v \in Nat : v = 1000 - context.freq_overlap
        BY UplinkAssumption
      <4>2. v * n \in Nat
        BY <1>2
      <4> QED
        BY <1>2, <4>1, <4>2
    <3>2. 1000 * (n + 1) - p \in Nat
      BY <1>1, <1>2
    <3> QED
      BY <1>1, <1>2, <3>1, <3>2
  <2> QED
    BY <1>2, <1>5, <2>1
<1> HIDE DEF enough, joins
<1>9. ASSUME p > 1000 PROVE Middle(record) <=> enough
  <2>1. n - bins \in 0 .. w - 1
    BY <1>2, <1>5, <1>9
  <2>2. first = (n - bins) \div 2
    <3>1. \A d \in 0 .. w - 1 : d % w = d
      OBVIOUS
    <3> QED
      BY <1>6, <2>1, <3>1
  <2>3. (n - bins) % 2 = 1
    BY <1>2, <1>3, <1>5, <1>9
  <2>4. n - bins = 2 * first + 1
    BY <2>1, <2>2, <2>3
  <2>5. first + bins <= n /\ n - (first + bins) = first + 1
    BY <1>2, <2>4
  <2> QED
    BY <1>8, <1>9, <1>11, <2>5
<1>10. ASSUME p <= 1000 PROVE Middle(record) <=> enough
  <2>1. ~(first + bins <= n)
    BY <1>2, <1>5, <1>6, <1>10
  <2> QED
    BY <1>2, <1>6, <1>8, <1>10, <1>11, <2>1
<1>13. Middle(record) <=> enough
  BY <1>1, <1>9, <1>10
<1> QED
  BY <1>12, <1>13 DEF enough, joins

(* The records of spectra have the bins that their headers announce, those *)
(* in the middle and no others, for any FFT size and as soon as the        *)
(* overlap takes more than one bin away; and never otherwise.              *)
THEOREM BinsAreRight == Spec => []RightBins
<1>1. UplinkInv => RightBins
  <2> SUFFICES ASSUME UplinkInv, PSD, NEW n \in DOMAIN wire
               PROVE  /\ wire[n].bins = wire[n].record.values
                      /\ Middle(wire[n].record) <=> context.freq_overlap * (fft_size + 1) > 1000
                      /\ 1000 * (wire[n].bins + 1) > (1000 - context.freq_overlap) * fft_size
    BY DEF RightBins
  <2>1. DOMAIN wire = 1 .. Len(wire) /\ context \in Contexts
    BY LenProperties DEF UplinkInv, TypeOK
  <2>2. wire[n].bins = HeaderBins /\ Cut(wire[n].record)
    BY <2>1 DEF UplinkInv, WireInv
  <2> QED
    BY <2>1, <2>2, MiddleBins DEF Cut
<1> QED
  BY <1>1, UplinkAlways, PTL

-----------------------------------------------------------------------------
(* Why what arrives is a feed.  The records are numbered as they are made, *)
(* one is with the thread or none, and those on the wire, with the thread  *)
(* and in the queue follow one another without a gap.                      *)
Holding == pc \in {"connect", "pack"}

NumberInv ==
  /\ \A n \in 1 .. Len(wire) : wire[n].record.id = n
  /\ Holding => segment.id = Len(wire) + 1
  /\ \A n \in 1 .. Len(queue) : queue[n].id = (made - Len(queue)) + n
  /\ made - Len(queue) = Len(wire) + (IF Holding THEN 1 ELSE 0)

LEMMA InitNumbers == Init => NumberInv
<1> SUFFICES ASSUME Init PROVE NumberInv
  OBVIOUS
<1>1. Len(wire) = 0 /\ Len(queue) = 0 /\ made = 0 /\ pc = "loop"
  BY DEF Init
<1> QED
  BY <1>1 DEF NumberInv, Holding

LEMMA Lengths ==
  UplinkInv => /\ Len(wire) \in Nat /\ Len(queue) \in Nat /\ made \in Nat
               /\ DOMAIN wire = 1 .. Len(wire) /\ DOMAIN queue = 1 .. Len(queue)
<1> SUFFICES ASSUME UplinkInv
             PROVE  /\ Len(wire) \in Nat /\ Len(queue) \in Nat /\ made \in Nat
                    /\ DOMAIN wire = 1 .. Len(wire) /\ DOMAIN queue = 1 .. Len(queue)
  OBVIOUS
<1>1. wire \in Seq(Packet) /\ queue \in Seq(Records) /\ made \in 0 .. MaxRecords
  BY DEF UplinkInv, TypeOK, Packet
<1> QED
  BY <1>1, LenProperties

(* A write changes the last packet only, and of it only the count.         *)
LEMMA WriteStep ==
  ASSUME UplinkInv, WriteChunk \/ WriteTLS \/ WriteFails
  PROVE  /\ pc = "write" /\ Len(wire') = Len(wire) /\ Len(wire) \in 1 .. Len(wire)
         /\ \A n \in 1 .. Len(wire) : wire'[n].record = wire[n].record
         /\ UNCHANGED <<context, made, queue, packet_size>>
         /\ wire'[Len(wire)].size = packet_size
         /\ pc' \in {"loop", "write", "close"}
         /\ pc' = "close" => wire'[Len(wire)].sent < packet_size
<1>1. /\ packet_size \in Nat /\ bytes_written \in Nat /\ wire \in Seq(Packet) /\ pc = "write"
      /\ wire # <<>> /\ wire[Len(wire)].size = packet_size /\ wire[Len(wire)].sent = bytes_written
      /\ bytes_written < packet_size
  BY DEF UplinkInv, TypeOK, Packet, WireInv, WriteChunk, WriteTLS, WriteFails
<1>2. Len(wire) \in 1 .. Len(wire)
  BY <1>1, LenProperties, EmptySeq
<1>3. /\ UNCHANGED <<context, made, queue, packet_size>>
      /\ pc' \in {"loop", "write", "close"}
      /\ \/ wire' = wire
         \/ \E k \in Nat : /\ wire' = [wire EXCEPT ![Len(wire)].sent = k]
                           /\ pc' = "close" => k < packet_size
  <2>1. ASSUME NEW b \in Nat, Wrote(b)
        PROVE  /\ UNCHANGED <<context, made, queue, packet_size>> /\ pc' \in {"loop", "write"}
               /\ \E k \in Nat : wire' = [wire EXCEPT ![Len(wire)].sent = k]
    <3>1. /\ UNCHANGED <<context, made, queue, packet_size>> /\ pc' \in {"loop", "write"}
          /\ wire' = [wire EXCEPT ![Len(wire)].sent = bytes_written + b]
      BY <1>1, <2>1 DEF Wrote
    <3>2. bytes_written + b \in Nat
      BY <1>1
    <3> QED
      BY <3>1, <3>2
  <2>2. CASE WriteChunk
    <3> DEFINE left == packet_size - bytes_written  chunk == Least(DEFAULT_PKT_SIZE_B, left)
    <3>1. left \in Nat /\ DEFAULT_PKT_SIZE_B \in Nat
      BY <1>1, UplinkAssumption
    <3>2. chunk \in Nat
      <4> HIDE DEF left
      <4> QED BY <3>1 DEF Least
    <3>3. PICK b \in {chunk} \cup {k \in Short : k < chunk} : Wrote(b)
      BY <2>2 DEF WriteChunk
    <3> HIDE DEF chunk
    <3>4. b \in Nat
      BY <3>2, <3>3, UplinkAssumption
    <3> QED
      BY <2>1, <3>3, <3>4
  <2>3. CASE WriteTLS
    BY <1>1, <2>1, <2>3 DEF WriteTLS
  <2>4. CASE WriteFails
    <3>1. \A k \in Short : k \in Nat
      BY UplinkAssumption
    <3> QED
      BY <2>4, <3>1 DEF WriteFails
  <2> QED
    BY <2>2, <2>3, <2>4
<1>4. CASE wire' = wire
  BY <1>1, <1>2, <1>3, <1>4
<1>5. ASSUME NEW k \in Nat, wire' = [wire EXCEPT ![Len(wire)].sent = k],
             pc' = "close" => k < packet_size
      PROVE  /\ Len(wire') = Len(wire) /\ wire'[Len(wire)].size = packet_size
             /\ \A n \in 1 .. Len(wire) : wire'[n].record = wire[n].record
             /\ pc' = "close" => wire'[Len(wire)].sent < packet_size
  <2>1. /\ Len(wire') = Len(wire)
        /\ \A n \in 1 .. Len(wire) : n # Len(wire) => wire'[n] = wire[n]
        /\ wire'[Len(wire)] = [wire[Len(wire)] EXCEPT !.sent = k]
        /\ wire[Len(wire)] \in Packet
    BY <1>1, <1>5, LastSent
  <2>2. /\ wire'[Len(wire)].size = packet_size /\ wire'[Len(wire)].sent = k
        /\ wire'[Len(wire)].record = wire[Len(wire)].record
    BY <1>1, <2>1 DEF Packet
  <2> QED
    BY <1>5, <2>1, <2>2
<1> QED
  BY <1>1, <1>2, <1>3, <1>4, <1>5

LEMMA NumberStep == ASSUME UplinkInv, NumberInv, [Next]_vars PROVE NumberInv'
<1> USE DEF senderVars
<1>0. Len(wire) \in Nat /\ Len(queue) \in Nat /\ made \in Nat
  BY Lengths
<1>1. ASSUME NEW first, NEW values, Serialize(first, values) PROVE NumberInv'
  <2>1. PICK head \in Heads :
        queue' = Append(queue, [id |-> made', data_size |-> Told(head, values, BufSize(values)),
                                first |-> first, values |-> values,
                                whole |-> Told(head, values, BufSize(values)) = head + 4 * values + 1])
    BY <1>1 DEF Serialize
  <2> DEFINE record == [id |-> made', data_size |-> Told(head, values, BufSize(values)), first |-> first, values |-> values,
                        whole |-> Told(head, values, BufSize(values)) = head + 4 * values + 1]
  <2>2. record.id = made' /\ queue' = Append(queue, record)
    BY <2>1
  <2> HIDE DEF record
  <2>3. /\ made' = made + 1 /\ UNCHANGED <<pc, segment, wire>>
    BY <1>1 DEF Serialize
  <2>4. /\ Len(queue') = Len(queue) + 1 /\ queue'[Len(queue) + 1] = record
        /\ \A n \in 1 .. Len(queue) : queue'[n] = queue[n]
    <3>1. queue \in Seq(Records \cup {record}) /\ record \in Records \cup {record}
      BY DEF UplinkInv, TypeOK
    <3> QED
      BY <2>2, <3>1, AppendProperties
  <2>5. \A n \in 1 .. Len(queue') : queue'[n].id = (made' - Len(queue')) + n
    <3>1. \A n \in 1 .. Len(queue') : n \in 1 .. Len(queue) \/ n = Len(queue) + 1
      BY <1>0, <2>4
    <3>2. \A n \in 1 .. Len(queue) : queue'[n].id = (made - Len(queue)) + n
      BY <2>4 DEF NumberInv
    <3> QED
      BY <1>0, <2>2, <2>3, <2>4, <3>1, <3>2
  <2>6. made' - Len(queue') = made - Len(queue)
    BY <1>0, <2>3, <2>4
  <2> QED
    BY <2>3, <2>5, <2>6 DEF NumberInv, Holding
<1>2. CASE StopSerialization \/ Stop \/ Leave \/ Close \/ ReadFault \/ UNCHANGED vars
  <2>1. UNCHANGED <<made, queue, wire, segment>> /\ (Holding <=> Holding')
    BY <1>2 DEF StopSerialization, Stop, Leave, Close, ReadFault, vars, Holding
  <2> QED
    BY <2>1 DEF NumberInv
<1>3. CASE InitTCP \/ InitTLS \/ HaveConnection \/ Connected \/ HandshakeFails \/ ConnectFails
  <2>1. \E state : ConTo(state)
    BY <1>3 DEF InitTCP, InitTLS, HaveConnection, Connected, HandshakeFails, ConnectFails
  <2>2. UNCHANGED <<made, queue, wire, segment>> /\ Holding /\ Holding'
    BY <2>1 DEF ConTo, Holding
  <2> QED
    BY <2>2 DEF NumberInv
<1>4. CASE Take
  <2>1. /\ queue # <<>> /\ segment' = Head(queue) /\ queue' = Tail(queue) /\ pc' = "connect" /\ pc = "loop"
        /\ UNCHANGED <<made, wire>>
    BY <1>4 DEF Take
  <2>2. queue \in Seq(Records)
    BY DEF UplinkInv, TypeOK
  <2>3. /\ Len(queue') = Len(queue) - 1 /\ segment' = queue[1] /\ Len(queue) # 0
        /\ \A n \in 1 .. Len(queue') : queue'[n] = queue[n + 1]
    BY <2>1, <2>2, HeadTailProperties, EmptySeq
  <2>4. 1 \in 1 .. Len(queue) /\ \A n \in 1 .. Len(queue') : n + 1 \in 1 .. Len(queue)
    BY <1>0, <2>3
  <2>5. made - Len(queue) = Len(wire)
    BY <1>0, <2>1 DEF NumberInv, Holding
  <2>6. segment'.id = Len(wire') + 1
    BY <2>1, <2>3, <2>4, <2>5 DEF NumberInv
  <2>7. ASSUME NEW n \in 1 .. Len(queue') PROVE queue'[n].id = (made' - Len(queue')) + n
    <3>1. queue[n + 1].id = (made - Len(queue)) + (n + 1)
      BY <2>4 DEF NumberInv
    <3> QED
      BY <1>0, <2>1, <2>3, <3>1
  <2>8. made' - Len(queue') = Len(wire') + 1
    BY <1>0, <2>1, <2>3, <2>5
  <2>9. \A n \in 1 .. Len(wire') : wire'[n].record.id = n
    BY <2>1 DEF NumberInv
  <2>10. Holding'
    BY <2>1 DEF Holding
  <2> QED
    BY <2>6, <2>7, <2>8, <2>9, <2>10 DEF NumberInv
<1>5. CASE Pack
  <2> DEFINE packet == [data_size |-> segment.data_size, bins |-> IF PSD THEN HeaderBins ELSE 0,
                        record |-> segment, size |-> packet_size', sent |-> 0]
  <2>1. /\ pc = "pack" /\ pc' = "write" /\ wire' = Append(wire, packet) /\ packet.record = segment
        /\ UNCHANGED <<made, queue, segment>>
    BY <1>5 DEF Pack
  <2> HIDE DEF packet
  <2>2. /\ Len(wire') = Len(wire) + 1 /\ wire'[Len(wire) + 1] = packet
        /\ \A n \in 1 .. Len(wire) : wire'[n] = wire[n]
    <3>1. wire \in Seq(Packet)
      BY DEF UplinkInv, TypeOK, Packet
    <3>2. wire \in Seq(Packet \cup {packet}) /\ packet \in Packet \cup {packet}
      BY <3>1
    <3> QED
      BY <2>1, <3>2, AppendProperties
  <2>3. segment.id = Len(wire) + 1 /\ made - Len(queue) = Len(wire) + 1
    BY <2>1 DEF NumberInv, Holding
  <2>4. \A n \in 1 .. Len(wire') : wire'[n].record.id = n
    <3>1. \A n \in 1 .. Len(wire') : n \in 1 .. Len(wire) \/ n = Len(wire) + 1
      BY <1>0, <2>2
    <3> QED
      BY <2>1, <2>2, <2>3, <3>1 DEF NumberInv
  <2>5. ~Holding'
    BY <2>1 DEF Holding
  <2>6. made' - Len(queue') = Len(wire') + 0
    BY <1>0, <2>1, <2>2, <2>3
  <2> QED
    BY <2>1, <2>4, <2>5, <2>6 DEF NumberInv
<1>6. CASE WriteChunk \/ WriteTLS \/ WriteFails
  <2>1. /\ Len(wire') = Len(wire) /\ \A n \in 1 .. Len(wire) : wire'[n].record = wire[n].record
        /\ UNCHANGED <<made, queue>> /\ pc = "write" /\ pc' \in {"loop", "write", "close"}
    BY <1>6, WriteStep
  <2>2. ~Holding /\ ~Holding'
    BY <2>1 DEF Holding
  <2> QED
    BY <2>1, <2>2 DEF NumberInv
<1> QED
  BY <1>1, <1>2, <1>3, <1>4, <1>5, <1>6 DEF Next, Up, Run, SerializePSD, SerializeIQ

(* How many packets have gone out whole, and what the server has of them.  *)
Gone == IF wire = <<>> \/ Complete(wire[Len(wire)]) THEN Len(wire) ELSE Len(wire) - 1
UpTo(k) == [n \in 1 .. k |-> n]

LEMMA UpToNext ==
  ASSUME NEW k \in Nat
  PROVE  UpTo(k) \in Seq(Nat) /\ Len(UpTo(k)) = k /\ UpTo(k + 1) = Append(UpTo(k), k + 1)
<1>1. UpTo(k) \in Seq(Nat) /\ Len(UpTo(k)) = k /\ UpTo(k + 1) \in Seq(Nat) /\ Len(UpTo(k + 1)) = k + 1
  BY DEF UpTo
<1>2. /\ Append(UpTo(k), k + 1) \in Seq(Nat) /\ Len(Append(UpTo(k), k + 1)) = k + 1
      /\ \A n \in 1 .. k : Append(UpTo(k), k + 1)[n] = UpTo(k)[n]
      /\ Append(UpTo(k), k + 1)[k + 1] = k + 1
  BY <1>1, AppendProperties
<1>3. \A n \in 1 .. k + 1 : UpTo(k + 1)[n] = Append(UpTo(k), k + 1)[n]
  <2>1. \A n \in 1 .. k + 1 : n \in 1 .. k \/ n = k + 1
    OBVIOUS
  <2>2. (\A n \in 1 .. k : UpTo(k)[n] = n) /\ \A n \in 1 .. k + 1 : UpTo(k + 1)[n] = n
    BY DEF UpTo
  <2> QED
    BY <1>2, <2>1, <2>2
<1> QED
  BY <1>1, <1>2, <1>3, SeqEqual

LEMMA GoneIs ==
  UplinkInv /\ NumberInv =>
    /\ Gone \in Nat /\ Received = UpTo(Gone)
    /\ pc \in {"loop", "connect", "pack"} => Gone = Len(wire)
    /\ pc = "write" => Gone = Len(wire) - 1
<1> SUFFICES ASSUME UplinkInv, NumberInv
             PROVE  /\ Gone \in Nat /\ Received = UpTo(Gone)
                    /\ pc \in {"loop", "connect", "pack"} => Gone = Len(wire)
                    /\ pc = "write" => Gone = Len(wire) - 1
  OBVIOUS
<1>1. Len(wire) \in Nat /\ DOMAIN wire = 1 .. Len(wire) /\ (wire # <<>> => Len(wire) # 0)
  BY Lengths, EmptySeq DEF UplinkInv, TypeOK
<1>2. Gone \in Nat /\ Gone <= Len(wire) /\ Len(wire) <= Gone + 1
  BY <1>1 DEF Gone
<1>3. ASSUME NEW n \in 1 .. Len(wire) PROVE Complete(wire[n]) <=> n <= Gone
  <2>1. CASE n < Len(wire)
    <3>1. Complete(wire[n])
      BY <2>1 DEF UplinkInv, WireInv, Complete
    <3> QED
      BY <1>1, <1>2, <2>1, <3>1
  <2>2. CASE n = Len(wire)
    <3>1. wire # <<>>
      BY <1>1, <2>2
    <3> QED
      BY <1>1, <1>2, <2>2, <3>1 DEF Gone
  <2>3. n < Len(wire) \/ n = Len(wire)
    <3>1. Len(wire) \in Nat
      BY <1>1
    <3>2. n \in Nat /\ n <= Len(wire)
      BY <3>1
    <3> QED
      BY <3>1, <3>2
  <2> QED
    BY <2>1, <2>2, <2>3
<1>4. {n \in DOMAIN wire : \A m \in 1 .. n : Complete(wire[m])} = 1 .. Gone
  <2>1. ASSUME NEW n \in 1 .. Len(wire)
        PROVE  (\A m \in 1 .. n : Complete(wire[m])) <=> n \in 1 .. Gone
    <3>1. ASSUME n <= Gone, NEW m \in 1 .. n PROVE Complete(wire[m])
      <4>1. m \in 1 .. Len(wire) /\ m <= Gone
        BY <1>1, <1>2, <3>1
      <4> QED
        BY <1>3, <4>1
    <3>2. n \in 1 .. n
      BY <1>1
    <3> QED
      BY <1>1, <1>2, <1>3, <3>1, <3>2
  <2>2. \A n \in 1 .. Gone : n \in 1 .. Len(wire)
    BY <1>1, <1>2
  <2> QED
    BY <1>1, <2>1, <2>2
<1>5. \A n \in 1 .. Gone : wire[n].record.id = n
  BY <1>1, <1>2 DEF NumberInv
<1>6. Received = UpTo(Gone)
  <2>1. Received = [n \in 1 .. Gone |-> wire[n].record.id]
    BY <1>4 DEF Received
  <2> QED
    BY <1>5, <2>1 DEF UpTo
<1>7. pc \in {"loop", "connect", "pack"} => Gone = Len(wire)
  <2> SUFFICES ASSUME pc \in {"loop", "connect", "pack"}, wire # <<>> PROVE Complete(wire[Len(wire)])
    BY DEF Gone
  <2>1. Len(wire) \in 1 .. Len(wire)
    BY <1>1
  <2> QED
    BY <2>1 DEF UplinkInv, WireInv, Complete
<1>8. pc = "write" => Gone = Len(wire) - 1
  <2> SUFFICES ASSUME pc = "write" PROVE wire # <<>> /\ ~Complete(wire[Len(wire)])
    BY DEF Gone
  <2>1. /\ wire # <<>> /\ wire[Len(wire)].size = packet_size /\ wire[Len(wire)].sent = bytes_written
        /\ bytes_written < packet_size /\ packet_size \in Nat /\ bytes_written \in Nat
    BY DEF UplinkInv, WireInv, TypeOK
  <2> QED
    BY <2>1 DEF Complete
<1> QED
  BY <1>2, <1>6, <1>7, <1>8

(* The server receives the records in the order they were made, without a  *)
(* gap and once each, and none once the connection is over, for any sizes, *)
(* short writes and failures.                                              *)
THEOREM ImplementsFeed == Spec => IsFeed
<1>1. Init => Server!Init
  <2> SUFFICES ASSUME Init PROVE Server!Init
    OBVIOUS
  <2>1. wire = <<>> /\ pc = "loop" /\ DOMAIN wire = {}
    BY DEF Init
  <2>2. {n \in DOMAIN wire : \A m \in 1 .. n : Complete(wire[m])} = {}
    BY <2>1
  <2>3. Received = [n \in {} |-> wire[n].record.id]
    BY <2>2 DEF Received
  <2>4. Received = <<>>
    BY <2>3
  <2> QED
    BY <2>1, <2>4 DEF Server!Init
<1>2. (UplinkInv /\ NumberInv) /\ (UplinkInv /\ NumberInv)' /\ [Next]_vars
        => [Server!Next]_(Server!vars)
  <2> SUFFICES ASSUME UplinkInv, NumberInv, (UplinkInv /\ NumberInv)', [Next]_vars
               PROVE  [Server!Next]_(Server!vars)
    OBVIOUS
  <2> USE DEF senderVars
  <2>1. /\ Gone \in Nat /\ Received = UpTo(Gone)
        /\ pc \in {"loop", "connect", "pack"} => Gone = Len(wire)
        /\ pc = "write" => Gone = Len(wire) - 1
    BY GoneIs
  <2>2. /\ Gone' \in Nat /\ Received' = UpTo(Gone')
        /\ pc' \in {"loop", "connect", "pack"} => Gone' = Len(wire')
        /\ pc' = "write" => Gone' = Len(wire') - 1
    <3>1. (UplinkInv /\ NumberInv =>
             /\ Gone \in Nat /\ Received = UpTo(Gone)
             /\ pc \in {"loop", "connect", "pack"} => Gone = Len(wire)
             /\ pc = "write" => Gone = Len(wire) - 1)'
      BY GoneIs, PTL
    <3> QED
      BY <3>1 DEF UpTo
  <2>3. Len(wire) \in Nat
    BY Lengths
  <2> DEFINE over == pc \in {"close", "closed"}
  <2>4. CASE Gone' = Gone /\ (over' \/ (over' <=> over))
    <3>1. Received' = Received
      BY <2>1, <2>2, <2>4
    <3> QED
      BY <2>4, <3>1 DEF Server!Next, Server!End, Server!vars
  <2>5. CASE Gone' = Gone + 1 /\ ~over /\ ~over'
    <3>1. Received' = Append(Received, Len(Received) + 1)
      BY <2>1, <2>2, <2>5, UpToNext
    <3> QED
      BY <2>5, <3>1 DEF Server!Next, Server!Receive
  <2>6. CASE UNCHANGED <<wire, pc>>
    <3>1. Gone' = Gone
      BY <2>6 DEF Gone, Complete
    <3> QED
      BY <2>4, <2>6, <3>1
  <2>7. CASE Leave \/ Close
    <3>1. wire' = wire /\ over'
      BY <2>7 DEF Leave, Close
    <3>2. Gone' = Gone
      BY <3>1 DEF Gone, Complete
    <3> QED
      BY <2>4, <3>1, <3>2
  <2>8. CASE Take \/ \E state : ConTo(state)
    <3>1. wire' = wire /\ pc \in {"loop", "connect"} /\ pc' \in {"connect", "pack"}
      BY <2>8 DEF Take, ConTo
    <3>2. Gone' = Gone
      BY <3>1 DEF Gone, Complete
    <3>3. ~over /\ ~over'
      BY <3>1
    <3> QED
      BY <2>4, <3>2, <3>3
  <2>9. CASE Pack
    <3> DEFINE packet == [data_size |-> segment.data_size, bins |-> IF PSD THEN HeaderBins ELSE 0,
                          record |-> segment, size |-> packet_size', sent |-> 0]
    <3>1. pc = "pack" /\ pc' = "write" /\ wire' = Append(wire, packet)
      BY <2>9 DEF Pack
    <3> HIDE DEF packet
    <3>2. Len(wire') = Len(wire) + 1
      <4>1. wire \in Seq(Packet)
        BY DEF UplinkInv, TypeOK, Packet
      <4>2. wire \in Seq(Packet \cup {packet}) /\ packet \in Packet \cup {packet}
        BY <4>1
      <4> QED
        BY <3>1, <4>2, AppendProperties
    <3>3. Gone' = Gone
      BY <2>1, <2>2, <2>3, <3>1, <3>2
    <3>4. ~over /\ ~over'
      BY <3>1
    <3> QED
      BY <2>4, <3>3, <3>4
  <2>10. CASE WriteChunk \/ WriteTLS \/ WriteFails
    <3>1. /\ pc = "write" /\ Len(wire') = Len(wire) /\ Len(wire) \in 1 .. Len(wire)
          /\ UNCHANGED packet_size /\ wire'[Len(wire)].size = packet_size
          /\ pc' \in {"loop", "write", "close"}
          /\ pc' = "close" => wire'[Len(wire)].sent < packet_size
      BY <2>10, WriteStep
    <3>2. CASE pc' = "loop"
      <4>1. Gone' = Gone + 1
        BY <2>1, <2>2, <2>3, <3>1, <3>2
      <4> QED
        BY <2>5, <3>1, <3>2, <4>1
    <3>3. CASE pc' = "write"
      <4>1. Gone' = Gone
        BY <2>1, <2>2, <2>3, <3>1, <3>3
      <4> QED
        BY <2>4, <3>1, <3>3, <4>1
    <3>4. CASE pc' = "close"
      <4>1. wire' # <<>>
        <5>1. Len(wire') # 0
          BY <3>1
        <5> QED
          BY <5>1
      <4>2. ~Complete(wire'[Len(wire)])
        <5>1. packet_size \in Nat /\ wire'[Len(wire)].sent < packet_size /\ wire'[Len(wire)].size = packet_size
          BY <3>1, <3>4 DEF UplinkInv, TypeOK
        <5>2. ~(packet_size < packet_size)
          BY <5>1
        <5> QED
          BY <5>1, <5>2 DEF Complete
      <4>3. Gone' = Len(wire) - 1
        <5>1. Gone' = IF wire' = <<>> \/ Complete(wire'[Len(wire')]) THEN Len(wire') ELSE Len(wire') - 1
          BY DEF Gone, Complete
        <5> QED
          BY <3>1, <4>1, <4>2, <5>1
      <4>4. Gone' = Gone
        BY <2>1, <3>1, <4>3
      <4> QED
        BY <2>4, <3>4, <4>4
    <3> QED
      BY <3>1, <3>2, <3>3, <3>4
  <2> HIDE DEF over
  <2>11. CASE SerializePSD \/ SerializeIQ \/ StopSerialization \/ Stop \/ ReadFault \/ UNCHANGED vars
    <3>1. UNCHANGED <<wire, pc>>
      BY <2>11 DEF SerializePSD, SerializeIQ, Serialize, StopSerialization, Stop, ReadFault, vars
    <3> QED
      BY <2>6, <3>1
  <2>12. CASE InitTCP \/ InitTLS \/ HaveConnection \/ Connected \/ HandshakeFails \/ ConnectFails
    <3>1. \E state : ConTo(state)
      BY <2>12 DEF InitTCP, InitTLS, HaveConnection, Connected, HandshakeFails, ConnectFails
    <3> QED
      BY <2>8, <3>1
  <2> QED
    BY <2>7, <2>8, <2>9, <2>10, <2>11, <2>12 DEF Next, Up, Run
<1>3. NumberInv /\ UplinkInv /\ [Next]_vars => NumberInv'
  BY NumberStep
<1> QED
  BY <1>1, <1>2, <1>3, InitNumbers, UplinkAlways, PTL DEF Spec, IsFeed, Server!Spec

-----------------------------------------------------------------------------
LEMMA BinsLeft ==
  ASSUME context \in Contexts, NEW head \in Heads, EnoughTaken(context, head)
  PROVE  head + 4 * HeaderBins + 1 <= 20 + 4 * fft_size
<1>1. PICK half \in Nat, pairs \in Nat :
        /\ fft_size = 2 * half
        /\ context.freq_overlap * (fft_size + 1) > 1000 * (2 * pairs + 1)
        /\ head <= 4 * (2 * pairs + 1) + 19
  <2>1. fft_size \in Nat
    BY BinsType
  <2>2. PICK half \in Nat : fft_size = 2 * half
    BY UplinkAssumption DEF fft_size
  <2> QED
    BY <2>1, <2>2 DEF EnoughTaken, fft_size
<1>2. /\ fft_size \in Nat /\ context.freq_overlap \in 0 .. 1000 /\ head \in Nat
      /\ Reduced = ((1000 - context.freq_overlap) * (fft_size + 1)) \div 1000
  BY UplinkAssumption, BinsType DEF Reduced
<1>3. PICK n \in Nat, v \in Nat : n = fft_size /\ v = context.freq_overlap /\ v <= 1000
  BY <1>2
<1>4. PICK p \in Nat : p = v * (n + 1)
  OBVIOUS
<1>5. (1000 - v) * (n + 1) = 1000 * (n + 1) - p /\ p <= 1000 * (n + 1)
  <2>1. (1000 - v) * (n + 1) = 1000 * (n + 1) - p
    BY <1>4
  <2>2. (1000 - v) * (n + 1) \in Nat
    <3>1. PICK w \in Nat : w = 1000 - v
      BY <1>3
    <3>2. w * (n + 1) \in Nat
      OBVIOUS
    <3> QED
      BY <3>1, <3>2
  <2> QED
    BY <2>1, <2>2
<1>6. Reduced = (1000 * (n + 1) - p) \div 1000 /\ p > 1000 * (2 * pairs + 1)
  BY <1>1, <1>2, <1>5, <1>3, <1>4
<1>7. (1000 * (n + 1) - p) \div 1000 <= n - (2 * pairs + 1) /\ (1000 * (n + 1) - p) \div 1000 \in Nat
  BY <1>5, <1>6
<1>8. PICK bins \in Nat : bins = Reduced
  BY <1>6, <1>7
<1>9. bins <= n - (2 * pairs + 1) /\ n = 2 * half
  BY <1>1, <1>3, <1>6, <1>7, <1>8
<1>10. Odd(bins) \in Nat /\ Odd(bins) <= n - (2 * pairs + 1)
  <2>1. CASE bins % 2 = 0
    <3>1. Odd(bins) = bins + 1
      BY <2>1 DEF Odd
    <3>2. bins # n - (2 * pairs + 1)
      BY <1>9, <2>1
    <3> QED
      BY <1>9, <3>1, <3>2
  <2>2. CASE bins % 2 # 0
    BY <1>9, <2>2 DEF Odd
  <2> QED
    BY <2>1, <2>2
<1>11. HeaderBins = Odd(bins)
  BY <1>8 DEF HeaderBins
<1> QED
  BY <1>1, <1>2, <1>3, <1>10, <1>11

LEMMA NewRecordWhole ==
  ASSUME context \in Roomy, NEW head \in Heads, NEW values \in Nat, PSD => values = HeaderBins
  PROVE  Told(head, values, BufSize(values)) = head + 4 * values + 1
<1>1. head \in Nat /\ context \in Contexts
  BY UplinkAssumption DEF Roomy
<1>2. head + 4 * values + 1 <= BufSize(values)
  <2>1. CASE PSD
    <3>1. EnoughTaken(context, head)
      BY <2>1 DEF Roomy, PSD
    <3>2. fft_size \in Nat /\ HeaderBins \in Nat
      BY <1>1, BinsType
    <3>3. head + 4 * values + 1 <= 20 + 4 * fft_size
      BY <1>1, <2>1, <3>1, BinsLeft
    <3>4. 5 * 4 + fft_size * 4 \in Nat /\ 5 * 4 + fft_size * 4 = 20 + 4 * fft_size
      BY <3>2
    <3>5. BufSize(values) \in Nat /\ BufSize(values) >= 20 + 4 * fft_size
      BY <2>1, <3>4, Rounding DEF BufSize
    <3> QED
      BY <1>1, <3>2, <3>3, <3>5
  <2>2. CASE ~PSD
    <3>1. head < 4096
      BY <2>2 DEF Roomy, PSD
    <3>2. 4096 + values * 2 * 4 \in Nat
      OBVIOUS
    <3>3. BufSize(values) \in Nat /\ BufSize(values) >= 4096 + values * 2 * 4
      BY <2>2, <3>2, Rounding DEF BufSize
    <3> QED
      BY <1>1, <3>1, <3>3
  <2> QED
    BY <2>1, <2>2
<1> QED
  BY <1>2 DEF Told

LEMMA SameForEver == [Next]_vars => context' = context
BY DEF Next, Up, SerializePSD, SerializeIQ, Serialize, StopSerialization, Stop, ReadFault, Run, Take,
   Leave, ConTo, InitTCP, InitTLS, HaveConnection, Connected, HandshakeFails, ConnectFails, Pack,
   WriteChunk, WriteTLS, Wrote, WriteFails, Close, vars

LEMMA WholeStep ==
  ASSUME context \in Roomy, UplinkInv, WholeRecords, [Next]_vars PROVE WholeRecords'
<1> USE DEF senderVars
<1>0. /\ Len(wire) \in Nat /\ Len(queue) \in Nat
      /\ DOMAIN wire = 1 .. Len(wire) /\ DOMAIN queue = 1 .. Len(queue) /\ context \in Contexts
  BY Lengths DEF UplinkInv, TypeOK
<1>1. ASSUME NEW first, NEW values \in Nat, PSD => values = HeaderBins, Serialize(first, values)
      PROVE  WholeRecords'
  <2>1. PICK head \in Heads :
        queue' = Append(queue, [id |-> made', data_size |-> Told(head, values, BufSize(values)),
                                first |-> first, values |-> values,
                                whole |-> Told(head, values, BufSize(values)) = head + 4 * values + 1])
    BY <1>1 DEF Serialize
  <2> DEFINE record == [id |-> made', data_size |-> Told(head, values, BufSize(values)), first |-> first, values |-> values,
                        whole |-> Told(head, values, BufSize(values)) = head + 4 * values + 1]
  <2>2. record.whole /\ queue' = Append(queue, record)
    BY <1>0, <1>1, <2>1, NewRecordWhole
  <2> HIDE DEF record
  <2>3. UNCHANGED <<segment, wire>>
    BY <1>1 DEF Serialize
  <2>4. /\ Len(queue') = Len(queue) + 1 /\ queue'[Len(queue) + 1] = record
        /\ DOMAIN queue' = 1 .. Len(queue')
        /\ \A n \in 1 .. Len(queue) : queue'[n] = queue[n]
    <3>1. queue \in Seq(Records \cup {record}) /\ record \in Records \cup {record}
      BY DEF UplinkInv, TypeOK
    <3> QED
      BY <2>2, <3>1, AppendProperties, LenProperties
  <2>5. ASSUME NEW n \in DOMAIN queue' PROVE queue'[n].whole
    <3>1. n \in 1 .. Len(queue) \/ n = Len(queue) + 1
      BY <1>0, <2>4
    <3> QED
      BY <1>0, <2>2, <2>4, <3>1 DEF WholeRecords
  <2> QED
    BY <2>3, <2>5 DEF WholeRecords
<1>2. CASE StopSerialization \/ Stop \/ Leave \/ Close \/ ReadFault \/ UNCHANGED vars
  BY <1>2 DEF StopSerialization, Stop, Leave, Close, ReadFault, vars, WholeRecords
<1>3. CASE InitTCP \/ InitTLS \/ HaveConnection \/ Connected \/ HandshakeFails \/ ConnectFails
  BY <1>3 DEF InitTCP, InitTLS, HaveConnection, Connected, HandshakeFails, ConnectFails, ConTo,
     WholeRecords
<1>4. CASE Take
  <2>1. /\ queue # <<>> /\ segment' = Head(queue) /\ queue' = Tail(queue) /\ UNCHANGED wire
    BY <1>4 DEF Take
  <2>2. queue \in Seq(Records)
    BY DEF UplinkInv, TypeOK
  <2>3. /\ Len(queue') = Len(queue) - 1 /\ segment' = queue[1] /\ Len(queue) # 0
        /\ DOMAIN queue' = 1 .. Len(queue')
        /\ \A n \in 1 .. Len(queue') : queue'[n] = queue[n + 1]
    BY <2>1, <2>2, HeadTailProperties, LenProperties, EmptySeq
  <2>4. 1 \in DOMAIN queue /\ \A n \in DOMAIN queue' : n + 1 \in DOMAIN queue
    BY <1>0, <2>3
  <2> QED
    BY <2>1, <2>3, <2>4 DEF WholeRecords
<1>5. CASE Pack
  <2> DEFINE packet == [data_size |-> segment.data_size, bins |-> IF PSD THEN HeaderBins ELSE 0,
                        record |-> segment, size |-> packet_size', sent |-> 0]
  <2>1. wire' = Append(wire, packet) /\ packet.record = segment /\ UNCHANGED <<queue, segment>>
    BY <1>5 DEF Pack
  <2> HIDE DEF packet
  <2>2. /\ Len(wire') = Len(wire) + 1 /\ wire'[Len(wire) + 1] = packet
        /\ DOMAIN wire' = 1 .. Len(wire')
        /\ \A n \in 1 .. Len(wire) : wire'[n] = wire[n]
    <3>1. wire \in Seq(Packet)
      BY DEF UplinkInv, TypeOK, Packet
    <3>2. wire \in Seq(Packet \cup {packet}) /\ packet \in Packet \cup {packet}
      BY <3>1
    <3> QED
      BY <2>1, <3>2, AppendProperties, LenProperties
  <2>3. ASSUME NEW n \in DOMAIN wire' PROVE wire'[n].record.whole
    <3>1. n \in 1 .. Len(wire) \/ n = Len(wire) + 1
      BY <1>0, <2>2
    <3> QED
      BY <1>0, <2>1, <2>2, <3>1 DEF WholeRecords
  <2> QED
    BY <2>1, <2>3 DEF WholeRecords
<1>6. CASE WriteChunk \/ WriteTLS \/ WriteFails
  <2>1. /\ Len(wire') = Len(wire) /\ \A n \in 1 .. Len(wire) : wire'[n].record = wire[n].record
        /\ UNCHANGED queue
    BY <1>6, WriteStep
  <2>2. segment'.whole
    <3>1. \/ segment' \in {segment, None}
      BY <1>6 DEF WriteChunk, WriteTLS, WriteFails, Wrote
    <3> QED
      BY <3>1 DEF None, WholeRecords
  <2>3. DOMAIN wire' = 1 .. Len(wire)
    BY <1>0, <1>6, <2>1 DEF WriteChunk, WriteTLS, WriteFails, Wrote
  <2> QED
    BY <1>0, <2>1, <2>2, <2>3 DEF WholeRecords
<1>7. CASE SerializePSD \/ SerializeIQ
  <2>1. CASE SerializePSD
    <3>1. Odd(reduced_fft_size) = HeaderBins
      BY DEF UplinkInv, RecordInv
    <3> QED
      BY <1>0, <1>1, <2>1, <3>1, BinsType DEF SerializePSD
  <2>2. CASE SerializeIQ
    BY <1>1, <2>2, UplinkAssumption DEF SerializeIQ
  <2> QED
    BY <1>7, <2>1, <2>2
<1> QED
  BY <1>2, <1>3, <1>4, <1>5, <1>6, <1>7 DEF Next, Up, Run

(* No record is cut off by its buffer, for any FFT size, overlap and IQ    *)
(* segments, provided that the overlap takes enough bins away.             *)
THEOREM RecordsAreWhole == Spec => []WholeRecords
<1>1. Init => WholeRecords
  <2> SUFFICES ASSUME Init PROVE WholeRecords
    OBVIOUS
  <2>1. segment.whole /\ DOMAIN queue = {} /\ DOMAIN wire = {}
    BY DEF Init, None
  <2> QED
    BY <2>1 DEF WholeRecords
<1>2. UplinkInv /\ WholeRecords /\ [Next]_vars => WholeRecords'
  <2> SUFFICES ASSUME UplinkInv, WholeRecords, [Next]_vars PROVE WholeRecords'
    OBVIOUS
  <2>1. CASE context \in Roomy
    BY <2>1, WholeStep
  <2>2. CASE context \notin Roomy
    BY <2>2, SameForEver DEF WholeRecords
  <2> QED
    BY <2>1, <2>2
<1> QED
  BY <1>1, <1>2, UplinkAlways, PTL DEF Spec

=============================================================================
