---------------------------- MODULE DemuxProofs ----------------------------
(***************************************************************************)
(* Proofs about Demux, for every packet size, buffer size, set of sections *)
(* and number of faults that DemuxAssumption allows: the bounds of the     *)
(* buffers first, then that what arrives cleanly is parsed.                *)
(***************************************************************************)
EXTENDS Demux, TLAPS, SequenceTheorems

\* The inductive invariant.  FitsBuffer is not inductive by itself: it does not
\* tell a buffer that is full from one that has been parsed.  It follows from
\* HoldsIncomplete.
IInv == TypeOK /\ HoldsIncomplete /\ CollectsAllocated

-----------------------------------------------------------------------------
(* The lengths read from a buffer *)

\* A length read from any buffer is one a section may have (mpgatsc.cpp 619).
LEMMA SlensRange == ASSUME NEW buf PROVE Slens(buf) \subseteq 3 .. MaxSlen
<1> DEFINE heads == {s \in Sections : Len(buf) >= 3 /\ buf[2] = <<s, 1>> /\ buf[3] = <<s, 2>>}
<1>1. \A s \in heads : SecLen[s] \in 3 .. MaxSlen
  BY DemuxAssumption
<1> QED BY <1>1 DEF Slens

\* An empty buffer is an incomplete section.
LEMMA EmptyIncomplete == \E slen \in Slens(<<>>) : Len(<<>>) < slen
<1>1. Slens(<<>>) = 3 .. MaxSlen
  BY DEF Slens
<1>2. 3 \in Slens(<<>>)
  BY <1>1, DemuxAssumption
<1>3. Len(<<>>) < 3
  OBVIOUS
<1> QED BY <1>2, <1>3

\* What is collected fits the buffer as long as it is incomplete.
LEMMA IncompleteFits ==
  ASSUME TypeOK, HoldsIncomplete
  PROVE \A pid \in Pids : Len(collected[pid]) \in Nat /\ Len(collected[pid]) < max_pkt_len
<1> TAKE pid \in Pids
<1>1. PICK slen \in Slens(collected[pid]) : Len(collected[pid]) < slen
  BY DEF HoldsIncomplete
<1>2. slen \in 3 .. MaxSlen
  BY SlensRange
<1>3. Len(collected[pid]) \in Nat
  BY DEF TypeOK
<1> QED BY <1>1, <1>2, <1>3, DemuxAssumption

-----------------------------------------------------------------------------
(* Sequences of bytes *)

\* The bytes of a section.
LEMMA BytesType == ASSUME NEW s \in Sections PROVE Bytes(s) \in Seq(Byte)
<1>1. SecLen[s] \in Nat
  BY DemuxAssumption
<1>2. \A k \in 1 .. SecLen[s] : <<s, k - 1>> \in Byte
  BY <1>1 DEF Byte
<1> QED BY <1>1, <1>2 DEF Bytes

\* The bytes of a packet: n of them, padded.
LEMMA CutType ==
  ASSUME NEW bytes \in Seq(Byte), NEW n \in Nat
  PROVE Cut(bytes, n) \in Seq(Byte)
<1>1. \A k \in 1 .. n : (IF k <= Len(bytes) THEN bytes[k] ELSE Pad) \in Byte
  BY DEF Byte
<1> QED BY <1>1 DEF Cut

\* What is left of a section.
LEMMA DropType ==
  ASSUME NEW bytes \in Seq(Byte), NEW n \in Nat
  PROVE Drop(bytes, n) \in Seq(Byte)
BY DEF Drop

\* A packet carries a natural number of bytes.
LEMMA CapacityType ==
  ASSUME NEW start \in BOOLEAN, NEW skip \in Skips
  PROVE Capacity(start, skip) \in Nat
BY DemuxAssumption DEF Capacity

\* What is given to parse_tbl() is a section, or none.
LEMMA WholeType == ASSUME NEW bytes PROVE Whole(bytes) \in Sections \cup {NoSection}
<1>1. CASE \E s \in Sections : bytes = Bytes(s)
  BY <1>1 DEF Whole
<1>2. CASE ~ \E s \in Sections : bytes = Bytes(s)
  BY <1>2 DEF Whole
<1> QED BY <1>1, <1>2

\* Storing a packet leaves a sequence of bytes in the buffer.
LEMMA StoreType ==
  ASSUME NEW buf \in Seq(Byte), Len(buf) < max_pkt_len, NEW pkt \in Packets
  PROVE Store(buf, pkt) \in Seq(Byte)
<1>1. pkt.data \in Seq(Byte) /\ pkt.pointer \in Nat /\ Len(pkt.data) \in Nat
  BY DEF Packets
<1>2. CASE pkt.start
  BY <1>1, <1>2 DEF Store
<1>3. CASE ~ pkt.start /\ buf = <<>>
  BY <1>3 DEF Store
<1>4. CASE ~ pkt.start /\ buf # <<>>
  <2> DEFINE n == Lesser(Len(pkt.data), max_pkt_len - Len(buf))
  <2>1. n \in Nat /\ n <= Len(pkt.data)
    BY <1>1, DemuxAssumption DEF Lesser
  <2>2. SubSeq(pkt.data, 1, n) \in Seq(Byte)
    BY <1>1, <2>1
  <2> QED BY <1>4, <2>2 DEF Store
<1> QED BY <1>2, <1>3, <1>4

\* Storing a packet keeps to the buffer, if that was not full before.
LEMMA StoreFits ==
  ASSUME NEW buf \in Seq(Byte), Len(buf) < max_pkt_len, NEW pkt \in Packets,
         Len(pkt.data) <= Room
  PROVE Len(Store(buf, pkt)) <= max_pkt_len
<1>1. pkt.data \in Seq(Byte) /\ pkt.pointer \in Nat /\ Len(pkt.data) \in Nat
  BY DEF Packets
<1>2. CASE pkt.start
  <2>1. Len(SubSeq(pkt.data, pkt.pointer + 1, Len(pkt.data))) <= Len(pkt.data)
    BY <1>1
  <2>2. SubSeq(pkt.data, pkt.pointer + 1, Len(pkt.data)) \in Seq(Byte)
    BY <1>1
  <2> QED BY <1>1, <1>2, <2>1, <2>2, DemuxAssumption DEF Store
<1>3. CASE ~ pkt.start /\ buf = <<>>
  BY <1>3, DemuxAssumption DEF Store
<1>4. CASE ~ pkt.start /\ buf # <<>>
  <2> DEFINE n == Lesser(Len(pkt.data), max_pkt_len - Len(buf))
  <2>1. n \in Nat /\ n <= Len(pkt.data) /\ n <= max_pkt_len - Len(buf)
    BY <1>1, DemuxAssumption DEF Lesser
  <2>2. Store(buf, pkt) = buf \o SubSeq(pkt.data, 1, n)
    BY <1>4 DEF Store
  <2>3. SubSeq(pkt.data, 1, n) \in Seq(Byte) /\ Len(SubSeq(pkt.data, 1, n)) = n
    BY <1>1, <2>1
  <2> HIDE DEF n
  <2>4. Len(buf \o SubSeq(pkt.data, 1, n)) = Len(buf) + n
    BY <2>3
  <2> QED BY <2>1, <2>2, <2>4, DemuxAssumption
<1> QED BY <1>2, <1>3, <1>4

-----------------------------------------------------------------------------
(* thread_demux() *)

\* What one packet leaves behind.
After ==
  /\ alive' \in BOOLEAN
  /\ allocated' \in [Pids -> BOOLEAN]
  /\ collected' \in [Pids -> Seq(Byte)]
  /\ parsed' \in [Pids -> Sections \cup {NoSection}]
  /\ HoldsIncomplete'
  /\ CollectsAllocated'

\* Emptying the buffer of one PID is harmless.
LEMMA Emptied ==
  ASSUME IInv, NEW pid \in Pids,
         collected' = [collected EXCEPT ![pid] = <<>>],
         allocated' \in {allocated, [allocated EXCEPT ![pid] = TRUE]}
  PROVE /\ collected' \in [Pids -> Seq(Byte)] /\ allocated' \in [Pids -> BOOLEAN]
        /\ HoldsIncomplete' /\ CollectsAllocated'
<1> USE DEF IInv, TypeOK
<1>1. collected' \in [Pids -> Seq(Byte)] /\ allocated' \in [Pids -> BOOLEAN]
  <2>1. <<>> \in Seq(Byte)
    OBVIOUS
  <2>2. [allocated EXCEPT ![pid] = TRUE] \in [Pids -> BOOLEAN]
    BY Zenon
  <2>3. [collected EXCEPT ![pid] = <<>>] \in [Pids -> Seq(Byte)]
    BY <2>1, Zenon
  <2> QED BY <2>2, <2>3, Zenon
<1>2. HoldsIncomplete'
  <2> SUFFICES ASSUME NEW q \in Pids
               PROVE \E slen \in Slens(collected'[q]) : Len(collected'[q]) < slen
    BY DEF HoldsIncomplete, Slens
  <2>1. CASE q = pid
    BY <2>1, EmptyIncomplete
  <2>2. CASE q # pid
    BY <2>2 DEF HoldsIncomplete
  <2> QED BY <2>1, <2>2
<1>3. CollectsAllocated'
  BY DEF CollectsAllocated
<1> QED BY <1>1, <1>2, <1>3

\* Complete() parses a section only when all its bytes are there.
LEMMA CompleteStep ==
  ASSUME IInv, NEW pid \in Pids, NEW buf \in Seq(Byte),
         Complete(buf, pid),
         allocated' \in {allocated, [allocated EXCEPT ![pid] = TRUE]},
         buf # <<>> => allocated'[pid],
         alive' \in BOOLEAN
  PROVE After
<1>1. PICK slen \in Slens(buf) :
        IF Len(buf) >= slen
        THEN /\ collected' = [collected EXCEPT ![pid] = <<>>]
             /\ parsed' = [parsed EXCEPT ![pid] = Whole(SubSeq(buf, 1, slen))]
        ELSE /\ collected' = [collected EXCEPT ![pid] = buf]
             /\ UNCHANGED parsed
  BY DEF Complete
<1>2. slen \in Nat /\ Len(buf) \in Nat
  BY SlensRange
<1>3. parsed' \in [Pids -> Sections \cup {NoSection}]
  <2> DEFINE w == Whole(SubSeq(buf, 1, slen))
  <2>1. w \in Sections \cup {NoSection}
    BY WholeType
  <2>2. parsed' \in {parsed, [parsed EXCEPT ![pid] = w]}
    BY <1>1
  <2> HIDE DEF w
  <2> QED BY <2>1, <2>2 DEF IInv, TypeOK
<1>4. CASE Len(buf) >= slen
  <2>1. collected' = [collected EXCEPT ![pid] = <<>>]
    BY <1>1, <1>4
  <2> QED BY <2>1, <1>3, Emptied DEF After
<1>5. CASE ~ Len(buf) >= slen
  <2> USE DEF IInv, TypeOK
  <2>1. collected' = [collected EXCEPT ![pid] = buf]
    BY <1>1, <1>5
  <2>2. HoldsIncomplete'
    <3> SUFFICES ASSUME NEW q \in Pids
                 PROVE \E n \in Slens(collected'[q]) : Len(collected'[q]) < n
      BY DEF HoldsIncomplete, Slens
    <3>1. CASE q = pid
      BY <3>1, <2>1, <1>5, <1>2
    <3>2. CASE q # pid
      BY <3>2, <2>1 DEF HoldsIncomplete
    <3> QED BY <3>1, <3>2
  <2>3. CollectsAllocated'
    BY <2>1 DEF CollectsAllocated
  <2> QED BY <2>1, <2>2, <2>3, <1>3 DEF After
<1> QED BY <1>4, <1>5

\* thread_demux() keeps the invariant, whatever packet it is given.
LEMMA DemuxStep ==
  ASSUME IInv, NEW pkt \in Packets, thread_demux(pkt)
  PROVE After
<1>1. pkt.pid \in Pids
  BY DEF Packets
<1>2. CASE BadSync(pkt)
  BY <1>2 DEF BadSync, After, IInv, TypeOK, HoldsIncomplete, CollectsAllocated
<1>3. CASE Ignored(pkt)
  BY <1>3 DEF Ignored, demuxVars, After, IInv, TypeOK, HoldsIncomplete, CollectsAllocated
<1>4. CASE NoUnit(pkt)
  <2>1. /\ collected' = [collected EXCEPT ![pkt.pid] = <<>>]
        /\ alive' = alive /\ allocated' = allocated /\ parsed' = parsed
    BY <1>4 DEF NoUnit
  <2> QED BY <1>1, <2>1, Emptied DEF After, IInv, TypeOK
<1>5. CASE NoMemory(pkt)
  <2>1. /\ collected' = [collected EXCEPT ![pkt.pid] = <<>>]
        /\ alive' = FALSE /\ allocated' = allocated /\ parsed' = parsed
    BY <1>5 DEF NoMemory
  <2> QED BY <1>1, <2>1, Emptied DEF After, IInv, TypeOK
<1>6. CASE Stored(pkt)
  <2> DEFINE buf == Store(collected[pkt.pid], pkt)
  <2>1. buf \in Seq(Byte)
    BY <1>1, IncompleteFits, StoreType DEF IInv, TypeOK
  <2>2. Complete(buf, pkt.pid) /\ alive' \in BOOLEAN
    BY <1>6 DEF Stored, IInv, TypeOK
  <2>3. allocated' \in {allocated, [allocated EXCEPT ![pkt.pid] = TRUE]}
    BY <1>6 DEF Stored
  <2>4. buf # <<>> => allocated'[pkt.pid]
    <3>1. CASE pkt.start
      BY <3>1, <1>1, <1>6 DEF Stored, IInv, TypeOK
    <3>2. CASE ~ pkt.start
      BY <3>2, <1>1, <1>6 DEF Stored, Store, IInv, CollectsAllocated
    <3> QED BY <3>1, <3>2
  <2> HIDE DEF buf
  <2> QED BY <1>1, <2>1, <2>2, <2>3, <2>4, CompleteStep
<1> QED BY <1>2, <1>3, <1>4, <1>5, <1>6 DEF thread_demux

-----------------------------------------------------------------------------
(* The specification *)

LEMMA InitIInv == Init => IInv
<1> SUFFICES ASSUME Init PROVE IInv
  OBVIOUS
<1>1. TypeOK
  <2>1. last \in Packets
    BY DemuxAssumption DEF Init, Packet, Packets
  <2>2. faults \in 0 .. MaxFaults
    BY DemuxAssumption DEF Init
  <2>3. \A pid \in Pids : <<>> \in Seq(Byte)
    OBVIOUS
  <2> QED BY <2>1, <2>2, <2>3, Zenon DEF Init, TypeOK
<1>2. HoldsIncomplete
  BY EmptyIncomplete DEF Init, HoldsIncomplete
<1>3. CollectsAllocated
  BY DEF Init, CollectsAllocated
<1> QED BY <1>1, <1>2, <1>3 DEF IInv

\* A packet that arrives, damaged or not, or does not.
LEMMA TravelsStep ==
  ASSUME IInv, NEW pkt \in Packets, NEW continues \in BOOLEAN, Travels(pkt, continues)
  PROVE After /\ last' \in Packets /\ faults' \in 0 .. MaxFaults /\ clean' \in [Pids -> BOOLEAN]
<1>1. /\ [pkt EXCEPT !.tei = TRUE] \in Packets
      /\ [pkt EXCEPT !.sync = FALSE] \in Packets
      /\ [pkt EXCEPT !.start = TRUE, !.pointer = Room] \in Packets
  BY DemuxAssumption DEF Packets
<1>2. After
  <2>1. UNCHANGED demuxVars => After
    BY DEF demuxVars, After, IInv, TypeOK, HoldsIncomplete, CollectsAllocated
  <2> QED BY <1>1, <2>1, DemuxStep DEF Travels
<1>3. last' \in Packets
  BY Zenon DEF Travels, IInv, TypeOK
<1>4. faults' \in 0 .. MaxFaults
  <2>1. faults \in 0 .. MaxFaults
    BY DEF IInv, TypeOK
  <2>2. faults' = faults \/ (faults < MaxFaults /\ faults' = faults + 1)
    BY Zenon DEF Travels
  <2> QED BY <2>1, <2>2, DemuxAssumption
<1>5. clean' \in [Pids -> BOOLEAN]
  BY Zenon DEF Travels, IInv, TypeOK
<1> QED BY <1>2, <1>3, <1>4, <1>5

\* The packets that are sent.
LEMMA StartPacket ==
  ASSUME IInv, NEW pid \in Pids, NEW s \in Sections, NEW skip \in Skips
  PROVE  Packet(pid, TRUE, Len(rest[pid]), skip, Cut(rest[pid] \o Bytes(s), Capacity(TRUE, skip)))
           \in Packets
<1> DEFINE n == Capacity(TRUE, skip)
           bytes == rest[pid] \o Bytes(s)
<1>1. n \in Nat
  BY CapacityType
<1>2. bytes \in Seq(Byte)
  BY BytesType DEF IInv, TypeOK
<1>3. Len(rest[pid]) \in Nat /\ skip \in Nat
  BY DemuxAssumption DEF IInv, TypeOK
<1> HIDE DEF n, bytes
<1>4. Cut(bytes, n) \in Seq(Byte)
  BY <1>1, <1>2, CutType
<1>5. Packet(pid, TRUE, Len(rest[pid]), skip, Cut(bytes, n)) \in Packets
  BY <1>3, <1>4 DEF Packet, Packets
<1> QED BY <1>5 DEF n, bytes

LEMMA MorePacket ==
  ASSUME IInv, NEW pid \in Pids, NEW skip \in Skips
  PROVE  Packet(pid, FALSE, 0, skip, Cut(rest[pid], Capacity(FALSE, skip))) \in Packets
<1> DEFINE n == Capacity(FALSE, skip)
<1>1. n \in Nat
  BY CapacityType
<1>2. rest[pid] \in Seq(Byte) /\ skip \in Nat
  BY DemuxAssumption DEF IInv, TypeOK
<1> HIDE DEF n
<1>3. Cut(rest[pid], n) \in Seq(Byte)
  BY <1>1, <1>2, CutType
<1>4. Packet(pid, FALSE, 0, skip, Cut(rest[pid], n)) \in Packets
  BY <1>2, <1>3 DEF Packet, Packets
<1> QED BY <1>4 DEF n

\* Every step of the broadcaster, the network and the client keeps the invariant.
LEMMA NextIInv == IInv /\ [Next]_vars => IInv'
<1> SUFFICES ASSUME IInv, [Next]_vars PROVE IInv'
  OBVIOUS
<1>1. ASSUME After, last' \in Packets, faults' \in 0 .. MaxFaults, clean' \in [Pids -> BOOLEAN],
             sec' \in [Pids -> Sections], rest' \in [Pids -> Seq(Byte)]
      PROVE IInv'
  BY <1>1 DEF After, IInv, TypeOK
<1>2. ASSUME NEW pid \in Pids, NEW s \in Sections, NEW skip \in Skips, SendStart(pid, s, skip)
      PROVE IInv'
  <2> DEFINE n == Capacity(TRUE, skip)
             bytes == rest[pid] \o Bytes(s)
             pkt == Packet(pid, TRUE, Len(rest[pid]), skip, Cut(bytes, n))
  <2>1. n \in Nat
    BY CapacityType
  <2>2. bytes \in Seq(Byte)
    BY BytesType DEF IInv, TypeOK
  <2>3. Drop(bytes, n) \in Seq(Byte)
    <3> HIDE DEF n, bytes
    <3> QED BY <2>1, <2>2, DropType
  <2>4. pkt \in Packets
    BY StartPacket
  <2>5. /\ sec' = [sec EXCEPT ![pid] = s]
        /\ rest' = [rest EXCEPT ![pid] = Drop(bytes, n)]
        /\ Travels(pkt, TRUE)
    BY <1>2 DEF SendStart
  <2>6. sec' \in [Pids -> Sections] /\ rest' \in [Pids -> Seq(Byte)]
    <3> HIDE DEF n, bytes
    <3> QED BY <2>3, <2>5 DEF IInv, TypeOK
  <2> HIDE DEF pkt
  <2> QED BY <1>1, <2>4, <2>5, <2>6, TravelsStep
<1>3. ASSUME NEW pid \in Pids, NEW skip \in Skips, SendMore(pid, skip)
      PROVE IInv'
  <2> DEFINE n == Capacity(FALSE, skip)
             pkt == Packet(pid, FALSE, 0, skip, Cut(rest[pid], n))
  <2>1. n \in Nat /\ rest[pid] \in Seq(Byte) /\ skip \in Nat /\ clean[pid] \in BOOLEAN
    BY CapacityType, DemuxAssumption DEF IInv, TypeOK
  <2>2. Drop(rest[pid], n) \in Seq(Byte)
    <3> HIDE DEF n
    <3> QED BY <2>1, DropType
  <2>3. pkt \in Packets
    BY MorePacket
  <2>4. /\ sec' = sec
        /\ rest' = [rest EXCEPT ![pid] = Drop(rest[pid], n)]
        /\ Travels(pkt, clean[pid])
    BY <1>3 DEF SendMore
  <2>5. sec' \in [Pids -> Sections] /\ rest' \in [Pids -> Seq(Byte)]
    <3> HIDE DEF n
    <3> QED BY <2>2, <2>4 DEF IInv, TypeOK
  <2> HIDE DEF pkt
  <2> QED BY <1>1, <2>1, <2>3, <2>4, <2>5, TravelsStep
<1>4. ASSUME Repeat PROVE IInv'
  <2>1. After
    BY <1>4, DemuxStep DEF Repeat, IInv, TypeOK
  <2>2. faults' \in 0 .. MaxFaults
    BY <1>4, DemuxAssumption DEF Repeat, IInv, TypeOK
  <2>3. clean' \in [Pids -> BOOLEAN]
    BY <1>4, Zenon DEF Repeat, IInv, TypeOK
  <2>4. last' \in Packets /\ sec' \in [Pids -> Sections] /\ rest' \in [Pids -> Seq(Byte)]
    BY <1>4, Zenon DEF Repeat, IInv, TypeOK
  <2> QED BY <1>1, <2>1, <2>2, <2>3, <2>4
<1>5. ASSUME Reset PROVE IInv'
  <2>1. collected' = [pid \in Pids |-> <<>>]
    BY <1>5 DEF Reset
  <2>2. HoldsIncomplete'
    <3> SUFFICES ASSUME NEW q \in Pids
                 PROVE \E slen \in Slens(collected'[q]) : Len(collected'[q]) < slen
      BY DEF HoldsIncomplete, Slens
    <3> QED BY <2>1, EmptyIncomplete
  <2>3. CollectsAllocated'
    BY <2>1 DEF CollectsAllocated
  <2>4. TypeOK'
    BY <1>5, DemuxAssumption DEF Reset, IInv, TypeOK
  <2> QED BY <2>2, <2>3, <2>4 DEF IInv
<1>6. CASE UNCHANGED vars
  BY <1>6 DEF vars, demuxVars, IInv, TypeOK, HoldsIncomplete, CollectsAllocated
<1> QED BY <1>2, <1>3, <1>4, <1>5, <1>6 DEF Next

\* Every reachable state satisfies the inductive invariant.
THEOREM SpecIInv == Spec => []IInv
<1>1. Init => IInv
  BY InitIInv
<1>2. IInv /\ [Next]_vars => IInv'
  BY NextIInv
<1> QED BY <1>1, <1>2, PTL DEF Spec

\* Type correctness.
THEOREM DemuxTypeCorrect == Spec => []TypeOK
<1>1. IInv => TypeOK
  BY DEF IInv
<1> QED BY <1>1, SpecIInv, PTL

\* Between two packets each buffer holds an incomplete section or nothing.
THEOREM HoldsIncompleteAlways == Spec => []HoldsIncomplete
<1>1. IInv => HoldsIncomplete
  BY DEF IInv
<1> QED BY <1>1, SpecIInv, PTL

\* No packet, after any sequence of packets, is copied past the end of the
\* buffer of its PID (mpgatsc.cpp 599-614).
THEOREM BufferNeverOverrun == Spec => []FitsBuffer
<1>1. IInv => FitsBuffer
  <2> SUFFICES ASSUME IInv, NEW pid \in Pids, NEW start \in BOOLEAN, NEW n \in 0 .. Room
               PROVE Len(Store(collected[pid], Packet(pid, start, 0, 0, Cut(<<>>, n)))) <= max_pkt_len
    BY DEF FitsBuffer
  <2> DEFINE pkt == Packet(pid, start, 0, 0, Cut(<<>>, n))
  <2>1. collected[pid] \in Seq(Byte) /\ Len(collected[pid]) < max_pkt_len
    BY IncompleteFits DEF IInv, TypeOK
  <2>2. Cut(<<>>, n) \in Seq(Byte)
    <3>1. n \in Nat /\ <<>> \in Seq(Byte)
      BY DemuxAssumption
    <3> QED BY <3>1, CutType
  <2>3. Len(Cut(<<>>, n)) <= Room
    BY DemuxAssumption DEF Cut
  <2>4. pkt \in Packets
    BY <2>2 DEF Packet, Packets
  <2>5. pkt.data = Cut(<<>>, n)
    BY DEF Packet
  <2> HIDE DEF pkt
  <2>6. Len(pkt.data) <= Room
    BY <2>3, <2>5
  <2>7. Len(Store(collected[pid], pkt)) <= max_pkt_len
    BY <2>1, <2>4, <2>6, StoreFits
  <2> QED BY <2>7 DEF pkt
<1> QED BY <1>1, SpecIInv, PTL

\* Bytes are collected only in a buffer that has been allocated.
THEOREM CollectsAllocatedAlways == Spec => []CollectsAllocated
<1>1. IInv => CollectsAllocated
  BY DEF IInv
<1> QED BY <1>1, SpecIInv, PTL

-----------------------------------------------------------------------------
(* What a section that arrives cleanly leaves in the buffer *)

\* While the packets of a section arrive cleanly, the buffer has its first
\* bytes and the broadcaster the others; then it has been parsed.
Heard(pid) ==
  alive /\ clean[pid] =>
    \/ \E k \in 1 .. SecLen[sec[pid]] - 1 :
         /\ collected[pid] = Cut(Bytes(sec[pid]), k)
         /\ rest[pid] = Drop(Bytes(sec[pid]), k)
    \/ collected[pid] = <<>> /\ rest[pid] = <<>> /\ parsed[pid] = sec[pid]

AllHeard == \A pid \in Pids : Heard(pid)

LEMMA BytesAre ==
  ASSUME NEW s \in Sections
  PROVE  /\ Bytes(s) \in Seq(Byte) /\ Len(Bytes(s)) = SecLen[s]
         /\ SecLen[s] \in 3 .. MaxSlen /\ SecLen[s] \in Nat
         /\ \A m \in 1 .. SecLen[s] : Bytes(s)[m] = <<s, m - 1>>
<1>1. SecLen[s] \in 3 .. MaxSlen /\ SecLen[s] \in Nat
  BY DemuxAssumption
<1> QED BY <1>1, BytesType DEF Bytes

LEMMA CutIs ==
  ASSUME NEW bytes \in Seq(Byte), NEW n \in Nat
  PROVE  /\ Cut(bytes, n) \in Seq(Byte) /\ Len(Cut(bytes, n)) = n
         /\ \A m \in 1 .. n : Cut(bytes, n)[m] = IF m <= Len(bytes) THEN bytes[m] ELSE Pad
<1>1. Cut(bytes, n) \in Seq(Byte)
  BY CutType
<1>2. Cut(bytes, n) = [k \in 1 .. n |-> IF k <= Len(bytes) THEN bytes[k] ELSE Pad]
  BY DEF Cut
<1>3. DOMAIN Cut(bytes, n) = 1 .. n
  BY <1>2
<1>4. Len(Cut(bytes, n)) = n
  BY <1>1, <1>3, LenProperties
<1> QED BY <1>1, <1>2, <1>4

LEMMA DropIs ==
  ASSUME NEW bytes \in Seq(Byte), NEW n \in Nat
  PROVE  /\ Drop(bytes, n) \in Seq(Byte)
         /\ Len(Drop(bytes, n)) = IF n <= Len(bytes) THEN Len(bytes) - n ELSE 0
         /\ \A m \in 1 .. Len(Drop(bytes, n)) : Drop(bytes, n)[m] = bytes[n + m]
BY DropType DEF Drop

\* Cutting twice, and dropping twice.
LEMMA DropDrop ==
  ASSUME NEW bytes \in Seq(Byte), NEW k \in Nat, NEW n \in Nat
  PROVE  Drop(Drop(bytes, k), n) = Drop(bytes, k + n)
<1>1. Drop(bytes, k) \in Seq(Byte) /\ k + n \in Nat
  BY DropIs
<1> DEFINE a == Drop(Drop(bytes, k), n)
           b == Drop(bytes, k + n)
<1>2. a \in Seq(Byte) /\ b \in Seq(Byte)
  BY <1>1, DropIs
<1>3. Len(a) = Len(b)
  BY <1>1, DropIs
<1>4. \A m \in 1 .. Len(a) : a[m] = b[m]
  BY <1>1, DropIs
<1> HIDE DEF a, b
<1>5. a = b
  BY <1>2, <1>3, <1>4, SeqEqual
<1> QED BY <1>5 DEF a, b

LEMMA CutCut ==
  ASSUME NEW bytes \in Seq(Byte), NEW k \in Nat, NEW n \in Nat, NEW j \in 0 .. n,
         k <= Len(bytes)
  PROVE  Cut(bytes, k) \o SubSeq(Cut(Drop(bytes, k), n), 1, j) = Cut(bytes, k + j)
<1> DEFINE c == Cut(bytes, k)
           d == Drop(bytes, k)
           e == Cut(d, n)
           f == SubSeq(e, 1, j)
           b == Cut(bytes, k + j)
<1>1. c \in Seq(Byte) /\ Len(c) = k /\ \A m \in 1 .. k : c[m] = bytes[m]
  <2>1. /\ c \in Seq(Byte) /\ Len(c) = k
        /\ \A m \in 1 .. k : c[m] = IF m <= Len(bytes) THEN bytes[m] ELSE Pad
    BY CutIs, Zenon
  <2> HIDE DEF c
  <2> QED BY <2>1
<1>2. d \in Seq(Byte) /\ Len(d) = Len(bytes) - k /\ \A m \in 1 .. Len(d) : d[m] = bytes[k + m]
  BY DropIs
<1> HIDE DEF c, d
<1>3. /\ e \in Seq(Byte) /\ Len(e) = n
      /\ \A m \in 1 .. n : e[m] = IF m <= Len(d) THEN d[m] ELSE Pad
  BY <1>2, CutIs
<1> HIDE DEF e
<1>4. f \in Seq(Byte) /\ Len(f) = j /\ \A m \in 1 .. j : f[m] = e[m]
  BY <1>3
<1>5. /\ b \in Seq(Byte) /\ Len(b) = k + j
      /\ \A m \in 1 .. k + j : b[m] = IF m <= Len(bytes) THEN bytes[m] ELSE Pad
  BY CutIs
<1> HIDE DEF f, b
<1>6. c \o f \in Seq(Byte) /\ Len(c \o f) = k + j
  BY <1>1, <1>4
<1>7. \A m \in 1 .. k + j : (c \o f)[m] = IF m <= k THEN c[m] ELSE f[m - k]
  BY <1>1, <1>4
<1>8. \A m \in 1 .. k + j : (c \o f)[m] = b[m]
  <2> TAKE m \in 1 .. k + j
  <2>1. CASE m <= k
    <3>1. m \in 1 .. k /\ m <= Len(bytes)
      BY <2>1
    <3> QED BY <3>1, <2>1, <1>1, <1>5, <1>7
  <2>2. CASE ~ m <= k
    <3>1. m - k \in 1 .. j /\ (c \o f)[m] = e[m - k]
      <4>1. m - k \in 1 .. j
        BY <2>2
      <4> QED BY <4>1, <2>2, <1>4, <1>7
    <3>2. k + (m - k) = m /\ (m - k <= Len(d) <=> m <= Len(bytes)) /\ m - k \in 1 .. n
      BY <3>1, <1>2
    <3>3. CASE m <= Len(bytes)
      <4>1. m - k \in 1 .. Len(d)
        BY <3>1, <3>2, <3>3, <1>2
      <4>2. e[m - k] = d[m - k] /\ d[m - k] = bytes[k + (m - k)]
        BY <4>1, <3>2, <1>2, <1>3
      <4> QED BY <4>2, <3>1, <3>2, <3>3, <1>5
    <3>4. CASE ~ m <= Len(bytes)
      BY <3>1, <3>2, <3>4, <1>3, <1>5
    <3> QED BY <3>3, <3>4
  <2> QED BY <2>1, <2>2
<1>9. c \o f = b
  BY <1>5, <1>6, <1>8, SeqEqual
<1> QED BY <1>9 DEF b, c, d, e, f

\* The bytes after the pointer of a start packet are those of the new section.
LEMMA StartBytes ==
  ASSUME NEW old \in Seq(Byte), NEW new \in Seq(Byte), NEW n \in Nat, Len(old) < n
  PROVE  /\ SubSeq(Cut(old \o new, n), Len(old) + 1, n) = Cut(new, n - Len(old))
         /\ Drop(old \o new, n) = Drop(new, n - Len(old))
<1> DEFINE p == Len(old)
           all == old \o new
           c == Cut(all, n)
           a == SubSeq(c, p + 1, n)
           b == Cut(new, n - p)
           d == Drop(all, n)
           e == Drop(new, n - p)
<1>1. p \in Nat /\ n - p \in Nat /\ Len(new) \in Nat
  OBVIOUS
<1>2. /\ all \in Seq(Byte) /\ Len(all) = p + Len(new)
      /\ \A m \in 1 .. Len(new) : all[p + m] = new[m]
  OBVIOUS
<1> HIDE DEF all
<1>3. c \in Seq(Byte) /\ Len(c) = n /\ \A m \in 1 .. n : c[m] = IF m <= Len(all) THEN all[m] ELSE Pad
  BY <1>2, CutIs
<1>4. /\ b \in Seq(Byte) /\ Len(b) = n - p
      /\ \A m \in 1 .. n - p : b[m] = IF m <= Len(new) THEN new[m] ELSE Pad
  BY <1>1, CutIs
<1>5. /\ d \in Seq(Byte) /\ Len(d) = (IF n <= Len(all) THEN Len(all) - n ELSE 0)
      /\ \A m \in 1 .. Len(d) : d[m] = all[n + m]
  BY <1>2, DropIs
<1>6. /\ e \in Seq(Byte) /\ Len(e) = (IF n - p <= Len(new) THEN Len(new) - (n - p) ELSE 0)
      /\ \A m \in 1 .. Len(e) : e[m] = new[(n - p) + m]
  BY <1>1, DropIs
<1> HIDE DEF p, c, b, d, e
<1>7. a \in Seq(Byte) /\ Len(a) = n - p /\ \A m \in 1 .. n - p : a[m] = c[p + m]
  BY <1>1, <1>3
<1>8. a = b
  <2> HIDE DEF a
  <2>1. \A m \in 1 .. n - p : a[m] = b[m]
    <3> TAKE m \in 1 .. n - p
    <3>1. p + m \in 1 .. n /\ (p + m <= Len(all) <=> m <= Len(new)) /\ m >= 1
      BY <1>1, <1>2
    <3>2. a[m] = c[p + m] /\ c[p + m] = IF p + m <= Len(all) THEN all[p + m] ELSE Pad
      BY <3>1, <1>3, <1>7
    <3> QED BY <3>1, <3>2, <1>1, <1>2, <1>4
  <2> QED BY <2>1, <1>4, <1>7, SeqEqual
<1>9. d = e
  <2>1. Len(d) = Len(e)
    BY <1>1, <1>2, <1>5, <1>6
  <2>2. \A m \in 1 .. Len(d) : d[m] = e[m]
    <3> TAKE m \in 1 .. Len(d)
    <3>1. (n - p) + m \in 1 .. Len(new) /\ p + ((n - p) + m) = n + m
      BY <1>1, <1>2, <1>5
    <3> QED BY <3>1, <2>1, <1>2, <1>5, <1>6
  <2> QED BY <2>1, <2>2, <1>5, <1>6, SeqEqual
<1> QED BY <1>8, <1>9 DEF a, b, c, d, e, p, all

\* Sections differ in every byte.
LEMMA WholeBytes == ASSUME NEW s \in Sections PROVE Whole(Bytes(s)) = s
<1>1. ASSUME NEW t \in Sections, Bytes(s) = Bytes(t) PROVE t = s
  <2>1. Bytes(s)[1] = <<s, 0>> /\ Bytes(t)[1] = <<t, 0>>
    BY BytesAre
  <2> QED BY <2>1, <1>1
<1>2. PICK t \in Sections : Bytes(s) = Bytes(t) /\ Whole(Bytes(s)) = t
  BY DEF Whole
<1> QED BY <1>1, <1>2

\* The first bytes of a section are kept until they are all there; then it is
\* that section which is parsed, whatever follows it in the packet.
LEMMA CompleteClean ==
  ASSUME IInv, NEW pid \in Pids, NEW s \in Sections, NEW j \in Nat, j # 0,
         Complete(Cut(Bytes(s), j), pid)
  PROVE  IF j < SecLen[s]
         THEN collected'[pid] = Cut(Bytes(s), j) /\ parsed'[pid] = parsed[pid]
         ELSE collected'[pid] = <<>> /\ parsed'[pid] = s
<1> DEFINE buf == Cut(Bytes(s), j)
           L == SecLen[s]
<1>1. /\ Bytes(s) \in Seq(Byte) /\ Len(Bytes(s)) = L /\ L \in Nat /\ L >= 3
      /\ \A m \in 1 .. L : Bytes(s)[m] = <<s, m - 1>>
  BY BytesAre
<1>2. /\ buf \in Seq(Byte) /\ Len(buf) = j
      /\ \A m \in 1 .. j : m <= L => buf[m] = <<s, m - 1>>
  <2>1. /\ buf \in Seq(Byte) /\ Len(buf) = j
        /\ \A m \in 1 .. j : buf[m] = IF m <= Len(Bytes(s)) THEN Bytes(s)[m] ELSE Pad
    BY <1>1, CutIs, Zenon
  <2> HIDE DEF buf, L
  <2> QED BY <2>1, <1>1
<1>3. collected \in [Pids -> Seq(Byte)] /\ parsed \in [Pids -> Sections \cup {NoSection}]
  BY DEF IInv, TypeOK
<1>4. Complete(buf, pid)
  OBVIOUS
<1> HIDE DEF buf, L
<1>5. PICK slen \in Slens(buf) :
        IF Len(buf) >= slen
        THEN /\ collected' = [collected EXCEPT ![pid] = <<>>]
             /\ parsed' = [parsed EXCEPT ![pid] = Whole(SubSeq(buf, 1, slen))]
        ELSE /\ collected' = [collected EXCEPT ![pid] = buf]
             /\ UNCHANGED parsed
  BY <1>4 DEF Complete
<1>6. CASE j < 3
  <2>1. slen >= 3 /\ slen \in Nat
    BY SlensRange, DemuxAssumption
  <2>2. ~ Len(buf) >= slen /\ j < L
    BY <2>1, <1>1, <1>2, <1>6
  <2> QED BY <2>2, <1>3, <1>5 DEF buf, L
<1>7. CASE j >= 3
  <2>1. slen = L
    <3>1. buf[2] = <<s, 1>> /\ buf[3] = <<s, 2>>
      BY <1>1, <1>2, <1>7
    <3>2. {t \in Sections : Len(buf) >= 3 /\ buf[2] = <<t, 1>> /\ buf[3] = <<t, 2>>} = {s}
      BY <3>1, <1>2, <1>7
    <3>3. Slens(buf) = {SecLen[t] : t \in {s}}
      BY <3>2 DEF Slens
    <3> QED BY <3>3 DEF L
  <2>2. CASE j < L
    BY <2>1, <2>2, <1>1, <1>2, <1>3, <1>5 DEF buf, L
  <2>3. CASE j >= L
    <3>1. SubSeq(buf, 1, L) = Bytes(s)
      <4> DEFINE b == SubSeq(buf, 1, L)
      <4>1. b \in Seq(Byte) /\ Len(b) = L /\ \A m \in 1 .. L : b[m] = buf[m]
        BY <2>3, <1>1, <1>2
      <4>2. \A m \in 1 .. L : b[m] = Bytes(s)[m]
        <5> HIDE DEF b
        <5>1. \A m \in 1 .. L : m \in 1 .. j /\ m <= L
          BY <2>3, <1>1
        <5> QED BY <5>1, <4>1, <1>1, <1>2
      <4> HIDE DEF b
      <4>3. b = Bytes(s)
        BY <4>1, <4>2, <1>1, SeqEqual
      <4> QED BY <4>3 DEF b
    <3>2. /\ collected' = [collected EXCEPT ![pid] = <<>>]
          /\ parsed' = [parsed EXCEPT ![pid] = s]
      BY <3>1, <2>1, <2>3, <1>1, <1>2, <1>5, WholeBytes
    <3> QED BY <3>2, <2>3, <1>1, <1>3 DEF L
  <2> QED BY <2>2, <2>3, <1>1
<1> QED BY <1>6, <1>7

\* A packet concerns its own PID only.
LEMMA OwnPid ==
  ASSUME IInv, NEW pkt \in Packets, thread_demux(pkt)
  PROVE  /\ alive
         /\ \A q \in Pids \ {pkt.pid} : collected'[q] = collected[q] /\ parsed'[q] = parsed[q]
<1>1. pkt.pid \in Pids /\ collected \in [Pids -> Seq(Byte)]
      /\ parsed \in [Pids -> Sections \cup {NoSection}]
  BY DEF Packets, IInv, TypeOK
<1>2. ASSUME NEW buf, Complete(buf, pkt.pid)
      PROVE  \A q \in Pids \ {pkt.pid} : collected'[q] = collected[q] /\ parsed'[q] = parsed[q]
  BY <1>1, <1>2 DEF Complete
<1>3. CASE Stored(pkt)
  BY <1>2, <1>3 DEF Stored, thread_demux
<1> QED BY <1>1, <1>3 DEF thread_demux, BadSync, Ignored, NoUnit, NoMemory, demuxVars

\* What one step does for the PID of its packet.
Advances(pid) == Heard(pid)' /\ parsed'[pid] \in {parsed[pid], sec'[pid]}

\* The packet a section starts with.
LEMMA StartHeard ==
  ASSUME IInv, NEW pid \in Pids, NEW s \in Sections, NEW skip \in Skips,
         SendStart(pid, s, skip), clean'[pid]
  PROVE  Advances(pid)
<1> DEFINE n == Capacity(TRUE, skip)
           p == Len(rest[pid])
           j == n - p
           data == Cut(rest[pid] \o Bytes(s), n)
           pkt == Packet(pid, TRUE, p, skip, data)
<1>1. /\ rest[pid] \in Seq(Byte) /\ clean \in [Pids -> BOOLEAN] /\ p \in Nat /\ n \in Nat
      /\ rest \in [Pids -> Seq(Byte)] /\ sec \in [Pids -> Sections]
      /\ Bytes(s) \in Seq(Byte) /\ SecLen[s] \in Nat /\ SecLen[s] >= 3
      /\ Len(Bytes(s)) = SecLen[s]
  <2>1. n \in Nat
    BY CapacityType
  <2>2. /\ rest[pid] \in Seq(Byte) /\ clean \in [Pids -> BOOLEAN]
        /\ rest \in [Pids -> Seq(Byte)] /\ sec \in [Pids -> Sections]
    BY DEF IInv, TypeOK
  <2>3. p \in Nat
    BY <2>2
  <2> HIDE DEF n, p
  <2> QED BY <2>1, <2>2, <2>3, BytesAre
<1>2. p < n /\ j \in Nat /\ j # 0
  <2>1. p < n
    BY DEF SendStart
  <2> HIDE DEF n, p
  <2> QED BY <2>1, <1>1
<1>3. /\ sec'[pid] = s /\ rest'[pid] = Drop(Bytes(s), j)
      /\ Travels(pkt, TRUE)
  <2>1. Drop(rest[pid] \o Bytes(s), n) = Drop(Bytes(s), j)
    BY <1>1, <1>2, StartBytes
  <2> QED BY <2>1, <1>1 DEF SendStart
<1>4. skip \in Nat /\ skip < Room
  BY <1>1, <1>2, DemuxAssumption DEF Capacity
<1>5. Len(data) = n
  <2>1. rest[pid] \o Bytes(s) \in Seq(Byte)
    BY <1>1
  <2> HIDE DEF n
  <2> QED BY <2>1, <1>1, CutIs
<1>6. SubSeq(data, p + 1, n) = Cut(Bytes(s), j)
  BY <1>1, <1>2, StartBytes
<1> HIDE DEF n, p, data
<1>7. /\ pkt.sync /\ ~ pkt.tei /\ pkt.pid = pid /\ pkt.start /\ pkt.pointer = p
      /\ pkt.skip = skip /\ pkt.data = data
  BY DEF Packet
<1> HIDE DEF pkt
<1>8. thread_demux(pkt)
  BY <1>1, <1>3, <1>7 DEF Travels
<1>9. Stored(pkt) \/ (NoMemory(pkt) /\ ~ alive')
  <2>1. ~ BadSync(pkt)
    BY <1>7 DEF BadSync
  <2>2. ~ Ignored(pkt)
    BY <1>4, <1>7, DemuxAssumption DEF Ignored
  <2>3. ~ NoUnit(pkt)
    BY <1>1, <1>2, <1>5, <1>7 DEF NoUnit
  <2>4. NoMemory(pkt) => ~ alive'
    BY DEF NoMemory
  <2> QED BY <2>1, <2>2, <2>3, <2>4, <1>8 DEF thread_demux
<1>10. CASE Stored(pkt)
  <2>1. Store(collected[pid], pkt) = Cut(Bytes(s), j)
    BY <1>5, <1>6, <1>7 DEF Store
  <2>2. Complete(Cut(Bytes(s), j), pid)
    BY <2>1, <1>7, <1>10 DEF Stored
  <2>3. IF j < SecLen[s]
        THEN collected'[pid] = Cut(Bytes(s), j) /\ parsed'[pid] = parsed[pid]
        ELSE collected'[pid] = <<>> /\ parsed'[pid] = s
    BY <2>2, <1>2, CompleteClean
  <2>4. CASE j < SecLen[s]
    <3>1. j \in 1 .. SecLen[s] - 1
      BY <2>4, <1>1, <1>2
    <3> HIDE DEF j
    <3> QED BY <3>1, <2>3, <2>4, <1>3 DEF Advances, Heard
  <2>5. CASE ~ j < SecLen[s]
    <3>1. rest'[pid] = <<>>
      BY <2>5, <1>1, <1>2, <1>3, DropIs, EmptySeq
    <3> QED BY <3>1, <2>3, <2>5, <1>3 DEF Advances, Heard
  <2> QED BY <2>4, <2>5
<1>11. CASE NoMemory(pkt) /\ ~ alive'
  BY <1>11 DEF NoMemory, Advances, Heard
<1> QED BY <1>9, <1>10, <1>11

\* A packet that goes on with the section.
LEMMA MoreHeard ==
  ASSUME IInv, AllHeard, NEW pid \in Pids, NEW skip \in Skips,
         SendMore(pid, skip), clean'[pid]
  PROVE  Advances(pid)
<1> DEFINE n == Capacity(FALSE, skip)
           s == sec[pid]
           data == Cut(rest[pid], n)
           pkt == Packet(pid, FALSE, 0, skip, data)
<1>1. /\ rest[pid] \in Seq(Byte) /\ clean \in [Pids -> BOOLEAN] /\ n \in Nat
      /\ rest \in [Pids -> Seq(Byte)] /\ s \in Sections /\ collected[pid] \in Seq(Byte)
      /\ skip \in Nat
  BY CapacityType, DemuxAssumption DEF IInv, TypeOK
<1>2. /\ Bytes(s) \in Seq(Byte) /\ SecLen[s] \in Nat /\ SecLen[s] >= 3
      /\ Len(Bytes(s)) = SecLen[s] /\ SecLen[s] <= MaxSlen
  BY <1>1, BytesAre
<1>3. rest[pid] # <<>> /\ sec'[pid] = s /\ rest'[pid] = Drop(rest[pid], n)
      /\ Travels(pkt, clean[pid])
  BY <1>1 DEF SendMore
<1>4. data \in Seq(Byte) /\ Len(data) = n
  BY <1>1, CutIs
<1>5. /\ pkt.sync /\ ~ pkt.tei /\ pkt.pid = pid /\ ~ pkt.start
      /\ pkt.skip = skip /\ pkt.data = data
  BY DEF Packet
<1>6. n = IF skip < Room THEN Room - skip ELSE 0
  BY <1>1, DemuxAssumption DEF Capacity
<1> HIDE DEF n, pkt
<1>7. clean[pid] /\ thread_demux(pkt)
  BY <1>1, <1>3, <1>5 DEF Travels
<1>8. alive
  BY <1>7 DEF thread_demux
<1>9. PICK k \in 1 .. SecLen[s] - 1 :
        collected[pid] = Cut(Bytes(s), k) /\ rest[pid] = Drop(Bytes(s), k)
  BY <1>3, <1>7, <1>8 DEF AllHeard, Heard
<1>10. k \in Nat /\ k # 0 /\ k < SecLen[s] /\ Len(collected[pid]) = k
  <2>1. k \in Nat /\ k # 0 /\ k < SecLen[s]
    BY <1>2
  <2> QED BY <2>1, <1>2, <1>9, CutIs
<1>11. rest'[pid] = Drop(Bytes(s), k + n)
  BY <1>1, <1>2, <1>3, <1>9, <1>10, DropDrop
<1>12. Stored(pkt) \/ (Ignored(pkt) /\ n = 0)
  <2>1. ~ BadSync(pkt) /\ ~ NoUnit(pkt) /\ ~ NoMemory(pkt)
    BY <1>5 DEF BadSync, NoUnit, NoMemory
  <2>2. Ignored(pkt) => n = 0
    BY <1>1, <1>5, <1>6, DemuxAssumption DEF Ignored
  <2> QED BY <2>1, <2>2, <1>7 DEF thread_demux
<1>13. CASE Ignored(pkt) /\ n = 0
  <2>1. collected' = collected /\ parsed' = parsed
    BY <1>13 DEF Ignored, demuxVars
  <2>2. rest'[pid] = Drop(Bytes(s), k)
    BY <1>10, <1>11, <1>13
  <2> QED BY <2>1, <2>2, <1>3, <1>9 DEF Advances, Heard
<1>14. CASE Stored(pkt)
  <2> DEFINE i == Lesser(n, max_pkt_len - k)
             j == k + i
  <2>1. i \in 0 .. n /\ i \in Nat /\ j \in Nat /\ j # 0 /\ j <= k + n
    BY <1>1, <1>2, <1>10, DemuxAssumption DEF Lesser
  <2>2. Store(collected[pid], pkt) = Cut(Bytes(s), j)
    <3>1. collected[pid] # <<>>
      BY <1>10
    <3>2. Store(collected[pid], pkt) = collected[pid] \o SubSeq(data, 1, i)
      BY <3>1, <1>4, <1>5, <1>10 DEF Store
    <3> HIDE DEF i
    <3>3. Cut(Bytes(s), k) \o SubSeq(Cut(Drop(Bytes(s), k), n), 1, i) = Cut(Bytes(s), k + i)
      <4>1. k <= Len(Bytes(s))
        BY <1>2, <1>10
      <4>2. Bytes(s) \in Seq(Byte) /\ k \in Nat /\ n \in Nat /\ i \in 0 .. n
        BY <2>1, <1>1, <1>2, <1>10
      <4> QED BY <4>1, <4>2, CutCut
    <3> QED BY <3>2, <3>3, <1>9
  <2>3. Complete(Cut(Bytes(s), j), pid)
    BY <2>2, <1>5, <1>14 DEF Stored
  <2>4. IF j < SecLen[s]
        THEN collected'[pid] = Cut(Bytes(s), j) /\ parsed'[pid] = parsed[pid]
        ELSE collected'[pid] = <<>> /\ parsed'[pid] = s
    <3> HIDE DEF j
    <3> QED BY <2>1, <2>3, <1>1, CompleteClean
  <2>5. CASE j < SecLen[s]
    <3>1. i = n
      BY <2>5, <1>1, <1>2, <1>10, DemuxAssumption DEF Lesser
    <3>2. j \in 1 .. SecLen[s] - 1 /\ rest'[pid] = Drop(Bytes(s), j)
      BY <3>1, <2>1, <2>5, <1>2, <1>11
    <3> HIDE DEF j
    <3> QED BY <3>2, <2>4, <2>5, <1>3 DEF Advances, Heard
  <2>6. CASE ~ j < SecLen[s]
    <3>1. k + n \in Nat /\ k + n >= SecLen[s]
      BY <2>1, <2>6, <1>1, <1>2, <1>10
    <3>2. rest'[pid] = <<>>
      <4>1. Drop(Bytes(s), k + n) \in Seq(Byte) /\ Len(Drop(Bytes(s), k + n)) = 0
        BY <3>1, <1>2, DropIs
      <4> QED BY <4>1, <1>11, EmptySeq
    <3> QED BY <3>2, <2>4, <2>6, <1>3 DEF Advances, Heard
  <2> QED BY <2>5, <2>6
<1> QED BY <1>12, <1>13, <1>14

\* A PID whose packets and section stay as they are.
LEMMA OtherPid ==
  ASSUME NEW q \in Pids, Heard(q), alive' => alive, clean'[q] => clean[q],
         collected'[q] = collected[q], parsed'[q] = parsed[q],
         sec'[q] = sec[q], rest'[q] = rest[q]
  PROVE  Advances(q)
BY DEF Advances, Heard

\* A packet that travels leaves the other PIDs alone.
LEMMA TravelsOwnPid ==
  ASSUME IInv, NEW pkt \in Packets, NEW continues \in BOOLEAN, Travels(pkt, continues)
  PROVE  /\ alive' => alive
         /\ \A q \in Pids \ {pkt.pid} :
              collected'[q] = collected[q] /\ parsed'[q] = parsed[q] /\ clean'[q] = clean[q]
<1>1. /\ [pkt EXCEPT !.tei = TRUE] \in Packets /\ [pkt EXCEPT !.tei = TRUE].pid = pkt.pid
      /\ [pkt EXCEPT !.sync = FALSE] \in Packets /\ [pkt EXCEPT !.sync = FALSE].pid = pkt.pid
      /\ [pkt EXCEPT !.start = TRUE, !.pointer = Room] \in Packets
      /\ [pkt EXCEPT !.start = TRUE, !.pointer = Room].pid = pkt.pid
  BY DemuxAssumption DEF Packets
<1>2. pkt.pid \in Pids /\ clean \in [Pids -> BOOLEAN]
  BY DEF Packets, IInv, TypeOK
<1>3. CASE UNCHANGED demuxVars
  BY <1>2, <1>3 DEF demuxVars, Travels
<1>4. CASE ~ UNCHANGED demuxVars
  <2>1. PICK p \in Packets : p.pid = pkt.pid /\ thread_demux(p)
    BY <1>1, <1>4 DEF Travels
  <2>2. alive /\ \A q \in Pids \ {pkt.pid} : collected'[q] = collected[q] /\ parsed'[q] = parsed[q]
    BY <2>1, OwnPid
  <2>3. \A q \in Pids \ {pkt.pid} : clean'[q] = clean[q]
    BY <1>2 DEF Travels
  <2> QED BY <2>2, <2>3
<1> QED BY <1>3, <1>4

-----------------------------------------------------------------------------
(* Both invariants together *)

\* What every step does, for every PID.
LEMMA NextAdvances ==
  ASSUME IInv, AllHeard, [Next]_vars
  PROVE  \A q \in Pids :
           /\ Heard(q)'
           /\ clean'[q] => parsed'[q] \in {parsed[q], sec'[q]}
<1> TAKE q \in Pids
<1>1. ASSUME Advances(q)
      PROVE  Heard(q)' /\ (clean'[q] => parsed'[q] \in {parsed[q], sec'[q]})
  BY <1>1 DEF Advances
<1>2. ASSUME ~ clean'[q]
      PROVE  Heard(q)' /\ (clean'[q] => parsed'[q] \in {parsed[q], sec'[q]})
  BY <1>2 DEF Heard
<1>3. Heard(q)
  BY DEF AllHeard
<1>4. /\ sec \in [Pids -> Sections] /\ rest \in [Pids -> Seq(Byte)] /\ last \in Packets
      /\ clean \in [Pids -> BOOLEAN] /\ last.pid \in Pids
  BY DEF IInv, TypeOK, Packets
<1>5. ASSUME NEW pid \in Pids, NEW s \in Sections, NEW skip \in Skips, SendStart(pid, s, skip)
      PROVE  Heard(q)' /\ (clean'[q] => parsed'[q] \in {parsed[q], sec'[q]})
  <2>1. CASE q = pid
    BY <2>1, <1>1, <1>2, <1>5, StartHeard
  <2>2. CASE q # pid
    <3> DEFINE pkt == Packet(pid, TRUE, Len(rest[pid]), skip,
                             Cut(rest[pid] \o Bytes(s), Capacity(TRUE, skip)))
    <3>1. sec'[q] = sec[q] /\ rest'[q] = rest[q] /\ Travels(pkt, TRUE)
      BY <2>2, <1>4, <1>5 DEF SendStart
    <3>2. pkt \in Packets /\ pkt.pid = pid
      BY StartPacket DEF Packet
    <3> HIDE DEF pkt
    <3>3. /\ alive' => alive
          /\ collected'[q] = collected[q] /\ parsed'[q] = parsed[q] /\ clean'[q] = clean[q]
      BY <3>1, <3>2, <2>2, TravelsOwnPid
    <3> QED BY <3>1, <3>3, <1>1, <1>3, OtherPid
  <2> QED BY <2>1, <2>2
<1>6. ASSUME NEW pid \in Pids, NEW skip \in Skips, SendMore(pid, skip)
      PROVE  Heard(q)' /\ (clean'[q] => parsed'[q] \in {parsed[q], sec'[q]})
  <2>1. CASE q = pid
    BY <2>1, <1>1, <1>2, <1>6, MoreHeard
  <2>2. CASE q # pid
    <3> DEFINE pkt == Packet(pid, FALSE, 0, skip, Cut(rest[pid], Capacity(FALSE, skip)))
    <3>1. sec'[q] = sec[q] /\ rest'[q] = rest[q] /\ Travels(pkt, clean[pid])
      BY <2>2, <1>4, <1>6 DEF SendMore
    <3>2. pkt \in Packets /\ pkt.pid = pid /\ clean[pid] \in BOOLEAN
      BY <1>4, MorePacket DEF Packet
    <3> HIDE DEF pkt
    <3>3. /\ alive' => alive
          /\ collected'[q] = collected[q] /\ parsed'[q] = parsed[q] /\ clean'[q] = clean[q]
      BY <3>1, <3>2, <2>2, TravelsOwnPid
    <3> QED BY <3>1, <3>3, <1>1, <1>3, OtherPid
  <2> QED BY <2>1, <2>2
<1>7. CASE Repeat
  <2>1. CASE q = last.pid
    BY <2>1, <1>2, <1>4, <1>7 DEF Repeat
  <2>2. CASE q # last.pid
    <3>1. alive /\ collected'[q] = collected[q] /\ parsed'[q] = parsed[q]
      BY <2>2, <1>4, <1>7, OwnPid DEF Repeat
    <3>2. clean'[q] = clean[q] /\ sec'[q] = sec[q] /\ rest'[q] = rest[q]
      BY <2>2, <1>4, <1>7 DEF Repeat
    <3> QED BY <3>1, <3>2, <1>1, <1>3, OtherPid
  <2> QED BY <2>1, <2>2
<1>8. CASE Reset
  BY <1>2, <1>8 DEF Reset
<1>9. CASE UNCHANGED vars
  BY <1>1, <1>3, <1>9, OtherPid DEF vars, demuxVars
<1> QED BY <1>5, <1>6, <1>7, <1>8, <1>9 DEF Next

LEMMA SpecJInv == Spec => [](IInv /\ AllHeard)
<1>1. Init => IInv /\ AllHeard
  BY InitIInv DEF Init, AllHeard, Heard
<1>2. IInv /\ AllHeard /\ [Next]_vars => (IInv /\ AllHeard)'
  <2> SUFFICES ASSUME IInv, AllHeard, [Next]_vars PROVE IInv' /\ AllHeard'
    OBVIOUS
  <2> QED BY NextIInv, NextAdvances DEF AllHeard
<1> QED BY <1>1, <1>2, PTL DEF Spec

\* A section that arrived cleanly has been parsed with its last packet, however
\* it was cut, whatever came before it, and with other PIDs in between.
THEOREM CleanSectionAlwaysParsed == Spec => []CleanSectionIsParsed
<1>1. IInv /\ AllHeard => CleanSectionIsParsed
  <2> SUFFICES ASSUME IInv, AllHeard, NEW pid \in Pids, alive, clean[pid], rest[pid] = <<>>
               PROVE  parsed[pid] = sec[pid]
    BY DEF CleanSectionIsParsed
  <2>1. ASSUME NEW k \in 1 .. SecLen[sec[pid]] - 1, rest[pid] = Drop(Bytes(sec[pid]), k)
        PROVE  FALSE
    <3>1. sec[pid] \in Sections
      BY DEF IInv, TypeOK
    <3>2. /\ Bytes(sec[pid]) \in Seq(Byte) /\ Len(Bytes(sec[pid])) = SecLen[sec[pid]]
          /\ SecLen[sec[pid]] \in Nat
      BY <3>1, BytesAre
    <3>3. k \in Nat /\ k < SecLen[sec[pid]]
      BY <3>2
    <3>4. Len(rest[pid]) = SecLen[sec[pid]] - k
      BY <3>2, <3>3, <2>1, DropIs
    <3> QED BY <3>2, <3>3, <3>4
  <2> QED BY <2>1 DEF AllHeard, Heard
<1> QED BY <1>1, SpecJInv, PTL

\* While a section arrives cleanly nothing is parsed but that section.
THEOREM NothingElseParsed == Spec => ParsesNothingElse
<1>1. IInv /\ AllHeard /\ [Next]_vars =>
        \A pid \in Pids : clean'[pid] /\ parsed'[pid] # parsed[pid] => parsed'[pid] = sec'[pid]
  BY NextAdvances
<1> QED BY <1>1, SpecJInv, PTL DEF Spec, ParsesNothingElse

=============================================================================
