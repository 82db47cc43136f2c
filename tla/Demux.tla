-------------------------------- MODULE Demux --------------------------------
(***************************************************************************)
(* mpgatsc::thread_demux() of mpgatsc.cpp: the sections of each PID are    *)
(* put together from transport stream packets and given to parse_tbl().    *)
(* The broadcaster that cuts sections into packets, and the network that   *)
(* loses, repeats and damages them, are external.                          *)
(*                                                                         *)
(* A byte is <<section, offset>>, or Pad after the end of a section; what  *)
(* the bytes say is left out, except the length in bytes 1 and 2.          *)
(***************************************************************************)
EXTENDS Integers, Sequences

CONSTANTS
  Pids,         \* the PIDs of the stream
  SecLen,       \* the length of each section, section_length + 3
  Room,         \* the bytes of a packet after its header (184)
  MaxSlen,      \* the longest section (0xfff + 3)
  max_pkt_len,  \* the size of pktlist[pid] (0x1003)
  Skips,        \* bound: lengths of the adaptation field, with its length byte
  MaxFaults     \* bound: packets lost, damaged or repeated, and resets

Sections == DOMAIN SecLen

ASSUME DemuxAssumption ==
  /\ Room \in Nat /\ Room > 1
  /\ MaxSlen \in Nat /\ 3 <= MaxSlen
  /\ max_pkt_len \in Nat /\ MaxSlen < max_pkt_len /\ Room <= max_pkt_len
  /\ SecLen \in [Sections -> 3 .. MaxSlen]
  /\ Sections \subseteq Nat /\ Sections # {}
  /\ Skips \subseteq Nat
  /\ MaxFaults \in Nat

VARIABLES
  alive,        \* thread_demux() has not returned 1
  allocated,    \* pktlist[pid] # 0
  collected,    \* the first pktlen[pid] bytes of pktlist[pid]
  sec,          \* the broadcaster: the section it sends
  rest,         \* the broadcaster: the bytes of it that are still to send
  last,         \* the network: the last packet that arrived
  faults,       \* history: how often something went wrong
  parsed,       \* history: the section parse_tbl() was given last, if it was whole
  clean         \* history: sec arrived so far, each packet once and undamaged

demuxVars == <<alive, allocated, collected, parsed>>

vars == <<demuxVars, sec, rest, last, faults, clean>>

Pad == <<-1, 0>>

Byte == (Sections \X Nat) \cup {Pad}

Bytes(s) == [k \in 1 .. SecLen[s] |-> <<s, k - 1>>]

NoSection == -1

\* The section that the bytes are; parse_tbl() rejects others by their CRC.
Whole(bytes) ==
  IF \E s \in Sections : bytes = Bytes(s) THEN CHOOSE s \in Sections : bytes = Bytes(s)
  ELSE NoSection

\* What bytes 1 and 2 of the buffer may be read as: the length of the section
\* they belong to, or anything when they are not the two of one section.
Slens(buf) ==
  LET heads == {s \in Sections : Len(buf) >= 3 /\ buf[2] = <<s, 1>> /\ buf[3] = <<s, 2>>}
  IN IF heads = {} THEN 3 .. MaxSlen ELSE {SecLen[s] : s \in heads}

-----------------------------------------------------------------------------
(* thread_demux() *)

Lesser(a, b) == IF a <= b THEN a ELSE b

\* Mutant: the size of the buffer is not considered.
StoreAll(buf, pkt) ==
  IF pkt.start THEN SubSeq(pkt.data, pkt.pointer + 1, Len(pkt.data))
  ELSE IF buf = <<>> THEN <<>>
  ELSE buf \o pkt.data

\* Mutant: an incomplete section is not thrown away.
StoreAppends(buf, pkt) ==
  LET data == IF pkt.start THEN SubSeq(pkt.data, pkt.pointer + 1, Len(pkt.data)) ELSE pkt.data
  IN IF ~ pkt.start /\ buf = <<>> THEN <<>>
     ELSE buf \o SubSeq(data, 1, Lesser(Len(data), max_pkt_len - Len(buf)))

\* What the buffer of the PID holds once the packet has been stored.
Store(buf, pkt) ==
  IF pkt.start THEN SubSeq(pkt.data, pkt.pointer + 1, Len(pkt.data))
  ELSE IF buf = <<>> THEN <<>>
  ELSE buf \o SubSeq(pkt.data, 1, Lesser(Len(pkt.data), max_pkt_len - Len(buf)))

\* Mutant: what has been parsed stays in the buffer.
CompleteKeeps(buf, pid) ==
  \E slen \in Slens(buf) :
    /\ collected' = [collected EXCEPT ![pid] = buf]
    /\ parsed' = IF Len(buf) >= slen THEN [parsed EXCEPT ![pid] = Whole(SubSeq(buf, 1, slen))]
                                     ELSE parsed

\* Mutant: a section that is complete empties the buffers of all PIDs.
CompleteEmptiesAll(buf, pid) ==
  \E slen \in Slens(buf) :
    IF Len(buf) >= slen
    THEN /\ collected' = [p \in Pids |-> <<>>]
         /\ parsed' = [parsed EXCEPT ![pid] = Whole(SubSeq(buf, 1, slen))]
    ELSE /\ collected' = [collected EXCEPT ![pid] = buf]
         /\ UNCHANGED parsed

\* With the section complete it is parsed, and pktlen[pid] is 0 again.
Complete(buf, pid) ==
  \E slen \in Slens(buf) :
    IF Len(buf) >= slen
    THEN /\ collected' = [collected EXCEPT ![pid] = <<>>]
         /\ parsed' = [parsed EXCEPT ![pid] = Whole(SubSeq(buf, 1, slen))]
    ELSE /\ collected' = [collected EXCEPT ![pid] = buf]
         /\ UNCHANGED parsed

BadSync(pkt) ==
  /\ ~ pkt.sync
  /\ alive' = FALSE
  /\ UNCHANGED <<allocated, collected, parsed>>

\* The transport error bit, or no payload after the adaptation field.
Ignored(pkt) ==
  /\ pkt.sync
  /\ pkt.tei \/ pkt.skip >= Room
  /\ UNCHANGED demuxVars

Taken(pkt) == pkt.sync /\ ~ pkt.tei /\ pkt.skip < Room

NoUnit(pkt) ==
  /\ Taken(pkt) /\ pkt.start /\ pkt.pointer >= Len(pkt.data)
  /\ collected' = [collected EXCEPT ![pkt.pid] = <<>>]
  /\ UNCHANGED <<alive, allocated, parsed>>

\* Mutant: the length is set before the buffer is there.
NoMemoryKeepsLen(pkt) ==
  /\ Taken(pkt) /\ pkt.start /\ pkt.pointer < Len(pkt.data) /\ ~ allocated[pkt.pid]
  /\ alive' = FALSE
  /\ collected' = [collected EXCEPT ![pkt.pid] = Store(@, pkt)]
  /\ UNCHANGED <<allocated, parsed>>

NoMemory(pkt) ==
  /\ Taken(pkt) /\ pkt.start /\ pkt.pointer < Len(pkt.data) /\ ~ allocated[pkt.pid]
  /\ alive' = FALSE
  /\ collected' = [collected EXCEPT ![pkt.pid] = <<>>]
  /\ UNCHANGED <<allocated, parsed>>

Stored(pkt) ==
  /\ Taken(pkt) /\ (pkt.start => pkt.pointer < Len(pkt.data))
  /\ Complete(Store(collected[pkt.pid], pkt), pkt.pid)
  /\ allocated' = IF pkt.start THEN [allocated EXCEPT ![pkt.pid] = TRUE] ELSE allocated
  /\ UNCHANGED alive

thread_demux(pkt) ==
  /\ alive
  /\ BadSync(pkt) \/ Ignored(pkt) \/ NoUnit(pkt) \/ NoMemory(pkt) \/ Stored(pkt)

\* init(): the buffers are emptied.
Reset ==
  /\ alive
  /\ faults < MaxFaults /\ faults' = faults + 1
  /\ collected' = [pid \in Pids |-> <<>>]
  /\ clean' = [pid \in Pids |-> FALSE]
  /\ UNCHANGED <<alive, allocated, parsed, sec, rest, last>>

-----------------------------------------------------------------------------
(* The broadcaster and the network *)

Cut(bytes, n) == [k \in 1 .. n |-> IF k <= Len(bytes) THEN bytes[k] ELSE Pad]

Drop(bytes, n) == SubSeq(bytes, n + 1, Len(bytes))

Packet(pid, start, pointer, skip, data) ==
  [sync |-> TRUE, tei |-> FALSE, pid |-> pid, start |-> start, pointer |-> pointer,
   skip |-> skip, data |-> data]

Capacity(start, skip) ==
  IF skip < Room THEN Room - skip - (IF start THEN 1 ELSE 0) ELSE 0

\* The packet reaches thread_demux() as it is, with its error bit set, without
\* its sync byte, with a start that points past its end, or not at all.
Travels(pkt, continues) ==
  \/ /\ thread_demux(pkt)
     /\ last' = pkt
     /\ clean' = [clean EXCEPT ![pkt.pid] = continues]
     /\ UNCHANGED faults
  \/ /\ faults < MaxFaults /\ faults' = faults + 1
     /\ \/ thread_demux([pkt EXCEPT !.tei = TRUE])
        \/ thread_demux([pkt EXCEPT !.sync = FALSE])
        \/ thread_demux([pkt EXCEPT !.start = TRUE, !.pointer = Room])
        \/ UNCHANGED demuxVars
     /\ clean' = [clean EXCEPT ![pkt.pid] = FALSE]
     /\ UNCHANGED last

\* Section s begins, after what is left of the one before.
SendStart(pid, s, skip) ==
  LET n == Capacity(TRUE, skip)
      bytes == rest[pid] \o Bytes(s)
  IN /\ Len(rest[pid]) < n
     /\ sec' = [sec EXCEPT ![pid] = s]
     /\ rest' = [rest EXCEPT ![pid] = Drop(bytes, n)]
     /\ Travels(Packet(pid, TRUE, Len(rest[pid]), skip, Cut(bytes, n)), TRUE)

SendMore(pid, skip) ==
  LET n == Capacity(FALSE, skip)
  IN /\ rest[pid] # <<>>
     /\ rest' = [rest EXCEPT ![pid] = Drop(@, n)]
     /\ UNCHANGED sec
     /\ Travels(Packet(pid, FALSE, 0, skip, Cut(rest[pid], n)), clean[pid])

\* The last packet arrives once more.
Repeat ==
  /\ faults < MaxFaults /\ faults' = faults + 1
  /\ thread_demux(last)
  /\ clean' = [clean EXCEPT ![last.pid] = FALSE]
  /\ UNCHANGED <<sec, rest, last>>

Init ==
  /\ alive = TRUE
  /\ allocated = [pid \in Pids |-> FALSE]
  /\ collected = [pid \in Pids |-> <<>>]
  /\ sec \in [Pids -> Sections]
  /\ rest = [pid \in Pids |-> <<>>]
  /\ \E pid \in Pids : last = Packet(pid, FALSE, 0, Room, <<>>)
  /\ faults = 0
  /\ parsed = [pid \in Pids |-> NoSection]
  /\ clean = [pid \in Pids |-> FALSE]

Next ==
  \/ \E pid \in Pids, s \in Sections, skip \in Skips : SendStart(pid, s, skip)
  \/ \E pid \in Pids, skip \in Skips : SendMore(pid, skip)
  \/ Repeat
  \/ Reset

Spec == Init /\ [][Next]_vars

-----------------------------------------------------------------------------
(* Properties *)

Packets ==
  [sync : BOOLEAN, tei : BOOLEAN, pid : Pids, start : BOOLEAN, pointer : Nat,
   skip : Nat, data : Seq(Byte)]

\* The type of the state of the demultiplexer, the broadcaster and the network.
TypeOK ==
  /\ alive \in BOOLEAN
  /\ allocated \in [Pids -> BOOLEAN]
  /\ collected \in [Pids -> Seq(Byte)]
  /\ sec \in [Pids -> Sections]
  /\ rest \in [Pids -> Seq(Byte)]
  /\ last \in Packets
  /\ faults \in 0 .. MaxFaults
  /\ parsed \in [Pids -> Sections \cup {NoSection}]
  /\ clean \in [Pids -> BOOLEAN]

\* Whatever packet comes next, and whatever was lost or repeated before it, the
\* bytes of it that are copied end within the buffer (mpgatsc.cpp 599-614).
FitsBuffer ==
  \A pid \in Pids, start \in BOOLEAN, n \in 0 .. Room :
    Len(Store(collected[pid], Packet(pid, start, 0, 0, Cut(<<>>, n)))) <= max_pkt_len

\* Between two packets a buffer holds an incomplete section or nothing: a full
\* one is parsed in the same call, so the path that has no room left for a
\* single byte (mpgatsc.cpp 611) is never taken.
HoldsIncomplete ==
  \A pid \in Pids : \E slen \in Slens(collected[pid]) : Len(collected[pid]) < slen

\* Bytes collected without a buffer to hold them would be read from a null pointer.
CollectsAllocated == \A pid \in Pids : collected[pid] # <<>> => allocated[pid]

\* A section whose packets have all arrived, once each and in order, has been
\* parsed by the time the last one is in, whatever happened before it began,
\* however it is cut into packets, and with the other PIDs in between.
CleanSectionIsParsed ==
  \A pid \in Pids : alive /\ clean[pid] /\ rest[pid] = <<>> => parsed[pid] = sec[pid]

\* While a section arrives cleanly, nothing is parsed but that section.
ParsesNothingElse ==
  [][\A pid \in Pids : clean'[pid] /\ parsed'[pid] # parsed[pid] =>
       parsed'[pid] = sec'[pid]]_vars

=============================================================================
