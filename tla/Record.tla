------------------------------- MODULE Record -------------------------------
(***************************************************************************)
(* do_record() of main.cpp against the receiving thread of Mpgts, with the *)
(* dump file of mpgatsc.cpp that the thread writes: the file is opened,    *)
(* start_ts() has the parser reset, the device streams, and only then is   *)
(* the tuner set to the channel to record.  The program ends without       *)
(* stop_ts() or close().                                                   *)
(***************************************************************************)
EXTENDS Mpgts

CONSTANTS
  Tvch,         \* the channel to record
  BUFFER,       \* the datagrams after which stdio has written to the file
  MaxDump       \* bound: datagrams the device streams

ASSUME RecordAssumption ==
  /\ Tvch \in Tvs
  /\ BUFFER \in Nat \ {0} /\ MaxDump \in Nat

VARIABLES
  pc,           \* where do_record() is
  resets,       \* the polls of want_reset in start_ts()
  dumpfile,     \* atsc[0].dumpfile is not null
  dump,         \* what thread_demux() has written: the channel of each datagram
  label,        \* atsc[0].tvch
  write_failed  \* history: fwrite() failed

dumpVars == <<dumpfile, dump, write_failed>>
mainVars == <<pc, resets, label>>
recVars == <<tsVars, dumpVars, mainVars>>

Init ==
  /\ MpgtsInit
  /\ pc = "open_dump" /\ resets = 0
  /\ dumpfile = FALSE /\ dump = <<>> /\ write_failed = FALSE
  /\ label = NoTv

Exited == pc = "exited"

Return == pc' = "exited" /\ UNCHANGED <<tsVars, dumpVars, resets, label>>

-----------------------------------------------------------------------------
(* The thread and the dump file *)

\* Mutant: the file is closed whatever it holds.
InitDumpAlways == dumpfile' = FALSE /\ UNCHANGED <<dump, write_failed>>

\* init() closes a file that bytes have gone to; what stdio still buffers does
\* not count, as lseek() asks the kernel.
InitDump ==
  /\ dumpfile' = (dumpfile /\ Len(dump) < BUFFER)
  /\ UNCHANGED <<dump, write_failed>>

\* thread_demux() writes the packets of a datagram before it looks into them;
\* a file that cannot be written is closed.
WriteDump(tv) ==
  \/ ~ dumpfile /\ UNCHANGED dumpVars
  \/ dumpfile /\ dump' = Append(dump, tv) /\ UNCHANGED <<dumpfile, write_failed>>
  \/ dumpfile /\ dumpfile' = FALSE /\ write_failed' = TRUE /\ UNCHANGED dump

Receives == thread = At("recv", 0) /\ 0 \in rfds

Thread ==
  /\ ~ Exited
  /\ UNCHANGED mainVars
  /\ \/ /\ Receives /\ Recv(0)
        /\ WriteDump(Head(queue[0])) \/ (thread'[1] = "dead" /\ UNCHANGED dumpVars)
     \/ ParserInit(0) /\ InitDump
     \/ thread_main /\ ~ Receives /\ thread # At("init", 0) /\ UNCHANGED dumpVars

Environment ==
  /\ ~ Exited
  /\ Len(dump) + Len(queue[0]) < MaxDump
  /\ DeviceStreams(0)
  /\ UNCHANGED <<dumpVars, mainVars>>

-----------------------------------------------------------------------------
(* do_record() *)

open_dump ==
  /\ pc = "open_dump"
  /\ \/ /\ dumpfile' = TRUE
        /\ pc' = "start_ts"
        /\ UNCHANGED <<tsVars, dump, write_failed, resets, label>>
     \/ Return

start_ts ==
  /\ pc = "start_ts"
  /\ want_reset' = [want_reset EXCEPT ![0] = @ + 1]
  /\ pc' = "wait"
  /\ UNCHANGED <<threadVars, vct, queue, freq, dest, dumpVars, resets, label>>

\* Mutant: the label is the channel asked for.
StreamLabelsAsked ==
  /\ label' = Tvch
  /\ dest' \in {dest, [dest EXCEPT ![0] = TRUE]}
  /\ pc' = "exited" \/ (pc' = "set_freq" /\ dest'[0])

\* tuner::start_ts(): the label is the channel the tuner has, and a call that
\* fails may have got to the device.
Stream ==
  /\ label' = freq[0]
  /\ dest' \in {dest, [dest EXCEPT ![0] = TRUE]}
  /\ pc' = "exited" \/ (pc' = "set_freq" /\ dest'[0])

\* Mutant: start_ts() waits for as long as it takes.
WaitForEver ==
  /\ pc = "wait" /\ want_reset[0] = 0
  /\ Stream
  /\ UNCHANGED <<threadVars, want_reset, vct, queue, freq, dumpVars, resets>>

\* Mutant: one look more.
WaitLonger ==
  /\ pc = "wait"
  /\ UNCHANGED <<threadVars, want_reset, vct, queue, freq, dumpVars>>
  /\ \/ /\ want_reset[0] # 0
        /\ resets' = resets + 1
        /\ pc' = IF resets = RESET_POLLS THEN "exited" ELSE "wait"
        /\ UNCHANGED <<dest, label>>
     \/ /\ want_reset[0] = 0
        /\ Stream /\ UNCHANGED resets

\* start_ts() looks at want_reset, and gives up after three times.
Wait ==
  /\ pc = "wait"
  /\ UNCHANGED <<threadVars, want_reset, vct, queue, freq, dumpVars>>
  /\ \/ /\ want_reset[0] # 0
        /\ resets' = resets + 1
        /\ pc' = IF resets' = RESET_POLLS THEN "exited" ELSE "wait"
        /\ UNCHANGED <<dest, label>>
     \/ /\ want_reset[0] = 0
        /\ Stream /\ UNCHANGED resets

\* Like start_ts(), a call that fails may have got to the device.
set_freq ==
  /\ pc = "set_freq"
  /\ \/ pc' = "exited" /\ freq' \in {freq, [freq EXCEPT ![0] = Tvch]}
     \/ pc' = "poll" /\ freq' = [freq EXCEPT ![0] = Tvch]
  /\ UNCHANGED <<threadVars, want_reset, vct, queue, dest, dumpVars, resets, label>>

\* A call failed, or a key was pressed; otherwise the loop goes on.
EndPoll == pc = "poll" /\ Return

Starting == open_dump \/ start_ts \/ Wait \/ set_freq

Next == Starting \/ EndPoll \/ Thread \/ Environment

\* do_record() runs until it polls; then a key may never be pressed.
Spec == Init /\ [][Next]_recVars /\ WF_recVars(Starting)

-----------------------------------------------------------------------------
(* Properties *)

\* The type of the state of do_record() and of mpgts.
TypeOK ==
  /\ MpgtsTypeOK
  /\ pc \in {"open_dump", "start_ts", "wait", "set_freq", "poll", "exited"}
  /\ resets \in 0 .. RESET_POLLS
  /\ dumpfile \in BOOLEAN /\ write_failed \in BOOLEAN
  /\ dump \in Seq(Tvs) /\ Len(dump) <= MaxDump
  /\ label \in Tvs \cup {NoTv}

\* mpgatsc.cpp 56-57: "only reset dumpfile if bytes have been written, otherwise,
\* calling open_dump() right before start_ts() would result in dumpfile getting
\* closed": from open_dump() on the file stays open, whenever the thread gets to
\* the reset and whatever the device streams meanwhile, unless a write failed.
DumpKept == pc \notin {"open_dump", "exited"} => dumpfile \/ write_failed

\* The file is datagrams of the channel the scan left, as the label says, and then
\* datagrams of the channel asked for: no other channel gets to it, and it goes
\* over once, whatever is still on the way when do_record(), which streams before
\* it tunes, sets the frequency (main.cpp 398-400).
ScanChannelFirst ==
  \E k \in 0 .. Len(dump) :
    \A n \in 1 .. Len(dump) : dump[n] = IF n <= k THEN label ELSE Tvch

\* do_record() gets to its polling, or ends, even when the thread is gone.
GetsGoing == pc = "open_dump" ~> pc \in {"poll", "exited"}

=============================================================================
