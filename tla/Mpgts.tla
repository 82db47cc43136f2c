-------------------------------- MODULE Mpgts --------------------------------
(***************************************************************************)
(* class mpgts of mpgts.cpp: the thread that receives the two transport    *)
(* streams, the request by which start_ts() asks it to reset its parsers,  *)
(* and the device that streams (external).  What the client thread does is *)
(* in the modules that extend this one.                                    *)
(*                                                                         *)
(* A datagram stands for one that completes a channel table (VCT); the     *)
(* others leave no trace.  A parser is reduced to the table it has built.  *)
(***************************************************************************)
EXTENDS Integers, Sequences

CONSTANTS
  Tvs,          \* the TV channels
  MaxQueue,     \* bound: datagrams a socket buffers
  RESET_POLLS   \* how often start_ts() looks at want_reset

NoTv == -1

Chan == {0, 1}

ASSUME MpgtsAssumption ==
  /\ NoTv \notin Tvs
  /\ MaxQueue \in Nat \ {0}
  /\ RESET_POLLS \in Nat \ {0}

VARIABLES
  thread,       \* where thread_main() is
  rfds,         \* the sockets pselect() reported
  want_reset,   \* want_reset[]
  vct,          \* atsc[].vctstr
  building,     \* the table the thread is writing, and for which parser
  queue,        \* the sockets: the channel each datagram is from
  freq,         \* the tuner: ch_state[].tvch, and the channel received
  dest          \* the device: the stream is sent to the client's port

threadVars == <<thread, rfds, building>>

tsVars == <<threadVars, want_reset, vct, queue, freq, dest>>

\* vctstr is null, or it has been allocated and is empty, or it has the lines
\* of the table of a TV channel.
NoVct == <<>>
EmptyVct == <<NoTv>>
Vct(tv) == <<tv>>

At(step, ch) == <<step, ch>>

MpgtsInit ==
  /\ thread = At("select", 0)
  /\ rfds = {}
  /\ want_reset = [ch \in Chan |-> 0]
  /\ vct = [ch \in Chan |-> NoVct]
  /\ building = <<>>
  /\ queue = [ch \in Chan |-> <<>>]
  /\ freq \in [Chan -> Tvs]
  /\ dest = [ch \in Chan |-> FALSE]

-----------------------------------------------------------------------------
(* thread_main() *)

\* pselect() returns what is readable, nothing when it times out, or fails.
Select ==
  /\ thread[1] = "select"
  /\ rfds' = {ch \in Chan : queue[ch] # <<>>}
  /\ thread' \in {At("reset", 0), At("dead", 0)}
  /\ UNCHANGED <<building, want_reset, vct, queue, freq, dest>>

AfterReset(ch) == IF ch = 0 THEN At("reset", 1) ELSE At("recv", 0)

\* want_reset[] is cleared first, then init() frees the table.
Reset(ch) ==
  /\ thread = At("reset", ch)
  /\ thread' = IF want_reset[ch] # 0 THEN At("init", ch) ELSE AfterReset(ch)
  /\ want_reset' = [want_reset EXCEPT ![ch] = 0]
  /\ UNCHANGED <<rfds, building, vct, queue, freq, dest>>

ParserInit(ch) ==
  /\ thread = At("init", ch)
  /\ vct' = [vct EXCEPT ![ch] = NoVct]
  /\ thread' = AfterReset(ch)
  /\ UNCHANGED <<rfds, building, want_reset, queue, freq, dest>>

AfterRecv(ch) == IF ch = 0 THEN At("recv", 1) ELSE At("select", 0)

\* A datagram is read.  The parser rejects it: its version is the one it has;
\* or takes it: vctstr is allocated, and empty; or fails, and the thread ends.
Recv(ch) ==
  /\ thread = At("recv", ch)
  /\ UNCHANGED <<rfds, want_reset, freq, dest>>
  /\ \/ /\ ch \notin rfds
        /\ thread' = AfterRecv(ch)
        /\ UNCHANGED <<building, vct, queue>>
     \/ /\ ch \in rfds
        /\ queue' = [queue EXCEPT ![ch] = Tail(@)]
        /\ \/ /\ thread' = At("fill", ch)
              /\ vct' = [vct EXCEPT ![ch] = EmptyVct]
              /\ building' = Vct(Head(queue[ch]))
           \/ /\ vct[ch] # NoVct
              /\ thread' = AfterRecv(ch)
              /\ UNCHANGED <<building, vct>>
           \/ /\ thread' = At("dead", 0)
              /\ UNCHANGED <<building, vct>>

\* The lines of the table are added.
Fill(ch) ==
  /\ thread = At("fill", ch)
  /\ vct' = [vct EXCEPT ![ch] = building]
  /\ building' = <<>>
  /\ thread' = AfterRecv(ch)
  /\ UNCHANGED <<rfds, want_reset, queue, freq, dest>>

thread_main ==
  Select \/ \E ch \in Chan : Reset(ch) \/ ParserInit(ch) \/ Recv(ch) \/ Fill(ch)

\* The device sends what it receives to the port it was given; a datagram that
\* is lost, or that finds the buffer full, is one it did not send.
DeviceStreams(ch) ==
  /\ dest[ch]
  /\ Len(queue[ch]) < MaxQueue
  /\ queue' = [queue EXCEPT ![ch] = Append(@, freq[ch])]
  /\ UNCHANGED <<threadVars, want_reset, vct, freq, dest>>

MpgtsTypeOK ==
  /\ thread \in {"select", "reset", "init", "recv", "fill", "dead"} \X Chan
  /\ rfds \subseteq Chan
  /\ want_reset \in [Chan -> {0, 1}]
  /\ vct \in [Chan -> {NoVct, EmptyVct} \cup {Vct(tv) : tv \in Tvs}]
  /\ building \in {<<>>} \cup {Vct(tv) : tv \in Tvs}
  /\ queue \in [Chan -> Seq(Tvs)]
  /\ \A ch \in Chan : Len(queue[ch]) <= MaxQueue
  /\ freq \in [Chan -> Tvs]
  /\ dest \in [Chan -> BOOLEAN]
=============================================================================
