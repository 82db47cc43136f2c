---------------------------- MODULE MpgtsProofs ----------------------------
(***************************************************************************)
(* What a step of the receiving thread, and of the device that streams,    *)
(* keeps of the state of mpgts, whoever the client is.                     *)
(***************************************************************************)
EXTENDS Mpgts, TLAPS

\* A socket that is still to be read in this turn has a datagram: nobody else
\* reads from it.
ReadyIsThere ==
  \A c \in Chan : c \in rfds =>
    \/ queue[c] # <<>>
    \/ thread[1] \in {"select", "dead"}
    \/ c = 0 /\ (thread = At("recv", 1) \/ thread[1] = "fill")
    \/ c = 1 /\ thread = At("fill", 1)

TsInv == MpgtsTypeOK /\ ReadyIsThere

LEMMA EmptyQueue ==
  ASSUME NEW S
  PROVE  <<>> \in Seq(S) /\ Len(<<>>) = 0
OBVIOUS

\* The first datagram, and the others.
LEMMA HeadTail ==
  ASSUME NEW S, NEW s \in Seq(S), s # <<>>
  PROVE  Head(s) \in S /\ Tail(s) \in Seq(S) /\ Len(Tail(s)) = Len(s) - 1
OBVIOUS

LEMMA TsInit == MpgtsInit => TsInv
BY MpgtsAssumption, EmptyQueue
DEF MpgtsInit, TsInv, MpgtsTypeOK, ReadyIsThere, At, NoVct, Chan

LEMMA SelectStep ==
  ASSUME TsInv, Select
  PROVE  TsInv'
BY DEF TsInv, MpgtsTypeOK, ReadyIsThere, Select, At, Chan

LEMMA ResetStep ==
  ASSUME TsInv, NEW c \in Chan, Reset(c)
  PROVE  TsInv'
BY DEF TsInv, MpgtsTypeOK, ReadyIsThere, Reset, AfterReset, At, Chan

LEMMA ParserInitStep ==
  ASSUME TsInv, NEW c \in Chan, ParserInit(c)
  PROVE  TsInv'
BY DEF TsInv, MpgtsTypeOK, ReadyIsThere, ParserInit, AfterReset, At, Chan

LEMMA FillStep ==
  ASSUME TsInv, NEW c \in Chan, Fill(c)
  PROVE  TsInv'
<1>1. /\ thread = At("fill", c) /\ vct' = [vct EXCEPT ![c] = building] /\ building' = <<>>
      /\ thread' = (IF c = 0 THEN At("recv", 1) ELSE At("select", 0))
      /\ rfds' = rfds /\ want_reset' = want_reset /\ queue' = queue
      /\ freq' = freq /\ dest' = dest
  BY DEF Fill, AfterRecv
<1>3. MpgtsTypeOK'
  BY <1>1 DEF TsInv, MpgtsTypeOK, NoVct, At, Chan
<1>4. ReadyIsThere'
  BY <1>1 DEF TsInv, ReadyIsThere, At, Chan
<1> QED BY <1>3, <1>4 DEF TsInv

LEMMA RecvStep ==
  ASSUME TsInv, NEW c \in Chan, Recv(c)
  PROVE  TsInv'
<1>1. /\ thread = At("recv", c)
      /\ rfds' = rfds /\ want_reset' = want_reset /\ freq' = freq /\ dest' = dest
  BY DEF Recv
<1>2. CASE c \notin rfds
  BY <1>1, <1>2 DEF TsInv, MpgtsTypeOK, ReadyIsThere, Recv, AfterRecv, At, Chan
<1>3. CASE c \in rfds
  <2>1. queue' = [queue EXCEPT ![c] = Tail(@)] /\ queue[c] # <<>>
    BY <1>1, <1>3 DEF Recv, TsInv, ReadyIsThere, At, Chan
  <2>2. queue[c] \in Seq(Tvs) /\ Len(queue[c]) <= MaxQueue /\ MaxQueue \in Nat
    BY MpgtsAssumption DEF TsInv, MpgtsTypeOK
  <2>3. Head(queue[c]) \in Tvs /\ Tail(queue[c]) \in Seq(Tvs)
        /\ Len(Tail(queue[c])) = Len(queue[c]) - 1 /\ Len(queue[c]) \in Nat
    BY <2>1, <2>2, HeadTail
  <2>4. /\ queue' \in [Chan -> Seq(Tvs)]
        /\ \A k \in Chan : Len(queue'[k]) <= MaxQueue /\ (k # c => queue'[k] = queue[k])
    BY <2>1, <2>2, <2>3 DEF TsInv, MpgtsTypeOK
  <2>5. /\ vct' = vct \/ vct' = [vct EXCEPT ![c] = EmptyVct]
        /\ building' = building \/ building' = Vct(Head(queue[c]))
        /\ \/ thread' = At("fill", c) \/ thread' = At("dead", 0)
           \/ thread' = (IF c = 0 THEN At("recv", 1) ELSE At("select", 0))
    BY <1>3 DEF Recv, AfterRecv
  <2>6. MpgtsTypeOK'
    BY <1>1, <2>3, <2>4, <2>5 DEF TsInv, MpgtsTypeOK, At, Chan
  <2>7. ReadyIsThere'
    BY <1>1, <2>4, <2>5 DEF TsInv, ReadyIsThere, At, Chan
  <2> QED BY <2>6, <2>7 DEF TsInv
<1> QED BY <1>2, <1>3

LEMMA ThreadStep ==
  ASSUME TsInv, thread_main
  PROVE  TsInv'
BY SelectStep, ResetStep, ParserInitStep, FillStep, RecvStep DEF thread_main

LEMMA Streamed ==
  ASSUME NEW s \in Seq(Tvs), NEW tv \in Tvs
  PROVE  Append(s, tv) \in Seq(Tvs) /\ Len(Append(s, tv)) = Len(s) + 1 /\ Append(s, tv) # <<>>
<1>1. Append(s, tv) \in Seq(Tvs) /\ Len(Append(s, tv)) = Len(s) + 1 /\ Len(s) \in Nat
  OBVIOUS
<1>2. Len(<<>>) = 0
  BY EmptyQueue
<1> QED BY <1>1, <1>2

LEMMA StreamStep ==
  ASSUME TsInv, NEW c \in Chan, DeviceStreams(c)
  PROVE  TsInv'
<1>1. /\ queue' = [queue EXCEPT ![c] = Append(@, freq[c])] /\ Len(queue[c]) < MaxQueue
      /\ thread' = thread /\ rfds' = rfds /\ building' = building /\ want_reset' = want_reset
      /\ vct' = vct /\ freq' = freq /\ dest' = dest
  BY DEF DeviceStreams, threadVars
<1>2. queue[c] \in Seq(Tvs) /\ freq[c] \in Tvs /\ MaxQueue \in Nat /\ Len(queue[c]) \in Nat
  BY MpgtsAssumption DEF TsInv, MpgtsTypeOK
<1>3. /\ queue' \in [Chan -> Seq(Tvs)]
      /\ \A k \in Chan : /\ Len(queue'[k]) <= MaxQueue
                         /\ queue'[k] # <<>> \/ queue'[k] = queue[k]
  <2>1. /\ Append(queue[c], freq[c]) \in Seq(Tvs) /\ Append(queue[c], freq[c]) # <<>>
        /\ Len(Append(queue[c], freq[c])) = Len(queue[c]) + 1
    BY <1>2, Streamed
  <2> QED BY <1>1, <1>2, <2>1 DEF TsInv, MpgtsTypeOK
<1>4. MpgtsTypeOK'
  BY <1>1, <1>3 DEF TsInv, MpgtsTypeOK
<1>5. ReadyIsThere'
  BY <1>1, <1>3 DEF TsInv, ReadyIsThere
<1> QED BY <1>4, <1>5 DEF TsInv
=============================================================================
