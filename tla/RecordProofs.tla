---------------------------- MODULE RecordProofs ----------------------------
(***************************************************************************)
(* A recording keeps its file, whenever the thread gets to the reset, and  *)
(* the file goes over from the channel of the scan to the one asked for.   *)
(***************************************************************************)
EXTENDS Record, MpgtsProofs

\* What the file is: of channel l, then of the one asked for.
GoesOver(d, l) ==
  \E k \in 0 .. Len(d) : \A n \in 1 .. Len(d) : d[n] = IF n <= k THEN l ELSE Tvch

\* What the file d and the datagrams s on their way to it are, with the place k
\* where they go over.
SplitAt(d, s, l, k) ==
  /\ \A n \in 1 .. Len(d) : d[n] = IF n <= k THEN l ELSE Tvch
  /\ \A n \in 1 .. Len(s) : s[n] = IF Len(d) + n <= k THEN l ELSE Tvch

Splits(d, s, l) == \E k \in 0 .. Len(d) + Len(s) : SplitAt(d, s, l, k)

All(s, l) == \A n \in 1 .. Len(s) : s[n] = l

\* Nothing is streamed before start_ts() has seen the reset noticed.
Silent == dest[0] = FALSE /\ queue[0] = <<>> /\ dump = <<>>

Early == pc \in {"open_dump", "start_ts", "wait"}

\* Why the reset finds a file without bytes.
ResetFirst ==
  ~ Exited =>
    /\ Early => Silent
    /\ want_reset[0] # 0 => pc = "wait"
    /\ thread = At("init", 0) => dump = <<>>

\* What is in the file, and on its way to it.
Labelled ==
  /\ GoesOver(dump, label)
  /\ ~ Exited =>
       /\ Splits(dump, queue[0], label)
       /\ pc = "set_freq" => freq[0] = label /\ All(dump, label) /\ All(queue[0], label)
       /\ pc = "poll" => freq[0] = Tvch

ClientTypeOK ==
  /\ pc \in {"open_dump", "start_ts", "wait", "set_freq", "poll", "exited"}
  /\ resets \in 0 .. RESET_POLLS
  /\ dumpfile \in BOOLEAN /\ write_failed \in BOOLEAN
  /\ dump \in Seq(Tvs) /\ Len(dump) + Len(queue[0]) <= MaxDump
  /\ label \in Tvs \cup {NoTv}
  /\ pc \in {"open_dump", "start_ts"} => resets = 0
  /\ pc = "wait" => resets < RESET_POLLS

IInv == TsInv /\ ClientTypeOK /\ ResetFirst /\ Labelled /\ DumpKept

LEMMA QueueLength ==
  ASSUME TsInv, NEW c \in Chan
  PROVE  queue[c] \in Seq(Tvs) /\ Len(queue[c]) \in Nat /\ Len(queue[c]) >= 0
BY DEF TsInv, MpgtsTypeOK

LEMMA NothingSplits ==
  ASSUME NEW l
  PROVE  GoesOver(<<>>, l) /\ Splits(<<>>, <<>>, l) /\ All(<<>>, l)
<1>1. Len(<<>>) = 0 /\ 0 \in 0 .. 0 + 0 /\ 0 \in 0 .. 0 /\ 1 .. 0 = {}
  BY EmptyQueue
<1> QED BY <1>1 DEF GoesOver, Splits, SplitAt, All

\* What is said of the file and of the datagrams on their way, said of the file.
LEMMA SplitFile ==
  ASSUME NEW d \in Seq(Tvs), NEW s \in Seq(Tvs), NEW l, Splits(d, s, l)
  PROVE  GoesOver(d, l)
<1>1. Len(d) \in Nat /\ Len(s) \in Nat
  OBVIOUS
<1>2. PICK k \in 0 .. Len(d) + Len(s) : SplitAt(d, s, l, k)
  BY DEF Splits
<1>3. CASE k <= Len(d)
  <2>1. k \in 0 .. Len(d)
    BY <1>1, <1>3
  <2> QED BY <1>2, <2>1 DEF SplitAt, GoesOver
<1>4. CASE k > Len(d)
  <2>1. \A n \in 1 .. Len(d) : d[n] = IF n <= Len(d) THEN l ELSE Tvch
    BY <1>1, <1>2, <1>4 DEF SplitAt
  <2>2. Len(d) \in 0 .. Len(d)
    BY <1>1
  <2> QED BY <2>1, <2>2 DEF GoesOver
<1> QED BY <1>1, <1>3, <1>4

LEMMA InitIInv == Init => IInv
<1> SUFFICES ASSUME Init PROVE IInv
  OBVIOUS
<1>1. TsInv
  BY TsInit DEF Init
<1>2. queue[0] = <<>> /\ dest[0] = FALSE /\ want_reset[0] = 0 /\ thread # At("init", 0)
  BY DEF Init, MpgtsInit, At, Chan
<1>3. ClientTypeOK
  <2>1. dump \in Seq(Tvs) /\ Len(dump) = 0 /\ Len(queue[0]) = 0
    BY <1>2, EmptyQueue DEF Init
  <2>2. dumpfile \in BOOLEAN /\ write_failed \in BOOLEAN
    BY Zenon DEF Init
  <2>3. pc = "open_dump" /\ resets = 0 /\ label = NoTv
    BY Zenon DEF Init
  <2>4. 0 <= MaxDump /\ 0 \in 0 .. RESET_POLLS
    BY RecordAssumption, MpgtsAssumption
  <2> QED BY <2>1, <2>2, <2>3, <2>4 DEF ClientTypeOK
<1>4. ResetFirst
  BY <1>2 DEF Init, ResetFirst, Silent
<1>5. Labelled
  <2>1. GoesOver(<<>>, label) /\ Splits(<<>>, <<>>, label)
    BY NothingSplits
  <2> QED BY <1>2, <2>1 DEF Init, Labelled
<1>6. DumpKept
  BY DEF Init, DumpKept
<1> QED BY <1>1, <1>3, <1>4, <1>5, <1>6 DEF IInv

-----------------------------------------------------------------------------
(* do_record() *)

\* A step of do_record() that leaves the thread alone keeps what is proved of it.
LEMMA ClientTs ==
  ASSUME TsInv, UNCHANGED <<threadVars, vct, queue>>,
         want_reset' \in [Chan -> {0, 1}], freq' \in [Chan -> Tvs], dest' \in [Chan -> BOOLEAN]
  PROVE  TsInv'
BY DEF TsInv, MpgtsTypeOK, ReadyIsThere, threadVars

LEMMA ClientFacts ==
  ASSUME IInv
  PROVE  /\ want_reset \in [Chan -> {0, 1}] /\ freq \in [Chan -> Tvs] /\ dest \in [Chan -> BOOLEAN]
         /\ freq[0] \in Tvs /\ 0 \in Chan
BY DEF IInv, TsInv, MpgtsTypeOK, Chan

LEMMA Exiting ==
  ASSUME IInv, TsInv', pc' = "exited", resets' \in 0 .. RESET_POLLS,
         UNCHANGED <<dumpVars, queue>>, label' = label \/ dump = <<>>,
         label' \in Tvs \cup {NoTv}
  PROVE  IInv'
<1>1. ClientTypeOK'
  BY DEF IInv, ClientTypeOK, dumpVars
<1>2. ResetFirst'
  BY DEF ResetFirst, Exited
<1>3. Labelled'
  <2>1. CASE label' = label
    BY <2>1 DEF IInv, Labelled, Exited, dumpVars
  <2>2. CASE dump = <<>>
    <3>1. GoesOver(<<>>, label')
      BY NothingSplits
    <3> QED BY <2>2, <3>1 DEF Labelled, Exited, dumpVars
  <2> QED BY <2>1, <2>2
<1>4. DumpKept'
  BY DEF DumpKept
<1> QED BY <1>1, <1>2, <1>3, <1>4 DEF IInv

LEMMA OpenDumpStep == ASSUME IInv, open_dump PROVE IInv'
<1>1. CASE Return
  BY <1>1, Exiting, ClientTs, ClientFacts DEF Return, tsVars, IInv, ClientTypeOK
<1>2. CASE /\ dumpfile' = TRUE /\ pc' = "start_ts"
           /\ UNCHANGED <<tsVars, dump, write_failed, resets, label>>
  <2>1. TsInv'
    BY <1>2, ClientTs, ClientFacts DEF tsVars, IInv
  <2>2. ClientTypeOK'
    BY <1>2 DEF IInv, ClientTypeOK, tsVars, open_dump
  <2>3. ResetFirst'
    BY <1>2 DEF IInv, ResetFirst, tsVars, threadVars, open_dump, Exited, Early, Silent
  <2>4. Labelled'
    BY <1>2 DEF IInv, Labelled, tsVars, open_dump, Exited
  <2>5. DumpKept'
    BY <1>2 DEF DumpKept
  <2> QED BY <2>1, <2>2, <2>3, <2>4, <2>5 DEF IInv
<1> QED BY <1>1, <1>2 DEF open_dump

LEMMA StartStep == ASSUME IInv, start_ts PROVE IInv'
<1>1. /\ want_reset' = [want_reset EXCEPT ![0] = @ + 1] /\ pc = "start_ts" /\ pc' = "wait"
      /\ UNCHANGED <<threadVars, vct, queue, freq, dest, dumpVars, resets, label>>
  BY DEF start_ts
<1>2. want_reset[0] = 0 /\ Silent
  BY <1>1, ClientFacts DEF IInv, ResetFirst, Exited, Early
<1>3. TsInv'
  BY <1>1, <1>2, ClientTs, ClientFacts DEF IInv, Chan
<1>4. ClientTypeOK'
  BY <1>1, MpgtsAssumption DEF IInv, ClientTypeOK, dumpVars
<1>5. ResetFirst'
  BY <1>1, <1>2 DEF ResetFirst, Silent, dumpVars
<1>6. Labelled'
  BY <1>1 DEF IInv, Labelled, dumpVars, Exited
<1>7. DumpKept'
  BY <1>1 DEF IInv, DumpKept, dumpVars
<1> QED BY <1>3, <1>4, <1>5, <1>6, <1>7 DEF IInv

LEMMA WaitStep == ASSUME IInv, Wait PROVE IInv'
<1>1. /\ pc = "wait" /\ Silent /\ resets \in 0 .. RESET_POLLS /\ resets < RESET_POLLS
      /\ UNCHANGED <<threadVars, want_reset, vct, queue, freq, dumpVars>>
  BY DEF Wait, IInv, ClientTypeOK, ResetFirst, Exited, Early
<1>2. RESET_POLLS \in Nat
  BY MpgtsAssumption
<1>3. CASE /\ resets' = resets + 1 /\ UNCHANGED <<dest, label>>
           /\ pc' = IF resets' = RESET_POLLS THEN "exited" ELSE "wait"
  <2>1. TsInv'
    BY <1>1, <1>3, ClientTs, ClientFacts DEF IInv
  <2>2. CASE pc' = "exited"
    BY <1>1, <1>2, <1>3, <2>1, <2>2, Exiting DEF IInv, ClientTypeOK
  <2>3. CASE pc' = "wait" /\ resets' # RESET_POLLS
    <3>1. ClientTypeOK'
      BY <1>1, <1>2, <1>3, <2>3 DEF IInv, ClientTypeOK, dumpVars
    <3>2. ResetFirst'
      BY <1>1, <1>3, <2>3 DEF ResetFirst, Silent, dumpVars
    <3>3. Labelled' /\ DumpKept'
      BY <1>1, <1>3, <2>3 DEF IInv, Labelled, DumpKept, dumpVars, Exited
    <3> QED BY <2>1, <3>1, <3>2, <3>3 DEF IInv
  <2> QED BY <1>3, <2>2, <2>3
<1>4. CASE want_reset[0] = 0 /\ Stream /\ UNCHANGED resets
  <2>1. /\ label' = freq[0] /\ dest' \in {dest, [dest EXCEPT ![0] = TRUE]}
        /\ pc' \in {"set_freq", "exited"} /\ label' \in Tvs
    BY <1>4, ClientFacts DEF Stream
  <2>2. TsInv'
    BY <1>1, <2>1, ClientTs, ClientFacts DEF IInv, Chan
  <2>3. CASE pc' = "exited"
    BY <1>1, <1>4, <2>1, <2>2, <2>3, Exiting DEF Silent
  <2>4. CASE pc' = "set_freq"
    <3>1. ClientTypeOK'
      BY <1>1, <1>4, <2>1, <2>4 DEF IInv, ClientTypeOK, dumpVars
    <3>2. ResetFirst'
      BY <1>1, <1>4, <2>1, <2>4 DEF ResetFirst, Silent, dumpVars, Early
    <3>3. Labelled'
      <4>1. GoesOver(<<>>, label') /\ Splits(<<>>, <<>>, label') /\ All(<<>>, label')
        BY NothingSplits
      <4> QED BY <1>1, <2>1, <2>4, <4>1 DEF Labelled, Silent, dumpVars
    <3>4. DumpKept'
      BY <1>1, <2>4 DEF IInv, DumpKept, dumpVars
    <3> QED BY <2>2, <3>1, <3>2, <3>3, <3>4 DEF IInv
  <2> QED BY <2>1, <2>3, <2>4
<1> QED BY <1>3, <1>4 DEF Wait

LEMMA SetFreqStep == ASSUME IInv, set_freq PROVE IInv'
<1>1. /\ pc = "set_freq"
      /\ UNCHANGED <<threadVars, want_reset, vct, queue, dest, dumpVars, resets, label>>
      /\ freq' \in {freq, [freq EXCEPT ![0] = Tvch]}
  BY DEF set_freq
<1>2. TsInv'
  BY <1>1, ClientTs, ClientFacts, RecordAssumption DEF IInv
<1>3. CASE pc' = "exited"
  BY <1>1, <1>2, <1>3, Exiting DEF IInv, ClientTypeOK
<1>4. CASE pc' = "poll" /\ freq' = [freq EXCEPT ![0] = Tvch]
  <2>1. ClientTypeOK'
    BY <1>1, <1>4 DEF IInv, ClientTypeOK, dumpVars
  <2>2. ResetFirst'
    BY <1>1, <1>4 DEF IInv, ResetFirst, dumpVars, threadVars, Exited, Early
  <2>3. Labelled'
    <3>1. freq'[0] = Tvch
      BY <1>4, ClientFacts
    <3> QED BY <1>1, <1>4, <3>1 DEF IInv, Labelled, dumpVars, Exited
  <2>4. DumpKept'
    BY <1>1, <1>4 DEF IInv, DumpKept, dumpVars
  <2> QED BY <1>2, <2>1, <2>2, <2>3, <2>4 DEF IInv
<1> QED BY <1>3, <1>4 DEF set_freq

LEMMA EndPollStep == ASSUME IInv, EndPoll PROVE IInv'
BY Exiting, ClientTs, ClientFacts DEF EndPoll, Return, tsVars, IInv, ClientTypeOK

-----------------------------------------------------------------------------
(* The thread and the device *)

\* What a step of the thread does not do to the first stream.
LEMMA ThreadLeaves ==
  ASSUME TsInv, thread_main
  PROVE  /\ freq' = freq /\ dest' = dest
         /\ want_reset'[0] # 0 => want_reset[0] # 0
         /\ thread' = At("init", 0) => want_reset[0] # 0
         /\ ~ Receives => queue'[0] = queue[0]
<1>1. CASE Select
  BY <1>1 DEF Select, At
<1>2. CASE \E c \in Chan : Reset(c)
  BY <1>2 DEF Reset, AfterReset, At, Chan, TsInv, MpgtsTypeOK
<1>3. CASE \E c \in Chan : ParserInit(c)
  BY <1>3 DEF ParserInit, AfterReset, At, Chan
<1>4. CASE \E c \in Chan : Recv(c)
  <2>1. PICK c \in Chan : Recv(c)
    BY <1>4
  <2>2. ~ Receives => queue'[0] = queue[0]
    BY <2>1 DEF Recv, Receives, At, Chan, TsInv, MpgtsTypeOK
  <2> QED BY <2>1, <2>2 DEF Recv, AfterRecv, At, Chan
<1>5. CASE \E c \in Chan : Fill(c)
  BY <1>5 DEF Fill, AfterRecv, At, Chan
<1> QED BY <1>1, <1>2, <1>3, <1>4, <1>5 DEF thread_main

\* The first datagram goes to the file, or is lost to it.
LEMMA Moved ==
  ASSUME NEW d \in Seq(Tvs), NEW s \in Seq(Tvs), s # <<>>, NEW l, Splits(d, s, l)
  PROVE  Splits(Append(d, Head(s)), Tail(s), l) /\ Splits(d, Tail(s), l)
<1> DEFINE e == Append(d, Head(s))
           t == Tail(s)
<1>1. /\ Len(d) \in Nat /\ Len(s) \in Nat /\ Len(s) >= 1 /\ Len(e) = Len(d) + 1 /\ Len(t) = Len(s) - 1
      /\ \A n \in 1 .. Len(d) : e[n] = d[n]
      /\ e[Len(d) + 1] = s[1]
      /\ \A n \in 1 .. Len(t) : t[n] = s[n + 1]
  OBVIOUS
<1> HIDE DEF e, t
<1>2. \A n \in 1 .. Len(t) : n \in Int /\ n + 1 \in 1 .. Len(s) /\ Len(d) + (n + 1) = Len(e) + n
  BY <1>1
<1>3. \A n \in 1 .. Len(e) : n \in 1 .. Len(d) \/ n = Len(d) + 1
  BY <1>1
<1>4. 1 \in 1 .. Len(s)
  BY <1>1
<1>5. PICK k \in 0 .. Len(d) + Len(s) : SplitAt(d, s, l, k)
  BY DEF Splits
<1>6. \A n \in 1 .. Len(t) : t[n] = IF Len(e) + n <= k THEN l ELSE Tvch
  BY <1>1, <1>2, <1>5 DEF SplitAt
<1>7. Splits(e, t, l)
  <2>1. k \in 0 .. Len(e) + Len(t)
    BY <1>1
  <2>2. \A n \in 1 .. Len(e) : e[n] = IF n <= k THEN l ELSE Tvch
    BY <1>1, <1>3, <1>4, <1>5 DEF SplitAt
  <2> QED BY <1>6, <2>1, <2>2 DEF Splits, SplitAt
<1>8. Splits(d, t, l)
  <2>1. CASE k <= Len(d)
    <3>1. k \in 0 .. Len(d) + Len(t)
      BY <1>1, <2>1
    <3>2. \A n \in 1 .. Len(t) : ~ Len(e) + n <= k /\ ~ Len(d) + n <= k
      BY <1>1, <2>1
    <3>3. \A n \in 1 .. Len(t) : t[n] = IF Len(d) + n <= k THEN l ELSE Tvch
      BY <1>6, <3>2
    <3> QED BY <1>5, <3>1, <3>3 DEF Splits, SplitAt
  <2>2. CASE k > Len(d)
    <3>1. k - 1 \in 0 .. Len(d) + Len(t)
      BY <1>1, <2>2
    <3>2. \A n \in 1 .. Len(d) : n <= k /\ n <= k - 1
      BY <1>1, <2>2
    <3>3. \A n \in 1 .. Len(t) : Len(e) + n <= k <=> Len(d) + n <= k - 1
      BY <1>1
    <3>4. SplitAt(d, t, l, k - 1)
      BY <1>5, <1>6, <3>2, <3>3 DEF SplitAt
    <3> QED BY <3>1, <3>4 DEF Splits
  <2> QED BY <1>1, <2>1, <2>2
<1> QED BY <1>7, <1>8 DEF e, t

LEMMA AllMoved ==
  ASSUME NEW d \in Seq(Tvs), NEW s \in Seq(Tvs), s # <<>>, NEW l, All(d, l), All(s, l)
  PROVE  All(Append(d, Head(s)), l) /\ All(Tail(s), l)
<1>1. /\ Len(d) \in Nat /\ Len(s) \in Nat /\ Len(s) >= 1
      /\ Len(Append(d, Head(s))) = Len(d) + 1 /\ Len(Tail(s)) = Len(s) - 1
      /\ \A n \in 1 .. Len(d) : Append(d, Head(s))[n] = d[n]
      /\ Append(d, Head(s))[Len(d) + 1] = s[1]
      /\ \A n \in 1 .. Len(Tail(s)) : Tail(s)[n] = s[n + 1]
  OBVIOUS
<1> QED BY <1>1 DEF All

\* One more datagram is on its way, of the channel asked for or, while all are, of
\* the scan's.
LEMMA OneMore ==
  ASSUME NEW d \in Seq(Tvs), NEW s \in Seq(Tvs), NEW x \in Tvs, NEW l, Splits(d, s, l),
         x = Tvch \/ (x = l /\ All(d, l) /\ All(s, l))
  PROVE  Splits(d, Append(s, x), l) /\ (x = l /\ All(s, l) => All(Append(s, x), l))
<1> DEFINE t == Append(s, x)
<1>1. /\ Len(d) \in Nat /\ Len(s) \in Nat /\ Len(t) = Len(s) + 1 /\ t[Len(s) + 1] = x
      /\ \A n \in 1 .. Len(s) : t[n] = s[n]
  OBVIOUS
<1> HIDE DEF t
<1>2. \A n \in 1 .. Len(t) : n \in 1 .. Len(s) \/ n = Len(s) + 1
  BY <1>1
<1>3. x = l /\ All(s, l) => All(t, l)
  BY <1>1, <1>2 DEF All
<1>4. CASE x = l /\ All(d, l) /\ All(s, l)
  <2> DEFINE k == Len(d) + Len(t)
  <2>1. k \in 0 .. Len(d) + Len(t)
    BY <1>1
  <2>2. /\ \A n \in 1 .. Len(d) : n <= k
        /\ \A n \in 1 .. Len(t) : Len(d) + n <= k
    BY <1>1
  <2>3. /\ \A n \in 1 .. Len(d) : d[n] = l
        /\ \A n \in 1 .. Len(t) : t[n] = l
    BY <1>3, <1>4 DEF All
  <2> HIDE DEF k
  <2> QED BY <1>3, <2>1, <2>2, <2>3 DEF Splits, SplitAt, t
<1>5. CASE x = Tvch
  <2>1. PICK k \in 0 .. Len(d) + Len(s) : SplitAt(d, s, l, k)
    BY DEF Splits
  <2>2. k \in 0 .. Len(d) + Len(t) /\ ~ Len(d) + (Len(s) + 1) <= k
    BY <1>1
  <2>3. \A n \in 1 .. Len(t) : t[n] = IF Len(d) + n <= k THEN l ELSE Tvch
    BY <1>1, <1>2, <1>5, <2>1, <2>2 DEF SplitAt
  <2> QED BY <1>3, <2>1, <2>2, <2>3 DEF Splits, SplitAt, t
<1> QED BY <1>4, <1>5

LEMMA ReceiveStep ==
  ASSUME IInv, ~ Exited, UNCHANGED mainVars, Receives, Recv(0),
         WriteDump(Head(queue[0])) \/ (thread'[1] = "dead" /\ UNCHANGED dumpVars)
  PROVE  IInv'
<1>1. TsInv /\ 0 \in Chan
  BY DEF IInv, Chan
<1>2. thread_main
  BY <1>1 DEF thread_main
<1>3. TsInv'
  BY <1>1, <1>2, ThreadStep
<1>4. queue[0] # <<>> /\ queue[0] \in Seq(Tvs)
  BY <1>1 DEF TsInv, MpgtsTypeOK, ReadyIsThere, Receives, At
<1>5. /\ queue' = [queue EXCEPT ![0] = Tail(@)] /\ want_reset' = want_reset /\ freq' = freq
      /\ dest' = dest /\ thread' # At("init", 0)
  BY DEF Recv, Receives, AfterRecv, At
<1>6. queue'[0] = Tail(queue[0])
  BY <1>1, <1>5 DEF TsInv, MpgtsTypeOK
<1>7. pc' = pc /\ resets' = resets /\ label' = label
  BY DEF mainVars
<1>8. pc \in {"set_freq", "poll"}
  BY <1>4 DEF IInv, ResetFirst, Early, Silent, Exited, ClientTypeOK
<1>9. /\ dump' = dump \/ dump' = Append(dump, Head(queue[0]))
      /\ dumpfile' \in {dumpfile, FALSE} /\ write_failed' \in {write_failed, TRUE}
      /\ (dumpfile => dumpfile' \/ write_failed') /\ (write_failed => write_failed')
  <2>1. CASE ~ dumpfile /\ UNCHANGED dumpVars
    BY <2>1 DEF dumpVars
  <2>2. CASE dumpfile /\ dump' = Append(dump, Head(queue[0])) /\ UNCHANGED <<dumpfile, write_failed>>
    BY <2>2
  <2>3. CASE dumpfile /\ dumpfile' = FALSE /\ write_failed' = TRUE /\ UNCHANGED dump
    BY <2>3, Zenon
  <2>4. CASE UNCHANGED dumpVars
    BY <2>4 DEF dumpVars
  <2> QED BY <2>1, <2>2, <2>3, <2>4 DEF WriteDump
<1>10. ClientTypeOK'
  <2>1. Head(queue[0]) \in Tvs /\ Len(Tail(queue[0])) = Len(queue[0]) - 1 /\ Len(queue[0]) \in Nat
    BY <1>4
  <2>2. dump \in Seq(Tvs) /\ Len(dump) + Len(queue[0]) <= MaxDump /\ MaxDump \in Nat /\ Len(dump) \in Nat
    BY RecordAssumption DEF IInv, ClientTypeOK
  <2>3. dump' \in Seq(Tvs) /\ Len(dump') + Len(queue'[0]) <= MaxDump
    <3>1. CASE dump' = dump
      BY <1>6, <2>1, <2>2, <3>1
    <3>2. CASE dump' = Append(dump, Head(queue[0]))
      <4>1. dump' \in Seq(Tvs) /\ Len(dump') = Len(dump) + 1
        BY <2>1, <2>2, <3>2
      <4>2. Len(queue'[0]) = Len(queue[0]) - 1
        BY <1>6, <2>1
      <4>3. \A a, b, n \in Nat : a + b <= n => (a + 1) + (b - 1) <= n
        OBVIOUS
      <4>4. (Len(dump) + 1) + (Len(queue[0]) - 1) <= MaxDump
        BY <2>1, <2>2, <4>3
      <4> QED BY <4>1, <4>2, <4>4
    <3> QED BY <1>9, <3>1, <3>2
  <2>4. dumpfile' \in BOOLEAN /\ write_failed' \in BOOLEAN
    BY <1>9, Zenon DEF IInv, ClientTypeOK
  <2> QED BY <1>7, <2>3, <2>4 DEF IInv, ClientTypeOK
<1>11. ResetFirst'
  BY <1>5, <1>7, <1>8 DEF IInv, ResetFirst, Early, Exited
<1>12. Labelled'
  <2>1. dump \in Seq(Tvs)
    BY DEF IInv, ClientTypeOK
  <2>2. /\ Splits(dump, queue[0], label)
        /\ pc = "set_freq" => freq[0] = label /\ All(dump, label) /\ All(queue[0], label)
        /\ pc = "poll" => freq[0] = Tvch
    BY DEF IInv, Labelled
  <2>3. Splits(dump', queue'[0], label)
    BY <1>4, <1>6, <1>9, <2>1, <2>2, Moved
  <2>4. pc = "set_freq" => All(dump', label) /\ All(queue'[0], label)
    BY <1>4, <1>6, <1>9, <2>1, <2>2, AllMoved
  <2>5. GoesOver(dump', label)
    <3>1. dump' \in Seq(Tvs) /\ queue'[0] \in Seq(Tvs)
      BY <1>3, <1>10, QueueLength DEF ClientTypeOK, TsInv, MpgtsTypeOK, Chan
    <3> QED BY <2>3, <3>1, SplitFile
  <2> QED BY <1>5, <1>7, <2>2, <2>3, <2>4, <2>5 DEF Labelled, Exited
<1>13. DumpKept'
  BY <1>7, <1>9 DEF IInv, DumpKept
<1> QED BY <1>3, <1>10, <1>11, <1>12, <1>13 DEF IInv

LEMMA ResetsStep ==
  ASSUME IInv, ~ Exited, UNCHANGED mainVars, ParserInit(0), InitDump
  PROVE  IInv'
<1>1. TsInv /\ thread_main /\ thread = At("init", 0)
  BY DEF IInv, thread_main, Chan, ParserInit
<1>2. TsInv'
  BY <1>1, ThreadStep
<1>3. /\ queue' = queue /\ want_reset' = want_reset /\ freq' = freq /\ dest' = dest
      /\ thread' # At("init", 0) /\ dump' = dump /\ write_failed' = write_failed
      /\ pc' = pc /\ resets' = resets /\ label' = label
  BY DEF ParserInit, AfterReset, At, InitDump, mainVars
<1>4. Len(dump) = 0 /\ BUFFER > 0
  BY <1>1, EmptyQueue, RecordAssumption DEF IInv, ResetFirst
<1>5. dumpfile' = dumpfile
  <2>1. Len(dump) < BUFFER
    BY <1>4, RecordAssumption
  <2>2. dumpfile' = (dumpfile /\ Len(dump) < BUFFER) /\ dumpfile \in BOOLEAN
    BY DEF InitDump, IInv, ClientTypeOK
  <2> QED BY <2>1, <2>2, Zenon
<1> QED BY <1>2, <1>3, <1>5 DEF IInv, ClientTypeOK, ResetFirst, Labelled, DumpKept, Early, Silent, Exited

LEMMA GoesOnStep ==
  ASSUME IInv, ~ Exited, UNCHANGED mainVars, thread_main, ~ Receives, UNCHANGED dumpVars
  PROVE  IInv'
<1>1. /\ TsInv' /\ queue'[0] = queue[0]
      /\ freq' = freq /\ dest' = dest
      /\ want_reset'[0] # 0 => want_reset[0] # 0
      /\ thread' = At("init", 0) => want_reset[0] # 0
  BY ThreadStep, ThreadLeaves DEF IInv
<1>2. /\ dump' = dump /\ write_failed' = write_failed /\ dumpfile' = dumpfile
      /\ pc' = pc /\ resets' = resets /\ label' = label
  BY DEF mainVars, dumpVars
<1>3. ResetFirst'
  <2>1. /\ Early => Silent
        /\ want_reset[0] # 0 => pc = "wait"
    BY DEF IInv, ResetFirst
  <2>2. (Early' => Early) /\ (Silent => Silent')
    BY <1>1, <1>2 DEF Early, Silent
  <2>3. thread' = At("init", 0) => dump' = <<>>
    BY <1>1, <1>2, <2>1 DEF Early, Silent
  <2> QED BY <1>1, <1>2, <2>1, <2>2, <2>3 DEF ResetFirst
<1>4. ClientTypeOK' /\ DumpKept'
  BY <1>1, <1>2 DEF IInv, ClientTypeOK, DumpKept
<1>5. Labelled'
  BY <1>1, <1>2 DEF IInv, Labelled, Exited
<1> QED BY <1>1, <1>3, <1>4, <1>5 DEF IInv

LEMMA EnvironmentStep == ASSUME IInv, Environment PROVE IInv'
<1>1. /\ ~ Exited /\ dest[0] /\ queue' = [queue EXCEPT ![0] = Append(@, freq[0])]
      /\ Len(dump) + Len(queue[0]) < MaxDump
      /\ thread' = thread /\ want_reset' = want_reset /\ freq' = freq /\ dest' = dest
      /\ dump' = dump /\ write_failed' = write_failed /\ dumpfile' = dumpfile
      /\ pc' = pc /\ resets' = resets /\ label' = label
  BY DEF Environment, DeviceStreams, mainVars, dumpVars, threadVars
<1>2. TsInv'
  BY StreamStep DEF IInv, Environment, Chan
<1>3. pc \in {"set_freq", "poll"}
  BY <1>1 DEF IInv, ClientTypeOK, ResetFirst, Early, Silent, Exited
<1> DEFINE s == queue[0]
           t == Append(s, freq[0])
<1>4. /\ queue'[0] = t /\ s \in Seq(Tvs) /\ freq[0] \in Tvs /\ Len(s) \in Nat /\ dump \in Seq(Tvs)
      /\ Len(dump) \in Nat
  BY <1>1 DEF IInv, TsInv, MpgtsTypeOK, Chan, ClientTypeOK
<1>5. /\ Len(t) = Len(s) + 1 /\ t[Len(s) + 1] = freq[0]
      /\ \A n \in 1 .. Len(s) : t[n] = s[n]
  BY <1>4
<1> HIDE DEF s, t
<1>6. ClientTypeOK'
  BY <1>1, <1>4, <1>5, RecordAssumption DEF IInv, ClientTypeOK, s
<1>7. ResetFirst'
  BY <1>1, <1>3 DEF IInv, ResetFirst, Early, Exited
<1>8. Labelled'
  <2>1. /\ GoesOver(dump, label) /\ Splits(dump, s, label)
        /\ pc = "set_freq" => freq[0] = label /\ All(dump, label) /\ All(s, label)
        /\ pc = "poll" => freq[0] = Tvch
    BY <1>1 DEF IInv, Labelled, s
  <2>2. freq[0] = Tvch \/ (freq[0] = label /\ All(dump, label) /\ All(s, label))
    BY <1>3, <2>1
  <2>3. Splits(dump, t, label) /\ (freq[0] = label /\ All(s, label) => All(t, label))
    BY <1>4, <2>1, <2>2, OneMore DEF t
  <2> QED BY <1>1, <1>4, <2>1, <2>3 DEF Labelled, Exited
<1>9. DumpKept'
  BY <1>1 DEF IInv, DumpKept
<1> QED BY <1>2, <1>6, <1>7, <1>8, <1>9 DEF IInv

LEMMA StepIInv == IInv /\ [Next]_recVars => IInv'
<1> SUFFICES ASSUME IInv, [Next]_recVars PROVE IInv'
  OBVIOUS
<1>1. CASE Starting
  BY <1>1, OpenDumpStep, StartStep, WaitStep, SetFreqStep DEF Starting
<1>2. CASE EndPoll
  BY <1>2, EndPollStep
<1>3. CASE Thread
  <2>1. ~ Exited /\ UNCHANGED mainVars
    BY <1>3 DEF Thread
  <2> QED BY <1>3, <2>1, ReceiveStep, ResetsStep, GoesOnStep DEF Thread
<1>4. CASE Environment
  BY <1>4, EnvironmentStep
<1>5. CASE UNCHANGED recVars
  BY <1>5 DEF recVars, tsVars, threadVars, dumpVars, mainVars, IInv, TsInv, MpgtsTypeOK, ReadyIsThere,
     ClientTypeOK, ResetFirst, Labelled, DumpKept, Early, Silent, Exited
<1> QED BY <1>1, <1>2, <1>3, <1>4, <1>5 DEF Next

LEMMA SpecIInv == Spec => []IInv
BY InitIInv, StepIInv, PTL DEF Spec

-----------------------------------------------------------------------------
(* What follows *)

LEMMA TypesFollow == IInv => TypeOK
BY QueueLength, RecordAssumption DEF IInv, ClientTypeOK, TypeOK, TsInv, Chan

LEMMA OrderFollows == IInv => ScanChannelFirst
BY DEF IInv, Labelled, GoesOver, ScanChannelFirst

\* Every state of a recording has the types of Record.
THEOREM RecordTypeOK == Spec => []TypeOK
BY SpecIInv, TypesFollow, PTL

\* The reset start_ts() asks for never closes the file that was just opened,
\* however large stdio's buffer and however late the thread notices.
THEOREM FileStaysOpen == Spec => []DumpKept
BY SpecIInv, PTL DEF IInv

\* The file is datagrams of the channel of the scan, then of the one asked for, and
\* of no other, however much is buffered on the way and whatever part is lost.
THEOREM FileInOrder == Spec => []ScanChannelFirst
BY SpecIInv, OrderFollows, PTL
=============================================================================
