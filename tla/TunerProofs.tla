---------------------------- MODULE TunerProofs ----------------------------
(***************************************************************************)
(* Proofs about Tuner: type correctness, the backlog bound of the control  *)
(* connection, that the device follows the recorded inputs and TV channels *)
(* as long as no answer was missed, that the inputs are those of the       *)
(* active antenna, and that the two channels do not disturb each other.    *)
(* Then about Scan, whose steps call the same functions: that all this     *)
(* survives a scan, what a pass covers, what the list holds, and what      *)
(* register 0x12a and the antenna are left at.                             *)
(*                                                                         *)
(* Every function of the class keeps the same contract, Keeps: it is       *)
(* stated once per operator, from write_then_read() up to set_antenna(),   *)
(* and each call of Next then preserves the inductive invariant IInv, each *)
(* step of ScanNext ScanInv.                                               *)
(***************************************************************************)
EXTENDS Scan, TLAPS, SequenceTheorems, FiniteSetTheorems, FunctionTheorems

Tunings == [tv : Tv \cup {NoTv}, ok : BOOLEAN]

\* The records an operator works on.
States ==
  [opened : BOOLEAN, active_ant : Antenna, amp : [Chan -> AmpInput],
   tvch : [Chan -> Tv \cup {NoTv}], requests : Seq(Requests), answers : Seq(Answers),
   hwGpio : Words, hwFreq : [Chan -> Nat], lost : 0 .. MaxLost, inited : BOOLEAN,
   antSet : BOOLEAN, tuned : [Chan -> Tunings]]

\* What is left behind on the connection.
Backlog(s) == Len(s.requests) + Len(s.answers)

Good(s) == s \in States /\ Backlog(s) <= s.lost

Follows(s) == s.lost = 0 => s.hwGpio = GpioWord(s.amp)

\* The PLL has the frequency of the last TV channel it was set to, which is the
\* recorded one if its set_freq() returned 0.
TracksOne(s, ch) ==
  /\ s.tuned[ch].tv # NoTv => s.hwFreq[ch] \in FreqRead(s.tuned[ch].tv)
  /\ s.tuned[ch].ok => s.tuned[ch].tv # NoTv /\ s.tvch[ch] = s.tuned[ch].tv

Tracks(s) == s.lost = 0 => \A ch \in Chan : TracksOne(s, ch)

\* An amp that is on belongs to the active antenna, whatever is tuned to.
RightInput(s, ch) ==
  s.amp[ch] # off => s.active_ant # nc /\ s.amp[ch] \in InputsOf(s.active_ant)

\* The same, if a TV channel is recorded; without one the amp may be of the
\* other antenna, but the coax input is for coax alone.
Right(s, ch) ==
  s.amp[ch] # off =>
    /\ s.active_ant # nc
    /\ (s.amp[ch] = external) <=> (s.active_ant = coax)
    /\ s.tvch[ch] \in Tv => s.amp[ch] \in InputsOf(s.active_ant)

Listens(s) == s.antSet => \A ch \in Chan : Right(s, ch)

\* What every call does with the state it is given.
Keeps(s, t) ==
  /\ Good(t)
  /\ t.opened = s.opened /\ t.inited = s.inited
  /\ t.lost = 0 => s.lost = 0
  /\ Follows(s) => Follows(t)
  /\ Tracks(s) => Tracks(t)

\* What a call that works on one channel does: it leaves the other one alone.
Moves(s, t, ch) ==
  /\ Keeps(s, t)
  /\ t.active_ant = s.active_ant /\ t.antSet = s.antSet
  /\ \A c \in Chan \ {ch} :
       /\ t.amp[c] = s.amp[c] /\ t.tvch[c] = s.tvch[c]
       /\ t.lost = 0 => t.hwFreq[c] = s.hwFreq[c]

\* The state of the tuner object itself is the same.
SameTuner(s, t) ==
  /\ t.opened = s.opened /\ t.active_ant = s.active_ant /\ t.amp = s.amp
  /\ t.tvch = s.tvch /\ t.inited = s.inited /\ t.antSet = s.antSet /\ t.tuned = s.tuned

\* The same, the history of what was tuned to aside.
SameButTuned(s, t) ==
  /\ t.opened = s.opened /\ t.active_ant = s.active_ant /\ t.amp = s.amp
  /\ t.tvch = s.tvch /\ t.inited = s.inited /\ t.antSet = s.antSet
  /\ t.requests = s.requests /\ t.answers = s.answers
  /\ t.hwGpio = s.hwGpio /\ t.hwFreq = s.hwFreq /\ t.lost = s.lost

\* What a request that sets neither the GPIO word nor a PLL may change.
Quiet(s, t) ==
  /\ Good(t)
  /\ t.opened = s.opened /\ t.inited = s.inited /\ t.amp = s.amp
  /\ t.active_ant = s.active_ant /\ t.antSet = s.antSet
  /\ t.tvch = s.tvch /\ t.tuned = s.tuned
  /\ t.lost = 0 => s.lost = 0 /\ t.hwGpio = s.hwGpio /\ t.hwFreq = s.hwFreq

-----------------------------------------------------------------------------
(* Serving the requests of a connection *)

\* A non-empty set of positions has a largest one.
LEMMA NewestIn ==
  ASSUME NEW m \in Nat, NEW hits \in SUBSET (1 .. m), hits # {}
  PROVE  Newest(hits) \in hits
<1> DEFINE T == {k \in Nat : \E p \in hits : k = m - p}
           R == OpToRel(<, Nat)
<1>1. T # {} /\ T \subseteq Nat
  <2>1. PICK p \in hits : TRUE
    OBVIOUS
  <2>2. m - p \in T
    BY <2>1
  <2> QED BY <2>2
<1>2. PICK k \in T : \A l \in T : ~ (<<l, k>> \in R)
  <2> HIDE DEF T
  <2> QED BY <1>1, NatLessThanWellFounded, WFMin
<1>3. PICK p \in hits : k = m - p
  BY <1>2
<1>4. \A o \in hits : p >= o
  <2> TAKE o \in hits
  <2>1. m - o \in T
    OBVIOUS
  <2>2. ~ (m - o < k)
    BY <2>1, <1>2 DEF OpToRel
  <2> QED BY <2>2, <1>3
<1> QED BY <1>4 DEF Newest

LEMMA ReplyType == \A q \in Requests : Reply(q) \in Answers /\ Reply(q) # "fault"
BY DEF Reply, Requests, Answers

LEMMA Lengths ==
  ASSUME NEW s \in States
  PROVE  Len(s.requests) \in Nat /\ Len(s.answers) \in Nat /\ s.lost \in Nat
<1>1. s.requests \in Seq(Requests) /\ s.answers \in Seq(Answers) /\ s.lost \in 0 .. MaxLost
  BY DEF States
<1> QED BY <1>1, LenProperties, TunerAssumption

LEMMA BacklogNat ==
  ASSUME NEW s \in States
  PROVE  /\ Backlog(s) \in Nat /\ s.lost \in Nat
         /\ Backlog(s) = 0 => s.requests = <<>> /\ s.answers = <<>>
<1>1. s.requests \in Seq(Requests) /\ s.answers \in Seq(Answers)
  BY DEF States
<1>2. \A a, b \in Nat : a + b \in Nat /\ (a + b = 0 => a = 0 /\ b = 0)
  OBVIOUS
<1>3. Len(s.requests) # 0 \/ s.requests = <<>>
  BY <1>1, EmptySeq
<1>4. Len(s.answers) # 0 \/ s.answers = <<>>
  BY <1>1, EmptySeq
<1>5. Backlog(s) \in Nat /\ (Backlog(s) = 0 => Len(s.requests) = 0 /\ Len(s.answers) = 0)
  BY <1>2, Lengths DEF Backlog
<1> QED BY <1>3, <1>4, <1>5, Lengths

\* The device deals with n requests: types, and the length of what is left.
LEMMA ServeType ==
  ASSUME NEW s \in States, NEW n \in 0 .. Len(s.requests), NEW done \in SUBSET (1 .. n)
  PROVE  LET t == Serve(s, n, done) IN
         /\ t \in States
         /\ Backlog(t) = Backlog(s)
         /\ SameTuner(s, t)
         /\ t.lost = s.lost
<1> DEFINE gpio == {p \in done : s.requests[p].op = "gpio"}
           pll(ch) == {p \in done : s.requests[p].op = "pll" /\ s.requests[p].ch = ch}
           rest == SubSeq(s.requests, n + 1, Len(s.requests))
           new == [p \in 1 .. n |-> IF p \in done THEN Reply(s.requests[p]) ELSE "fault"]
           all == s.answers \o new
           word == IF gpio = {} THEN s.hwGpio ELSE s.requests[Newest(gpio)].word
           freq == [ch \in Chan |-> IF pll(ch) = {} THEN s.hwFreq[ch]
                                    ELSE s.requests[Newest(pll(ch))].freq]
<1>1. /\ s.requests \in Seq(Requests) /\ s.answers \in Seq(Answers)
      /\ s.hwGpio \in Words /\ s.hwFreq \in [Chan -> Nat]
  BY DEF States
<1>2. \A p \in 1 .. Len(s.requests) : s.requests[p] \in Requests
  BY <1>1, ElementOfSeq
<1>3. Len(s.requests) \in Nat /\ Len(s.answers) \in Nat /\ n \in Nat
  BY <1>1, LenProperties
<1>4. rest \in Seq(Requests) /\ Len(rest) = Len(s.requests) - n
  <2>1. \A p \in (n + 1) .. Len(s.requests) : s.requests[p] \in Requests
    BY <1>2, <1>3
  <2> QED BY <2>1, <1>3, SubSeqProperties
<1>5. new \in Seq(Answers) /\ Len(new) = n
  <2>1. \A p \in 1 .. n : (IF p \in done THEN Reply(s.requests[p]) ELSE "fault") \in Answers
    BY <1>2, <1>3, ReplyType DEF Answers
  <2> QED BY <2>1, <1>3
<1>6. all \in Seq(Answers) /\ Len(all) = Len(s.answers) + n
  <2> HIDE DEF new
  <2> QED BY <1>1, <1>5, ConcatProperties
<1>7. word \in Words
  <2>1. CASE gpio = {}
    BY <2>1, <1>1
  <2>2. CASE gpio # {}
    <3>1. Newest(gpio) \in gpio
      BY <2>2, <1>3, NewestIn
    <3>2. Newest(gpio) \in 1 .. Len(s.requests)
      <4>1. Newest(gpio) \in 1 .. n
        BY <3>1
      <4> QED BY <4>1, <1>3
    <3>3. s.requests[Newest(gpio)] \in Requests /\ s.requests[Newest(gpio)].op = "gpio"
      BY <3>1, <3>2, <1>2
    <3>4. \A q \in Requests : q.op = "gpio" => q.word \in Words
      BY DEF Requests, Get, GetN, Put
    <3> QED BY <3>3, <3>4, <2>2
  <2> QED BY <2>1, <2>2
<1>8. freq \in [Chan -> Nat]
  <2>1. \A ch \in Chan : pll(ch) # {} => s.requests[Newest(pll(ch))].freq \in Nat
    <3> TAKE ch \in Chan
    <3> HAVE pll(ch) # {}
    <3>1. Newest(pll(ch)) \in pll(ch)
      <4>1. pll(ch) \in SUBSET (1 .. n)
        OBVIOUS
      <4> HIDE DEF pll
      <4> QED BY <4>1, <1>3, NewestIn
    <3>2. Newest(pll(ch)) \in 1 .. Len(s.requests)
      <4>1. Newest(pll(ch)) \in 1 .. n
        BY <3>1
      <4> QED BY <4>1, <1>3
    <3>3. s.requests[Newest(pll(ch))] \in Requests /\ s.requests[Newest(pll(ch))].op = "pll"
      BY <3>1, <3>2, <1>2
    <3>4. \A q \in Requests : q.op = "pll" => q.freq \in Nat
      BY DEF Requests, Get, GetN, Put
    <3> QED BY <3>3, <3>4
  <2> QED BY <2>1, <1>1
<1>9. Serve(s, n, done) = [s EXCEPT !.requests = rest, !.answers = all,
                                    !.hwGpio = word, !.hwFreq = freq]
  BY DEF Serve
<1> HIDE DEF rest, new, all, word, freq
<1>10. Serve(s, n, done) \in States
  BY <1>9, <1>4, <1>6, <1>7, <1>8 DEF States
<1>11. SameTuner(s, Serve(s, n, done)) /\ Serve(s, n, done).lost = s.lost
  BY <1>9 DEF States, SameTuner
<1>12. /\ Serve(s, n, done).requests = rest
       /\ Serve(s, n, done).answers = all
  BY <1>9 DEF States
<1>13. Len(rest) + Len(all) = Len(s.requests) + Len(s.answers)
  <2>1. Len(rest) = Len(s.requests) - n
    BY <1>4
  <2>2. Len(all) = Len(s.answers) + n
    BY <1>6
  <2>3. Len(s.requests) \in Nat /\ Len(s.answers) \in Nat /\ n \in Nat
    BY <1>3
  <2>4. \A a, b, k \in Nat : (a - k) + (b + k) = a + b
    OBVIOUS
  <2>5. (Len(s.requests) - n) + (Len(s.answers) + n) = Len(s.requests) + Len(s.answers)
    BY <2>3, <2>4
  <2> QED BY <2>1, <2>2, <2>5
<1> QED BY <1>10, <1>11, <1>12, <1>13 DEF Backlog

\* What the device makes of its PLLs when it carries out request q.
Tuned(freqs, q) == IF q.op = "pll" THEN [freqs EXCEPT ![q.ch] = q.freq] ELSE freqs

\* On a connection with nothing left behind, the request just sent is the only
\* one the device can deal with.
LEMMA ServeOnly ==
  ASSUME NEW s \in States, s.requests = <<>>, s.answers = <<>>, NEW q \in Requests,
         NEW n \in 0 .. Len(Send(s, q).requests), NEW done \in SUBSET (1 .. n)
  PROVE  LET t == Serve(Send(s, q), n, done) IN
         t.answers # <<>> =>
           \/ Head(t.answers) = "fault" /\ t.hwGpio = s.hwGpio /\ t.hwFreq = s.hwFreq
           \/ /\ Head(t.answers) = Reply(q)
              /\ t.hwGpio = IF q.op = "gpio" THEN q.word ELSE s.hwGpio
              /\ t.hwFreq = Tuned(s.hwFreq, q)
<1> DEFINE d == Send(s, q)
           t == Serve(d, n, done)
           pll(ch) == {p \in done : d.requests[p].op = "pll" /\ d.requests[p].ch = ch}
<1>1. /\ d.requests = <<q>> /\ d.answers = <<>> /\ d.hwGpio = s.hwGpio
      /\ d.hwFreq = s.hwFreq /\ s.hwFreq \in [Chan -> Nat]
  BY DEF Send, States
<1>2. Len(d.requests) = 1 /\ d.requests[1] = q
  BY <1>1
<1>3. n \in {0, 1}
  BY <1>2
<1>4. t.answers = d.answers \o [p \in 1 .. n |->
                    IF p \in done THEN Reply(d.requests[p]) ELSE "fault"]
  BY DEF Serve, Send, States
<1>5. t.hwGpio = LET gpio == {p \in done : d.requests[p].op = "gpio"}
                 IN IF gpio = {} THEN d.hwGpio ELSE d.requests[Newest(gpio)].word
  BY DEF Serve, Send, States
<1>6. t.hwFreq = [ch \in Chan |-> IF pll(ch) = {} THEN d.hwFreq[ch]
                                  ELSE d.requests[Newest(pll(ch))].freq]
  BY DEF Serve, Send, States
<1> DEFINE Goal == t.answers # <<>> =>
             \/ Head(t.answers) = "fault" /\ t.hwGpio = s.hwGpio /\ t.hwFreq = s.hwFreq
             \/ /\ Head(t.answers) = Reply(q)
                /\ t.hwGpio = IF q.op = "gpio" THEN q.word ELSE s.hwGpio
                /\ t.hwFreq = Tuned(s.hwFreq, q)
<1> SUFFICES Goal
  OBVIOUS
<1> HIDE DEF d, t
<1>7. CASE n = 0
  BY <1>7, <1>4, <1>1
<1>8. CASE n = 1
  <2>0. done \in SUBSET {1}
    BY <1>8
  <2>1. t.answers = <<IF 1 \in done THEN Reply(q) ELSE "fault">>
    <3>1. [p \in 1 .. n |-> IF p \in done THEN Reply(d.requests[p]) ELSE "fault"]
             = <<IF 1 \in done THEN Reply(q) ELSE "fault">>
      BY <1>8, <1>2
    <3> QED BY <3>1, <1>4, <1>1
  <2>2. CASE 1 \notin done
    <3>1. done = {}
      BY <2>2, <2>0
    <3>2. t.hwGpio = s.hwGpio
      BY <3>1, <1>5, <1>1
    <3>3. t.hwFreq = s.hwFreq
      <4>1. \A ch \in Chan : pll(ch) = {}
        BY <3>1
      <4> HIDE DEF pll
      <4> QED BY <4>1, <1>6, <1>1
    <3> QED BY <3>2, <3>3, <2>1, <2>2
  <2>3. CASE 1 \in done
    <3>0. done = {1} /\ Newest({1}) = 1
      <4>1. done = {1}
        BY <2>3, <2>0
      <4>2. Newest({1}) = 1
        BY DEF Newest
      <4> QED BY <4>1, <4>2
    <3>1. t.hwGpio = IF q.op = "gpio" THEN q.word ELSE s.hwGpio
      <4>1. CASE q.op # "gpio"
        <5>1. {p \in done : d.requests[p].op = "gpio"} = {}
          BY <4>1, <3>0, <1>2
        <5> QED BY <5>1, <4>1, <1>5, <1>1
      <4>2. CASE q.op = "gpio"
        <5>1. {p \in done : d.requests[p].op = "gpio"} = {1}
          BY <4>2, <3>0, <1>2
        <5> QED BY <5>1, <4>2, <3>0, <1>5, <1>2
      <4> QED BY <4>1, <4>2
    <3>2. t.hwFreq = Tuned(s.hwFreq, q)
      <4>1. CASE q.op # "pll"
        <5>1. \A ch \in Chan : pll(ch) = {}
          BY <4>1, <3>0, <1>2
        <5> HIDE DEF pll
        <5> QED BY <5>1, <4>1, <1>6, <1>1 DEF Tuned
      <4>2. CASE q.op = "pll"
        <5>1. \A ch \in Chan : pll(ch) = IF q.ch = ch THEN {1} ELSE {}
          BY <4>2, <3>0, <1>2
        <5> HIDE DEF pll
        <5>2. \A ch \in Chan :
                (IF pll(ch) = {} THEN d.hwFreq[ch] ELSE d.requests[Newest(pll(ch))].freq)
                  = IF q.ch = ch THEN q.freq ELSE s.hwFreq[ch]
          <6> TAKE ch \in Chan
          <6>1. CASE q.ch = ch
            <7>1. pll(ch) = {1}
              BY <5>1, <6>1
            <7> QED BY <7>1, <6>1, <3>0, <1>2
          <6>2. CASE q.ch # ch
            <7>1. pll(ch) = {}
              BY <5>1, <6>2
            <7> QED BY <7>1, <6>2, <1>1
          <6> QED BY <6>1, <6>2
        <5>3. t.hwFreq = [ch \in Chan |-> IF q.ch = ch THEN q.freq ELSE s.hwFreq[ch]]
          BY <5>2, <1>6
        <5> QED BY <5>3, <4>2, <1>1 DEF Tuned
      <4> QED BY <4>1, <4>2
    <3>3. Head(t.answers) = Reply(q)
      BY <2>1, <2>3
    <3> QED BY <3>1, <3>2, <3>3
  <2> QED BY <2>2, <2>3
<1> QED BY <1>3, <1>7, <1>8
-----------------------------------------------------------------------------
(* One request and its answer *)

LEMMA SendType ==
  ASSUME NEW s \in States, NEW q \in Requests
  PROVE  LET d == Send(s, q) IN
         d \in States /\ SameTuner(s, d) /\ d.lost = s.lost /\ Backlog(d) = Backlog(s) + 1
<1> DEFINE sent == Append(s.requests, q)
<1>1. s.requests \in Seq(Requests)
  BY DEF States
<1>2. sent \in Seq(Requests) /\ Len(sent) = Len(s.requests) + 1
  BY <1>1, AppendProperties
<1>3. Send(s, q) = [s EXCEPT !.requests = sent]
  BY DEF Send
<1> HIDE DEF sent
<1>4. Backlog(Send(s, q)) = Backlog(s) + 1
  <2>1. Backlog(Send(s, q)) = (Len(s.requests) + 1) + Len(s.answers)
    BY <1>2, <1>3 DEF Backlog, States
  <2>2. \A a, b \in Nat : (a + 1) + b = (a + b) + 1
    OBVIOUS
  <2> QED BY <2>1, <2>2, Lengths DEF Backlog
<1> QED BY <1>2, <1>3, <1>4 DEF States, SameTuner

\* Reading the oldest answer.
LEMMA ReadType ==
  ASSUME NEW d \in States, d.answers # <<>>
  PROVE  /\ Read(d) \in States /\ SameTuner(d, Read(d)) /\ Read(d).lost = d.lost
         /\ Backlog(Read(d)) = Backlog(d) - 1
         /\ Read(d).hwGpio = d.hwGpio /\ Read(d).hwFreq = d.hwFreq
<1> DEFINE left == Tail(d.answers)
<1>1. d.answers \in Seq(Answers)
  BY DEF States
<1>2. left \in Seq(Answers) /\ Len(left) = Len(d.answers) - 1
  BY <1>1, HeadTailProperties
<1>3. Read(d) = [d EXCEPT !.answers = left]
  BY DEF Read
<1> HIDE DEF left
<1>4. Backlog(Read(d)) = Backlog(d) - 1
  <2>1. Backlog(Read(d)) = Len(d.requests) + (Len(d.answers) - 1)
    BY <1>2, <1>3 DEF Backlog, States
  <2>2. \A a, b \in Nat : a + (b - 1) = (a + b) - 1
    OBVIOUS
  <2> QED BY <2>1, <2>2, Lengths DEF Backlog
<1> QED BY <1>2, <1>3, <1>4 DEF States, SameTuner

\* Missing an answer.
LEMMA MissType ==
  ASSUME NEW d \in States, d.lost < MaxLost
  PROVE  LET t == Miss(d).s IN
         t \in States /\ SameTuner(d, t) /\ t.lost = d.lost + 1 /\ Backlog(t) = Backlog(d)
<1>1. d.lost + 1 \in 0 .. MaxLost
  BY TunerAssumption DEF States
<1> QED BY <1>1 DEF Miss, States, SameTuner, Backlog

\* What a call can find: with no answer missed so far, it is the answer to its
\* own request, and the device has carried the request out if it is the right one.
LEMMA WriteThenRead ==
  ASSUME NEW s, Good(s), NEW q \in Requests, NEW x \in write_then_read(s, q)
  PROVE  /\ Good(x.s) /\ SameTuner(s, x.s)
         /\ x.s.lost = 0 =>
              /\ s.lost = 0
              /\ x.s.hwGpio = IF x.ans = Reply(q) /\ q.op = "gpio" THEN q.word ELSE s.hwGpio
              /\ x.s.hwFreq = IF x.ans = Reply(q) THEN Tuned(s.hwFreq, q) ELSE s.hwFreq
<1>1. s \in States /\ Backlog(s) <= s.lost /\ Backlog(s) \in Nat /\ s.lost \in Nat
  BY BacklogNat DEF Good
<1>2. CASE x = [s |-> s, ans |-> "none"]
  <2>1. x.ans # Reply(q)
    BY <1>2, ReplyType DEF Answers
  <2> QED BY <2>1, <1>2 DEF SameTuner
<1>3. CASE x # [s |-> s, ans |-> "none"]
  <2>1. PICK d \in Served(Send(s, q)) : x \in Await(d)
    BY <1>3 DEF write_then_read
  <2>2. PICK n \in 0 .. Len(Send(s, q).requests) :
          d \in {Serve(Send(s, q), n, done) : done \in SUBSET (1 .. n)}
    BY <2>1 DEF Served
  <2>3. PICK done \in SUBSET (1 .. n) : d = Serve(Send(s, q), n, done)
    BY <2>2
  <2>4. /\ Send(s, q) \in States /\ SameTuner(s, Send(s, q)) /\ Send(s, q).lost = s.lost
        /\ Backlog(Send(s, q)) = Backlog(s) + 1
    BY <1>1, SendType
  <2>5. /\ d \in States /\ SameTuner(s, d) /\ d.lost = s.lost
        /\ Backlog(d) = Backlog(s) + 1
    BY <2>3, <2>4, ServeType DEF SameTuner
  <2>6. CASE d.lost < MaxLost /\ x = Miss(d)
    <3>1. x.s \in States /\ SameTuner(d, x.s) /\ x.s.lost = d.lost + 1 /\ Backlog(x.s) = Backlog(d)
      BY <2>5, <2>6, MissType
    <3>2. x.s.lost # 0 /\ Backlog(x.s) <= x.s.lost
      BY <3>1, <2>5, <1>1
    <3> QED BY <3>1, <3>2, <2>5 DEF Good, SameTuner
  <2>7. CASE d.answers # <<>> /\ x = [s |-> Read(d), ans |-> Head(d.answers)]
    <3>1. /\ x.s \in States /\ SameTuner(d, x.s) /\ x.s.lost = d.lost
          /\ Backlog(x.s) = Backlog(d) - 1
          /\ x.s.hwGpio = d.hwGpio /\ x.s.hwFreq = d.hwFreq
      BY <2>5, <2>7, ReadType
    <3>2. Backlog(x.s) <= x.s.lost
      BY <3>1, <2>5, <1>1
    <3>3. ASSUME x.s.lost = 0
          PROVE  /\ x.s.hwGpio = IF x.ans = Reply(q) /\ q.op = "gpio" THEN q.word ELSE s.hwGpio
                 /\ x.s.hwFreq = IF x.ans = Reply(q) THEN Tuned(s.hwFreq, q) ELSE s.hwFreq
      <4>1. Backlog(s) = 0
        BY <3>3, <3>1, <2>5, <1>1
      <4>2. s.requests = <<>> /\ s.answers = <<>>
        BY <4>1, <1>1, BacklogNat
      <4>3. \/ Head(d.answers) = "fault" /\ d.hwGpio = s.hwGpio /\ d.hwFreq = s.hwFreq
            \/ /\ Head(d.answers) = Reply(q)
               /\ d.hwGpio = IF q.op = "gpio" THEN q.word ELSE s.hwGpio
               /\ d.hwFreq = Tuned(s.hwFreq, q)
        BY <4>2, <2>3, <2>7, <1>1, ServeOnly
      <4>4. Reply(q) # "fault"
        BY ReplyType
      <4> QED BY <4>3, <4>4, <3>1, <2>7
    <3> QED BY <3>1, <3>2, <3>3, <2>5 DEF Good, SameTuner
  <2>8. CASE d.lost < MaxLost /\ d.answers # <<>> /\ x = Miss(Read(d))
    <3>1. /\ Read(d) \in States /\ SameTuner(d, Read(d)) /\ Read(d).lost = d.lost
          /\ Backlog(Read(d)) = Backlog(d) - 1
      BY <2>5, <2>8, ReadType
    <3>2. /\ x.s \in States /\ SameTuner(Read(d), x.s) /\ x.s.lost = d.lost + 1
          /\ Backlog(x.s) = Backlog(Read(d))
      BY <3>1, <2>8, MissType
    <3>3. x.s.lost # 0 /\ Backlog(x.s) <= x.s.lost
      BY <3>1, <3>2, <2>5, <1>1
    <3> QED BY <3>1, <3>2, <3>3, <2>5 DEF Good, SameTuner
  <2> QED BY <2>1, <2>6, <2>7, <2>8 DEF Await
<1> QED BY <1>2, <1>3
-----------------------------------------------------------------------------
(* The contract of each function *)

LEMMA KeepsTrans ==
  ASSUME NEW s, NEW t, NEW u, Keeps(s, t), Keeps(t, u)
  PROVE  Keeps(s, u)
BY DEF Keeps

LEMMA KeepsSelf == ASSUME NEW s, Good(s) PROVE Keeps(s, s)
BY DEF Keeps

LEMMA QuietTrans ==
  ASSUME NEW s, NEW t, NEW u, Quiet(s, t), Quiet(t, u)
  PROVE  Quiet(s, u)
BY DEF Quiet

LEMMA QuietKeeps == ASSUME NEW s, NEW t, Quiet(s, t) PROVE Keeps(s, t)
BY DEF Quiet, Keeps, Follows, Tracks, TracksOne

LEMMA QuietMoves == ASSUME NEW s, NEW t, NEW ch, Quiet(s, t) PROVE Moves(s, t, ch)
BY QuietKeeps DEF Quiet, Moves

\* Quiet requests leave what a channel listens to alone.
LEMMA QuietListens ==
  ASSUME NEW s, NEW t, Quiet(s, t)
  PROVE  /\ Listens(s) => Listens(t)
         /\ \A ch \in Chan : Right(s, ch) => Right(t, ch)
         /\ \A ch \in Chan : RightInput(s, ch) => RightInput(t, ch)
BY DEF Quiet, Listens, Right, RightInput

LEMMA MovesSelf == ASSUME NEW s, NEW ch, Good(s) PROVE Moves(s, s, ch)
BY KeepsSelf DEF Moves

LEMMA MovesTrans ==
  ASSUME NEW s, NEW t, NEW u, NEW ch, Moves(s, t, ch), Moves(t, u, ch)
  PROVE  Moves(s, u, ch)
<1>1. Keeps(s, u)
  BY KeepsTrans DEF Moves
<1>2. u.lost = 0 => t.lost = 0
  BY DEF Moves, Keeps
<1> QED BY <1>1, <1>2 DEF Moves

LEMMA PlainRequests == {Get, GetN, Put} \subseteq {q \in Requests : q.op \notin {"gpio", "pll"}}
BY DEF Requests, Get, GetN, Put

LEMMA AskQuiet ==
  ASSUME NEW s, Good(s), NEW q \in {Get, GetN, Put}, NEW r \in Ask(s, q)
  PROVE  Quiet(s, r.s)
<1>1. PICK x \in write_then_read(s, q) : r.s = x.s
  BY DEF Ask
<1>2. q \in Requests /\ q.op # "gpio" /\ q.op # "pll"
  BY PlainRequests
<1>3. /\ Good(x.s) /\ SameTuner(s, x.s)
      /\ x.s.lost = 0 => s.lost = 0 /\ x.s.hwGpio = s.hwGpio /\ x.s.hwFreq = s.hwFreq
  BY <1>2, WriteThenRead DEF Tuned
<1> QED BY <1>1, <1>3 DEF Quiet, SameTuner

LEMMA ModifyQuiet ==
  ASSUME NEW s, Good(s), NEW r \in Modify(s)
  PROVE  Quiet(s, r.s)
<1>1. PICK a \in Ask(s, Get) : r \in IF a.ok THEN Ask(a.s, Put) ELSE {a}
  BY DEF Modify, Then
<1>2. Quiet(s, a.s)
  BY <1>1, AskQuiet
<1>3. CASE a.ok
  BY <1>1, <1>2, <1>3, AskQuiet, QuietTrans DEF Quiet
<1> QED BY <1>1, <1>2, <1>3

LEMMA ResetQuiet ==
  ASSUME NEW s, Good(s), NEW r \in reset_demod(s)
  PROVE  Quiet(s, r.s)
<1>1. PICK a \in Modify(s) : r \in IF a.ok THEN Ask(a.s, Put) ELSE {a}
  BY DEF reset_demod, Then
<1>2. Quiet(s, a.s)
  BY <1>1, ModifyQuiet
<1>3. CASE a.ok
  BY <1>1, <1>2, <1>3, AskQuiet, QuietTrans DEF Quiet
<1> QED BY <1>1, <1>2, <1>3

\* set_amp() changes one recorded input, and only with the answer of set_gpio().
LEMMA SetAmp ==
  ASSUME NEW s, Good(s), NEW ch \in Chan, NEW state \in AmpInput, NEW r \in set_amp(s, ch, state)
  PROVE  /\ Moves(s, r.s, ch)
         /\ r.ok /\ state # s.amp[ch] => Follows(r.s)
         /\ r.s.tvch = s.tvch /\ r.s.tuned = s.tuned
         /\ r.s.lost = 0 => r.s.hwFreq = s.hwFreq
         /\ r.s.amp[ch] = IF r.ok THEN state ELSE s.amp[ch]
<1>1. CASE state = s.amp[ch]
  <2>1. set_amp(s, ch, state) = Done(s)
    BY <1>1 DEF set_amp
  <2>2. r.s = s
    BY <2>1 DEF Done
  <2> QED BY <2>2, <1>1, MovesSelf
<1>2. CASE state # s.amp[ch]
  <2> DEFINE new == [s.amp EXCEPT ![ch] = state]
             word == GpioWord(new)
             q == SetGpio(word)
  <2>1. PICK a \in Ask(s, q) : r \in IF a.ok THEN Done([a.s EXCEPT !.amp[ch] = state]) ELSE {a}
    BY <1>2 DEF set_amp, Then
  <2>2. PICK x \in write_then_read(s, q) : a = [s |-> x.s, ok |-> x.ans = Reply(q)]
    BY <2>1 DEF Ask
  <2>3. /\ new \in [Chan -> AmpInput] /\ new[ch] = state
        /\ \A c \in Chan \ {ch} : new[c] = s.amp[c]
    BY DEF Good, States
  <2>4. word \in Words
    BY <2>3 DEF Words
  <2>5. q \in Requests /\ q.op = "gpio" /\ q.word = word
    BY <2>4 DEF Requests, SetGpio
  <2> HIDE DEF word, q
  <2>6. /\ Good(x.s) /\ SameTuner(s, x.s)
        /\ x.s.lost = 0 => /\ s.lost = 0
                           /\ x.s.hwGpio = IF x.ans = Reply(q) THEN word ELSE s.hwGpio
                           /\ x.s.hwFreq = s.hwFreq
    BY <2>2, <2>5, WriteThenRead DEF Tuned
  <2>7. CASE x.ans = Reply(q)
    <3> DEFINE t == [x.s EXCEPT !.amp[ch] = state]
    <3>1. r = [s |-> t, ok |-> TRUE]
      BY <2>1, <2>2, <2>7 DEF Done
    <3>2. x.s \in States /\ x.s.amp = s.amp
      BY <2>6 DEF Good, SameTuner
    <3>3. t = [x.s EXCEPT !.amp = new]
      BY <3>2 DEF States
    <3> HIDE DEF t, new
    <3>4. t \in States /\ t.amp = new /\ t.hwGpio = x.s.hwGpio /\ t.lost = x.s.lost
          /\ t.opened = x.s.opened /\ t.inited = x.s.inited
          /\ t.requests = x.s.requests /\ t.answers = x.s.answers
      BY <3>2, <3>3, <2>3 DEF States
    <3>5. /\ t.tvch = s.tvch /\ t.tuned = s.tuned /\ t.hwFreq = x.s.hwFreq
          /\ t.active_ant = s.active_ant /\ t.antSet = s.antSet
      BY <3>2, <3>3, <2>6 DEF States, SameTuner
    <3>6. Good(t)
      BY <3>4, <2>6 DEF Good, Backlog
    <3>7. t.lost = 0 => s.lost = 0 /\ t.hwGpio = GpioWord(t.amp) /\ t.hwFreq = s.hwFreq
      BY <3>4, <3>5, <2>6, <2>7 DEF word
    <3>8. Keeps(s, t) /\ Follows(t)
      BY <3>4, <3>5, <3>6, <3>7, <2>6 DEF Keeps, Follows, Tracks, TracksOne, SameTuner
    <3>9. Moves(s, t, ch)
      BY <3>4, <3>5, <3>7, <3>8, <2>3 DEF Moves
    <3> QED BY <3>1, <3>4, <3>5, <3>7, <3>8, <3>9, <2>3
  <2>8. CASE x.ans # Reply(q)
    <3>1. r = [s |-> x.s, ok |-> FALSE]
      BY <2>1, <2>2, <2>8
    <3>2. Quiet(s, x.s)
      BY <2>6, <2>8 DEF Quiet, SameTuner
    <3> QED BY <3>1, <3>2, QuietMoves DEF Quiet
  <2> QED BY <2>7, <2>8
<1> QED BY <1>1, <1>2

LEMMA FreqType == \A tv : FreqRead(tv) \subseteq Nat
BY TunerAssumption DEF FreqRead

LEMMA InputType == \A freq \in Nat, ant \in Antenna : InputFor(freq, ant) \in AmpInput
BY DEF InputFor, AmpInput, off, vhf1, uhf1, external, ant2, coax

\* set_freq() picks an input of the active antenna.
LEMMA InputIsOf ==
  \A freq \in Nat, ant \in Antenna \ {nc} : InputFor(freq, ant) \in InputsOf(ant)
BY DEF InputFor, InputsOf, Antenna, nc, ant1, ant2, coax, vhf1, vhf2, uhf1, uhf2, external

\* An input of an antenna is the coax input if the antenna is coax.
LEMMA RightInputIsRight ==
  ASSUME NEW s, NEW ch \in Chan, Good(s), RightInput(s, ch)
  PROVE  Right(s, ch)
<1>1. s.active_ant \in Antenna
  BY DEF Good, States
<1> QED BY <1>1
  DEF RightInput, Right, InputsOf, Antenna, nc, ant1, ant2, coax, vhf1, vhf2, uhf1, uhf2, external

\* Each demodulator is tracked by its own part of the state.
LEMMA TracksMoved ==
  ASSUME NEW s, NEW t, NEW ch \in Chan, t.lost = 0 => s.lost = 0, Tracks(s),
         t.lost = 0 => /\ TracksOne(t, ch)
                       /\ \A c \in Chan \ {ch} : /\ t.tuned[c] = s.tuned[c]
                                                 /\ t.tvch[c] = s.tvch[c]
                                                 /\ t.hwFreq[c] = s.hwFreq[c]
  PROVE  Tracks(t)
BY DEF Tracks, TracksOne

\* The device acknowledged the PLL of a TV channel.
Acked(s, ch, tv) == [s EXCEPT !.tuned[ch] = [tv |-> tv, ok |-> FALSE]]

\* The history of an acknowledged PLL request.
LEMMA Acknowledged ==
  ASSUME NEW s, Good(s), NEW ch \in Chan, NEW tv \in Tv,
         NEW t, t = Acked(s, ch, tv)
  PROVE  /\ Good(t) /\ t.tuned[ch].tv = tv /\ ~ t.tuned[ch].ok
         /\ \A c \in Chan \ {ch} : t.tuned[c] = s.tuned[c]
         /\ t.lost = s.lost /\ t.amp = s.amp /\ t.hwGpio = s.hwGpio /\ t.opened = s.opened
         /\ t.inited = s.inited /\ t.active_ant = s.active_ant /\ t.antSet = s.antSet
         /\ t.tvch = s.tvch /\ t.hwFreq = s.hwFreq
<1> DEFINE now == [s.tuned EXCEPT ![ch] = [tv |-> tv, ok |-> FALSE]]
<1>1. /\ now \in [Chan -> Tunings] /\ now[ch] = [tv |-> tv, ok |-> FALSE]
      /\ \A c \in Chan \ {ch} : now[c] = s.tuned[c]
  BY DEF Good, States, Tunings
<1>2. t = [s EXCEPT !.tuned = now]
  BY DEF Good, States, Acked
<1> HIDE DEF now
<1>3. t \in States /\ Backlog(t) = Backlog(s) /\ t.lost = s.lost /\ t.tuned = now
  BY <1>1, <1>2 DEF Good, States, Backlog
<1>4. /\ t.amp = s.amp /\ t.hwGpio = s.hwGpio /\ t.opened = s.opened
      /\ t.inited = s.inited /\ t.active_ant = s.active_ant /\ t.antSet = s.antSet
      /\ t.tvch = s.tvch /\ t.hwFreq = s.hwFreq
  BY <1>2 DEF Good, States
<1>5. Good(t)
  BY <1>3 DEF Good
<1> QED BY <1>1, <1>3, <1>4, <1>5

\* write_pll() sets the PLL it is asked to and remembers for which TV channel; a
\* refusal turns the amp off.
LEMMA WritePll ==
  ASSUME NEW s, Good(s), NEW ch \in Chan, NEW tv \in Tv, NEW freq \in FreqRead(tv),
         NEW r \in write_pll(s, ch, tv, freq)
  PROVE  /\ Moves(s, r.s, ch)
         /\ RightInput(s, ch) => RightInput(r.s, ch)
         /\ r.ok => r.s.tuned[ch].tv = tv
         /\ r.ok /\ r.s.lost = 0 => r.s.hwFreq[ch] \in FreqRead(tv)
<1>0. freq \in Nat
  BY FreqType
<1> DEFINE q == SetPll(ch, freq)
<1>2. /\ q \in Requests /\ q.op = "pll" /\ q.ch = ch /\ q.freq = freq /\ Reply(q) = "ack"
  BY <1>0 DEF SetPll, Requests, Reply
<1>3. PICK x \in write_then_read(s, q) :
        r \in IF x.ans = "ack"
              THEN Done(Acked(x.s, ch, tv))
              ELSE IF x.ans = "none" THEN Fail(x.s)
              ELSE {[s |-> v.s, ok |-> FALSE] : v \in set_amp(x.s, ch, off)}
  BY DEF write_pll, Acked
<1> HIDE DEF q
<1>4. /\ Good(x.s) /\ SameTuner(s, x.s)
      /\ x.s.lost = 0 =>
           /\ s.lost = 0 /\ x.s.hwGpio = s.hwGpio
           /\ x.s.hwFreq = IF x.ans = "ack" THEN [s.hwFreq EXCEPT ![ch] = freq] ELSE s.hwFreq
  BY <1>2, <1>3, WriteThenRead DEF Tuned
<1>5. s.hwFreq \in [Chan -> Nat]
  BY DEF Good, States
<1>6. x.ans # "ack" => Moves(s, x.s, ch)
  <2>1. x.ans # "ack" /\ Tracks(s) => Tracks(x.s)
    BY <1>4 DEF Tracks, TracksOne, SameTuner
  <2> QED BY <1>4, <2>1 DEF Moves, Keeps, Follows, SameTuner
<1>7. CASE x.ans = "ack"
  <2> DEFINE t == Acked(x.s, ch, tv)
  <2>1. r.s = t
    BY <1>3, <1>7 DEF Done
  <2>a. t = Acked(x.s, ch, tv)
    OBVIOUS
  <2> HIDE DEF t
  <2>2. /\ Good(t) /\ t.tuned[ch].tv = tv /\ ~ t.tuned[ch].ok
        /\ \A c \in Chan \ {ch} : t.tuned[c] = x.s.tuned[c]
        /\ t.lost = x.s.lost /\ t.amp = x.s.amp /\ t.hwGpio = x.s.hwGpio
        /\ t.opened = x.s.opened /\ t.inited = x.s.inited
        /\ t.active_ant = x.s.active_ant /\ t.antSet = x.s.antSet
        /\ t.tvch = x.s.tvch /\ t.hwFreq = x.s.hwFreq
    BY <2>a, <1>4, Acknowledged
  <2>3. t.lost = 0 => /\ s.lost = 0 /\ t.hwGpio = s.hwGpio
                      /\ t.hwFreq[ch] = freq
                      /\ \A c \in Chan \ {ch} : t.hwFreq[c] = s.hwFreq[c]
    BY <1>4, <1>5, <1>7, <2>2
  <2>4. Tracks(s) => Tracks(t)
    <3>1. t.lost = 0 => TracksOne(t, ch)
      BY <2>2, <2>3 DEF TracksOne
    <3>2. \A c \in Chan \ {ch} : t.tuned[c] = s.tuned[c] /\ t.tvch[c] = s.tvch[c]
      BY <1>4, <2>2 DEF SameTuner
    <3> QED BY <2>3, <3>1, <3>2, TracksMoved
  <2>5. Follows(s) => Follows(t)
    BY <1>4, <2>2, <2>3 DEF Follows, SameTuner
  <2>6. Moves(s, t, ch)
    BY <1>4, <2>2, <2>3, <2>4, <2>5 DEF Moves, Keeps, SameTuner
  <2>7. RightInput(s, ch) => RightInput(t, ch)
    BY <1>4, <2>2 DEF RightInput, SameTuner
  <2> QED BY <2>1, <2>2, <2>3, <2>6, <2>7
<1>8. CASE x.ans = "none"
  <2>1. r.s = x.s /\ ~ r.ok
    BY <1>3, <1>8 DEF Fail
  <2> QED BY <2>1, <1>4, <1>6, <1>8 DEF RightInput, SameTuner
<1>9. CASE x.ans \notin {"ack", "none"}
  <2>1. PICK v \in set_amp(x.s, ch, off) : r = [s |-> v.s, ok |-> FALSE]
    BY <1>3, <1>9
  <2>2. off \in AmpInput
    BY DEF off, AmpInput, external
  <2>3. /\ Moves(x.s, v.s, ch)
        /\ v.s.amp[ch] \in {off, x.s.amp[ch]}
    BY <2>2, <1>4, SetAmp
  <2>4. RightInput(s, ch) => RightInput(v.s, ch)
    BY <2>3, <1>4 DEF RightInput, Moves, SameTuner
  <2> QED BY <2>1, <2>3, <2>4, <1>6, <1>9, MovesTrans
<1> QED BY <1>7, <1>8, <1>9

LEMMA Tune ==
  ASSUME NEW s, Good(s), NEW ch \in Chan, NEW tv \in Tv, NEW freq \in FreqRead(tv),
         s.active_ant # nc,
         NEW again \in BOOLEAN, NEW r \in tune(s, ch, tv, freq, again)
  PROVE  /\ Moves(s, r.s, ch)
         /\ Right(s, ch) => Right(r.s, ch)
         /\ r.ok => Right(r.s, ch)
         /\ r.ok => r.s.tvch[ch] = tv
<1>0. freq \in Nat
  BY FreqType
<1>1. CASE freq >= 862
  BY <1>1, MovesSelf DEF tune, Fail
<1>2. CASE ~ (freq >= 862)
  <2> DEFINE End(c) == Done([c EXCEPT !.tvch[ch] = tv, !.tuned[ch].ok = TRUE])
             Reset(b) == IF again THEN reset_demod(b) ELSE Done(b)
  <2>1. PICK a \in set_amp(s, ch, InputFor(freq, s.active_ant)) :
          r \in IF a.ok
                THEN Then(write_pll(a.s, ch, tv, freq), LAMBDA b : Then(Reset(b), End))
                ELSE {a}
    BY <1>2 DEF tune, Then
  <2>2. /\ Moves(s, a.s, ch) /\ Good(a.s)
        /\ a.s.tvch = s.tvch
        /\ a.s.amp[ch] = IF a.ok THEN InputFor(freq, s.active_ant) ELSE s.amp[ch]
    <3>1. InputFor(freq, s.active_ant) \in AmpInput
      BY <1>0, InputType DEF Good, States
    <3> QED BY <2>1, <3>1, SetAmp DEF Moves, Keeps
  <2>3. CASE ~ a.ok
    <3>1. r = a
      BY <2>1, <2>3
    <3> QED BY <3>1, <2>2, <2>3 DEF Right, Moves
  <2>4. CASE a.ok
    <3>0. RightInput(a.s, ch)
      <4>1. InputFor(freq, s.active_ant) \in InputsOf(s.active_ant)
        BY <1>0, InputIsOf DEF Good, States
      <4> QED BY <4>1, <2>2, <2>4 DEF RightInput, Moves
    <3>1. PICK b \in write_pll(a.s, ch, tv, freq) :
            r \in IF b.ok THEN Then(Reset(b.s), End) ELSE {b}
      BY <2>1, <2>4 DEF Then
    <3>2. /\ Moves(a.s, b.s, ch) /\ Good(b.s) /\ RightInput(b.s, ch)
          /\ b.ok => b.s.tuned[ch].tv = tv
          /\ b.ok /\ b.s.lost = 0 => b.s.hwFreq[ch] \in FreqRead(tv)
      BY <2>2, <3>0, <3>1, WritePll DEF Moves, Keeps
    <3>3. Moves(s, b.s, ch)
      BY <2>2, <3>2, MovesTrans
    <3>4. CASE ~ b.ok
      <4>1. r = b
        BY <3>1, <3>4
      <4> QED BY <4>1, <3>2, <3>3, <3>4, RightInputIsRight
    <3>5. CASE b.ok
      <4>1. PICK c \in Reset(b.s) : r \in IF c.ok THEN End(c.s) ELSE {c}
        BY <3>1, <3>5 DEF Then
      <4>2. Quiet(b.s, c.s)
        <5>1. CASE again
          BY <4>1, <5>1, <3>2, ResetQuiet
        <5>2. CASE ~ again
          <6>1. c.s = b.s
            BY <4>1, <5>2 DEF Done
          <6> QED BY <6>1, <3>2 DEF Quiet
        <5> QED BY <5>1, <5>2
      <4>3. /\ Moves(s, c.s, ch) /\ Good(c.s) /\ RightInput(c.s, ch)
            /\ c.s.tuned[ch].tv = tv
            /\ c.s.lost = 0 => c.s.hwFreq[ch] \in FreqRead(tv)
        <5>1. Moves(b.s, c.s, ch) /\ RightInput(c.s, ch)
          BY <4>2, <3>2, QuietMoves, QuietListens
        <5> QED BY <5>1, <4>2, <3>2, <3>3, <3>5, MovesTrans DEF Quiet
      <4>4. CASE ~ c.ok
        <5>1. r = c
          BY <4>1, <4>4
        <5> QED BY <5>1, <4>3, <4>4, RightInputIsRight
      <4>5. CASE c.ok
        <5> DEFINE t == [c.s EXCEPT !.tvch[ch] = tv, !.tuned[ch].ok = TRUE]
                   tvs == [c.s.tvch EXCEPT ![ch] = tv]
                   now == [c.s.tuned EXCEPT ![ch].ok = TRUE]
        <5>1. r.s = t
          BY <4>1, <4>5 DEF Done
        <5>2. /\ tvs \in [Chan -> Tv \cup {NoTv}] /\ tvs[ch] = tv
              /\ \A c2 \in Chan \ {ch} : tvs[c2] = c.s.tvch[c2]
              /\ now \in [Chan -> Tunings] /\ now[ch].tv = tv
              /\ \A c2 \in Chan \ {ch} : now[c2] = c.s.tuned[c2]
          <6>1. /\ c.s.tvch \in [Chan -> Tv \cup {NoTv}] /\ c.s.tuned \in [Chan -> Tunings]
                /\ c.s.tuned[ch].tv = tv
            BY <4>3 DEF Good, States
          <6>2. now[ch] = [c.s.tuned[ch] EXCEPT !.ok = TRUE]
            BY <6>1
          <6>3. now[ch] \in Tunings /\ now[ch].tv = tv
            BY <6>1, <6>2 DEF Tunings
          <6>4. now \in [Chan -> Tunings]
            BY <6>1, <6>2, <6>3
          <6> QED BY <6>1, <6>3, <6>4
        <5>3. t = [c.s EXCEPT !.tvch = tvs, !.tuned = now]
          BY <4>3 DEF Good, States
        <5> HIDE DEF t, tvs, now
        <5>4. /\ t \in States /\ Backlog(t) = Backlog(c.s) /\ t.lost = c.s.lost
              /\ t.tvch = tvs /\ t.tuned = now
          BY <5>2, <5>3, <4>3 DEF Good, States, Backlog
        <5>5. /\ t.amp = c.s.amp /\ t.hwGpio = c.s.hwGpio /\ t.opened = c.s.opened
              /\ t.inited = c.s.inited /\ t.hwFreq = c.s.hwFreq
              /\ t.active_ant = c.s.active_ant /\ t.antSet = c.s.antSet
          BY <5>3, <4>3 DEF Good, States
        <5>6. Good(t) /\ Follows(c.s) = Follows(t)
          BY <5>4, <5>5, <4>3 DEF Good, Follows
        <5>7. Tracks(c.s) => Tracks(t)
          <6>1. tv # NoTv
            BY TunerAssumption DEF Tv, NoTv
          <6>2. t.lost = 0 => TracksOne(t, ch)
            BY <6>1, <5>2, <5>4, <5>5, <4>3 DEF TracksOne
          <6> QED BY <6>2, <5>2, <5>4, <5>5, TracksMoved
        <5>8. Moves(c.s, t, ch)
          BY <5>2, <5>4, <5>5, <5>6, <5>7 DEF Moves, Keeps
        <5>9. RightInput(t, ch)
          BY <5>5, <4>3 DEF RightInput
        <5> QED BY <5>1, <5>2, <5>4, <5>6, <5>8, <5>9, <4>3, MovesTrans, RightInputIsRight
      <4> QED BY <4>4, <4>5
    <3> QED BY <3>4, <3>5
  <2> QED BY <2>3, <2>4
<1> QED BY <1>1, <1>2

LEMMA SetFreqMoves ==
  ASSUME NEW s, Good(s), NEW ch \in Chan, NEW tv \in Tv \cup {NoTv}, NEW again \in BOOLEAN,
         NEW r \in set_freq(s, ch, tv, again)
  PROVE  /\ Moves(s, r.s, ch)
         /\ Right(s, ch) => Right(r.s, ch)
         /\ r.ok => Right(r.s, ch)
         /\ r.ok /\ tv # NoTv => r.s.tvch[ch] = tv
<1>1. CASE r \in Fail(s)
  BY <1>1, MovesSelf DEF Fail
<1>2. CASE tv = NoTv /\ r \in set_amp(s, ch, off)
  <2>1. off \in AmpInput
    BY DEF off, AmpInput, external
  <2>2. /\ Moves(s, r.s, ch) /\ r.s.tvch = s.tvch
        /\ r.s.amp[ch] = IF r.ok THEN off ELSE s.amp[ch]
    BY <2>1, <1>2, SetAmp
  <2> QED BY <1>2, <2>2 DEF Right, Moves
<1>3. CASE tv \in Tv /\ s.active_ant # nc
           /\ \E freq \in FreqRead(tv) : r \in tune(s, ch, tv, freq, again)
  BY <1>3, Tune
<1>4. tv = NoTv \/ tv \in Tv
  OBVIOUS
<1> QED BY <1>1, <1>2, <1>3, <1>4 DEF set_freq

\* A channel that moves alone leaves the others listening as they did.
LEMMA MovesListens ==
  ASSUME NEW s, NEW t, NEW ch \in Chan, Moves(s, t, ch), Right(s, ch) => Right(t, ch), Listens(s)
  PROVE  Listens(t)
BY DEF Moves, Listens, Right

\* The turn of set_antenna() for a channel, when it succeeds, leaves it right.
LEMMA ApplyAntennaMoves ==
  ASSUME NEW s, Good(s), NEW ch \in Chan, NEW r \in apply_antenna(s, ch)
  PROVE  /\ Moves(s, r.s, ch)
         /\ r.ok => Right(r.s, ch)
         /\ Right(s, ch) => r = [s |-> s, ok |-> TRUE]
<1> DEFINE p == s.amp[ch]
           tai == IF p \in {vhf2, uhf2} THEN p - 1 ELSE p
           input == IF s.active_ant = ant2 THEN tai + 1 ELSE tai
<1>1. p \in AmpInput /\ s.active_ant \in Antenna /\ s.tvch[ch] \in Tv \cup {NoTv}
  BY DEF Good, States
<1>2. off \in AmpInput /\ external \in AmpInput
  BY DEF off, AmpInput, external
<1>3. ASSUME NEW state \in AmpInput, r \in set_amp(s, ch, state)
      PROVE  /\ Moves(s, r.s, ch) /\ r.s.tvch = s.tvch /\ r.s.active_ant = s.active_ant
             /\ r.ok => r.s.amp[ch] = state
             /\ state = p => r = [s |-> s, ok |-> TRUE]
  <2>1. state = p => r = [s |-> s, ok |-> TRUE]
    BY <1>3 DEF set_amp, Done
  <2> QED BY <2>1, <1>3, SetAmp DEF Moves
<1>6. p = off \/ p = external \/ p \in vhf1 .. uhf2
  BY <1>1 DEF AmpInput, off, vhf1, uhf2, external
<1>7. s.active_ant = nc \/ s.active_ant = coax \/ s.active_ant \in {ant1, ant2}
  BY <1>1 DEF Antenna, nc, coax, ant1, ant2
<1>8. off # external /\ off \notin vhf1 .. uhf2 /\ external \notin vhf1 .. uhf2
      /\ nc # coax /\ nc \notin {ant1, ant2} /\ coax \notin {ant1, ant2}
  BY DEF off, external, vhf1, uhf2, nc, coax, ant1, ant2
<1>9. CASE p = off
  <2>1. r = [s |-> s, ok |-> TRUE]
    BY <1>8, <1>9 DEF apply_antenna, Done
  <2> QED BY <2>1, <1>9, MovesSelf DEF Right
<1>10. CASE p # off /\ s.active_ant = nc
  <2>1. r \in set_amp(s, ch, off)
    BY <1>8, <1>10 DEF apply_antenna
  <2> QED BY <2>1, <1>2, <1>3, <1>10 DEF Right
<1>11. CASE p # off /\ s.active_ant = coax
  <2>1. r \in set_amp(s, ch, external)
    BY <1>8, <1>11 DEF apply_antenna
  <2>2. external \in InputsOf(coax)
    BY DEF InputsOf, coax, ant1, ant2
  <2> QED BY <2>1, <2>2, <1>2, <1>3, <1>8, <1>11 DEF Right
<1>12. CASE p = external /\ s.active_ant \in {ant1, ant2}
  <2>1. r \in set_freq(s, ch, s.tvch[ch], TRUE)
    BY <1>8, <1>12 DEF apply_antenna
  <2>2. ~ Right(s, ch)
    BY <1>8, <1>12 DEF Right
  <2> QED BY <2>1, <2>2, <1>1, SetFreqMoves
<1>13. CASE p \in vhf1 .. uhf2 /\ s.active_ant \in {ant1, ant2}
  <2>0. r \in IF s.tvch[ch] \notin Tv THEN Done(s) ELSE set_amp(s, ch, input)
    BY <1>8, <1>13 DEF apply_antenna
  <2>1. CASE s.tvch[ch] \notin Tv
    <3>1. r = [s |-> s, ok |-> TRUE]
      BY <2>0, <2>1 DEF Done
    <3> QED BY <3>1, <2>1, <1>8, <1>13, MovesSelf DEF Right
  <2>2. CASE s.tvch[ch] \in Tv
    <3>1. /\ input \in AmpInput /\ input # external
          /\ input \in InputsOf(s.active_ant)
          /\ p \in InputsOf(s.active_ant) => input = p
      BY <1>13 DEF AmpInput, InputsOf, off, vhf1, vhf2, uhf1, uhf2, external, ant1, ant2, coax
    <3> HIDE DEF input
    <3>2. r \in set_amp(s, ch, input)
      BY <2>0, <2>2
    <3>3. r.ok => Right(r.s, ch)
      BY <3>1, <3>2, <1>3, <1>8, <1>13 DEF Right
    <3>4. Right(s, ch) => input = p
      BY <3>1, <2>2, <1>8, <1>13 DEF Right
    <3> QED BY <3>1, <3>2, <3>3, <3>4, <1>3
  <2> QED BY <2>1, <2>2
<1> QED BY <1>6, <1>7, <1>9, <1>10, <1>11, <1>12, <1>13

\* set_antenna() leaves every channel right, or antSet FALSE; and it changes
\* nothing when they are right already.
LEMMA SetAntennaKeeps ==
  ASSUME NEW s, Good(s), NEW ant \in Antenna, NEW r \in set_antenna(s, ant)
  PROVE  /\ Keeps(s, r.s)
         /\ Listens(r.s)
         /\ r.s.active_ant = ant
         /\ Listens(s) /\ s.antSet /\ s.active_ant = ant =>
              /\ r.s.amp = s.amp /\ r.s.tvch = s.tvch
              /\ r.s.hwFreq = s.hwFreq /\ r.s.hwGpio = s.hwGpio
<1> DEFINE s0 == [s EXCEPT !.active_ant = ant, !.antSet = FALSE]
           End(b) == Done([b EXCEPT !.antSet = TRUE])
           Idle == Listens(s) /\ s.antSet /\ s.active_ant = ant
<1>1. /\ Keeps(s, s0) /\ Good(s0) /\ s0.active_ant = ant /\ s0.antSet = FALSE
      /\ s0.amp = s.amp /\ s0.tvch = s.tvch /\ s0.hwFreq = s.hwFreq /\ s0.hwGpio = s.hwGpio
  <2>1. s0 \in States /\ Backlog(s0) = Backlog(s) /\ s0.lost = s.lost
    BY DEF Good, States, Backlog
  <2>2. /\ s0.amp = s.amp /\ s0.hwGpio = s.hwGpio /\ s0.opened = s.opened
        /\ s0.inited = s.inited
    BY DEF Good, States
  <2>3. /\ s0.tvch = s.tvch /\ s0.hwFreq = s.hwFreq /\ s0.tuned = s.tuned
        /\ s0.active_ant = ant /\ s0.antSet = FALSE
    BY DEF Good, States
  <2> HIDE DEF s0
  <2> QED BY <2>1, <2>2, <2>3 DEF Good, Keeps, Follows, Tracks, TracksOne
<1>2. PICK a \in apply_antenna(s0, 0) :
        r \in IF a.ok THEN Then(apply_antenna(a.s, 1), End) ELSE {a}
  BY DEF set_antenna, Then
<1> HIDE DEF s0
<1>3. 0 \in Chan /\ 1 \in Chan /\ Chan = {0, 1}
  BY DEF Chan, NUM_CHANNELS
<1>4. Idle => \A ch \in Chan : Right(s0, ch)
  BY <1>1 DEF Listens, Right
<1>5. /\ Moves(s0, a.s, 0) /\ Good(a.s)
      /\ a.ok => Right(a.s, 0)
      /\ Idle => a = [s |-> s0, ok |-> TRUE]
  BY <1>1, <1>2, <1>3, <1>4, ApplyAntennaMoves DEF Moves, Keeps
<1>6. CASE ~ a.ok
  <2>1. r = a /\ ~ Idle
    BY <1>2, <1>5, <1>6
  <2> QED BY <2>1, <1>1, <1>5, KeepsTrans DEF Moves, Listens
<1>7. CASE a.ok
  <2>1. PICK b \in apply_antenna(a.s, 1) : r \in IF b.ok THEN End(b.s) ELSE {b}
    BY <1>2, <1>7 DEF Then
  <2>2. /\ Moves(a.s, b.s, 1) /\ Good(b.s)
        /\ b.ok => Right(b.s, 1)
        /\ Idle => b = [s |-> s0, ok |-> TRUE]
    <3>1. Idle => Right(a.s, 1)
      BY <1>3, <1>5, <1>4
    <3>2. Idle => a.s = s0
      BY <1>5
    <3>3. /\ Moves(a.s, b.s, 1)
          /\ b.ok => Right(b.s, 1)
          /\ Right(a.s, 1) => b = [s |-> a.s, ok |-> TRUE]
      BY <1>3, <1>5, <2>1, ApplyAntennaMoves
    <3> QED BY <3>1, <3>2, <3>3 DEF Moves, Keeps
  <2>3. Keeps(s, b.s) /\ b.s.active_ant = ant /\ b.s.antSet = FALSE
    <3>1. Keeps(s, a.s)
      BY <1>1, <1>5, KeepsTrans DEF Moves
    <3> QED BY <3>1, <1>1, <1>5, <2>2, KeepsTrans DEF Moves
  <2>4. CASE ~ b.ok
    <3>1. r = b /\ ~ Idle
      BY <2>1, <2>2, <2>4
    <3> QED BY <3>1, <2>3 DEF Listens
  <2>5. CASE b.ok
    <3> DEFINE t == [b.s EXCEPT !.antSet = TRUE]
    <3>1. r.s = t
      BY <2>1, <2>5 DEF Done
    <3>2. t \in States /\ Backlog(t) = Backlog(b.s) /\ t.lost = b.s.lost
      BY <2>2 DEF Good, States, Backlog
    <3>3. /\ t.amp = b.s.amp /\ t.hwGpio = b.s.hwGpio /\ t.opened = b.s.opened
          /\ t.inited = b.s.inited
      BY <2>2 DEF Good, States
    <3>4. /\ t.tvch = b.s.tvch /\ t.hwFreq = b.s.hwFreq /\ t.tuned = b.s.tuned
          /\ t.active_ant = b.s.active_ant
      BY <2>2 DEF Good, States
    <3> HIDE DEF t
    <3>5. Keeps(b.s, t)
      BY <3>2, <3>3, <3>4, <2>2 DEF Good, Keeps, Follows, Tracks, TracksOne
    <3>6. Keeps(s, t)
      BY <3>5, <2>3, KeepsTrans
    <3>7. Right(b.s, 0) /\ Right(b.s, 1)
      <4>1. Right(a.s, 0) => Right(b.s, 0)
        BY <1>3, <2>2 DEF Moves, Right
      <4> QED BY <4>1, <1>5, <1>7, <2>2, <2>5
    <3>8. Listens(t)
      BY <1>3, <3>3, <3>4, <3>7 DEF Listens, Right
    <3>9. Idle => b.s = s0
      BY <2>2
    <3> QED BY <3>1, <3>3, <3>4, <3>6, <3>8, <3>9, <2>3, <1>1
  <2> QED BY <2>4, <2>5
<1> QED BY <1>6, <1>7

LEMMA SetModulationQuiet ==
  ASSUME NEW s, Good(s), NEW r \in set_modulation(s)
  PROVE  Quiet(s, r.s)
<1> DEFINE F(f) == Then(reset_demod(f), MayFail)
           E(e) == Then(Modify(e), F)
           D(d) == Then(reset_demod(d), E)
           C(c) == Then(Ask(c, Put), D)
           B(b) == Then(Modify(b), C)
           A(a) == Then(Modify(a), B)
<1>0. PICK y \in Modify(s) : r \in IF y.ok THEN A(y.s) ELSE {y}
  BY DEF set_modulation, Then
<1>1. ASSUME NEW f, Good(f), NEW x \in F(f) PROVE Quiet(f, x.s)
  <2>1. PICK z \in reset_demod(f) : x \in IF z.ok THEN MayFail(z.s) ELSE {z}
    BY <1>1 DEF Then
  <2>2. x = z \/ x = [s |-> z.s, ok |-> TRUE] \/ x = [s |-> z.s, ok |-> FALSE]
    BY <2>1 DEF MayFail, Done, Fail
  <2>3. Quiet(f, z.s)
    BY <1>1, <2>1, ResetQuiet
  <2> QED BY <2>2, <2>3
<1> HIDE DEF F
<1>2. ASSUME NEW e, Good(e), NEW x \in E(e) PROVE Quiet(e, x.s)
  <2>1. PICK z \in Modify(e) : x \in IF z.ok THEN F(z.s) ELSE {z}
    BY <1>2 DEF Then
  <2> HIDE DEF E
  <2>2. Quiet(e, z.s)
    BY <1>2, <2>1, ModifyQuiet
  <2>3. Good(z.s)
    BY <2>2 DEF Quiet
  <2>4. CASE z.ok
    <3>1. Quiet(z.s, x.s)
      BY <1>1, <2>1, <2>3, <2>4
    <3> QED BY <2>2, <3>1, QuietTrans
  <2>5. CASE ~ z.ok
    <3>1. x = z
      BY <2>1, <2>5
    <3> QED BY <2>2, <3>1
  <2> QED BY <2>4, <2>5
<1> HIDE DEF E
<1>3. ASSUME NEW d, Good(d), NEW x \in D(d) PROVE Quiet(d, x.s)
  <2>1. PICK z \in reset_demod(d) : x \in IF z.ok THEN E(z.s) ELSE {z}
    BY <1>3 DEF Then
  <2> HIDE DEF D
  <2>2. Quiet(d, z.s)
    BY <1>3, <2>1, ResetQuiet
  <2>3. Good(z.s)
    BY <2>2 DEF Quiet
  <2>4. CASE z.ok
    <3>1. Quiet(z.s, x.s)
      BY <1>2, <2>1, <2>3, <2>4
    <3> QED BY <2>2, <3>1, QuietTrans
  <2>5. CASE ~ z.ok
    <3>1. x = z
      BY <2>1, <2>5
    <3> QED BY <2>2, <3>1
  <2> QED BY <2>4, <2>5
<1> HIDE DEF D
<1>4. ASSUME NEW c, Good(c), NEW x \in C(c) PROVE Quiet(c, x.s)
  <2>1. PICK z \in Ask(c, Put) : x \in IF z.ok THEN D(z.s) ELSE {z}
    BY <1>4 DEF Then
  <2> HIDE DEF C
  <2>2. Quiet(c, z.s)
    BY <1>4, <2>1, AskQuiet
  <2>3. Good(z.s)
    BY <2>2 DEF Quiet
  <2>4. CASE z.ok
    <3>1. Quiet(z.s, x.s)
      BY <1>3, <2>1, <2>3, <2>4
    <3> QED BY <2>2, <3>1, QuietTrans
  <2>5. CASE ~ z.ok
    <3>1. x = z
      BY <2>1, <2>5
    <3> QED BY <2>2, <3>1
  <2> QED BY <2>4, <2>5
<1> HIDE DEF C
<1>5. ASSUME NEW b, Good(b), NEW x \in B(b) PROVE Quiet(b, x.s)
  <2>1. PICK z \in Modify(b) : x \in IF z.ok THEN C(z.s) ELSE {z}
    BY <1>5 DEF Then
  <2> HIDE DEF B
  <2>2. Quiet(b, z.s)
    BY <1>5, <2>1, ModifyQuiet
  <2>3. Good(z.s)
    BY <2>2 DEF Quiet
  <2>4. CASE z.ok
    <3>1. Quiet(z.s, x.s)
      BY <1>4, <2>1, <2>3, <2>4
    <3> QED BY <2>2, <3>1, QuietTrans
  <2>5. CASE ~ z.ok
    <3>1. x = z
      BY <2>1, <2>5
    <3> QED BY <2>2, <3>1
  <2> QED BY <2>4, <2>5
<1> HIDE DEF B
<1>6. ASSUME NEW a, Good(a), NEW x \in A(a) PROVE Quiet(a, x.s)
  <2>1. PICK z \in Modify(a) : x \in IF z.ok THEN B(z.s) ELSE {z}
    BY <1>6 DEF Then
  <2> HIDE DEF A
  <2>2. Quiet(a, z.s)
    BY <1>6, <2>1, ModifyQuiet
  <2>3. Good(z.s)
    BY <2>2 DEF Quiet
  <2>4. CASE z.ok
    <3>1. Quiet(z.s, x.s)
      BY <1>5, <2>1, <2>3, <2>4
    <3> QED BY <2>2, <3>1, QuietTrans
  <2>5. CASE ~ z.ok
    <3>1. x = z
      BY <2>1, <2>5
    <3> QED BY <2>2, <3>1
  <2> QED BY <2>4, <2>5
<1> HIDE DEF A
<1>7. Quiet(s, y.s)
  BY <1>0, ModifyQuiet
<1>8. CASE y.ok
  <2>1. Quiet(y.s, r.s)
    BY <1>0, <1>6, <1>7, <1>8 DEF Quiet
  <2> QED BY <1>7, <2>1, QuietTrans
<1>9. CASE ~ y.ok
  BY <1>0, <1>7, <1>9
<1> QED BY <1>8, <1>9
-----------------------------------------------------------------------------
(* open(), init() and close() *)

\* The inductive invariant, of a state: a closed connection holds nothing, and
\* since the last init() that returned 0 the device follows the record, and each
\* channel listens to the active antenna.
Inv(s) ==
  /\ Good(s)
  /\ ~ s.opened => s.requests = <<>> /\ s.answers = <<>> /\ ~ s.inited
  /\ s.inited => Follows(s) /\ Listens(s)
  /\ Tracks(s)

LEMMA InvKeeps ==
  ASSUME NEW s, NEW t, Inv(s), s.opened, Keeps(s, t), Listens(s) => Listens(t)
  PROVE  Inv(t)
BY DEF Inv, Keeps

LEMMA InvQuiet ==
  ASSUME NEW s, NEW t, Inv(s), s.opened, Quiet(s, t)
  PROVE  Inv(t)
BY QuietKeeps, QuietListens, InvKeeps

\* Whatever the record and the device held, the device follows once
\* init_channel() has returned 0: the faked input makes set_amp() write.
LEMMA InitChannel ==
  ASSUME NEW s, Good(s), NEW ch \in Chan, NEW r \in init_channel(s, ch)
  PROVE  /\ Good(r.s) /\ r.s.opened = s.opened /\ r.s.inited = s.inited
         /\ r.ok => Follows(r.s) /\ r.s.amp[ch] = off
         /\ Tracks(s) => Tracks(r.s)
         /\ \A c \in Chan \ {ch} : r.s.amp[c] = s.amp[c]
<1> DEFINE new == [s.amp EXCEPT ![ch] = vhf1]
           s0 == [s EXCEPT !.amp[ch] = vhf1]
<1>1. vhf1 \in AmpInput /\ off \in AmpInput /\ off # vhf1
  BY DEF vhf1, off, AmpInput, external
<1>2. /\ new \in [Chan -> AmpInput] /\ new[ch] = vhf1
      /\ \A c \in Chan \ {ch} : new[c] = s.amp[c]
  BY <1>1 DEF Good, States
<1>3. s0 = [s EXCEPT !.amp = new]
  BY DEF Good, States
<1>4. PICK a \in set_amp(s0, ch, off) : r \in IF a.ok THEN set_modulation(a.s) ELSE {a}
  BY DEF init_channel, Then
<1> HIDE DEF s0, new
<1>5. s0 \in States /\ Backlog(s0) = Backlog(s) /\ s0.lost = s.lost
  BY <1>2, <1>3 DEF Good, States, Backlog
<1>6. /\ s0.amp = new /\ s0.opened = s.opened /\ s0.inited = s.inited
      /\ s0.tvch = s.tvch /\ s0.tuned = s.tuned /\ s0.hwFreq = s.hwFreq
  BY <1>3 DEF Good, States
<1>7. Good(s0) /\ (Tracks(s) => Tracks(s0))
  BY <1>5, <1>6 DEF Good, Tracks, TracksOne
<1>8. /\ Moves(s0, a.s, ch)
      /\ a.ok => Follows(a.s) /\ a.s.amp[ch] = off
  BY <1>1, <1>2, <1>4, <1>6, <1>7, SetAmp
<1>9. /\ Good(a.s) /\ a.s.opened = s.opened /\ a.s.inited = s.inited
      /\ Tracks(s) => Tracks(a.s)
      /\ \A c \in Chan \ {ch} : a.s.amp[c] = s.amp[c]
  BY <1>2, <1>6, <1>7, <1>8 DEF Moves, Keeps
<1>10. CASE ~ a.ok
  <2>1. r = a
    BY <1>4, <1>10
  <2> QED BY <2>1, <1>9, <1>10
<1>11. CASE a.ok
  <2>1. Quiet(a.s, r.s)
    BY <1>4, <1>9, <1>11, SetModulationQuiet
  <2>2. Keeps(a.s, r.s)
    BY <2>1, QuietKeeps
  <2> QED BY <2>1, <2>2, <1>8, <1>9, <1>11 DEF Quiet, Keeps
<1> QED BY <1>10, <1>11

LEMMA GetStrQuiet ==
  ASSUME NEW s, Good(s), NEW r \in get_str(s)
  PROVE  Quiet(s, r.s)
<1>1. PICK x \in write_then_read(s, GetN) : r.s = x.s
  BY DEF get_str
<1>2. GetN \in Requests /\ GetN.op # "gpio" /\ GetN.op # "pll"
  BY PlainRequests
<1>3. /\ Good(x.s) /\ SameTuner(s, x.s)
      /\ x.s.lost = 0 => s.lost = 0 /\ x.s.hwGpio = s.hwGpio /\ x.s.hwFreq = s.hwFreq
  BY <1>2, WriteThenRead DEF Tuned
<1> QED BY <1>1, <1>3 DEF Quiet, SameTuner

LEMMA InitFollows ==
  ASSUME NEW s, Good(s), ~ s.inited, NEW r \in init(s)
  PROVE  /\ Good(r.s) /\ r.s.opened = s.opened
         /\ r.s.inited => Follows(r.s) /\ Listens(r.s)
         /\ Tracks(s) => Tracks(r.s)
<1> DEFINE End(d) == Done([d EXCEPT !.inited = TRUE])
           C(c) == Then(init_channel(c, 1), End)
           B(b) == Then(init_channel(b, 0), C)
           A(a) == Then(MayFail(a), B)
           Ready(t) == /\ Good(t) /\ t.opened = s.opened /\ ~ t.inited
                       /\ Tracks(s) => Tracks(t)
<1>0. 0 \in Chan /\ 1 \in Chan /\ Chan = {0, 1}
  BY DEF Chan, NUM_CHANNELS
<1>1. PICK a \in get_str(s) : r \in IF a.ok THEN A(a.s) ELSE {a}
  BY DEF init, Then
<1>2. Ready(a.s)
  <2>1. Quiet(s, a.s)
    BY <1>1, GetStrQuiet
  <2> QED BY <2>1, QuietKeeps DEF Quiet, Keeps
<1>3. CASE ~ a.ok
  BY <1>1, <1>2, <1>3
<1>4. CASE a.ok
  <2>1. PICK b \in MayFail(a.s) : r \in IF b.ok THEN B(b.s) ELSE {b}
    BY <1>1, <1>4 DEF Then
  <2>2. b.s = a.s
    <3>1. b = [s |-> a.s, ok |-> TRUE] \/ b = [s |-> a.s, ok |-> FALSE]
      BY <2>1 DEF MayFail, Done, Fail
    <3> QED BY <3>1
  <2>3. CASE ~ b.ok
    BY <2>1, <2>2, <2>3, <1>2
  <2>4. CASE b.ok
    <3>1. PICK c \in init_channel(b.s, 0) : r \in IF c.ok THEN C(c.s) ELSE {c}
      BY <2>1, <2>4 DEF Then
    <3>2. Ready(c.s) /\ (c.ok => c.s.amp[0] = off)
      BY <3>1, <2>2, <1>0, <1>2, InitChannel
    <3>3. CASE ~ c.ok
      BY <3>1, <3>2, <3>3
    <3>4. CASE c.ok
      <4>1. PICK d \in init_channel(c.s, 1) : r \in IF d.ok THEN End(d.s) ELSE {d}
        BY <3>1, <3>4 DEF Then
      <4>2. /\ Ready(d.s)
            /\ d.ok => Follows(d.s) /\ d.s.amp[1] = off /\ d.s.amp[0] = off
        <5>1. 0 \in Chan \ {1}
          BY <1>0
        <5>2. /\ Good(d.s) /\ d.s.opened = c.s.opened /\ d.s.inited = c.s.inited
              /\ d.ok => Follows(d.s) /\ d.s.amp[1] = off
              /\ Tracks(c.s) => Tracks(d.s)
              /\ d.s.amp[0] = c.s.amp[0]
          BY <4>1, <3>2, <1>0, <5>1, InitChannel
        <5> QED BY <5>2, <3>2, <3>4
      <4>3. CASE ~ d.ok
        BY <4>1, <4>2, <4>3
      <4>4. CASE d.ok
        <5> DEFINE t == [d.s EXCEPT !.inited = TRUE]
        <5>1. r.s = t
          BY <4>1, <4>4 DEF Done
        <5>2. t \in States /\ Backlog(t) = Backlog(d.s) /\ t.lost = d.s.lost
          BY <4>2 DEF Good, States, Backlog
        <5>3. t.amp = d.s.amp /\ t.hwGpio = d.s.hwGpio /\ t.opened = d.s.opened
              /\ t.tvch = d.s.tvch /\ t.tuned = d.s.tuned /\ t.hwFreq = d.s.hwFreq
          BY <4>2 DEF Good, States
        <5> HIDE DEF t
        <5>4. Listens(t)
          BY <1>0, <5>3, <4>2, <4>4 DEF Listens, Right
        <5>5. Tracks(d.s) => Tracks(t)
          BY <5>2, <5>3 DEF Tracks, TracksOne
        <5> QED BY <5>1, <5>2, <5>3, <5>4, <5>5, <4>2, <4>4 DEF Good, Follows
      <4> QED BY <4>3, <4>4
    <3> QED BY <3>3, <3>4
  <2> QED BY <2>3, <2>4
<1> QED BY <1>3, <1>4

LEMMA OpenInv ==
  ASSUME NEW s, Inv(s), ~ s.opened, NEW r \in Then(open(s), init)
  PROVE  Inv(r.s)
<1> DEFINE s0 == [s EXCEPT !.opened = TRUE, !.lost = 0, !.tuned = [ch \in Chan |-> Untuned]]
<1>1. PICK a \in open(s) : r \in IF a.ok THEN init(a.s) ELSE {a}
  BY DEF Then
<1>2. a = [s |-> s, ok |-> FALSE] \/ a = [s |-> s0, ok |-> TRUE]
  BY <1>1 DEF open, Done, Fail
<1>3. CASE a = [s |-> s, ok |-> FALSE]
  BY <1>1, <1>3
<1>4. CASE a = [s |-> s0, ok |-> TRUE]
  <2>1. s \in States /\ s.requests = <<>> /\ s.answers = <<>> /\ ~ s.inited
    BY DEF Inv, Good
  <2>2. /\ s0 \in States /\ s0.lost = 0 /\ s0.requests = <<>> /\ s0.answers = <<>>
        /\ s0.opened /\ ~ s0.inited /\ Tracks(s0)
    <3>1. 0 \in 0 .. MaxLost /\ [ch \in Chan |-> Untuned] \in [Chan -> Tunings]
      BY TunerAssumption DEF Untuned, Tunings
    <3>2. s0.tuned = [ch \in Chan |-> Untuned]
      BY <2>1 DEF States
    <3> QED BY <2>1, <3>1, <3>2 DEF States, Tracks, TracksOne, Untuned
  <2>3. r \in init(s0)
    BY <1>1, <1>4
  <2> HIDE DEF s0
  <2>4. Good(s0)
    BY <2>2 DEF Good, Backlog
  <2>5. /\ Good(r.s) /\ r.s.opened = s0.opened
        /\ r.s.inited => Follows(r.s) /\ Listens(r.s)
        /\ Tracks(r.s)
    BY <2>2, <2>3, <2>4, InitFollows
  <2> QED BY <2>2, <2>5 DEF Inv
<1> QED BY <1>2, <1>3, <1>4

LEMMA ServedType ==
  ASSUME NEW s \in States, NEW d \in Served(s)
  PROVE  d \in States /\ Backlog(d) = Backlog(s) /\ SameTuner(s, d) /\ d.lost = s.lost
<1>1. PICK n \in 0 .. Len(s.requests) : d \in {Serve(s, n, done) : done \in SUBSET (1 .. n)}
  BY DEF Served
<1>2. PICK done \in SUBSET (1 .. n) : d = Serve(s, n, done)
  BY <1>1
<1> QED BY <1>2, ServeType

-----------------------------------------------------------------------------
(* The remaining calls, and the device *)

LEMMA GetMseQuiet ==
  ASSUME NEW s, Good(s), NEW r \in get_mse(s)
  PROVE  Quiet(s, r.s)
<1> DEFINE B(b) == Ask(b, GetN)
           A(a) == Done(a) \cup Then(Ask(a, Get), B)
<1>1. PICK a \in Ask(s, Get) : r \in IF a.ok THEN A(a.s) ELSE {a}
  BY DEF get_mse, Then
<1>2. Quiet(s, a.s)
  BY <1>1, AskQuiet
<1>3. CASE r \in {a, [s |-> a.s, ok |-> TRUE]}
  BY <1>2, <1>3
<1>4. CASE r \in Then(Ask(a.s, Get), B)
  <2>1. PICK b \in Ask(a.s, Get) : r \in IF b.ok THEN B(b.s) ELSE {b}
    BY <1>4 DEF Then
  <2>2. Quiet(s, b.s)
    BY <2>1, <1>2, AskQuiet, QuietTrans DEF Quiet
  <2> QED BY <2>1, <2>2, AskQuiet, QuietTrans DEF Quiet
<1> QED BY <1>1, <1>3, <1>4 DEF Done

LEMMA StartTsQuiet ==
  ASSUME NEW s, Good(s), NEW ch \in Chan, NEW r \in start_ts(s, ch)
  PROVE  Quiet(s, r.s)
<1>1. PICK a \in IF ch = 0 THEN Done(s) ELSE Ask(s, Put) :
        r \in IF a.ok THEN Ask(a.s, Put) ELSE {a}
  BY DEF start_ts, Then
<1>2. Quiet(s, a.s)
  <2>1. CASE ch = 0
    <3>1. a = [s |-> s, ok |-> TRUE]
      BY <1>1, <2>1 DEF Done
    <3> QED BY <3>1 DEF Quiet
  <2>2. CASE ch # 0
    BY <1>1, <2>2, AskQuiet
  <2> QED BY <2>1, <2>2
<1> QED BY <1>1, <1>2, AskQuiet, QuietTrans DEF Quiet

LEMMA StopTsQuiet ==
  ASSUME NEW s, Good(s), NEW r \in stop_ts(s)
  PROVE  Quiet(s, r.s)
BY AskQuiet DEF stop_ts

\* With no answer missed the device has nothing to catch up with.
LEMMA ServedQuiet ==
  ASSUME NEW s, Good(s), NEW d \in Served(s)
  PROVE  Quiet(s, d)
<1>1. s \in States /\ Backlog(s) <= s.lost /\ Backlog(s) \in Nat
  BY BacklogNat DEF Good
<1>2. d \in States /\ Backlog(d) = Backlog(s) /\ SameTuner(s, d) /\ d.lost = s.lost
  BY <1>1, ServedType
<1>3. ASSUME s.lost = 0 PROVE d.hwGpio = s.hwGpio
  <2>1. s.requests = <<>>
    BY <1>1, <1>3, BacklogNat
  <2>2. PICK n \in 0 .. Len(s.requests) : d \in {Serve(s, n, done) : done \in SUBSET (1 .. n)}
    BY DEF Served
  <2>3. PICK done \in SUBSET (1 .. n) : d = Serve(s, n, done)
    BY <2>2
  <2>4. n = 0
    BY <2>1
  <2>5. done = {}
    BY <2>4
  <2>6. {p \in done : s.requests[p].op = "gpio"} = {}
    BY <2>5
  <2>7. Serve(s, n, done).hwGpio =
          IF {p \in done : s.requests[p].op = "gpio"} = {} THEN s.hwGpio
          ELSE s.requests[Newest({p \in done : s.requests[p].op = "gpio"})].word
    BY <1>1 DEF Serve, States
  <2> QED BY <2>3, <2>6, <2>7
<1>4. ASSUME s.lost = 0 PROVE d.hwFreq = s.hwFreq
  <2>1. s.requests = <<>>
    BY <1>1, <1>4, BacklogNat
  <2>2. PICK n \in 0 .. Len(s.requests) : d \in {Serve(s, n, done) : done \in SUBSET (1 .. n)}
    BY DEF Served
  <2>3. PICK done \in SUBSET (1 .. n) : d = Serve(s, n, done)
    BY <2>2
  <2>4. n = 0
    BY <2>1
  <2>5. done = {}
    BY <2>4
  <2> DEFINE pll(ch) == {p \in done : s.requests[p].op = "pll" /\ s.requests[p].ch = ch}
  <2>6. \A ch \in Chan : pll(ch) = {}
    BY <2>5
  <2>7. Serve(s, n, done).hwFreq =
          [ch \in Chan |-> IF pll(ch) = {} THEN s.hwFreq[ch]
                           ELSE s.requests[Newest(pll(ch))].freq]
    BY <1>1 DEF Serve, States
  <2>8. s.hwFreq \in [Chan -> Nat]
    BY <1>1 DEF States
  <2> HIDE DEF pll
  <2> QED BY <2>3, <2>6, <2>7, <2>8
<1>5. Good(d)
  BY <1>1, <1>2 DEF Good
<1>6. Quiet(s, d)
  BY <1>2, <1>3, <1>4, <1>5 DEF Quiet, SameTuner
<1> QED BY <1>6

LEMMA CloseInv ==
  ASSUME NEW s, Inv(s), NEW c \in close(s)
  PROVE  Inv(c.s) /\ ~ c.s.inited
<1> DEFINE Closed(d) == [d EXCEPT !.opened = FALSE, !.inited = FALSE,
                                  !.requests = <<>>, !.answers = <<>>]
<1>0. c \in {[s |-> Closed(d), ok |-> TRUE] : d \in UNION {Served(r.s) : r \in set_antenna(s, nc)}}
  BY DEF close
<1>1. PICK d \in UNION {Served(r.s) : r \in set_antenna(s, nc)} : c = [s |-> Closed(d), ok |-> TRUE]
  BY <1>0
<1>2. PICK r \in set_antenna(s, nc) : d \in Served(r.s)
  BY <1>1
<1>3. nc \in Antenna
  BY DEF nc, Antenna, coax
<1>4. Keeps(s, r.s) /\ Good(r.s)
  BY <1>2, <1>3, SetAntennaKeeps DEF Inv, Keeps
<1>5. Quiet(r.s, d)
  BY <1>2, <1>4, ServedQuiet
<1>6. d \in States /\ Tracks(d)
  BY <1>4, <1>5, QuietKeeps DEF Inv, Keeps, Good
<1>7. /\ c.s \in States /\ c.s.requests = <<>> /\ c.s.answers = <<>>
      /\ c.s.opened = FALSE /\ c.s.inited = FALSE
  BY <1>1, <1>6, EmptySeq DEF States
<1>8. /\ c.s.lost = d.lost /\ c.s.tuned = d.tuned
      /\ c.s.tvch = d.tvch /\ c.s.hwFreq = d.hwFreq
  BY <1>1, <1>6 DEF States
<1>9. c.s.lost \in Nat
  BY <1>7, BacklogNat
<1> QED BY <1>6, <1>7, <1>8, <1>9 DEF Inv, Good, Backlog, Tracks, TracksOne

-----------------------------------------------------------------------------
(* The inductive invariant *)

IInv == Inv(State)

\* A step to t: the same state, less the history of what was tuned to once an
\* answer was missed.
LEMMA BecomeState ==
  ASSUME NEW t \in States, Become(t)
  PROVE  /\ State' \in States
         /\ SameButTuned(t, State')
         /\ t.lost = 0 => State'.tuned = t.tuned
<1>1. [ch \in Chan |-> Untuned] \in [Chan -> Tunings]
  BY DEF Untuned, Tunings
<1> QED BY <1>1 DEF Become, State, States, SameButTuned

LEMMA BecomeIInv ==
  ASSUME NEW t, Inv(t), Become(t)
  PROVE  IInv'
<1> DEFINE u == State'
<1>1. /\ u \in States /\ SameButTuned(t, u) /\ (t.lost = 0 => u.tuned = t.tuned)
  BY BecomeState DEF Inv, Good
<1> HIDE DEF u
<1>2. Good(u)
  BY <1>1 DEF Inv, Good, Backlog, SameButTuned
<1>3. Inv(u)
  BY <1>1, <1>2 DEF Inv, Follows, Listens, Right, Tracks, TracksOne, SameButTuned
<1> QED BY <1>3 DEF IInv, u

LEMMA InitIInv == Init => IInv
<1> SUFFICES ASSUME Init PROVE IInv
  OBVIOUS
<1>1. opened = FALSE /\ active_ant = nc /\ requests = <<>> /\ answers = <<>> /\ lost = 0
      /\ inited = FALSE /\ antSet = FALSE /\ tuned = [ch \in Chan |-> Untuned]
  BY DEF Init
<1>2. nc \in Antenna /\ lost \in 0 .. MaxLost
  BY <1>1, TunerAssumption DEF nc, Antenna, coax
<1>3. amp \in [Chan -> AmpInput] /\ tvch \in [Chan -> Tv \cup {NoTv}]
  BY DEF Init, AmpInput, off, external
<1>4. hwGpio \in Words
  BY DEF Init, Words
<1>5. hwFreq \in [Chan -> Nat] /\ tuned \in [Chan -> Tunings]
  BY DEF Init, Untuned, Tunings
<1>6. State \in States
  BY <1>1, <1>2, <1>3, <1>4, <1>5, EmptySeq DEF State, States
<1>7. State.requests = <<>> /\ State.answers = <<>> /\ State.lost = 0 /\ State.inited = FALSE
  BY <1>1 DEF State
<1>8. Tracks(State)
  BY <1>1 DEF State, Tracks, TracksOne, Untuned
<1> QED BY <1>6, <1>7, <1>8 DEF IInv, Inv, Good, Backlog

\* A step to a state with the invariant keeps it.
LEMMA ReturnIInv ==
  ASSUME NEW results, Return(results), \A r \in results : Inv(r.s)
  PROVE  IInv'
<1>1. PICK r \in results : Become(r.s)
  BY DEF Return
<1> QED BY <1>1, BecomeIInv

LEMMA NextIInv == IInv /\ [Next]_vars => IInv'
<1> SUFFICES ASSUME IInv, [Next]_vars PROVE IInv'
  OBVIOUS
<1>1. Inv(State) /\ Good(State)
  BY DEF IInv, Inv
<1>2. State.opened = opened /\ State.inited = inited
  BY DEF State
<1>3. inited => opened
  BY <1>1, <1>2 DEF Inv
<1>4. CASE Open
  BY <1>1, <1>2, <1>4, OpenInv, ReturnIInv DEF Open
<1>5. CASE Close
  BY <1>1, <1>5, CloseInv, ReturnIInv DEF Close
<1>6. ASSUME NEW ant \in AskedAntenna, SetAntenna(ant) PROVE IInv'
  <2>1. ant \in Antenna
    BY TunerAssumption DEF Antenna, nc, coax
  <2> QED BY <2>1, <1>1, <1>2, <1>3, <1>6, SetAntennaKeeps, InvKeeps, ReturnIInv DEF SetAntenna
<1>7. ASSUME NEW ch \in Chan, NEW again \in BOOLEAN, NEW tv \in Asked[ch] \cup {NoTv},
             SetFreq(ch, tv, again)
      PROVE  IInv'
  <2>1. tv \in Tv \cup {NoTv}
    BY TunerAssumption DEF Tv, Chan, NUM_CHANNELS
  <2>2. ASSUME NEW r \in set_freq(State, ch, tv, again) PROVE Inv(r.s)
    <3>1. Moves(State, r.s, ch) /\ (Right(State, ch) => Right(r.s, ch))
      BY <2>1, <1>1, SetFreqMoves
    <3> QED BY <3>1, <1>1, <1>2, <1>3, <1>7, MovesListens, InvKeeps DEF SetFreq, Moves
  <2> QED BY <2>2, <1>7, ReturnIInv DEF SetFreq
<1>8. CASE GetMse
  BY <1>1, <1>2, <1>3, <1>8, GetMseQuiet, InvQuiet, ReturnIInv DEF GetMse
<1>9. ASSUME NEW ch \in Chan, StartTs(ch) PROVE IInv'
  BY <1>1, <1>2, <1>3, <1>9, StartTsQuiet, InvQuiet, ReturnIInv DEF StartTs
<1>10. CASE StopTs
  BY <1>1, <1>2, <1>3, <1>10, StopTsQuiet, InvQuiet, ReturnIInv DEF StopTs
<1>11. CASE DeviceServes
  <2>1. PICK d \in Served(State) : Become(d)
    BY <1>11 DEF DeviceServes
  <2>2. Inv(d)
    BY <2>1, <1>1, <1>2, <1>11, ServedQuiet, InvQuiet DEF DeviceServes
  <2> QED BY <2>1, <2>2, BecomeIInv
<1>12. CASE UNCHANGED vars
  <2>1. State' = State
    BY <1>12 DEF State, vars
  <2> QED BY <2>1, <1>1 DEF IInv
<1> QED BY <1>4, <1>5, <1>6, <1>7, <1>8, <1>9, <1>10, <1>11, <1>12 DEF Next

THEOREM SpecIInv == Spec => []IInv
<1>1. Init => IInv
  BY InitIInv
<1>2. IInv /\ [Next]_vars => IInv'
  BY NextIInv
<1> QED BY <1>1, <1>2, PTL DEF Spec

-----------------------------------------------------------------------------

\* Every reachable state is well typed, for any table, any channels asked for,
\* and any number of answers missed.
THEOREM TypeCorrect == Spec => []TypeOK
<1>1. IInv => TypeOK
  BY DEF IInv, Inv, Good, State, States, Tunings, TypeOK
<1> QED BY <1>1, SpecIInv, PTL

\* What is left behind on the control connection never exceeds the number of
\* answers its calls have missed: an answer that write_then_read() reads in
\* time is the answer to the request it has just sent.
THEOREM NoBacklogHolds == Spec => []NoBacklog
<1>1. IInv => NoBacklog
  BY DEF IInv, Inv, Good, Backlog, State, NoBacklog
<1> QED BY <1>1, SpecIInv, PTL

\* As long as no answer was missed, the device holds the GPIO word of the
\* recorded inputs, whichever calls failed and whichever requests were refused.
THEOREM HardwareFollows == Spec => []HardwareFollowsRecord
<1>1. IInv => HardwareFollowsRecord
  BY DEF IInv, Inv, Follows, State, HardwareFollowsRecord
<1> QED BY <1>1, SpecIInv, PTL

\* After a set_antenna() that returned 0 every amp that is on is one of the active
\* antenna, through the calls that failed half way since.
THEOREM InputFollows == Spec => []InputFollowsAntenna
<1>1. IInv => InputFollowsAntenna
  BY DEF IInv, Inv, Listens, Right, State, InputFollowsAntenna
<1> QED BY <1>1, SpecIInv, PTL

\* As long as no answer was missed, the PLL of a channel has the frequency the code
\* computes for the last TV channel it was set to, and that one is on record once
\* its set_freq() has returned 0, whatever failed since.
THEOREM TunedAsRecorded == Spec => []TunedToRecord
<1>1. IInv => TunedToRecord
  BY DEF IInv, Inv, Tracks, TracksOne, State, TunedToRecord
<1> QED BY <1>1, SpecIInv, PTL

-----------------------------------------------------------------------------
(* One channel at a time *)

\* The other channel is left alone.
Alone(s, t) ==
  t.lost = 0 => \E ch \in Chan : \A other \in Chan \ {ch} :
    /\ t.amp[other] = s.amp[other] /\ t.tvch[other] = s.tvch[other]
    /\ t.hwFreq[other] = s.hwFreq[other]
    /\ t.hwGpio.filter[other] = s.hwGpio.filter[other]

\* The filter of a channel depends on the input of that channel.
LEMMA FilterOfOne ==
  ASSUME NEW a, NEW b, NEW ch \in Chan, a[ch] = b[ch]
  PROVE  GpioWord(a).filter[ch] = GpioWord(b).filter[ch]
BY DEF GpioWord, Chan, NUM_CHANNELS

LEMMA MovesAlone ==
  ASSUME NEW s, NEW t, NEW ch \in Chan, Moves(s, t, ch), Follows(s)
  PROVE  Alone(s, t)
<1> SUFFICES ASSUME t.lost = 0, NEW other \in Chan \ {ch}
             PROVE  /\ t.amp[other] = s.amp[other] /\ t.tvch[other] = s.tvch[other]
                    /\ t.hwFreq[other] = s.hwFreq[other]
                    /\ t.hwGpio.filter[other] = s.hwGpio.filter[other]
  BY DEF Alone
<1>1. /\ t.amp[other] = s.amp[other] /\ t.tvch[other] = s.tvch[other]
      /\ t.hwFreq[other] = s.hwFreq[other]
  BY DEF Moves
<1>2. s.hwGpio = GpioWord(s.amp) /\ t.hwGpio = GpioWord(t.amp)
  BY DEF Moves, Keeps, Follows
<1> QED BY <1>1, <1>2, FilterOfOne

LEMMA SameAlone ==
  ASSUME NEW s, NEW t, t.amp = s.amp, t.tvch = s.tvch,
         t.lost = 0 => t.hwFreq = s.hwFreq /\ t.hwGpio = s.hwGpio
  PROVE  Alone(s, t)
BY DEF Alone, Chan, NUM_CHANNELS

LEMMA QuietAlone == ASSUME NEW s, NEW t, Quiet(s, t) PROVE Alone(s, t)
BY SameAlone DEF Quiet

LEMMA BecomeAlone ==
  ASSUME NEW t \in States, Become(t), Alone(State, t)
  PROVE  Alone(State, State')
BY BecomeState DEF SameButTuned, Alone

LEMMA ReturnAlone ==
  ASSUME NEW results, Return(results),
         \A r \in results : r.s \in States /\ Alone(State, r.s)
  PROVE  Alone(State, State')
<1>1. PICK r \in results : Become(r.s)
  BY DEF Return
<1> QED BY <1>1, BecomeAlone

OneAtATime ==
  inited /\ inited' /\ antSet /\ active_ant' = active_ant => Alone(State, State')

LEMMA NextOneAtATime == IInv /\ [Next]_vars => OneAtATime
<1> SUFFICES ASSUME IInv, [Next]_vars, inited, inited', antSet, active_ant' = active_ant
             PROVE  Alone(State, State')
  BY DEF OneAtATime
<1>1. /\ Good(State) /\ Inv(State) /\ State.inited = inited /\ State.opened = opened
      /\ State.antSet = antSet /\ State.active_ant = active_ant
  BY DEF IInv, Inv, State
<1>2. opened /\ Follows(State) /\ Listens(State)
  BY <1>1 DEF Inv
<1>3. ~ Open
  BY <1>2 DEF Open
<1>4. ~ Close
  <2> SUFFICES ASSUME Close PROVE FALSE
    OBVIOUS
  <2>1. PICK r \in close(State) : Become(r.s)
    BY DEF Close, Return
  <2>2. ~ r.s.inited
    BY <2>1, <1>1, CloseInv
  <2> QED BY <2>1, <2>2 DEF Become
<1>5. ASSUME NEW ant \in AskedAntenna, SetAntenna(ant) PROVE Alone(State, State')
  <2>1. ant \in Antenna
    BY TunerAssumption DEF Antenna, nc, coax
  <2>2. PICK r \in set_antenna(State, ant) : Become(r.s)
    BY <1>5 DEF SetAntenna, Return
  <2>3. /\ r.s \in States /\ r.s.active_ant = ant
        /\ active_ant = ant =>
             /\ r.s.amp = State.amp /\ r.s.tvch = State.tvch
             /\ r.s.hwFreq = State.hwFreq /\ r.s.hwGpio = State.hwGpio
    <3>1. Good(State)
      BY <1>1
    <3>2. r \in set_antenna(State, ant)
      BY <2>2
    <3>3. /\ Keeps(State, r.s)
          /\ r.s.active_ant = ant
          /\ Listens(State) /\ State.antSet /\ State.active_ant = ant =>
               /\ r.s.amp = State.amp /\ r.s.tvch = State.tvch
               /\ r.s.hwFreq = State.hwFreq /\ r.s.hwGpio = State.hwGpio
      BY <2>1, <3>1, <3>2, SetAntennaKeeps
    <3>4. r.s \in States
      BY <3>3 DEF Keeps, Good
    <3>5. State.antSet
      BY <1>1
    <3> QED BY <3>3, <3>4, <3>5, <1>1, <1>2
  <2>4. active_ant' = ant
    BY <2>2, <2>3 DEF Become
  <2>5. Alone(State, r.s)
    BY <2>3, <2>4, SameAlone
  <2> QED BY <2>2, <2>3, <2>5, BecomeAlone
<1>6. ASSUME NEW ch \in Chan, NEW again \in BOOLEAN, NEW tv \in Asked[ch] \cup {NoTv},
             SetFreq(ch, tv, again)
      PROVE  Alone(State, State')
  <2>1. tv \in Tv \cup {NoTv}
    BY TunerAssumption DEF Tv, Chan, NUM_CHANNELS
  <2>2. ASSUME NEW r \in set_freq(State, ch, tv, again) PROVE r.s \in States /\ Alone(State, r.s)
    <3>1. Moves(State, r.s, ch)
      BY <2>1, <1>1, SetFreqMoves
    <3> QED BY <3>1, <1>2, MovesAlone DEF Moves, Keeps, Good
  <2> QED BY <2>2, <1>6, ReturnAlone DEF SetFreq
<1>7. ASSUME NEW t, Quiet(State, t) PROVE t \in States /\ Alone(State, t)
  BY <1>7, QuietAlone DEF Quiet, Good
<1>8. CASE GetMse
  BY <1>1, <1>7, <1>8, GetMseQuiet, ReturnAlone DEF GetMse
<1>9. ASSUME NEW ch \in Chan, StartTs(ch) PROVE Alone(State, State')
  BY <1>1, <1>7, <1>9, StartTsQuiet, ReturnAlone DEF StartTs
<1>10. CASE StopTs
  BY <1>1, <1>7, <1>10, StopTsQuiet, ReturnAlone DEF StopTs
<1>11. CASE DeviceServes
  <2>1. PICK d \in Served(State) : Become(d)
    BY <1>11 DEF DeviceServes
  <2>2. d \in States /\ Alone(State, d)
    BY <2>1, <1>1, <1>7, ServedQuiet
  <2> QED BY <2>1, <2>2, BecomeAlone
<1>12. CASE UNCHANGED vars
  <2>1. State' = State
    BY <1>12 DEF State, vars
  <2> QED BY <2>1, SameAlone
<1> QED BY <1>3, <1>4, <1>5, <1>6, <1>8, <1>9, <1>10, <1>11, <1>12 DEF Next

\* While the antenna stays, a call for one channel leaves the other's input,
\* filter, PLL and recorded TV channel alone, and set_antenna() both.
THEOREM OneAtATimeAlways == Spec => OneChannelAtATime
<1>1. IInv /\ [Next]_vars => OneAtATime
  BY NextOneAtATime
<1>2. OneAtATime =>
        (inited /\ inited' /\ antSet /\ active_ant' = active_ant /\ lost' = 0 =>
           \E ch \in Chan : \A other \in Chan \ {ch} :
             /\ amp'[other] = amp[other]
             /\ tvch'[other] = tvch[other]
             /\ hwFreq'[other] = hwFreq[other]
             /\ hwGpio'.filter[other] = hwGpio.filter[other])
  BY DEF OneAtATime, Alone, State
<1> QED BY <1>1, <1>2, SpecIInv, PTL DEF Spec, OneChannelAtATime
-----------------------------------------------------------------------------
(* scan(): the order of a pass, and the sorted list *)

N == n_ch_freq

\* How many of the indices are even.
Evens == (N + 1) \div 2

\* The index that is probed as the m-th of a pass.
Order(m) == IF m <= Evens THEN 2 * (m - 1) ELSE 2 * (m - Evens) - 1

LEMMA TableSize ==
  /\ N \in Nat \ {0} /\ N = TVCH_MAX - TVCH_MIN + 1
  /\ Evens \in Nat /\ (2 * Evens = N \/ 2 * Evens = N + 1)
<1>1. N \in Nat \ {0} /\ N = TVCH_MAX - TVCH_MIN + 1
  BY TunerAssumption DEF N, n_ch_freq
<1> QED BY <1>1 DEF Evens

\* The turns of a pass name every index of the table, each once.
LEMMA OrderIsExact ==
  /\ \A m \in 1 .. N : Order(m) \in 0 .. (N - 1)
  /\ \A m, k \in 1 .. N : Order(m) = Order(k) => m = k
  /\ \A k \in 0 .. (N - 1) : \E m \in 1 .. N : Order(m) = k
<1> USE TableSize
<1> HIDE DEF N, Evens
<1>1. \A m \in 1 .. N : Order(m) \in 0 .. (N - 1)
  BY DEF Order
<1>2. \A m, k \in 1 .. N : Order(m) = Order(k) => m = k
  BY DEF Order
<1>3. ASSUME NEW k \in 0 .. (N - 1) PROVE \E m \in 1 .. N : Order(m) = k
  <2>1. PICK h \in Nat : k = 2 * h \/ k = 2 * h + 1
    <3>1. k \div 2 \in Nat /\ (k = 2 * (k \div 2) \/ k = 2 * (k \div 2) + 1)
      OBVIOUS
    <3> QED BY <3>1
  <2>2. CASE k = 2 * h
    <3>1. h + 1 \in 1 .. N /\ Order(h + 1) = k
      BY <2>2 DEF Order
    <3> QED BY <3>1
  <2>3. CASE k = 2 * h + 1
    <3>1. Evens + h + 1 \in 1 .. N /\ Order(Evens + h + 1) = k
      BY <2>3 DEF Order
    <3> QED BY <3>1
  <2> QED BY <2>1, <2>2, <2>3
<1> QED BY <1>1, <1>2, <1>3

\* No two entries of a list have the same place, and no place stays empty.
LEMMA PlaceIsExact ==
  ASSUME NEW list \in Seq(Int)
  PROVE  /\ \A m \in 1 .. Len(list) : Place(list, m) \in 1 .. Len(list)
         /\ \A m, k \in 1 .. Len(list) :
              list[m] < list[k] \/ (list[m] = list[k] /\ m < k) => Place(list, m) < Place(list, k)
         /\ \A p \in 1 .. Len(list) : \E m \in 1 .. Len(list) : Place(list, m) = p
<1> DEFINE D == 1 .. Len(list)
           Below(m) == {k \in D : list[k] < list[m] \/ (list[k] = list[m] /\ k <= m)}
           places == [m \in D |-> Cardinality(Below(m))]
<1>0. /\ Len(list) \in Nat /\ DOMAIN list = D /\ \A m \in D : list[m] \in Int
      /\ D \subseteq Nat
  BY LenProperties
<1>1. IsFiniteSet(D) /\ Cardinality(D) = Len(list)
  BY <1>0, FS_Interval
<1>2. \A m : Place(list, m) = Cardinality(Below(m))
  BY <1>0 DEF Place
<1>3. ASSUME NEW m \in D
      PROVE  /\ IsFiniteSet(Below(m)) /\ m \in Below(m)
             /\ Cardinality(Below(m)) \in D
  <2>1. Below(m) \in SUBSET D /\ m \in Below(m)
    BY <1>0
  <2>2. /\ IsFiniteSet(Below(m)) /\ Cardinality(Below(m)) <= Len(list)
        /\ Cardinality(Below(m)) \in Nat
    BY <2>1, <1>1, FS_Subset, FS_CardinalityType
  <2>3. Cardinality(Below(m)) # 0
    BY <2>1, <2>2, FS_EmptySet
  <2> QED BY <2>1, <2>2, <2>3, <1>0
<1>4. ASSUME NEW m \in D, NEW k \in D, list[m] < list[k] \/ (list[m] = list[k] /\ m < k)
      PROVE  Cardinality(Below(m)) < Cardinality(Below(k))
  <2>1. Below(m) \in SUBSET Below(k) /\ k \notin Below(m)
    BY <1>0, <1>4
  <2>2. Cardinality(Below(m)) <= Cardinality(Below(k))
        /\ (Cardinality(Below(k)) = Cardinality(Below(m)) => Below(k) = Below(m))
    BY <2>1, <1>3, FS_Subset
  <2>3. Below(k) # Below(m)
    BY <2>1, <1>3
  <2>4. Cardinality(Below(m)) \in Nat /\ Cardinality(Below(k)) \in Nat
    BY <1>3, <1>0
  <2> HIDE DEF Below
  <2> QED BY <2>2, <2>3, <2>4
<1> HIDE DEF Below
<1>5. places \in Injection(D, D)
  <2>1. places \in [D -> D]
    BY <1>3
  <2>2. ASSUME NEW m \in D, NEW k \in D, places[m] = places[k] PROVE m = k
    <3>1. \/ m = k
          \/ list[m] < list[k] \/ (list[m] = list[k] /\ m < k)
          \/ list[k] < list[m] \/ (list[k] = list[m] /\ k < m)
      BY <1>0
    <3>2. Cardinality(Below(m)) = Cardinality(Below(k)) /\ Cardinality(Below(m)) \in Nat
      BY <2>2, <1>3, <1>0
    <3> QED BY <3>1, <3>2, <1>4
  <2> QED BY <2>1, <2>2 DEF Injection, IsInjective
<1>6. places \in Surjection(D, D)
  BY <1>1, <1>5, FS_Injection
<1>7. \A p \in D : \E m \in D : places[m] = p
  BY <1>6 DEF Surjection
<1> QED BY <1>2, <1>3, <1>4, <1>7

\* No entry of the list is there twice.
Distinct(list) == \A m, k \in 1 .. Len(list) : list[m] = list[k] => m = k

\* Sorting keeps the entries and puts them in order.
LEMMA SortedIsExact ==
  ASSUME NEW S, S \subseteq Int, NEW list \in Seq(S)
  PROVE  /\ Sorted(list) \in Seq(S) /\ Len(Sorted(list)) = Len(list)
         /\ Range(Sorted(list)) = Range(list)
         /\ Distinct(list) =>
              \A m \in 1 .. Len(list) - 1 : Sorted(list)[m] < Sorted(list)[m + 1]
<1> DEFINE D == 1 .. Len(list)
           At(p) == CHOOSE m \in D : Place(list, m) = p
<1>0. /\ Len(list) \in Nat /\ DOMAIN list = D /\ \A m \in D : list[m] \in S
      /\ list \in Seq(Int)
  BY LenProperties, ElementOfSeq, SeqMonotonic
<1>1. /\ \A m \in D : Place(list, m) \in D
      /\ \A m, k \in D :
           list[m] < list[k] \/ (list[m] = list[k] /\ m < k) => Place(list, m) < Place(list, k)
      /\ \A p \in D : \E m \in D : Place(list, m) = p
  BY <1>0, PlaceIsExact
<1>2. \A p \in D : At(p) \in D /\ Place(list, At(p)) = p
  BY <1>1
<1>3. Sorted(list) = [p \in D |-> list[At(p)]]
  BY <1>0 DEF Sorted
<1>4. \A m \in D : At(Place(list, m)) = m
  <2> SUFFICES ASSUME NEW m \in D, At(Place(list, m)) # m PROVE FALSE
    OBVIOUS
  <2> DEFINE k == At(Place(list, m))
  <2>1. k \in D /\ Place(list, k) = Place(list, m) /\ Place(list, m) \in D
    BY <1>1, <1>2
  <2> HIDE DEF k
  <2>2. \/ list[m] < list[k] \/ (list[m] = list[k] /\ m < k)
        \/ list[k] < list[m] \/ (list[k] = list[m] /\ k < m)
    <3>1. list[m] \in Int /\ list[k] \in Int /\ m \in Int /\ k \in Int /\ k # m
      BY <1>0, <2>1 DEF k
    <3> QED BY <3>1
  <2>3. Place(list, m) < Place(list, k) \/ Place(list, k) < Place(list, m)
    BY <1>1, <2>1, <2>2
  <2> QED BY <2>1, <2>3, <1>0
<1> HIDE DEF At
<1>5. Sorted(list) \in Seq(S) /\ Len(Sorted(list)) = Len(list)
  <2>1. Sorted(list) \in [1 .. Len(list) -> S]
    BY <1>0, <1>2, <1>3
  <2> QED BY <1>0, <2>1, IsASeq, LenProperties
<1>6. Range(Sorted(list)) = Range(list)
  <2>1. Range(Sorted(list)) = {list[At(p)] : p \in D} /\ Range(list) = {list[m] : m \in D}
    BY <1>0, <1>3 DEF Range
  <2>2. \A p \in D : \E m \in D : list[At(p)] = list[m]
    BY <1>2
  <2>3. \A m \in D : \E p \in D : list[m] = list[At(p)]
    <3> SUFFICES ASSUME NEW m \in D PROVE \E p \in D : list[m] = list[At(p)]
      OBVIOUS
    <3>1. Place(list, m) \in D /\ At(Place(list, m)) = m
      BY <1>1, <1>4
    <3> QED BY <3>1
  <2> HIDE DEF D
  <2> QED BY <2>1, <2>2, <2>3
<1>7. ASSUME Distinct(list), NEW m \in 1 .. Len(list) - 1
      PROVE  Sorted(list)[m] < Sorted(list)[m + 1]
  <2>1. m \in D /\ m + 1 \in D /\ m # m + 1
    BY <1>0
  <2>2. /\ At(m) \in D /\ At(m + 1) \in D /\ Place(list, At(m)) = m
        /\ Place(list, At(m + 1)) = m + 1
    BY <2>1, <1>2
  <2>3. list[At(m)] \in Int /\ list[At(m + 1)] \in Int /\ list[At(m)] # list[At(m + 1)]
    BY <2>1, <2>2, <1>0, <1>7 DEF Distinct
  <2>4. ~ (list[At(m + 1)] < list[At(m)])
    <3>1. list[At(m + 1)] < list[At(m)] => m + 1 < m
      BY <2>2, <1>1
    <3> QED BY <3>1, <2>1
  <2>5. list[At(m)] < list[At(m + 1)]
    BY <2>3, <2>4
  <2> QED BY <2>1, <2>5, <1>3
<1> QED BY <1>5, <1>6, <1>7
-----------------------------------------------------------------------------
(* scan(): the calls of the front end *)

\* What the calls of scan() do with the state they are given: the client has
\* called open() and init() before.
Scans(s, t) ==
  /\ Inv(t) /\ t.inited /\ t.opened
  /\ t.lost = 0 => s.lost = 0

LEMMA ScansTrans ==
  ASSUME NEW s, NEW t, NEW u, Scans(s, t), Scans(t, u)
  PROVE  Scans(s, u)
BY DEF Scans

LEMMA ScansSelf ==
  ASSUME NEW s, Inv(s), s.inited
  PROVE  Scans(s, s)
BY DEF Scans, Inv

LEMMA ScansTypes ==
  ASSUME NEW s, NEW t, Scans(s, t)
  PROVE  /\ t \in States /\ Good(t) /\ Inv(t) /\ t.inited
         /\ t.active_ant \in Antenna /\ t.tvch \in [Chan -> Tv \cup {NoTv}]
BY DEF Scans, Inv, Good, States

LEMMA AskScans ==
  ASSUME NEW s, Inv(s), s.inited, NEW q \in {Get, GetN, Put}, NEW r \in Ask(s, q)
  PROVE  Scans(s, r.s) /\ r.s.active_ant = s.active_ant /\ r.s.tvch = s.tvch
<1>1. Quiet(s, r.s) /\ s.opened
  BY AskQuiet DEF Inv
<1> QED BY <1>1, InvQuiet DEF Scans, Quiet

LEMMA SetAmpScans ==
  ASSUME NEW s, Inv(s), s.inited, NEW ch \in Chan, NEW r \in set_amp(s, ch, off)
  PROVE  Scans(s, r.s) /\ r.s.active_ant = s.active_ant
<1>1. /\ Moves(s, r.s, ch) /\ r.s.tvch = s.tvch
      /\ r.s.amp[ch] = IF r.ok THEN off ELSE s.amp[ch]
  <2>1. off \in AmpInput
    BY DEF off, AmpInput, external
  <2> QED BY <2>1, SetAmp DEF Inv
<1>2. Right(s, ch) => Right(r.s, ch)
  BY <1>1 DEF Right, Moves
<1> QED BY <1>1, <1>2, MovesListens, InvKeeps DEF Scans, Moves, Keeps, Inv

LEMMA SetAntennaScans ==
  ASSUME NEW s, Inv(s), s.inited, NEW ant \in Antenna, NEW r \in set_antenna(s, ant)
  PROVE  Scans(s, r.s) /\ r.s.active_ant = ant
<1>1. Keeps(s, r.s) /\ Listens(r.s) /\ r.s.active_ant = ant
  BY SetAntennaKeeps DEF Inv
<1> QED BY <1>1, InvKeeps DEF Scans, Keeps, Inv

LEMMA SetFreqScans ==
  ASSUME NEW s, Inv(s), s.inited, NEW ch \in Chan, NEW tv \in Tv, NEW again \in BOOLEAN,
         NEW r \in set_freq(s, ch, tv, again)
  PROVE  /\ Scans(s, r.s) /\ r.s.active_ant = s.active_ant
         /\ r.ok => r.s.tvch[ch] = tv
         /\ \A c \in Chan \ {ch} : r.s.tvch[c] = s.tvch[c]
<1>1. tv # NoTv
  BY TunerAssumption DEF Tv, NoTv
<1>2. /\ Moves(s, r.s, ch) /\ (Right(s, ch) => Right(r.s, ch))
      /\ r.ok => r.s.tvch[ch] = tv
  BY <1>1, SetFreqMoves DEF Inv
<1> QED BY <1>2, MovesListens, InvKeeps DEF Scans, Moves, Keeps, Inv

LEMMA TuneOneScans ==
  ASSUME NEW s, Inv(s), s.inited, NEW ch \in Chan, i \in Nat, reset \in BOOLEAN,
         NEW r \in TuneOne(s, ch)
  PROVE  /\ Scans(s, r.s) /\ r.s.active_ant = s.active_ant
         /\ r.ok /\ Gapless /\ InTable(ch) => r.s.tvch[ch] = Index(ch) + TVCH_MIN
         /\ \A c \in Chan \ {ch} : r.s.tvch[c] = s.tvch[c]
<1>0. Index(ch) \in Nat
  BY DEF Index, Chan, NUM_CHANNELS, CH_STEP
<1>1. CASE ~ InTable(ch) \/ ch_freq[Index(ch)] = 0
  <2>1. r = [s |-> s, ok |-> TRUE]
    BY <1>1 DEF TuneOne, Done
  <2>2. ~ (Gapless /\ InTable(ch))
    <3> SUFFICES ASSUME Gapless, InTable(ch) PROVE FALSE
      OBVIOUS
    <3>1. Index(ch) \in DOMAIN ch_freq
      BY <1>0, TunerAssumption DEF InTable, n_ch_freq
    <3> QED BY <1>1, <3>1 DEF Gapless
  <2> QED BY <2>1, <2>2, ScansSelf
<1>2. CASE ~ (~ InTable(ch) \/ ch_freq[Index(ch)] = 0)
  <2>1. r \in set_freq(s, ch, Index(ch) + TVCH_MIN, reset)
    BY <1>2 DEF TuneOne
  <2>2. Index(ch) + TVCH_MIN \in Tv
    BY <1>0, <1>2, TunerAssumption DEF InTable, n_ch_freq, Tv
  <2> QED BY <2>1, <2>2, SetFreqScans
<1> QED BY <1>1, <1>2

LEMMA ReadOneScans ==
  ASSUME NEW s, Inv(s), s.inited, NEW ch \in Chan, NEW r \in ReadOne(s, ch)
  PROVE  Scans(s, r.s) /\ r.s.active_ant = s.active_ant /\ r.s.tvch = s.tvch
<1>1. CASE InTable(ch)
  BY <1>1, AskScans DEF ReadOne
<1>2. CASE ~ InTable(ch)
  <2>1. r.s = s
    BY <1>2 DEF ReadOne, Done
  <2> QED BY <2>1, ScansSelf
<1> QED BY <1>1, <1>2

\* A turn that succeeds leaves on record the TV channels it probed.
LEMMA TunesAndReadsScans ==
  ASSUME NEW s, Inv(s), s.inited, i \in Nat, reset \in BOOLEAN, NEW r \in TunesAndReads(s)
  PROVE  /\ Scans(s, r.s) /\ r.s.active_ant = s.active_ant
         /\ r.ok /\ Gapless =>
              \A ch \in Chan : InTable(ch) => r.s.tvch[ch] = Index(ch) + TVCH_MIN
<1> DEFINE C(c) == ReadOne(c, 1)
           B(b) == Then(ReadOne(b, 0), C)
           A(a) == Then(TuneOne(a, 1), B)
<1>0. 0 \in Chan /\ 1 \in Chan /\ Chan = {0, 1}
  BY DEF Chan, NUM_CHANNELS
<1>1. PICK a \in TuneOne(s, 0) : r \in IF a.ok THEN A(a.s) ELSE {a}
  BY DEF TunesAndReads, Then
<1>2. /\ Scans(s, a.s) /\ a.s.active_ant = s.active_ant
      /\ a.ok /\ Gapless /\ InTable(0) => a.s.tvch[0] = Index(0) + TVCH_MIN
  BY <1>0, <1>1, TuneOneScans
<1>3. CASE ~ a.ok
  <2>1. r = a
    BY <1>1, <1>3
  <2> QED BY <2>1, <1>2, <1>3
<1>4. CASE a.ok
  <2>1. PICK b \in TuneOne(a.s, 1) : r \in IF b.ok THEN B(b.s) ELSE {b}
    BY <1>1, <1>4 DEF Then
  <2>2. /\ Scans(a.s, b.s) /\ b.s.active_ant = a.s.active_ant
        /\ b.ok /\ Gapless /\ InTable(1) => b.s.tvch[1] = Index(1) + TVCH_MIN
        /\ b.s.tvch[0] = a.s.tvch[0]
    BY <1>0, <1>2, <2>1, TuneOneScans, ScansTypes
  <2>3. Scans(s, b.s) /\ b.s.active_ant = s.active_ant
    BY <1>2, <2>2, ScansTrans
  <2>4. CASE ~ b.ok
    <3>1. r = b
      BY <2>1, <2>4
    <3> QED BY <3>1, <2>3, <2>4
  <2>5. CASE b.ok
    <3>1. PICK c \in ReadOne(b.s, 0) : r \in IF c.ok THEN C(c.s) ELSE {c}
      BY <2>1, <2>5 DEF Then
    <3>2. Scans(s, c.s) /\ c.s.active_ant = s.active_ant /\ c.s.tvch = b.s.tvch
      BY <1>0, <2>3, <3>1, ReadOneScans, ScansTypes, ScansTrans
    <3>3. CASE ~ c.ok
      <4>1. r = c
        BY <3>1, <3>3
      <4> QED BY <4>1, <3>2, <3>3
    <3>4. CASE c.ok
      <4>1. r \in ReadOne(c.s, 1)
        BY <3>1, <3>4
      <4>2. Scans(s, r.s) /\ r.s.active_ant = s.active_ant /\ r.s.tvch = b.s.tvch
        BY <1>0, <3>2, <4>1, ReadOneScans, ScansTypes, ScansTrans
      <4> QED BY <4>2, <1>0, <1>2, <1>4, <2>2, <2>5
    <3> QED BY <3>3, <3>4
  <2> QED BY <2>4, <2>5
<1> QED BY <1>3, <1>4

\* The change of antenna between two passes.
LEMMA NextAntennaScans ==
  ASSUME NEW s, Inv(s), s.inited, NEW ant \in Antenna,
         NEW r \in Then(set_amp(s, 0, off), LAMBDA a : Then(set_amp(a, 1, off),
                     LAMBDA b : set_antenna(b, ant)))
  PROVE  Scans(s, r.s) /\ (r.ok => r.s.active_ant = ant)
<1> DEFINE B(b) == set_antenna(b, ant)
           A(a) == Then(set_amp(a, 1, off), B)
<1>0. 0 \in Chan /\ 1 \in Chan
  BY DEF Chan, NUM_CHANNELS
<1>1. PICK a \in set_amp(s, 0, off) : r \in IF a.ok THEN A(a.s) ELSE {a}
  BY DEF Then
<1>2. Scans(s, a.s)
  BY <1>0, <1>1, SetAmpScans
<1>3. CASE a.ok
  <2>1. PICK b \in set_amp(a.s, 1, off) : r \in IF b.ok THEN B(b.s) ELSE {b}
    BY <1>1, <1>3 DEF Then
  <2>2. Scans(s, b.s)
    BY <1>0, <1>2, <2>1, SetAmpScans, ScansTypes, ScansTrans
  <2>3. CASE b.ok
    BY <2>1, <2>2, <2>3, SetAntennaScans, ScansTypes, ScansTrans
  <2> QED BY <2>1, <2>2, <2>3
<1> QED BY <1>1, <1>2, <1>3
-----------------------------------------------------------------------------
(* The inductive invariant of scan() *)

\* The locals of a scan that has not probed yet.
ScanFresh ==
  /\ pc \in {"idle", "clear"} => i = 0 /\ find = <<>> /\ probed = <<>> /\ heard = {}
  /\ pc \in {"idle", "probe", "pass"} => j = 0

\* Register 0x12a between its save and its restoration.
ScanRegister ==
  lost = 0 =>
    /\ pc = "clear" /\ j = 0 => reg12a = before
    /\ pc = "clear" /\ j = 1 => old12a[0] = before[0] /\ reg12a[1] = before[1]
    /\ pc \in {"probe", "pass", "restore"} => old12a = before
    /\ pc = "restore" /\ j = 1 => reg12a[0] = before[0]
    /\ pc = "done" => reg12a = before

\* The turn of index k comes when n indices have been probed.
InPass(k, n) ==
  \E q \in Nat : (k = 4 * q /\ n = 2 * q) \/ (k = 4 * q + 1 /\ n = Evens + 2 * q)

\* How far the pass over the table is.
ScanCoverage ==
  /\ Len(probed) <= N
  /\ \A m \in 1 .. Len(probed) : probed[m] = Order(m)
  /\ pc = "probe" => i < N /\ InPass(i, Len(probed))
  /\ pc = "pass" => Len(probed) = N

\* A list against what locked in a pass that has probed n indices: with the antenna
\* given it is that, and at most two entries more without.
Found(list, locked, n, given) ==
  /\ locked \subseteq {Order(m) + TVCH_MIN : m \in 1 .. n}
  /\ locked \subseteq Range(list)
  /\ IsFiniteSet(locked)
  /\ Len(list) <= Cardinality(locked) + IF given THEN 0 ELSE 2
  /\ given => Distinct(list) /\ Range(list) = locked

ScanFound == Gapless => Found(find, heard, Len(probed), ant_valid)

\* find[] against the antennas.
ScanAntennas ==
  /\ Len(find) <= Len(probed) + IF ant_valid THEN 0 ELSE 2
  /\ pc = "done" => chlist = Sorted(find)

\* The front end during a scan, and the locals of scan().
ScanInv ==
  /\ IInv
  /\ pc # "idle" => inited
  /\ ScanTypeOK
  /\ ScanFresh
  /\ ScanRegister
  /\ ScanCoverage
  /\ ScanFound
  /\ ScanAntennas

-----------------------------------------------------------------------------
(* scan(): a turn of the loop over the table *)

\* Two sequences of at most one entry are appended.
LEMMA ConcatTwo ==
  ASSUME NEW S, NEW s \in Seq(S), NEW a \in Seq(S), NEW b \in Seq(S),
         Len(a) <= 1, Len(b) <= 1, NEW t, t = s \o a \o b
  PROVE  /\ t \in Seq(S) /\ Len(t) = Len(s) + Len(a) + Len(b)
         /\ \A m \in 1 .. Len(s) : t[m] = s[m]
         /\ Len(a) = 1 => t[Len(s) + 1] = a[1]
         /\ Len(b) = 1 => t[Len(s) + Len(a) + 1] = b[1]
<1> DEFINE u == s \o a
<1>0. t = u \o b
  OBVIOUS
<1>1. /\ Len(s) \in Nat /\ Len(a) \in Nat /\ Len(b) \in Nat
  BY LenProperties
<1>2. /\ u \in Seq(S) /\ Len(u) = Len(s) + Len(a)
      /\ \A m \in 1 .. Len(s) + Len(a) : u[m] = IF m <= Len(s) THEN s[m] ELSE a[m - Len(s)]
  BY ConcatProperties
<1> HIDE DEF u
<1>3. /\ t \in Seq(S) /\ Len(t) = Len(u) + Len(b)
      /\ \A m \in 1 .. Len(u) + Len(b) : t[m] = IF m <= Len(u) THEN u[m] ELSE b[m - Len(u)]
  BY <1>0, <1>2, ConcatProperties
<1>4. \A m \in 1 .. Len(s) : t[m] = s[m]
  BY <1>1, <1>2, <1>3
<1>5. Len(a) = 1 => t[Len(s) + 1] = a[1]
  BY <1>1, <1>2, <1>3
<1>6. Len(b) = 1 => t[Len(s) + Len(a) + 1] = b[1]
  BY <1>1, <1>2, <1>3
<1> QED BY <1>2, <1>3, <1>4, <1>5, <1>6

LEMMA TurnIs ==
  ASSUME i \in Nat, NEW ch \in Chan
  PROVE  /\ Index(ch) \in Nat
         /\ Turn(ch) \in Seq(0 .. (N - 1))
         /\ Len(Turn(ch)) = IF InTable(ch) THEN 1 ELSE 0
         /\ InTable(ch) => Turn(ch)[1] = Index(ch)
<1>1. Index(ch) \in Nat
  BY DEF Index, Chan, NUM_CHANNELS, CH_STEP
<1>2. CASE InTable(ch)
  <2>1. Turn(ch) = <<Index(ch)>> /\ Index(ch) \in 0 .. (N - 1)
    BY <1>1, <1>2, TableSize DEF Turn, InTable, N
  <2> QED BY <2>1, <1>1, <1>2
<1>3. CASE ~ InTable(ch)
  BY <1>1, <1>3 DEF Turn
<1> QED BY <1>2, <1>3

LEMMA HitIs ==
  ASSUME NEW s \in States, NEW ch \in Chan, NEW locked
  PROVE  /\ Hit(s, ch, locked) \in Seq(Tv \cup {NoTv})
         /\ Len(Hit(s, ch, locked)) = IF ch \in locked THEN 1 ELSE 0
         /\ ch \in locked => Hit(s, ch, locked)[1] = s.tvch[ch]
<1>1. s.tvch[ch] \in Tv \cup {NoTv}
  BY DEF States
<1>2. CASE ch \in locked
  <2>1. Hit(s, ch, locked) = <<s.tvch[ch]>>
    BY <1>2 DEF Hit
  <2> QED BY <1>1, <1>2, <2>1
<1>3. CASE ch \notin locked
  BY <1>3 DEF Hit
<1> QED BY <1>2, <1>3

\* The turn of index k takes the next one or two places of the pass.
LEMMA PassArithmetic ==
  ASSUME NEW k \in Nat, k < N, NEW n \in Nat, InPass(k, n),
         NEW l \in Nat, l = n + 1 + (IF k + 2 < N THEN 1 ELSE 0)
  PROVE  /\ k = Order(n + 1) /\ (k + 2 < N => k + 2 = Order(n + 2))
         /\ l <= N /\ NextIndex(k) \in 0 .. (N + 4)
         /\ IF NextIndex(k) >= N THEN l = N ELSE InPass(NextIndex(k), l)
<1> DEFINE next == NextIndex(k)
<1>1. next = IF k + 4 >= N /\ (k + 4) % 2 = 0 THEN 1 ELSE k + 4
  BY DEF NextIndex, NUM_CHANNELS, CH_STEP, N
<1> HIDE DEF next
<1>2. PICK q \in Nat : (k = 4 * q /\ n = 2 * q) \/ (k = 4 * q + 1 /\ n = Evens + 2 * q)
  BY DEF InPass
<1> USE TableSize
<1> HIDE DEF N, Evens
<1>3. CASE k = 4 * q /\ n = 2 * q
  <2>1. (k + 4) % 2 = 0
    BY <1>3
  <2>2. k = Order(n + 1) /\ (k + 2 < N => k + 2 = Order(n + 2))
    BY <1>3 DEF Order
  <2>3. CASE k + 4 >= N
    <3>1. next = 1 /\ l = Evens /\ Evens <= N
      BY <1>1, <1>3, <2>1, <2>3
    <3>2. 1 >= N => l = N
      BY <3>1
    <3>3. InPass(1, Evens)
      <4>1. 1 = 4 * 0 + 1 /\ Evens = Evens + 2 * 0
        OBVIOUS
      <4> QED BY <4>1 DEF InPass
    <3> QED BY <2>2, <3>1, <3>2, <3>3 DEF next
  <2>4. CASE ~ (k + 4 >= N)
    <3>1. next = k + 4 /\ l = 2 * (q + 1) /\ k + 4 = 4 * (q + 1) /\ l <= N /\ ~ (next >= N)
          /\ q + 1 \in Nat /\ k + 4 \in 0 .. (N + 4)
      BY <1>1, <1>3, <2>4
    <3>2. InPass(next, l)
      BY <3>1 DEF InPass
    <3> QED BY <2>2, <3>1, <3>2 DEF next
  <2> QED BY <2>3, <2>4
<1>4. CASE k = 4 * q + 1 /\ n = Evens + 2 * q
  <2>1. (k + 4) % 2 # 0
    BY <1>4
  <2>2. k = Order(n + 1) /\ (k + 2 < N => k + 2 = Order(n + 2))
    BY <1>4 DEF Order
  <2>3. next = k + 4 /\ k + 4 \in 0 .. (N + 4)
    BY <1>1, <2>1
  <2>4. CASE k + 4 >= N
    <3>1. l = N
      BY <1>4, <2>4
    <3> QED BY <2>2, <2>3, <2>4, <3>1 DEF next
  <2>5. CASE ~ (k + 4 >= N)
    <3>1. l = Evens + 2 * (q + 1) /\ k + 4 = 4 * (q + 1) + 1 /\ l <= N /\ q + 1 \in Nat
      BY <1>4, <2>5
    <3>2. InPass(next, l)
      BY <2>3, <3>1 DEF InPass
    <3> QED BY <2>2, <2>3, <2>5, <3>1, <3>2 DEF next
  <2> QED BY <2>4, <2>5
<1> QED BY <1>2, <1>3, <1>4

\* The turn of i: the places of its indices in the pass, and the next turn.
LEMMA TurnCovers ==
  ASSUME ScanCoverage, pc = "probe", i \in Nat, probed \in Seq(0 .. (N - 1)),
         NEW t, t = probed \o Turn(0) \o Turn(1), NEW next, next = NextIndex(i)
  PROVE  /\ t \in Seq(0 .. (N - 1)) /\ Len(t) <= N /\ Len(probed) \in Nat
         /\ \A m \in 1 .. Len(t) : t[m] = Order(m)
         /\ next \in 0 .. (N + 4)
         /\ IF next >= N THEN Len(t) = N ELSE InPass(next, Len(t))
         /\ InTable(0) /\ Index(0) = Order(Len(probed) + 1)
         /\ InTable(1) => Index(1) = Order(Len(probed) + 2)
         /\ Len(t) = Len(probed) + 1 + IF InTable(1) THEN 1 ELSE 0
<1> DEFINE n == Len(probed)
           l == Len(t)
<1>0. 0 \in Chan /\ 1 \in Chan
  BY DEF Chan, NUM_CHANNELS
<1>1. /\ n \in Nat /\ n <= N /\ \A m \in 1 .. n : probed[m] = Order(m)
      /\ i < N /\ InPass(i, n) /\ n_ch_freq = N
  BY LenProperties DEF ScanCoverage, N
<1>2. Index(0) = i /\ Index(1) = i + 2 /\ InTable(0) /\ (InTable(1) <=> i + 2 < N)
  BY <1>1 DEF Index, InTable, CH_STEP
<1>3. /\ t \in Seq(0 .. (N - 1)) /\ l = n + 1 + IF i + 2 < N THEN 1 ELSE 0
      /\ \A m \in 1 .. n : t[m] = probed[m]
      /\ t[n + 1] = i
      /\ i + 2 < N => t[n + 2] = i + 2
  <2> DEFINE a == Turn(0)
             b == Turn(1)
  <2>1. /\ a \in Seq(0 .. (N - 1)) /\ Len(a) = 1 /\ a[1] = i
        /\ b \in Seq(0 .. (N - 1)) /\ Len(b) = IF i + 2 < N THEN 1 ELSE 0
        /\ i + 2 < N => b[1] = i + 2
    BY <1>0, <1>2, TurnIs
  <2>2. t = probed \o a \o b
    OBVIOUS
  <2> HIDE DEF a, b
  <2>3. /\ t \in Seq(0 .. (N - 1)) /\ Len(t) = Len(probed) + Len(a) + Len(b)
        /\ \A m \in 1 .. Len(probed) : t[m] = probed[m]
        /\ Len(a) = 1 => t[Len(probed) + 1] = a[1]
        /\ Len(b) = 1 => t[Len(probed) + Len(a) + 1] = b[1]
    <3>1. Len(a) <= 1 /\ Len(b) <= 1
      BY <2>1
    <3>2. a \in Seq(0 .. (N - 1)) /\ b \in Seq(0 .. (N - 1))
      BY <2>1
    <3> HIDE DEF n, l
    <3> QED BY ONLY <2>2, <3>1, <3>2, ConcatTwo, probed \in Seq(0 .. (N - 1))
  <2>4. n + 1 + 1 = n + 2
    BY <1>1
  <2> QED BY <1>1, <2>1, <2>3, <2>4
<1>4. l \in Nat
  BY <1>1, <1>3
<1> HIDE DEF n, l
<1>5. /\ i = Order(n + 1) /\ (i + 2 < N => i + 2 = Order(n + 2))
      /\ l <= N /\ next \in 0 .. (N + 4)
      /\ IF next >= N THEN l = N ELSE InPass(next, l)
  BY <1>1, <1>3, <1>4, PassArithmetic
<1>6. ASSUME NEW m \in 1 .. l PROVE t[m] = Order(m)
  <2>1. m \in 1 .. n \/ m = n + 1 \/ (i + 2 < N /\ m = n + 2)
    BY <1>1, <1>3, <1>4
  <2> QED BY <2>1, <1>1, <1>3, <1>5
<1> QED BY <1>1, <1>2, <1>3, <1>5, <1>6 DEF n, l

\* Appending entries loses none.
LEMMA AppendHolds ==
  ASSUME NEW S, NEW f \in Seq(S), NEW a \in Seq(S), NEW b \in Seq(S),
         Len(a) \in {0, 1}, Len(b) \in {0, 1}, NEW g, g = f \o a \o b
  PROVE  /\ Range(f) \subseteq Range(g)
         /\ Len(a) = 1 => a[1] \in Range(g)
         /\ Len(b) = 1 => b[1] \in Range(g)
<1> DEFINE x == Len(f)
           y == Len(a)
           z == Len(b)
<1>1. /\ g \in Seq(S) /\ Len(g) = x + y + z
      /\ \A m \in 1 .. x : g[m] = f[m]
      /\ y = 1 => g[x + 1] = a[1]
      /\ z = 1 => g[x + y + 1] = b[1]
  BY ConcatTwo
<1>2. x \in Nat /\ y \in {0, 1} /\ z \in {0, 1}
  BY LenProperties
<1>3. Range(f) = {f[m] : m \in 1 .. x}
  BY RangeEquality
<1>4. Range(g) = {g[m] : m \in 1 .. (x + y + z)}
  <2>1. Range(g) = {g[m] : m \in 1 .. Len(g)}
    <3>1. g \in Seq(S)
      BY <1>1
    <3> QED BY ONLY <3>1, RangeEquality
  <2> QED BY <2>1, <1>1
<1> HIDE DEF x, y, z
<1>5. ASSUME NEW v \in Range(f) PROVE v \in Range(g)
  <2>1. PICK m \in 1 .. x : v = f[m]
    BY <1>3
  <2>2. m \in 1 .. (x + y + z) /\ g[m] = v
    BY <2>1, <1>1, <1>2
  <2> QED BY <2>2, <1>4
<1>6. y = 1 => a[1] \in Range(g)
  <2>1. y = 1 => x + 1 \in 1 .. (x + y + z)
    BY <1>2
  <2> QED BY <2>1, <1>1, <1>4
<1>7. z = 1 => b[1] \in Range(g)
  <2>1. z = 1 => x + y + 1 \in 1 .. (x + y + z)
    BY <1>2
  <2> QED BY <2>1, <1>1, <1>4
<1> QED BY <1>5, <1>6, <1>7 DEF y, z

\* Appending entries that are new keeps the entries distinct.
LEMMA AppendNew ==
  ASSUME NEW S, NEW f \in Seq(S), NEW a \in Seq(S), NEW b \in Seq(S),
         Len(a) \in {0, 1}, Len(b) \in {0, 1}, NEW g, g = f \o a \o b,
         Distinct(f),
         Len(a) = 1 => a[1] \notin Range(f),
         Len(b) = 1 => b[1] \notin Range(f),
         Len(a) = 1 /\ Len(b) = 1 => a[1] # b[1]
  PROVE  /\ Distinct(g)
         /\ Range(g) = Range(f) \cup {a[m] : m \in 1 .. Len(a)} \cup {b[m] : m \in 1 .. Len(b)}
<1> DEFINE x == Len(f)
           y == Len(a)
           z == Len(b)
<1>1. /\ g \in Seq(S) /\ Len(g) = x + y + z
      /\ \A m \in 1 .. x : g[m] = f[m]
      /\ y = 1 => g[x + 1] = a[1]
      /\ z = 1 => g[x + y + 1] = b[1]
  BY ConcatTwo
<1>2. x \in Nat /\ y \in {0, 1} /\ z \in {0, 1}
  BY LenProperties
<1>3. /\ Range(f) = {f[m] : m \in 1 .. x}
      /\ Range(g) = {g[m] : m \in 1 .. (x + y + z)}
  <2>1. Range(f) = {f[m] : m \in 1 .. x}
    BY RangeEquality
  <2>2. Range(g) = {g[m] : m \in 1 .. Len(g)}
    <3>1. g \in Seq(S)
      BY <1>1
    <3> QED BY ONLY <3>1, RangeEquality
  <2> QED BY <2>1, <2>2, <1>1
<1>4. \A m, n \in 1 .. x : f[m] = f[n] => m = n
  BY DEF Distinct
<1>5. /\ y = 1 => a[1] \notin Range(f)
      /\ z = 1 => b[1] \notin Range(f)
      /\ y = 1 /\ z = 1 => a[1] # b[1]
  OBVIOUS
<1> DEFINE from(m) == \/ m \in 1 .. x /\ g[m] = f[m] /\ g[m] \in Range(f)
                      \/ y = 1 /\ m = x + 1 /\ g[m] = a[1]
                      \/ z = 1 /\ m = x + y + 1 /\ g[m] = b[1]
<1> HIDE DEF x, y, z
<1>6. ASSUME NEW m \in 1 .. (x + y + z) PROVE from(m)
  <2>1. m \in 1 .. x \/ (y = 1 /\ m = x + 1) \/ (z = 1 /\ m = x + y + 1)
    BY ONLY <1>2, m \in 1 .. (x + y + z)
  <2> QED BY <2>1, <1>1, <1>3
<1>7. ASSUME NEW m \in 1 .. Len(g), NEW n \in 1 .. Len(g), g[m] = g[n] PROVE m = n
  <2>1. from(m) /\ from(n)
    BY <1>1, <1>6
  <2> QED BY ONLY <2>1, <1>4, <1>5, <1>7
<1>8. Range(g) = Range(f) \cup {a[m] : m \in 1 .. y} \cup {b[m] : m \in 1 .. z}
  <2>1. ASSUME NEW v \in Range(g)
        PROVE  v \in Range(f) \cup {a[m] : m \in 1 .. y} \cup {b[m] : m \in 1 .. z}
    <3>1. PICK m \in 1 .. (x + y + z) : v = g[m]
      BY <1>3
    <3>2. from(m)
      BY <1>6
    <3> QED BY ONLY <3>1, <3>2
  <2>2. ASSUME NEW v \in Range(f) PROVE v \in Range(g)
    <3>1. PICK m \in 1 .. x : v = f[m]
      BY <1>3
    <3>2. m \in 1 .. (x + y + z) /\ g[m] = v
      BY <3>1, <1>1, <1>2
    <3> QED BY <3>2, <1>3
  <2>3. ASSUME NEW m \in 1 .. y PROVE a[m] \in Range(g)
    <3>1. y = 1 /\ m = 1 /\ x + 1 \in 1 .. (x + y + z)
      BY <1>2
    <3> QED BY <3>1, <1>1, <1>3
  <2>4. ASSUME NEW m \in 1 .. z PROVE b[m] \in Range(g)
    <3>1. z = 1 /\ m = 1 /\ x + y + 1 \in 1 .. (x + y + z)
      BY <1>2
    <3> QED BY <3>1, <1>1, <1>3
  <2>5. {a[m] : m \in 1 .. y} \subseteq Range(g) /\ {b[m] : m \in 1 .. z} \subseteq Range(g)
    BY <2>3, <2>4
  <2> HIDE DEF from
  <2> QED BY ONLY <2>1, <2>2, <2>5
<1> QED BY <1>7, <1>8 DEF x, y, z, Distinct

\* What a turn adds to find[].
LEMMA TurnFinds ==
  ASSUME NEW s \in States, find \in Seq(Tv \cup {NoTv}), NEW locked \in SUBSET Chan,
         NEW g, g = find \o Hit(s, 0, locked) \o Hit(s, 1, locked)
  PROVE  /\ g \in Seq(Tv \cup {NoTv})
         /\ Len(g) = Len(find) + (IF 0 \in locked THEN 1 ELSE 0) + (IF 1 \in locked THEN 1 ELSE 0)
<1> DEFINE a == Hit(s, 0, locked)
           b == Hit(s, 1, locked)
<1>0. 0 \in Chan /\ 1 \in Chan
  BY DEF Chan, NUM_CHANNELS
<1>1. /\ a \in Seq(Tv \cup {NoTv}) /\ b \in Seq(Tv \cup {NoTv})
      /\ Len(a) = (IF 0 \in locked THEN 1 ELSE 0) /\ Len(b) = (IF 1 \in locked THEN 1 ELSE 0)
  BY <1>0, HitIs
<1>2. g = find \o a \o b
  OBVIOUS
<1> HIDE DEF a, b
<1>3. Len(a) <= 1 /\ Len(b) <= 1
  BY <1>1
<1>4. g \in Seq(Tv \cup {NoTv}) /\ Len(g) = Len(find) + Len(a) + Len(b)
  <2>1. a \in Seq(Tv \cup {NoTv}) /\ b \in Seq(Tv \cup {NoTv})
    BY <1>1
  <2> QED BY ONLY <1>2, <1>3, <2>1, ConcatTwo, find \in Seq(Tv \cup {NoTv})
<1> QED BY <1>1, <1>4

\* Without a gap in the table, a turn adds to find[] exactly what locked, and none
\* of it has locked in this pass before.
LEMMA TurnFindsExactly ==
  ASSUME NEW s \in States, find \in Seq(Tv \cup {NoTv}), NEW locked \in SUBSET Chan,
         \A ch \in locked : InTable(ch) /\ s.tvch[ch] = Index(ch) + TVCH_MIN,
         ScanFound, Gapless, ant_valid \in BOOLEAN, i \in Nat, Len(probed) \in Nat,
         NEW l \in Nat, l <= N, l = Len(probed) + 1 + (IF InTable(1) THEN 1 ELSE 0),
         InTable(0) /\ Index(0) = Order(Len(probed) + 1),
         InTable(1) => Index(1) = Order(Len(probed) + 2)
  PROVE  Found(find \o Hit(s, 0, locked) \o Hit(s, 1, locked),
               heard \cup {Index(ch) + TVCH_MIN : ch \in locked}, l, ant_valid)
<1> DEFINE n == Len(probed)
           g == find \o Hit(s, 0, locked) \o Hit(s, 1, locked)
           h == heard \cup {Index(ch) + TVCH_MIN : ch \in locked}
           a == Hit(s, 0, locked)
           b == Hit(s, 1, locked)
           place(ch) == n + 1 + ch
<1>0. /\ 0 \in Chan /\ 1 \in Chan /\ Chan = {0, 1} /\ TVCH_MIN \in Nat
      /\ Tv \cup {NoTv} \subseteq Int
  BY TunerAssumption DEF Chan, NUM_CHANNELS, Tv, NoTv
<1>1. /\ a \in Seq(Tv \cup {NoTv}) /\ b \in Seq(Tv \cup {NoTv})
      /\ Len(a) = (IF 0 \in locked THEN 1 ELSE 0) /\ Len(b) = (IF 1 \in locked THEN 1 ELSE 0)
      /\ 0 \in locked => a[1] = Index(0) + TVCH_MIN
      /\ 1 \in locked => b[1] = Index(1) + TVCH_MIN
  BY <1>0, HitIs
<1>2. /\ heard \subseteq {Order(m) + TVCH_MIN : m \in 1 .. n}
      /\ heard \subseteq Range(find) /\ IsFiniteSet(heard)
      /\ Len(find) <= Cardinality(heard) + (IF ant_valid THEN 0 ELSE 2)
      /\ ant_valid => Distinct(find) /\ Range(find) = heard
  BY DEF ScanFound, Found
<1>h. /\ n \in Nat /\ l \in Nat /\ l <= N /\ N \in Nat
      /\ l = n + 1 + (IF InTable(1) THEN 1 ELSE 0)
      /\ Index(0) = Order(n + 1) /\ (InTable(1) => Index(1) = Order(n + 2))
      /\ \A ch \in locked : InTable(ch)
  BY TableSize
<1>3. ASSUME NEW ch \in locked
      PROVE  /\ place(ch) \in (n + 1) .. l /\ Index(ch) = Order(place(ch))
             /\ place(ch) \in 1 .. N
  <2>0. ch \in {0, 1} /\ InTable(ch) /\ n + 1 + 0 = n + 1 /\ n + 1 + 1 = n + 2
    BY <1>0, <1>h
  <2>1. place(ch) = n + 1 + ch /\ Index(ch) = Order(place(ch))
    BY ONLY <1>h, <2>0
  <2>2. n + 1 + ch \in (n + 1) .. l /\ n + 1 + ch \in 1 .. N
    BY ONLY <1>h, <2>0
  <2> QED BY ONLY <2>1, <2>2
<1>4. n <= N /\ n \in Nat /\ N \in Nat
  BY TableSize
<1>5. \A m \in 1 .. N : Order(m) \in Int
  BY OrderIsExact
<1>6. ASSUME NEW ch \in locked PROVE Index(ch) + TVCH_MIN \notin heard
  <2> SUFFICES ASSUME NEW m \in 1 .. n, Index(ch) + TVCH_MIN = Order(m) + TVCH_MIN PROVE FALSE
    BY <1>2
  <2>1. m \in 1 .. N /\ m # place(ch)
    BY <1>0, <1>3, <1>4
  <2>2. Order(m) = Order(place(ch))
    BY <2>1, <1>0, <1>3, <1>5
  <2> QED BY <2>1, <2>2, <1>3, OrderIsExact
<1>7. 0 \in locked /\ 1 \in locked => Index(0) + TVCH_MIN # Index(1) + TVCH_MIN
  BY <1>0 DEF Index, CH_STEP
<1>8. g = find \o a \o b
  OBVIOUS
<1> HIDE DEF g
<1>9. /\ Len(a) \in {0, 1} /\ Len(b) \in {0, 1}
      /\ Len(a) = 1 => a[1] \notin heard
      /\ Len(b) = 1 => b[1] \notin heard
      /\ Len(a) = 1 /\ Len(b) = 1 => a[1] # b[1]
  BY <1>1, <1>6, <1>7
<1>10. h = heard \cup {a[m] : m \in 1 .. Len(a)} \cup {b[m] : m \in 1 .. Len(b)}
  <2>1. {a[m] : m \in 1 .. Len(a)} = IF 0 \in locked THEN {Index(0) + TVCH_MIN} ELSE {}
    BY <1>1
  <2>2. {b[m] : m \in 1 .. Len(b)} = IF 1 \in locked THEN {Index(1) + TVCH_MIN} ELSE {}
    BY <1>1
  <2>3. /\ 0 \in locked \/ 1 \in locked \/ locked = {}
        /\ \A ch \in locked : ch = 0 \/ ch = 1
    BY <1>0
  <2>4. {Index(ch) + TVCH_MIN : ch \in locked} =
          (IF 0 \in locked THEN {Index(0) + TVCH_MIN} ELSE {})
            \cup (IF 1 \in locked THEN {Index(1) + TVCH_MIN} ELSE {})
    BY ONLY <2>3
  <2> QED BY <2>1, <2>2, <2>4
<1> HIDE DEF a, b
<1>a. a \in Seq(Tv \cup {NoTv}) /\ b \in Seq(Tv \cup {NoTv})
  BY <1>1
<1>11. ant_valid => Distinct(g) /\ Range(g) = h
  <2> SUFFICES ASSUME ant_valid PROVE Distinct(g) /\ Range(g) = h
    OBVIOUS
  <2>1. /\ Distinct(find) /\ Range(find) = heard
        /\ Len(a) = 1 => a[1] \notin Range(find)
        /\ Len(b) = 1 => b[1] \notin Range(find)
    BY <1>2, <1>9
  <2>2. /\ Distinct(g)
        /\ Range(g) = Range(find) \cup {a[m] : m \in 1 .. Len(a)} \cup {b[m] : m \in 1 .. Len(b)}
    BY ONLY <2>1, <1>a, <1>8, <1>9, AppendNew, find \in Seq(Tv \cup {NoTv})
  <2> QED BY <2>1, <2>2, <1>10
<1>13. h \subseteq Range(g)
  <2>1. /\ Range(find) \subseteq Range(g)
        /\ Len(a) = 1 => a[1] \in Range(g)
        /\ Len(b) = 1 => b[1] \in Range(g)
    BY ONLY <1>a, <1>8, <1>9, AppendHolds, find \in Seq(Tv \cup {NoTv})
  <2>2. {a[m] : m \in 1 .. Len(a)} \subseteq Range(g)
    BY <2>1, <1>9
  <2>3. {b[m] : m \in 1 .. Len(b)} \subseteq Range(g)
    BY <2>1, <1>9
  <2> QED BY <1>2, <1>10, <2>1, <2>2, <2>3
<1>14. IsFiniteSet(h) /\ Len(g) <= Cardinality(h) + (IF ant_valid THEN 0 ELSE 2)
  <2> DEFINE ha == heard \cup {a[m] : m \in 1 .. Len(a)}
  <2>0. Cardinality(heard) \in Nat
    BY <1>2, FS_CardinalityType
  <2>1. IsFiniteSet(ha) /\ Cardinality(ha) = Cardinality(heard) + Len(a)
    <3>1. CASE Len(a) = 0
      <4>1. ha = heard
        BY <3>1
      <4> HIDE DEF ha
      <4> QED BY <4>1, <3>1, <1>2, <2>0
    <3>2. CASE Len(a) = 1
      <4>1. ha = heard \cup {a[1]}
        BY <3>2
      <4> HIDE DEF ha
      <4> QED BY <4>1, <3>2, <1>2, <1>9, FS_AddElement
    <3> QED BY <3>1, <3>2, <1>9
  <2>2. Len(b) = 1 => b[1] \notin ha
    BY <1>9
  <2>3. h = ha \cup {b[m] : m \in 1 .. Len(b)}
    BY <1>10
  <2> HIDE DEF ha
  <2>4. IsFiniteSet(h) /\ Cardinality(h) = Cardinality(ha) + Len(b)
    <3> HIDE DEF h
    <3>0. Cardinality(ha) \in Nat
      BY <2>1, FS_CardinalityType
    <3>1. CASE Len(b) = 0
      <4>1. h = ha
        BY <2>3, <3>1
      <4> QED BY <4>1, <2>1, <3>0, <3>1
    <3>2. CASE Len(b) = 1
      <4>1. h = ha \cup {b[1]}
        BY <2>3, <3>2
      <4> QED BY <4>1, <3>2, <2>1, <2>2, FS_AddElement
    <3> QED BY <3>1, <3>2, <1>9
  <2>5. Len(g) = Len(find) + Len(a) + Len(b)
    <3>0. \A len \in {0, 1} : len <= 1
      OBVIOUS
    <3>1. Len(a) <= 1 /\ Len(b) <= 1
      BY <1>9, <3>0
    <3> QED BY ONLY <3>1, <1>a, <1>8, ConcatTwo, find \in Seq(Tv \cup {NoTv})
  <2>6. Len(find) \in Nat /\ Len(find) <= Cardinality(heard) + (IF ant_valid THEN 0 ELSE 2)
    BY <1>2, LenProperties
  <2> HIDE DEF h
  <2> QED BY <2>0, <2>1, <2>4, <2>5, <2>6, <1>9
<1>12. h \subseteq {Order(m) + TVCH_MIN : m \in 1 .. l}
  <2>1. ASSUME NEW v \in heard PROVE v \in {Order(m) + TVCH_MIN : m \in 1 .. l}
    <3>1. PICK m \in 1 .. n : v = Order(m) + TVCH_MIN
      BY <1>2
    <3>2. m \in 1 .. l
      BY <1>4
    <3> QED BY <3>1, <3>2
  <2>2. ASSUME NEW ch \in locked
        PROVE  Index(ch) + TVCH_MIN \in {Order(m) + TVCH_MIN : m \in 1 .. l}
    <3>1. place(ch) \in 1 .. l /\ Index(ch) = Order(place(ch))
      BY <1>3, <1>4
    <3> QED BY <3>1
  <2> QED BY <2>1, <2>2
<1> HIDE DEF h
<1> QED BY <1>11, <1>12, <1>13, <1>14 DEF g, h, Found

\* Nothing has locked on this antenna yet.
LEMMA NothingFound ==
  ASSUME NEW S, NEW list \in Seq(S), NEW given \in BOOLEAN, Len(list) <= 2, given => list = <<>>
  PROVE  Found(list, {}, 0, given)
<1>1. Cardinality({}) = 0 /\ IsFiniteSet({})
  BY FS_EmptySet
<1>2. given => Len(list) = 0 /\ Distinct(list) /\ Range(list) = {}
  BY DEF Distinct, Range
<1>3. Len(list) \in Nat
  BY LenProperties
<1> QED BY <1>1, <1>2, <1>3 DEF Found

LEMMA NothingFoundYet ==
  /\ find = <<>> /\ heard = {} /\ probed = <<>> /\ ant_valid \in BOOLEAN => ScanFound
  /\ find' = <<>> /\ heard' = {} /\ probed' = <<>> /\ ant_valid' \in BOOLEAN => ScanFound'
<1>1. ASSUME NEW given \in BOOLEAN PROVE Found(<<>>, {}, Len(<<>>), given)
  <2>1. <<>> \in Seq(Tv) /\ Len(<<>>) = 0 /\ Len(<<>>) <= 2
    OBVIOUS
  <2>2. Found(<<>>, {}, 0, given)
    BY ONLY <2>1, NothingFound, given \in BOOLEAN
  <2> QED BY <2>1, <2>2
<1> QED BY <1>1 DEF ScanFound, Gapless

-----------------------------------------------------------------------------
(* scan(): each step preserves the inductive invariant *)

\* Becoming a state that the calls of scan() have left.
LEMMA BecomeScans ==
  ASSUME NEW t, Scans(State, t), Become(t)
  PROVE  /\ IInv' /\ inited' /\ (lost' = 0 => lost = 0)
         /\ active_ant' = t.active_ant /\ active_ant' \in Antenna
<1>1. t \in States /\ Inv(t) /\ t.inited /\ t.active_ant \in Antenna
  BY ScansTypes
<1>3. IInv'
  BY <1>1, BecomeIInv
<1> QED BY <1>1, <1>3 DEF Become, Scans, State

LEMMA ScanState ==
  ASSUME ScanInv
  PROVE  /\ Inv(State) /\ Good(State) /\ State.inited = inited /\ State.opened = opened
         /\ State.lost = lost /\ State.active_ant = active_ant
BY DEF ScanInv, IInv, Inv, State

LEMMA HoldsType ==
  ASSUME NEW value \in [Chan -> BOOLEAN], Holds(value)
  PROVE  reg12a' \in [Chan -> BOOLEAN] /\ (lost = 0 /\ lost' = 0 => reg12a' = value)
BY DEF Holds, Unfollowed

LEMMA WrittenType ==
  ASSUME reg12a \in [Chan -> BOOLEAN], NEW w, NEW ch \in Chan, NEW bit \in BOOLEAN
  PROVE  /\ Written(w, ch, bit) \in [Chan -> BOOLEAN]
         /\ w.ok => Written(w, ch, bit)[ch] = bit
         /\ \A c \in Chan \ {ch} : Written(w, ch, bit)[c] = reg12a[c]
BY DEF Written

LEMMA ChanIs == Chan = {0, 1} /\ 0 \in Chan /\ 1 \in Chan
BY DEF Chan, NUM_CHANNELS

\* Two registers that agree on both demodulators are the same.
LEMMA SameOnBoth ==
  ASSUME NEW f \in [Chan -> BOOLEAN], NEW g \in [Chan -> BOOLEAN], f[0] = g[0], f[1] = g[1]
  PROVE  f = g
BY ChanIs

LEMMA ScanInitInv == ScanInit => ScanInv
<1> SUFFICES ASSUME ScanInit PROVE ScanInv
  OBVIOUS
<1>1. IInv /\ active_ant \in Antenna
  BY InitIInv DEF ScanInit, Init, Antenna, nc, coax
<1>2. /\ pc = "idle" /\ i = 0 /\ j = 0 /\ ant_valid = FALSE /\ reset = TRUE
      /\ find = <<>> /\ chlist = <<>> /\ probed = <<>> /\ heard = {}
      /\ old12a = [ch \in Chan |-> FALSE] /\ reg12a \in [Chan -> BOOLEAN] /\ before = reg12a
  BY DEF ScanInit
<1>3. ScanTypeOK
  <2>1. 0 \in 0 .. (n_ch_freq + NUM_CHANNELS * CH_STEP)
    BY TableSize DEF N, NUM_CHANNELS, CH_STEP
  <2>2. <<>> \in Seq(Tv \cup {NoTv}) /\ <<>> \in Seq(0 .. (n_ch_freq - 1))
    OBVIOUS
  <2>3. old12a \in [Chan -> BOOLEAN] /\ before \in [Chan -> BOOLEAN]
    BY <1>2
  <2> QED BY <1>1, <1>2, <2>1, <2>2, <2>3, ChanIs DEF ScanTypeOK
<1>4. ScanFresh /\ ScanRegister
  BY <1>2 DEF ScanFresh, ScanRegister
<1>5. ScanCoverage /\ ScanFound /\ ScanAntennas
  <2>1. ScanFound
    BY <1>2, <1>3, NothingFoundYet DEF ScanTypeOK
  <2>2. ScanCoverage /\ ScanAntennas
    BY <1>2, TableSize DEF ScanCoverage, ScanAntennas
  <2> QED BY <2>1, <2>2
<1> QED BY <1>1, <1>2, <1>3, <1>4, <1>5 DEF ScanInv

LEMMA StartInv ==
  ASSUME ScanInv, NEW cr_ms, Start(cr_ms)
  PROVE  ScanInv'
<1>1. /\ pc = "idle" /\ inited /\ before' = reg12a
      /\ UNCHANGED <<i, j, find, old12a, chlist, probed, heard>>
      /\ reset' \in BOOLEAN /\ ant_valid' \in BOOLEAN
      /\ Holds(reg12a)
  BY DEF Start
<1>2. /\ pc' \in {"clear", "failed"}
      /\ IInv' /\ inited' /\ (lost' = 0 => lost = 0) /\ active_ant' \in Antenna
  <2>1. CASE UNCHANGED vars
    <3>1. IInv' /\ inited' /\ lost' = lost /\ active_ant' \in Antenna
      BY <2>1, <1>1 DEF ScanInv, ScanTypeOK, IInv, State, vars
    <3>2. pc' \in {"clear", "failed"}
      BY <2>1, ScanState, SetAntennaScans DEF Start
    <3> QED BY <3>1, <3>2
  <2>2. CASE \E r \in set_antenna(State, ant1) :
               Become(r.s) /\ pc' \in IF r.ok THEN {"clear", "failed"} ELSE {"failed"}
    <3>1. ant1 \in Antenna
      BY DEF ant1, Antenna, nc, coax
    <3> QED BY <2>2, <3>1, <1>1, ScanState, SetAntennaScans, BecomeScans
  <2> QED BY <2>1, <2>2 DEF Start
<1>3. /\ i = 0 /\ j = 0 /\ find = <<>> /\ probed = <<>> /\ heard = {} /\ ScanTypeOK
  BY <1>1 DEF ScanInv, ScanFresh
<1>4. reg12a' \in [Chan -> BOOLEAN] /\ (lost' = 0 => reg12a' = reg12a)
  BY <1>1, <1>2, <1>3, HoldsType DEF ScanTypeOK
<1>5. ScanTypeOK'
  BY <1>1, <1>2, <1>3, <1>4 DEF ScanTypeOK
<1>6. ScanFresh' /\ ScanRegister'
  BY <1>1, <1>2, <1>3, <1>4 DEF ScanFresh, ScanRegister
<1>7. ScanCoverage' /\ ScanFound' /\ ScanAntennas'
  BY <1>1, <1>2, <1>3, TableSize, NothingFoundYet DEF ScanCoverage, ScanAntennas
<1> QED BY <1>2, <1>5, <1>6, <1>7 DEF ScanInv

LEMMA Clear12aInv ==
  ASSUME ScanInv, Clear12a
  PROVE  ScanInv'
<1>1. /\ pc = "clear" /\ UNCHANGED <<i, ant_valid, reset, find, chlist, before, probed, heard>>
      /\ i = 0 /\ find = <<>> /\ probed = <<>> /\ heard = {} /\ inited
      /\ ScanTypeOK /\ ScanRegister /\ j \in Chan
  BY DEF Clear12a, ScanInv, ScanFresh, ScanTypeOK
<1>2. PICK g \in Ask(State, Get) :
        \/ /\ ~ g.ok /\ Become(g.s) /\ pc' = "failed" /\ Holds(reg12a)
           /\ UNCHANGED <<j, old12a>>
        \/ /\ g.ok
           /\ old12a' = [old12a EXCEPT ![j] = reg12a[j]]
           /\ \E w \in Ask(g.s, Put) :
                /\ Become(w.s)
                /\ Holds(Written(w, j, FALSE))
                /\ pc' = IF ~ w.ok THEN "failed" ELSE IF j = 0 THEN "clear" ELSE "probe"
                /\ j' = 1 - j
  BY DEF Clear12a
<1>3. Scans(State, g.s)
  BY <1>1, ScanState, AskScans
<1>4. CASE ~ g.ok
  <2>1. /\ IInv' /\ inited' /\ (lost' = 0 => lost = 0) /\ active_ant' \in Antenna
    BY <1>2, <1>3, <1>4, BecomeScans
  <2>2. reg12a' \in [Chan -> BOOLEAN] /\ pc' = "failed" /\ j' = j /\ old12a' = old12a
    BY <1>1, <1>2, <1>4, HoldsType DEF ScanTypeOK
  <2>3. ScanTypeOK' /\ ScanFresh' /\ ScanRegister'
    BY <1>1, <2>1, <2>2 DEF ScanTypeOK, ScanFresh, ScanRegister
  <2>4. ScanCoverage' /\ ScanFound' /\ ScanAntennas'
    BY <1>1, <2>2, TableSize, NothingFoundYet DEF ScanTypeOK, ScanCoverage, ScanAntennas
  <2> QED BY <2>1, <2>2, <2>3, <2>4 DEF ScanInv
<1>5. CASE g.ok
  <2>1. old12a' = [old12a EXCEPT ![j] = reg12a[j]]
    BY <1>2, <1>5
  <2>2. PICK w \in Ask(g.s, Put) :
          /\ Become(w.s)
          /\ Holds(Written(w, j, FALSE))
          /\ pc' = IF ~ w.ok THEN "failed" ELSE IF j = 0 THEN "clear" ELSE "probe"
          /\ j' = 1 - j
    BY <1>2, <1>5
  <2>3. Scans(g.s, w.s)
    BY <1>3, <2>2, AskScans, ScansTypes
  <2>4. /\ IInv' /\ inited' /\ (lost' = 0 => lost = 0) /\ active_ant' \in Antenna
    <3>1. lost' = w.s.lost /\ Scans(State, w.s)
      BY <1>3, <2>2, <2>3, ScansTrans DEF Become
    <3> QED BY <3>1, <2>2, <2>3, BecomeScans DEF Scans
  <2>5. reg12a[j] \in BOOLEAN
    BY <1>1 DEF ScanTypeOK
  <2>6. /\ old12a' \in [Chan -> BOOLEAN] /\ old12a'[j] = reg12a[j]
        /\ \A c \in Chan \ {j} : old12a'[c] = old12a[c]
    BY <1>1, <2>1, <2>5 DEF ScanTypeOK
  <2>7. /\ reg12a' \in [Chan -> BOOLEAN]
        /\ lost' = 0 => \A c \in Chan \ {j} : reg12a'[c] = reg12a[c]
    <3>1. /\ Written(w, j, FALSE) \in [Chan -> BOOLEAN]
          /\ \A c \in Chan \ {j} : Written(w, j, FALSE)[c] = reg12a[c]
      BY <1>1, WrittenType DEF ScanTypeOK
    <3> QED BY <2>2, <2>4, <3>1, HoldsType
  <2>8. /\ pc' \in {"failed", "clear", "probe"} /\ j' \in Chan
        /\ pc' = "probe" => j = 1 /\ j' = 0
        /\ pc' = "clear" => j = 0 /\ j' = 1
    BY <1>1, <2>2, ChanIs
  <2>9. ScanTypeOK' /\ ScanFresh'
    BY <1>1, <2>4, <2>6, <2>7, <2>8 DEF ScanTypeOK, ScanFresh
  <2>10. ScanRegister'
    <3>1. before \in [Chan -> BOOLEAN]
      BY <1>1 DEF ScanTypeOK
    <3>2. CASE pc' = "clear" /\ lost' = 0
      <4>1. reg12a = before /\ old12a'[0] = reg12a[0] /\ reg12a'[1] = reg12a[1]
        BY <1>1, <2>4, <2>5, <2>6, <2>7, <2>8, <3>2, ChanIs DEF ScanRegister
      <4> QED BY <4>1, <1>1, <2>8, <3>2 DEF ScanRegister
    <3>3. CASE pc' = "probe" /\ lost' = 0
      <4>1. /\ old12a[0] = before[0] /\ reg12a[1] = before[1]
            /\ old12a'[0] = old12a[0] /\ old12a'[1] = reg12a[1]
        BY <1>1, <2>4, <2>5, <2>6, <2>8, <3>3, ChanIs DEF ScanRegister
      <4>2. old12a' = before
        BY <4>1, <2>6, <3>1, SameOnBoth
      <4> QED BY <4>2, <1>1, <3>3 DEF ScanRegister
    <3> QED BY <3>2, <3>3, <2>8 DEF ScanRegister
  <2>11. ScanCoverage'
    <3>1. InPass(0, 0)
      <4>1. 0 = 4 * 0 /\ 0 = 2 * 0
        OBVIOUS
      <4> QED BY <4>1 DEF InPass
    <3> QED BY <1>1, <2>8, <3>1, TableSize DEF ScanCoverage
  <2>12. ScanFound' /\ ScanAntennas'
    BY <1>1, <2>8, NothingFoundYet DEF ScanTypeOK, ScanAntennas
  <2> QED BY <2>4, <2>9, <2>10, <2>11, <2>12 DEF ScanInv
<1> QED BY <1>4, <1>5

LEMMA ProbeInv ==
  ASSUME ScanInv, Probe
  PROVE  ScanInv'
<1>1. /\ pc = "probe" /\ UNCHANGED <<j, ant_valid, reset, old12a, chlist, before>>
      /\ j = 0 /\ inited /\ i \in Nat /\ ScanTypeOK /\ ScanRegister /\ ScanCoverage
      /\ ScanFound /\ ScanAntennas /\ n_ch_freq = N /\ reset \in BOOLEAN
  BY DEF Probe, ScanInv, ScanFresh, ScanTypeOK, N
<1>2. PICK r \in TunesAndReads(State) :
        /\ Become(r.s) /\ Holds(reg12a)
        /\ \/ ~ r.ok /\ pc' = "fail" /\ UNCHANGED <<find, heard, probed, i>>
           \/ /\ r.ok
              /\ \E locked \in SUBSET {ch \in Chan : InTable(ch)} :
                   /\ find' = find \o Hit(r.s, 0, locked) \o Hit(r.s, 1, locked)
                   /\ heard' = heard \cup {Index(ch) + TVCH_MIN : ch \in locked}
              /\ probed' = probed \o Turn(0) \o Turn(1)
              /\ i' = NextIndex(i)
              /\ pc' = IF i' >= n_ch_freq THEN "pass" ELSE "probe"
  BY DEF Probe
<1>3. /\ Scans(State, r.s) /\ r.s.active_ant = active_ant /\ r.s \in States
      /\ r.ok /\ Gapless =>
           \A ch \in Chan : InTable(ch) => r.s.tvch[ch] = Index(ch) + TVCH_MIN
  BY <1>1, ScanState, TunesAndReadsScans, ScansTypes
<1>4. /\ IInv' /\ inited' /\ (lost' = 0 => lost = 0)
      /\ active_ant' = active_ant /\ active_ant' \in Antenna
  BY <1>2, <1>3, BecomeScans
<1>5. reg12a' \in [Chan -> BOOLEAN] /\ (lost' = 0 => reg12a' = reg12a)
  BY <1>1, <1>2, <1>4, HoldsType DEF ScanTypeOK
<1>6. pc' \in {"probe", "pass", "fail"}
  BY <1>2
<1>7. ScanFresh' /\ ScanRegister'
  BY <1>1, <1>4, <1>5, <1>6 DEF ScanFresh, ScanRegister
<1>8. CASE ~ r.ok
  <2>1. pc' = "fail" /\ UNCHANGED <<find, heard, probed, i>>
    BY <1>2, <1>8
  <2>2. ScanTypeOK' /\ ScanCoverage' /\ ScanFound' /\ ScanAntennas'
    BY <1>1, <1>4, <1>5, <2>1 DEF ScanTypeOK, ScanCoverage, ScanFound, ScanAntennas
  <2> QED BY <1>4, <1>7, <2>1, <2>2 DEF ScanInv
<1>9. CASE r.ok
  <2>1. PICK locked \in SUBSET {ch \in Chan : InTable(ch)} :
          /\ find' = find \o Hit(r.s, 0, locked) \o Hit(r.s, 1, locked)
          /\ heard' = heard \cup {Index(ch) + TVCH_MIN : ch \in locked}
    BY <1>2, <1>9
  <2>2. /\ probed' = probed \o Turn(0) \o Turn(1) /\ i' = NextIndex(i)
        /\ pc' = IF i' >= N THEN "pass" ELSE "probe"
    BY <1>1, <1>2, <1>9
  <2>3. probed \in Seq(0 .. (N - 1)) /\ find \in Seq(Tv \cup {NoTv})
    BY <1>1 DEF ScanTypeOK
  <2>4. /\ probed' \in Seq(0 .. (N - 1)) /\ Len(probed') <= N /\ Len(probed) \in Nat
        /\ \A m \in 1 .. Len(probed') : probed'[m] = Order(m)
        /\ i' \in 0 .. (N + 4)
        /\ IF i' >= N THEN Len(probed') = N ELSE InPass(i', Len(probed'))
        /\ InTable(0) /\ Index(0) = Order(Len(probed) + 1)
        /\ InTable(1) => Index(1) = Order(Len(probed) + 2)
        /\ Len(probed') = Len(probed) + 1 + IF InTable(1) THEN 1 ELSE 0
    BY <1>1, <2>2, <2>3, TurnCovers
  <2>5. ScanCoverage'
    <3>1. i' \in Int /\ N \in Int
      BY <2>4, TableSize
    <3>2. CASE i' >= N
      <4>1. pc' = "pass" /\ Len(probed') = N /\ Len(probed') <= N
            /\ \A m \in 1 .. Len(probed') : probed'[m] = Order(m)
        BY <2>2, <2>4, <3>2
      <4> QED BY <4>1 DEF ScanCoverage
    <3>3. CASE ~ (i' >= N)
      <4>1. pc' = "probe" /\ i' < N /\ InPass(i', Len(probed')) /\ Len(probed') <= N
            /\ \A m \in 1 .. Len(probed') : probed'[m] = Order(m)
        BY <2>2, <2>4, <3>1, <3>3
      <4> QED BY <4>1 DEF ScanCoverage
    <3> QED BY <3>2, <3>3
  <2>6. locked \in SUBSET Chan /\ (1 \in locked => InTable(1))
    OBVIOUS
  <2>7. /\ find' \in Seq(Tv \cup {NoTv})
        /\ Len(find') = Len(find) + (IF 0 \in locked THEN 1 ELSE 0) + (IF 1 \in locked THEN 1 ELSE 0)
    <3>1. r.s \in States /\ find \in Seq(Tv \cup {NoTv}) /\ locked \in SUBSET Chan
      BY <1>3, <2>3, <2>6
    <3>2. find' = find \o Hit(r.s, 0, locked) \o Hit(r.s, 1, locked)
      BY <2>1
    <3> QED BY ONLY <3>1, <3>2, TurnFinds
  <2>8. heard' \subseteq Tv
    <3>1. ASSUME NEW ch \in locked PROVE Index(ch) + TVCH_MIN \in Tv
      <4>1. Index(ch) \in Nat /\ Index(ch) < N
        BY <1>1, <2>6, TurnIs DEF InTable
      <4> QED BY <4>1, TableSize, TunerAssumption DEF Tv
    <3> QED BY <1>1, <2>1, <3>1 DEF ScanTypeOK
  <2>9. ScanTypeOK'
    <3>1. i' \in 0 .. (n_ch_freq + NUM_CHANNELS * CH_STEP)
          /\ probed' \in Seq(0 .. (n_ch_freq - 1))
      BY <1>1, <2>4 DEF NUM_CHANNELS, CH_STEP
    <3> QED BY <1>1, <1>4, <1>5, <1>6, <2>7, <2>8, <3>1 DEF ScanTypeOK
  <2>10. ScanFound'
    <3> SUFFICES ASSUME Gapless PROVE Found(find', heard', Len(probed'), ant_valid)
      BY <1>1 DEF ScanFound, Gapless
    <3>1. \A ch \in locked : InTable(ch) /\ r.s.tvch[ch] = Index(ch) + TVCH_MIN
      BY <1>3, <1>9, <2>6
    <3>2. Len(probed') \in Nat
      BY <2>4
    <3>3. ScanFound /\ i \in Nat /\ ant_valid \in BOOLEAN
      BY <1>1 DEF ScanTypeOK
    <3> QED BY <1>3, <2>1, <2>3, <2>4, <2>6, <3>1, <3>2, <3>3, TurnFindsExactly
  <2>11. ScanAntennas'
    <3>1. Len(find) \in Nat /\ Len(find) <= Len(probed) + IF ant_valid THEN 0 ELSE 2
      BY <1>1, <2>3, LenProperties DEF ScanAntennas
    <3>2. Len(find') <= Len(probed') + IF ant_valid THEN 0 ELSE 2
      <4> DEFINE h0 == IF 0 \in locked THEN 1 ELSE 0
                 h1 == IF 1 \in locked THEN 1 ELSE 0
                 t1 == IF InTable(1) THEN 1 ELSE 0
      <4>1. h0 \in {0, 1} /\ h1 \in {0, 1} /\ t1 \in {0, 1} /\ h1 <= t1
        BY <2>6
      <4>2. Len(find') = Len(find) + h0 + h1 /\ Len(probed') = Len(probed) + 1 + t1
        BY <2>4, <2>7
      <4>3. Len(probed) \in Nat
        BY <2>4
      <4> HIDE DEF h0, h1, t1
      <4> QED BY ONLY <3>1, <4>1, <4>2, <4>3
    <3>3. pc' \in {"probe", "pass"} /\ ant_valid' = ant_valid
      BY <1>1, <2>2
    <3> QED BY <3>2, <3>3 DEF ScanAntennas
  <2> QED BY <1>4, <1>6, <1>7, <2>5, <2>9, <2>10, <2>11 DEF ScanInv
<1> QED BY <1>8, <1>9

LEMMA EndPassInv ==
  ASSUME ScanInv, EndPass
  PROVE  ScanInv'
<1>1. /\ pc = "pass" /\ UNCHANGED <<j, ant_valid, reset, find, old12a, chlist, before>>
      /\ j = 0 /\ inited /\ ScanTypeOK /\ ScanRegister /\ ScanCoverage
      /\ ScanFound /\ ScanAntennas /\ IInv
      /\ Len(find) \in Nat /\ find \in Seq(Tv \cup {NoTv})
  BY LenProperties DEF EndPass, ScanInv, ScanFresh, ScanTypeOK
<1>2. CASE Enough /\ pc' = "restore" /\ UNCHANGED <<vars, i, reg12a, probed, heard>>
  <2>1. IInv' /\ inited' /\ lost' = lost /\ active_ant' = active_ant
    BY <1>1, <1>2 DEF IInv, State, vars
  <2>2. ScanTypeOK' /\ ScanFresh' /\ ScanRegister' /\ ScanCoverage' /\ ScanFound'
    BY <1>1, <1>2, <2>1 DEF ScanTypeOK, ScanFresh, ScanRegister, ScanCoverage, ScanFound
  <2>3. ScanAntennas'
    BY <1>1, <1>2, <2>1 DEF ScanAntennas, Enough
  <2> QED BY <1>2, <2>1, <2>2, <2>3 DEF ScanInv
<1>3. CASE ~ Enough
  <2>1. PICK r \in Then(set_amp(State, 0, off), LAMBDA a : Then(set_amp(a, 1, off),
                      LAMBDA b : set_antenna(b, active_ant + 1))) :
          Become(r.s) /\ pc' = IF r.ok THEN "probe" ELSE "failed"
    BY <1>3 DEF EndPass
  <2>2. i' = 0 /\ probed' = <<>> /\ heard' = {} /\ Holds(reg12a)
    BY <1>3 DEF EndPass
  <2>3. ~ ant_valid /\ Len(find) <= 2 /\ active_ant + 1 \in Antenna
    BY <1>1, <1>3 DEF Enough, ScanTypeOK, Antenna, coax, nc
  <2>4. /\ IInv' /\ inited' /\ (lost' = 0 => lost = 0) /\ active_ant' \in Antenna
    BY <1>1, <2>1, <2>3, ScanState, NextAntennaScans, BecomeScans
  <2>5. reg12a' \in [Chan -> BOOLEAN] /\ (lost' = 0 => reg12a' = reg12a)
    BY <1>1, <2>2, <2>4, HoldsType DEF ScanTypeOK
  <2>6. pc' \in {"probe", "failed"}
    BY <2>1
  <2>7. ScanTypeOK'
    <3>1. 0 \in 0 .. (n_ch_freq + NUM_CHANNELS * CH_STEP)
      BY TableSize DEF N, NUM_CHANNELS, CH_STEP
    <3> QED BY <1>1, <2>2, <2>4, <2>5, <2>6, <3>1 DEF ScanTypeOK
  <2>8. ScanFresh' /\ ScanRegister'
    BY <1>1, <2>4, <2>5, <2>6 DEF ScanFresh, ScanRegister
  <2>9. ScanCoverage'
    <3>1. InPass(0, 0)
      <4>1. 0 = 4 * 0 /\ 0 = 2 * 0
        OBVIOUS
      <4> QED BY <4>1 DEF InPass
    <3> QED BY <2>2, <2>6, <3>1, TableSize DEF ScanCoverage
  <2>10. ScanFound' /\ ScanAntennas'
    <3>1. Found(find, {}, 0, FALSE)
      BY <1>1, <2>3, NothingFound
    <3>2. /\ find' = find /\ heard' = {} /\ ant_valid' = ant_valid /\ ant_valid = FALSE
          /\ probed' = <<>> /\ Len(<<>>) = 0
      BY <1>1, <2>2, <2>3 DEF ScanTypeOK
    <3>3. ScanFound'
      BY <3>1, <3>2 DEF ScanFound, Gapless
    <3> QED BY <1>1, <2>2, <2>3, <2>6, <3>3 DEF ScanAntennas
  <2> QED BY <2>4, <2>6, <2>7, <2>8, <2>9, <2>10 DEF ScanInv
<1> QED BY <1>2, <1>3 DEF EndPass

LEMMA Restore12aInv ==
  ASSUME ScanInv, Restore12a
  PROVE  ScanInv'
<1>1. /\ pc = "restore" /\ UNCHANGED <<i, ant_valid, reset, find, old12a, before, probed, heard>>
      /\ inited /\ ScanTypeOK /\ ScanRegister /\ ScanCoverage /\ ScanFound /\ ScanAntennas
      /\ j \in Chan /\ find \in Seq(Tv \cup {NoTv})
      /\ old12a \in [Chan -> BOOLEAN] /\ before \in [Chan -> BOOLEAN]
      /\ reg12a \in [Chan -> BOOLEAN]
  BY DEF Restore12a, ScanInv, ScanTypeOK
<1>2. PICK w \in Ask(State, Put) :
        /\ Become(w.s)
        /\ Holds(Written(w, j, old12a[j]))
        /\ j' = 1 - j
        /\ pc' = IF ~ w.ok THEN "failed" ELSE IF j = 0 THEN "restore" ELSE "done"
        /\ chlist' = IF pc' = "done" THEN Sorted(find) ELSE chlist
  BY DEF Restore12a
<1>3. /\ IInv' /\ inited' /\ (lost' = 0 => lost = 0)
      /\ active_ant' = active_ant /\ active_ant' \in Antenna
  <2>1. Scans(State, w.s) /\ w.s.active_ant = active_ant
    BY <1>1, ScanState, AskScans
  <2> QED BY <1>2, <2>1, BecomeScans
<1>4. /\ reg12a' \in [Chan -> BOOLEAN]
      /\ lost' = 0 => /\ w.ok => reg12a'[j] = old12a[j]
                      /\ \A c \in Chan \ {j} : reg12a'[c] = reg12a[c]
  <2>1. /\ Written(w, j, old12a[j]) \in [Chan -> BOOLEAN]
        /\ w.ok => Written(w, j, old12a[j])[j] = old12a[j]
        /\ \A c \in Chan \ {j} : Written(w, j, old12a[j])[c] = reg12a[c]
    BY <1>1 DEF Written
  <2> QED BY <1>2, <1>3, <2>1, HoldsType
<1>5. /\ pc' \in {"failed", "restore", "done"} /\ j' \in Chan
      /\ pc' = "restore" => w.ok /\ j = 0 /\ j' = 1
      /\ pc' = "done" => w.ok /\ j = 1
  BY <1>1, <1>2, ChanIs
<1>6. chlist' \in Seq(Tv \cup {NoTv}) /\ (pc' = "done" => chlist' = Sorted(find))
  <2>1. Sorted(find) \in Seq(Tv \cup {NoTv})
    <3>1. Tv \cup {NoTv} \subseteq Int
      BY TunerAssumption DEF Tv, NoTv
    <3> QED BY <1>1, <3>1, SortedIsExact
  <2> QED BY <1>1, <1>2, <2>1 DEF ScanTypeOK
<1>7. ScanTypeOK' /\ ScanFresh'
  BY <1>1, <1>3, <1>4, <1>5, <1>6 DEF ScanTypeOK, ScanFresh
<1>8. ScanRegister'
  <2>1. CASE pc' = "restore" /\ lost' = 0
    BY <1>1, <1>3, <1>4, <1>5, <2>1, ChanIs DEF ScanRegister
  <2>2. CASE pc' = "done" /\ lost' = 0
    <3>1. reg12a'[0] = before[0] /\ reg12a'[1] = before[1]
      BY <1>1, <1>3, <1>4, <1>5, <2>2, ChanIs DEF ScanRegister
    <3>2. reg12a' = before
      BY <1>1, <1>4, <3>1, SameOnBoth
    <3> QED BY <1>1, <2>2, <3>2 DEF ScanRegister
  <2> QED BY <1>5, <2>1, <2>2 DEF ScanRegister
<1>9. ScanCoverage' /\ ScanFound' /\ ScanAntennas'
  BY <1>1, <1>3, <1>5, <1>6 DEF ScanCoverage, ScanFound, ScanAntennas
<1> QED BY <1>3, <1>5, <1>7, <1>8, <1>9 DEF ScanInv

LEMMA FailPathInv ==
  ASSUME ScanInv, FailPath
  PROVE  ScanInv'
<1>1. /\ pc = "fail"
      /\ UNCHANGED <<i, ant_valid, reset, find, old12a, chlist, before, probed, heard>>
      /\ inited /\ ScanTypeOK /\ ScanCoverage /\ ScanFound /\ ScanAntennas
      /\ j \in Chan /\ old12a \in [Chan -> BOOLEAN] /\ reg12a \in [Chan -> BOOLEAN]
  BY DEF FailPath, ScanInv, ScanTypeOK
<1>2. PICK w \in Ask(State, Put) :
        /\ Become(w.s)
        /\ Holds(Written(w, j, old12a[j]))
        /\ j' = 1 - j
        /\ pc' = IF j = 0 THEN "fail" ELSE "failed"
  BY DEF FailPath
<1>3. /\ IInv' /\ inited' /\ active_ant' \in Antenna
  <2>1. Scans(State, w.s)
    BY <1>1, ScanState, AskScans
  <2> QED BY <1>2, <2>1, BecomeScans
<1>4. reg12a' \in [Chan -> BOOLEAN] /\ pc' \in {"fail", "failed"} /\ j' \in Chan
  <2>1. Written(w, j, old12a[j]) \in [Chan -> BOOLEAN]
    BY <1>1, WrittenType
  <2> QED BY <1>1, <1>2, <2>1, HoldsType, ChanIs
<1>5. ScanTypeOK' /\ ScanFresh' /\ ScanRegister'
  BY <1>1, <1>3, <1>4 DEF ScanTypeOK, ScanFresh, ScanRegister
<1>6. ScanCoverage' /\ ScanFound' /\ ScanAntennas'
  BY <1>1, <1>4 DEF ScanCoverage, ScanFound, ScanAntennas
<1> QED BY <1>3, <1>4, <1>5, <1>6 DEF ScanInv

LEMMA TakeResultInv ==
  ASSUME ScanInv, TakeResult
  PROVE  ScanInv'
<1>1. IInv' /\ ScanTypeOK /\ active_ant' = active_ant
  BY DEF TakeResult, ScanInv, IInv, State, vars
<1>2. /\ pc' = "idle" /\ i' = 0 /\ j' = 0 /\ find' = <<>> /\ chlist' = <<>> /\ probed' = <<>>
      /\ heard' = {} /\ ant_valid' = FALSE /\ reset' = TRUE
      /\ old12a' = [ch \in Chan |-> FALSE] /\ before' = reg12a /\ reg12a' = reg12a
  BY DEF TakeResult
<1>3. ScanTypeOK'
  <2>1. 0 \in 0 .. (n_ch_freq + NUM_CHANNELS * CH_STEP)
    BY TableSize DEF N, NUM_CHANNELS, CH_STEP
  <2>2. <<>> \in Seq(Tv \cup {NoTv}) /\ <<>> \in Seq(0 .. (n_ch_freq - 1))
    OBVIOUS
  <2>3. [ch \in Chan |-> FALSE] \in [Chan -> BOOLEAN] /\ reg12a \in [Chan -> BOOLEAN]
        /\ active_ant \in Antenna
    BY <1>1 DEF ScanTypeOK
  <2> QED BY <1>1, <1>2, <2>1, <2>2, <2>3, ChanIs DEF ScanTypeOK
<1>4. ScanFresh' /\ ScanRegister'
  BY <1>2 DEF ScanFresh, ScanRegister
<1>5. ScanCoverage' /\ ScanFound' /\ ScanAntennas'
  <2>1. ScanFound'
    BY <1>2, <1>3, NothingFoundYet DEF ScanTypeOK
  <2>2. ScanCoverage' /\ ScanAntennas'
    BY <1>2, TableSize DEF ScanCoverage, ScanAntennas
  <2> QED BY <2>1, <2>2
<1> QED BY <1>1, <1>2, <1>3, <1>4, <1>5 DEF ScanInv

LEMMA ClientInv ==
  ASSUME ScanInv, Client
  PROVE  ScanInv'
<1>1. /\ pc = "idle" /\ Holds(reg12a)
      /\ UNCHANGED <<pc, i, j, ant_valid, reset, find, old12a, chlist, before, probed, heard>>
      /\ ScanTypeOK /\ ScanFresh /\ ScanCoverage /\ ScanFound /\ ScanAntennas
  BY DEF Client, ScanInv
<1>2. IInv'
  BY NextIInv DEF Client, Next, ScanInv
<1>3. active_ant' \in Antenna
  BY <1>2 DEF IInv, Inv, Good, States, State
<1>4. reg12a' \in [Chan -> BOOLEAN]
  BY <1>1, HoldsType DEF ScanTypeOK
<1>5. ScanTypeOK' /\ ScanFresh' /\ ScanRegister'
  BY <1>1, <1>3, <1>4 DEF ScanTypeOK, ScanFresh, ScanRegister
<1>6. ScanCoverage' /\ ScanFound' /\ ScanAntennas'
  BY <1>1 DEF ScanCoverage, ScanFound, ScanAntennas
<1> QED BY <1>1, <1>2, <1>5, <1>6 DEF ScanInv

LEMMA NextScanInv == ScanInv /\ [ScanNext]_allVars => ScanInv'
<1> SUFFICES ASSUME ScanInv, [ScanNext]_allVars PROVE ScanInv'
  OBVIOUS
<1>1. CASE ScanStep
  BY <1>1, Clear12aInv, ProbeInv, EndPassInv, Restore12aInv, FailPathInv DEF ScanStep
<1>2. CASE TakeResult
  BY <1>2, TakeResultInv
<1>3. CASE Client
  BY <1>3, ClientInv
<1>4. CASE \E cr_ms \in {0, 20, 21} : Start(cr_ms)
  BY <1>4, StartInv
<1>5. CASE UNCHANGED allVars
  BY <1>5 DEF allVars, vars, scanVars, ScanInv, IInv, State, ScanTypeOK, ScanFresh,
              ScanRegister, ScanCoverage, ScanFound, ScanAntennas
<1> QED BY <1>1, <1>2, <1>3, <1>4, <1>5 DEF ScanNext

THEOREM SpecScanInv == ScanSpec => []ScanInv
<1>1. ScanInit => ScanInv
  BY ScanInitInv
<1>2. ScanInv /\ [ScanNext]_allVars => ScanInv'
  BY NextScanInv
<1> QED BY <1>1, <1>2, PTL DEF ScanSpec

-----------------------------------------------------------------------------

\* What is proved of the front end for its own interface holds through a scan,
\* which calls the same functions half way into each other's failures: the device
\* follows the record and the inputs are those of the active antenna.
THEOREM FrontEndSurvivesScan ==
  ScanSpec => [](TypeOK /\ NoBacklog /\ HardwareFollowsRecord /\ InputFollowsAntenna
                        /\ TunedToRecord)
<1>1. ScanInv => TypeOK /\ NoBacklog /\ HardwareFollowsRecord /\ InputFollowsAntenna
                        /\ TunedToRecord
  <2> SUFFICES ASSUME ScanInv
               PROVE  TypeOK /\ NoBacklog /\ HardwareFollowsRecord /\ InputFollowsAntenna
                        /\ TunedToRecord
    OBVIOUS
  <2>1. IInv
    BY DEF ScanInv
  <2>2. TypeOK
    BY <2>1 DEF IInv, Inv, Good, State, States, Tunings, TypeOK
  <2>3. NoBacklog
    BY <2>1 DEF IInv, Inv, Good, Backlog, State, NoBacklog
  <2>4. HardwareFollowsRecord
    BY <2>1 DEF IInv, Inv, Follows, State, HardwareFollowsRecord
  <2>5. InputFollowsAntenna
    BY <2>1 DEF IInv, Inv, Listens, Right, State, InputFollowsAntenna
  <2>6. TunedToRecord
    BY <2>1 DEF IInv, Inv, Tracks, TracksOne, State, TunedToRecord
  <2> QED BY <2>2, <2>3, <2>4, <2>5, <2>6
<1> QED BY <1>1, SpecScanInv, PTL

\* The state of scan() is well typed for any table and any answers missed.
THEOREM ScanTypeCorrect == ScanSpec => []ScanTypeOK
<1>1. ScanInv => ScanTypeOK
  BY DEF ScanInv
<1> QED BY <1>1, SpecScanInv, PTL

\* A pass probes every index of the table once, whatever the length of the table
\* and however its even and odd halves divide between the demodulators.
THEOREM PassCovers == ScanSpec => []PassCoversTable
<1>1. ScanInv => PassCoversTable
  <2> SUFFICES ASSUME ScanInv, pc = "pass"
               PROVE  Len(probed) = n_ch_freq /\ Range(probed) = 0 .. (n_ch_freq - 1)
    BY DEF PassCoversTable
  <2>1. /\ Len(probed) = N /\ \A m \in 1 .. N : probed[m] = Order(m)
        /\ probed \in Seq(0 .. (N - 1)) /\ n_ch_freq = N
    BY DEF ScanInv, ScanCoverage, ScanTypeOK, N
  <2>2. Range(probed) = {Order(m) : m \in 1 .. N}
    <3>1. DOMAIN probed = 1 .. N
      BY <2>1, LenProperties
    <3> QED BY <2>1, <3>1 DEF Range
  <2> QED BY <2>1, <2>2, OrderIsExact
<1> QED BY <1>1, SpecScanInv, PTL

\* A scan that returned 0 and missed no answer has put register 0x12a of both
\* demodulators back, through any number of passes and antennas.
THEOREM Restores == ScanSpec => []Restored12a
<1>1. ScanInv => Restored12a
  BY DEF ScanInv, ScanRegister, Restored12a
<1> QED BY <1>1, SpecScanInv, PTL

\* With the antenna given, the list is in increasing order, without repetition,
\* and names exactly the channels that locked, for any table without gaps.
THEOREM ListIsExact == ScanSpec => []ListIsWhatLocked
<1>1. ScanInv => ListIsWhatLocked
  <2> SUFFICES ASSUME ScanInv, Gapless, pc = "done", ant_valid
               PROVE  /\ \A m \in 1 .. Len(chlist) - 1 : chlist[m] < chlist[m + 1]
                      /\ Range(chlist) = heard
    BY DEF ListIsWhatLocked
  <2>1. /\ chlist = Sorted(find) /\ find \in Seq(Tv \cup {NoTv})
        /\ Distinct(find) /\ Range(find) = heard
    BY DEF ScanInv, ScanAntennas, ScanFound, Found, ScanTypeOK
  <2>2. Tv \cup {NoTv} \subseteq Int
    BY TunerAssumption DEF Tv, NoTv
  <2> QED BY <2>1, <2>2, SortedIsExact
<1> QED BY <1>1, SpecScanInv, PTL

\* The list holds all that locked on the antenna a scan leaves selected, and at most
\* two entries more, however many antennas were tried and whatever locked on them.
THEOREM ListIsOfLastAntenna == ScanSpec => []ListOfLastAntenna
<1>1. ScanInv => ListOfLastAntenna
  <2> SUFFICES ASSUME ScanInv, Gapless, pc = "done"
               PROVE  /\ heard \subseteq Range(chlist)
                      /\ Len(chlist) <= Cardinality(heard) + IF ant_valid THEN 0 ELSE 2
    BY DEF ListOfLastAntenna
  <2>1. /\ chlist = Sorted(find) /\ find \in Seq(Tv \cup {NoTv})
        /\ Found(find, heard, Len(probed), ant_valid)
    BY DEF ScanInv, ScanAntennas, ScanFound, ScanTypeOK
  <2>2. Tv \cup {NoTv} \subseteq Int
    BY TunerAssumption DEF Tv, NoTv
  <2>3. Len(chlist) = Len(find) /\ Range(chlist) = Range(find)
    BY <2>1, <2>2, SortedIsExact
  <2> QED BY <2>1, <2>3 DEF Found
<1> QED BY <1>1, SpecScanInv, PTL

\* With the antenna given, find[] has room for all that a scan writes to it; when the
\* antenna is detected as well, it is never written more than two entries past its end.
THEOREM FindFitsGivenAntenna ==
  ScanSpec => [](/\ ant_valid => FindFits
                 /\ Len(find) <= n_ch_freq + 2)
<1>1. ScanInv => /\ ant_valid => FindFits
                 /\ Len(find) <= n_ch_freq + 2
  <2> SUFFICES ASSUME ScanInv
               PROVE  Len(find) <= n_ch_freq + IF ant_valid THEN 0 ELSE 2
    BY TableSize, LenProperties DEF FindFits, ScanInv, ScanTypeOK, N
  <2>1. /\ Len(find) \in Nat /\ Len(probed) \in Nat /\ Len(probed) <= N
        /\ Len(find) <= Len(probed) + IF ant_valid THEN 0 ELSE 2
    BY LenProperties DEF ScanInv, ScanTypeOK, ScanCoverage, ScanAntennas
  <2> QED BY <2>1, TableSize DEF N
<1> QED BY <1>1, SpecScanInv, PTL

-----------------------------------------------------------------------------
(* scan() ends *)

\* The turns of the passes over the antennas to come.
LEMMA PassesLeft ==
  ASSUME NEW a \in Antenna, NEW p \in Nat
  PROVE  /\ (coax - a) * p \in Nat /\ (coax - a) * p <= 3 * p
         /\ a + 1 \in Antenna => (coax - (a + 1)) * p + p = (coax - a) * p
<1>1. CASE a = 0
  BY <1>1 DEF coax
<1>2. CASE a = 1
  BY <1>2 DEF coax
<1>3. CASE a = 2
  BY <1>3 DEF coax
<1>4. CASE a = 3
  BY <1>4 DEF coax, Antenna, nc
<1> QED BY <1>1, <1>2, <1>3, <1>4 DEF Antenna, nc, coax

LEMMA Clear12aAdvances ==
  ASSUME ScanInv, ScanInv', Clear12a
  PROVE  StepsLeft' \in 0 .. (StepsLeft - 1)
<1>1. /\ pc = "clear" /\ j \in Chan
      /\ pc' = "failed" \/ (pc' = "clear" /\ j = 0 /\ j' = 1) \/ (pc' = "probe" /\ j' = 0)
      /\ probed' = <<>> /\ active_ant' \in Antenna
  <2>1. /\ pc = "clear" /\ j \in {0, 1} /\ probed' = <<>>
        /\ pc' = "failed" \/ (pc' \in {"clear", "probe"} /\ j' = 1 - j)
        /\ pc' = "clear" => j = 0
        /\ pc' = "probe" => j # 0
    BY ChanIs DEF Clear12a, ScanInv, ScanFresh, ScanTypeOK
  <2>2. active_ant' \in Antenna
    BY DEF ScanInv, ScanTypeOK
  <2> QED BY <2>1, <2>2, ChanIs
<1>2. N + 2 \in Nat /\ n_ch_freq = N /\ N \in Nat /\ j \in 0 .. 1 /\ 0 <= 1
  BY <1>1, TableSize, ChanIs DEF N
<1>3. StepsLeft = 4 * (N + 2) + 4 - j
  BY <1>1, <1>2 DEF StepsLeft
<1>4. CASE pc' = "failed"
  <2>1. StepsLeft' = 0
    BY <1>4 DEF StepsLeft
  <2> QED BY <1>2, <1>3, <2>1
<1>5. CASE pc' = "clear" /\ j = 0 /\ j' = 1
  <2>1. StepsLeft' = 4 * (N + 2) + 4 - 1
    BY <1>2, <1>5 DEF StepsLeft, n_ch_freq, N
  <2> QED BY <1>2, <1>3, <1>5, <2>1
<1>6. CASE pc' = "probe" /\ j' = 0
  <2>1. StepsLeft' = (coax - active_ant') * (N + 2) + N - 0 + 4
    BY <1>1, <1>2, <1>6 DEF StepsLeft, n_ch_freq, N
  <2>2. (coax - active_ant') * (N + 2) \in Nat /\ (coax - active_ant') * (N + 2) <= 3 * (N + 2)
    BY <1>1, <1>2, PassesLeft
  <2> QED BY <1>2, <1>3, <2>1, <2>2
<1> QED BY <1>1, <1>4, <1>5, <1>6

LEMMA ProbeAdvances ==
  ASSUME ScanInv, ScanInv', Probe
  PROVE  StepsLeft' \in 0 .. (StepsLeft - 1)
<1>1. /\ pc = "probe" /\ j = 0 /\ j' = 0 /\ inited /\ active_ant \in Antenna
      /\ i \in Nat /\ probed \in Seq(0 .. (N - 1)) /\ ScanCoverage /\ reset \in BOOLEAN
      /\ Len(probed) \in Nat /\ Len(probed) <= N
  BY LenProperties DEF Probe, ScanInv, ScanFresh, ScanTypeOK, ScanCoverage, N
<1>2. PICK r \in TunesAndReads(State) :
        /\ Become(r.s)
        /\ \/ ~ r.ok /\ pc' = "fail"
           \/ /\ r.ok
              /\ probed' = probed \o Turn(0) \o Turn(1)
              /\ pc' = IF i' >= n_ch_freq THEN "pass" ELSE "probe"
  BY DEF Probe
<1>3. active_ant' = active_ant
  <2>1. Scans(State, r.s) /\ r.s.active_ant = active_ant
    BY <1>1, ScanState, TunesAndReadsScans
  <2> QED BY <1>2, <2>1, BecomeScans
<1>4. n_ch_freq = N /\ N \in Nat /\ N + 2 \in Nat
  BY TableSize DEF N
<1> DEFINE left == (coax - active_ant) * (N + 2)
<1>5. left \in Nat
  BY <1>1, <1>4, PassesLeft
<1>6. StepsLeft = left + N - Len(probed) + 4
  BY <1>1, <1>4 DEF StepsLeft
<1>7. CASE pc' = "fail"
  <2>1. StepsLeft' = 2
    BY <1>1, <1>7 DEF StepsLeft
  <2> HIDE DEF left
  <2> QED BY <1>1, <1>4, <1>5, <1>6, <2>1
<1>8. CASE r.ok /\ pc' \in {"pass", "probe"}
  <2>1. /\ Len(probed') = Len(probed) + 1 + IF InTable(1) THEN 1 ELSE 0
        /\ Len(probed') <= N
    BY <1>1, <1>2, <1>8, TurnCovers
  <2>2. Len(probed') \in Nat /\ Len(probed') > Len(probed)
    BY <1>1, <2>1
  <2>3. CASE pc' = "pass"
    <3>1. StepsLeft' = left + 3
      BY <1>3, <1>4, <2>3 DEF StepsLeft, n_ch_freq, N
    <3> HIDE DEF left
    <3> QED BY <1>1, <1>4, <1>5, <1>6, <3>1
  <2>4. CASE pc' = "probe"
    <3>1. StepsLeft' = left + N - Len(probed') + 4
      BY <1>3, <1>4, <2>4 DEF StepsLeft, n_ch_freq, N
    <3> HIDE DEF left
    <3> QED BY <1>1, <1>4, <1>5, <1>6, <2>1, <2>2, <3>1
  <2> QED BY <1>8, <2>3, <2>4
<1> QED BY <1>2, <1>7, <1>8

LEMMA EndPassAdvances ==
  ASSUME ScanInv, EndPass
  PROVE  StepsLeft' \in 0 .. (StepsLeft - 1)
<1>1. /\ pc = "pass" /\ j = 0 /\ j' = 0 /\ inited /\ active_ant \in Antenna
  BY DEF EndPass, ScanInv, ScanFresh, ScanTypeOK
<1>2. n_ch_freq = N /\ N \in Nat /\ N + 2 \in Nat
  BY TableSize DEF N
<1> DEFINE left == (coax - active_ant) * (N + 2)
<1>3. left \in Nat
  BY <1>1, <1>2, PassesLeft
<1>4. StepsLeft = left + 3
  BY <1>1, <1>2 DEF StepsLeft
<1>5. CASE Enough /\ pc' = "restore"
  <2>1. StepsLeft' = 2
    BY <1>1, <1>5 DEF StepsLeft
  <2> HIDE DEF left
  <2> QED BY <1>3, <1>4, <2>1
<1>6. CASE ~ Enough
  <2>1. PICK r \in Then(set_amp(State, 0, off), LAMBDA a : Then(set_amp(a, 1, off),
                      LAMBDA b : set_antenna(b, active_ant + 1))) :
          Become(r.s) /\ pc' = IF r.ok THEN "probe" ELSE "failed"
    BY <1>6 DEF EndPass
  <2>2. probed' = <<>>
    BY <1>6 DEF EndPass
  <2>3. active_ant + 1 \in Antenna
    BY <1>1, <1>6 DEF Enough, Antenna, coax, nc
  <2>4. r.ok => active_ant' = active_ant + 1
    <3>1. Scans(State, r.s) /\ (r.ok => r.s.active_ant = active_ant + 1)
      BY <1>1, <2>1, <2>3, ScanState, NextAntennaScans
    <3> QED BY <2>1, <3>1, BecomeScans
  <2>5. CASE ~ r.ok
    <3>1. StepsLeft' = 0
      BY <2>1, <2>5 DEF StepsLeft
    <3> HIDE DEF left
    <3> QED BY <1>3, <1>4, <3>1
  <2>6. CASE r.ok
    <3>1. StepsLeft' = (coax - (active_ant + 1)) * (N + 2) + N - 0 + 4
      BY <1>2, <2>1, <2>2, <2>4, <2>6 DEF StepsLeft, n_ch_freq, N
    <3>2. /\ (coax - (active_ant + 1)) * (N + 2) \in Nat
          /\ (coax - (active_ant + 1)) * (N + 2) + (N + 2) = left
      BY <1>1, <1>2, <2>3, PassesLeft
    <3> HIDE DEF left
    <3> QED BY <1>2, <1>3, <1>4, <3>1, <3>2
  <2> QED BY <2>5, <2>6
<1> QED BY <1>5, <1>6 DEF EndPass

LEMMA LastLoopsAdvance ==
  ASSUME ScanInv, Restore12a \/ FailPath
  PROVE  StepsLeft' \in 0 .. (StepsLeft - 1)
<1>1. /\ pc \in {"restore", "fail"} /\ j \in 0 .. 1
      /\ pc' \in {"failed", "done"} \/ (pc' \in {"restore", "fail"} /\ j = 0 /\ j' = 1)
  BY ChanIs DEF Restore12a, FailPath, ScanInv, ScanTypeOK
<1>2. StepsLeft = 2 - j
  BY <1>1 DEF StepsLeft
<1>3. CASE pc' \in {"failed", "done"}
  <2>1. StepsLeft' = 0
    BY <1>3 DEF StepsLeft
  <2> QED BY <1>1, <1>2, <2>1
<1>4. CASE pc' \in {"restore", "fail"} /\ j = 0 /\ j' = 1
  <2>1. StepsLeft' = 1
    BY <1>4 DEF StepsLeft
  <2> QED BY <1>2, <1>4, <2>1
<1> QED BY <1>1, <1>3, <1>4

\* Every step of scan() leaves fewer steps to take, for a table of any length, any
\* number of failures, and whatever locks: at most 4 * (n_ch_freq + 2) + 4 in all.
THEOREM AlwaysAdvances == ScanSpec => ScanAdvances
<1>1. ASSUME ScanInv, ScanInv', [ScanNext]_allVars
      PROVE  [pc = "idle" \/ Returned \/ StepsLeft' \in 0 .. (StepsLeft - 1)]_allVars
  <2>1. CASE ScanStep
    BY <1>1, <2>1, Clear12aAdvances, ProbeAdvances, EndPassAdvances, LastLoopsAdvance DEF ScanStep
  <2>2. CASE TakeResult
    BY <2>2 DEF TakeResult
  <2>3. CASE Client \/ \E cr_ms \in {0, 20, 21} : Start(cr_ms)
    BY <2>3 DEF Client, Start
  <2> QED BY <1>1, <2>1, <2>2, <2>3 DEF ScanNext
<1> QED BY <1>1, SpecScanInv, PTL DEF ScanSpec, ScanAdvances
=============================================================================
