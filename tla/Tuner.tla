------------------------------- MODULE Tuner -------------------------------
(***************************************************************************)
(* The front end of one Sezmi tuner: class tuner of tuner.cpp and tuner.h  *)
(* (antenna, amplifier inputs, tuned channels), the request/answer calls   *)
(* of socket.cpp that carry its commands over a TCP connection, and the    *)
(* device at the other end (external).                                     *)
(*                                                                         *)
(* A C++ function is an operator of the same name that maps the state it   *)
(* is called in, a record, to the set of its possible results [s, ok]: the *)
(* state it leaves and whether it returned 0.  A step of Next is one call  *)
(* of the class's public interface, or the device catching up.             *)
(***************************************************************************)
EXTENDS Integers, Sequences

CONSTANTS
  TVCH_MIN, TVCH_MAX,   \* the range of TV channels
  ch_freq,              \* the frequency table, in MHz, indexed from 0
  WildFreq,             \* what a read past the end of ch_freq may return
  Asked,                \* the TV channels the client asks each demodulator for
  AskedAntenna,         \* the antennas the client asks for
  MaxLost               \* bound: calls of one connection that miss their answer

NoTv == -1              \* (unsigned) -1

ASSUME TunerAssumption ==
  /\ TVCH_MIN \in Nat /\ TVCH_MAX \in Nat /\ TVCH_MIN <= TVCH_MAX
  /\ ch_freq \in [0 .. (TVCH_MAX - TVCH_MIN) -> Nat]
  /\ WildFreq \subseteq Nat
  /\ Asked \in [{0, 1} -> SUBSET (TVCH_MIN .. TVCH_MAX)]
  /\ AskedAntenna \subseteq 0 .. 3
  /\ MaxLost \in Nat

VARIABLES
  opened,       \* socket::sock # -1
  active_ant,   \* tuner::active_ant
  amp,          \* amp[ch] is ch_state[ch].i
  tvch,         \* tvch[ch] is ch_state[ch].tvch
  requests,     \* requests sent that the device has not dealt with yet
  answers,      \* answers of the device that nobody has read yet
  hwGpio,       \* the device: last GPIO word it applied
  hwFreq,       \* the device: frequency each PLL was last set to
  lost,         \* history: calls of this connection that missed their answer
  inited,       \* history: open() and init() returned 0, close() not called
  antSet,       \* history: the last set_antenna() returned 0
  tuned         \* history, by channel: tv, asked for by the last set_freq() that
                \* got its PLL request acknowledged, and whether it returned 0 (ok);
                \* forgotten once the connection has missed an answer

vars == <<opened, active_ant, amp, tvch, requests, answers, hwGpio, hwFreq,
          lost, inited, antSet, tuned>>

NUM_CHANNELS == 2
Chan == 0 .. (NUM_CHANNELS - 1)

(* enum tuner_antennas; scan() relies on the order *)
nc == 0
ant1 == 1
ant2 == 2
coax == 3
Antenna == nc .. coax

(* enum tuner_amp_input; set_antenna() and set_freq() rely on the order *)
off == 0
vhf1 == 1
vhf2 == 2
uhf1 == 3
uhf2 == 4
external == 5
AmpInput == off .. external

Tv == TVCH_MIN .. TVCH_MAX

-----------------------------------------------------------------------------
(* The GPIO word of set_amp().  The bits of GPIO_80F0 are left out: nobody  *)
(* calls refresh_gpio(), so they are 0, and the rest of cur_gpio is         *)
(* recomputed from ch_state before each use.                                *)

\* static const u32 amp_gpio[]: the amplifier bit an input needs, as a set.
AmpGpio == [i \in AmpInput |->
              CASE i = vhf1 -> {0} [] i = vhf2 -> {2} [] i = uhf1 -> {1}
                [] i = uhf2 -> {3} [] OTHER -> {}]

\* The bits of the enumeration value itself, which is what line 197 ORs in.
EnumBits == [i \in AmpInput |->
              CASE i = vhf1 -> {0} [] i = vhf2 -> {1} [] i = uhf1 -> {0, 1}
                [] i = uhf2 -> {2} [] i = external -> {0, 2} [] OTHER -> {}]

FilterCh0 == [i \in AmpInput |->
              CASE i = off -> 4 [] i = vhf1 -> 3 [] i = vhf2 -> 1
                [] i = uhf1 -> 5 [] i = uhf2 -> 2 [] OTHER -> 0]

FilterCh1 == [i \in AmpInput |->
              CASE i = off -> 0 [] i = vhf1 -> 3 [] i = vhf2 -> 1
                [] i = uhf1 -> 4 [] i = uhf2 -> 2 [] OTHER -> 5]

\* Mutant: one filter for both channels.
GpioWordOneFilter(update) ==
  [bits |-> EnumBits[update[0]] \cup EnumBits[update[1]],
   filter |-> [c \in Chan |-> FilterCh1[update[0]]]]

GpioWord(update) ==
  [bits |-> EnumBits[update[0]] \cup EnumBits[update[1]],
   filter |-> [c \in Chan |-> IF c = 0 THEN FilterCh0[update[0]]
                                       ELSE FilterCh1[update[1]]]]

-----------------------------------------------------------------------------
(* socket::write_then_read().  The device deals with the requests of a      *)
(* connection in order: it carries one out, or refuses it with an answer of *)
(* the wrong length.  A call sends its request, waits for data, and reads   *)
(* one answer: the oldest, whichever request that is for, since answers     *)
(* carry no identification.  It returns without an answer when write()      *)
(* fails, when nothing arrives within 400 ms, and when the answer it reads  *)
(* has a bad CRC or type.                                                   *)

Get == [op |-> "get"]
GetN == [op |-> "getN"]
Put == [op |-> "put"]
SetGpio(word) == [op |-> "gpio", word |-> word]
SetPll(ch, freq) == [op |-> "pll", ch |-> ch, freq |-> freq]

Reply(q) == CASE q.op = "get" -> "byte" [] q.op = "getN" -> "block" [] OTHER -> "ack"

Newest(hits) == CHOOSE i \in hits : \A j \in hits : i >= j

\* The device has dealt with the n oldest requests, and carried out those in done.
Serve(s, n, done) ==
  LET gpio == {i \in done : s.requests[i].op = "gpio"}
      pll(ch) == {i \in done : s.requests[i].op = "pll" /\ s.requests[i].ch = ch}
  IN [s EXCEPT
       !.requests = SubSeq(s.requests, n + 1, Len(s.requests)),
       !.answers = s.answers \o [i \in 1 .. n |->
                       IF i \in done THEN Reply(s.requests[i]) ELSE "fault"],
       !.hwGpio = IF gpio = {} THEN s.hwGpio ELSE s.requests[Newest(gpio)].word,
       !.hwFreq = [ch \in Chan |-> IF pll(ch) = {} THEN s.hwFreq[ch]
                                    ELSE s.requests[Newest(pll(ch))].freq]]

Served(s) == UNION {{Serve(s, n, done) : done \in SUBSET (1 .. n)} : n \in 0 .. Len(s.requests)}

Send(s, q) == [s EXCEPT !.requests = Append(@, q)]

Miss(s) == [s |-> [s EXCEPT !.lost = @ + 1], ans |-> "none"]
Read(s) == [s EXCEPT !.answers = Tail(@)]

Await(s) ==
  (IF s.lost < MaxLost THEN {Miss(s)} ELSE {}) \cup
  (IF s.answers = <<>> THEN {} ELSE {[s |-> Read(s), ans |-> Head(s.answers)]}) \cup
  (IF s.lost < MaxLost /\ s.answers # <<>> THEN {Miss(Read(s))} ELSE {})

write_then_read(s, q) ==
  {[s |-> s, ans |-> "none"]} \cup
  (IF s.opened THEN UNION {Await(d) : d \in Served(Send(s, q))} ELSE {})

Done(s) == {[s |-> s, ok |-> TRUE]}
Fail(s) == {[s |-> s, ok |-> FALSE]}

\* "if (call) return 1;" followed by the rest of the function.
Then(results, Rest(_)) == UNION {IF r.ok THEN Rest(r.s) ELSE {r} : r \in results}

\* A call that succeeds when the answer has the length it expects.
Ask(s, q) == {[s |-> x.s, ok |-> x.ans = Reply(q)] : x \in write_then_read(s, q)}

\* A demodulator register is read, then written.
Modify(s) == Then(Ask(s, Get), LAMBDA a : Ask(a, Put))

reset_demod(s) == Then(Modify(s), LAMBDA a : Ask(a, Put))

-----------------------------------------------------------------------------
(* class tuner *)

\* ch_freq[tvch] of line 291, which is past the table for the top channels.
FreqRead(tv) == IF tv \in DOMAIN ch_freq THEN {ch_freq[tv]} ELSE WildFreq

InputFor(freq, ant) ==
  IF ant = coax THEN external
  ELSE (IF freq < 452 THEN vhf1 ELSE uhf1) + (IF ant = ant2 THEN 1 ELSE 0)

\* Mutant: the input is recorded before set_gpio() has succeeded.
set_ampEarly(s, ch, state) ==
  IF state = s.amp[ch] THEN Done(s)
  ELSE Ask([s EXCEPT !.amp[ch] = state], SetGpio(GpioWord([s.amp EXCEPT ![ch] = state])))

set_amp(s, ch, state) ==
  IF state = s.amp[ch] THEN Done(s)
  ELSE Then(Ask(s, SetGpio(GpioWord([s.amp EXCEPT ![ch] = state]))),
            LAMBDA a : Done([a EXCEPT !.amp[ch] = state]))

\* No PLL request of this connection was acknowledged.
Untuned == [tv |-> NoTv, ok |-> FALSE]

\* The PLL request of set_freq(): any other answer than an ack turns the amp off.
write_pll(s, ch, tv, freq) ==
  UNION {IF x.ans = "ack" THEN Done([x.s EXCEPT !.tuned[ch] = [tv |-> tv, ok |-> FALSE]])
         ELSE IF x.ans = "none" THEN Fail(x.s)
         ELSE {[s |-> r.s, ok |-> FALSE] : r \in set_amp(x.s, ch, off)} :
         x \in write_then_read(s, SetPll(ch, freq))}

\* Mutant: the index into the table is recorded, not the TV channel.
tuneRecordsIndex(s, ch, tv, freq, reset) ==
  IF freq >= 862 THEN Fail(s)
  ELSE Then(set_amp(s, ch, InputFor(freq, s.active_ant)),
       LAMBDA a : Then(write_pll(a, ch, tv, freq),
       LAMBDA b : Then(IF reset THEN reset_demod(b) ELSE Done(b),
       LAMBDA c : Done([c EXCEPT !.tvch[ch] = tv - TVCH_MIN, !.tuned[ch].ok = TRUE]))))

tune(s, ch, tv, freq, reset) ==
  IF freq >= 862 THEN Fail(s)
  ELSE Then(set_amp(s, ch, InputFor(freq, s.active_ant)),
       LAMBDA a : Then(write_pll(a, ch, tv, freq),
       LAMBDA b : Then(IF reset THEN reset_demod(b) ELSE Done(b),
       LAMBDA c : Done([c EXCEPT !.tvch[ch] = tv, !.tuned[ch].ok = TRUE]))))

\* Mutant: a TV channel that is recorded already is not tuned again.
set_freqSkip(s, ch, tv, reset) ==
  IF s.active_ant = nc THEN Fail(s)
  ELSE IF tv = NoTv THEN set_amp(s, ch, off)
  ELSE IF tv = s.tvch[ch] THEN Done([s EXCEPT !.tuned[ch].ok = TRUE])
  ELSE UNION {tune(s, ch, tv, freq, reset) : freq \in FreqRead(tv)}

set_freq(s, ch, tv, reset) ==
  IF s.active_ant = nc THEN Fail(s)
  ELSE IF tv = NoTv THEN set_amp(s, ch, off)
  ELSE IF ch_freq[tv - TVCH_MIN] = 0 THEN Fail(s)
  ELSE UNION {tune(s, ch, tv, freq, reset) : freq \in FreqRead(tv)}

\* Mutant: a channel on the coax input keeps it.
apply_antennaKeepsExternal(s, ch) ==
  LET i == s.amp[ch]
      tai == IF i \in {vhf2, uhf2} THEN i - 1 ELSE i
  IN IF i = off \/ (i = external /\ s.active_ant # nc) THEN Done(s)
     ELSE IF s.active_ant = nc THEN set_amp(s, ch, off)
     ELSE IF s.active_ant = coax THEN set_amp(s, ch, external)
     ELSE IF s.tvch[ch] \notin Tv THEN Done(s)
     ELSE set_amp(s, ch, IF s.active_ant = ant2 THEN tai + 1 ELSE tai)

\* One turn of the loop of set_antenna(); active_ant is already the new antenna.
apply_antenna(s, ch) ==
  LET i == s.amp[ch]
      tai == IF i \in {vhf2, uhf2} THEN i - 1 ELSE i
  IN CASE i = off -> Done(s)
       [] i # off /\ s.active_ant = nc -> set_amp(s, ch, off)
       [] i # off /\ s.active_ant = coax -> set_amp(s, ch, external)
       [] i = external /\ s.active_ant \in {ant1, ant2} ->
            set_freq(s, ch, s.tvch[ch], TRUE)
       [] i \in vhf1 .. uhf2 /\ s.active_ant \in {ant1, ant2} ->
            IF s.tvch[ch] \notin Tv THEN Done(s)
            ELSE set_amp(s, ch, IF s.active_ant = ant2 THEN tai + 1 ELSE tai)

set_antenna(s, ant) ==
  Then(apply_antenna([s EXCEPT !.active_ant = ant, !.antSet = FALSE], 0),
       LAMBDA a : Then(apply_antenna(a, 1),
       LAMBDA b : Done([b EXCEPT !.antSet = TRUE])))

\* A check of what the device returned may fail.
MayFail(s) == Done(s) \cup Fail(s)

\* The run of writes of the table vsb1[] counts as one: each may fail like the
\* others and none touches the front end.
set_modulation(s) ==
  Then(Modify(s), LAMBDA a : Then(Modify(a), LAMBDA b : Then(Modify(b),
  LAMBDA c : Then(Ask(c, Put), LAMBDA d : Then(reset_demod(d),
  LAMBDA e : Then(Modify(e), LAMBDA f : Then(reset_demod(f), MayFail)))))))

\* Any answer at all passes for the version string.
get_str(s) == {[s |-> x.s, ok |-> x.ans # "none"] : x \in write_then_read(s, GetN)}

\* The recorded input is faked first, so that set_amp() does send its request.
init_channel(s, ch) == Then(set_amp([s EXCEPT !.amp[ch] = vhf1], ch, off), set_modulation)

init(s) ==
  Then(get_str(s), LAMBDA a : Then(MayFail(a), LAMBDA b : Then(init_channel(b, 0),
  LAMBDA c : Then(init_channel(c, 1), LAMBDA d : Done([d EXCEPT !.inited = TRUE])))))

open(s) ==
  Fail(s) \cup
  Done([s EXCEPT !.opened = TRUE, !.lost = 0, !.tuned = [ch \in Chan |-> Untuned]])

\* Mutant: the connection is kept, with what is left on it.
closeKeepsConnection(s) ==
  {[s |-> [r.s EXCEPT !.opened = FALSE, !.inited = FALSE], ok |-> TRUE] :
     r \in set_antenna(s, nc)}

\* The device may still deal with some of the requests in flight.
close(s) ==
  {[s |-> [d EXCEPT !.opened = FALSE, !.inited = FALSE, !.requests = <<>>,
                    !.answers = <<>>], ok |-> TRUE] :
     d \in UNION {Served(r.s) : r \in set_antenna(s, nc)}}

get_mse(s) ==
  Then(Ask(s, Get), LAMBDA a : Done(a) \cup
  Then(Ask(a, Get), LAMBDA b : Ask(b, GetN)))

start_ts(s, ch) == Then(IF ch = 0 THEN Done(s) ELSE Ask(s, Put), LAMBDA a : Ask(a, Put))

stop_ts(s) == Ask(s, Put)

-----------------------------------------------------------------------------
(* The steps: the calls a client makes, and the device. *)

State ==
  [opened |-> opened, active_ant |-> active_ant, amp |-> amp, tvch |-> tvch,
   requests |-> requests, answers |-> answers, hwGpio |-> hwGpio, hwFreq |-> hwFreq,
   lost |-> lost, inited |-> inited, antSet |-> antSet, tuned |-> tuned]

Become(s) ==
  /\ opened' = s.opened /\ active_ant' = s.active_ant
  /\ amp' = s.amp /\ tvch' = s.tvch
  /\ requests' = s.requests /\ answers' = s.answers
  /\ hwGpio' = s.hwGpio /\ hwFreq' = s.hwFreq
  /\ lost' = s.lost /\ inited' = s.inited /\ antSet' = s.antSet
  /\ tuned' = IF s.lost = 0 THEN s.tuned ELSE [ch \in Chan |-> Untuned]

Return(results) == \E r \in results : Become(r.s)

Init ==
  /\ opened = FALSE
  /\ active_ant = nc
  /\ amp = [ch \in Chan |-> off]
  /\ tvch = [ch \in Chan |-> NoTv]
  /\ requests = <<>>
  /\ answers = <<>>
  /\ \E update \in [Chan -> AmpInput] : hwGpio = GpioWord(update)
  /\ hwFreq = [ch \in Chan |-> 0]
  /\ lost = 0
  /\ inited = FALSE
  /\ antSet = FALSE
  /\ tuned = [ch \in Chan |-> Untuned]

\* mpgts::open() calls tuner::open() and tuner::init().
Open == ~opened /\ Return(Then(open(State), init))

Close == opened /\ Return(close(State))

SetAntenna(ant) == inited /\ Return(set_antenna(State, ant))

SetFreq(ch, tv, reset) == inited /\ Return(set_freq(State, ch, tv, reset))

GetMse == inited /\ Return(get_mse(State))

StartTs(ch) == inited /\ Return(start_ts(State, ch))

StopTs == inited /\ Return(stop_ts(State))

DeviceServes == opened /\ \E s \in Served(State) : Become(s)

Next ==
  \/ Open
  \/ Close
  \/ \E ant \in AskedAntenna : SetAntenna(ant)
  \/ \E ch \in Chan, reset \in BOOLEAN : \E tv \in Asked[ch] \cup {NoTv} : SetFreq(ch, tv, reset)
  \/ GetMse
  \/ \E ch \in Chan : StartTs(ch)
  \/ StopTs
  \/ DeviceServes

Spec == Init /\ [][Next]_vars

-----------------------------------------------------------------------------
(* Properties *)

Words == {GpioWord(update) : update \in [Chan -> AmpInput]}

Requests == {Get, GetN, Put} \cup [op : {"gpio"}, word : Words]
              \cup [op : {"pll"}, ch : Chan, freq : Nat]

Answers == {"byte", "block", "ack", "fault"}

\* The type of the state of the tuner, of the connection and of the device.
TypeOK ==
  /\ opened \in BOOLEAN
  /\ active_ant \in Antenna
  /\ amp \in [Chan -> AmpInput]
  /\ tvch \in [Chan -> Tv \cup {NoTv}]
  /\ requests \in Seq(Requests)
  /\ answers \in Seq(Answers)
  /\ hwGpio \in Words
  /\ hwFreq \in [Chan -> Nat]
  /\ lost \in 0 .. MaxLost
  /\ inited \in BOOLEAN
  /\ antSet \in BOOLEAN
  /\ tuned \in [Chan -> [tv : Tv \cup {NoTv}, ok : BOOLEAN]]

\* Only a call that missed its answer leaves a request or an answer behind on
\* the connection: as long as none did, each answer write_then_read() reads is
\* the answer to the request it has just sent, though answers carry no number.
NoBacklog == Len(requests) + Len(answers) <= lost

\* As long as no answer was missed, the GPIO word in the device is the one for
\* the inputs recorded in ch_state, whatever requests the device refused and
\* whichever call failed half way: set_amp() records an input only once
\* set_gpio() has succeeded (tuner.cpp 220-223) and init() makes the device
\* follow from an unknown state (tuner.cpp 70-71).
HardwareFollowsRecord == inited /\ lost = 0 => hwGpio = GpioWord(amp)

InputsOf(ant) ==
  CASE ant = ant1 -> {vhf1, uhf1} [] ant = ant2 -> {vhf2, uhf2}
    [] ant = coax -> {external} [] OTHER -> {}

\* After a set_antenna() that returned 0, and after any set_freq(), failed or
\* not, that followed it, a channel with an amp on and a TV channel recorded
\* listens to an input of the active antenna, and no amp is on when that is nc.
InputFollowsAntenna ==
  inited /\ antSet =>
    \A ch \in Chan : amp[ch] # off =>
      active_ant # nc /\ (tvch[ch] \in Tv => amp[ch] \in InputsOf(active_ant))

\* As long as no answer was missed, the PLL of a channel is set to what the code
\* computes for the TV channel of its last acknowledged PLL request, and get_freq()
\* reports that TV channel from the moment its set_freq() returned 0, through later
\* antenna changes and calls that failed before the PLL.  Only a set_freq() that
\* fails after the PLL, in reset_demod() (tuner.cpp 335), leaves the two apart.
TunedToRecord ==
  lost = 0 => \A ch \in Chan :
    /\ tuned[ch].tv # NoTv => hwFreq[ch] \in FreqRead(tuned[ch].tv)
    /\ tuned[ch].ok => tuned[ch].tv # NoTv /\ tvch[ch] = tuned[ch].tv

\* One tuner receives two channels at a time (tuner.h 47): while the antenna
\* stays, a call that works on one channel leaves the other's input, filter,
\* PLL and recorded TV channel alone, though one GPIO word holds both filters.
OneChannelAtATime ==
  [][inited /\ inited' /\ antSet /\ active_ant' = active_ant /\ lost' = 0 =>
       \E ch \in Chan : \A other \in Chan \ {ch} :
         /\ amp'[other] = amp[other]
         /\ tvch'[other] = tvch[other]
         /\ hwFreq'[other] = hwFreq[other]
         /\ hwGpio'.filter[other] = hwGpio.filter[other]]_vars

(* What the documentation says, and the code does not do *)

\* tuner.h 93: get_freq() returns a TV channel, "7==channel 7 / 177MHz".
TunesTheNamedChannel ==
  lost = 0 => \A ch \in Chan : tuned[ch].ok => hwFreq[ch] = ch_freq[tvch[ch] - TVCH_MIN]

=============================================================================
