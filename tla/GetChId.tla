------------------------------- MODULE GetChId -------------------------------
(***************************************************************************)
(* get_ch_id() of main.cpp, mpgts::start_ts() which it calls, and the      *)
(* mpgts::close() that follows it, against the receiving thread of Mpgts.  *)
(* In a round the two demodulators are tuned to the first two channels of  *)
(* chlist and polled; those whose channel table has come are removed.      *)
(*                                                                         *)
(* Every command to the tuner may fail (Tuner has the details).            *)
(***************************************************************************)
EXTENDS Mpgts, SequencesExt

CONSTANTS
  Strong,       \* chlist as do_item() passes it: a channel found on two antennas is in it twice
  POLLS         \* the polls of a round

ASSUME GetChIdAssumption ==
  /\ Strong \in Seq(Tvs)
  /\ POLLS \in Nat \ {0}

VARIABLES
  pc,           \* where get_ch_id() is
  ch,           \* the demodulator of the turn
  j,            \* the polls of this round
  resets,       \* the polls of want_reset in start_ts()
  chlist,       \* the channels left; n_ch is its length
  locked,       \* status[] & 0xf is 0xf
  started,      \* status[] & 0x20
  got,          \* status[] & 0x40
  shown,        \* vct_all, and for each table the channel removed with it
  closing,      \* how far close() is
  late          \* history: the table was found before init() had freed the old one

mainVars == <<pc, ch, j, resets, chlist, locked, started, got, shown, closing, late>>

idVars == <<tsVars, mainVars>>

n_ch == Len(chlist)

\* chlist[i], with scan = 0, for demodulator c.
Entry(c) == chlist[c + 1]

None == [c \in Chan |-> FALSE]

\* The malloc() of vct_all may fail.
Init ==
  /\ MpgtsInit
  /\ pc \in {"error", IF Strong = <<>> THEN "returned" ELSE "tune"}
  /\ ch = 0 /\ j = 0 /\ resets = 0
  /\ chlist = Strong
  /\ locked = None /\ started = None /\ got = None /\ late = None
  /\ shown = <<>>
  /\ closing = "open"

Returned == pc \in {"returned", "error"}

\* The end of the loop over the demodulators, in its turn of c.
LastOfRound(c) == c = 1 \/ c + 1 >= n_ch

\* Mutant: a demodulator that has a channel keeps it.
TuneKeeps ==
  /\ pc = "tune"
  /\ UNCHANGED <<tsVars, resets, chlist, shown>>
  /\ \/ /\ ~ LastOfRound(ch)
        /\ ch' = ch + 1
        /\ UNCHANGED <<pc, j, locked, started, got, late>>
     \/ /\ LastOfRound(ch)
        /\ pc' = "poll" /\ ch' = 0 /\ j' = 0
        /\ locked' = None /\ started' = None /\ got' = None /\ late' = None

\* A demodulator that has the channel already is left alone; a set_freq() that
\* fails may have got to the tuner.
Tune ==
  /\ pc = "tune"
  /\ UNCHANGED <<threadVars, want_reset, vct, queue, dest, resets, chlist, shown>>
  /\ freq' \in {freq, [freq EXCEPT ![ch] = Entry(ch)]}
  /\ freq'[ch] = Entry(ch) \/ pc' = "error"
  /\ \/ /\ freq[ch] # Entry(ch)
        /\ pc' = "error"
        /\ UNCHANGED <<ch, j, locked, started, got, late>>
     \/ /\ ~ LastOfRound(ch)
        /\ ch' = ch + 1
        /\ UNCHANGED <<pc, j, locked, started, got, late>>
     \/ /\ LastOfRound(ch)
        /\ pc' = "poll" /\ ch' = 0 /\ j' = 0
        /\ locked' = None /\ started' = None /\ got' = None /\ late' = None

AllDone == \A c \in Chan : got[c]

\* Mutant: one poll more.
RoundOverLate == j > POLLS

RoundOver == j = POLLS

\* The head of the polling loop: all done, or a key is pressed, or sleep.
Poll ==
  /\ pc = "poll"
  /\ UNCHANGED <<tsVars, resets, chlist, locked, started, got, shown, late>>
  /\ \/ /\ RoundOver
        /\ pc' = "collect" /\ UNCHANGED <<ch, j>>
     \/ /\ ~ RoundOver
        /\ pc' = "status" /\ ch' = 0
        /\ j' = IF AllDone THEN POLLS ELSE j + 1
     \/ /\ 0 < j /\ ~ RoundOver /\ ~ AllDone
        /\ pc' \in {"stopping", "error"} /\ UNCHANGED <<ch, j>>

NextStatus == IF LastOfRound(ch) THEN pc' = "poll" /\ ch' = 0
                                 ELSE pc' = "status" /\ ch' = ch + 1

\* A demodulator that is not locked yet, or is done, has its status read.
ReadStatus ==
  /\ pc = "status"
  /\ ~ locked[ch] \/ got[ch]
  /\ UNCHANGED <<tsVars, j, resets, chlist, started, got, shown, late>>
  /\ \/ /\ pc' = "error" /\ UNCHANGED <<ch, locked>>
     \/ /\ locked' \in {locked, [locked EXCEPT ![ch] = TRUE]}
        /\ NextStatus

\* start_ts() asks the thread for a reset.
StartTs ==
  /\ pc = "status" /\ locked[ch] /\ ~ got[ch] /\ ~ started[ch]
  /\ want_reset' = [want_reset EXCEPT ![ch] = @ + 1]
  /\ resets' = 0
  /\ pc' = "wait"
  /\ UNCHANGED <<threadVars, vct, queue, freq, dest, ch, j, chlist, locked, started, got, shown, late>>

\* Mutant: start_ts() waits for as long as it takes.
WaitForEver ==
  /\ pc = "wait"
  /\ want_reset[ch] = 0
  /\ pc' = "vct"
  /\ dest' = [dest EXCEPT ![ch] = TRUE]
  /\ started' = [started EXCEPT ![ch] = TRUE]
  /\ UNCHANGED <<threadVars, want_reset, vct, queue, freq, ch, j, resets, chlist, locked, got, shown,
                 late>>

\* Mutant: start_ts() does not wait.
WaitNot ==
  /\ pc = "wait"
  /\ pc' = "vct"
  /\ dest' = [dest EXCEPT ![ch] = TRUE]
  /\ started' = [started EXCEPT ![ch] = TRUE]
  /\ UNCHANGED <<threadVars, want_reset, vct, queue, freq, ch, j, resets, chlist, locked, got, shown,
                 late>>

\* start_ts() looks at want_reset, gives up after three times, and tells the
\* device where to stream.
Wait ==
  /\ pc = "wait"
  /\ UNCHANGED <<threadVars, want_reset, vct, queue, freq, ch, j, chlist, locked, got, shown, late>>
  /\ \/ /\ want_reset[ch] # 0
        /\ resets' = resets + 1
        /\ pc' = IF resets' = RESET_POLLS THEN "error" ELSE "wait"
        /\ UNCHANGED <<dest, started>>
     \/ /\ want_reset[ch] = 0
        /\ resets' = 0
        /\ \/ /\ pc' = "error" /\ UNCHANGED started
              /\ dest' \in {dest, [dest EXCEPT ![ch] = TRUE]}
           \/ /\ pc' = "vct" /\ started' = [started EXCEPT ![ch] = TRUE]
              /\ dest' = [dest EXCEPT ![ch] = TRUE]

\* get_vct(): with a table, stop_ts() and status[] |= 0x40.  A stop_ts() that
\* fails may have got to the device, and so may the calls above.
GetVct ==
  /\ \/ pc = "vct"
     \/ pc = "status" /\ locked[ch] /\ ~ got[ch] /\ started[ch]
  /\ UNCHANGED <<threadVars, want_reset, vct, queue, freq, j, resets, chlist, locked, started, shown>>
  /\ \/ /\ vct[ch] = NoVct
        /\ NextStatus /\ UNCHANGED <<dest, got, late>>
     \/ /\ vct[ch] # NoVct
        /\ \/ /\ pc' = "error" /\ UNCHANGED <<ch, got, late>>
              /\ dest' \in {dest, [dest EXCEPT ![ch] = FALSE]}
           \/ /\ NextStatus /\ got' = [got EXCEPT ![ch] = TRUE]
              /\ late' = [late EXCEPT ![ch] = (thread = At("init", ch))]
              /\ dest' = [dest EXCEPT ![ch] = FALSE]

\* Mutant: the index is not moved back after a removal.
ShowNext(acc, c) ==
  IF ~ got[c] \/ acc.i > Len(acc.list) THEN [acc EXCEPT !.i = @ + 1]
  ELSE [i |-> acc.i + 1,
        list |-> RemoveAt(acc.list, acc.i),
        out |-> Append(acc.out, [tv |-> acc.list[acc.i], from |-> freq[c], vct |-> vct[c]])]

\* A turn of the loop that shows and removes: demodulator c, index acc.i.
Show(acc, c) ==
  IF ~ got[c] \/ acc.i > Len(acc.list) THEN [acc EXCEPT !.i = @ + 1]
  ELSE [i |-> acc.i,
        list |-> RemoveAt(acc.list, acc.i),
        out |-> Append(acc.out, [tv |-> acc.list[acc.i], from |-> freq[c], vct |-> vct[c]])]

\* The end of a round; after a key it is the end.  get_vct() returns NULL for a
\* table that init() has freed by then, and strlen() crashes; the realloc() of
\* vct_all may fail.
Collect ==
  /\ pc \in {"collect", "stopping"}
  /\ UNCHANGED <<tsVars, resets>>
  /\ LET acc == Show(Show([i |-> 1, list |-> chlist, out |-> shown], 0), 1)
         gone == \E k \in Len(shown) + 1 .. Len(acc.out) : acc.out[k].vct = NoVct
     IN \/ /\ gone \/ acc.out # shown
           /\ pc' = IF gone THEN "crashed" ELSE "error"
           /\ UNCHANGED <<ch, j, chlist, locked, started, got, shown, late>>
        \/ /\ ~ gone
           /\ pc' = IF acc.list = <<>> \/ pc = "stopping" THEN "returned" ELSE "tune"
           /\ chlist' = acc.list /\ shown' = acc.out
           /\ ch' = 0 /\ j' = 0
           /\ locked' = None /\ started' = None /\ got' = None /\ late' = None

get_ch_id ==
  UNCHANGED closing /\ (Tune \/ Poll \/ ReadStatus \/ StartTs \/ Wait \/ GetVct \/ Collect)

\* mpgts::close(), called when get_ch_id() and its locals are gone: closes the
\* connection and cancels the thread, joins it, whatever ended it, and closes
\* the sockets.
close ==
  /\ Returned
  /\ UNCHANGED <<threadVars, want_reset, vct, freq, dest>>
  /\ pc' = "returned" /\ ch' = 0 /\ j' = 0 /\ resets' = 0
  /\ chlist' = <<>> /\ shown' = <<>>
  /\ locked' = None /\ started' = None /\ got' = None /\ late' = None
  /\ \/ /\ closing = "open"
        /\ closing' = "cancelled" /\ UNCHANGED queue
     \/ /\ closing = "cancelled" /\ thread[1] = "dead"
        /\ closing' = "closed"
        /\ queue' = [c \in Chan |-> <<>>]

\* pselect() and recvfrom() are where a thread that is cancelled ends; a
\* warning of the parser may be.
MustEnd == thread[1] = "select" \/ \E c \in rfds : thread = At("recv", c)
MayEnd == MustEnd \/ thread[1] = "fill"

EndThread == closing = "cancelled" /\ MayEnd /\ thread' = At("dead", 0)

Thread ==
  /\ pc # "crashed"
  /\ UNCHANGED mainVars
  /\ \/ thread_main /\ ~ (closing = "cancelled" /\ MustEnd)
     \/ EndThread /\ UNCHANGED <<rfds, building, want_reset, vct, queue, freq, dest>>

Environment ==
  pc # "crashed" /\ closing # "closed" /\ UNCHANGED mainVars /\ \E c \in Chan : DeviceStreams(c)

Next == get_ch_id \/ close \/ Thread \/ Environment

\* The program and the thread each run; nothing is promised of the device.
Spec == Init /\ [][Next]_idVars /\ WF_idVars(get_ch_id \/ close) /\ WF_idVars(Thread)

-----------------------------------------------------------------------------
(* Properties *)

\* The type of the state of get_ch_id() and of mpgts.
TypeOK ==
  /\ MpgtsTypeOK
  /\ pc \in {"tune", "poll", "status", "wait", "vct", "collect", "stopping", "crashed",
             "returned", "error"}
  /\ ch \in Chan /\ j \in 0 .. POLLS /\ resets \in 0 .. RESET_POLLS
  /\ chlist \in Seq(Tvs)
  /\ locked \in [Chan -> BOOLEAN] /\ started \in [Chan -> BOOLEAN] /\ got \in [Chan -> BOOLEAN]
  /\ late \in [Chan -> BOOLEAN]
  /\ \A k \in 1 .. Len(shown) : shown[k].tv \in Tvs
  /\ closing \in {"open", "cancelled", "closed"}

\* The channel that is removed is the one the demodulator received that found
\* the table, whichever of the two did (main.cpp 170, 181-186).
RemovesWhatItReceived == \A k \in 1 .. Len(shown) : shown[k].from = shown[k].tv

\* While a round is polled, each demodulator it uses is tuned to its entry of
\* chlist, although one that has the right channel is not tuned (main.cpp 87).
PollsItsEntry ==
  pc \in {"poll", "status", "wait", "vct", "collect", "stopping"} =>
    \A c \in Chan : c < n_ch => freq[c] = Entry(c)

\* The reset a stream starts from has been asked for and noticed: while a
\* channel is polled for its table, no request to reset it is pending.
NoResetPending ==
  \A c \in Chan : started[c] => want_reset[c] = 0

\* The string get_vct() returns is the parser's own: it is polled for, kept through
\* the rest of the round while the other demodulator goes on, and then asked for
\* twice more (main.cpp 154, 173, 181).  It stays, and with it the program, unless
\* it is an old table, found when want_reset was cleared already and init() was
\* still to come (mpgts.cpp 50-52).
KeepsItsTable ==
  /\ \A c \in Chan : got[c] /\ vct[c] = NoVct => late[c]
  /\ pc = "crashed" => \E c \in Chan : late[c]

\* A round ends, even when the thread is gone and nobody answers a request to
\* reset (mpgts.cpp 165-175): its channels are shown or left for the next round,
\* or get_ch_id() returns, and then close() does, wherever that left the thread
\* and however busy the streams it did not stop keep it (mpgts.cpp 139-145).  The
\* exception is the crash of Collect.
RoundEnds == pc # "tune" ~> (pc = "tune" \/ closing = "closed" \/ pc = "crashed")

(* What the documentation says, and the code does not do *)

\* mpgts.cpp 162: "reset all pkt state", and mpgatsc.cpp 37: "may be receiving
\* a completely new stream: reset all state": a table shown for a channel is
\* not one of a channel received before.
OwnVct ==
  \A k \in 1 .. Len(shown) : shown[k].vct \in {EmptyVct, Vct(shown[k].tv)}

=============================================================================
