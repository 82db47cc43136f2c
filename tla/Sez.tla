-------------------------------- MODULE Sez --------------------------------
(***************************************************************************)
(* The program around the tuner: main() and do_item() of main.cpp, and the *)
(* discovery of socket.cpp 170-303 that finds the tuners.  do_item() opens *)
(* a tuner, scans, and probes each channel of the list with the two        *)
(* demodulators as slots: a channel has a second to lock.  scan() and      *)
(* get_ch_id() are the modules Scan and GetChId; here they return anything.*)
(*                                                                         *)
(* Time is counted in units of 100 ms, the sleep of the loops, and kept as *)
(* what is left until a deadline.                                          *)
(***************************************************************************)
EXTENDS Integers, Sequences

CONSTANTS
  Tuners,      \* the tuners that may answer
  MaxAnswers,  \* bound: answers received
  LIST_GROW,   \* by how many entries the list of tuners grows
  Interfaces,  \* what getifaddrs() may return: sequences of BOOLEAN, link-local
  ChLists,     \* the lists scan() may return
  TUNE_TIME,   \* the second a channel is given
  MaxCall      \* bound: how long a call of the tuner takes

ASSUME SezAssumption ==
  /\ LIST_GROW \in Nat \ {0}
  /\ MaxAnswers \in Nat
  /\ Interfaces \subseteq Seq(BOOLEAN)
  /\ \A l \in ChLists : l \in Seq(Nat)
  /\ TUNE_TIME \in Nat /\ MaxCall \in 0 .. TUNE_TIME

Chan == {0, 1}
Free == -2       \* end[ch] == 0
NoEntry == 0

VARIABLES
  pc,          \* where the program is
  status,      \* its exit status
  ifs,         \* the interfaces find() has still to look at
  iface_found,
  list,        \* the tuners found
  list_max,    \* how many entries the list has room for
  idx,         \* the entry do_item() works on
  opened,      \* the entries whose connection is open
  chlist,
  i,           \* the next entry of chlist
  ch,          \* the slot looked at
  left,        \* time left until end[ch]: below 0 is past it
  age,         \* how long ago cur_ms was read
  entry,       \* the entry of chlist each slot works on, for endch[ch]
  strong,      \* the entries of chlist that make up strongch[]
  count,       \* the slots still busy in this round of the last loop
  weak,        \* history: the entries given up
  asked,       \* history: the entries whose status was read after set_freq()
  given        \* history: how long ago each slot's set_freq() was called

findVars == <<ifs, iface_found, list, list_max>>
itemVars == <<idx, opened, chlist>>
probeVars == <<i, ch, left, age, entry, strong, count, weak, asked, given>>
vars == <<pc, status, findVars, itemVars, probeVars>>

Fresh(n) ==
  /\ chlist' = n
  /\ i' = 1 /\ ch' = 0 /\ age' = 0 /\ count' = 0
  /\ left' = [c \in Chan |-> Free]
  /\ entry' = [c \in Chan |-> NoEntry]
  /\ strong' = <<>> /\ weak' = {} /\ asked' = {}
  /\ given' = [c \in Chan |-> 0]

Init ==
  /\ pc = "find" /\ status = 0
  /\ ifs \in Interfaces
  /\ iface_found = 0
  /\ list = <<>> /\ list_max = LIST_GROW
  /\ idx = 1 /\ opened = {}
  /\ chlist = <<>>
  /\ i = 1 /\ ch = 0 /\ age = 0 /\ count = 0
  /\ left = [c \in Chan |-> Free]
  /\ entry = [c \in Chan |-> NoEntry]
  /\ strong = <<>> /\ weak = {} /\ asked = {}
  /\ given = [c \in Chan |-> 0]

Exit(code) == pc' = "exit" /\ status' = code

-----------------------------------------------------------------------------
(* socket::find() *)

\* malloc(), socket(), getifaddrs(), or the calls for one interface failed, or
\* an answer had a bad CRC or length: the list is freed and main() returns 1.
FindFails ==
  /\ pc \in {"find", "recv"}
  /\ Exit(1)
  /\ list' = <<>>
  /\ UNCHANGED <<ifs, iface_found, list_max, itemVars, probeVars>>

\* Only an interface with a link-local address is asked.
tunerfind2 ==
  /\ pc = "find" /\ ifs # <<>>
  /\ ifs' = Tail(ifs)
  /\ IF Head(ifs)
     THEN pc' = "recv" /\ iface_found' = iface_found + 1
     ELSE UNCHANGED <<pc, iface_found>>
  /\ UNCHANGED <<status, list, list_max, itemVars, probeVars>>

\* Mutant: the list grows one entry late.
udp_answerLate(t) ==
  /\ pc = "recv" /\ Len(list) < MaxAnswers
  /\ list' = Append(list, t)
  /\ list_max' = IF Len(list) > list_max THEN list_max + LIST_GROW ELSE list_max
  /\ UNCHANGED <<pc, status, ifs, iface_found, itemVars, probeVars>>

\* A tuner answers, perhaps again, perhaps on another interface too.
udp_answer(t) ==
  /\ pc = "recv" /\ Len(list) < MaxAnswers
  /\ list' = Append(list, t)
  /\ list_max' = IF Len(list) >= list_max THEN list_max + LIST_GROW ELSE list_max
  /\ UNCHANGED <<pc, status, ifs, iface_found, itemVars, probeVars>>

\* Nothing arrived for 50 ms.
udp_silence ==
  /\ pc = "recv"
  /\ pc' = "find"
  /\ UNCHANGED <<status, findVars, itemVars, probeVars>>

\* main() looks at what find() returns.
Found ==
  /\ pc = "find" /\ ifs = <<>>
  /\ IF iface_found = 0 \/ list = <<>>
     THEN Exit(1)
     ELSE pc' = "item" /\ UNCHANGED status
  /\ UNCHANGED <<findVars, itemVars, probeVars>>

Discovery == FindFails \/ tunerfind2 \/ (\E t \in Tuners : udp_answer(t)) \/ udp_silence \/ Found

-----------------------------------------------------------------------------
(* do_item() *)

\* open(), set_antenna() and the two calls of scan(): the list is the first's.
Prepare ==
  /\ pc = "item"
  /\ UNCHANGED <<findVars, idx>>
  /\ \/ /\ opened' \in {opened, opened \cup {idx}}
        /\ Exit(1)
        /\ UNCHANGED <<chlist, probeVars>>
     \/ /\ opened' = opened \cup {idx}
        /\ \E l \in ChLists : Fresh(l) /\ pc' = IF l = <<>> THEN "last" ELSE "look"
        /\ UNCHANGED status

\* Time passes: what is left until the deadlines, and since what happened.
Later(l, d) == [c \in Chan |-> IF l[c] = Free THEN Free
                               ELSE IF l[c] - d < -1 THEN -1 ELSE l[c] - d]
Longer(g, d) == [c \in Chan |-> IF g[c] + d > TUNE_TIME + 1 THEN TUNE_TIME + 1 ELSE g[c] + d]
Pass(l, d) == left' = Later(l, d) /\ given' = Longer(given, d)

\* Mutant: the deadline has passed when it is reached.
ExpiredAtOnce(c) == left[c] # Free /\ left[c] <= 0

Expired(c) == left[c] # Free /\ left[c] < 0

GiveUp == weak' = weak \cup {entry[ch]}

\* gettimeofday(), and whether the slot is free or its second is over.
Look ==
  /\ pc = "look"
  /\ age' = 0
  /\ UNCHANGED <<status, findVars, itemVars, i, ch, entry, strong, count, asked, given>>
  /\ \/ /\ left[ch] = Free
        /\ pc' = "tune"
        /\ UNCHANGED <<left, weak>>
     \/ /\ Expired(ch)
        /\ left' = [left EXCEPT ![ch] = Free]
        /\ GiveUp
        /\ pc' = "tune"
     \/ /\ left[ch] # Free /\ ~ Expired(ch)
        /\ pc' = "poll"
        /\ UNCHANGED <<left, weak>>

CallFails ==
  /\ pc \in {"poll", "tune", "last_poll"}
  /\ Exit(1)
  /\ UNCHANGED <<findVars, itemVars, probeVars>>

\* Mutant: the entry looked for next is recorded, not the one of the slot.
StrongNext(l, d) ==
  /\ strong' = Append(strong, i)
  /\ Pass([l EXCEPT ![ch] = Free], d)

Strong(l, d) ==
  /\ strong' = Append(strong, entry[ch])
  /\ Pass([l EXCEPT ![ch] = Free], d)

\* get_mse(): the demodulator has locked, or the next slot is looked at, after
\* a sleep once both have been.
Poll ==
  /\ pc = "poll"
  /\ asked' = asked \cup {entry[ch]}
  /\ UNCHANGED <<status, findVars, itemVars, i, entry, count, weak>>
  /\ \E d \in 0 .. MaxCall :
       \/ /\ Strong(left, d)
          /\ age' = d
          /\ pc' = "tune"
          /\ UNCHANGED ch
       \/ /\ pc' = "look"
          /\ age' = 0
          /\ ch' = 1 - ch
          /\ Pass(left, IF ch = 1 THEN d + 1 ELSE d)
          /\ UNCHANGED strong

\* end[ch] = cur_ms + 1000; cur_ms is as old as the get_mse() call that freed it.
Deadline(l) == [l EXCEPT ![ch] = TUNE_TIME - age]

\* Mutant: the search for the next slot goes on where it was.
TuneOnward ==
  /\ pc = "tune"
  /\ \E d \in 0 .. MaxCall :
       /\ left' = Later(Deadline(left), d + 1)
       /\ given' = Longer([given EXCEPT ![ch] = 0], d + 1)
  /\ entry' = [entry EXCEPT ![ch] = i]
  /\ i' = i + 1
  /\ ch' = (IF i < Len(chlist) THEN 1 - ch ELSE 0) /\ age' = 0
  /\ pc' = IF i < Len(chlist) THEN "look" ELSE "last"
  /\ UNCHANGED <<status, findVars, itemVars, strong, count, weak, asked>>

\* The slot is given the next entry, set_freq() is called, and 100 ms pass.
Tune ==
  /\ pc = "tune"
  /\ \E d \in 0 .. MaxCall :
       /\ left' = Later(Deadline(left), d + 1)
       /\ given' = Longer([given EXCEPT ![ch] = 0], d + 1)
  /\ entry' = [entry EXCEPT ![ch] = i]
  /\ i' = i + 1
  /\ ch' = 0 /\ age' = 0
  /\ pc' = IF i < Len(chlist) THEN "look" ELSE "last"
  /\ UNCHANGED <<status, findVars, itemVars, strong, count, weak, asked>>

\* Mutant: the busy slots of the round before are counted too.
NextSlotKeeps(busy, l, d) ==
  IF ch = 0 THEN ch' = 1 /\ pc' = "last" /\ count' = busy /\ Pass(l, d)
  ELSE /\ ch' = 0 /\ count' = busy
       /\ IF busy = 0 THEN pc' = "identify" /\ Pass(l, d)
          ELSE pc' = "last" /\ Pass(l, d + 1)

\* The last loop goes on to the next slot; after both it sleeps, or is done.
NextSlot(busy, l, d) ==
  IF ch = 0 THEN ch' = 1 /\ pc' = "last" /\ count' = busy /\ Pass(l, d)
  ELSE /\ ch' = 0 /\ count' = 0
       /\ IF busy = 0 THEN pc' = "identify" /\ Pass(l, d)
          ELSE pc' = "last" /\ Pass(l, d + 1)

LastLook ==
  /\ pc = "last"
  /\ UNCHANGED <<status, findVars, itemVars, i, age, entry, strong, asked>>
  /\ \/ /\ left[ch] = Free
        /\ NextSlot(count, left, 0)
        /\ UNCHANGED weak
     \/ /\ Expired(ch)
        /\ GiveUp
        /\ NextSlot(count, [left EXCEPT ![ch] = Free], 0)
     \/ /\ left[ch] # Free /\ ~ Expired(ch)
        /\ pc' = "last_poll"
        /\ UNCHANGED <<ch, count, left, given, weak>>

\* Mutant: a slot that is polled is given another second.
LastPollRenews ==
  /\ pc = "last_poll"
  /\ asked' = asked \cup {entry[ch]}
  /\ UNCHANGED <<status, findVars, itemVars, i, age, entry, weak>>
  /\ \E d \in 0 .. MaxCall :
       \/ /\ strong' = Append(strong, entry[ch])
          /\ NextSlot(count, [left EXCEPT ![ch] = Free], d)
       \/ /\ NextSlot(count + 1, [left EXCEPT ![ch] = TUNE_TIME], d)
          /\ UNCHANGED strong

LastPoll ==
  /\ pc = "last_poll"
  /\ asked' = asked \cup {entry[ch]}
  /\ UNCHANGED <<status, findVars, itemVars, i, age, entry, weak>>
  /\ \E d \in 0 .. MaxCall :
       \/ /\ strong' = Append(strong, entry[ch])
          /\ NextSlot(count, [left EXCEPT ![ch] = Free], d)
       \/ /\ NextSlot(count + 1, left, d)
          /\ UNCHANGED strong

\* get_ch_id() returns, the tuner is closed, main() goes on unless it failed.
Identify ==
  /\ pc = "identify"
  /\ opened' = opened \ {idx}
  /\ UNCHANGED <<findVars, chlist, probeVars>>
  /\ \/ Exit(1) /\ UNCHANGED idx
     \/ /\ idx = Len(list)
        /\ Exit(0)
        /\ UNCHANGED idx
     \/ /\ idx < Len(list)
        /\ idx' = idx + 1
        /\ pc' = "item"
        /\ UNCHANGED status

do_item == Prepare \/ Look \/ Poll \/ Tune \/ LastLook \/ LastPoll \/ CallFails \/ Identify

Next == Discovery \/ do_item

\* The program is not stopped: a call returns (module Link), a sleep ends.
Spec == Init /\ [][Next]_vars /\ WF_vars(do_item)

-----------------------------------------------------------------------------
(* Properties *)

Entries == 1 .. Len(chlist)

\* The type of the state of main() and do_item().
TypeOK ==
  /\ pc \in {"find", "recv", "item", "look", "poll", "tune", "last", "last_poll", "identify", "exit"}
  /\ status \in 0 .. 1
  /\ ifs \in Seq(BOOLEAN) /\ iface_found \in Nat
  /\ list \in Seq(Tuners) /\ list_max \in Nat
  /\ idx \in Nat \ {0} /\ opened \subseteq 1 .. idx
  /\ chlist \in ChLists \cup {<<>>}
  /\ i \in Nat \ {0} /\ ch \in Chan /\ age \in 0 .. MaxCall /\ count \in Chan
  /\ left \in [Chan -> Free .. TUNE_TIME]
  /\ entry \in [Chan -> Nat]
  /\ given \in [Chan -> 0 .. TUNE_TIME + 1]
  /\ strong \in Seq(Nat)
  /\ weak \subseteq Nat /\ asked \subseteq Nat

StrongEntries == {strong[n] : n \in 1 .. Len(strong)}
Busy == {c \in Chan : left[c] # Free}
Working == {entry[c] : c \in Busy}
ToCome == {k \in Entries : k >= i}
Probing == pc \in {"look", "poll", "tune", "last", "last_poll", "identify"}

\* Two loops share the slots end[] and endch[], and a slot is freed in four
\* places (main.cpp 266-357): every entry of chlist ends as strong, once, or as
\* weak, and none is lost between the loops or left in a slot; strongch[n_ch],
\* on the stack, has room.
Accounted ==
  /\ Probing =>
       /\ Entries = StrongEntries \cup weak \cup Working \cup ToCome
       /\ weak \cap StrongEntries = {}
       /\ Working \cap (StrongEntries \cup weak) = {}
       /\ ToCome \cap (StrongEntries \cup weak \cup Working) = {}
       /\ Busy = Chan => entry[0] # entry[1]
       /\ \A m, n \in 1 .. Len(strong) : strong[m] = strong[n] => m = n
       /\ Len(strong) <= Len(chlist)
  /\ pc = "identify" => Busy = {} /\ ToCome = {}

\* A channel is given up after its second, but for the call of get_mse() that
\* cur_ms was read before (main.cpp 278 and 313).
NotGivenUpEarly ==
  [][\A k \in weak' \ weak : k = entry[ch] /\ given[ch] > TUNE_TIME - MaxCall]_vars

\* "tune timed out, channel is weak" (main.cpp:284) may be said of a channel whose
\* status was never read, as the search for a slot starts over at slot 0 (main.cpp
\* 271-306).  It is then in slot 1, and each channel tuned since has locked when slot
\* 0 was first polled, but for the one there now: nothing else keeps it from a poll.
UnaskedOnlyBehind ==
  [][\A k \in weak' \ weak :
       k \in asked \/ (ch = 1 /\ (k + 1) .. (i - 1) \subseteq StrongEntries \cup {entry[0]})]_vars

\* realloc() grows the list before the entry past its end is written.
ListFits == Len(list) <= list_max

\* The probe of a tuner comes to an end, whatever locks and however slow calls are.
ProbeEnds == (pc = "look") ~> (pc \in {"identify", "exit"})

=============================================================================
