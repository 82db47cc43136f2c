-------------------------------- MODULE Scan --------------------------------
(***************************************************************************)
(* tuner::scan() of tuner.cpp, on top of Tuner: the two demodulators probe *)
(* the table in parallel, with register 0x12a changed for the duration and *)
(* a temporary antenna when none is set.  One step is one turn of a loop.  *)
(*                                                                         *)
(* Bit 0x20 of the device's register 0x12a is tracked here, as long as no  *)
(* answer was missed: a write that failed did not change it then, and it   *)
(* may hold anything afterwards.  Which channels lock is a free choice.    *)
(***************************************************************************)
EXTENDS Tuner, FiniteSets, Functions

VARIABLES
  pc,         \* where scan() is
  i,          \* the index into ch_freq of the turn
  j,          \* the demodulator of the turn, in the loops over 0x12a
  ant_valid,  \* the antenna was set before the call
  reset,      \* set_freq() is asked to reset the demodulator
  find,       \* find[0 .. find_use - 1]
  old12a,     \* bit 0x20 of old12a[]
  reg12a,     \* the device: bit 0x20 of register 0x12a
  chlist,     \* what scan() stores in *chlist
  before,     \* history: reg12a when scan() was called
  probed,     \* history: the indices probed in this pass over the table
  heard       \* history: the TV channels that locked in this pass

scanVars == <<pc, i, j, ant_valid, reset, find, old12a, reg12a, chlist, before,
              probed, heard>>

allVars == <<vars, scanVars>>

CH_STEP == 2

n_ch_freq == TVCH_MAX - TVCH_MIN + 1

\* The index demodulator ch takes in the turn of i.
Index(ch) == i + ch * CH_STEP

InTable(ch) == Index(ch) < n_ch_freq

ScanInit ==
  /\ Init
  /\ pc = "idle"
  /\ i = 0 /\ j = 0
  /\ ant_valid = FALSE
  /\ reset = TRUE
  /\ find = <<>>
  /\ old12a = [ch \in Chan |-> FALSE]
  /\ reg12a \in [Chan -> BOOLEAN]
  /\ chlist = <<>>
  /\ before = reg12a
  /\ probed = <<>>
  /\ heard = {}

Returned == pc \in {"done", "failed"}

Unfollowed == [ch \in Chan |-> FALSE]

\* After a missed answer the device may carry a write out late, or not at all: the
\* register is not followed, and holds anything when the next connection is opened.
Holds(value) ==
  reg12a' \in IF lost' # 0 THEN {Unfollowed} ELSE IF lost # 0 THEN [Chan -> BOOLEAN] ELSE {value}

\* A call of scan(), up to its loops; cr_ms says whether set_freq() resets.  The
\* malloc() of find[] may fail, with the temporary antenna set.
Start(cr_ms) ==
  LET ms == IF active_ant = nc /\ cr_ms < 20 THEN 20 ELSE cr_ms
  IN /\ pc = "idle" /\ inited
     /\ before' = reg12a
     /\ reset' = (ms \in 1 .. 20)
     /\ ant_valid' = (active_ant # nc)
     /\ UNCHANGED <<i, j, find, old12a, chlist, probed, heard>>
     /\ \/ /\ active_ant # nc
           /\ pc' \in {"clear", "failed"}
           /\ UNCHANGED vars
        \/ /\ active_ant = nc /\ \E ch \in Chan : amp[ch] # off
           /\ pc' = "failed"
           /\ UNCHANGED vars
        \/ /\ active_ant = nc /\ \A ch \in Chan : amp[ch] = off
           /\ \E r \in set_antenna(State, ant1) :
                Become(r.s) /\ pc' \in IF r.ok THEN {"clear", "failed"} ELSE {"failed"}
     /\ Holds(reg12a)

\* The register of ch after the write of bit that ended in r.
Written(r, ch, bit) == IF r.ok THEN [reg12a EXCEPT ![ch] = bit] ELSE reg12a

\* Mutant: what the register held is not kept.
Clear12aForgets ==
  /\ pc = "clear"
  /\ UNCHANGED <<i, ant_valid, reset, find, old12a, chlist, before, probed, heard>>
  /\ \E r \in Modify(State) :
       /\ Become(r.s)
       /\ Holds(Written(r, j, FALSE))
       /\ pc' = IF ~ r.ok THEN "failed" ELSE IF j = 0 THEN "clear" ELSE "probe"
       /\ j' = 1 - j

\* A turn of the loop that clears the bit: a failure returns at once.
Clear12a ==
  /\ pc = "clear"
  /\ UNCHANGED <<i, ant_valid, reset, find, chlist, before, probed, heard>>
  /\ \E g \in Ask(State, Get) :
       \/ /\ ~ g.ok
          /\ Become(g.s)
          /\ pc' = "failed"
          /\ Holds(reg12a)
          /\ UNCHANGED <<j, old12a>>
       \/ /\ g.ok
          /\ old12a' = [old12a EXCEPT ![j] = reg12a[j]]
          /\ \E w \in Ask(g.s, Put) :
               /\ Become(w.s)
               /\ Holds(Written(w, j, FALSE))
               /\ pc' = IF ~ w.ok THEN "failed" ELSE IF j = 0 THEN "clear" ELSE "probe"
               /\ j' = 1 - j

TuneOne(s, ch) ==
  IF ~ InTable(ch) \/ ch_freq[Index(ch)] = 0 THEN Done(s)
  ELSE set_freq(s, ch, Index(ch) + TVCH_MIN, reset)

ReadOne(s, ch) == IF InTable(ch) THEN Ask(s, Get) ELSE Done(s)

\* Both demodulators are tuned, then the lock of both is read.
TunesAndReads(s) ==
  Then(TuneOne(s, 0), LAMBDA a : Then(TuneOne(a, 1),
  LAMBDA b : Then(ReadOne(b, 0), LAMBDA c : ReadOne(c, 1))))

\* What the turn adds to find[] for demodulator ch: the TV channel on record.  An
\* entry past the end of find[] is kept as well; what it overwrites is not modelled.
Hit(s, ch, locked) == IF ch \in locked THEN <<s.tvch[ch]>> ELSE <<>>

\* The index that ch probes in the turn.
Turn(ch) == IF InTable(ch) THEN <<Index(ch)>> ELSE <<>>

\* Mutant: the stride of one demodulator.
NextIndexShort(k) ==
  LET next == k + CH_STEP
  IN IF next >= n_ch_freq /\ next % 2 = 0 THEN 1 ELSE next

\* The even indices, then the odd ones.
NextIndex(k) ==
  LET next == k + NUM_CHANNELS * CH_STEP
  IN IF next >= n_ch_freq /\ next % 2 = 0 THEN 1 ELSE next

\* One turn of the loop over the table.
Probe ==
  /\ pc = "probe"
  /\ UNCHANGED <<j, ant_valid, reset, old12a, chlist, before>>
  /\ \E r \in TunesAndReads(State) :
       /\ Become(r.s)
       /\ Holds(reg12a)
       /\ \/ /\ ~ r.ok
             /\ pc' = "fail"
             /\ UNCHANGED <<find, heard, probed, i>>
          \/ /\ r.ok
             /\ \E locked \in SUBSET {ch \in Chan : InTable(ch)} :
                  /\ find' = find \o Hit(r.s, 0, locked) \o Hit(r.s, 1, locked)
                  /\ heard' = heard \cup {Index(ch) + TVCH_MIN : ch \in locked}
             /\ probed' = probed \o Turn(0) \o Turn(1)
             /\ i' = NextIndex(i)
             /\ pc' = IF i' >= n_ch_freq THEN "pass" ELSE "probe"

\* Mutant: after the last antenna comes another one.
EnoughNoLimit == Len(find) >= 3 \/ ant_valid

\* Mutant: the antennas are all tried, whatever was found.
EnoughAllAntennas == ant_valid \/ active_ant = coax

Enough == Len(find) >= 3 \/ ant_valid \/ active_ant = coax

\* After a pass: the table again with the next antenna, or the end.
EndPass ==
  /\ pc = "pass"
  /\ UNCHANGED <<j, ant_valid, reset, find, old12a, chlist, before>>
  /\ \/ /\ Enough
        /\ pc' = "restore"
        /\ UNCHANGED <<vars, i, reg12a, probed, heard>>
     \/ /\ ~ Enough
        /\ i' = 0 /\ probed' = <<>> /\ heard' = {}
        /\ \E r \in Then(set_amp(State, 0, off), LAMBDA a : Then(set_amp(a, 1, off),
                      LAMBDA b : set_antenna(b, active_ant + 1))) :
             Become(r.s) /\ pc' = IF r.ok THEN "probe" ELSE "failed"
        /\ Holds(reg12a)

\* Mutant: the list keeps the order of the passes.
SortedAsFound(list) == list

\* The place of the m-th entry in the sorted list; equal ones keep their order.
Place(list, m) ==
  Cardinality({k \in DOMAIN list : list[k] < list[m] \/ (list[k] = list[m] /\ k <= m)})

\* qsort() with tuner_scan_cmp()
Sorted(list) ==
  [n \in DOMAIN list |-> list[CHOOSE m \in DOMAIN list : Place(list, m) = n]]

\* A turn of the loop that restores 0x12a: a failure returns at once.
Restore12a ==
  /\ pc = "restore"
  /\ UNCHANGED <<i, ant_valid, reset, find, old12a, before, probed, heard>>
  /\ \E w \in Ask(State, Put) :
       /\ Become(w.s)
       /\ Holds(Written(w, j, old12a[j]))
       /\ j' = 1 - j
       /\ pc' = IF ~ w.ok THEN "failed" ELSE IF j = 0 THEN "restore" ELSE "done"
       /\ chlist' = IF pc' = "done" THEN Sorted(find) ELSE chlist

\* Mutant: the turn is tried again.
FailPathRetries ==
  /\ pc = "fail"
  /\ UNCHANGED <<i, ant_valid, reset, find, old12a, chlist, before, probed, heard>>
  /\ \E w \in Ask(State, Put) :
       /\ Become(w.s)
       /\ Holds(Written(w, j, old12a[j]))
       /\ j' = 1 - j
       /\ pc' = IF j = 0 THEN "fail" ELSE "probe"

\* The label fail: both registers are written, whatever comes of it.
FailPath ==
  /\ pc = "fail"
  /\ UNCHANGED <<i, ant_valid, reset, find, old12a, chlist, before, probed, heard>>
  /\ \E w \in Ask(State, Put) :
       /\ Become(w.s)
       /\ Holds(Written(w, j, old12a[j]))
       /\ j' = 1 - j
       /\ pc' = IF j = 0 THEN "fail" ELSE "failed"

ScanStep == Clear12a \/ Probe \/ EndPass \/ Restore12a \/ FailPath

\* The caller takes the result: the locals of scan() are gone.
TakeResult ==
  /\ Returned
  /\ pc' = "idle"
  /\ i' = 0 /\ j' = 0 /\ find' = <<>> /\ chlist' = <<>> /\ probed' = <<>> /\ heard' = {}
  /\ ant_valid' = FALSE /\ reset' = TRUE
  /\ old12a' = [ch \in Chan |-> FALSE] /\ before' = reg12a
  /\ UNCHANGED <<vars, reg12a>>

\* Between two scans the client may open, close or pick an antenna.
Client ==
  /\ pc = "idle"
  /\ Open \/ Close \/ \E ant \in AskedAntenna : SetAntenna(ant)
  /\ Holds(reg12a)
  /\ UNCHANGED <<pc, i, j, ant_valid, reset, find, old12a, chlist, before, probed, heard>>

ScanNext ==
  \/ ScanStep
  \/ TakeResult
  \/ Client
  \/ \E cr_ms \in {0, 20, 21} : Start(cr_ms)

\* scan() runs in its caller's thread, and every call it makes returns.
ScanSpec == ScanInit /\ [][ScanNext]_allVars /\ WF_allVars(ScanStep)

-----------------------------------------------------------------------------
(* Properties *)

\* The type of the state of scan().
ScanTypeOK ==
  /\ pc \in {"idle", "clear", "probe", "pass", "restore", "fail", "done", "failed"}
  /\ i \in 0 .. (n_ch_freq + NUM_CHANNELS * CH_STEP)
  /\ j \in Chan
  /\ active_ant \in Antenna /\ ant_valid \in BOOLEAN /\ reset \in BOOLEAN
  /\ find \in Seq(Tv \cup {NoTv}) /\ chlist \in Seq(Tv \cup {NoTv})
  /\ old12a \in [Chan -> BOOLEAN] /\ reg12a \in [Chan -> BOOLEAN]
  /\ before \in [Chan -> BOOLEAN]
  /\ probed \in Seq(0 .. (n_ch_freq - 1)) /\ heard \subseteq Tv

\* A pass over the table probes every index once, though the two demodulators
\* interleave and the even indices come before the odd ones (tuner.cpp 423-429).
PassCoversTable ==
  pc = "pass" => /\ Len(probed) = n_ch_freq
                 /\ Range(probed) = 0 .. (n_ch_freq - 1)

\* A scan that returned 0 and missed no answer leaves register 0x12a of both
\* demodulators as it found it (tuner.cpp 412-419, 462-466), however many passes
\* it took.
Restored12a == pc = "done" /\ lost = 0 => reg12a = before

\* The table has no gaps (tuner.cpp 577-628): a channel without a frequency would
\* not be tuned, and its lock would count for the channel before it.
Gapless == \A k \in DOMAIN ch_freq : ch_freq[k] # 0

\* With the antenna given by the client, the list scan() returns is in
\* increasing order, without repetition, and names exactly what locked.
ListIsWhatLocked ==
  Gapless /\ pc = "done" /\ ant_valid =>
    /\ \A m \in 1 .. Len(chlist) - 1 : chlist[m] < chlist[m + 1]
    /\ Range(chlist) = heard

\* The list is that of the antenna scan() leaves selected: everything that locked
\* on it is there and, as find_use is not reset between antennas (tuner.cpp 388,
\* 445-452), at most two entries of antennas that scan() has left.
ListOfLastAntenna ==
  Gapless /\ pc = "done" =>
    /\ heard \subseteq Range(chlist)
    /\ Len(chlist) <= Cardinality(heard) + IF ant_valid THEN 0 ELSE 2

\* The steps scan() can still take, at most: turns of the pass, the passes of the
\* antennas to come, the loops over the demodulators.
StepsLeft ==
  LET pass == n_ch_freq + 2
  IN CASE pc = "clear" -> 4 * pass + 4 - j
       [] pc = "probe" -> (coax - active_ant) * pass + n_ch_freq - Len(probed) + 4
       [] pc = "pass"  -> (coax - active_ant) * pass + 3
       [] pc \in {"restore", "fail"} -> 2 - j
       [] OTHER -> 0

\* Neither loop of scan() has a bound of its own (tuner.cpp 421-460), and a call
\* in them may fail or miss its answer: each step takes scan() nearer to its end.
ScanAdvances ==
  [][pc = "idle" \/ Returned \/ StepsLeft' \in 0 .. (StepsLeft - 1)]_allVars

\* scan() returns, with or without success (tuner.cpp 421-460 has no bound of
\* its own: the loop ends through the table and through the antennas).
ScanReturns == pc = "clear" ~> Returned

(* What the documentation says, and the code does not do *)

\* tuner.h 118: "if no signal is detected and this was a temporary antenna, try
\* another antenna", so that the n_ch_freq entries of find[] (tuner.cpp 400) are
\* enough for the pass over the table that fills them.
FindFits == Len(find) <= n_ch_freq

=============================================================================
