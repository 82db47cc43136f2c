# A formal model of seztuner

seztuner drives a Sezmi TUN-01, a network tuner with two demodulators: it finds
tuners on the local network, selects an antenna, scans the TV channels, receives
their transport streams over UDP and prints the names in their channel tables
(VCT). This directory holds TLA+ modules of its core, the TLC configurations that
check them on small instances, and proofs that TLAPS checks for all instances.

## 1. Inventory

| part | code | state it keeps | operations |
|---|---|---|---|
| tuner front end | `tuner.cpp`, `tuner.h` | `active_ant`, `ch_state[2]` (amplifier input, TV channel), `cur_gpio` | `open`, `init`, `set_antenna`, `set_freq`, `get_mse`, `start_ts`, `stop_ts`, `close` |
| control connection | `socket.cpp` 306-799 | the TCP socket, and what is in flight on it | `write_then_read` and the register calls built on it |
| channel scan | `tuner.cpp` 342-477 | locals: index, list, antenna, saved registers; register 0x12a in the device | `scan` |
| transport stream receiver | `mpgts.cpp`, `mpgts.h` | the receiving thread, `want_reset[2]`, two UDP sockets | `thread_main`, `start_ts`, `open`, `close` |
| section demultiplexer | `mpgatsc.cpp` 27-65, 537-633 | a buffer and a length per PID | `thread_demux`, `init` |
| table parsers | `mpgatsc.cpp` 97-534 | versions of PAT, PMT, MGT, VCT; `pat[]`; `vctstr` | `parse_tbl` and what it calls |
| channel identification | `main.cpp` 68-198 | `chlist`, `status[2]`, `vct_all` | `get_ch_id` |
| strong channel probe | `main.cpp` 201-365 | `end[2]`, `endch[2]`, `strongch` | `do_item` |
| recording | `main.cpp` 367-416, `open_dump` | the dump file | `do_record` |
| discovery | `socket.cpp` 169-303 | the list of tuners | `find` |
| interfaces, checksums, command line | `iface.cpp`, CRC functions, `main` | none | - |

**How they interact.** `main` calls one tuner at a time, from one thread. Every
front end command is a request and an answer over TCP; the answer has a type and
a length and no number. `mpgts::open` starts one thread, which receives both
streams and runs the demultiplexer and the parsers. It shares with the client
thread the two `want_reset` flags and the two `vctstr` pointers, without a lock.
The device streams to a UDP port from `start_ts` until `stop_ts`.

**What is hard.**

* Any command may fail half way: the answer may be late (after 400 ms the call
  gives up, and the next one finds the old answer), or be a refusal.
* `ch_state`, the GPIO word and the PLLs are three records of one thing, and one
  GPIO word serves both demodulators.
* `scan` interleaves two demodulators with a table, changes a register for the
  duration, and may run over several antennas.
* `want_reset` and `vctstr` are read and written by two threads.
* `get_ch_id` removes entries from the list that it is indexing.
* Packets are lost, repeated and damaged; tables change version, repeat, and are
  announced ahead of time.
* `do_item` has two loops over two slots with deadlines, and reads the clock before
  calls that take time.
* A recording opens its file before the reset that would close it.

**What makes each part correct.** The front end: its record, the device and the antenna
agree after every call that can promise it. The connection: answers belong to requests as
long as none was missed. The scan: every channel probed, the list exact, the register
restored, an end. The receiver: a stream starts from an empty parser. The demultiplexer:
buffers never overrun, a section that arrives is parsed, nothing else is. The parsers:
what is kept is what was last sent, and the array of programs has room. The
identification: the channel removed is the one received, a table that was found stays,
every round ends. The probe: every channel of the list ends as strong or as weak, none
early. The recording: the file stays open over the reset it asks for.

`PROJECT.json` lists the hazards with their lines and the properties aimed at
each, and the line of code behind every definition ("map").

## 2. The modules

| module | what it is | checked by | proofs |
|---|---|---|---|
| `Tuner` | front end, connection and device, one call at a time | `MCTuner`, `MCTunerTable` | `TunerProofs` |
| `Link` | the connection, one system call at a time | `MCLink` | `LinkProofs` |
| `RemoteCall` | abstract: what a register call promises | refined by `Link` | `LinkProofs` |
| `Scan` | `scan()`, on top of `Tuner` | `MCScan` | `TunerProofs` |
| `Mpgts` | receiving thread, reset requests, published tables | with `GetChId`, `Record` | `MpgtsProofs` (lemmas) |
| `GetChId` | `get_ch_id()`, `start_ts()` and `close()`, on top of `Mpgts` | `MCGetChId` | `GetChIdProofs` |
| `Record` | `do_record()` and the dump file, on top of `Mpgts` | `MCRecord` | `RecordProofs` |
| `Demux` | `thread_demux()` with broadcaster and network | `MCDemux` | `DemuxProofs` |
| `Tables` | the table parsers with a broadcaster | `MCTables` | `TablesProofs` |
| `Sez` | `main()`, `do_item()` and discovery | `MCSez` | `SezProofs` |

`Scan` extends `Tuner`; `GetChId` and `Record` extend `Mpgts`, as two clients of
the same thread. `Link` implements `RemoteCall`. The others meet at what one hands to
the other: `Demux` ends where it gives a whole section to `parse_tbl`, `Tables`
begins there, and `Mpgts` has the one thing of `Tables` that two threads share, the
string of channels. In `Sez`, `scan()` returns any list and `get_ch_id()` anything.

### Tuner

A function of the class is an operator of the same name, which maps a state (a
record) to the set of states it may leave, each with whether the function returned
0. `Then` is `if (call) return 1;`. A step of `Next` is one call of the public
interface, by a client that has one thread, or the device dealing with requests.
So the code's order of calls, its early returns and what a failure leaves behind
are all in the operators, and an action is a whole call.

`requests` and `answers` are what is in flight. The device deals with requests
in order, carries each out or refuses it, at any time (`Served`). `Await` is the
wait for an answer: the oldest is read, or none (timeout, bad CRC, wrong type).
`write_then_read` also may fail before it has sent anything. `hwGpio` and
`hwFreq` are what the device last applied; it starts with any GPIO word.
The bits of the GPIO word are a set of amplifier bits and two filter values;
`GPIO_80F0` is left out, because nobody calls `refresh_gpio`.
`FreqRead` is the table as line 291 indexes it, with `WildFreq` for a read past
its end. `lost`, `inited`, `antSet` and `tuned` are history variables. `tuned` has for
each demodulator the TV channel of the last PLL request that was acknowledged, and
whether that `set_freq` went on to return 0: when `reset_demod` fails after the PLL
(line 335), the PLL has the new channel and the record the old one, and `TunedToRecord`
says so.

Calls that only read or write registers of a demodulator (`set_modulation`,
`get_mse`, `start_ts`, `stop_ts`) are modelled by the requests they make and where
each may fail. The 27 writes of the table `vsb1[]` count as one: repeating a
call that may fail in the same ways adds no state.

### Link and RemoteCall

`Tuner` takes a call as one step. `Link` is the same call one system call at a
time: `write`, the wait in `pselect` (`pc = "wait"`), `FIONREAD` and the header
(`read_few`, `read_header`), the rest (`read_body`). Answers arrive in pieces
(`whole`, `part`), the device may serve late, refuse, or close the connection at
any point. A `timeout` may come at any moment of the wait, including after the
answer has arrived. There are two calls, reading and writing one register: what
the code tells answers apart by is their length, and these two lengths are the case.
When the connection ends after a header was read, `::read` returns 0 for ever: the
loop of lines 375-381 does not end (`pc = "spin"`, a step from which nothing
follows, so deadlock is not checked).

`RemoteCall` is what a caller may count on: a call that returns 0 reports what the
device did with its own request, as long as the connection is `trusted`; a call that
fails may end that. The refinement maps `trusted` to what the code has no variable
for: nothing is owed but the answer of the call being made.

### Scan

The loops of `scan()` are steps: `Clear12a`, `Probe` (both demodulators tuned, both read),
`EndPass` (the decision about the next antenna), `Restore12a` and `FailPath`; `Start` is
everything before them, the `malloc` of `find[]` among it. `find` keeps the entries past
the end of that array as well; what they overwrite is not modelled. Which demodulators
lock is a free choice. `Client` lets the tuner be opened, closed and given an antenna
between scans, so that a scan meets the states earlier ones left. `probed`, `heard` and
`before` are history variables. With a missed answer a register write that "failed" may
still be applied later, or a value read be that of another register: from then on register
0x12a is not followed, until the next connection finds anything in it (`Holds`), and
`Restored12a` speaks of scans on a connection that missed none. The other properties need
no such condition. `Gapless` is what the list needs of the table: for a channel without a
frequency the code skips the tuning and reads the lock all the same.

### Mpgts, GetChId and Record

The thread is one step per access to shared state: `Select` (the set of readable
sockets is fixed there), `Reset` (clears `want_reset`), `ParserInit` (frees the
table), `Recv` (allocates `vctstr`, empty), `Fill` (the lines are there). Between
any two of them the client may run. A datagram is one that completes a table,
named by the channel it came from; others leave no trace. The thread may end at
any error.

`GetChId` is the other thread: `Tune`, `Poll`, `ReadStatus`, `StartTs` and `Wait`
(`mpgts::start_ts`), `GetVct`, `Collect`, and then `close`, which cancels the thread
and joins it. A thread that is cancelled ends at a cancellation point (`EndThread`):
the wait in `pselect`, or a `recvfrom`. Every command may fail, which ends
the function, and one that fails may have got to the device or not. The memory for
`vct_all` may be refused. A key may be pressed from the second poll on. `Collect` asks for the
table twice more (main.cpp 173 and 181): when `init()` has freed it by then,
`get_vct()` returns NULL, `strlen` or `strcat` crashes, and with it the program
(`pc = "crashed"`). `shown` keeps, for each table added to `vct_all`, the channel removed
with it, the channel the demodulator received, and the table. `late`, a history
variable, marks a table that was found while `init()` was still to come.

`Record` is the other client: `open_dump`, `start_ts` and its wait, `Stream`,
`set_freq`, polling. The file is what `dump` holds, one channel per datagram.
`init()` in the thread closes the file when bytes have got to it, which it asks of
`lseek`: what stdio still buffers (`BUFFER`) does not count. A write may fail, and
then the file is closed. What precedes `open_dump` in `do_record` - opening, the
antenna, the scan - is that of `do_item`. The program ends without `stop_ts` or
`close`.

### Demux

A byte is a section and an offset: what matters is whether bytes are in their
place. `thread_demux(pkt)` is the whole function, one disjunct per path. The
length in a buffer is that of the section its bytes 1 and 2 belong to, and any
legal length when they do not belong together. `parse_tbl` is reduced to which
section it was given whole; others fail their CRC. The broadcaster begins a section
after what is left of the one before, as the pointer field allows, or goes on with
one; packets carry adaptation fields. `Travels` and `Repeat` are the network.
`clean` is the history of a PID since its last start.

### Tables

A section of a table is its version and its body; its flaws are "damaged" (a wrong
table id or CRC), "next" (not in force yet) and "partial" (one of several, empty, or
of another version of the ATSC protocol).
`mpg_parse_hdr` reads the version with the mask of line 154, takes it when it is the
next one or the first, and stores it where the code does. What follows is one action
per table: the array of programs of the PAT with its growth and a `calloc` that
fails (`NoMemory`), the PID of the PMT, the string of the VCT. The broadcaster
changes any table at any time and gives it the next version; `init` resets the
parser and keeps the array, as the code does. `heard` is the last faultless section
of each kind; `inStep` and `low` say whether the versions heard came one by one and
were below 8, where the mask loses nothing.

### Sez

`find()` goes over the interfaces, broadcasts on one that is link-local and
receives answers, which grow the list. `do_item` works on one entry after the other.
The probe is one step per turn of a loop: `Look` (line 276-294), `Poll`, `Tune`,
`LastLook`, `LastPoll`. Time is in units of 100 ms, the sleep of both loops, and
kept as what is left until `end[ch]`, so it has no bound of its own. `age` is how
long ago `cur_ms` was read: a call takes up to `MaxCall` and the code does not read
the clock again after it. `weak`, `asked` and `given` are history variables.

## 3. The runs

Every passing run completes; the sizes are distinct states.

| run | question | instance |
|---|---|---|
| `tuner` | do record, device and antenna agree, whatever is refused or missed? | 3 channels, all asked of demodulator 0 and one of 1, antennas nc, ant2 and coax, one missed answer per connection; 197 643 |
| `link` | does the connection implement `RemoteCall`, and do calls return? | 2 values, 3 requests and answers in flight; 22 574 |
| `scan` | coverage, the list and what earlier antennas leave in it, register, end | 3 channels, antenna none or what was detected, one missed answer per connection; 190 740 |
| `get_ch_id` | the two threads, and `close` | list 2, 7, 2 of three channels, 2 polls, 1 datagram buffered; 1 093 371 |
| `record` | the file, the reset and the channels in it | 3 channels, 2 datagrams buffered, 5 recorded; 90 000 |
| `demux` | reassembly | 2 PIDs, sections of 3 and 9 bytes, 5 byte packets, 2 faults; 1 269 428 |
| `tables` | versions, resets, the array | 3 program tables, 2 PMT PIDs, 2 VCT table ids, versions from 6, 2 changes; 918 784 |
| `sez` | discovery and the probe | 2 tuners, 3 answers, lists of 0, 1 and 4, a second of 3 units; 210 481 |

Why these are enough:

* `tuner`: the 3 entry table has VHF and UHF frequencies. By the index of line 291 two of
  its channels tune, each to a frequency of its own, so record and PLL of a demodulator
  can be of different channels; the third reads past the end, where `WildFreq` is beyond
  what the tuner takes, and fails before the PLL. One demodulator goes through all of
  them, the other has one to lose. The antennas are none, a pair of inputs and coax, which
  has its own branch in `set_antenna`; ant1 has the code of ant2 with its own two inputs.
  One missed answer is enough for every later call of the connection to read the wrong
  answer.
* `link`: with three in flight, a call may find two answers of earlier ones before
  its own. Two values make a read of another call's answer visible.
* `scan`: with 3 entries a turn over the even indices has both demodulators and one over
  the odd indices a single one; longer tables are the theorems'. The antenna is
  detected, given (by the scan before), or taken back to none, so one to three passes
  occur. The answer may be missed in any call of any scan, so late answers meet every
  loop, and the connection may be opened anew. Deadlock is checked.
* `get_ch_id`: three entries make both orders of removal, a round with two
  channels and one with a single channel; a channel found on two antennas is in the
  list twice. One buffered datagram is enough for it to outlive a change of channel.
  `POLLS` of a round are two; the thread may be slower than both. After `close`, or a
  crash, nothing is left to do, so deadlock is not checked.
* `record`: the three polls of `want_reset` are those of the code. stdio writes after
  two datagrams, so a reset meets a file without bytes, with buffered and with
  written ones. The program ends, so deadlock is not checked.
* `demux`: the shortest section and the longest, in one, two or more packets, in
  start packets with and without a rest of the section before; the buffer is one
  byte longer than the longest section, as in the code (0x1003 and 0x1002). Two
  faults may hit one section or two. The thread ends on a bad packet, so deadlock
  is not checked.
* `tables`: from version 6 two changes go past 7, where the mask bites, and within
  it. The program tables grow, shrink, and do without program 3.
* `sez`: a second of three units and calls of up to one let a slot expire while the
  other is polled, and before it is. Four entries fill both slots twice; one channel
  is twice in the list. Three answers of two tuners repeat one and grow the list, by
  two. The program exits, so deadlock is not checked.

**Fairness.** Each is of one thread, and the code justifies it by the system
scheduling that thread and by the calls in it returning.

* `ScanReturns`: weak fairness of the steps of `scan`, whose calls return, since
  `write_then_read` gives up after 400 ms.
* `CallReturns`: weak fairness of the client's steps, the end of the 400 ms among
  them, and of the rest of an answer whose header has been delivered. The second is
  what `read` itself relies on: it has no deadline for the rest (lines 375-381). The
  property promises nothing once the connection has ended.
* `RoundEnds`: weak fairness of `get_ch_id` and `close`, and of the receiving thread.
  Fairness of the thread does not keep it from ending. A crash also ends a round.
* `ProbeEnds`: weak fairness of `do_item`; sleeps end.
* `GetsGoing`: weak fairness of `do_record` up to its polling, where it waits for a
  key that may never be pressed.

Nothing is assumed of the device, of the network or of the user.

### Where the code and its documentation disagree

Four runs each check one sentence of the repository and find it violated.

| run | sentence | what the code does |
|---|---|---|
| `tuner_table` | tuner.h 93: channel 7 is 177 MHz | line 291 indexes the table with `tvch`, line 286 with `tvch - TVCH_MIN` |
| `own_vct` | mpgts.cpp 162: "reset all pkt state" | the flag is cleared before the reset; old datagrams remain |
| `every_version` | mpgatsc.cpp 43: "valid values are 0-31" | the mask 0x2f loses a bit: 7 is followed by 0, and the table is not taken |
| `find_room` | tuner.h 118: another antenna "if no signal is detected", for which the `n_ch_freq` entries of `find[]` would do | another one is tried when one or two channels were found as well (line 450), `find_use` goes on from there (388), and line 445 writes past the end of `find[]` |

The instance of `find_room` misses no answer and lets the antenna be detected: one
channel locks on the first, all three on the next. With the real table of 50 channels
it takes 49 or more that lock on one antenna, after one or two on those before it.
`ListOfLastAntenna` is what holds of the list in any case. The trace of `own_vct` shows
an old table; when `init()` gets in between the lookups of `get_vct()`, the same lines
end in the crash described under `GetChId`, and `KeepsItsTable` says that an old table
is the only way there.

Because of line 291, `TunedToRecord` is stated with `FreqRead`, what the code
computes; `TunesTheNamedChannel` is the same with the frequency of the channel.

Other places where code and text part, met while reading; no run is spent on them: line
197 of tuner.cpp ORs the enumeration value of an amplifier where `amp_gpio[]` has its bits
(`GpioWord` models what it does); `set_antenna(nc)` "sets both amps off" (tuner.h 102) but
not when an answer is missed; "tune timed out, channel is weak" (main.cpp 284) is said of
slot 1 also when slot 0 locked each time and slot 1 was never asked (`UnaskedOnlyBehind`
says how far that goes); a channel that succeeded "has VCT data" (main.cpp 169), which may
be an empty string, since `vctstr` is published before it is filled; and two first
channels without a table are polled for ever, so that `get_ch_id` does not get to "any
ATSC channel it can find" (main.cpp 444).

## 4. What is proved

For every value of the constants under the assumption each module names
(`TunerAssumption`, `LinkAssumption`, ...), which only say what the constants are;
TLC evaluates them in every run. `TablesProofs` and one theorem of `SezProofs` assume
one thing more, see there.

**`TunerProofs`.** `TypeCorrect`, `NoBacklogHolds`, `HardwareFollows`, `InputFollows`,
`TunedAsRecorded`, from `SpecIInv`, and the action property `OneAtATimeAlways`.
`HardwareFollowsRecord` is not inductive: with an old answer on the connection, `set_gpio`
would take it for its own. The strengthening adds `NoBacklog` - requests and answers in
flight never outnumber the missed answers - so with none missed the connection is empty
between two calls, the answer read is the one just caused, and an acknowledged word was
applied. `Tracks` says the same of the PLL and of the last request for it that was
acknowledged. `Listens` strengthens `InputFollowsAntenna`: the coax input is on only for
coax, also when no TV channel is recorded, which is what `set_antenna` relies on when it
leaves an amplifier on.

The proof follows the code: the device and `write_then_read` first (`ServeType`,
`WriteThenRead`), then one lemma per function of the class. Each says that the function
takes good states to good states (`Keeps`), that one for a channel leaves the other
alone as well (`Moves`), or, for functions that write neither the GPIO word nor a PLL,
that they leave both and the record alone (`Quiet`); all three are transitive, so a
chain of calls is a chain of lemmas. `init` establishes the invariant from an unknown
device (`InitFollows`). `OneAtATimeAlways` needs two more facts: the filter of a channel
depends on that channel's input only (`FilterOfOne`), and `set_antenna` to the antenna
already set changes nothing, because every amplifier that is on is right for it
(`SetAntennaKeeps`).

Of `Scan`: `SpecScanInv`, and from it `FrontEndSurvivesScan` (types, backlog, GPIO
word, inputs and PLLs as above, in every step of a scan), `ScanTypeCorrect`,
`PassCovers`, `Restores`, `ListIsExact`, `ListIsOfLastAntenna`, `FindFitsGivenAntenna`,
and the action property `AlwaysAdvances`. A step of
`scan` calls the same functions, so their contracts carry over (`ProbeInv`,
`EndPassInv`). To the invariant of the front end `ScanInv` adds one part per loop.
`ScanRegister`: which of the two registers have their old value in the device and
which in `old12a`, by `pc` and `j`. `ScanCoverage`: what was probed is the beginning
of one sequence, the even indices and then the odd ones, which takes arithmetic on
the stride (`PassArithmetic`, `TurnCovers`). `ScanFound`: what locked in this pass is in
`find`, once each when the antenna is given, and with at most two entries from antennas
before when not; it needs that a tuning that returned 0 recorded the channel it was
asked for (`TunesAndReadsScans`). `ScanAntennas` bounds `find` by what was probed: a
scan with a given antenna stays inside `find[]`, and one that detects the antenna is
never more than two entries beyond (`FindFitsGivenAntenna`). That the list
is sorted is proved of `Sorted` itself, for every list: an entry's place is how
many entries come before it, places are a permutation of the positions
(`PlaceIsExact`), and entries without repetition come out strictly increasing
(`SortedIsExact`). `AlwaysAdvances` is the part of `ScanReturns` that is in reach: a variant,
`StepsLeft`, the turns left of the pass and the passes of the antennas to come, which
every step lowers. Left to TLC is that a step can always be taken.

**`LinkProofs`.** `LinkImplementsRemoteCall`: the refinement, and `LinkTypeOK`. A
step of `Link` is a step of `RemoteCall` or leaves its variables alone; what a
return needs is `OwnAnswer`: when nothing but the call's own request or answer is
owed, that is what it finds. It rests on `StreamOK` (a header that was read has an
answer behind it, which is among those sent) and `CallOK`.

**`DemuxProofs`.** `BufferNeverOverrun`, `HoldsIncompleteAlways`,
`CollectsAllocatedAlways`, `DemuxTypeCorrect`, and with a second invariant
`CleanSectionAlwaysParsed` and `NothingElseParsed`. `FitsBuffer` is about the copy of the
packet that comes next, so it needs to know how full a buffer can be between two
packets: the invariant is that a buffer is shorter than the length in its own bytes
1 and 2. `IncompleteFits` and `StoreFits` turn it into the bound, by
`MaxSlen < max_pkt_len`. Since `Slens` depends on the bytes themselves, the step
(`CompleteStep`) speaks of the bytes after the packet was stored, for any packet,
not only those a broadcaster sends. The second invariant, `Heard`, says that while a
section arrives cleanly the buffer is its first `k` bytes and what is still to send the
others, or that it has been parsed. A packet takes the one cut to another (`CutCut`,
`DropDrop`; `StartBytes` for the bytes after a pointer), and `CompleteClean` says when
the length in the buffer is that of the section: bytes 1 and 2 are there before as many
bytes as any section has.

**`TablesProofs`.** `TablesAlwaysFollow`, `ArrayAlwaysFits`, `TablesTypeOK`, in two
layers: types and the array (`SpecIInv`), then the content (`SpecJInv`). A parser that
keeps the version it heard last may meet a section with that version: it throws it
away, and what it keeps is right only if that is the same table. `Ahead` is why: what
is sent is as many changes ahead of what was heard as the versions differ, and with
`FewChanges` (fewer than 32 in all) an equal version means no change in between.
`Following` says what the parser kept.

**`MpgtsProofs`.** Lemmas for both clients, each about a step of the thread or the
device: it keeps `TsInv`, which adds to the types that a socket still to be read in this
turn has a datagram (`ReadyIsThere`), since nobody else reads from it.

**`GetChIdProofs`.** `TableKept`, `RightChannelRemoved`, `EntryPolled`, `ResetNoticed`,
`GetChIdTypeOK`. The invariant adds which demodulator's turn it is, that a stream was
started only after its reset was noticed, and that what was found belongs to a
demodulator the round uses. Why a found table stays is `Held`: a demodulator that is done
was started, so no reset of it is pending, and the thread frees its table only if it was
on its way to `init()` when the table was found - which is what `late` marks. `ShowIs` and
`RemoveAtIs` say what taking an entry out of the list does to the places behind it,
and `RoundIs` puts the two turns of a round together.

**`RecordProofs`.** `FileStaysOpen`, `FileInOrder`, `RecordTypeOK`. The file survives
the reset because nothing is streamed before `start_ts` has seen it noticed
(`ResetFirst`): between the moment the thread clears the flag and `init()`, the
socket is still empty of this stream. `FileInOrder` says of every datagram which channel
it has: there is one place in the file, which may be either end, where it goes over from
the channel the scan left tuned to the one asked for. The invariant is that of the file
and of what is on its way to it together (`Splits`), because `set_freq` may find
datagrams of the first channel in the socket.

**`SezProofs`.** `ProbeAccounts`, `GivesUpLate`, `ListAlwaysFits`, `SezTypeOK`,
`UnaskedBehind`, `ProbeAlwaysAdvances`. `Share` says how slots, strong and weak entries
divide those before `i`; the bound on `strongch[]` needs the count as well, with the slots
in it. `NotGivenUpEarly` is an action property: `Timed` says that the time since
`set_freq` and the time left add up to the second, but for the age of `cur_ms`.
`UnaskedBehind` assumes that two calls and the sleep between them fit in the second of a
channel (`CallsFit`); with slower ones slot 0 could run out unasked as well. `Behind` is
its invariant: a slot not polled since it was tuned is slot 0 on its way to the poll, or
slot 1 behind channels that all locked. `ProbeAdvances` is the part of `ProbeEnds` that is
in the prover's reach: neither loop of the probe counts its turns, and `StepsLeft` bounds
what each may still take, from the entries to come, the time left of both slots and the
place in the loop. A turn without a call sleeps at least once, and that is what makes time
pass; a slot polled in its second may run out before the sleep, so `Rest` counts slot 0 as
running until slot 1 has been looked at. No run checks the variant by itself: `MCSez`
checks `ProbeEnds`.

**Model-checked only.** Liveness: `ScanReturns`, `CallReturns`, `RoundEnds`, `ProbeEnds`
and `GetsGoing`. Liveness under fairness and `ENABLED` are beyond the prover. So are facts
by induction over data and `RECURSIVE` operators: the modules have no `RECURSIVE`
operator, and say what a loop or a sort computes without one.

## 5. Not modelled

* The wire formats and checksums: bit arithmetic; a bad one is a refused answer or a
  section that is not whole. Sections with the short header, which none of the four
  tables may have.
* Signals: a write to a connection the device has reset ends the program (SIGPIPE),
  and with it everything the models speak of.
* The text of tables: `parse_mgt` keeps nothing, the names of channels and their label
  are formatting. The size of `vct_all`: that its `realloc` may fail is modelled.
* More than one section in a packet: the broadcaster of `Demux` starts one at most,
  after the rest of another. `thread_demux` drops what follows a section in its packet,
  so `CleanSectionIsParsed` does not speak of streams packed like that.
* `mpgts::open`: it makes the sockets and the thread before the modelled part begins.
  The progress callback of `scan` writes a line of text.
* A clock set back while `do_item` runs: `cur_ms` is then a very large number, and
  all slots time out at once.
* `iface.cpp`, `rawgetch` and the arguments of `main`: calls of the operating system,
  with no state of their own.
* Memory freed by `main` under a thread that still runs (main.cpp 472): the program
  ends right after, and any outcome is possible until then.

## 6. What is left

* `Tuner` on top of `RemoteCall`, in the place of its own requests and answers.
* An abstract specification of the front end, inputs and TV channels per demodulator,
  that `Tuner` implements while no answer is missed.
