------------------------------- MODULE Tables -------------------------------
(***************************************************************************)
(* The table parsers of class mpgatsc (mpgatsc.cpp 113-189 and 398-534):   *)
(* what one parser keeps of the whole sections thread_demux() hands it,    *)
(* from one reset to the next, and the broadcaster (external), which gives *)
(* a table a new version number each time it changes it.                   *)
(*                                                                         *)
(* A table is <<kind, id>>: the program map (PMT) on one of several PIDs,  *)
(* the channel table (VCT) as one of the three table ids 0xc8, 0xc9, 0xda. *)
(* Its sections have the long header that ISO 13818-1 requires of them.    *)
(***************************************************************************)
EXTENDS Integers

CONSTANTS
  PatBodies,    \* program associations: functions from programs to PIDs
  PmtPids,      \* the PIDs that may carry the PMT of program 3
  PcrPids,      \* what a PMT may name as its clock
  VctIds,       \* which of TVCT, CVCT, SVCT are sent
  VctBodies,    \* channel tables, as the lines they become
  FirstVersions,\* the versions a broadcaster may be at when we tune in
  MaxChanges    \* bound: changes of a table

VARIABLES
  curver,       \* pat_curver, pmt_curver, mgt_curver, vct_curver
  pmt_pid, pcr_pid,
  pat, pat_use, pat_max,
  vctstr,
  sent,         \* the broadcaster: version and content of each table
  changes,      \* and how often it has changed one
  heard,        \* history: for each kind, the last faultless section received
  inStep,       \* history: since the reset each kind's versions came one by one
  low           \* history: and they all were below 8

parserVars == <<curver, pmt_pid, pcr_pid, pat, pat_use, pat_max, vctstr>>
vars == <<parserVars, sent, changes, heard, inStep, low>>

Kinds == {"PAT", "PMT", "MGT", "VCT"}

Tables == {<<"PAT", 0>>, <<"MGT", 0>>} \cup ({"PMT"} \X PmtPids) \cup ({"VCT"} \X VctIds)

Versions == 0 .. 31
NoVersion == 32

Nothing == <<>>
Mgt == "mgt"

Bodies(kind) ==
  CASE kind = "PAT" -> PatBodies [] kind = "PMT" -> PcrPids
    [] kind = "VCT" -> VctBodies [] kind = "MGT" -> {Mgt}

ASSUME TablesAssumption ==
  /\ \A body \in PatBodies : DOMAIN body \subseteq Nat
  /\ \A body \in PatBodies : \E n \in DOMAIN body : \A m \in DOMAIN body : n >= m
  /\ \A body \in PatBodies : \A prog \in DOMAIN body : body[prog] \in Nat
  /\ PmtPids \subseteq Nat \ {0} /\ PcrPids \subseteq Nat
  /\ FirstVersions \subseteq Versions
  /\ MaxChanges \in Nat

NothingHeard == [kind \in Kinds |-> Nothing]
SoFar == [kind \in Kinds |-> TRUE]

Init ==
  /\ curver = [kind \in Kinds |-> NoVersion]
  /\ pmt_pid = 0 /\ pcr_pid = 0
  /\ pat = Nothing /\ pat_use = 0 /\ pat_max = 0
  /\ vctstr = Nothing
  /\ \E first \in [Tables -> FirstVersions], assoc \in PatBodies, pcr \in PcrPids, lines \in VctBodies :
       sent = [t \in Tables |->
                 [ver |-> first[t],
                  body |-> CASE t[1] = "PAT" -> assoc [] t[1] = "PMT" -> pcr
                             [] t[1] = "VCT" -> lines [] t[1] = "MGT" -> Mgt]]
  /\ changes = 0
  /\ heard = NothingHeard /\ inStep = SoFar /\ low = SoFar

-----------------------------------------------------------------------------
(* mpg_parse_hdr() and atsc_parse_hdr().  A section is "damaged" when its   *)
(* table id or CRC is wrong, "next" when it is not in force yet, "partial"  *)
(* when it is one of several, empty, or of another ATSC protocol version.   *)

Flaws == {"none", "damaged", "next", "partial"}

\* (pkt[pos + 2] & 0x2f) >> 1: bit 3 of the version is masked out.
rx_ver(ver) == (16 * (ver \div 16)) + (ver % 8)

InForce(cur, ver) == cur = NoVersion \/ rx_ver(ver) = (cur + 1) % 32

\* Mutant: the version is counted, not recorded.
mpg_parse_hdrCounts(cur, ver, flaw) ==
  IF flaw \in {"damaged", "next"} \/ ~ InForce(cur, ver)
  THEN [ok |-> FALSE, ver |-> cur]
  ELSE [ok |-> flaw = "none", ver |-> cur + 1]

\* The version is recorded before the section is found to be partial.
mpg_parse_hdr(cur, ver, flaw) ==
  IF flaw \in {"damaged", "next"} \/ ~ InForce(cur, ver)
  THEN [ok |-> FALSE, ver |-> cur]
  ELSE [ok |-> flaw = "none", ver |-> rx_ver(ver)]

-----------------------------------------------------------------------------
(* History *)

Follows(was, is) ==
  was = Nothing \/ (was.table = is.table /\ is.ver \in {was.ver, (was.ver + 1) % 32})

\* A partial section of a version not heard yet costs the parser that version.
Hear(t, flaw) ==
  LET kind == t[1]
      was == heard[kind]
      is == [table |-> t, ver |-> sent[t].ver, body |-> sent[t].body]
  IN CASE flaw = "none" ->
            /\ heard' = [heard EXCEPT ![kind] = is]
            /\ inStep' = [inStep EXCEPT ![kind] = @ /\ Follows(was, is)]
            /\ low' = [low EXCEPT ![kind] = @ /\ is.ver < 8]
       [] flaw = "partial" ->
            /\ inStep' = [inStep EXCEPT ![kind] =
                            @ /\ was # Nothing /\ was.table = t /\ was.ver = is.ver]
            /\ UNCHANGED <<heard, low>>
       [] OTHER -> UNCHANGED <<heard, inStep, low>>

\* malloc() or calloc() failed.
NoMemory(kind) ==
  /\ inStep' = [inStep EXCEPT ![kind] = FALSE]
  /\ UNCHANGED <<heard, low>>

-----------------------------------------------------------------------------
(* parse_tbl() *)

Top(body) == CHOOSE n \in DOMAIN body : \A m \in DOMAIN body : n >= m

Entries(table, body) ==
  [prog \in DOMAIN table |-> IF prog \in DOMAIN body THEN body[prog] ELSE table[prog]]

Zeroes(n) == [prog \in 0 .. (n - 1) |-> 0]

\* Mutant: the array is kept when it is one entry short.
GrowsShort(use) == use > pat_max + 1

\* The array is thrown away when it is too small, and also when it just fits.
Grows(use) == use >= pat_max

\* PID 0.  pmt_pid keeps its value when the table has no program 3.
ReceivePat(flaw) ==
  LET t == <<"PAT", 0>>
      body == sent[t].body
      hdr == mpg_parse_hdr(curver["PAT"], sent[t].ver, flaw)
      use == Top(body) + 1
      max == IF Grows(use) THEN use ELSE pat_max
  IN /\ curver' = [curver EXCEPT !["PAT"] = hdr.ver]
     /\ UNCHANGED <<pcr_pid, vctstr, sent, changes>>
     /\ \/ /\ ~ hdr.ok
           /\ Hear(t, flaw)
           /\ UNCHANGED <<pmt_pid, pat, pat_use, pat_max>>
        \/ /\ hdr.ok
           /\ pmt_pid' = IF 3 \in DOMAIN body /\ body[3] # 0 THEN body[3] ELSE pmt_pid
           /\ pat_use' = use
           /\ pat_max' = max
           /\ \/ /\ pat' = Entries(IF Grows(use) \/ pat = Nothing THEN Zeroes(max) ELSE pat, body)
                 /\ Hear(t, flaw)
              \/ /\ Grows(use) \/ pat = Nothing
                 /\ pat' = Nothing
                 /\ NoMemory("PAT")

\* Sections on any other PID than pmt_pid are not looked at.
ReceivePmt(pid, flaw) ==
  LET t == <<"PMT", pid>>
      hdr == mpg_parse_hdr(curver["PMT"], sent[t].ver, flaw)
  IN /\ pid = pmt_pid
     /\ curver' = [curver EXCEPT !["PMT"] = hdr.ver]
     /\ pcr_pid' = IF hdr.ok THEN sent[t].body ELSE pcr_pid
     /\ Hear(t, flaw)
     /\ UNCHANGED <<pmt_pid, pat, pat_use, pat_max, vctstr, sent, changes>>

ReceiveMgt(flaw) ==
  LET t == <<"MGT", 0>>
      hdr == mpg_parse_hdr(curver["MGT"], sent[t].ver, flaw)
  IN /\ curver' = [curver EXCEPT !["MGT"] = hdr.ver]
     /\ Hear(t, flaw)
     /\ UNCHANGED <<pmt_pid, pcr_pid, pat, pat_use, pat_max, vctstr, sent, changes>>

\* The three channel tables share vct_curver.
ReceiveVct(id, flaw) ==
  LET t == <<"VCT", id>>
      hdr == mpg_parse_hdr(curver["VCT"], sent[t].ver, flaw)
  IN /\ curver' = [curver EXCEPT !["VCT"] = hdr.ver]
     /\ UNCHANGED <<pmt_pid, pcr_pid, pat, pat_use, pat_max, sent, changes>>
     /\ \/ /\ vctstr' = IF hdr.ok THEN <<sent[t].body>> ELSE vctstr
           /\ Hear(t, flaw)
        \/ /\ hdr.ok /\ vctstr = Nothing
           /\ UNCHANGED vctstr
           /\ NoMemory("VCT")

Receive ==
  \E flaw \in Flaws :
    \/ ReceivePat(flaw)
    \/ \E pid \in PmtPids : ReceivePmt(pid, flaw)
    \/ ReceiveMgt(flaw)
    \/ \E id \in VctIds : ReceiveVct(id, flaw)

-----------------------------------------------------------------------------
\* Mutant: the version of the PMT survives the reset.
initKeepsPmt ==
  /\ curver' = [kind \in Kinds |-> IF kind = "PMT" THEN curver[kind] ELSE NoVersion]
  /\ pmt_pid' = 0 /\ pcr_pid' = 0
  /\ pat_use' = 0
  /\ vctstr' = Nothing
  /\ heard' = NothingHeard /\ inStep' = SoFar /\ low' = SoFar
  /\ UNCHANGED <<pat, pat_max, sent, changes>>

\* The parser is reset for another stream; the array of programs stays.
init ==
  /\ curver' = [kind \in Kinds |-> NoVersion]
  /\ pmt_pid' = 0 /\ pcr_pid' = 0
  /\ pat_use' = 0
  /\ vctstr' = Nothing
  /\ heard' = NothingHeard /\ inStep' = SoFar /\ low' = SoFar
  /\ UNCHANGED <<pat, pat_max, sent, changes>>

Change(t) ==
  /\ changes < MaxChanges
  /\ changes' = changes + 1
  /\ \E body \in Bodies(t[1]) :
       sent' = [sent EXCEPT ![t] = [ver |-> (@.ver + 1) % 32, body |-> body]]
  /\ UNCHANGED <<parserVars, heard, inStep, low>>

Next == Receive \/ init \/ \E t \in Tables : Change(t)

Spec == Init /\ [][Next]_vars

-----------------------------------------------------------------------------
(* Properties *)

\* The type of the parser's state.
TypeOK ==
  /\ curver \in [Kinds -> 0 .. NoVersion]
  /\ pmt_pid \in Nat /\ pcr_pid \in Nat
  /\ pat_use \in Nat /\ pat_max \in Nat
  /\ vctstr \in {Nothing} \cup {<<body>> : body \in VctBodies}

\* The array of programs, which outlives resets, larger and smaller tables and
\* a failed calloc(), has room for every program number that is written to it
\* and for all those below pat_use (mpgatsc.cpp 430-456).
PatFits ==
  pat # Nothing => DOMAIN pat = 0 .. (pat_max - 1) /\ pat_use <= pat_max

\* What the parser keeps of the last faultless section of each kind.
Holds(kind) ==
  LET body == heard[kind].body
  IN CASE kind = "PAT" -> /\ \A prog \in DOMAIN body : prog \in DOMAIN pat /\ pat[prog] = body[prog]
                          /\ 3 \in DOMAIN body /\ body[3] # 0 => pmt_pid = body[3]
       [] kind = "PMT" -> pcr_pid = body
       [] kind = "VCT" -> vctstr = <<body>>
       [] OTHER -> TRUE

\* While the versions of a table below 8 are received one by one, on one PID
\* and table id, what is kept is the content of the last section received,
\* however often it was repeated, damaged or announced ahead of time, and
\* whatever was received before the reset (mpgatsc.cpp 41-52, 140-161).
TablesFollow ==
  \A kind \in Kinds : heard[kind] # Nothing /\ inStep[kind] /\ low[kind] => Holds(kind)

(* What the documentation says, and the code does not do *)

\* mpgatsc.cpp 43-47: "valid values are 0-31": the same, whatever the version.
EveryVersionFollows ==
  \A kind \in Kinds : heard[kind] # Nothing /\ inStep[kind] => Holds(kind)

=============================================================================
