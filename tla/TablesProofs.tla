---------------------------- MODULE TablesProofs ----------------------------
(***************************************************************************)
(* The tables a parser keeps are those it was last sent, while versions    *)
(* come one by one, and its array of programs has room for them.           *)
(***************************************************************************)
EXTENDS Tables, TLAPS

-----------------------------------------------------------------------------
(* The type of the state *)

AnyBody == UNION {Bodies(kind) : kind \in Kinds}

Sections == [ver : Versions, body : AnyBody]
Heards == [table : Tables, ver : Versions, body : AnyBody]

ParserTypes ==
  /\ curver \in [Kinds -> 0 .. NoVersion]
  /\ pmt_pid \in Nat /\ pcr_pid \in Nat
  /\ pat_use \in Nat /\ pat_max \in Nat
  /\ vctstr \in {Nothing} \cup {<<body>> : body \in VctBodies}

Broadcast ==
  /\ sent \in [Tables -> Sections]
  /\ \A t \in Tables : sent[t].body \in Bodies(t[1])
  /\ changes \in 0 .. MaxChanges

HistoryTypes ==
  /\ heard \in [Kinds -> {Nothing} \cup Heards]
  /\ \A kind \in Kinds : heard[kind] # Nothing => heard[kind].table[1] = kind
  /\ inStep \in [Kinds -> BOOLEAN] /\ low \in [Kinds -> BOOLEAN]

Types == ParserTypes /\ Broadcast /\ HistoryTypes

\* What is sent is as many changes ahead of what was heard as the difference of
\* the versions says, less than one turn of the counter.
Ahead(kind) ==
  heard[kind] # Nothing =>
    \E d \in 0 .. changes :
      LET now == sent[heard[kind].table]
      IN now.ver = (heard[kind].ver + d) % 32 /\ (d = 0 => now.body = heard[kind].body)

\* What a parser with this state keeps of a section of a kind that has this body.
Keeps(kind, body, pmt, pcr, table, str) ==
  CASE kind = "PAT" -> /\ \A prog \in DOMAIN body : prog \in DOMAIN table /\ table[prog] = body[prog]
                       /\ 3 \in DOMAIN body /\ body[3] # 0 => pmt = body[3]
    [] kind = "PMT" -> pcr = body
    [] kind = "VCT" -> str = <<body>>
    [] OTHER -> TRUE

\* The version that is recorded is the one last heard.
Following(kind) ==
  inStep[kind] =>
    /\ heard[kind] = Nothing => curver[kind] = NoVersion
    /\ heard[kind] # Nothing /\ low[kind] =>
         /\ curver[kind] = heard[kind].ver /\ heard[kind].ver < 8
         /\ Keeps(kind, heard[kind].body, pmt_pid, pcr_pid, pat, vctstr)

FewChanges == MaxChanges < 32

IInv == Types /\ PatFits

JInv == IInv /\ \A kind \in Kinds : Ahead(kind) /\ Following(kind)

-----------------------------------------------------------------------------
(* Versions and sections *)

LEMMA LowVersions ==
  \A v \in 0 .. 7 : rx_ver(v) = v /\ (v + 1) % 32 = v + 1
<1> SUFFICES ASSUME NEW v \in 0 .. 7
             PROVE  rx_ver(v) = v /\ (v + 1) % 32 = v + 1
  OBVIOUS
<1>1. v \div 16 = 0 /\ v % 8 = v /\ (v + 1) % 32 = v + 1
  OBVIOUS
<1> QED BY <1>1 DEF rx_ver

LEMMA RxVersions ==
  \A v \in Versions : rx_ver(v) \in Versions
<1> SUFFICES ASSUME NEW v \in 0 .. 31
             PROVE  rx_ver(v) \in 0 .. 31
  BY DEF Versions
<1>1. v \div 16 \in {0, 1} /\ v % 8 \in 0 .. 7
  OBVIOUS
<1> QED BY <1>1 DEF rx_ver

LEMMA SectionIsSomething ==
  ASSUME NEW a, NEW b, NEW c
  PROVE  [table |-> a, ver |-> b, body |-> c] # Nothing
<1>1. "ver" \in DOMAIN [table |-> a, ver |-> b, body |-> c]
  OBVIOUS
<1>2. DOMAIN <<>> = {}
  OBVIOUS
<1> QED BY <1>1, <1>2 DEF Nothing

\* The largest program number of an association, and the others.
LEMMA TopIs ==
  ASSUME NEW body \in PatBodies
  PROVE  /\ Top(body) \in Nat
         /\ \A prog \in DOMAIN body : prog \in 0 .. Top(body) /\ body[prog] \in Nat
<1>1. DOMAIN body \subseteq Nat /\ (\E n \in DOMAIN body : \A m \in DOMAIN body : n >= m)
      /\ \A prog \in DOMAIN body : body[prog] \in Nat
  BY TablesAssumption
<1>2. Top(body) \in DOMAIN body /\ \A m \in DOMAIN body : Top(body) >= m
  BY <1>1 DEF Top
<1> QED BY <1>1, <1>2

LEMMA KindsOfTables ==
  /\ \A t \in Tables : t[1] \in Kinds
  /\ <<"PAT", 0>> \in Tables /\ <<"PAT", 0>>[1] = "PAT"
  /\ <<"MGT", 0>> \in Tables /\ <<"MGT", 0>>[1] = "MGT"
  /\ \A pid \in PmtPids : <<"PMT", pid>> \in Tables /\ <<"PMT", pid>>[1] = "PMT"
  /\ \A id \in VctIds : <<"VCT", id>> \in Tables /\ <<"VCT", id>>[1] = "VCT"
BY DEF Tables, Kinds

LEMMA BodiesIs ==
  /\ Bodies("PAT") = PatBodies /\ Bodies("PMT") = PcrPids
  /\ Bodies("VCT") = VctBodies /\ Bodies("MGT") = {Mgt}
  /\ \A kind \in Kinds : Bodies(kind) \subseteq AnyBody
<1>1. /\ Bodies("PAT") = PatBodies /\ Bodies("PMT") = PcrPids
      /\ Bodies("VCT") = VctBodies /\ Bodies("MGT") = {Mgt}
  BY DEF Bodies
<1>2. \A kind \in Kinds : Bodies(kind) \subseteq AnyBody
  BY DEF AnyBody
<1> QED BY <1>1, <1>2

LEMMA Fields ==
  ASSUME NEW p, NEW v
  PROVE  [ok |-> p, ver |-> v].ok = p
OBVIOUS

LEMMA HdrIs ==
  ASSUME NEW cur \in 0 .. NoVersion, NEW ver \in Versions, NEW flaw \in Flaws
  PROVE  /\ mpg_parse_hdr(cur, ver, flaw).ver \in 0 .. NoVersion
         /\ mpg_parse_hdr(cur, ver, flaw).ok \in BOOLEAN
         /\ mpg_parse_hdr(cur, ver, flaw).ok <=> flaw = "none" /\ InForce(cur, ver)
         /\ mpg_parse_hdr(cur, ver, flaw).ver =
              IF flaw \in {"damaged", "next"} \/ ~ InForce(cur, ver) THEN cur ELSE rx_ver(ver)
<1>1. rx_ver(ver) \in 0 .. NoVersion
  BY RxVersions DEF Versions, NoVersion
<1>2. CASE flaw \in {"damaged", "next"} \/ ~ InForce(cur, ver)
  <2>1. mpg_parse_hdr(cur, ver, flaw) = [ok |-> FALSE, ver |-> cur]
    BY <1>2 DEF mpg_parse_hdr
  <2> QED BY <2>1, <1>2
<1>3. CASE ~ (flaw \in {"damaged", "next"} \/ ~ InForce(cur, ver))
  <2>1. mpg_parse_hdr(cur, ver, flaw) = [ok |-> flaw = "none", ver |-> rx_ver(ver)]
    BY <1>3 DEF mpg_parse_hdr
  <2>2. mpg_parse_hdr(cur, ver, flaw).ver = rx_ver(ver)
    BY <2>1
  <2>4. mpg_parse_hdr(cur, ver, flaw).ok = (flaw = "none")
    <3> DEFINE none == flaw = "none"
    <3>1. mpg_parse_hdr(cur, ver, flaw) = [ok |-> none, ver |-> rx_ver(ver)]
      BY <2>1
    <3> HIDE DEF none
    <3>2. mpg_parse_hdr(cur, ver, flaw).ok = none
      BY <3>1, Fields, Zenon
    <3> QED BY <3>2 DEF none
  <2>3. (flaw = "none") \in BOOLEAN
    OBVIOUS
  <2> HIDE DEF Flaws
  <2> QED BY <2>2, <2>3, <2>4, <1>1, <1>3, Zenon
<1> QED BY <1>2, <1>3

LEMMA NextVersion ==
  \A n \in Nat : (n % 32) \in 0 .. 31 /\ ((n % 32) + 1) % 32 = (n + 1) % 32
OBVIOUS

LEMMA SameVersion ==
  \A v \in 0 .. 31, d \in 0 .. 31 : v = (v + d) % 32 => d = 0
OBVIOUS

-----------------------------------------------------------------------------
(* What the history records *)

LEMMA HearIs ==
  ASSUME Types, NEW t \in Tables, NEW flaw \in Flaws, Hear(t, flaw),
         NEW kind, kind = t[1], NEW was, was = heard[kind],
         NEW is, is = [table |-> t, ver |-> sent[t].ver, body |-> sent[t].body]
  PROVE  /\ HistoryTypes'
         /\ \A k \in Kinds : k # kind =>
              heard'[k] = heard[k] /\ inStep'[k] = inStep[k] /\ low'[k] = low[k]
         /\ flaw = "none" =>
              /\ heard'[kind] = is
              /\ inStep'[kind] => inStep[kind] /\ Follows(was, is)
              /\ low'[kind] => low[kind] /\ is.ver < 8
         /\ flaw = "partial" =>
              /\ heard'[kind] = was /\ low'[kind] = low[kind]
              /\ inStep'[kind] => inStep[kind] /\ was # Nothing /\ was.table = t /\ was.ver = sent[t].ver
         /\ flaw \in {"damaged", "next"} =>
              heard'[kind] = was /\ low'[kind] = low[kind] /\ inStep'[kind] = inStep[kind]
<1>1. kind \in Kinds /\ is \in Heards /\ is.table[1] = kind /\ is.ver = sent[t].ver
  <2>1. kind \in Kinds
    BY KindsOfTables
  <2>2. sent[t].ver \in Versions /\ sent[t].body \in AnyBody
    BY DEF Types, Broadcast, Sections
  <2> QED BY <2>1, <2>2 DEF Heards
<1>2. /\ heard \in [Kinds -> {Nothing} \cup Heards]
      /\ \A k \in Kinds : heard[k] # Nothing => heard[k].table[1] = k
      /\ inStep \in [Kinds -> BOOLEAN] /\ low \in [Kinds -> BOOLEAN]
  BY DEF Types, HistoryTypes
<1>3. CASE flaw = "none"
  <2> DEFINE fol == Follows(was, is)
             sml == is.ver < 8
  <2>1. /\ heard' = [heard EXCEPT ![kind] = is]
        /\ inStep' = [inStep EXCEPT ![kind] = @ /\ fol]
        /\ low' = [low EXCEPT ![kind] = @ /\ sml]
    BY <1>1, <1>3 DEF Hear
  <2> HIDE DEF fol, sml
  <2>2. /\ heard' \in [Kinds -> {Nothing} \cup Heards] /\ heard'[kind] = is
        /\ \A k \in Kinds : k # kind => heard'[k] = heard[k]
    BY <1>1, <1>2, <2>1
  <2>3. /\ inStep' \in [Kinds -> BOOLEAN] /\ (inStep'[kind] => inStep[kind] /\ fol)
        /\ \A k \in Kinds : k # kind => inStep'[k] = inStep[k]
    BY <1>1, <1>2, <2>1
  <2>4. /\ low' \in [Kinds -> BOOLEAN] /\ (low'[kind] => low[kind] /\ sml)
        /\ \A k \in Kinds : k # kind => low'[k] = low[k]
    BY <1>1, <1>2, <2>1
  <2>5. HistoryTypes'
    BY <1>1, <1>2, <2>2, <2>3, <2>4 DEF HistoryTypes
  <2> QED BY <1>3, <2>2, <2>3, <2>4, <2>5 DEF fol, sml
<1>4. CASE flaw = "partial"
  <2> DEFINE same == was # Nothing /\ was.table = t /\ was.ver = sent[t].ver
  <2>1. /\ inStep' = [inStep EXCEPT ![kind] = @ /\ same]
        /\ heard' = heard /\ low' = low
    BY <1>1, <1>4 DEF Hear
  <2> HIDE DEF same
  <2>2. /\ inStep' \in [Kinds -> BOOLEAN] /\ (inStep'[kind] => inStep[kind] /\ same)
        /\ \A k \in Kinds : k # kind => inStep'[k] = inStep[k]
    BY <1>1, <1>2, <2>1
  <2>3. HistoryTypes'
    BY <1>2, <2>1, <2>2 DEF HistoryTypes
  <2> QED BY <1>4, <2>1, <2>2, <2>3 DEF same
<1>5. CASE flaw \in {"damaged", "next"}
  <2>1. heard' = heard /\ low' = low /\ inStep' = inStep
    BY <1>5 DEF Hear
  <2>2. HistoryTypes'
    BY <1>2, <2>1 DEF HistoryTypes
  <2> QED BY <1>5, <2>1, <2>2
<1> QED BY <1>3, <1>4, <1>5 DEF Flaws

-----------------------------------------------------------------------------
(* What a section does *)

\* A section of another kind leaves what is kept of this one.
OtherKindsKept(kind) ==
  \A k \in Kinds : \A body : k # kind /\ Keeps(k, body, pmt_pid, pcr_pid, pat, vctstr)
    => Keeps(k, body, pmt_pid', pcr_pid', pat', vctstr')

LEMMA SectionFollows ==
  ASSUME JInv, FewChanges, NEW t \in Tables, NEW flaw \in Flaws, Hear(t, flaw),
         NEW kind, kind = t[1],
         NEW hdr, hdr = mpg_parse_hdr(curver[kind], sent[t].ver, flaw),
         curver' = [curver EXCEPT ![kind] = hdr.ver], UNCHANGED <<sent, changes>>,
         hdr.ok => Keeps(kind, sent[t].body, pmt_pid', pcr_pid', pat', vctstr'),
         ~ hdr.ok => UNCHANGED <<pmt_pid, pcr_pid, pat, vctstr>>,
         OtherKindsKept(kind)
  PROVE  /\ HistoryTypes'
         /\ \A k \in Kinds : Ahead(k)' /\ Following(k)'
<1> DEFINE was == heard[kind]
           is == [table |-> t, ver |-> sent[t].ver, body |-> sent[t].body]
<1>1. /\ Types /\ kind \in Kinds /\ sent[t].ver \in 0 .. 31
      /\ \A k \in Kinds : Ahead(k) /\ Following(k)
      /\ curver \in [Kinds -> 0 .. 32] /\ changes \in 0 .. 31
      /\ heard[kind] \in {Nothing} \cup Heards
  <2>1. changes \in 0 .. 31
    BY TablesAssumption DEF JInv, IInv, Types, Broadcast, FewChanges
  <2>2. kind \in Kinds
    BY KindsOfTables
  <2> QED BY <2>1, <2>2 DEF JInv, IInv, Types, ParserTypes, Broadcast, HistoryTypes, Sections, Versions, NoVersion
<1>2. /\ HistoryTypes'
      /\ \A k \in Kinds : k # kind =>
           heard'[k] = heard[k] /\ inStep'[k] = inStep[k] /\ low'[k] = low[k]
      /\ flaw = "none" =>
           /\ heard'[kind] = is
           /\ inStep'[kind] => inStep[kind] /\ Follows(was, is)
           /\ low'[kind] => low[kind] /\ is.ver < 8
      /\ flaw = "partial" =>
           /\ heard'[kind] = was /\ low'[kind] = low[kind]
           /\ inStep'[kind] => inStep[kind] /\ was # Nothing /\ was.table = t /\ was.ver = sent[t].ver
      /\ flaw \in {"damaged", "next"} =>
           heard'[kind] = was /\ low'[kind] = low[kind] /\ inStep'[kind] = inStep[kind]
  BY <1>1, HearIs
<1>3. is # Nothing /\ is.table = t /\ is.ver = sent[t].ver /\ is.body = sent[t].body
  BY SectionIsSomething
<1> HIDE DEF is, was
<1>4. ASSUME NEW k \in Kinds, k # kind
      PROVE  Ahead(k)' /\ Following(k)'
  <2>1. heard'[k] = heard[k] /\ inStep'[k] = inStep[k] /\ low'[k] = low[k] /\ curver'[k] = curver[k]
    BY <1>1, <1>2, <1>4
  <2>2. Ahead(k)'
    BY <1>1, <2>1 DEF Ahead
  <2>3. Following(k)'
    <3>1. Following(k) /\ \A body : Keeps(k, body, pmt_pid, pcr_pid, pat, vctstr)
            => Keeps(k, body, pmt_pid', pcr_pid', pat', vctstr')
      BY <1>1, <1>4 DEF OtherKindsKept
    <3> QED BY <2>1, <3>1 DEF Following
  <2> QED BY <2>2, <2>3
<1>5. /\ hdr.ver \in 0 .. 32
      /\ hdr.ok <=> flaw = "none" /\ InForce(curver[kind], sent[t].ver)
      /\ hdr.ver = IF flaw \in {"damaged", "next"} \/ ~ InForce(curver[kind], sent[t].ver)
                   THEN curver[kind] ELSE rx_ver(sent[t].ver)
      /\ curver'[kind] = hdr.ver
  <2>1. curver[kind] \in 0 .. NoVersion /\ sent[t].ver \in Versions
    BY <1>1 DEF NoVersion, Versions
  <2> QED BY <2>1, <1>1, HdrIs DEF NoVersion
<1>6. \/ heard'[kind] = is \/ heard'[kind] = heard[kind]
  BY <1>2 DEF Flaws, was
<1>7. Ahead(kind)'
  <2>1. CASE heard'[kind] = is
    <3>1. sent'[heard'[kind].table] = sent[t] /\ heard'[kind].ver = sent[t].ver /\ heard'[kind].body = sent[t].body
      BY <2>1, <1>3
    <3>2. sent[t].ver = (sent[t].ver + 0) % 32 /\ 0 \in 0 .. changes'
      BY <1>1
    <3> QED BY <3>1, <3>2 DEF Ahead
  <2>2. CASE heard'[kind] = heard[kind]
    BY <2>2, <1>1 DEF Ahead
  <2> QED BY <1>6, <2>1, <2>2
<1>8. ASSUME inStep'[kind], low'[kind], flaw = "none"
      PROVE  /\ curver'[kind] = sent[t].ver /\ sent[t].ver < 8
             /\ Keeps(kind, sent[t].body, pmt_pid', pcr_pid', pat', vctstr')
  <2>1. inStep[kind] /\ low[kind] /\ Follows(was, is) /\ sent[t].ver \in 0 .. 7
    BY <1>8, <1>1, <1>2, <1>3
  <2>2. rx_ver(sent[t].ver) = sent[t].ver
    BY <2>1, LowVersions
  <2>3. CASE was = Nothing
    <3>1. curver[kind] = NoVersion
      BY <2>1, <2>3, <1>1 DEF Following, was
    <3>2. hdr.ok /\ hdr.ver = sent[t].ver
      BY <3>1, <2>2, <1>5, <1>8 DEF InForce
    <3> QED BY <3>2, <2>1, <1>5
  <2>4. CASE was # Nothing
    <3>1. /\ curver[kind] = was.ver /\ was.ver < 8 /\ was \in Heards
          /\ Keeps(kind, was.body, pmt_pid, pcr_pid, pat, vctstr)
      BY <2>1, <2>4, <1>1 DEF Following, was
    <3>2. was.ver \in 0 .. 7 /\ was.table = t /\ sent[t].ver \in {was.ver, (was.ver + 1) % 32}
      BY <2>1, <2>4, <3>1, <1>3 DEF Follows, Heards, Versions
    <3>3. (was.ver + 1) % 32 = was.ver + 1 /\ curver[kind] # NoVersion
      BY <3>1, <3>2, LowVersions DEF NoVersion
    <3>4. CASE sent[t].ver = was.ver
      <4>1. PICK d \in 0 .. changes :
              sent[t].ver = (was.ver + d) % 32 /\ (d = 0 => sent[t].body = was.body)
        BY <2>4, <3>2, <1>1 DEF Ahead, was
      <4>2. d = 0
        <5>1. d \in 0 .. 31 /\ was.ver \in 0 .. 31
          BY <1>1, <3>2
        <5> QED BY <5>1, <4>1, <3>4, SameVersion
      <4>3. ~ InForce(curver[kind], sent[t].ver)
        BY <3>1, <3>2, <3>3, <3>4, <2>2 DEF InForce
      <4> QED BY <2>1, <3>1, <3>4, <4>1, <4>2, <4>3, <1>5
    <3>5. CASE sent[t].ver = was.ver + 1
      <4>1. InForce(curver[kind], sent[t].ver)
        BY <3>1, <3>3, <3>5, <2>2 DEF InForce
      <4>2. hdr.ok /\ hdr.ver = sent[t].ver
        BY <4>1, <2>2, <1>5, <1>8
      <4> QED BY <4>2, <2>1, <1>5
    <3> QED BY <3>2, <3>3, <3>4, <3>5
  <2> QED BY <2>3, <2>4
<1>9. ASSUME flaw = "none"
      PROVE  Following(kind)'
  BY <1>2, <1>3, <1>8, <1>9 DEF Following
<1>10. ASSUME flaw = "partial"
       PROVE  Following(kind)'
  <2>1. Following(kind) /\ ~ hdr.ok
    BY <1>1, <1>5, <1>10
  <2>2. /\ heard'[kind] = was /\ low'[kind] = low[kind]
        /\ inStep'[kind] => inStep[kind] /\ was # Nothing /\ was.table = t /\ was.ver = sent[t].ver
    BY <1>2, <1>10
  <2>3. ASSUME inStep'[kind], low'[kind]
        PROVE  curver'[kind] = curver[kind]
    <3>1. curver[kind] = was.ver /\ was.ver < 8 /\ was \in Heards /\ was.ver = sent[t].ver
      BY <2>1, <2>2, <2>3, <1>1 DEF Following, was
    <3>2. was.ver \in 0 .. 7
      BY <3>1 DEF Heards, Versions
    <3>3. ~ InForce(curver[kind], sent[t].ver)
      BY <3>1, <3>2, LowVersions DEF InForce, NoVersion
    <3> QED BY <3>3, <1>5
  <2>4. UNCHANGED <<pmt_pid, pcr_pid, pat, vctstr>>
    BY <2>1
  <2> QED BY <2>1, <2>2, <2>3, <2>4 DEF Following, was
<1>11. ASSUME flaw \in {"damaged", "next"}
       PROVE  Following(kind)'
  <2>1. Following(kind) /\ ~ hdr.ok /\ curver'[kind] = curver[kind]
    BY <1>1, <1>5, <1>11
  <2>2. heard'[kind] = heard[kind] /\ low'[kind] = low[kind] /\ inStep'[kind] = inStep[kind]
    BY <1>2, <1>11 DEF was
  <2>3. UNCHANGED <<pmt_pid, pcr_pid, pat, vctstr>>
    BY <2>1
  <2> QED BY <2>1, <2>2, <2>3 DEF Following
<1>12. Following(kind)'
  BY <1>9, <1>10, <1>11 DEF Flaws
<1> QED BY <1>2, <1>4, <1>7, <1>12

\* After a failed allocation nothing is promised of this kind.
LEMMA NoMemoryTypes ==
  ASSUME Types, NEW kind \in Kinds, NoMemory(kind)
  PROVE  /\ HistoryTypes' /\ heard' = heard /\ low' = low /\ ~ inStep'[kind]
         /\ \A k \in Kinds : k # kind => inStep'[k] = inStep[k]
<1>1. /\ inStep' = [inStep EXCEPT ![kind] = FALSE] /\ heard' = heard /\ low' = low
      /\ inStep \in [Kinds -> BOOLEAN]
  BY DEF NoMemory, Types, HistoryTypes
<1>2. /\ inStep' \in [Kinds -> BOOLEAN] /\ ~ inStep'[kind]
      /\ \A k \in Kinds : k # kind => inStep'[k] = inStep[k]
  BY <1>1
<1> QED BY <1>1, <1>2 DEF Types, HistoryTypes

LEMMA NoMemoryFollows ==
  ASSUME JInv, NEW kind \in Kinds, NoMemory(kind), NEW ver,
         curver' = [curver EXCEPT ![kind] = ver], UNCHANGED <<sent, changes>>,
         OtherKindsKept(kind)
  PROVE  \A k \in Kinds : Ahead(k)' /\ Following(k)'
<1>1. /\ heard' = heard /\ low' = low /\ ~ inStep'[kind]
      /\ \A k \in Kinds : k # kind => inStep'[k] = inStep[k]
  BY NoMemoryTypes DEF JInv, IInv
<1>2. \A k \in Kinds : k # kind => curver'[k] = curver[k]
  BY DEF JInv, IInv, Types, ParserTypes
<1>3. ASSUME NEW k \in Kinds
      PROVE  Ahead(k)' /\ Following(k)'
  <2>1. Ahead(k)'
    BY <1>1 DEF JInv, Ahead
  <2>2. CASE k = kind
    BY <2>1, <2>2, <1>1 DEF Following
  <2>3. CASE k # kind
    <3>1. Following(k) /\ \A body : Keeps(k, body, pmt_pid, pcr_pid, pat, vctstr)
            => Keeps(k, body, pmt_pid', pcr_pid', pat', vctstr')
      BY <2>3 DEF JInv, OtherKindsKept
    <3>2. Following(k)'
      BY <3>1, <2>3, <1>1, <1>2 DEF Following
    <3> QED BY <2>1, <3>2
  <2> QED BY <2>2, <2>3
<1> QED BY <1>3

\* The version a section leaves.
LEMMA CurverIs ==
  ASSUME Types, NEW t \in Tables, NEW flaw \in Flaws, NEW hdr,
         hdr = mpg_parse_hdr(curver[t[1]], sent[t].ver, flaw),
         curver' = [curver EXCEPT ![t[1]] = hdr.ver]
  PROVE  curver' \in [Kinds -> 0 .. NoVersion]
<1>1. t[1] \in Kinds
  BY KindsOfTables
<1>2. curver \in [Kinds -> 0 .. NoVersion] /\ curver[t[1]] \in 0 .. NoVersion /\ sent[t].ver \in Versions
  BY <1>1 DEF Types, ParserTypes, Broadcast, Sections
<1>3. hdr.ver \in 0 .. NoVersion
  BY <1>2, HdrIs
<1> QED BY <1>2, <1>3

LEMMA BroadcastKept ==
  ASSUME Types, UNCHANGED <<sent, changes>>
  PROVE  Broadcast'
BY DEF Types, Broadcast

\* A table of programs has room for the association it is filled from.
LEMMA ArrayFits ==
  ASSUME IInv, NEW body \in PatBodies, NEW use, use = Top(body) + 1,
         NEW max, max = IF Grows(use) THEN use ELSE pat_max,
         NEW table, table = IF Grows(use) \/ pat = Nothing THEN Zeroes(max) ELSE pat
  PROVE  /\ use \in Nat /\ max \in Nat /\ use <= max
         /\ DOMAIN Entries(table, body) = 0 .. (max - 1)
         /\ \A prog \in DOMAIN body :
              prog \in DOMAIN Entries(table, body) /\ Entries(table, body)[prog] = body[prog]
<1>1. /\ use \in Nat \ {0} /\ pat_max \in Nat
      /\ \A prog \in DOMAIN body : prog \in 0 .. (use - 1)
  BY TopIs DEF IInv, Types, ParserTypes
<1>2. max \in Nat /\ use <= max
  BY <1>1 DEF Grows
<1>3. DOMAIN table = 0 .. (max - 1)
  <2>1. CASE Grows(use) \/ pat = Nothing
    BY <2>1 DEF Zeroes
  <2>2. CASE ~ (Grows(use) \/ pat = Nothing)
    BY <2>2 DEF IInv, PatFits
  <2> QED BY <2>1, <2>2
<1>4. \A prog \in DOMAIN body : prog \in DOMAIN table
  BY <1>1, <1>2, <1>3
<1> QED BY <1>1, <1>2, <1>3, <1>4 DEF Entries

LEMMA PatStep ==
  ASSUME IInv, NEW flaw \in Flaws, ReceivePat(flaw)
  PROVE  /\ IInv'
         /\ JInv /\ FewChanges => \A k \in Kinds : Ahead(k)' /\ Following(k)'
<1> DEFINE t == <<"PAT", 0>>
           body == sent[t].body
           hdr == mpg_parse_hdr(curver["PAT"], sent[t].ver, flaw)
           use == Top(body) + 1
           max == IF Grows(use) THEN use ELSE pat_max
           table == IF Grows(use) \/ pat = Nothing THEN Zeroes(max) ELSE pat
           new == Entries(table, body)
<1>1. t \in Tables /\ t[1] = "PAT" /\ "PAT" \in Kinds /\ body \in PatBodies
  BY KindsOfTables, BodiesIs DEF IInv, Types, Broadcast
<1>2. /\ curver' = [curver EXCEPT !["PAT"] = hdr.ver]
      /\ UNCHANGED <<pcr_pid, vctstr, sent, changes>>
      /\ \/ ~ hdr.ok /\ Hear(t, flaw) /\ UNCHANGED <<pmt_pid, pat, pat_use, pat_max>>
         \/ /\ hdr.ok
            /\ pmt_pid' = IF 3 \in DOMAIN body /\ body[3] # 0 THEN body[3] ELSE pmt_pid
            /\ pat_use' = use /\ pat_max' = max
            /\ \/ pat' = new /\ Hear(t, flaw)
               \/ pat' = Nothing /\ NoMemory("PAT")
  BY DEF ReceivePat
<1>3. /\ use \in Nat /\ max \in Nat /\ use <= max
      /\ DOMAIN new = 0 .. (max - 1)
      /\ \A prog \in DOMAIN body : prog \in DOMAIN new /\ new[prog] = body[prog]
  BY <1>1, ArrayFits
<1>4. \A prog \in DOMAIN body : body[prog] \in Nat
  BY <1>1, TopIs
<1> HIDE DEF use, max, new, table
<1>5. curver' \in [Kinds -> 0 .. NoVersion]
  BY <1>1, <1>2, CurverIs DEF IInv
<1>6. OtherKindsKept("PAT")
  BY <1>2 DEF OtherKindsKept, Keeps
<1> HIDE DEF hdr, body
<1>7. HistoryTypes'
  <2>1. Hear(t, flaw) \/ NoMemory("PAT")
    BY <1>2
  <2> HIDE DEF t
  <2> QED BY <2>1, <1>1, HearIs, NoMemoryTypes DEF IInv
<1>8. ParserTypes'
  <2>1. pmt_pid' \in Nat
    BY <1>2, <1>4 DEF IInv, Types, ParserTypes
  <2> QED BY <2>1, <1>2, <1>3, <1>5 DEF IInv, Types, ParserTypes
<1>9. PatFits'
  BY <1>2, <1>3 DEF IInv, PatFits
<1>10. Broadcast'
  BY <1>2, BroadcastKept DEF IInv
<1>11. ASSUME JInv, FewChanges
       PROVE  \A k \in Kinds : Ahead(k)' /\ Following(k)'
  <2>1. CASE Hear(t, flaw) /\ (hdr.ok => pat' = new)
    <3>1. hdr.ok => Keeps("PAT", body, pmt_pid', pcr_pid', pat', vctstr')
      BY <2>1, <1>2, <1>3 DEF Keeps
    <3>2. ~ hdr.ok => UNCHANGED <<pmt_pid, pcr_pid, pat, vctstr>>
      BY <1>2
    <3>3. hdr = mpg_parse_hdr(curver["PAT"], sent[t].ver, flaw) /\ body = sent[t].body
      BY DEF hdr, body
    <3> HIDE DEF t
    <3> QED BY <2>1, <3>1, <3>2, <3>3, <1>1, <1>2, <1>6, <1>11, SectionFollows
  <2>2. CASE NoMemory("PAT")
    BY <2>2, <1>1, <1>2, <1>6, <1>11, NoMemoryFollows
  <2> QED BY <1>2, <2>1, <2>2
<1> QED BY <1>7, <1>8, <1>9, <1>10, <1>11 DEF IInv, Types

LEMMA PmtStep ==
  ASSUME IInv, NEW pid \in PmtPids, NEW flaw \in Flaws, ReceivePmt(pid, flaw)
  PROVE  /\ IInv'
         /\ JInv /\ FewChanges => \A k \in Kinds : Ahead(k)' /\ Following(k)'
<1> DEFINE t == <<"PMT", pid>>
           hdr == mpg_parse_hdr(curver["PMT"], sent[t].ver, flaw)
<1>1. t \in Tables /\ t[1] = "PMT" /\ "PMT" \in Kinds /\ sent[t].body \in PcrPids
  BY KindsOfTables, BodiesIs DEF IInv, Types, Broadcast
<1>2. /\ curver' = [curver EXCEPT !["PMT"] = hdr.ver] /\ Hear(t, flaw)
      /\ pcr_pid' = IF hdr.ok THEN sent[t].body ELSE pcr_pid
      /\ UNCHANGED <<pmt_pid, pat, pat_use, pat_max, vctstr, sent, changes>>
  BY DEF ReceivePmt
<1>3. hdr = mpg_parse_hdr(curver["PMT"], sent[t].ver, flaw)
  OBVIOUS
<1> HIDE DEF hdr, t
<1>4. curver' \in [Kinds -> 0 .. NoVersion]
  BY <1>1, <1>2, <1>3, CurverIs DEF IInv
<1>5. HistoryTypes'
  BY <1>1, <1>2, HearIs DEF IInv
<1>6. ParserTypes' /\ PatFits' /\ Broadcast'
  <2>1. pcr_pid' \in Nat
    BY <1>1, <1>2, TablesAssumption DEF IInv, Types, ParserTypes
  <2> QED BY <2>1, <1>2, <1>4, BroadcastKept DEF IInv, Types, ParserTypes, PatFits
<1>7. OtherKindsKept("PMT")
  BY <1>2 DEF OtherKindsKept, Keeps
<1>8. /\ hdr.ok => Keeps("PMT", sent[t].body, pmt_pid', pcr_pid', pat', vctstr')
      /\ ~ hdr.ok => UNCHANGED <<pmt_pid, pcr_pid, pat, vctstr>>
  BY <1>2 DEF Keeps
<1>9. JInv /\ FewChanges => \A k \in Kinds : Ahead(k)' /\ Following(k)'
  BY <1>1, <1>2, <1>3, <1>7, <1>8, SectionFollows
<1> QED BY <1>5, <1>6, <1>9 DEF IInv, Types

LEMMA MgtStep ==
  ASSUME IInv, NEW flaw \in Flaws, ReceiveMgt(flaw)
  PROVE  /\ IInv'
         /\ JInv /\ FewChanges => \A k \in Kinds : Ahead(k)' /\ Following(k)'
<1> DEFINE t == <<"MGT", 0>>
           hdr == mpg_parse_hdr(curver["MGT"], sent[t].ver, flaw)
<1>1. t \in Tables /\ t[1] = "MGT" /\ "MGT" \in Kinds
  BY KindsOfTables
<1>2. /\ curver' = [curver EXCEPT !["MGT"] = hdr.ver] /\ Hear(t, flaw)
      /\ UNCHANGED <<pmt_pid, pcr_pid, pat, pat_use, pat_max, vctstr, sent, changes>>
  BY DEF ReceiveMgt
<1>3. hdr = mpg_parse_hdr(curver["MGT"], sent[t].ver, flaw)
  OBVIOUS
<1> HIDE DEF hdr, t
<1>4. curver' \in [Kinds -> 0 .. NoVersion]
  BY <1>1, <1>2, <1>3, CurverIs DEF IInv
<1>5. HistoryTypes'
  BY <1>1, <1>2, HearIs DEF IInv
<1>6. ParserTypes' /\ PatFits' /\ Broadcast'
  BY <1>2, <1>4, BroadcastKept DEF IInv, Types, ParserTypes, PatFits
<1>7. OtherKindsKept("MGT")
  BY <1>2 DEF OtherKindsKept, Keeps
<1>8. /\ hdr.ok => Keeps("MGT", sent[t].body, pmt_pid', pcr_pid', pat', vctstr')
      /\ ~ hdr.ok => UNCHANGED <<pmt_pid, pcr_pid, pat, vctstr>>
  BY <1>2 DEF Keeps
<1>9. JInv /\ FewChanges => \A k \in Kinds : Ahead(k)' /\ Following(k)'
  BY <1>1, <1>2, <1>3, <1>7, <1>8, SectionFollows
<1> QED BY <1>5, <1>6, <1>9 DEF IInv, Types

LEMMA VctStep ==
  ASSUME IInv, NEW id \in VctIds, NEW flaw \in Flaws, ReceiveVct(id, flaw)
  PROVE  /\ IInv'
         /\ JInv /\ FewChanges => \A k \in Kinds : Ahead(k)' /\ Following(k)'
<1> DEFINE t == <<"VCT", id>>
           hdr == mpg_parse_hdr(curver["VCT"], sent[t].ver, flaw)
<1>1. t \in Tables /\ t[1] = "VCT" /\ "VCT" \in Kinds /\ sent[t].body \in VctBodies
  BY KindsOfTables, BodiesIs DEF IInv, Types, Broadcast
<1>2. /\ curver' = [curver EXCEPT !["VCT"] = hdr.ver]
      /\ UNCHANGED <<pmt_pid, pcr_pid, pat, pat_use, pat_max, sent, changes>>
      /\ \/ vctstr' = (IF hdr.ok THEN <<sent[t].body>> ELSE vctstr) /\ Hear(t, flaw)
         \/ vctstr' = vctstr /\ NoMemory("VCT")
  BY DEF ReceiveVct
<1>3. hdr = mpg_parse_hdr(curver["VCT"], sent[t].ver, flaw)
  OBVIOUS
<1> HIDE DEF hdr, t
<1>4. curver' \in [Kinds -> 0 .. NoVersion]
  BY <1>1, <1>2, <1>3, CurverIs DEF IInv
<1>5. HistoryTypes'
  BY <1>1, <1>2, HearIs, NoMemoryTypes DEF IInv
<1>6. ParserTypes' /\ PatFits' /\ Broadcast'
  <2>1. vctstr' \in {Nothing} \cup {<<body>> : body \in VctBodies}
    BY <1>1, <1>2 DEF IInv, Types, ParserTypes
  <2> QED BY <2>1, <1>2, <1>4, BroadcastKept DEF IInv, Types, ParserTypes, PatFits
<1>7. OtherKindsKept("VCT")
  BY <1>2 DEF OtherKindsKept, Keeps
<1>8. JInv /\ FewChanges => \A k \in Kinds : Ahead(k)' /\ Following(k)'
  <2>1. CASE vctstr' = (IF hdr.ok THEN <<sent[t].body>> ELSE vctstr) /\ Hear(t, flaw)
    <3>1. /\ hdr.ok => Keeps("VCT", sent[t].body, pmt_pid', pcr_pid', pat', vctstr')
          /\ ~ hdr.ok => UNCHANGED <<pmt_pid, pcr_pid, pat, vctstr>>
      BY <2>1, <1>2 DEF Keeps
    <3> QED BY <2>1, <3>1, <1>1, <1>2, <1>3, <1>7, SectionFollows
  <2>2. CASE NoMemory("VCT")
    BY <2>2, <1>1, <1>2, <1>7, NoMemoryFollows
  <2> QED BY <1>2, <2>1, <2>2
<1> QED BY <1>5, <1>6, <1>8 DEF IInv, Types

-----------------------------------------------------------------------------
(* Resets and changes *)

LEMMA HistoryAnew ==
  ASSUME heard' = NothingHeard, inStep' = SoFar, low' = SoFar
  PROVE  HistoryTypes' /\ \A k \in Kinds : heard'[k] = Nothing
BY DEF NothingHeard, SoFar, HistoryTypes

LEMMA ResetStep ==
  ASSUME IInv, init
  PROVE  IInv' /\ \A k \in Kinds : Ahead(k)' /\ Following(k)'
<1>1. /\ curver' = [kind \in Kinds |-> NoVersion]
      /\ pmt_pid' = 0 /\ pcr_pid' = 0 /\ pat_use' = 0 /\ vctstr' = Nothing
      /\ UNCHANGED <<pat, pat_max, sent, changes>>
  BY DEF init
<1>2. HistoryTypes' /\ \A k \in Kinds : heard'[k] = Nothing
  BY HistoryAnew DEF init
<1>3. ParserTypes' /\ PatFits'
  BY <1>1 DEF IInv, Types, ParserTypes, PatFits, NoVersion
<1>4. \A k \in Kinds : Ahead(k)' /\ Following(k)'
  BY <1>1, <1>2 DEF Ahead, Following
<1> QED BY <1>1, <1>2, <1>3, <1>4, BroadcastKept DEF IInv, Types

LEMMA ChangeStep ==
  ASSUME IInv, NEW t \in Tables, Change(t)
  PROVE  /\ IInv'
         /\ JInv => \A k \in Kinds : Ahead(k)' /\ Following(k)'
<1>1. /\ changes < MaxChanges /\ changes' = changes + 1
      /\ UNCHANGED <<parserVars, heard, inStep, low>>
  BY DEF Change
<1>2. PICK body \in Bodies(t[1]) : sent' = [sent EXCEPT ![t] = [ver |-> (@.ver + 1) % 32, body |-> body]]
  BY DEF Change
<1>3. /\ sent \in [Tables -> Sections] /\ changes \in Nat /\ MaxChanges \in Nat
      /\ \A u \in Tables : sent[u].body \in Bodies(u[1])
      /\ heard \in [Kinds -> {Nothing} \cup Heards]
  BY TablesAssumption DEF IInv, Types, Broadcast, HistoryTypes
<1>4. sent[t].ver \in 0 .. 31 /\ (sent[t].ver + 1) % 32 \in 0 .. 31 /\ body \in AnyBody
  <2>1. sent[t].ver \in 0 .. 31
    BY <1>3 DEF Sections, Versions
  <2>2. t[1] \in Kinds
    BY KindsOfTables
  <2> QED BY <2>1, <2>2, NextVersion, BodiesIs
<1>5. /\ sent' \in [Tables -> Sections]
      /\ sent'[t].ver = (sent[t].ver + 1) % 32 /\ sent'[t].body = body
      /\ \A u \in Tables : u # t => sent'[u] = sent[u]
  <2> DEFINE new == [ver |-> (sent[t].ver + 1) % 32, body |-> body]
  <2>1. new \in Sections /\ new.ver = (sent[t].ver + 1) % 32 /\ new.body = body
    BY <1>4 DEF Sections, Versions
  <2>2. sent' = [sent EXCEPT ![t] = new]
    BY <1>2
  <2> HIDE DEF new
  <2> QED BY <2>1, <2>2, <1>3
<1>6. Broadcast'
  BY <1>1, <1>3, <1>5 DEF Broadcast
<1>7. ParserTypes' /\ HistoryTypes' /\ PatFits'
  BY <1>1 DEF IInv, Types, ParserTypes, HistoryTypes, PatFits, parserVars
<1>8. ASSUME JInv, NEW k \in Kinds
      PROVE  Ahead(k)' /\ Following(k)'
  <2>1. Following(k)'
    BY <1>1, <1>8 DEF JInv, Following, parserVars
  <2>2. Ahead(k)'
    <3> SUFFICES ASSUME heard[k] # Nothing
                 PROVE  \E d \in 0 .. changes' :
                          LET now == sent'[heard[k].table]
                          IN now.ver = (heard[k].ver + d) % 32 /\ (d = 0 => now.body = heard[k].body)
      BY <1>1 DEF Ahead
    <3> DEFINE u == heard[k].table
               v == heard[k].ver
    <3>1. u \in Tables /\ v \in 0 .. 31
      BY <1>3 DEF Heards, Versions
    <3>2. PICK d \in 0 .. changes :
            sent[u].ver = (v + d) % 32 /\ (d = 0 => sent[u].body = heard[k].body)
      BY <1>8 DEF JInv, Ahead
    <3>3. d \in Nat /\ d \in 0 .. changes' /\ d + 1 \in 0 .. changes' /\ d + 1 # 0
      BY <1>1, <1>3
    <3>4. CASE u = t
      <4>1. sent'[u].ver = (v + (d + 1)) % 32
        <5>1. v + d \in Nat /\ v + (d + 1) = (v + d) + 1
          BY <3>1, <3>3
        <5> QED BY <5>1, <3>2, <3>4, <1>5, NextVersion
      <4> HIDE DEF u, v
      <4> QED BY <4>1, <3>3 DEF u, v
    <3>5. CASE u # t
      BY <3>1, <3>2, <3>3, <3>5, <1>5
    <3> QED BY <3>4, <3>5
  <2> QED BY <2>1, <2>2
<1> QED BY <1>6, <1>7, <1>8 DEF IInv, Types

LEMMA InitInv == Init => JInv
<1> SUFFICES ASSUME Init
             PROVE  JInv
  OBVIOUS
<1>1. /\ curver = [kind \in Kinds |-> NoVersion]
      /\ pmt_pid = 0 /\ pcr_pid = 0 /\ pat = Nothing /\ pat_use = 0 /\ pat_max = 0
      /\ vctstr = Nothing /\ changes = 0
      /\ heard = NothingHeard /\ inStep = SoFar /\ low = SoFar
  BY DEF Init
<1>2. PICK first \in [Tables -> FirstVersions], assoc \in PatBodies, pcr \in PcrPids, lines \in VctBodies :
        sent = [t \in Tables |->
                  [ver |-> first[t],
                   body |-> CASE t[1] = "PAT" -> assoc [] t[1] = "PMT" -> pcr
                              [] t[1] = "VCT" -> lines [] t[1] = "MGT" -> Mgt]]
  BY DEF Init
<1>3. ASSUME NEW t \in Tables
      PROVE  sent[t] \in Sections /\ sent[t].body \in Bodies(t[1])
  <2> DEFINE body == CASE t[1] = "PAT" -> assoc [] t[1] = "PMT" -> pcr
                       [] t[1] = "VCT" -> lines [] t[1] = "MGT" -> Mgt
  <2>1. t[1] \in Kinds
    BY KindsOfTables
  <2>2. body \in Bodies(t[1])
    BY <2>1, BodiesIs DEF Kinds
  <2>3. body \in AnyBody
    BY <2>1, <2>2, BodiesIs
  <2>4. first[t] \in Versions
    BY TablesAssumption
  <2>5. sent[t] = [ver |-> first[t], body |-> body]
    BY <1>2
  <2> HIDE DEF body
  <2> QED BY <2>2, <2>3, <2>4, <2>5 DEF Sections
<1>4. Broadcast
  <2>1. sent \in [Tables -> Sections]
    <3>1. DOMAIN sent = Tables /\ sent = [t \in Tables |-> sent[t]]
      BY <1>2
    <3> QED BY <3>1, <1>3
  <2> QED BY <2>1, <1>1, <1>3, TablesAssumption DEF Broadcast
<1>5. ParserTypes /\ PatFits
  BY <1>1 DEF ParserTypes, PatFits, NoVersion
<1>6. HistoryTypes /\ \A k \in Kinds : heard[k] = Nothing
  BY <1>1 DEF HistoryTypes, NothingHeard, SoFar
<1>7. \A k \in Kinds : Ahead(k) /\ Following(k)
  BY <1>1, <1>6 DEF Ahead, Following
<1> QED BY <1>4, <1>5, <1>6, <1>7 DEF JInv, IInv, Types

LEMMA Stutters ==
  ASSUME IInv, UNCHANGED vars
  PROVE  /\ IInv'
         /\ JInv => \A k \in Kinds : Ahead(k)' /\ Following(k)'
<1>1. IInv'
  BY DEF IInv, Types, ParserTypes, Broadcast, HistoryTypes, PatFits, vars, parserVars
<1>2. JInv => \A k \in Kinds : Ahead(k)' /\ Following(k)'
  BY DEF JInv, Ahead, Following, vars, parserVars
<1> QED BY <1>1, <1>2

LEMMA Step ==
  ASSUME IInv, [Next]_vars
  PROVE  /\ IInv'
         /\ JInv /\ FewChanges => \A k \in Kinds : Ahead(k)' /\ Following(k)'
<1>1. CASE Receive
  BY <1>1, PatStep, PmtStep, MgtStep, VctStep DEF Receive
<1>2. CASE init
  BY <1>2, ResetStep
<1>3. CASE \E t \in Tables : Change(t)
  BY <1>3, ChangeStep
<1>4. CASE UNCHANGED vars
  BY <1>4, Stutters
<1> QED BY <1>1, <1>2, <1>3, <1>4 DEF Next

\* What holds for every broadcaster, whatever it changes and whatever is lost.
THEOREM SpecIInv == Spec => []IInv
<1>1. Init => IInv
  BY InitInv DEF JInv
<1>2. IInv /\ [Next]_vars => IInv'
  BY Step
<1> QED BY <1>1, <1>2, PTL DEF Spec

\* What holds when the version counter does not go all the way round.
THEOREM SpecJInv ==
  ASSUME FewChanges
  PROVE  Spec => []JInv
<1>1. Init => JInv
  BY InitInv
<1>2. JInv /\ [Next]_vars => JInv'
  BY Step DEF JInv
<1> QED BY <1>1, <1>2, PTL DEF Spec

LEMMA TypesFollow == IInv => TypeOK
BY DEF IInv, Types, ParserTypes, TypeOK

LEMMA FollowingHolds == JInv => TablesFollow
<1> SUFFICES ASSUME JInv, NEW kind \in Kinds, heard[kind] # Nothing, inStep[kind], low[kind]
             PROVE  Holds(kind)
  BY DEF TablesFollow
<1>1. Keeps(kind, heard[kind].body, pmt_pid, pcr_pid, pat, vctstr)
  BY DEF JInv, Following
<1> QED BY <1>1 DEF Keeps, Holds

\* Every state of a parser has the types of Tables.
THEOREM TablesTypeOK == Spec => []TypeOK
BY SpecIInv, TypesFollow, PTL

\* The array of programs has room for what it is filled with and for what is
\* read from it, for all associations, in any order, across resets and failed
\* allocations.
THEOREM ArrayAlwaysFits == Spec => []PatFits
BY SpecIInv, PTL DEF IInv

\* For all tables, in any order, with any sections damaged or repeated, the
\* parser keeps what it was last sent, as long as the broadcaster makes fewer
\* than 32 changes: then a version that comes again is the same table.
THEOREM TablesAlwaysFollow ==
  ASSUME FewChanges
  PROVE  Spec => []TablesFollow
BY SpecJInv, FollowingHolds, PTL
=============================================================================
