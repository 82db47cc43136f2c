----------------------------- MODULE SezProofs -----------------------------
(***************************************************************************)
(* The probe of do_item() accounts for every entry of the list scan()      *)
(* found, gives none up early and comes nearer to its end with each step,  *)
(* for every list and every pace of calls.                                 *)
(***************************************************************************)
EXTENDS Sez, TLAPS

\* How the slots l and en, strongch[] and the entries given up share out the
\* entries before k.
SlotCount(l) == (IF l[0] # Free THEN 1 ELSE 0) + (IF l[1] # Free THEN 1 ELSE 0)

Share(l, en, st, wk, k) ==
  /\ \A e \in 1 .. (k - 1) : \/ e \in wk
                             \/ \E n \in 1 .. Len(st) : st[n] = e
                             \/ \E c \in Chan : l[c] # Free /\ en[c] = e
  /\ wk \subseteq 1 .. (k - 1)
  /\ \A n \in 1 .. Len(st) : st[n] \in 1 .. (k - 1) /\ st[n] \notin wk
  /\ \A c \in Chan : l[c] # Free =>
       /\ en[c] \in 1 .. (k - 1) /\ en[c] \notin wk
       /\ \A n \in 1 .. Len(st) : st[n] # en[c]
  /\ l[0] # Free /\ l[1] # Free => en[0] # en[1]
  /\ \A m, n \in 1 .. Len(st) : st[m] = st[n] => m = n
  /\ Len(st) + SlotCount(l) <= k - 1

\* A slot's time left and the time since its set_freq() add up to its second,
\* but for the age of cur_ms.
Timed(l, g) == \A c \in Chan : l[c] # Free => g[c] + l[c] >= TUNE_TIME - MaxCall

Lefts == [Chan -> Free .. TUNE_TIME]
Givens == [Chan -> 0 .. TUNE_TIME + 1]

-----------------------------------------------------------------------------
(* Time *)

LEMMA LaterIs ==
  ASSUME NEW l \in Lefts, NEW d \in Nat
  PROVE  /\ Later(l, d) \in Lefts
         /\ \A c \in Chan : (Later(l, d)[c] = Free) <=> (l[c] = Free)
         /\ \A c \in Chan : l[c] # Free => Later(l, d)[c] >= -1 /\ Later(l, d)[c] >= l[c] - d
BY SezAssumption DEF Lefts, Later, Free, Chan

LEMMA LongerIs ==
  ASSUME NEW g \in Givens, NEW d \in Nat
  PROVE  /\ Longer(g, d) \in Givens
         /\ \A c \in Chan : Longer(g, d)[c] = g[c] + d \/ Longer(g, d)[c] = TUNE_TIME + 1
BY SezAssumption DEF Givens, Longer, Chan

LEMMA TimePasses ==
  ASSUME NEW l \in Lefts, NEW g \in Givens, NEW d \in Nat, Timed(l, g)
  PROVE  Timed(Later(l, d), Longer(g, d))
<1> SUFFICES ASSUME NEW c \in Chan, Later(l, d)[c] # Free
             PROVE  Longer(g, d)[c] + Later(l, d)[c] >= TUNE_TIME - MaxCall
  BY DEF Timed
<1>1. l[c] # Free /\ g[c] + l[c] >= TUNE_TIME - MaxCall
  BY LaterIs DEF Timed
<1>2. /\ Later(l, d)[c] >= -1 /\ Later(l, d)[c] >= l[c] - d
      /\ Longer(g, d)[c] = g[c] + d \/ Longer(g, d)[c] = TUNE_TIME + 1
  BY <1>1, LaterIs, LongerIs
<1>3. /\ l[c] \in Int /\ Later(l, d)[c] \in Int
      /\ g[c] \in Int /\ TUNE_TIME \in Int /\ MaxCall \in Int /\ MaxCall >= 0
  BY SezAssumption, LaterIs DEF Lefts, Givens, Free
<1> QED BY <1>1, <1>2, <1>3

-----------------------------------------------------------------------------
(* Slots *)

LEMMA ShareLater ==
  ASSUME NEW l \in Lefts, NEW d \in Nat, NEW en, NEW st, NEW wk, NEW k,
         Share(l, en, st, wk, k)
  PROVE  Share(Later(l, d), en, st, wk, k)
<1>1. \A c \in Chan : (Later(l, d)[c] = Free) <=> (l[c] = Free)
  BY LaterIs
<1>2. SlotCount(Later(l, d)) = SlotCount(l)
  BY <1>1 DEF SlotCount, Chan
<1> QED BY <1>1, <1>2 DEF Share, Chan

LEMMA Appended ==
  ASSUME NEW st \in Seq(Nat), NEW e \in Nat
  PROVE  /\ Append(st, e) \in Seq(Nat)
         /\ Len(Append(st, e)) = Len(st) + 1
         /\ Append(st, e)[Len(st) + 1] = e
         /\ \A n \in 1 .. Len(st) : Append(st, e)[n] = st[n]
OBVIOUS

LEMMA FreedCount ==
  ASSUME NEW l \in Lefts, NEW c \in Chan, l[c] # Free
  PROVE  /\ [l EXCEPT ![c] = Free] \in Lefts
         /\ [l EXCEPT ![c] = Free][c] = Free
         /\ \A o \in Chan : o # c => [l EXCEPT ![c] = Free][o] = l[o]
         /\ SlotCount([l EXCEPT ![c] = Free]) = SlotCount(l) - 1
<1>1. Free \in Free .. TUNE_TIME
  BY SezAssumption DEF Free
<1> QED BY <1>1 DEF Lefts, Chan, SlotCount

LEMMA ShareStrong ==
  ASSUME NEW l \in Lefts, NEW en \in [Chan -> Nat], NEW st \in Seq(Nat), NEW wk,
         NEW k \in Nat \ {0}, NEW c \in Chan, l[c] # Free, Share(l, en, st, wk, k)
  PROVE  Share([l EXCEPT ![c] = Free], en, Append(st, en[c]), wk, k)
<1> DEFINE m == [l EXCEPT ![c] = Free]
           s == Append(st, en[c])
<1>1. /\ m[c] = Free /\ SlotCount(m) = SlotCount(l) - 1
      /\ \A o \in Chan : o # c => m[o] = l[o]
  BY FreedCount
<1>2. /\ Len(s) = Len(st) + 1 /\ s[Len(st) + 1] = en[c]
      /\ \A n \in 1 .. Len(st) : s[n] = st[n]
  BY Appended
<1>3. Len(st) \in Nat /\ SlotCount(l) \in Int /\ en[c] \in Nat
  BY DEF SlotCount
<1> HIDE DEF m, s
<1>4. \A e \in 1 .. (k - 1) : \/ e \in wk
                              \/ \E n \in 1 .. Len(s) : s[n] = e
                              \/ \E o \in Chan : m[o] # Free /\ en[o] = e
  <2> SUFFICES ASSUME NEW e \in 1 .. (k - 1)
               PROVE  \/ e \in wk
                      \/ \E n \in 1 .. Len(s) : s[n] = e
                      \/ \E o \in Chan : m[o] # Free /\ en[o] = e
    OBVIOUS
  <2>1. CASE e \in wk
    BY <2>1
  <2>2. CASE \E n \in 1 .. Len(st) : st[n] = e
    BY <2>2, <1>2, <1>3
  <2>3. CASE \E o \in Chan : l[o] # Free /\ en[o] = e
    <3>1. PICK o \in Chan : l[o] # Free /\ en[o] = e
      BY <2>3
    <3>2. CASE o = c
      <4>1. Len(st) + 1 \in 1 .. Len(s) /\ s[Len(st) + 1] = e
        BY <3>1, <3>2, <1>2, <1>3
      <4> QED BY <4>1
    <3>3. CASE o # c
      BY <3>1, <3>3, <1>1
    <3> QED BY <3>2, <3>3
  <2> QED BY <2>1, <2>2, <2>3 DEF Share
<1>5. \A n \in 1 .. Len(s) : n = Len(st) + 1 \/ n \in 1 .. Len(st)
  BY <1>2, <1>3
<1>6. wk \subseteq 1 .. (k - 1)
  BY DEF Share
<1>7. \A n \in 1 .. Len(s) : s[n] \in 1 .. (k - 1) /\ s[n] \notin wk
  BY <1>2, <1>5 DEF Share
<1>8. \A o \in Chan : m[o] # Free =>
        /\ en[o] \in 1 .. (k - 1) /\ en[o] \notin wk
        /\ \A n \in 1 .. Len(s) : s[n] # en[o]
  <2> SUFFICES ASSUME NEW o \in Chan, m[o] # Free
               PROVE  /\ en[o] \in 1 .. (k - 1) /\ en[o] \notin wk
                      /\ \A n \in 1 .. Len(s) : s[n] # en[o]
    OBVIOUS
  <2>1. o # c /\ l[o] # Free
    BY <1>1
  <2>2. en[o] # en[c]
    BY <2>1 DEF Share, Chan
  <2>3. /\ en[o] \in 1 .. (k - 1) /\ en[o] \notin wk
        /\ \A n \in 1 .. Len(st) : st[n] # en[o]
    BY <2>1 DEF Share
  <2>4. \A n \in 1 .. Len(s) : s[n] # en[o]
    BY <2>2, <2>3, <1>2, <1>5
  <2> QED BY <2>3, <2>4
<1>9. ~ (m[0] # Free /\ m[1] # Free)
  BY <1>1 DEF Chan
<1>10. \A a, b \in 1 .. Len(s) : s[a] = s[b] => a = b
  <2>1. \A a, b \in 1 .. Len(st) : st[a] = st[b] => a = b
    BY DEF Share
  <2>2. \A n \in 1 .. Len(st) : st[n] # en[c]
    BY DEF Share
  <2> QED BY <1>2, <1>5, <2>1, <2>2
<1>11. Len(s) + SlotCount(m) <= k - 1
  BY <1>1, <1>2, <1>3 DEF Share
<1> QED BY <1>4, <1>6, <1>7, <1>8, <1>9, <1>10, <1>11 DEF Share, m, s

LEMMA ShareWeak ==
  ASSUME NEW l \in Lefts, NEW en \in [Chan -> Nat], NEW st \in Seq(Nat), NEW wk,
         NEW k \in Nat \ {0}, NEW c \in Chan, l[c] # Free, Share(l, en, st, wk, k)
  PROVE  Share([l EXCEPT ![c] = Free], en, st, wk \cup {en[c]}, k)
<1> DEFINE m == [l EXCEPT ![c] = Free]
           w == wk \cup {en[c]}
<1>1. /\ m[c] = Free /\ SlotCount(m) = SlotCount(l) - 1
      /\ \A o \in Chan : o # c => m[o] = l[o]
  BY FreedCount
<1>2. \A e : e \in w <=> e \in wk \/ e = en[c]
  OBVIOUS
<1>3. Len(st) \in Nat /\ SlotCount(l) \in Int
  BY DEF SlotCount
<1> HIDE DEF m, w
<1>4. \A e \in 1 .. (k - 1) : \/ e \in w
                              \/ \E n \in 1 .. Len(st) : st[n] = e
                              \/ \E o \in Chan : m[o] # Free /\ en[o] = e
  BY <1>1, <1>2 DEF Share
<1>5. w \subseteq 1 .. (k - 1)
  BY <1>2 DEF Share
<1>6. \A n \in 1 .. Len(st) : st[n] \in 1 .. (k - 1) /\ st[n] \notin w
  BY <1>2 DEF Share
<1>7. \A o \in Chan : m[o] # Free =>
        /\ en[o] \in 1 .. (k - 1) /\ en[o] \notin w
        /\ \A n \in 1 .. Len(st) : st[n] # en[o]
  <2> SUFFICES ASSUME NEW o \in Chan, m[o] # Free
               PROVE  /\ en[o] \in 1 .. (k - 1) /\ en[o] \notin w
                      /\ \A n \in 1 .. Len(st) : st[n] # en[o]
    OBVIOUS
  <2>1. o # c /\ l[o] # Free
    BY <1>1
  <2>2. en[o] # en[c]
    BY <2>1 DEF Share, Chan
  <2> QED BY <2>1, <2>2, <1>2 DEF Share
<1>8. ~ (m[0] # Free /\ m[1] # Free)
  BY <1>1 DEF Chan
<1>9. \A a, b \in 1 .. Len(st) : st[a] = st[b] => a = b
  BY DEF Share
<1>10. Len(st) + SlotCount(m) <= k - 1
  BY <1>1, <1>3 DEF Share
<1> QED BY <1>4, <1>5, <1>6, <1>7, <1>8, <1>9, <1>10 DEF Share, m, w

LEMMA ShareTune ==
  ASSUME NEW l \in Lefts, NEW en \in [Chan -> Nat], NEW st \in Seq(Nat), NEW wk,
         NEW k \in Nat \ {0}, NEW c \in Chan, l[c] = Free, Share(l, en, st, wk, k),
         NEW t \in 0 .. TUNE_TIME
  PROVE  Share([l EXCEPT ![c] = t], [en EXCEPT ![c] = k], st, wk, k + 1)
<1> DEFINE m == [l EXCEPT ![c] = t]
           f == [en EXCEPT ![c] = k]
<1>1. /\ m[c] # Free /\ f[c] = k
      /\ \A o \in Chan : o # c => m[o] = l[o] /\ f[o] = en[o]
  BY SezAssumption DEF Lefts, Free
<1>2. SlotCount(m) = SlotCount(l) + 1
  BY <1>1 DEF SlotCount, Chan
<1>3. Len(st) \in Nat /\ SlotCount(l) \in Int
  BY DEF SlotCount
<1>4. \A e \in 1 .. k : e = k \/ e \in 1 .. (k - 1)
  OBVIOUS
<1>5. \A e \in 1 .. (k - 1) : e \in 1 .. k /\ e # k
  OBVIOUS
<1>6. k + 1 - 1 = k /\ k \in 1 .. k
  OBVIOUS
<1> HIDE DEF m, f
<1>7. \A e \in 1 .. k : \/ e \in wk
                        \/ \E n \in 1 .. Len(st) : st[n] = e
                        \/ \E o \in Chan : m[o] # Free /\ f[o] = e
  <2> SUFFICES ASSUME NEW e \in 1 .. k
               PROVE  \/ e \in wk
                      \/ \E n \in 1 .. Len(st) : st[n] = e
                      \/ \E o \in Chan : m[o] # Free /\ f[o] = e
    OBVIOUS
  <2>1. CASE e = k
    BY <2>1, <1>1
  <2>2. CASE e \in 1 .. (k - 1)
    <3>1. CASE \E o \in Chan : l[o] # Free /\ en[o] = e
      <4>1. PICK o \in Chan : l[o] # Free /\ en[o] = e
        BY <3>1
      <4>2. m[o] # Free /\ f[o] = e
        BY <4>1, <1>1
      <4> QED BY <4>2
    <3>2. CASE ~ \E o \in Chan : l[o] # Free /\ en[o] = e
      BY <2>2, <3>2 DEF Share
    <3> QED BY <3>1, <3>2
  <2> QED BY <2>1, <2>2, <1>4
<1>8. wk \subseteq 1 .. k /\ k \notin wk
  BY <1>5 DEF Share
<1>9. \A n \in 1 .. Len(st) : st[n] \in 1 .. k /\ st[n] \notin wk /\ st[n] # k
  BY <1>5 DEF Share
<1>10. \A o \in Chan : m[o] # Free =>
        /\ f[o] \in 1 .. k /\ f[o] \notin wk
        /\ \A n \in 1 .. Len(st) : st[n] # f[o]
  BY <1>1, <1>5, <1>6, <1>8, <1>9 DEF Share
<1>11. m[0] # Free /\ m[1] # Free => f[0] # f[1]
  <2> SUFFICES ASSUME m[0] # Free, m[1] # Free
               PROVE  f[0] # f[1]
    OBVIOUS
  <2>1. CASE c = 0
    BY <2>1, <1>1, <1>5 DEF Share, Chan
  <2>2. CASE c = 1
    BY <2>2, <1>1, <1>5 DEF Share, Chan
  <2> QED BY <2>1, <2>2 DEF Chan
<1>12. \A a, b \in 1 .. Len(st) : st[a] = st[b] => a = b
  BY DEF Share
<1>13. Len(st) + SlotCount(m) <= k
  BY <1>2, <1>3 DEF Share
<1>14. ASSUME NEW x, x - 1 = k PROVE Share(m, f, st, wk, x)
  BY <1>7, <1>8, <1>9, <1>10, <1>11, <1>12, <1>13, <1>14, Zenon DEF Share
<1>15. Share(m, f, st, wk, k + 1)
  BY <1>6, <1>14
<1> QED BY <1>15 DEF m, f

-----------------------------------------------------------------------------
(* The inductive invariant *)

Places ==
  Probing =>
    /\ Share(left, entry, strong, weak, i)
    /\ Timed(left, given)
    /\ pc \in {"look", "poll", "tune"} => i <= Len(chlist) /\ count = 0
    /\ pc \in {"last", "last_poll", "identify"} => i = Len(chlist) + 1
    /\ pc = "tune" => left[ch] = Free
    /\ pc \in {"poll", "last_poll"} => left[ch] # Free
    /\ pc \in {"last", "last_poll"} => (ch = 0 => count = 0)
                                      /\ (ch = 1 /\ count = 0 => left[0] = Free)
    /\ pc = "identify" => left = [c \in Chan |-> Free]

IInv == TypeOK /\ ListFits /\ Places

\* What is proved of the variables a step of the probe changes.
ProbeType ==
  /\ i \in Nat \ {0} /\ ch \in Chan /\ age \in 0 .. MaxCall /\ count \in Chan
  /\ left \in Lefts /\ entry \in [Chan -> Nat] /\ given \in Givens
  /\ strong \in Seq(Nat) /\ weak \subseteq Nat /\ asked \subseteq Nat

LEMMA EmptyIsSeq ==
  ASSUME NEW S
  PROVE  <<>> \in Seq(S) /\ Len(<<>>) = 0
OBVIOUS

LEMMA FreshPlaces ==
  ASSUME NEW l, Len(l) \in Nat, Fresh(l), pc' = IF l = <<>> THEN "last" ELSE "look",
         l = <<>> <=> Len(l) = 0
  PROVE  ProbeType' /\ Places'
<1>1. ProbeType'
  BY SezAssumption, EmptyIsSeq DEF Fresh, ProbeType, Lefts, Givens, Free, NoEntry, Chan
<1>2. \A c \in Chan : left'[c] = Free
  BY DEF Fresh
<1>3. Share(left', entry', strong', weak', i')
  BY <1>2, EmptyIsSeq DEF Share, Fresh, SlotCount, Chan
<1>4. Timed(left', given')
  BY <1>2 DEF Timed
<1>5. i' = 1 /\ ch' = 0 /\ count' = 0 /\ chlist' = l /\ left' = [c \in Chan |-> Free]
  BY DEF Fresh
<1>6. /\ pc' \in {"last", "look"}
      /\ pc' = "look" => 1 <= Len(l)
      /\ pc' = "last" => 1 = Len(l) + 1
  OBVIOUS
<1> QED BY <1>1, <1>3, <1>4, <1>5, <1>6 DEF Places

LEMMA TimedFreed ==
  ASSUME NEW l \in Lefts, NEW g, NEW c \in Chan, Timed(l, g)
  PROVE  Timed([l EXCEPT ![c] = Free], g)
BY DEF Timed, Lefts

LEMMA Passes ==
  ASSUME NEW l \in Lefts, NEW d \in Nat, NEW en, NEW st, NEW wk, NEW k,
         Share(l, en, st, wk, k), given \in Givens, Timed(l, given), Pass(l, d)
  PROVE  /\ left' \in Lefts /\ given' \in Givens
         /\ Share(left', en, st, wk, k) /\ Timed(left', given')
         /\ \A c \in Chan : left'[c] = Free <=> l[c] = Free
BY LaterIs, LongerIs, ShareLater, TimePasses DEF Pass

LEMMA ProbeTypeOK == IInv => ProbeType
BY DEF IInv, TypeOK, ProbeType, Lefts, Givens

LEMMA ListLength == IInv => Len(chlist) \in Nat
BY SezAssumption, EmptyIsSeq DEF IInv, TypeOK

LEMMA LookStep ==
  ASSUME IInv, Look
  PROVE  ProbeType' /\ Places'
<1>1. /\ ProbeType /\ Share(left, entry, strong, weak, i) /\ Timed(left, given)
      /\ i <= Len(chlist) /\ count = 0
  BY ProbeTypeOK DEF IInv, Places, Probing, Look
<1>2. ch' = ch /\ entry' = entry /\ strong' = strong /\ i' = i /\ chlist' = chlist
      /\ given' = given /\ count' = count /\ asked' = asked /\ age' = 0
      /\ pc' \in {"tune", "poll"}
  BY DEF Look, itemVars
<1>3. ch \in Chan /\ 0 \in 0 .. MaxCall
  BY <1>1, SezAssumption DEF ProbeType
<1>4. CASE left[ch] # Free /\ ~ Expired(ch) /\ pc' = "poll" /\ UNCHANGED <<left, weak>>
  <2>1. ProbeType'
    BY <1>1, <1>2, <1>3, <1>4 DEF ProbeType
  <2>2. Places'
    BY <1>1, <1>2, <1>4 DEF Places
  <2> QED BY <2>1, <2>2
<1>5. CASE left[ch] = Free /\ pc' = "tune" /\ UNCHANGED <<left, weak>>
  <2>1. ProbeType'
    BY <1>1, <1>2, <1>3, <1>5 DEF ProbeType
  <2>2. Places'
    BY <1>1, <1>2, <1>5 DEF Places
  <2> QED BY <2>1, <2>2
<1>6. CASE Expired(ch) /\ left' = [left EXCEPT ![ch] = Free] /\ GiveUp /\ pc' = "tune"
  <2>1. left[ch] # Free /\ weak' = weak \cup {entry[ch]}
    BY <1>6 DEF Expired, GiveUp
  <2>2. /\ left \in Lefts /\ entry \in [Chan -> Nat] /\ strong \in Seq(Nat)
        /\ i \in Nat \ {0} /\ weak \subseteq Nat
    BY <1>1 DEF ProbeType
  <2>3. left' \in Lefts /\ left'[ch] = Free
    BY <1>3, <1>6, <2>1, <2>2, FreedCount
  <2>4. ProbeType'
    BY <1>1, <1>2, <1>3, <2>1, <2>2, <2>3 DEF ProbeType
  <2>5. Share(left', entry', strong', weak', i')
    BY <1>1, <1>2, <1>3, <1>6, <2>1, <2>2, ShareWeak
  <2>6. Timed(left', given')
    BY <1>1, <1>2, <1>3, <1>6, <2>2, TimedFreed
  <2>7. Places'
    BY <1>1, <1>2, <1>6, <2>3, <2>5, <2>6 DEF Places
  <2> QED BY <2>4, <2>7
<1> QED BY <1>4, <1>5, <1>6 DEF Look

LEMMA PollStep ==
  ASSUME IInv, Poll
  PROVE  ProbeType' /\ Places'
<1>1. /\ ProbeType /\ Share(left, entry, strong, weak, i) /\ Timed(left, given)
      /\ i <= Len(chlist) /\ count = 0 /\ left[ch] # Free
  BY ProbeTypeOK DEF IInv, Places, Probing, Poll
<1>2. entry' = entry /\ i' = i /\ chlist' = chlist /\ count' = count /\ weak' = weak
      /\ asked' = asked \cup {entry[ch]}
  BY DEF Poll, itemVars
<1>3. /\ left \in Lefts /\ entry \in [Chan -> Nat] /\ strong \in Seq(Nat)
      /\ i \in Nat \ {0} /\ weak \subseteq Nat /\ ch \in Chan /\ given \in Givens
      /\ asked' \subseteq Nat /\ count \in Chan
  BY <1>1, <1>2 DEF ProbeType
<1>4. ASSUME NEW d \in 0 .. MaxCall,
             Strong(left, d), age' = d, pc' = "tune", ch' = ch
      PROVE  ProbeType' /\ Places'
  <2> DEFINE l == [left EXCEPT ![ch] = Free]
  <2>1. d \in Nat
    BY SezAssumption
  <2>2. l \in Lefts /\ l[ch] = Free
    BY <1>1, <1>3, FreedCount
  <2>3. Share(l, entry, Append(strong, entry[ch]), weak, i) /\ Timed(l, given)
    BY <1>1, <1>3, ShareStrong, TimedFreed
  <2>4. strong' = Append(strong, entry[ch]) /\ Pass(l, d)
    BY <1>4 DEF Strong
  <2> HIDE DEF l
  <2>5. /\ left' \in Lefts /\ given' \in Givens
        /\ Share(left', entry, strong', weak, i) /\ Timed(left', given')
        /\ \A c \in Chan : left'[c] = Free <=> l[c] = Free
    BY <1>3, <2>1, <2>2, <2>3, <2>4, Passes
  <2>6. ProbeType'
    <3>1. strong' \in Seq(Nat)
      BY <1>3, <2>4, Appended
    <3> QED BY <1>2, <1>3, <1>4, <2>5, <3>1 DEF ProbeType
  <2>7. Places'
    BY <1>1, <1>2, <1>3, <1>4, <2>2, <2>5 DEF Places
  <2> QED BY <2>6, <2>7
<1>5. ASSUME NEW d \in 0 .. MaxCall,
             pc' = "look", age' = 0, ch' = 1 - ch, strong' = strong,
             Pass(left, IF ch = 1 THEN d + 1 ELSE d)
      PROVE  ProbeType' /\ Places'
  <2>1. (IF ch = 1 THEN d + 1 ELSE d) \in Nat /\ 1 - ch \in Chan /\ 0 \in 0 .. MaxCall
    BY <1>3, SezAssumption DEF Chan
  <2>2. /\ left' \in Lefts /\ given' \in Givens
        /\ Share(left', entry, strong, weak, i) /\ Timed(left', given')
    BY <1>1, <1>3, <1>5, <2>1, Passes
  <2>3. ProbeType'
    BY <1>2, <1>3, <1>5, <2>1, <2>2 DEF ProbeType
  <2>4. Places'
    BY <1>1, <1>2, <1>5, <2>2 DEF Places
  <2> QED BY <2>3, <2>4
<1> QED BY <1>4, <1>5 DEF Poll

LEMMA TuneStep ==
  ASSUME IInv, Tune
  PROVE  ProbeType' /\ Places'
<1>1. /\ ProbeType /\ Share(left, entry, strong, weak, i) /\ Timed(left, given)
      /\ i <= Len(chlist) /\ count = 0 /\ left[ch] = Free
  BY ProbeTypeOK DEF IInv, Places, Probing, Tune
<1>2. /\ left \in Lefts /\ entry \in [Chan -> Nat] /\ strong \in Seq(Nat)
      /\ i \in Nat \ {0} /\ weak \subseteq Nat /\ ch \in Chan /\ given \in Givens
      /\ asked \subseteq Nat /\ count \in Chan /\ age \in 0 .. MaxCall
  BY <1>1 DEF ProbeType
<1>3. /\ strong' = strong /\ chlist' = chlist /\ count' = count /\ weak' = weak
      /\ asked' = asked /\ entry' = [entry EXCEPT ![ch] = i] /\ i' = i + 1
      /\ ch' = 0 /\ age' = 0 /\ pc' = IF i < Len(chlist) THEN "look" ELSE "last"
  BY DEF Tune, itemVars
<1>4. PICK d \in 0 .. MaxCall :
        /\ left' = Later(Deadline(left), d + 1)
        /\ given' = Longer([given EXCEPT ![ch] = 0], d + 1)
  BY DEF Tune
<1>5. d + 1 \in Nat /\ TUNE_TIME - age \in 0 .. TUNE_TIME /\ 0 \in 0 .. MaxCall
      /\ TUNE_TIME \in Nat /\ MaxCall \in Nat
  BY <1>2, SezAssumption
<1> DEFINE l == Deadline(left)
           g == [given EXCEPT ![ch] = 0]
           en == [entry EXCEPT ![ch] = i]
<1>6. l \in Lefts /\ g \in Givens /\ en \in [Chan -> Nat]
  BY <1>2, <1>5 DEF Deadline, Lefts, Givens, Free
<1>7. Share(l, en, strong, weak, i + 1)
  BY <1>1, <1>2, <1>5, ShareTune DEF Deadline
<1>8. Timed(l, g)
  <2> SUFFICES ASSUME NEW c \in Chan, l[c] # Free
               PROVE  g[c] + l[c] >= TUNE_TIME - MaxCall
    BY DEF Timed
  <2>1. CASE c = ch
    <3>1. l[c] = TUNE_TIME - age /\ g[c] = 0
      BY <2>1, <1>2 DEF Deadline, Lefts, Givens
    <3> QED BY <3>1, <1>2, <1>5
  <2>2. CASE c # ch
    <3>1. l[c] = left[c] /\ g[c] = given[c]
      BY <2>2, <1>2 DEF Deadline, Lefts, Givens
    <3> QED BY <3>1, <1>1 DEF Timed
  <2> QED BY <2>1, <2>2
<1> HIDE DEF l, g, en
<1>9. left' \in Lefts /\ given' \in Givens
  BY <1>4, <1>5, <1>6, LaterIs, LongerIs DEF l, g
<1>10. Share(left', entry', strong', weak', i') /\ Timed(left', given')
  <2>1. Share(left', en, strong, weak, i + 1)
    BY <1>4, <1>5, <1>6, <1>7, ShareLater DEF l
  <2>2. Timed(left', given')
    BY <1>4, <1>5, <1>6, <1>8, TimePasses DEF l, g
  <2> QED BY <2>1, <2>2, <1>3 DEF en
<1>11. ProbeType'
  BY <1>2, <1>3, <1>5, <1>6, <1>9 DEF ProbeType, Chan, en
<1>12. Places'
  <2>1. pc' = "look" => i + 1 <= Len(chlist)
    BY <1>2, <1>3, ListLength
  <2>2. pc' = "last" => i + 1 = Len(chlist) + 1 /\ count = 0
    BY <1>1, <1>2, <1>3, ListLength
  <2> QED BY <2>1, <2>2, <1>1, <1>3, <1>10 DEF Places
<1> QED BY <1>11, <1>12

\* The turn of the last loop ends, with the slots as l.
LEMMA NextSlotStep ==
  ASSUME IInv, pc \in {"last", "last_poll"},
         NEW l \in Lefts, NEW st \in Seq(Nat), NEW wk \in SUBSET Nat, NEW d \in 0 .. MaxCall,
         NEW busy \in Chan \cup {count + 1},
         Share(l, entry, st, wk, i), Timed(l, given),
         \A c \in Chan : c # ch => l[c] = left[c],
         busy = 0 => count = 0 /\ l[ch] = Free,
         busy = count \/ busy = count + 1,
         NextSlot(busy, l, d),
         UNCHANGED <<i, age, entry, chlist>>, strong' = st, weak' = wk, asked' \subseteq Nat
  PROVE  ProbeType' /\ Places'
<1>1. ProbeType /\ i = Len(chlist) + 1
      /\ (ch = 0 => count = 0) /\ (ch = 1 /\ count = 0 => left[0] = Free)
  BY ProbeTypeOK DEF IInv, Places, Probing
<1>2. /\ i \in Nat \ {0} /\ entry \in [Chan -> Nat] /\ given \in Givens /\ ch \in Chan
      /\ count \in Chan /\ age \in 0 .. MaxCall
  BY <1>1 DEF ProbeType
<1>3. d \in Nat /\ d + 1 \in Nat
  BY SezAssumption
<1>4. ASSUME NEW t \in Nat, Pass(l, t)
      PROVE  /\ left' \in Lefts /\ given' \in Givens
             /\ Share(left', entry', strong', weak', i') /\ Timed(left', given')
             /\ \A c \in Chan : left'[c] = Free <=> l[c] = Free
  BY <1>2, <1>4, Passes
<1>5. CASE ch = 0
  <2>1. ch' = 1 /\ pc' = "last" /\ count' = busy /\ Pass(l, d)
    BY <1>5 DEF NextSlot
  <2>2. count = 0 /\ busy \in Chan
    BY <1>1, <1>5 DEF Chan
  <2>3. ProbeType'
    BY <1>2, <1>3, <1>4, <2>1, <2>2 DEF ProbeType, Chan
  <2>4. busy = 0 => left'[0] = Free
    BY <1>3, <1>4, <1>5, <2>1 DEF Chan
  <2>5. Places'
    BY <1>1, <1>3, <1>4, <2>1, <2>4 DEF Places
  <2> QED BY <2>3, <2>5
<1>6. CASE ch = 1 /\ busy = 0
  <2>1. ch' = 0 /\ count' = 0 /\ pc' = "identify" /\ Pass(l, d)
    BY <1>6 DEF NextSlot
  <2>2. ProbeType'
    BY <1>2, <1>3, <1>4, <2>1 DEF ProbeType, Chan
  <2>3. \A c \in Chan : left'[c] = Free
    BY <1>1, <1>3, <1>4, <1>6, <2>1 DEF Chan
  <2>4. left' = [c \in Chan |-> Free]
    BY <1>3, <1>4, <2>1, <2>3 DEF Lefts
  <2>5. Places'
    BY <1>1, <1>3, <1>4, <2>1, <2>4 DEF Places
  <2> QED BY <2>2, <2>5
<1>7. CASE ch = 1 /\ busy # 0
  <2>1. ch' = 0 /\ count' = 0 /\ pc' = "last" /\ Pass(l, d + 1)
    BY <1>7 DEF NextSlot
  <2>2. ProbeType'
    BY <1>2, <1>3, <1>4, <2>1 DEF ProbeType, Chan
  <2>3. Places'
    BY <1>1, <1>3, <1>4, <2>1 DEF Places
  <2> QED BY <2>2, <2>3
<1> QED BY <1>2, <1>5, <1>6, <1>7 DEF Chan

LEMMA LastLookStep ==
  ASSUME IInv, LastLook
  PROVE  ProbeType' /\ Places'
<1>1. /\ ProbeType /\ Share(left, entry, strong, weak, i) /\ Timed(left, given)
      /\ i = Len(chlist) + 1
  BY ProbeTypeOK DEF IInv, Places, Probing, LastLook
<1>2. /\ left \in Lefts /\ entry \in [Chan -> Nat] /\ strong \in Seq(Nat)
      /\ i \in Nat \ {0} /\ weak \in SUBSET Nat /\ ch \in Chan /\ count \in Chan
      /\ asked \subseteq Nat /\ given \in Givens /\ age \in 0 .. MaxCall
  BY <1>1 DEF ProbeType
<1>3. /\ UNCHANGED <<i, age, entry, chlist>> /\ strong' = strong /\ asked' = asked
      /\ pc \in {"last", "last_poll"} /\ 0 \in 0 .. MaxCall
  BY SezAssumption DEF LastLook, itemVars
<1>4. CASE left[ch] = Free /\ NextSlot(count, left, 0) /\ UNCHANGED weak
  BY <1>1, <1>2, <1>3, <1>4, NextSlotStep
<1>5. CASE Expired(ch) /\ GiveUp /\ NextSlot(count, [left EXCEPT ![ch] = Free], 0)
  <2>1. left[ch] # Free /\ weak' = weak \cup {entry[ch]}
    BY <1>5 DEF Expired, GiveUp
  <2> DEFINE l == [left EXCEPT ![ch] = Free]
             wk == weak \cup {entry[ch]}
  <2>2. l \in Lefts /\ l[ch] = Free /\ \A c \in Chan : c # ch => l[c] = left[c]
    BY <1>2, <2>1, FreedCount
  <2>3. wk \in SUBSET Nat
    BY <1>2
  <2>4. Share(l, entry, strong, wk, i) /\ Timed(l, given)
    BY <1>1, <1>2, <2>1, ShareWeak, TimedFreed
  <2> HIDE DEF l, wk
  <2>5. NextSlot(count, l, 0) /\ weak' = wk
    BY <1>5, <2>1 DEF l, wk
  <2> QED BY <1>2, <1>3, <2>2, <2>3, <2>4, <2>5, NextSlotStep
<1>6. CASE left[ch] # Free /\ ~ Expired(ch) /\ pc' = "last_poll"
           /\ UNCHANGED <<ch, count, left, given, weak>>
  <2>1. ProbeType'
    BY <1>1, <1>3, <1>6 DEF ProbeType
  <2>2. (ch = 0 => count = 0) /\ (ch = 1 /\ count = 0 => left[0] = Free)
    BY <1>3 DEF IInv, Places, Probing
  <2>3. Places'
    BY <1>1, <1>3, <1>6, <2>2 DEF Places
  <2> QED BY <2>1, <2>3
<1> QED BY <1>4, <1>5, <1>6 DEF LastLook

LEMMA LastPollStep ==
  ASSUME IInv, LastPoll
  PROVE  ProbeType' /\ Places'
<1>1. /\ ProbeType /\ Share(left, entry, strong, weak, i) /\ Timed(left, given)
      /\ left[ch] # Free
  BY ProbeTypeOK DEF IInv, Places, Probing, LastPoll
<1>2. /\ left \in Lefts /\ entry \in [Chan -> Nat] /\ strong \in Seq(Nat)
      /\ i \in Nat \ {0} /\ weak \in SUBSET Nat /\ ch \in Chan /\ count \in Chan
      /\ asked \subseteq Nat /\ given \in Givens
  BY <1>1 DEF ProbeType
<1>3. /\ UNCHANGED <<i, age, entry, chlist>> /\ weak' = weak /\ asked' \subseteq Nat
      /\ pc \in {"last", "last_poll"}
  BY <1>2 DEF LastPoll, itemVars
<1>4. ASSUME NEW d \in 0 .. MaxCall, strong' = Append(strong, entry[ch]),
             NextSlot(count, [left EXCEPT ![ch] = Free], d)
      PROVE  ProbeType' /\ Places'
  <2> DEFINE l == [left EXCEPT ![ch] = Free]
             st == Append(strong, entry[ch])
  <2>1. l \in Lefts /\ l[ch] = Free /\ \A c \in Chan : c # ch => l[c] = left[c]
    BY <1>1, <1>2, FreedCount
  <2>2. st \in Seq(Nat)
    BY <1>2, Appended
  <2>3. Share(l, entry, st, weak, i) /\ Timed(l, given)
    BY <1>1, <1>2, ShareStrong, TimedFreed
  <2> HIDE DEF l, st
  <2>4. NextSlot(count, l, d) /\ strong' = st
    BY <1>4 DEF l, st
  <2> QED BY <1>2, <1>3, <2>1, <2>2, <2>3, <2>4, NextSlotStep
<1>5. ASSUME NEW d \in 0 .. MaxCall, NextSlot(count + 1, left, d), strong' = strong
      PROVE  ProbeType' /\ Places'
  <2>1. count + 1 # 0
    BY <1>2 DEF Chan
  <2> QED BY <1>1, <1>2, <1>3, <1>5, <2>1, NextSlotStep
<1> QED BY <1>4, <1>5 DEF LastPoll

-----------------------------------------------------------------------------
(* The steps *)

\* What find() and main() keep of the tuners.
ListType ==
  /\ pc \in {"find", "recv", "item", "look", "poll", "tune", "last", "last_poll", "identify", "exit"}
  /\ status \in 0 .. 1
  /\ ifs \in Seq(BOOLEAN) /\ iface_found \in Nat
  /\ list \in Seq(Tuners) /\ list_max \in Nat
  /\ idx \in Nat \ {0} /\ opened \subseteq 1 .. idx
  /\ chlist \in ChLists \cup {<<>>}
  /\ ListFits

LEMMA Split ==
  /\ IInv <=> ListType /\ ProbeType /\ Places
  /\ IInv' <=> ListType' /\ ProbeType' /\ Places'
<1>1. IInv <=> ListType /\ ProbeType /\ Places
  BY DEF IInv, TypeOK, ListType, ProbeType, Lefts, Givens
<1>2. IInv' <=> ListType' /\ ProbeType' /\ Places'
  BY DEF IInv, TypeOK, ListType, ProbeType, Lefts, Givens
<1> QED BY <1>1, <1>2

\* What is left of a sequence that is not empty.
LEMMA TailIsSeq ==
  ASSUME NEW S, NEW s \in Seq(S), s # <<>>
  PROVE  Tail(s) \in Seq(S)
OBVIOUS

LEMMA NotProbing ==
  ASSUME IInv, UNCHANGED probeVars, ~ Probing'
  PROVE  ProbeType' /\ Places'
BY Split DEF ProbeType, Places, probeVars

LEMMA InitIInv == Init => IInv
<1> SUFFICES ASSUME Init PROVE IInv
  OBVIOUS
<1>1. ListType
  <2>1. ifs \in Seq(BOOLEAN) /\ list_max \in Nat /\ list_max >= 0 /\ Len(list) = 0
        /\ list \in Seq(Tuners)
    BY SezAssumption, EmptyIsSeq DEF Init
  <2> QED BY <2>1 DEF Init, ListType, ListFits
<1>2. ProbeType
  BY SezAssumption, EmptyIsSeq DEF Init, ProbeType, Lefts, Givens, Free, NoEntry, Chan
<1>3. Places
  BY DEF Init, Places, Probing
<1> QED BY <1>1, <1>2, <1>3, Split

LEMMA DiscoveryStep ==
  ASSUME IInv, Discovery
  PROVE  IInv'
<1>1. ListType
  BY Split
<1>2. ASSUME FindFails PROVE IInv'
  <2>1. /\ list' = <<>> /\ list_max' = list_max /\ pc' = "exit" /\ status' = 1
        /\ UNCHANGED <<ifs, iface_found, itemVars, probeVars>>
    BY <1>2 DEF FindFails, Exit
  <2>2. ListType'
    BY <1>1, <2>1, EmptyIsSeq DEF ListType, ListFits, itemVars
  <2> QED BY <2>1, <2>2, NotProbing, Split DEF Probing
<1>3. ASSUME tunerfind2 PROVE IInv'
  <2>1. ifs' \in Seq(BOOLEAN) /\ iface_found' \in Nat
    <3>1. ifs \in Seq(BOOLEAN) /\ ifs # <<>> /\ ifs' = Tail(ifs)
      BY <1>1, <1>3 DEF tunerfind2, ListType
    <3>2. iface_found \in Nat /\ iface_found' \in {iface_found, iface_found + 1}
      BY <1>1, <1>3, Zenon DEF tunerfind2, ListType
    <3>3. Tail(ifs) \in Seq(BOOLEAN)
      BY <3>1, TailIsSeq, Zenon
    <3> QED BY <3>1, <3>2, <3>3
  <2>2. /\ pc' \in {"find", "recv"}
        /\ UNCHANGED <<status, list, list_max, itemVars, probeVars>>
    BY <1>3 DEF tunerfind2
  <2>3. ListType'
    BY <1>1, <2>1, <2>2 DEF ListType, ListFits, itemVars
  <2> QED BY <2>2, <2>3, NotProbing, Split DEF Probing
<1>4. ASSUME NEW t \in Tuners, udp_answer(t) PROVE IInv'
  <2>1. /\ list' = Append(list, t) /\ pc' = "recv"
        /\ list_max' = IF Len(list) >= list_max THEN list_max + LIST_GROW ELSE list_max
        /\ UNCHANGED <<status, ifs, iface_found, itemVars, probeVars>>
    BY <1>4 DEF udp_answer
  <2>2. list' \in Seq(Tuners) /\ Len(list') = Len(list) + 1 /\ Len(list) \in Nat
    BY <1>1, <2>1 DEF ListType
  <2>3. list_max' \in Nat /\ Len(list') <= list_max'
    BY <1>1, <2>1, <2>2, SezAssumption DEF ListType, ListFits
  <2>4. ListType'
    BY <1>1, <2>1, <2>2, <2>3 DEF ListType, ListFits, itemVars
  <2> QED BY <2>1, <2>4, NotProbing, Split DEF Probing
<1>5. ASSUME udp_silence PROVE IInv'
  <2>1. pc' = "find" /\ UNCHANGED <<status, findVars, itemVars, probeVars>>
    BY <1>5 DEF udp_silence
  <2>2. ListType'
    BY <1>1, <2>1 DEF ListType, ListFits, itemVars, findVars
  <2> QED BY <2>1, <2>2, NotProbing, Split DEF Probing
<1>6. ASSUME Found PROVE IInv'
  <2>1. /\ pc' \in {"exit", "item"} /\ status' \in {status, 1}
        /\ UNCHANGED <<findVars, itemVars, probeVars>>
    BY <1>6 DEF Found, Exit
  <2>2. ListType'
    BY <1>1, <2>1 DEF ListType, ListFits, itemVars, findVars
  <2> QED BY <2>1, <2>2, NotProbing, Split DEF Probing
<1> QED BY <1>2, <1>3, <1>4, <1>5, <1>6 DEF Discovery

\* A step between two calls of the probe.
LEMMA StepInProbe ==
  ASSUME IInv, Look \/ Poll \/ Tune \/ LastLook \/ LastPoll
  PROVE  IInv'
<1>1. ListType
  BY Split
<1>2. ProbeType' /\ Places'
  BY LookStep, PollStep, TuneStep, LastLookStep, LastPollStep
<1>3. UNCHANGED <<status, findVars, itemVars>>
  BY DEF Look, Poll, Tune, LastLook, LastPoll
<1>4. pc' \in {"look", "poll", "tune", "last", "last_poll", "identify"}
  BY DEF Look, Poll, Tune, LastLook, LastPoll, NextSlot
<1>5. ListType'
  BY <1>1, <1>3, <1>4 DEF ListType, ListFits, itemVars, findVars
<1> QED BY <1>2, <1>5, Split

LEMMA PrepareStep ==
  ASSUME IInv, Prepare
  PROVE  IInv'
<1>1. ListType
  BY Split
<1>2. idx \in Nat \ {0} /\ opened \subseteq 1 .. idx /\ idx \in 1 .. idx
  BY <1>1 DEF ListType
<1>3. UNCHANGED <<findVars, idx>>
  BY DEF Prepare
<1>4. CASE /\ opened' \in {opened, opened \cup {idx}} /\ Exit(1)
           /\ UNCHANGED <<chlist, probeVars>>
  <2>1. ListType'
    BY <1>1, <1>2, <1>3, <1>4 DEF ListType, ListFits, findVars, Exit
  <2> QED BY <1>4, <2>1, NotProbing, Split DEF Probing, Exit
<1>5. ASSUME opened' = opened \cup {idx}, status' = status, NEW l \in ChLists, Fresh(l),
             pc' = IF l = <<>> THEN "last" ELSE "look"
      PROVE  IInv'
  <2>1. l \in Seq(Nat)
    BY SezAssumption
  <2>2. Len(l) \in Nat /\ (l = <<>> <=> Len(l) = 0)
    BY <2>1
  <2>3. ProbeType' /\ Places'
    BY <1>5, <2>2, FreshPlaces
  <2>4. chlist' = l
    BY <1>5 DEF Fresh
  <2>5. ListType'
    BY <1>1, <1>2, <1>3, <1>5, <2>4 DEF ListType, ListFits, findVars
  <2> QED BY <2>3, <2>5, Split
<1> QED BY <1>4, <1>5 DEF Prepare

LEMMA OtherStep ==
  ASSUME IInv, CallFails \/ Identify
  PROVE  IInv'
<1>1. ListType
  BY Split
<1>2. /\ pc' \in {"exit", "item"} /\ status' \in {status, 0, 1}
      /\ opened' \in {opened, opened \ {idx}} /\ idx' \in {idx, idx + 1}
      /\ UNCHANGED <<findVars, chlist, probeVars>>
  BY DEF CallFails, Identify, Exit, itemVars
<1>3. idx' \in Nat \ {0} /\ opened' \subseteq 1 .. idx'
  BY <1>1, <1>2 DEF ListType
<1>4. ListType'
  BY <1>1, <1>2, <1>3 DEF ListType, ListFits, findVars
<1> QED BY <1>2, <1>4, NotProbing, Split DEF Probing

LEMMA StepIInv == IInv /\ [Next]_vars => IInv'
<1> SUFFICES ASSUME IInv, [Next]_vars PROVE IInv'
  OBVIOUS
<1>1. CASE Next
  BY <1>1, DiscoveryStep, StepInProbe, PrepareStep, OtherStep DEF Next, do_item
<1>2. CASE UNCHANGED vars
  BY <1>2 DEF vars, findVars, itemVars, probeVars, IInv, TypeOK, ListFits, Places, Probing
<1> QED BY <1>1, <1>2

LEMMA SpecIInv == Spec => []IInv
BY InitIInv, StepIInv, PTL DEF Spec

-----------------------------------------------------------------------------
(* What follows *)

LEMMA PlacesAccount == IInv => Accounted
<1> SUFFICES ASSUME IInv PROVE Accounted
  OBVIOUS
<1>1. ASSUME Probing
      PROVE  /\ Entries = StrongEntries \cup weak \cup Working \cup ToCome
             /\ weak \cap StrongEntries = {}
             /\ Working \cap (StrongEntries \cup weak) = {}
             /\ ToCome \cap (StrongEntries \cup weak \cup Working) = {}
             /\ Busy = Chan => entry[0] # entry[1]
             /\ \A m, n \in 1 .. Len(strong) : strong[m] = strong[n] => m = n
             /\ Len(strong) <= Len(chlist)
  <2>1. Share(left, entry, strong, weak, i) /\ i <= Len(chlist) + 1
    <3>1. pc \in {"look", "poll", "tune"} \/ pc \in {"last", "last_poll", "identify"}
      BY <1>1 DEF Probing
    <3>2. /\ Share(left, entry, strong, weak, i)
          /\ pc \in {"look", "poll", "tune"} => i <= Len(chlist)
          /\ pc \in {"last", "last_poll", "identify"} => i = Len(chlist) + 1
      BY <1>1, Zenon DEF IInv, Places
    <3>3. Len(chlist) \in Nat /\ i \in Nat
      BY ListLength, ProbeTypeOK DEF ProbeType
    <3> QED BY <3>1, <3>2, <3>3
  <2>2. i \in Nat \ {0} /\ Len(chlist) \in Nat /\ Len(strong) \in Nat
    BY ListLength, ProbeTypeOK DEF ProbeType
  <2>3. \A e : e \in Entries <=> e \in 1 .. (i - 1) \/ e \in ToCome
    BY <2>1, <2>2 DEF Entries, ToCome
  <2>4. \A e \in 1 .. (i - 1) : e \notin ToCome
    BY <2>2 DEF Entries, ToCome
  <2>5. \A e : e \in Working <=> \E c \in Chan : left[c] # Free /\ entry[c] = e
    BY DEF Working, Busy
  <2>6. \A e : e \in StrongEntries <=> \E n \in 1 .. Len(strong) : strong[n] = e
    BY DEF StrongEntries
  <2>7. \A e : e \in 1 .. (i - 1) <=> e \in StrongEntries \/ e \in weak \/ e \in Working
    <3>1. \A e \in 1 .. (i - 1) : e \in StrongEntries \/ e \in weak \/ e \in Working
      BY <2>1, <2>5, <2>6, Zenon DEF Share
    <3>2. \A e \in StrongEntries : e \in 1 .. (i - 1)
      <4>1. \A n \in 1 .. Len(strong) : strong[n] \in 1 .. (i - 1)
        BY <2>1 DEF Share
      <4> QED BY <4>1 DEF StrongEntries
    <3>3. \A e \in Working : e \in 1 .. (i - 1)
      <4>1. \A c \in Chan : left[c] # Free => entry[c] \in 1 .. (i - 1)
        BY <2>1 DEF Share
      <4> QED BY <4>1 DEF Working, Busy
    <3>4. \A e \in weak : e \in 1 .. (i - 1)
      BY <2>1, Zenon DEF Share
    <3> QED BY <3>1, <3>2, <3>3, <3>4, Zenon
  <2>8. weak \cap StrongEntries = {} /\ Working \cap (StrongEntries \cup weak) = {}
    <3>1. \A n \in 1 .. Len(strong) : strong[n] \notin weak
      BY <2>1 DEF Share
    <3>2. \A c \in Chan : left[c] # Free =>
            entry[c] \notin weak /\ \A n \in 1 .. Len(strong) : strong[n] # entry[c]
      BY <2>1 DEF Share
    <3> QED BY <2>5, <2>6, <3>1, <3>2
  <2>9. Busy = Chan => entry[0] # entry[1]
    BY <2>1 DEF Busy, Chan, Share
  <2>10. Len(strong) <= Len(chlist)
    BY <2>1, <2>2 DEF Share, SlotCount
  <2>11. \A m, n \in 1 .. Len(strong) : strong[m] = strong[n] => m = n
    BY <2>1 DEF Share
  <2> QED BY <2>3, <2>4, <2>7, <2>8, <2>9, <2>10, <2>11
<1>2. ASSUME pc = "identify" PROVE Busy = {} /\ ToCome = {}
  <2>1. left = [c \in Chan |-> Free] /\ i = Len(chlist) + 1
    BY <1>2 DEF IInv, Places, Probing
  <2>2. Len(chlist) \in Nat
    BY ListLength
  <2> QED BY <2>1, <2>2 DEF Busy, ToCome, Entries
<1> QED BY <1>1, <1>2 DEF Accounted

\* Every state of the program has the types of Sez.
THEOREM SezTypeOK == Spec => []TypeOK
BY SpecIInv, PTL DEF IInv

\* The list of tuners has room for the answers that were stored, whatever the
\* number of tuners and interfaces and whatever step the list grows by.
THEOREM ListAlwaysFits == Spec => []ListFits
BY SpecIInv, PTL DEF IInv

\* Whatever the list scan() returned, and whatever locks when, each of its
\* entries is strong, weak, in a slot or to come, in exactly one of them.
THEOREM ProbeAccounts == Spec => []Accounted
BY SpecIInv, PlacesAccount, PTL

LEMMA StepGivesUpLate ==
  IInv /\ [Next]_vars =>
    [\A k \in weak' \ weak : k = entry[ch] /\ given[ch] > TUNE_TIME - MaxCall]_vars
<1> SUFFICES ASSUME IInv, Next, NEW k \in weak' \ weak
             PROVE  k = entry[ch] /\ given[ch] > TUNE_TIME - MaxCall
  OBVIOUS
<1>1. ASSUME Expired(ch), GiveUp, pc \in {"look", "last"}
      PROVE  k = entry[ch] /\ given[ch] > TUNE_TIME - MaxCall
  <2>1. Timed(left, given) /\ ProbeType
    BY <1>1, ProbeTypeOK DEF IInv, Places, Probing
  <2>2. left[ch] \in Int /\ given[ch] \in Int /\ TUNE_TIME \in Int /\ MaxCall \in Int /\ ch \in Chan
    BY <2>1, SezAssumption DEF ProbeType, Lefts, Givens, Free
  <2>3. left[ch] # Free /\ left[ch] < 0 /\ weak' = weak \cup {entry[ch]}
    BY <1>1 DEF Expired, GiveUp
  <2>4. given[ch] + left[ch] >= TUNE_TIME - MaxCall
    BY <2>1, <2>2, <2>3 DEF Timed
  <2> QED BY <2>2, <2>3, <2>4
<1>2. CASE Look
  BY <1>1, <1>2 DEF Look
<1>3. CASE LastLook
  BY <1>1, <1>3 DEF LastLook
<1>4. CASE Prepare
  BY <1>4 DEF Prepare, Fresh, probeVars
<1>5. CASE Discovery
  BY <1>5 DEF Discovery, FindFails, tunerfind2, udp_answer, udp_silence, Found, probeVars
<1>6. CASE Poll \/ Tune \/ LastPoll \/ CallFails \/ Identify
  BY <1>6 DEF Poll, Tune, LastPoll, CallFails, Identify, probeVars
<1> QED BY <1>2, <1>3, <1>4, <1>5, <1>6 DEF Next, do_item

\* However slow the calls are, a channel is given up only when its second is
\* over, less the time of the one call that cur_ms is read before.
THEOREM GivesUpLate == Spec => NotGivenUpEarly
BY SpecIInv, StepGivesUpLate, PTL DEF Spec, NotGivenUpEarly

-----------------------------------------------------------------------------
(* Given up without having been asked *)

\* A slot that was not polled since it was tuned: slot 0 is about to be, and slot 1
\* waits for slot 0, in which every channel tuned since has locked at once.
Behind ==
  Probing =>
    /\ asked \subseteq 1 .. (i - 1)
    /\ left[0] = Free => entry[0] \in asked \cup {NoEntry}
    /\ left[0] # Free /\ entry[0] \notin asked =>
         ch = 0 /\ left[0] >= 0 /\ pc \in {"look", "poll", "last", "last_poll"}
    /\ left[1] # Free /\ entry[1] \notin asked =>
         /\ (entry[1] + 1) .. (i - 1) \subseteq StrongEntries \cup {entry[0]}
         /\ entry[0] \in asked =>
              entry[0] < entry[1] \/ entry[0] \in StrongEntries \/ ch = 1

\* Two calls and the sleep between them fit in the second of a channel.
CallsFit == TUNE_TIME > 2 * MaxCall

\* What Behind needs of the slots.
LEMMA Slots ==
  ASSUME IInv, Probing
  PROVE  /\ left \in Lefts /\ entry \in [Chan -> Nat] /\ ch \in {0, 1} /\ i \in Nat \ {0}
         /\ entry[0] \in Nat /\ entry[1] \in Nat
         /\ \A c \in Chan : left[c] # Free => entry[c] \in 1 .. (i - 1)
         /\ strong \in Seq(Nat)
         /\ pc = "tune" => left[ch] = Free
         /\ pc \in {"poll", "last_poll"} => left[ch] # Free
BY ProbeTypeOK DEF IInv, Places, Share, ProbeType, Chan

\* strongch[] takes one more.
LEMMA StrongGrows ==
  ASSUME NEW e \in Nat, strong \in Seq(Nat), strong' = Append(strong, e)
  PROVE  StrongEntries' = StrongEntries \cup {e}
<1>1. /\ Len(strong') = Len(strong) + 1 /\ Len(strong) \in Nat
      /\ strong'[Len(strong) + 1] = e
      /\ \A n \in 1 .. Len(strong) : strong'[n] = strong[n]
  BY Appended
<1>2. 1 .. (Len(strong) + 1) = (1 .. Len(strong)) \cup {Len(strong) + 1}
  BY <1>1
<1> QED BY <1>1, <1>2 DEF StrongEntries

\* A slot is freed, or none, and time passes.
LEMMA FreeSlots ==
  ASSUME NEW l \in Lefts, NEW d \in Nat, Pass(l, d)
  PROVE  /\ left'[0] = Free <=> l[0] = Free
         /\ left'[1] = Free <=> l[1] = Free
BY LaterIs DEF Pass, Chan

LEMMA BehindLook ==
  ASSUME IInv, Behind, Look
  PROVE  Behind'
<1>1. Probing /\ pc = "look"
  BY DEF Look, Probing
<1>2. /\ UNCHANGED <<i, ch, entry, strong, asked>> /\ pc' \in {"tune", "poll"}
      /\ StrongEntries' = StrongEntries
  BY DEF Look, StrongEntries
<1>3. CASE left' = left /\ (pc' = "poll" \/ left[ch] = Free)
  BY <1>1, <1>2, <1>3, Slots DEF Behind, Probing
<1>4. CASE Expired(ch) /\ pc' = "tune" /\ left' = [left EXCEPT ![ch] = Free]
  <2>1. /\ left[ch] # Free /\ left[ch] < 0 /\ left'[ch] = Free
        /\ \A c \in Chan \ {ch} : left'[c] = left[c]
    BY <1>1, <1>4, Slots DEF Expired, Lefts, Chan
  <2>2. left[0] \in Int /\ left[1] \in Int /\ ch \in {0, 1}
    BY <1>1, Slots DEF Lefts, Free, Chan
  <2>3. CASE ch = 0
    <3>1. entry[0] \in asked /\ left'[0] = Free /\ left'[1] = left[1]
      BY <1>1, <2>1, <2>2, <2>3 DEF Behind, Chan
    <3> QED BY <1>1, <1>2, <1>4, <2>3, <3>1 DEF Behind, Probing
  <2>4. CASE ch = 1
    <3>1. (left[0] # Free => entry[0] \in asked) /\ left'[1] = Free /\ left'[0] = left[0]
      BY <1>1, <2>1, <2>2, <2>4 DEF Behind, Chan
    <3> QED BY <1>1, <1>2, <1>4, <2>4, <3>1 DEF Behind, Probing
  <2> QED BY <2>2, <2>3, <2>4
<1> QED BY <1>3, <1>4 DEF Look

LEMMA BehindPoll ==
  ASSUME IInv, Behind, Poll
  PROVE  Behind'
<1>1. Probing /\ pc = "poll" /\ ch \in {0, 1}
  BY Slots DEF Poll, Probing
<1>2. UNCHANGED <<i, entry>> /\ asked' = asked \cup {entry[ch]}
  BY DEF Poll
<1>3. asked' \subseteq 1 .. (i' - 1)
  BY <1>1, <1>2, Slots DEF Behind, Chan
<1>4. ASSUME NEW d \in 0 .. MaxCall, Strong(left, d), pc' = "tune", ch' = ch
      PROVE  Behind'
  <2> DEFINE l == [left EXCEPT ![ch] = Free]
  <2>1. l \in Lefts /\ l[ch] = Free /\ \A c \in Chan \ {ch} : l[c] = left[c]
    BY <1>1, Slots, SezAssumption DEF Lefts, Free, Chan
  <2>2. Pass(l, d) /\ d \in Nat /\ strong' = Append(strong, entry[ch])
    BY <1>4, SezAssumption DEF Strong
  <2> HIDE DEF l
  <2>3. (left'[0] = Free <=> l[0] = Free) /\ (left'[1] = Free <=> l[1] = Free)
    BY <2>1, <2>2, FreeSlots
  <2>4. StrongEntries' = StrongEntries \cup {entry[ch]}
    BY <1>1, <2>2, Slots, StrongGrows
  <2> QED BY <1>1, <1>2, <1>3, <1>4, <2>1, <2>3, <2>4, Slots DEF Behind, Probing, Chan
<1>5. ASSUME NEW d \in 0 .. MaxCall, pc' = "look", ch' = 1 - ch, strong' = strong,
             Pass(left, IF ch = 1 THEN d + 1 ELSE d)
      PROVE  Behind'
  <2>1. (IF ch = 1 THEN d + 1 ELSE d) \in Nat
    BY SezAssumption
  <2>2. (left'[0] = Free <=> left[0] = Free) /\ (left'[1] = Free <=> left[1] = Free)
    BY <1>1, <1>5, <2>1, Slots, FreeSlots
  <2>3. StrongEntries' = StrongEntries
    BY <1>5 DEF StrongEntries
  <2> QED BY <1>1, <1>2, <1>3, <1>5, <2>2, <2>3, Slots DEF Behind, Probing, Chan
<1> QED BY <1>4, <1>5 DEF Poll

LEMMA BehindTune ==
  ASSUME CallsFit, IInv, Behind, Tune
  PROVE  Behind'
<1>1. /\ Probing /\ pc = "tune" /\ ch \in {0, 1} /\ left[ch] = Free
      /\ i \in Nat \ {0} /\ entry \in [Chan -> Nat] /\ left \in Lefts
  BY Slots DEF Tune, Probing
<1>2. /\ asked' = asked /\ entry' = [entry EXCEPT ![ch] = i] /\ i' = i + 1 /\ ch' = 0
      /\ pc' \in {"look", "last"} /\ StrongEntries' = StrongEntries
  BY DEF Tune, StrongEntries
<1>3. entry'[ch] = i /\ \A c \in Chan \ {ch} : entry'[c] = entry[c]
  BY <1>1, <1>2 DEF Chan
<1>4. PICK d \in 0 .. MaxCall : left' = Later(Deadline(left), d + 1)
  BY DEF Tune
<1>5. age \in 0 .. MaxCall /\ TUNE_TIME \in Nat /\ MaxCall \in Nat /\ d + 1 \in Nat
  BY ProbeTypeOK, SezAssumption DEF ProbeType
<1> DEFINE l == Deadline(left)
<1>6. l \in Lefts /\ l[ch] = TUNE_TIME - age /\ \A c \in Chan \ {ch} : l[c] = left[c]
  <2>1. TUNE_TIME - age \in 0 .. TUNE_TIME /\ ch \in Chan
    BY <1>1, <1>5, SezAssumption DEF Chan
  <2>2. l \in Lefts
    BY <1>1, <1>5, <2>1 DEF Deadline, Lefts, Free
  <2>3. l[ch] = TUNE_TIME - age /\ \A c \in Chan \ {ch} : l[c] = left[c]
    BY <1>1, <2>1 DEF Deadline, Lefts
  <2> QED BY <2>2, <2>3
<1> HIDE DEF l
<1>7. /\ left'[ch] >= 0 /\ left'[ch] # Free
      /\ \A c \in Chan \ {ch} : left'[c] = Free <=> left[c] = Free
  <2>1. left' = Later(l, d + 1)
    BY <1>4 DEF l
  <2>2. TUNE_TIME - age - (d + 1) >= 0
    BY <1>5 DEF CallsFit
  <2>3. left'[ch] = TUNE_TIME - age - (d + 1)
    <3>1. ~ (l[ch] = -2) /\ ~ (l[ch] - (d + 1) < -1)
      BY <1>5, <1>6, <2>2
    <3>2. ch \in Chan
      BY <1>1 DEF Chan
    <3> QED BY <1>6, <2>1, <3>1, <3>2 DEF Later, Free
  <2>4. \A c \in Chan : left'[c] = Free <=> l[c] = Free
    BY <1>5, <1>6, <2>1, LaterIs
  <2> QED BY <1>6, <2>2, <2>3, <2>4 DEF Free
<1>8. /\ asked \subseteq 1 .. (i - 1) /\ i \notin asked /\ asked \subseteq 1 .. (i' - 1)
      /\ \A e \in asked : e < i
  BY <1>1, <1>2 DEF Behind
<1>9. CASE ch = 0
  <2>1. left[1] # Free /\ entry[1] \notin asked =>
          (entry[1] + 1) .. i \subseteq StrongEntries \cup {i}
    <3> SUFFICES ASSUME left[1] # Free, entry[1] \notin asked, NEW k \in (entry[1] + 1) .. i,
                        k # i
                 PROVE  k \in StrongEntries
      OBVIOUS
    <3>1. entry[1] \in 1 .. (i - 1) /\ entry[0] \in Nat
      BY <1>1, Slots DEF Chan
    <3>2. k \in StrongEntries \cup {entry[0]}
      BY <1>1, <3>1 DEF Behind
    <3>3. entry[0] = 0 \/ entry[0] < entry[1] \/ entry[0] \in StrongEntries
      BY <1>1, <1>9 DEF Behind, NoEntry
    <3> QED BY <3>1, <3>2, <3>3
  <2> QED BY <1>1, <1>2, <1>3, <1>7, <1>8, <1>9, <2>1 DEF Behind, Probing, Chan
<1>10. CASE ch = 1
  <2>1. (i + 1) .. (i' - 1) = {}
    BY <1>1, <1>2
  <2> QED BY <1>1, <1>2, <1>3, <1>7, <1>8, <1>10, <2>1 DEF Behind, Probing, Chan
<1> QED BY <1>1, <1>9, <1>10

\* The turn of the last loop ends.
LEMMA BehindNextSlot ==
  ASSUME IInv, Behind, pc \in {"last", "last_poll"}, UNCHANGED <<i, entry>>,
         NEW l \in Lefts, NEW d \in Nat, NEW busy, NextSlot(busy, l, d),
         \A c \in Chan \ {ch} : l[c] = left[c],
         asked' \subseteq 1 .. (i - 1), asked \subseteq asked',
         StrongEntries \subseteq StrongEntries',
         left[ch] # Free => entry[ch] \in asked' \/ (ch = 1 /\ l[ch] = Free),
         left[ch] = Free => l[ch] = Free
  PROVE  Behind'
<1>1. Probing /\ ch \in {0, 1}
  BY Slots DEF Probing
<1>2. /\ ch' = 1 - ch /\ pc' \in {"last", "identify"}
      /\ \E t \in Nat : Pass(l, t)
  BY <1>1 DEF NextSlot
<1>3. (left'[0] = Free <=> l[0] = Free) /\ (left'[1] = Free <=> l[1] = Free)
  BY <1>2, FreeSlots
<1>4. CASE ch = 0
  BY <1>1, <1>2, <1>3, <1>4, Slots DEF Behind, Probing, Chan
<1>5. CASE ch = 1
  BY <1>1, <1>2, <1>3, <1>5, Slots DEF Behind, Probing, Chan
<1> QED BY <1>1, <1>4, <1>5

LEMMA BehindLastLook ==
  ASSUME IInv, Behind, LastLook
  PROVE  Behind'
<1>1. Probing /\ pc = "last" /\ ch \in {0, 1} /\ left \in Lefts
  BY Slots DEF LastLook, Probing
<1>2. UNCHANGED <<i, entry, asked>> /\ StrongEntries' = StrongEntries /\ 0 \in Nat
  BY DEF LastLook, StrongEntries
<1>3. asked \subseteq 1 .. (i - 1)
  BY <1>1 DEF Behind
<1>4. CASE left[ch] = Free /\ NextSlot(count, left, 0)
  BY <1>1, <1>2, <1>3, <1>4, BehindNextSlot
<1>5. CASE Expired(ch) /\ NextSlot(count, [left EXCEPT ![ch] = Free], 0)
  <2> DEFINE l == [left EXCEPT ![ch] = Free]
  <2>1. l \in Lefts /\ l[ch] = Free /\ \A c \in Chan \ {ch} : l[c] = left[c]
    BY <1>1, SezAssumption DEF Lefts, Free, Chan
  <2>2. NextSlot(count, l, 0)
    BY <1>5
  <2>3. left[ch] # Free /\ left[ch] < 0
    BY <1>5 DEF Expired
  <2>4. ch = 0 => entry[ch] \in asked
    <3>1. left[0] \in Int
      BY <1>1 DEF Lefts, Free, Chan
    <3> QED BY <1>1, <2>3, <3>1 DEF Behind
  <2> HIDE DEF l
  <2> QED BY <1>1, <1>2, <1>3, <2>1, <2>2, <2>3, <2>4, BehindNextSlot
<1>6. CASE left[ch] # Free /\ pc' = "last_poll" /\ UNCHANGED <<ch, left>>
  BY <1>1, <1>2, <1>6, Slots DEF Behind, Probing
<1> QED BY <1>4, <1>5, <1>6 DEF LastLook

LEMMA BehindLastPoll ==
  ASSUME IInv, Behind, LastPoll
  PROVE  Behind'
<1>1. Probing /\ pc = "last_poll" /\ ch \in {0, 1} /\ left \in Lefts /\ left[ch] # Free
  BY Slots DEF LastPoll, Probing
<1>2. UNCHANGED <<i, entry>> /\ asked' = asked \cup {entry[ch]}
  BY DEF LastPoll
<1>3. asked' \subseteq 1 .. (i - 1) /\ asked \subseteq asked' /\ entry[ch] \in asked'
  BY <1>1, <1>2, Slots DEF Behind, Chan
<1>4. ASSUME NEW d \in 0 .. MaxCall, strong' = Append(strong, entry[ch]),
             NextSlot(count, [left EXCEPT ![ch] = Free], d)
      PROVE  Behind'
  <2> DEFINE l == [left EXCEPT ![ch] = Free]
  <2>1. l \in Lefts /\ l[ch] = Free /\ \A c \in Chan \ {ch} : l[c] = left[c]
    BY <1>1, SezAssumption DEF Lefts, Free, Chan
  <2>2. NextSlot(count, l, d) /\ d \in Nat
    BY <1>4, SezAssumption
  <2> HIDE DEF l
  <2>3. StrongEntries \subseteq StrongEntries'
    BY <1>1, <1>4, Slots, StrongGrows
  <2> QED BY <1>1, <1>2, <1>3, <2>1, <2>2, <2>3, BehindNextSlot
<1>5. ASSUME NEW d \in 0 .. MaxCall, strong' = strong, NextSlot(count + 1, left, d)
      PROVE  Behind'
  <2> DEFINE busy == count + 1
             l == left
  <2>1. /\ StrongEntries \subseteq StrongEntries' /\ d \in Nat /\ NextSlot(busy, l, d)
        /\ l \in Lefts /\ l[ch] # Free /\ \A c \in Chan \ {ch} : l[c] = left[c]
    BY <1>1, <1>5, SezAssumption DEF StrongEntries
  <2> HIDE DEF busy, l
  <2>2. /\ left[ch] # Free => entry[ch] \in asked' \/ (ch = 1 /\ l[ch] = Free)
        /\ left[ch] = Free => l[ch] = Free
    BY <1>1, <1>3
  <2>3. pc \in {"last", "last_poll"}
    BY <1>1
  <2> QED BY <1>2, <1>3, <2>1, <2>2, <2>3, BehindNextSlot
<1> QED BY <1>4, <1>5 DEF LastPoll

LEMMA StepBehind ==
  ASSUME CallsFit, IInv, Behind, [Next]_vars
  PROVE  Behind'
<1>1. CASE Look \/ Poll \/ Tune \/ LastLook \/ LastPoll
  BY <1>1, BehindLook, BehindPoll, BehindTune, BehindLastLook, BehindLastPoll
<1>2. CASE Prepare
  <2>1. CASE Exit(1)
    BY <2>1 DEF Exit, Behind, Probing
  <2>2. CASE \E l \in ChLists : Fresh(l)
    <3>1. /\ left'[0] = Free /\ left'[1] = Free /\ entry'[0] = NoEntry
          /\ asked' = {} /\ i' = 1
      BY <2>2 DEF Fresh, Chan
    <3> QED BY <3>1 DEF Behind
  <2> QED BY <1>2, <2>1, <2>2 DEF Prepare
<1>3. CASE Discovery \/ CallFails \/ Identify
  <2>1. pc' \notin {"look", "poll", "tune", "last", "last_poll", "identify"}
    BY <1>3 DEF Discovery, FindFails, tunerfind2, udp_answer, udp_silence, Found, CallFails,
                Identify, Exit
  <2> QED BY <2>1 DEF Behind, Probing
<1>4. CASE UNCHANGED vars
  BY <1>4 DEF vars, probeVars, Behind, Probing, StrongEntries
<1> QED BY <1>1, <1>2, <1>3, <1>4 DEF Next, do_item

LEMMA StepUnasked ==
  ASSUME IInv, Behind, [Next]_vars
  PROVE  [\A k \in weak' \ weak :
            k \in asked
              \/ (ch = 1 /\ (k + 1) .. (i - 1) \subseteq StrongEntries \cup {entry[0]})]_vars
<1> SUFFICES ASSUME Next, NEW k \in weak' \ weak, k \notin asked
             PROVE  ch = 1 /\ (k + 1) .. (i - 1) \subseteq StrongEntries \cup {entry[0]}
  OBVIOUS
<1>1. ASSUME Expired(ch), GiveUp, pc \in {"look", "last"}
      PROVE  ch = 1 /\ (k + 1) .. (i - 1) \subseteq StrongEntries \cup {entry[0]}
  <2>1. Probing /\ ch \in {0, 1} /\ left \in Lefts
    BY <1>1, Slots DEF Probing
  <2>2. left[ch] # Free /\ left[ch] < 0 /\ k = entry[ch]
    BY <1>1 DEF Expired, GiveUp
  <2>3. ch # 0
    BY <2>1, <2>2 DEF Behind, Lefts, Chan
  <2> QED BY <2>1, <2>2, <2>3 DEF Behind
<1>2. CASE Look
  BY <1>1, <1>2 DEF Look
<1>3. CASE LastLook
  BY <1>1, <1>3 DEF LastLook
<1>4. CASE Prepare
  BY <1>4 DEF Prepare, Fresh, probeVars
<1>5. CASE Discovery
  BY <1>5 DEF Discovery, FindFails, tunerfind2, udp_answer, udp_silence, Found, probeVars
<1>6. CASE Poll \/ Tune \/ LastPoll \/ CallFails \/ Identify
  BY <1>6 DEF Poll, Tune, LastPoll, CallFails, Identify, probeVars
<1> QED BY <1>2, <1>3, <1>4, <1>5, <1>6 DEF Next, do_item

\* As long as two calls and the sleep between them fit in the second of a channel,
\* only slot 1 is given up without having been asked, and only as long as slot 0
\* locks at each first poll, for every list and whatever locks.
THEOREM UnaskedBehind ==
  ASSUME CallsFit
  PROVE  Spec => UnaskedOnlyBehind
<1>1. Init => Behind
  BY DEF Init, Behind, Probing
<1>2. IInv /\ Behind /\ [Next]_vars => Behind'
  BY StepBehind
<1>3. IInv /\ Behind /\ [Next]_vars =>
        [\A k \in weak' \ weak :
            k \in asked
              \/ (ch = 1 /\ (k + 1) .. (i - 1) \subseteq StrongEntries \cup {entry[0]})]_vars
  BY StepUnasked
<1> QED BY <1>1, <1>2, <1>3, SpecIInv, PTL DEF Spec, UnaskedOnlyBehind

-----------------------------------------------------------------------------
(* The probe ends *)

Loops == {"look", "poll", "tune", "last", "last_poll"}

\* What is left until the deadlines l when slot c is looked at.  Slot 0 was within
\* its second when it was polled, and counts as if it still were until the sleep.
Rest(l, c) == (IF c = 1 /\ l[0] = -1 THEN 0 ELSE l[0]) + l[1] + 4

\* The steps of the loops that may come before the next entry is tuned.
TurnsLeft ==
  4 * Rest(left, ch) + (CASE pc \in {"look", "last"}      -> 4 - 2 * ch
                          [] pc \in {"poll", "last_poll"} -> 3 - 2 * ch
                          [] OTHER                        -> 0)

Span == 8 * TUNE_TIME + 21

StepsLeft == IF pc \in Loops THEN (Len(chlist) + 1 - i) * Span + TurnsLeft ELSE 0

\* Neither loop has a bound of its own (main.cpp 273 and 329): the first goes
\* round until a slot is free, the second until both are.  Each step of the probe
\* takes it nearer to its end.
ProbeAdvances == [][pc \notin Loops \/ StepsLeft' \in 0 .. (StepsLeft - 1)]_vars

\* A slot is polled within its second, and one that counts as busy is.
Polled ==
  /\ pc \in {"poll", "last_poll"} => left[ch] >= 0
  /\ pc \in {"last", "last_poll"} /\ count # 0 => left[0] # Free

LEMMA LaterFalls ==
  ASSUME NEW l \in Lefts, NEW d \in Nat, NEW c \in Chan
  PROVE  /\ l[c] \in -2 .. TUNE_TIME /\ Later(l, d)[c] \in -2 .. TUNE_TIME
         /\ l[c] = -2 => Later(l, d)[c] = -2
         /\ l[c] # -2 => Later(l, d)[c] >= -1 /\ Later(l, d)[c] <= l[c]
         /\ l[c] >= 0 /\ d >= 1 => Later(l, d)[c] <= l[c] - 1
<1>1. l[c] \in -2 .. TUNE_TIME /\ TUNE_TIME \in Nat
  BY SezAssumption DEF Lefts, Free
<1>2. Later(l, d)[c] = IF l[c] = -2 THEN -2 ELSE IF l[c] - d < -1 THEN -1 ELSE l[c] - d
  BY DEF Later, Free
<1> QED BY <1>1, <1>2

LEMMA RestIs ==
  ASSUME NEW l \in Lefts, NEW c \in Chan
  PROVE  /\ Rest(l, c) \in 0 .. (2 * TUNE_TIME + 4)
         /\ l[0] \in -2 .. TUNE_TIME /\ l[1] \in -2 .. TUNE_TIME
<1>1. l[0] \in -2 .. TUNE_TIME /\ l[1] \in -2 .. TUNE_TIME /\ TUNE_TIME \in Nat
  BY SezAssumption DEF Lefts, Free, Chan
<1> QED BY <1>1 DEF Rest

LEMMA RestNat ==
  ASSUME NEW l \in Lefts, NEW c \in Chan
  PROVE  Rest(l, c) \in Nat
<1>1. Rest(l, c) \in 0 .. (2 * TUNE_TIME + 4)
  BY RestIs
<1>2. TUNE_TIME \in Nat
  BY SezAssumption
<1> QED BY <1>1, <1>2

\* The deadlines after a step.
LEMMA RestAfter ==
  ASSUME ProbeType', NEW c \in Chan
  PROVE  Rest(left', c) \in Nat
<1>1. left' \in Lefts
  BY DEF ProbeType
<1> QED BY <1>1, RestNat

LEMMA TurnsType ==
  ASSUME ProbeType, pc \in Loops
  PROVE  /\ TurnsLeft \in Nat /\ TurnsLeft <= 8 * TUNE_TIME + 20
         /\ pc # "tune" => TurnsLeft >= 1
<1>1. Rest(left, ch) \in 0 .. (2 * TUNE_TIME + 4) /\ ch \in {0, 1} /\ TUNE_TIME \in Nat
  <2>1. ch \in Chan /\ left \in Lefts
    BY DEF ProbeType
  <2>2. Rest(left, ch) \in 0 .. (2 * TUNE_TIME + 4)
    BY <2>1, RestIs
  <2> QED BY <2>1, <2>2, SezAssumption DEF Chan
<1>2. CASE pc \in {"look", "last"}
  BY <1>1, <1>2 DEF TurnsLeft
<1>3. CASE pc \in {"poll", "last_poll"}
  BY <1>1, <1>3 DEF TurnsLeft
<1>4. CASE pc = "tune"
  BY <1>1, <1>4 DEF TurnsLeft
<1> QED BY <1>2, <1>3, <1>4 DEF Loops

LEMMA Multiple ==
  ASSUME NEW n \in Nat, NEW k \in Nat
  PROVE  n * k \in Nat /\ (n >= 1 => n * k >= k) /\ (n >= 1 => (n - 1) * k + k = n * k)
OBVIOUS

LEMMA OneEntryLess ==
  ASSUME NEW n \in Nat \ {0}, NEW k \in Nat, NEW t \in Nat, NEW u \in Nat, u < k
  PROVE  (n - 1) * k + u \in 0 .. (n * k + t - 1)
<1>1. n - 1 \in Nat /\ n \in Nat
  OBVIOUS
<1>2. (n - 1) * k \in Nat
  BY <1>1, Multiple
<1>3. n * k = (n - 1) * k + k
  BY <1>1, Multiple
<1> DEFINE m == (n - 1) * k
<1> HIDE DEF m
<1>4. m \in Nat /\ n * k = m + k
  BY <1>2, <1>3 DEF m
<1>5. m + u \in 0 .. (m + k + t - 1)
  BY <1>4
<1> QED BY <1>4, <1>5 DEF m

\* The entries still to be tuned, in the steps they may take.
LEMMA EntriesLeft ==
  ASSUME IInv, pc \in Loops
  PROVE  /\ ProbeType /\ Span \in Nat /\ Span = 8 * TUNE_TIME + 21
         /\ Len(chlist) + 1 - i \in Nat
         /\ (Len(chlist) + 1 - i) * Span \in Nat
         /\ pc \in {"look", "poll", "tune"} =>
              Len(chlist) + 1 - i >= 1 /\ (Len(chlist) + 1 - i) * Span >= Span
<1>1. ProbeType /\ i \in Nat \ {0} /\ Len(chlist) \in Nat
  BY ProbeTypeOK, ListLength DEF ProbeType
<1>2. Span \in Nat /\ Span = 8 * TUNE_TIME + 21
  BY SezAssumption DEF Span
<1>3. /\ i <= Len(chlist) + 1
      /\ pc \in {"look", "poll", "tune"} => i <= Len(chlist)
  BY <1>1 DEF IInv, Places, Probing, Loops
<1>4. /\ Len(chlist) + 1 - i \in Nat
      /\ pc \in {"look", "poll", "tune"} => Len(chlist) + 1 - i >= 1
  BY <1>1, <1>3
<1> QED BY <1>1, <1>2, <1>4, Multiple

\* A step within a loop.
LEMMA TurnAdvances ==
  ASSUME IInv, pc \in Loops, pc' \in Loops, ProbeType', i' = i, chlist' = chlist,
         TurnsLeft' < TurnsLeft
  PROVE  StepsLeft' \in 0 .. (StepsLeft - 1)
<1>1. /\ (Len(chlist) + 1 - i) * Span \in Nat /\ TurnsLeft \in Nat
  BY EntriesLeft, TurnsType
<1>2. TurnsLeft' \in Nat
  <2>1. ch' \in Chan
    BY DEF ProbeType
  <2>2. Rest(left', ch') \in Nat
    BY <2>1, RestAfter
  <2> QED BY <2>1, <2>2 DEF TurnsLeft, Chan
<1>3. StepsLeft = (Len(chlist) + 1 - i) * Span + TurnsLeft
  BY DEF StepsLeft
<1>4. StepsLeft' = (Len(chlist) + 1 - i) * Span + TurnsLeft'
  BY DEF StepsLeft, Span
<1> HIDE DEF TurnsLeft, StepsLeft
<1> QED BY <1>1, <1>2, <1>3, <1>4

\* A step out of the loops.
LEMMA LeavesLoops ==
  ASSUME IInv, pc \in Loops, pc' \notin Loops
  PROVE  StepsLeft' \in 0 .. (StepsLeft - 1)
<1>1. /\ (Len(chlist) + 1 - i) * Span \in Nat /\ TurnsLeft \in Nat /\ Span >= 1
      /\ pc = "tune" => (Len(chlist) + 1 - i) * Span >= Span
      /\ pc # "tune" => TurnsLeft >= 1
  BY EntriesLeft, TurnsType, SezAssumption
<1>2. StepsLeft = (Len(chlist) + 1 - i) * Span + TurnsLeft /\ StepsLeft' = 0
  BY DEF StepsLeft
<1>3. Span \in Nat
  BY EntriesLeft
<1> HIDE DEF TurnsLeft, StepsLeft, Span
<1> QED BY <1>1, <1>2, <1>3

\* A slot is freed, with or without time passing.
LEMMA RestFreed ==
  ASSUME NEW l \in Lefts, NEW c \in Chan, l[c] # Free,
         NEW d \in Nat
  PROVE  Rest(Later([l EXCEPT ![c] = Free], d), c) < Rest(l, c)
<1> DEFINE f == [l EXCEPT ![c] = Free]
<1>1. f \in Lefts /\ f[c] = -2 /\ \A e \in Chan \ {c} : f[e] = l[e]
  BY SezAssumption DEF Lefts, Free
<1> HIDE DEF f
<1>2. /\ Later(f, d)[c] = -2
      /\ \A e \in Chan \ {c} : /\ l[e] = -2 => Later(f, d)[e] = -2
                               /\ l[e] # -2 => Later(f, d)[e] >= -1 /\ Later(f, d)[e] <= l[e]
                               /\ Later(f, d)[e] \in -2 .. TUNE_TIME
  BY <1>1, LaterFalls
<1>3. l[0] \in -2 .. TUNE_TIME /\ l[1] \in -2 .. TUNE_TIME /\ TUNE_TIME \in Nat /\ l[c] # -2
  BY RestIs, SezAssumption DEF Free
<1>4. CASE c = 0
  <2>1. Later(f, d)[1] <= l[1] /\ Later(f, d)[0] = -2
    BY <1>2, <1>3, <1>4 DEF Chan
  <2>2. Later(f, d)[1] \in -2 .. TUNE_TIME
    BY <1>2, <1>4 DEF Chan
  <2> QED BY <1>3, <1>4, <2>1, <2>2 DEF Rest, f
<1>5. CASE c = 1
  <2>1. /\ Later(f, d)[1] = -2
        /\ l[0] = -2 => Later(f, d)[0] = -2
        /\ l[0] # -2 => Later(f, d)[0] >= -1 /\ Later(f, d)[0] <= l[0]
        /\ Later(f, d)[0] \in -2 .. TUNE_TIME
    BY <1>2, <1>5 DEF Chan
  <2> QED BY <1>3, <1>5, <2>1 DEF Rest, f
<1> QED BY <1>4, <1>5 DEF Chan

LEMMA LaterNow ==
  ASSUME NEW l \in Lefts
  PROVE  Later(l, 0) = l
<1>1. \A c \in Chan : Later(l, 0)[c] = l[c]
  BY SezAssumption DEF Later, Lefts, Free
<1>2. Later(l, 0) = [c \in Chan |-> Later(l, 0)[c]]
  BY DEF Later
<1> QED BY <1>1, <1>2 DEF Lefts

\* From slot 0 to slot 1.
LEMMA RestNext ==
  ASSUME NEW l \in Lefts, l[0] >= 0 \/ l[0] = -2, NEW d \in Nat
  PROVE  Rest(Later(l, d), 1) <= Rest(l, 0)
<1>1. /\ l[0] \in -2 .. TUNE_TIME /\ l[1] \in -2 .. TUNE_TIME /\ TUNE_TIME \in Nat
  BY RestIs, SezAssumption DEF Chan
<1>2. /\ Later(l, d)[1] \in -2 .. TUNE_TIME /\ Later(l, d)[1] <= l[1]
      /\ l[0] = -2 => Later(l, d)[0] = -2
      /\ l[0] # -2 => Later(l, d)[0] >= -1 /\ Later(l, d)[0] <= l[0]
      /\ Later(l, d)[0] \in -2 .. TUNE_TIME
  BY <1>1, LaterFalls DEF Chan
<1> QED BY <1>1, <1>2 DEF Rest

\* The sleep after slot 1.
LEMMA RestSleeps ==
  ASSUME NEW l \in Lefts, NEW d \in Nat, d >= 1, l[1] >= 0 \/ l[0] # Free
  PROVE  Rest(Later(l, d), 0) < Rest(l, 1)
<1>1. /\ l[0] \in -2 .. TUNE_TIME /\ l[1] \in -2 .. TUNE_TIME /\ TUNE_TIME \in Nat
      /\ l[1] >= 0 \/ l[0] # -2
  BY RestIs, SezAssumption DEF Chan, Free
<1>2. ASSUME NEW c \in Chan
      PROVE  /\ Later(l, d)[c] \in -2 .. TUNE_TIME /\ Later(l, d)[c] <= l[c]
             /\ l[c] >= 0 => Later(l, d)[c] <= l[c] - 1
  BY <1>1, LaterFalls DEF Chan
<1>3. /\ Later(l, d)[0] \in -2 .. TUNE_TIME /\ Later(l, d)[0] <= l[0]
      /\ l[0] >= 0 => Later(l, d)[0] <= l[0] - 1
      /\ Later(l, d)[1] \in -2 .. TUNE_TIME /\ Later(l, d)[1] <= l[1]
      /\ l[1] >= 0 => Later(l, d)[1] <= l[1] - 1
  BY <1>2 DEF Chan
<1> QED BY <1>1, <1>3 DEF Rest

\* The turn of the last loop ends, with the slots as l.
LEMMA NextSlotAdvances ==
  ASSUME IInv, pc \in {"last", "last_poll"}, ProbeType', UNCHANGED <<i, chlist>>,
         NEW l \in Lefts, Rest(l, ch) <= Rest(left, ch),
         NEW d \in Nat, NEW busy \in Nat, NextSlot(busy, l, d),
         ch = 0 => l[0] >= 0 \/ l[0] = Free,
         ch = 1 /\ busy # 0 => l[1] >= 0 \/ l[0] # Free
  PROVE  StepsLeft' \in 0 .. (StepsLeft - 1)
<1>1. ch \in {0, 1} /\ left \in Lefts /\ Rest(l, ch) \in Nat /\ Rest(left, ch) \in Nat
  <2>1. ch \in Chan /\ left \in Lefts
    BY ProbeTypeOK DEF ProbeType
  <2>2. Rest(l, ch) \in Nat /\ Rest(left, ch) \in Nat
    BY <2>1, RestNat
  <2> QED BY <2>1, <2>2 DEF Chan
<1>2. TurnsLeft \in {4 * Rest(left, ch) + 4 - 2 * ch, 4 * Rest(left, ch) + 3 - 2 * ch}
  BY <1>1 DEF TurnsLeft
<1>3. ASSUME pc' = "last", ch' \in {0, 1},
             4 * Rest(left', ch') + 4 - 2 * ch' < 4 * Rest(left, ch) + 3 - 2 * ch
      PROVE  StepsLeft' \in 0 .. (StepsLeft - 1)
  <2>1. Rest(left', ch') \in Nat
    BY <1>3, RestAfter DEF Chan
  <2>2. TurnsLeft' = 4 * Rest(left', ch') + 4 - 2 * ch'
    BY <1>3, <2>1 DEF TurnsLeft
  <2>3. TurnsLeft' < TurnsLeft
    BY <1>1, <1>2, <1>3, <2>1, <2>2
  <2> QED BY <1>3, <2>3, TurnAdvances DEF Loops
<1>4. CASE ch = 0
  <2>1. ch' = 1 /\ pc' = "last" /\ left' = Later(l, d)
    BY <1>4 DEF NextSlot, Pass
  <2>2. Rest(left', 1) <= Rest(l, 0)
    BY <1>4, <2>1, RestNext DEF Free
  <2>3. Rest(left', 1) \in Nat
    BY RestAfter DEF Chan
  <2>4. 4 * Rest(left', ch') + 4 - 2 * ch' < 4 * Rest(left, ch) + 3 - 2 * ch
    BY <1>1, <1>4, <2>1, <2>2, <2>3
  <2> QED BY <1>3, <2>1, <2>4
<1>5. CASE ch = 1 /\ busy = 0
  <2>1. pc' = "identify"
    BY <1>5 DEF NextSlot
  <2> QED BY <2>1, LeavesLoops DEF Loops
<1>6. CASE ch = 1 /\ busy # 0
  <2>1. ch' = 0 /\ pc' = "last" /\ left' = Later(l, d + 1)
    BY <1>6 DEF NextSlot, Pass
  <2>2. d + 1 \in Nat /\ d + 1 >= 1
    OBVIOUS
  <2>3. Rest(left', 0) < Rest(l, 1)
    BY <1>6, <2>1, <2>2, RestSleeps
  <2>4. Rest(left', 0) \in Nat
    BY RestAfter DEF Chan
  <2>5. 4 * Rest(left', ch') + 4 - 2 * ch' < 4 * Rest(left, ch) + 3 - 2 * ch
    BY <1>1, <1>6, <2>1, <2>3, <2>4
  <2> QED BY <1>3, <2>1, <2>5
<1> QED BY <1>1, <1>4, <1>5, <1>6

LEMMA Freed ==
  ASSUME left \in Lefts, ch \in Chan, left[ch] # Free
  PROVE  LET l == [left EXCEPT ![ch] = Free]
         IN /\ l \in Lefts /\ l[ch] = Free /\ \A c \in Chan \ {ch} : l[c] = left[c]
            /\ Rest(l, ch) < Rest(left, ch)
<1> DEFINE l == [left EXCEPT ![ch] = Free]
<1>1. l \in Lefts /\ l[ch] = Free /\ \A c \in Chan \ {ch} : l[c] = left[c]
  BY SezAssumption DEF Lefts, Free
<1>2. Rest(Later(l, 0), ch) < Rest(left, ch)
  BY RestFreed
<1> HIDE DEF l
<1>3. Later(l, 0) = l
  BY <1>1, LaterNow
<1> QED BY <1>1, <1>2, <1>3 DEF l

LEMMA LookAdvances ==
  ASSUME IInv, Look
  PROVE  StepsLeft' \in 0 .. (StepsLeft - 1)
<1>1. /\ ProbeType' /\ ch \in Chan /\ left \in Lefts /\ Rest(left, ch) \in Nat
      /\ pc = "look" /\ ch' = ch /\ i' = i /\ chlist' = chlist /\ pc' \in {"tune", "poll"}
  BY LookStep, ProbeTypeOK, RestNat DEF Look, itemVars, ProbeType
<1>2. ch \in {0, 1}
  BY <1>1 DEF Chan
<1>3. TurnsLeft = 4 * Rest(left, ch) + 4 - 2 * ch
  BY <1>1, <1>2 DEF TurnsLeft
<1>4. left' = left \/ (left[ch] # Free /\ pc' = "tune" /\ left' = [left EXCEPT ![ch] = Free])
  BY DEF Look, Expired
<1>5. Rest(left', ch') <= Rest(left, ch) /\ Rest(left', ch') \in Nat
  <2>1. CASE left' = left
    BY <1>1, <2>1
  <2>2. CASE left[ch] # Free /\ left' = [left EXCEPT ![ch] = Free]
    <3>1. left' \in Lefts /\ Rest(left', ch) < Rest(left, ch)
      BY <1>1, <2>2, Freed
    <3>2. Rest(left', ch) \in Nat
      BY <1>1, <3>1, RestNat
    <3> QED BY <1>1, <3>1, <3>2
  <2> QED BY <1>4, <2>1, <2>2
<1>6. TurnsLeft' <= 4 * Rest(left', ch') + 3 - 2 * ch
  BY <1>1, <1>2, <1>5 DEF TurnsLeft
<1>7. TurnsLeft' < TurnsLeft
  <2>1. TurnsLeft' \in Int
    BY <1>1, <1>2, <1>5 DEF TurnsLeft
  <2> QED BY <1>1, <1>2, <1>3, <1>5, <1>6, <2>1
<1> QED BY <1>1, <1>7, TurnAdvances DEF Loops

LEMMA PollAdvances ==
  ASSUME IInv, Polled, Poll
  PROVE  StepsLeft' \in 0 .. (StepsLeft - 1)
<1>1. /\ ProbeType' /\ ch \in Chan /\ left \in Lefts /\ Rest(left, ch) \in Nat
      /\ pc = "poll" /\ i' = i /\ chlist' = chlist /\ left[ch] >= 0
  BY PollStep, ProbeTypeOK, RestNat DEF Poll, itemVars, ProbeType, Polled
<1>2. ch \in {0, 1} /\ left[ch] # Free
  BY <1>1 DEF Chan, Free
<1>3. TurnsLeft = 4 * Rest(left, ch) + 3 - 2 * ch
  BY <1>1, <1>2 DEF TurnsLeft
<1>4. ASSUME NEW d \in 0 .. MaxCall, Strong(left, d), pc' = "tune", ch' = ch
      PROVE  StepsLeft' \in 0 .. (StepsLeft - 1)
  <2>1. left' = Later([left EXCEPT ![ch] = Free], d) /\ d \in Nat
    BY <1>4, SezAssumption DEF Strong, Pass
  <2>2. Rest(left', ch) < Rest(left, ch)
    BY <1>1, <1>2, <2>1, RestFreed
  <2>3. TurnsLeft' = 4 * Rest(left', ch) /\ Rest(left', ch) \in Nat
    <3>1. Rest(left', ch) \in Nat
      BY <1>1, RestAfter
    <3> QED BY <1>4, <3>1 DEF TurnsLeft
  <2>4. TurnsLeft' < TurnsLeft
    BY <1>1, <1>2, <1>3, <2>2, <2>3
  <2> QED BY <1>1, <1>4, <2>4, TurnAdvances DEF Loops
<1>5. ASSUME NEW d \in 0 .. MaxCall, pc' = "look", ch' = 1 - ch,
             Pass(left, IF ch = 1 THEN d + 1 ELSE d)
      PROVE  StepsLeft' \in 0 .. (StepsLeft - 1)
  <2>1. d \in Nat /\ d + 1 \in Nat /\ d + 1 >= 1 /\ ch' \in {0, 1}
    BY <1>2, <1>5, SezAssumption
  <2>2. TurnsLeft' = 4 * Rest(left', ch') + 4 - 2 * ch' /\ Rest(left', ch') \in Nat
    <3>1. Rest(left', ch') \in Nat
      BY <1>1, <2>1, RestAfter DEF Chan
    <3> QED BY <1>5, <2>1, <3>1 DEF TurnsLeft
  <2>3. CASE ch = 0
    <3>1. Rest(left', 1) <= Rest(left, 0)
      BY <1>1, <1>5, <2>1, <2>3, RestNext DEF Pass
    <3>2. TurnsLeft' < TurnsLeft
      BY <1>1, <1>3, <1>5, <2>2, <2>3, <3>1
    <3> QED BY <1>1, <1>5, <3>2, TurnAdvances DEF Loops
  <2>4. CASE ch = 1
    <3>1. Rest(left', 0) < Rest(left, 1)
      BY <1>1, <1>5, <2>1, <2>4, RestSleeps DEF Pass
    <3>2. TurnsLeft' < TurnsLeft
      BY <1>1, <1>3, <1>5, <2>2, <2>4, <3>1
    <3> QED BY <1>1, <1>5, <3>2, TurnAdvances DEF Loops
  <2> QED BY <1>2, <2>3, <2>4
<1> QED BY <1>4, <1>5 DEF Poll

LEMMA TuneAdvances ==
  ASSUME IInv, Tune
  PROVE  StepsLeft' \in 0 .. (StepsLeft - 1)
<1>0. PICK n : n = Len(chlist) + 1 - i
  OBVIOUS
<1>1. /\ ProbeType' /\ pc = "tune" /\ i' = i + 1 /\ chlist' = chlist
      /\ i \in Nat \ {0} /\ Len(chlist) \in Nat /\ ch' = 0 /\ pc' \in {"look", "last"}
  BY TuneStep, ProbeTypeOK, ListLength DEF Tune, itemVars, ProbeType
<1>2. n \in Nat /\ n >= 1 /\ Span \in Nat /\ Span = 8 * TUNE_TIME + 21 /\ TUNE_TIME \in Nat
  BY <1>0, <1>1, EntriesLeft, SezAssumption DEF Loops
<1>3. TurnsLeft \in Nat
  BY <1>1, EntriesLeft, TurnsType DEF Loops
<1>4. TurnsLeft' \in Nat /\ TurnsLeft' <= 8 * TUNE_TIME + 20
  <2>1. Rest(left', ch') \in 0 .. (2 * TUNE_TIME + 4)
    <3>1. ch' \in Chan /\ left' \in Lefts
      BY <1>1 DEF ProbeType
    <3> QED BY <3>1, RestIs
  <2>2. TurnsLeft' = 4 * Rest(left', ch') + 4
    BY <1>1, <1>2, <2>1 DEF TurnsLeft
  <2> QED BY <1>2, <2>1, <2>2
<1>5. StepsLeft = n * Span + TurnsLeft
  BY <1>0, <1>1 DEF StepsLeft, Loops
<1>6. StepsLeft' = (n - 1) * Span + TurnsLeft'
  <2>1. Len(chlist') + 1 - i' = n - 1
    BY <1>0, <1>1, <1>2
  <2>2. StepsLeft' = (Len(chlist') + 1 - i') * Span + TurnsLeft'
    BY <1>1 DEF StepsLeft, Loops, Span
  <2> QED BY <2>1, <2>2
<1> HIDE DEF StepsLeft, TurnsLeft, Span
<1>7. n \in Nat \ {0} /\ TurnsLeft' < Span
  BY <1>2, <1>4
<1>8. (n - 1) * Span + TurnsLeft' \in 0 .. (n * Span + TurnsLeft - 1)
  BY <1>2, <1>3, <1>4, <1>7, OneEntryLess
<1>9. StepsLeft' \in 0 .. (n * Span + TurnsLeft - 1)
  BY <1>6, <1>8, Zenon
<1>10. n * Span + TurnsLeft - 1 = StepsLeft - 1
  BY <1>2, <1>3, <1>5
<1> QED BY <1>9, <1>10, Zenon

LEMMA LastLookAdvances ==
  ASSUME IInv, Polled, LastLook
  PROVE  StepsLeft' \in 0 .. (StepsLeft - 1)
<1>1. /\ ProbeType' /\ ch \in Chan /\ left \in Lefts /\ Rest(left, ch) \in Nat
      /\ pc = "last" /\ UNCHANGED <<i, chlist>> /\ count \in Nat
      /\ count # 0 => left[0] # Free
  BY LastLookStep, ProbeTypeOK, RestNat
     DEF LastLook, itemVars, ProbeType, Polled, Chan
<1>2. CASE left[ch] = Free /\ NextSlot(count, left, 0)
  BY <1>1, <1>2, NextSlotAdvances
<1>3. CASE Expired(ch) /\ NextSlot(count, [left EXCEPT ![ch] = Free], 0)
  <2> DEFINE l == [left EXCEPT ![ch] = Free]
  <2>1. /\ l \in Lefts /\ l[ch] = Free /\ \A c \in Chan \ {ch} : l[c] = left[c]
        /\ Rest(l, ch) < Rest(left, ch)
    BY <1>1, <1>3, Freed DEF Expired
  <2>2. NextSlot(count, l, 0)
    BY <1>3
  <2> HIDE DEF l
  <2>3. Rest(l, ch) <= Rest(left, ch)
    <3>1. Rest(l, ch) \in Nat
      BY <1>1, <2>1, RestNat
    <3> QED BY <1>1, <2>1, <3>1
  <2>4. ch = 0 => l[0] = Free
    BY <2>1
  <2>5. ch = 1 /\ count # 0 => l[0] # Free
    BY <1>1, <2>1 DEF Chan
  <2> QED BY <1>1, <2>1, <2>2, <2>3, <2>4, <2>5, NextSlotAdvances
<1>4. CASE pc' = "last_poll" /\ UNCHANGED <<ch, left>>
  <2>1. TurnsLeft = 4 * Rest(left, ch) + 4 - 2 * ch /\ ch \in {0, 1}
    BY <1>1 DEF TurnsLeft, Chan
  <2>2. TurnsLeft' = 4 * Rest(left, ch) + 3 - 2 * ch
    BY <1>1, <1>4 DEF TurnsLeft
  <2>3. TurnsLeft' < TurnsLeft
    BY <1>1, <2>1, <2>2
  <2> QED BY <1>1, <1>4, <2>3, TurnAdvances DEF Loops
<1> QED BY <1>2, <1>3, <1>4 DEF LastLook

LEMMA LastPollAdvances ==
  ASSUME IInv, Polled, LastPoll
  PROVE  StepsLeft' \in 0 .. (StepsLeft - 1)
<1>1. /\ ProbeType' /\ ch \in Chan /\ left \in Lefts /\ Rest(left, ch) \in Nat
      /\ pc = "last_poll" /\ UNCHANGED <<i, chlist>> /\ count \in Nat
      /\ count # 0 => left[0] # Free
      /\ left[ch] >= 0
  <2>1. ProbeType /\ ProbeType' /\ pc = "last_poll" /\ UNCHANGED <<i, chlist>>
    BY LastPollStep, ProbeTypeOK DEF LastPoll, itemVars
  <2>2. ch \in Chan /\ left \in Lefts /\ count \in Nat
    BY <2>1 DEF ProbeType, Chan
  <2>3. Rest(left, ch) \in Nat
    BY <2>2, RestNat
  <2>4. (count # 0 => left[0] # Free) /\ left[ch] >= 0
    BY <2>1 DEF Polled
  <2> QED BY <2>1, <2>2, <2>3, <2>4
<1>2. ASSUME NEW d \in 0 .. MaxCall, NextSlot(count, [left EXCEPT ![ch] = Free], d)
      PROVE  StepsLeft' \in 0 .. (StepsLeft - 1)
  <2> DEFINE l == [left EXCEPT ![ch] = Free]
  <2>1. /\ l \in Lefts /\ l[ch] = Free /\ \A c \in Chan \ {ch} : l[c] = left[c]
        /\ Rest(l, ch) < Rest(left, ch)
    BY <1>1, Freed DEF Free
  <2>2. NextSlot(count, l, d) /\ d \in Nat
    BY <1>2, SezAssumption
  <2> HIDE DEF l
  <2>3. Rest(l, ch) <= Rest(left, ch)
    <3>1. Rest(l, ch) \in Nat
      BY <1>1, <2>1, RestNat
    <3> QED BY <1>1, <2>1, <3>1
  <2>4. ch = 0 => l[0] = Free
    BY <2>1
  <2>5. ch = 1 /\ count # 0 => l[0] # Free
    BY <1>1, <2>1 DEF Chan
  <2> QED BY <1>1, <2>1, <2>2, <2>3, <2>4, <2>5, NextSlotAdvances
<1>3. ASSUME NEW d \in 0 .. MaxCall, NextSlot(count + 1, left, d)
      PROVE  StepsLeft' \in 0 .. (StepsLeft - 1)
  <2>1. d \in Nat /\ count + 1 \in Nat
    BY <1>1, SezAssumption
  <2> QED BY <1>1, <1>3, <2>1, NextSlotAdvances
<1> QED BY <1>2, <1>3 DEF LastPoll

LEMMA StepPolled ==
  ASSUME IInv, Polled, [Next]_vars
  PROVE  Polled'
<1>1. CASE Look
  BY <1>1, ProbeTypeOK DEF Look, Polled, Expired, ProbeType, Lefts, Free
<1>2. CASE Poll \/ Tune
  <2>1. count' = count /\ pc' \in {"look", "tune", "last"}
    BY <1>2 DEF Poll, Tune
  <2>2. pc' = "last" => count = 0
    BY <1>2 DEF IInv, Places, Probing, Poll, Tune
  <2> QED BY <2>1, <2>2 DEF Polled
<1>3. ASSUME pc \in {"last", "last_poll"}, NEW l \in Lefts, NEW d \in Nat,
             NEW busy \in Nat, NextSlot(busy, l, d), ch = 0 /\ busy # 0 => l[0] # Free
      PROVE  Polled'
  <2>1. ch \in {0, 1}
    BY ProbeTypeOK DEF ProbeType, Chan
  <2>2. pc' \in {"last", "identify"} /\ (pc' = "last" /\ ch = 1 => count' = 0)
    BY <1>3 DEF NextSlot
  <2>3. CASE ch = 0
    <3>1. count' = busy /\ left' = Later(l, d)
      BY <1>3, <2>3 DEF NextSlot, Pass
    <3>2. busy # 0 => left'[0] # Free
      BY <1>3, <2>3, <3>1, LaterIs DEF Chan
    <3> QED BY <2>2, <3>1, <3>2 DEF Polled
  <2> QED BY <2>1, <2>2, <2>3 DEF Polled
<1>4. /\ pc \in {"last", "last_poll"} => (ch = 0 => count = 0)
      /\ ProbeType /\ left \in Lefts /\ count \in Nat /\ ch \in Chan
  BY ProbeTypeOK DEF IInv, Places, Probing, ProbeType, Chan
<1>5. CASE LastLook
  <2>1. CASE left[ch] # Free /\ ~ Expired(ch) /\ pc' = "last_poll" /\ UNCHANGED <<ch, count, left>>
    <3>1. left[ch] \in Int
      BY <1>4 DEF Lefts, Free
    <3> QED BY <1>5, <2>1, <3>1 DEF LastLook, Polled, Expired
  <2>2. CASE \E l \in Lefts : NextSlot(count, l, 0)
    BY <1>3, <1>4, <1>5, <2>2 DEF LastLook
  <2>3. [left EXCEPT ![ch] = Free] \in Lefts
    BY <1>4, SezAssumption DEF Lefts, Free
  <2> QED BY <1>4, <1>5, <2>1, <2>2, <2>3 DEF LastLook
<1>6. CASE LastPoll
  <2>1. [left EXCEPT ![ch] = Free] \in Lefts
    BY <1>4, SezAssumption DEF Lefts, Free
  <2>2. ASSUME NEW d \in 0 .. MaxCall, NextSlot(count, [left EXCEPT ![ch] = Free], d)
        PROVE  Polled'
    <3>1. d \in Nat /\ pc \in {"last", "last_poll"}
      BY <1>6, SezAssumption DEF LastPoll
    <3> QED BY <1>3, <1>4, <2>1, <2>2, <3>1
  <2>3. ASSUME NEW d \in 0 .. MaxCall, NextSlot(count + 1, left, d)
        PROVE  Polled'
    <3>1. d \in Nat /\ count + 1 \in Nat /\ pc = "last_poll" /\ left[ch] # Free
      BY <1>4, <1>6, SezAssumption DEF LastPoll, IInv, Places, Probing
    <3> QED BY <1>3, <1>4, <2>3, <3>1
  <2> QED BY <1>6, <2>2, <2>3 DEF LastPoll
<1>7. CASE Prepare
  BY <1>7 DEF Prepare, Fresh, Exit, Polled
<1>8. CASE Discovery \/ CallFails \/ Identify
  BY <1>8 DEF Discovery, FindFails, tunerfind2, udp_answer, udp_silence, Found, CallFails,
              Identify, Exit, Polled
<1>9. CASE UNCHANGED vars
  BY <1>9 DEF vars, probeVars, Polled
<1> QED BY <1>1, <1>2, <1>5, <1>6, <1>7, <1>8, <1>9 DEF Next, do_item

\* Every step of the loops leaves the probe fewer steps to take, for lists of any
\* length, whatever locks when, and however long calls take: at most 8 * TUNE_TIME
\* + 21 for each entry, and as many in the end.
THEOREM ProbeAlwaysAdvances == Spec => ProbeAdvances
<1>1. Init => Polled
  BY DEF Init, Polled
<1>2. IInv /\ Polled /\ [Next]_vars => Polled'
  BY StepPolled
<1>3. ASSUME IInv, Polled, [Next]_vars
      PROVE  [pc \notin Loops \/ StepsLeft' \in 0 .. (StepsLeft - 1)]_vars
  <2>1. CASE Look \/ Poll \/ Tune \/ LastLook \/ LastPoll
    BY <1>3, <2>1, LookAdvances, PollAdvances, TuneAdvances, LastLookAdvances, LastPollAdvances
  <2>2. CASE CallFails
    <3>1. pc' = "exit" /\ "exit" \notin Loops
      BY <2>2 DEF CallFails, Exit, Loops
    <3> QED BY <1>3, <3>1, LeavesLoops
  <2>3. CASE Prepare \/ Identify \/ Discovery
    BY <2>3 DEF Prepare, Identify, Discovery, FindFails, tunerfind2, udp_answer, udp_silence,
                Found, Loops
  <2> QED BY <1>3, <2>1, <2>2, <2>3 DEF Next, do_item
<1> QED BY <1>1, <1>2, <1>3, SpecIInv, PTL DEF Spec, ProbeAdvances
=============================================================================
