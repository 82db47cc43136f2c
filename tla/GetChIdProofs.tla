---------------------------- MODULE GetChIdProofs ----------------------------
(***************************************************************************)
(* get_ch_id() removes the channel that the demodulator received, polls no *)
(* stream whose reset is still pending, and finds a table again unless it  *)
(* was an old one.                                                         *)
(***************************************************************************)
EXTENDS GetChId, MpgtsProofs, SequenceTheorems

-----------------------------------------------------------------------------
(* Lists *)

\* RemoveAt() takes one entry out and moves those behind it up by one.
LEMMA RemoveAtIs ==
  ASSUME NEW S, NEW s \in Seq(S), NEW n \in 1 .. Len(s)
  PROVE  /\ RemoveAt(s, n) \in Seq(S)
         /\ Len(RemoveAt(s, n)) = Len(s) - 1
         /\ \A k \in 1 .. (Len(s) - 1) : RemoveAt(s, n)[k] = IF k < n THEN s[k] ELSE s[k + 1]
<1> DEFINE a == SubSeq(s, 1, n - 1)
           b == SubSeq(s, n + 1, Len(s))
<1>1. Len(s) \in Nat /\ \A k \in 1 .. Len(s) : s[k] \in S
  BY LenProperties
<1>2. /\ a \in Seq(S) /\ Len(a) = n - 1
      /\ \A k \in 1 .. n - 1 : a[k] = s[k]
  BY <1>1, SubSeqProperties
<1>3. /\ b \in Seq(S) /\ Len(b) = Len(s) - n
      /\ \A k \in 1 .. Len(s) - n : b[k] = s[n + k]
  <2>1. \A k \in n + 1 .. Len(s) : s[k] \in S
    BY <1>1
  <2>2. /\ b \in Seq(S)
        /\ Len(b) = IF n + 1 <= Len(s) THEN Len(s) - (n + 1) + 1 ELSE 0
        /\ \A k \in 1 .. Len(s) - (n + 1) + 1 : b[k] = s[(n + 1) + k - 1]
    BY <1>1, <2>1, SubSeqProperties
  <2> QED BY <1>1, <2>2
<1> HIDE DEF a, b
<1>4. /\ a \o b \in Seq(S) /\ Len(a \o b) = Len(a) + Len(b)
      /\ \A k \in 1 .. Len(a) + Len(b) : (a \o b)[k] = IF k <= Len(a) THEN a[k] ELSE b[k - Len(a)]
  BY <1>2, <1>3, ConcatProperties
<1>5. RemoveAt(s, n) = a \o b
  BY DEF RemoveAt, a, b
<1>6. Len(a) + Len(b) = Len(s) - 1
  BY <1>1, <1>2, <1>3
<1>7. ASSUME NEW k \in 1 .. (Len(s) - 1)
      PROVE  (a \o b)[k] = IF k < n THEN s[k] ELSE s[k + 1]
  <2>1. CASE k < n
    BY <2>1, <1>1, <1>2, <1>4, <1>6
  <2>2. CASE ~ k < n
    <3>1. (a \o b)[k] = b[k - (n - 1)]
      BY <2>2, <1>1, <1>2, <1>4, <1>6
    <3>2. k - (n - 1) \in 1 .. Len(s) - n /\ n + (k - (n - 1)) = k + 1
      BY <2>2, <1>1
    <3> QED BY <2>2, <3>1, <3>2, <1>3
  <2> QED BY <2>1, <2>2
<1> QED BY <1>4, <1>5, <1>6, <1>7

-----------------------------------------------------------------------------
(* What a round shows and removes *)

Vcts == {NoVct, EmptyVct} \cup {Vct(tv) : tv \in Tvs}

Lines == [tv : Tvs, from : Tvs, vct : Vcts]

Accs == [i : Nat \ {0}, list : Seq(Tvs), out : Seq(Lines)]

Faithful(out) == \A k \in 1 .. Len(out) : out[k].from = out[k].tv

\* What demodulator c adds to the tables shown is its own.
Adds(out, more, c) ==
  \A k \in 1 .. Len(more) :
    (k \in 1 .. Len(out) /\ more[k] = out[k]) \/ (got[c] /\ more[k].vct = vct[c])

\* One turn of the loop shows one entry and removes it, or neither.
LEMMA ShowIs ==
  ASSUME NEW acc \in Accs, NEW c \in Chan, freq \in [Chan -> Tvs], vct \in [Chan -> Vcts]
  PROVE  /\ ~ got[c] => /\ Show(acc, c).i = acc.i + 1
                        /\ Show(acc, c).list = acc.list /\ Show(acc, c).out = acc.out
         /\ got[c] /\ acc.i <= Len(acc.list) =>
              /\ Show(acc, c).i = acc.i
              /\ Show(acc, c).list = RemoveAt(acc.list, acc.i)
              /\ Len(Show(acc, c).list) = Len(acc.list) - 1
              /\ acc.list[acc.i] = freq[c] /\ Faithful(acc.out) => Faithful(Show(acc, c).out)
         /\ Show(acc, c) \in Accs
         /\ Adds(acc.out, Show(acc, c).out, c)
<1>1. /\ acc.i \in Nat \ {0} /\ acc.list \in Seq(Tvs) /\ acc.out \in Seq(Lines)
      /\ Len(acc.list) \in Nat /\ Len(acc.out) \in Nat
  BY LenProperties DEF Accs
<1>2. CASE ~ got[c] \/ acc.i > Len(acc.list)
  <2>1. Show(acc, c) = [acc EXCEPT !.i = @ + 1]
    BY <1>2 DEF Show
  <2>2. /\ Show(acc, c) \in Accs /\ Show(acc, c).i = acc.i + 1
        /\ Show(acc, c).list = acc.list /\ Show(acc, c).out = acc.out
    BY <2>1, <1>1 DEF Accs
  <2>3. ~ (got[c] /\ acc.i <= Len(acc.list))
    BY <1>1, <1>2
  <2>4. Adds(acc.out, acc.out, c)
    BY <1>1 DEF Adds
  <2> QED BY <2>2, <2>3, <2>4
<1>3. CASE got[c] /\ ~ acc.i > Len(acc.list)
  <2> DEFINE x == [tv |-> acc.list[acc.i], from |-> freq[c], vct |-> vct[c]]
             list == RemoveAt(acc.list, acc.i)
             out == Append(acc.out, x)
  <2>1. acc.i \in 1 .. Len(acc.list)
    BY <1>1, <1>3
  <2>2. acc.list[acc.i] \in Tvs
    BY <1>1, <2>1, ElementOfSeq
  <2>3. x \in Lines /\ x.tv = acc.list[acc.i] /\ x.from = freq[c] /\ x.vct = vct[c]
    BY <2>2 DEF Lines
  <2>4. Show(acc, c) = [i |-> acc.i, list |-> list, out |-> out]
    BY <1>3 DEF Show
  <2>5. list \in Seq(Tvs) /\ Len(list) = Len(acc.list) - 1
    BY <1>1, <2>1, RemoveAtIs
  <2> HIDE DEF x, list
  <2>6. out \in Seq(Lines) /\ \A k \in 1 .. Len(out) :
          (k \in 1 .. Len(acc.out) /\ out[k] = acc.out[k]) \/ out[k] = x
    BY <1>1, <2>3
  <2> HIDE DEF out
  <2>7. acc.list[acc.i] = freq[c] /\ Faithful(acc.out) => Faithful(out)
    BY <2>3, <2>6 DEF Faithful
  <2>8. Adds(acc.out, out, c)
    BY <1>3, <2>3, <2>6 DEF Adds
  <2>9. /\ Show(acc, c).i = acc.i /\ Show(acc, c).list = list /\ Show(acc, c).out = out
        /\ Show(acc, c) \in Accs
    BY <1>1, <2>4, <2>5, <2>6 DEF Accs
  <2>10. list = RemoveAt(acc.list, acc.i)
    BY DEF list
  <2> QED BY <1>3, <2>5, <2>7, <2>8, <2>9, <2>10
<1> QED BY <1>2, <1>3

-----------------------------------------------------------------------------
(* The inductive invariant *)

MainTypes ==
  /\ pc \in {"tune", "poll", "status", "wait", "vct", "collect", "stopping", "crashed",
             "returned", "error"}
  /\ ch \in Chan /\ j \in 0 .. POLLS /\ resets \in 0 .. RESET_POLLS
  /\ chlist \in Seq(Tvs) /\ shown \in Seq(Lines)
  /\ locked \in [Chan -> BOOLEAN] /\ started \in [Chan -> BOOLEAN] /\ got \in [Chan -> BOOLEAN]
  /\ late \in [Chan -> BOOLEAN]
  /\ closing \in {"open", "cancelled", "closed"}
  /\ pc = "wait" => resets # RESET_POLLS

Polling == pc \in {"poll", "status", "wait", "vct", "collect", "stopping"}

\* In the loop that tunes, the demodulators before ch have their channels; and
\* only one that has an entry is looked at, or done.
Turns ==
  /\ pc = "tune" => ch < Len(chlist) /\ \A c \in Chan : c < ch => freq[c] = Entry(c)
  /\ Polling => 0 < Len(chlist) /\ \A c \in Chan : c < Len(chlist) => freq[c] = Entry(c)
  /\ pc \in {"status", "wait", "vct"} => ch < Len(chlist)
  /\ Polling => \A c \in Chan : got[c] => c < Len(chlist)

\* Only start_ts() asks for a reset, and it leaves none pending, unless it fails.
Asked ==
  /\ \A c \in Chan : started[c] => want_reset[c] = 0
  /\ \A c \in Chan : want_reset[c] # 0 => (pc = "wait" /\ c = ch) \/ Returned

\* A table that was found stays, and none is about to be freed but an old one: a
\* demodulator that is done has no reset pending, so the thread frees its table
\* only if it was on its way to already.
Found(c) == got[c] => started[c] /\ (late[c] \/ (vct[c] # NoVct /\ thread # At("init", c)))

Held ==
  /\ pc = "vct" => started[ch]
  /\ \A c \in Chan : Found(c)
  /\ thread[1] = "fill" => building # NoVct
  /\ pc = "crashed" => \E c \in Chan : late[c]

IInv == TsInv /\ MainTypes /\ Turns /\ Asked /\ Held /\ Faithful(shown)

LEMMA NoneIs == None \in [Chan -> BOOLEAN] /\ \A c \in Chan : ~ None[c]
BY DEF None

LEMMA InitIInv == Init => IInv
<1> SUFFICES ASSUME Init
             PROVE  IInv
  OBVIOUS
<1>1. TsInv /\ want_reset = [c \in Chan |-> 0]
  BY TsInit DEF Init, MpgtsInit
<1>2. Strong \in Seq(Tvs) /\ POLLS \in Nat /\ RESET_POLLS \in Nat \ {0} /\ <<>> \in Seq(Lines) /\ Len(<<>>) = 0
  BY GetChIdAssumption, MpgtsAssumption, EmptyQueue
<1>3. MainTypes
  BY <1>2, NoneIs DEF Init, MainTypes, Chan
<1>4. Turns
  <2>1. Strong # <<>> => Len(Strong) > 0
    BY <1>2, EmptySeq
  <2> QED BY <2>1 DEF Init, Turns, Polling, Chan
<1>5. Asked
  BY <1>1, NoneIs DEF Init, Asked
<1>6. Held /\ Faithful(shown)
  BY <1>2, NoneIs DEF Init, MpgtsInit, Held, Found, Faithful, At
<1> QED BY <1>1, <1>3, <1>4, <1>5, <1>6 DEF IInv

-----------------------------------------------------------------------------
(* The steps *)

\* The client leaves the thread and the sockets alone.
LEMMA TsKept ==
  ASSUME TsInv, UNCHANGED <<threadVars, vct, queue>>,
         want_reset' \in [Chan -> {0, 1}], freq' \in [Chan -> Tvs], dest' \in [Chan -> BOOLEAN]
  PROVE  TsInv'
BY DEF TsInv, MpgtsTypeOK, ReadyIsThere, threadVars

LEMMA TsTypes ==
  ASSUME IInv
  PROVE  /\ want_reset \in [Chan -> {0, 1}] /\ freq \in [Chan -> Tvs]
         /\ dest \in [Chan -> BOOLEAN] /\ vct \in [Chan -> Vcts]
         /\ Len(chlist) \in Nat
         /\ POLLS \in Nat \ {0} /\ RESET_POLLS \in Nat \ {0}
<1>1. Len(chlist) \in Nat
  BY LenProperties DEF IInv, MainTypes
<1> QED BY <1>1, GetChIdAssumption, MpgtsAssumption DEF IInv, TsInv, MpgtsTypeOK, Vcts

\* The steps of get_ch_id() that find no table.
LEMMA HeldKept ==
  ASSUME IInv, UNCHANGED <<threadVars, vct>>, pc' # "crashed",
         pc' = "vct" => started'[ch'],
         \A c \in Chan : got'[c] => got[c] /\ started'[c] /\ (late[c] => late'[c])
  PROVE  Held'
BY DEF IInv, Held, Found, threadVars

LEMMA NextStatusIs ==
  ASSUME NextStatus, ch \in Chan, Len(chlist) \in Nat
  PROVE  \/ pc' = "poll" /\ ch' = 0
         \/ pc' = "status" /\ ch' = 1 /\ 1 < Len(chlist)
BY DEF NextStatus, LastOfRound, Chan, n_ch

LEMMA TuneStep ==
  ASSUME IInv, Tune, UNCHANGED closing
  PROVE  IInv'
<1>1. /\ pc = "tune" /\ freq' \in {freq, [freq EXCEPT ![ch] = Entry(ch)]}
      /\ freq'[ch] = Entry(ch) \/ pc' = "error"
      /\ UNCHANGED <<threadVars, want_reset, vct, queue, dest, resets, chlist, shown>>
      /\ \/ /\ pc' = "error" /\ UNCHANGED <<ch, j, locked, started, got, late>>
         \/ /\ ~ LastOfRound(ch) /\ ch' = ch + 1 /\ UNCHANGED <<pc, j, locked, started, got, late>>
         \/ /\ LastOfRound(ch) /\ pc' = "poll" /\ ch' = 0 /\ j' = 0
            /\ locked' = None /\ started' = None /\ got' = None /\ late' = None
  BY DEF Tune
<1>2. /\ ch \in Chan /\ ch < Len(chlist) /\ chlist \in Seq(Tvs) /\ Len(chlist) \in Nat
      /\ freq \in [Chan -> Tvs] /\ ch + 1 \in 1 .. Len(chlist)
  BY <1>1, TsTypes DEF IInv, MainTypes, Turns, Chan
<1>3. Entry(ch) \in Tvs
  BY <1>2, ElementOfSeq DEF Entry
<1>4. freq' \in [Chan -> Tvs] /\ \A c \in Chan : c # ch => freq'[c] = freq[c]
  BY <1>1, <1>2, <1>3
<1>5. TsInv'
  BY <1>1, <1>4, TsTypes, TsKept DEF IInv
<1>6. MainTypes'
  BY <1>1, <1>2, TsTypes, NoneIs DEF IInv, MainTypes, LastOfRound, Chan
<1>7. Turns'
  BY <1>1, <1>2, <1>4, NoneIs DEF IInv, Turns, Polling, Entry, LastOfRound, n_ch, Chan
<1>8. Asked'
  BY <1>1, NoneIs DEF IInv, Asked, Returned
<1>9. Held'
  BY <1>1, NoneIs, HeldKept DEF IInv, Held, Found
<1> QED BY <1>1, <1>5, <1>6, <1>7, <1>8, <1>9 DEF IInv

LEMMA PollStep ==
  ASSUME IInv, Poll, UNCHANGED closing
  PROVE  IInv'
<1>1. /\ pc = "poll"
      /\ UNCHANGED <<tsVars, resets, chlist, locked, started, got, shown, late, closing>>
      /\ \/ pc' \in {"collect", "stopping", "error"} /\ UNCHANGED <<ch, j>>
         \/ /\ pc' = "status" /\ ch' = 0 /\ j # POLLS
            /\ j' = POLLS \/ j' = j + 1
  BY DEF Poll, RoundOver
<1>2. TsInv'
  BY <1>1, TsTypes, TsKept DEF IInv, tsVars
<1>3. MainTypes'
  BY <1>1, TsTypes DEF IInv, MainTypes, Chan
<1>4. Turns'
  BY <1>1, TsTypes DEF IInv, Turns, Polling, Entry, tsVars, Chan
<1>5. Asked'
  BY <1>1 DEF IInv, Asked, Returned, tsVars
<1>6. Held'
  BY <1>1, HeldKept DEF IInv, Held, Found, tsVars
<1> QED BY <1>1, <1>2, <1>3, <1>4, <1>5, <1>6 DEF IInv

LEMMA ReadStatusStep ==
  ASSUME IInv, ReadStatus, UNCHANGED closing
  PROVE  IInv'
<1>1. /\ pc = "status"
      /\ UNCHANGED <<tsVars, j, resets, chlist, started, got, shown, late, closing>>
      /\ \/ pc' = "error" /\ UNCHANGED <<ch, locked>>
         \/ locked' \in {locked, [locked EXCEPT ![ch] = TRUE]} /\ NextStatus
  BY DEF ReadStatus
<1>2. ch \in Chan /\ Len(chlist) \in Nat
  BY TsTypes DEF IInv, MainTypes
<1>3. \/ pc' = "error" /\ ch' = ch
      \/ pc' = "poll" /\ ch' = 0
      \/ pc' = "status" /\ ch' = 1 /\ 1 < Len(chlist)
  BY <1>1, <1>2, NextStatusIs
<1>4. locked' \in [Chan -> BOOLEAN]
  BY <1>1 DEF IInv, MainTypes
<1>5. TsInv'
  BY <1>1, TsTypes, TsKept DEF IInv, tsVars
<1>6. MainTypes'
  BY <1>1, <1>2, <1>3, <1>4, TsTypes DEF IInv, MainTypes, Chan
<1>7. Turns'
  BY <1>1, <1>2, <1>3 DEF IInv, Turns, Polling, Entry, tsVars, Chan
<1>8. Asked'
  BY <1>1, <1>3 DEF IInv, Asked, Returned, tsVars
<1>9. Held'
  BY <1>1, <1>3, HeldKept DEF IInv, Held, Found, tsVars
<1> QED BY <1>1, <1>5, <1>6, <1>7, <1>8, <1>9 DEF IInv

LEMMA StartTsStep ==
  ASSUME IInv, StartTs, UNCHANGED closing
  PROVE  IInv'
<1>1. /\ pc = "status" /\ ~ started[ch] /\ pc' = "wait" /\ resets' = 0
      /\ want_reset' = [want_reset EXCEPT ![ch] = @ + 1]
      /\ UNCHANGED <<threadVars, vct, queue, freq, dest>>
      /\ UNCHANGED <<ch, j, chlist, locked, started, got, shown, late, closing>>
  BY DEF StartTs
<1>2. ch \in Chan /\ want_reset[ch] = 0
  BY <1>1, TsTypes DEF IInv, MainTypes, Asked, Returned
<1>3. /\ want_reset' \in [Chan -> {0, 1}] /\ want_reset'[ch] = 1
      /\ \A c \in Chan : c # ch => want_reset'[c] = want_reset[c]
  BY <1>1, <1>2, TsTypes
<1>4. TsInv'
  BY <1>1, <1>3, TsTypes, TsKept DEF IInv
<1>5. MainTypes'
  BY <1>1, TsTypes DEF IInv, MainTypes
<1>6. Turns'
  BY <1>1 DEF IInv, Turns, Polling, Entry
<1>7. Asked'
  BY <1>1, <1>2, <1>3 DEF IInv, Asked, Returned
<1>8. Held'
  BY <1>1, HeldKept DEF IInv, Held, Found
<1> QED BY <1>1, <1>4, <1>5, <1>6, <1>7, <1>8 DEF IInv

LEMMA WaitStep ==
  ASSUME IInv, Wait, UNCHANGED closing
  PROVE  IInv'
<1>1. /\ pc = "wait"
      /\ UNCHANGED <<threadVars, want_reset, vct, queue, freq>>
      /\ UNCHANGED <<ch, j, chlist, locked, got, shown, late, closing>>
      /\ \/ /\ resets' = resets + 1
            /\ pc' = IF resets' = RESET_POLLS THEN "error" ELSE "wait"
            /\ UNCHANGED <<dest, started>>
         \/ /\ want_reset[ch] = 0 /\ resets' = 0
            /\ dest' \in {dest, [dest EXCEPT ![ch] = TRUE]}
            /\ \/ pc' = "error" /\ UNCHANGED started
               \/ pc' = "vct" /\ started' = [started EXCEPT ![ch] = TRUE]
  BY DEF Wait
<1>2. ch \in Chan /\ resets \in 0 .. RESET_POLLS /\ resets # RESET_POLLS
  BY <1>1 DEF IInv, MainTypes
<1>3. dest' \in [Chan -> BOOLEAN]
  BY <1>1, TsTypes
<1>4. /\ started' \in [Chan -> BOOLEAN]
      /\ \A c \in Chan : started[c] => started'[c]
      /\ pc' = "vct" => started'[ch]
      /\ \A c \in Chan : started'[c] => started[c] \/ (c = ch /\ want_reset[c] = 0)
  <2>1. started \in [Chan -> BOOLEAN]
    BY DEF IInv, MainTypes
  <2>2. CASE started' = started /\ pc' # "vct"
    BY <2>1, <2>2
  <2>3. CASE started' = [started EXCEPT ![ch] = TRUE] /\ want_reset[ch] = 0
    <3>1. started' \in [Chan -> BOOLEAN]
      BY <2>1, <2>3
    <3>2. \A c \in Chan : c # ch => started'[c] = started[c]
      BY <2>1, <2>3
    <3>3. started'[ch]
      BY <1>2, <2>1, <2>3
    <3> QED BY <3>1, <3>2, <3>3, <2>3
  <2> QED BY <1>1, <1>2, <2>2, <2>3
<1>5. /\ resets' \in 0 .. RESET_POLLS /\ pc' \in {"error", "wait", "vct"}
      /\ pc' = "wait" => resets' # RESET_POLLS
      /\ pc' = "vct" => want_reset[ch] = 0
  BY <1>1, <1>2, TsTypes
<1>6. TsInv'
  BY <1>1, <1>3, TsTypes, TsKept DEF IInv
<1>7. MainTypes'
  BY <1>1, <1>4, <1>5, TsTypes DEF IInv, MainTypes
<1>8. Turns'
  BY <1>1, <1>5 DEF IInv, Turns, Polling, Entry
<1>9. Asked'
  BY <1>1, <1>4, <1>5 DEF IInv, Asked, Returned
<1>10. Held'
  BY <1>1, <1>4, <1>5, HeldKept DEF IInv, Held, Found
<1> QED BY <1>1, <1>6, <1>7, <1>8, <1>9, <1>10 DEF IInv

LEMMA GetVctStep ==
  ASSUME IInv, GetVct, UNCHANGED closing
  PROVE  IInv'
<1>1. /\ pc \in {"vct", "status"} /\ (pc = "vct" \/ started[ch])
      /\ UNCHANGED <<threadVars, want_reset, vct, queue, freq>>
      /\ UNCHANGED <<j, resets, chlist, locked, started, shown, closing>>
      /\ dest' = dest \/ dest' = [dest EXCEPT ![ch] = FALSE]
      /\ \/ pc' = "error" /\ UNCHANGED <<ch, got, late>>
         \/ NextStatus /\ UNCHANGED <<got, late>>
         \/ /\ NextStatus /\ got' = [got EXCEPT ![ch] = TRUE] /\ vct[ch] # NoVct
            /\ late' = [late EXCEPT ![ch] = (thread = At("init", ch))]
  BY DEF GetVct
<1>2. ch \in Chan /\ ch < Len(chlist) /\ Len(chlist) \in Nat
  BY <1>1, TsTypes DEF IInv, MainTypes, Turns
<1>3. \/ pc' = "error" /\ ch' = ch
      \/ pc' = "poll" /\ ch' = 0
      \/ pc' = "status" /\ ch' = 1 /\ 1 < Len(chlist)
  BY <1>1, <1>2, NextStatusIs
<1>4. got' \in [Chan -> BOOLEAN] /\ late' \in [Chan -> BOOLEAN] /\ \A c \in Chan : got'[c] => got[c] \/ c = ch
  BY <1>1 DEF IInv, MainTypes
<1>5. dest' \in [Chan -> BOOLEAN]
  BY <1>1, TsTypes
<1>6. TsInv'
  BY <1>1, <1>5, TsTypes, TsKept DEF IInv
<1>7. MainTypes'
  BY <1>1, <1>2, <1>3, <1>4, TsTypes DEF IInv, MainTypes, Chan
<1>8. Turns'
  BY <1>1, <1>2, <1>3, <1>4 DEF IInv, Turns, Polling, Entry, Chan
<1>9. Asked'
  <2>1. \A c \in Chan : want_reset[c] = 0
    BY <1>1 DEF IInv, Asked, Returned
  <2> QED BY <1>1, <2>1 DEF Asked
<1>10. Held'
  <2>1. started[ch]
    BY <1>1 DEF IInv, Held
  <2>2. CASE UNCHANGED <<got, late>>
    BY <1>1, <1>3, <2>2 DEF IInv, Held, Found, threadVars
  <2>3. CASE /\ got' = [got EXCEPT ![ch] = TRUE] /\ vct[ch] # NoVct
             /\ late' = [late EXCEPT ![ch] = (thread = At("init", ch))]
    <3>1. /\ got'[ch] /\ late'[ch] = (thread = At("init", ch))
          /\ \A c \in Chan : c # ch => got'[c] = got[c] /\ late'[c] = late[c]
      BY <1>2, <2>3 DEF IInv, MainTypes
    <3>2. ASSUME NEW c \in Chan
          PROVE  Found(c)'
      <4>1. CASE c = ch
        BY <1>1, <2>1, <2>3, <3>1, <4>1 DEF Found, threadVars
      <4>2. CASE c # ch
        BY <1>1, <3>1, <4>2 DEF IInv, Held, Found, threadVars
      <4> QED BY <4>1, <4>2
    <3> QED BY <1>1, <1>3, <3>2 DEF IInv, Held, threadVars
  <2> QED BY <1>1, <2>2, <2>3
<1> QED BY <1>1, <1>6, <1>7, <1>8, <1>9, <1>10 DEF IInv

\* The tables that a round adds are those of the demodulators that are done.
LEMMA RoundIs ==
  ASSUME IInv, pc \in {"collect", "stopping"}, NEW mid, NEW fin,
         mid = Show([i |-> 1, list |-> chlist, out |-> shown], 0), fin = Show(mid, 1)
  PROVE  /\ fin.list \in Seq(Tvs) /\ fin.out \in Seq(Lines)
         /\ Faithful(fin.out)
         /\ \A k \in Len(shown) + 1 .. Len(fin.out) :
              \E c \in Chan : got[c] /\ fin.out[k].vct = vct[c]
<1> DEFINE acc == [i |-> 1, list |-> chlist, out |-> shown]
<1>2. /\ acc \in Accs /\ acc.i = 1 /\ acc.list = chlist /\ acc.out = shown
      /\ Len(chlist) \in Nat /\ chlist \in Seq(Tvs) /\ Len(shown) \in Nat
  BY TsTypes, LenProperties DEF Accs, IInv, MainTypes
<1>3. freq \in [Chan -> Tvs] /\ vct \in [Chan -> Vcts] /\ 0 \in Chan /\ 1 \in Chan
  BY TsTypes DEF Chan
<1>4. /\ got[0] => 1 <= Len(chlist) /\ freq[0] = chlist[1]
      /\ got[1] => 2 <= Len(chlist) /\ freq[1] = chlist[2]
  BY <1>2, <1>3 DEF IInv, Turns, Polling, Entry
<1> HIDE DEF acc
<1>5. /\ mid \in Accs
      /\ ~ got[0] => mid.i = 2 /\ mid.list = chlist /\ mid.out = shown
      /\ got[0] => /\ mid.i = 1 /\ mid.list = RemoveAt(chlist, 1) /\ Len(mid.list) = Len(chlist) - 1
                   /\ Faithful(shown) => Faithful(mid.out)
      /\ Adds(shown, mid.out, 0)
  <2>1. /\ mid \in Accs
        /\ ~ got[0] => mid.i = acc.i + 1 /\ mid.list = acc.list /\ mid.out = acc.out
        /\ got[0] /\ acc.i <= Len(acc.list) =>
             /\ mid.i = acc.i /\ mid.list = RemoveAt(acc.list, acc.i)
             /\ Len(mid.list) = Len(acc.list) - 1
             /\ acc.list[acc.i] = freq[0] /\ Faithful(acc.out) => Faithful(mid.out)
        /\ Adds(acc.out, mid.out, 0)
    <3>1. mid = Show(acc, 0)
      BY DEF acc
    <3> QED BY <3>1, <1>2, <1>3, ShowIs
  <2> QED BY <2>1, <1>2, <1>4
<1>6. got[1] => mid.i <= Len(mid.list) /\ mid.list[mid.i] = freq[1]
  <2> SUFFICES ASSUME got[1]
               PROVE  mid.i <= Len(mid.list) /\ mid.list[mid.i] = freq[1]
    OBVIOUS
  <2>1. CASE got[0]
    <3>1. 1 \in 1 .. Len(chlist) /\ 1 \in 1 .. (Len(chlist) - 1)
      BY <1>2, <1>4
    <3>2. RemoveAt(chlist, 1)[1] = chlist[2]
      BY <3>1, <1>2, RemoveAtIs
    <3> QED BY <2>1, <3>1, <3>2, <1>2, <1>4, <1>5
  <2>2. CASE ~ got[0]
    BY <2>2, <1>4, <1>5
  <2> QED BY <2>1, <2>2
<1>7. Faithful(mid.out)
  BY <1>5 DEF IInv
<1>8. /\ fin \in Accs
      /\ ~ got[1] => fin.out = mid.out
      /\ got[1] => Faithful(fin.out)
      /\ Adds(mid.out, fin.out, 1)
  BY <1>3, <1>5, <1>6, <1>7, ShowIs
<1>9. Len(mid.out) \in Nat /\ Len(fin.out) \in Nat
  BY <1>5, <1>8, LenProperties DEF Accs
<1>10. ASSUME NEW k \in Len(shown) + 1 .. Len(fin.out)
       PROVE  \E c \in Chan : got[c] /\ fin.out[k].vct = vct[c]
  <2>1. k \in 1 .. Len(fin.out) /\ k \notin 1 .. Len(shown)
    BY <1>2, <1>9
  <2>2. CASE k \in 1 .. Len(mid.out) /\ fin.out[k] = mid.out[k]
    BY <2>1, <2>2, <1>3, <1>5 DEF Adds
  <2>3. CASE got[1] /\ fin.out[k].vct = vct[1]
    BY <2>3, <1>3
  <2> QED BY <2>1, <2>2, <2>3, <1>8 DEF Adds
<1> QED BY <1>5, <1>7, <1>8, <1>10 DEF Accs

LEMMA CollectStep ==
  ASSUME IInv, Collect, UNCHANGED closing
  PROVE  IInv'
<1> DEFINE mid == Show([i |-> 1, list |-> chlist, out |-> shown], 0)
           fin == Show(mid, 1)
           gone == \E k \in Len(shown) + 1 .. Len(fin.out) : fin.out[k].vct = NoVct
<1>1. /\ pc \in {"collect", "stopping"}
      /\ UNCHANGED <<tsVars, resets, closing>>
      /\ \/ /\ pc' = IF gone THEN "crashed" ELSE "error"
            /\ UNCHANGED <<ch, j, chlist, locked, started, got, shown, late>>
         \/ /\ pc' = IF fin.list = <<>> \/ pc = "stopping" THEN "returned" ELSE "tune"
            /\ chlist' = fin.list /\ shown' = fin.out
            /\ ch' = 0 /\ j' = 0
            /\ locked' = None /\ started' = None /\ got' = None /\ late' = None
  BY DEF Collect
<1>2. /\ fin.list \in Seq(Tvs) /\ fin.out \in Seq(Lines)
      /\ Faithful(fin.out)
      /\ \A k \in Len(shown) + 1 .. Len(fin.out) :
           \E c \in Chan : got[c] /\ fin.out[k].vct = vct[c]
  BY <1>1, RoundIs
<1> HIDE DEF mid, fin
<1>3. fin.list # <<>> => 0 < Len(fin.list)
  BY <1>2, EmptySeq
<1>4. gone => \E c \in Chan : late[c]
  BY <1>2 DEF IInv, Held, Found
<1> HIDE DEF gone
<1>5. TsInv'
  BY <1>1, TsTypes, TsKept DEF IInv, tsVars
<1>6. \A c \in Chan : want_reset[c] = 0
  BY <1>1 DEF IInv, Asked, Returned
<1>7. CASE /\ pc' = IF gone THEN "crashed" ELSE "error"
           /\ UNCHANGED <<ch, j, chlist, locked, started, got, shown, late>>
  <2>1. MainTypes'
    BY <1>1, <1>7, TsTypes DEF IInv, MainTypes
  <2>2. Turns'
    BY <1>7 DEF Turns, Polling
  <2>3. Asked'
    BY <1>1, <1>6, <1>7 DEF IInv, Asked, tsVars
  <2>4. Held'
    BY <1>1, <1>4, <1>7 DEF IInv, Held, Found, tsVars, threadVars
  <2> QED BY <1>5, <1>7, <2>1, <2>2, <2>3, <2>4 DEF IInv
<1>8. CASE /\ pc' = IF fin.list = <<>> \/ pc = "stopping" THEN "returned" ELSE "tune"
           /\ chlist' = fin.list /\ shown' = fin.out
           /\ ch' = 0 /\ j' = 0
           /\ locked' = None /\ started' = None /\ got' = None /\ late' = None
  <2>1. MainTypes'
    BY <1>1, <1>2, <1>8, NoneIs, TsTypes DEF IInv, MainTypes, Chan
  <2>2. Turns'
    BY <1>2, <1>3, <1>8, NoneIs DEF Turns, Polling, Chan
  <2>3. Asked'
    BY <1>1, <1>6, <1>8, NoneIs DEF Asked, tsVars
  <2>4. Held'
    BY <1>1, <1>8, NoneIs DEF IInv, Held, Found, tsVars, threadVars
  <2> QED BY <1>2, <1>5, <1>8, <2>1, <2>2, <2>3, <2>4 DEF IInv
<1> QED BY <1>1, <1>7, <1>8

LEMMA CloseStep ==
  ASSUME IInv, close
  PROVE  IInv'
<1>1. /\ UNCHANGED <<threadVars, want_reset, vct, freq, dest>>
      /\ locked' = None /\ started' = None /\ got' = None /\ late' = None
      /\ Returned /\ pc' = "returned" /\ ch' = 0 /\ j' = 0 /\ resets' = 0
      /\ chlist' = <<>> /\ shown' = <<>>
      /\ \/ closing' = "cancelled" /\ UNCHANGED queue
         \/ closing' = "closed" /\ thread[1] = "dead" /\ queue' = [c \in Chan |-> <<>>]
  BY DEF close
<1>2. <<>> \in Seq(Tvs) /\ <<>> \in Seq(Lines) /\ Len(<<>>) = 0
  BY EmptyQueue
<1>3. queue' \in [Chan -> Seq(Tvs)] /\ \A c \in Chan : Len(queue'[c]) <= MaxQueue
  <2>1. CASE queue' = queue
    BY <2>1 DEF IInv, TsInv, MpgtsTypeOK
  <2>2. CASE queue' = [c \in Chan |-> <<>>]
    BY <2>2, <1>2, MpgtsAssumption
  <2> QED BY <1>1, <2>1, <2>2
<1>4. MpgtsTypeOK'
  BY <1>1, <1>3 DEF IInv, TsInv, MpgtsTypeOK, threadVars
<1>5. ReadyIsThere'
  BY <1>1 DEF IInv, TsInv, ReadyIsThere, threadVars
<1>6. MainTypes'
  BY <1>1, <1>2, NoneIs, TsTypes DEF IInv, MainTypes, Chan
<1>7. Turns'
  BY <1>1 DEF Turns, Polling
<1>8. Asked'
  BY <1>1, NoneIs DEF IInv, Asked, Returned
<1>9. Held' /\ Faithful(shown)'
  BY <1>1, <1>2, NoneIs DEF IInv, Held, Found, Faithful, threadVars
<1> QED BY <1>4, <1>5, <1>6, <1>7, <1>8, <1>9 DEF IInv, TsInv

\* The thread clears the requests, and frees no table but of a parser that it has
\* been asked to reset.
LEMMA ThreadFrame ==
  ASSUME thread_main, TsInv, NEW c \in Chan, thread[1] = "fill" => building # NoVct
  PROVE  /\ freq' = freq /\ want_reset'[c] \in {want_reset[c], 0}
         /\ vct'[c] = NoVct => vct[c] = NoVct \/ thread = At("init", c)
         /\ thread' = At("init", c) => want_reset[c] # 0
         /\ thread'[1] = "fill" => building' # NoVct
<1>1. /\ want_reset \in [Chan -> {0, 1}] /\ vct \in [Chan -> Vcts]
      /\ EmptyVct # NoVct /\ \A tv : Vct(tv) # NoVct
  BY DEF TsInv, MpgtsTypeOK, Vcts, EmptyVct, NoVct, Vct
<1>2. CASE Select
  BY <1>1, <1>2 DEF Select, At
<1>3. ASSUME NEW d \in Chan, Reset(d)
      PROVE  /\ freq' = freq /\ want_reset'[c] \in {want_reset[c], 0}
             /\ vct'[c] = NoVct => vct[c] = NoVct \/ thread = At("init", c)
             /\ thread' = At("init", c) => want_reset[c] # 0
             /\ thread'[1] = "fill" => building' # NoVct
  BY <1>1, <1>3 DEF Reset, AfterReset, At, Chan
<1>4. ASSUME NEW d \in Chan, ParserInit(d)
      PROVE  /\ freq' = freq /\ want_reset'[c] \in {want_reset[c], 0}
             /\ vct'[c] = NoVct => vct[c] = NoVct \/ thread = At("init", c)
             /\ thread' = At("init", c) => want_reset[c] # 0
             /\ thread'[1] = "fill" => building' # NoVct
  BY <1>1, <1>4 DEF ParserInit, AfterReset, At, Chan
<1>5. ASSUME NEW d \in Chan, Recv(d)
      PROVE  /\ freq' = freq /\ want_reset'[c] \in {want_reset[c], 0}
             /\ vct'[c] = NoVct => vct[c] = NoVct \/ thread = At("init", c)
             /\ thread' = At("init", c) => want_reset[c] # 0
             /\ thread'[1] = "fill" => building' # NoVct
  <2>1. /\ freq' = freq /\ want_reset' = want_reset
        /\ vct' = vct \/ vct' = [vct EXCEPT ![d] = EmptyVct]
        /\ \/ thread'[1] \in {"recv", "select", "dead"}
           \/ thread' = At("fill", d) /\ building' = Vct(Head(queue[d]))
    BY <1>5 DEF Recv, AfterRecv, At
  <2>2. vct'[c] = NoVct => vct[c] = NoVct
    BY <1>1, <2>1
  <2>3. thread' # At("init", c) /\ (thread'[1] = "fill" => building' # NoVct)
    BY <1>1, <2>1 DEF At
  <2> QED BY <2>1, <2>2, <2>3
<1>6. ASSUME NEW d \in Chan, Fill(d)
      PROVE  /\ freq' = freq /\ want_reset'[c] \in {want_reset[c], 0}
             /\ vct'[c] = NoVct => vct[c] = NoVct \/ thread = At("init", c)
             /\ thread' = At("init", c) => want_reset[c] # 0
             /\ thread'[1] = "fill" => building' # NoVct
  BY <1>1, <1>6 DEF Fill, AfterRecv, At
<1> QED BY <1>2, <1>3, <1>4, <1>5, <1>6 DEF thread_main

\* A step of the thread, or of the device, that leaves get_ch_id() alone.
LEMMA OthersStep ==
  ASSUME IInv, TsInv', UNCHANGED mainVars, freq' = freq,
         thread'[1] = "fill" => building' # NoVct,
         \A c \in Chan :
           /\ want_reset'[c] \in {want_reset[c], 0}
           /\ vct'[c] = NoVct => vct[c] = NoVct \/ thread = At("init", c)
           /\ thread' = At("init", c) => thread = At("init", c) \/ want_reset[c] # 0
  PROVE  IInv'
<1>1. MainTypes'
  BY DEF IInv, MainTypes, mainVars
<1>2. Turns'
  BY DEF IInv, Turns, Polling, Entry, mainVars
<1>3. Asked'
  BY DEF IInv, Asked, Returned, mainVars
<1>4. ASSUME NEW c \in Chan
      PROVE  Found(c)'
  BY DEF IInv, Asked, Held, Found, mainVars
<1>5. Held'
  BY <1>4 DEF IInv, Held, mainVars
<1>6. Faithful(shown)'
  BY DEF IInv, Faithful, mainVars
<1> QED BY <1>1, <1>2, <1>3, <1>5, <1>6 DEF IInv

LEMMA EndThreadStep ==
  ASSUME TsInv, thread' = At("dead", 0), UNCHANGED <<rfds, building, want_reset, vct, queue, freq, dest>>
  PROVE  TsInv'
BY DEF TsInv, MpgtsTypeOK, ReadyIsThere, At, Chan

LEMMA StepIInv == IInv /\ [Next]_idVars => IInv'
<1> SUFFICES ASSUME IInv, [Next]_idVars
             PROVE  IInv'
  OBVIOUS
<1>1. CASE get_ch_id
  BY <1>1, TuneStep, PollStep, ReadStatusStep, StartTsStep, WaitStep, GetVctStep, CollectStep
  DEF get_ch_id
<1>2. CASE close
  BY <1>2, CloseStep
<1>3. CASE Thread
  <2>1. CASE thread_main
    <3>1. /\ freq' = freq
          /\ thread'[1] = "fill" => building' # NoVct
          /\ \A c \in Chan :
               /\ want_reset'[c] \in {want_reset[c], 0}
               /\ vct'[c] = NoVct => vct[c] = NoVct \/ thread = At("init", c)
               /\ thread' = At("init", c) => want_reset[c] # 0
      BY <2>1, ThreadFrame DEF IInv, Held, Chan
    <3>2. TsInv'
      BY <2>1, ThreadStep DEF IInv
    <3> QED BY <1>3, <3>1, <3>2, OthersStep DEF Thread
  <2>2. CASE EndThread /\ UNCHANGED <<rfds, building, want_reset, vct, queue, freq, dest>>
    <3>1. TsInv'
      BY <2>2, EndThreadStep DEF EndThread, IInv
    <3> QED BY <3>1, <1>3, <2>2, OthersStep DEF Thread, EndThread, At
  <2> QED BY <1>3, <2>1, <2>2 DEF Thread
<1>4. CASE Environment
  <2>1. PICK c \in Chan : DeviceStreams(c)
    BY <1>4 DEF Environment
  <2>2. UNCHANGED <<freq, want_reset, vct, thread, building>> /\ UNCHANGED mainVars
    BY <2>1, <1>4 DEF DeviceStreams, Environment, threadVars
  <2>3. TsInv'
    BY <2>1, StreamStep DEF IInv
  <2> QED BY <2>2, <2>3, OthersStep DEF IInv, Held
<1>5. CASE UNCHANGED idVars
  <2>1. UNCHANGED mainVars /\ UNCHANGED tsVars
    BY <1>5 DEF idVars
  <2>2. TsInv'
    BY <2>1, TsTypes, TsKept DEF IInv, tsVars
  <2> QED BY <2>1, <2>2, OthersStep DEF IInv, Held, tsVars, threadVars
<1> QED BY <1>1, <1>2, <1>3, <1>4, <1>5 DEF Next

\* The inductive invariant of get_ch_id() and the receiving thread.
THEOREM SpecIInv == Spec => []IInv
BY InitIInv, StepIInv, PTL DEF Spec

LEMMA IInvTypes == IInv => TypeOK
<1> SUFFICES ASSUME IInv
             PROVE  TypeOK
  OBVIOUS
<1>1. \A k \in 1 .. Len(shown) : shown[k].tv \in Tvs
  <2>1. shown \in Seq(Lines)
    BY DEF IInv, MainTypes
  <2>2. \A k \in 1 .. Len(shown) : shown[k] \in Lines
    BY <2>1, ElementOfSeq
  <2> QED BY <2>2 DEF Lines
<1> QED BY <1>1 DEF IInv, TsInv, MainTypes, TypeOK

LEMMA IInvShows == IInv => RemovesWhatItReceived /\ KeepsItsTable
BY DEF IInv, Faithful, Held, Found, RemovesWhatItReceived, KeepsItsTable

LEMMA IInvPolls == IInv => PollsItsEntry /\ NoResetPending
BY DEF IInv, Turns, Polling, Asked, PollsItsEntry, NoResetPending, n_ch

\* Every state of get_ch_id() and of the receiver has the types of GetChId.
THEOREM GetChIdTypeOK == Spec => []TypeOK
BY SpecIInv, IInvTypes, PTL

\* However the thread and get_ch_id() interleave, a table that was found is there
\* when it is asked for again, and the program does not crash on it, unless it
\* was found before init() had freed it.
THEOREM TableKept == Spec => []KeepsItsTable
BY SpecIInv, IInvShows, PTL

\* The channel removed with a table is the one its demodulator received.
THEOREM RightChannelRemoved == Spec => []RemovesWhatItReceived
BY SpecIInv, IInvShows, PTL

\* Each demodulator that is polled is tuned to its entry of the list.
THEOREM EntryPolled == Spec => []PollsItsEntry
BY SpecIInv, IInvPolls, PTL

\* No reset is pending on a demodulator whose table is asked for.
THEOREM ResetNoticed == Spec => []NoResetPending
BY SpecIInv, IInvPolls, PTL
=============================================================================
