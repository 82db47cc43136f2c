----------------------------- MODULE LinkProofs -----------------------------
(***************************************************************************)
(* Link implements RemoteCall, for every set of values and every bound.    *)
(***************************************************************************)
EXTENDS Link, TLAPS

\* What read_body() needs of the stream: the answers that have arrived are
\* answers, and a header that was read has one.
StreamOK ==
  /\ whole <= Len(answers)
  /\ part # 0 => whole < Len(answers)
  /\ pc = "body" => whole > 0 \/ part = 2

\* A call owns at least its own request or answer.
CallOK ==
  /\ Waiting => call \in Call /\ Owed >= 1
  /\ ~ Waiting => call = NoCall
  /\ pc = "closed" => requests = <<>> /\ answers = <<>>

\* The answer a call is given when the device has carried it out.
Carried(a) ==
  \/ call = Get /\ a = [kind |-> "byte", val |-> reg]
  \/ call \in Puts /\ a = Ack /\ reg = call.val

\* A call that nothing was left to before it finds its own request or answer.
OwnAnswer ==
  Waiting /\ Owed = 1 =>
    \/ requests = <<call>> /\ answers = <<>>
    \/ /\ requests = <<>> /\ Len(answers) = 1
       /\ answers[1] = Fault \/ Carried(answers[1])

IInv == TypeOK /\ StreamOK /\ CallOK /\ OwnAnswer

-----------------------------------------------------------------------------
LEMMA EmptyIsSeq ==
  ASSUME NEW S
  PROVE  <<>> \in Seq(S) /\ Len(<<>>) = 0
OBVIOUS

LEMMA FailedIsResult == Failed \in Results
BY DEF Results

LEMMA InitIInv == Init => IInv
<1> SUFFICES ASSUME Init PROVE IInv
  OBVIOUS
<1>1. TypeOK
  <2>1. requests \in Seq(Call) /\ answers \in Seq(Answers)
    BY EmptyIsSeq DEF Init
  <2>2. pc = "closed" /\ call = NoCall /\ whole = 0 /\ part = 0 /\ eof \in BOOLEAN
        /\ reg \in Values /\ result \in Results
    BY FailedIsResult DEF Init
  <2> QED BY <2>1, <2>2 DEF TypeOK
<1>2. StreamOK /\ CallOK /\ OwnAnswer
  BY EmptyIsSeq DEF Init, StreamOK, CallOK, OwnAnswer, Waiting
<1> QED BY <1>1, <1>2 DEF IInv

LEMMA OutcomeIsResult ==
  ASSUME NEW a \in Answers
  PROVE  Outcome(a) \in Results
BY DEF Outcome, Answers, Ack, Fault, Bytes, Results, Failed

LEMMA AnswersAreAnswers ==
  ASSUME NEW q \in Call, reg \in Values
  PROVE  AnswerTo(q) \in Answers /\ Fault \in Answers
BY DEF AnswerTo, Answers, Bytes

LEMMA PutsHaveValues ==
  ASSUME NEW q \in Call, q # Get
  PROVE  q \in Puts /\ q.val \in Values
BY DEF Call, Puts

LEMMA GetIsNoPut == Get \notin Puts /\ NoCall \notin Call /\ NoCall # Get
BY DEF Get, Puts, NoCall, Call

LEMMA TypeStep ==
  ASSUME TypeOK, StreamOK, CallOK, [Next]_vars
  PROVE  TypeOK'
<1> USE DEF TypeOK
<1>1. CASE open BY <1>1 DEF open
<1>2. CASE close
  <2>1. requests' \in Seq(Call) /\ answers' \in Seq(Answers)
    BY <1>2, EmptyIsSeq DEF close
  <2>2. /\ pc' = "closed" /\ whole' = 0 /\ part' = 0 /\ eof' \in BOOLEAN
        /\ UNCHANGED <<call, reg, result>>
    BY <1>2 DEF close
  <2> QED BY <2>1, <2>2
<1>3. ASSUME NEW q \in Call, write(q) PROVE TypeOK'
  BY <1>3 DEF write
<1>4. CASE write_fails BY <1>4, FailedIsResult DEF write_fails
<1>5. CASE timeout BY <1>5, FailedIsResult DEF timeout, Return
<1>6. CASE read_few BY <1>6, FailedIsResult DEF read_few, Return
<1>7. CASE read_header BY <1>7 DEF read_header
<1>8. CASE read_body
  <2>1. CASE whole > 0 /\ Return(Outcome(Head(answers)))
              /\ answers' = Tail(answers) /\ whole' = whole - 1
    <3>1. answers # <<>> /\ Head(answers) \in Answers
      BY <2>1 DEF StreamOK
    <3>2. Outcome(Head(answers)) \in Results
      BY <3>1, OutcomeIsResult
    <3> QED BY <1>8, <2>1, <3>1, <3>2 DEF read_body, Return
  <2>2. CASE UNCHANGED <<answers, whole>>
    BY <1>8, <2>2, FailedIsResult DEF read_body, Return, StreamOK
  <2> QED BY <1>8, <2>1, <2>2 DEF read_body
<1>9. CASE serve
  <2>1. Head(requests) \in Call /\ Tail(requests) \in Seq(Call)
    BY <1>9 DEF serve
  <2>2. reg' \in Values
    BY <1>9, <2>1, PutsHaveValues DEF serve
  <2>3. AnswerTo(Head(requests)) \in Answers /\ Fault \in Answers
    BY <2>1, AnswersAreAnswers
  <2>4. Append(answers, AnswerTo(Head(requests))) \in Seq(Answers)
        /\ Append(answers, Fault) \in Seq(Answers)
    BY <2>3
  <2> QED BY <1>9, <2>1, <2>2, <2>4 DEF serve
<1>10. CASE arrive BY <1>10 DEF arrive
<1>11. CASE disconnect BY <1>11 DEF disconnect
<1>12. CASE UNCHANGED vars BY <1>12 DEF vars
<1> QED
  BY <1>1, <1>2, <1>3, <1>4, <1>5, <1>6, <1>7, <1>8, <1>9, <1>10, <1>11, <1>12 DEF Next, Client

LEMMA StreamStep ==
  ASSUME TypeOK, StreamOK, CallOK, [Next]_vars
  PROVE  StreamOK'
<1> USE DEF StreamOK, TypeOK
<1>1. CASE open BY <1>1 DEF open
<1>2. CASE close BY <1>2 DEF close
<1>3. ASSUME NEW q \in Call, write(q) PROVE StreamOK'
  BY <1>3 DEF write
<1>4. CASE write_fails BY <1>4 DEF write_fails
<1>5. CASE timeout BY <1>5 DEF timeout, Return
<1>6. CASE read_few BY <1>6 DEF read_few, Return
<1>7. CASE read_header BY <1>7 DEF read_header
<1>8. CASE read_body BY <1>8 DEF read_body, Return
<1>9. CASE serve
  <2>1. Len(answers') = Len(answers) + 1
    BY <1>9 DEF serve
  <2> QED BY <1>9, <2>1 DEF serve
<1>10. CASE arrive BY <1>10 DEF arrive
<1>11. CASE disconnect BY <1>11 DEF disconnect
<1>12. CASE UNCHANGED vars BY <1>12 DEF vars
<1> QED
  BY <1>1, <1>2, <1>3, <1>4, <1>5, <1>6, <1>7, <1>8, <1>9, <1>10, <1>11, <1>12 DEF Next, Client

LEMMA CallStep ==
  ASSUME TypeOK, StreamOK, CallOK, [Next]_vars
  PROVE  CallOK'
<1> USE DEF CallOK, TypeOK, Waiting, Owed
<1>1. CASE open BY <1>1 DEF open
<1>2. CASE close BY <1>2 DEF close
<1>3. ASSUME NEW q \in Call, write(q) PROVE CallOK'
  BY <1>3 DEF write
<1>4. CASE write_fails BY <1>4 DEF write_fails
<1>5. CASE timeout BY <1>5 DEF timeout, Return
<1>6. CASE read_few BY <1>6 DEF read_few, Return
<1>7. CASE read_header BY <1>7 DEF read_header
<1>8. CASE read_body BY <1>8 DEF read_body, Return
<1>9. CASE serve
  <2>1. Len(answers') = Len(answers) + 1 /\ Len(requests') = Len(requests) - 1
    BY <1>9 DEF serve
  <2> QED BY <1>9, <2>1 DEF serve
<1>10. CASE arrive BY <1>10 DEF arrive
<1>11. CASE disconnect BY <1>11 DEF disconnect
<1>12. CASE UNCHANGED vars BY <1>12 DEF vars
<1> QED
  BY <1>1, <1>2, <1>3, <1>4, <1>5, <1>6, <1>7, <1>8, <1>9, <1>10, <1>11, <1>12 DEF Next, Client

LEMMA AnswerStep ==
  ASSUME TypeOK, StreamOK, CallOK, OwnAnswer, [Next]_vars
  PROVE  OwnAnswer'
<1>1. CASE open BY <1>1 DEF open, OwnAnswer, Waiting
<1>2. CASE close BY <1>2 DEF close, OwnAnswer, Waiting
<1>3. ASSUME NEW q \in Call, write(q) PROVE OwnAnswer'
  <2> SUFFICES ASSUME Owed' = 1 PROVE requests' = <<q>> /\ answers' = <<>>
    BY <1>3 DEF write, OwnAnswer
  <2>1. Len(requests') = Len(requests) + 1
    BY <1>3 DEF write, TypeOK
  <2>2. Len(requests) = 0 /\ Len(answers) = 0
    BY <1>3, <2>1 DEF write, TypeOK, Owed
  <2>3. requests = <<>> /\ answers = <<>>
    BY <2>2 DEF TypeOK
  <2> QED BY <1>3, <2>3 DEF write
<1>4. CASE write_fails BY <1>4 DEF write_fails, OwnAnswer, Waiting, Owed, Carried
<1>5. CASE timeout BY <1>5 DEF timeout, Return, OwnAnswer, Waiting
<1>6. CASE read_few BY <1>6 DEF read_few, Return, OwnAnswer, Waiting
<1>7. CASE read_header
  BY <1>7 DEF read_header, OwnAnswer, Waiting, Owed, Carried
<1>8. CASE read_body
  BY <1>8 DEF read_body, Return, OwnAnswer, Waiting, Owed, Carried
<1>9. CASE serve
  <2> SUFFICES ASSUME Waiting, Owed' = 1
               PROVE  /\ requests' = <<>> /\ Len(answers') = 1
                      /\ answers'[1] = Fault \/ Carried(answers[1])'
    BY <1>9 DEF serve, OwnAnswer, Waiting
  <2>1. /\ Len(requests') = Len(requests) - 1 /\ Len(answers') = Len(answers) + 1
        /\ Len(requests) \in Nat /\ Len(answers) \in Nat
    BY <1>9 DEF serve, TypeOK
  <2>2. Owed = 1
    BY <2>1 DEF Owed
  <2>3. requests = <<call>> /\ answers = <<>>
    BY <1>9, <2>2 DEF serve, OwnAnswer
  <2>4. requests' = <<>> /\ Len(answers') = 1 /\ Head(requests) = call
    BY <1>9, <2>3 DEF serve
  <2>5. CASE answers' = Append(answers, AnswerTo(Head(requests)))
             /\ reg' = IF Head(requests) = Get THEN reg ELSE Head(requests).val
    <3>1. answers'[1] = AnswerTo(call)
      BY <2>3, <2>4, <2>5
    <3>2. call' = call /\ call \in Call
      BY <1>9 DEF serve, CallOK
    <3>3. CASE call = Get
      BY <2>4, <2>5, <3>1, <3>2, <3>3 DEF AnswerTo, Carried
    <3>4. CASE call \in Puts
      BY <2>4, <2>5, <3>1, <3>2, <3>4, GetIsNoPut DEF AnswerTo, Carried
    <3> QED BY <2>4, <3>2, <3>3, <3>4 DEF Call
  <2>6. CASE answers' = Append(answers, Fault) /\ UNCHANGED reg
    BY <2>3, <2>4, <2>6
  <2> QED BY <1>9, <2>5, <2>6 DEF serve
<1>10. CASE arrive BY <1>10 DEF arrive, OwnAnswer, Waiting, Owed, Carried
<1>11. CASE disconnect BY <1>11 DEF disconnect, OwnAnswer, Waiting, Owed, Carried
<1>12. CASE UNCHANGED vars BY <1>12 DEF vars, OwnAnswer, Waiting, Owed, Carried
<1> QED
  BY <1>1, <1>2, <1>3, <1>4, <1>5, <1>6, <1>7, <1>8, <1>9, <1>10, <1>11, <1>12 DEF Next, Client

\* The inductive invariant of the control connection.
THEOREM SpecIInv == Spec => []IInv
<1>1. IInv /\ [Next]_vars => IInv'
  BY TypeStep, StreamStep, CallStep, AnswerStep DEF IInv
<1> QED BY InitIInv, <1>1, PTL DEF Spec

-----------------------------------------------------------------------------
(* The refinement *)

LEMMA SameNames ==
  R!Get = Get /\ R!Puts = Puts /\ R!Call = Call /\ R!NoCall = NoCall /\ R!Failed = Failed
BY DEF R!Get, Get, R!Puts, Puts, R!Call, Call, R!NoCall, NoCall, R!Failed, Failed

LEMMA OwedIsNat == TypeOK => Owed \in Nat /\ Owed = Len(requests) + Len(answers)
BY DEF TypeOK, Owed

\* A call that leaves its request or answer behind.
LEMMA GivesUp ==
  ASSUME IInv, Waiting, Return(Failed), UNCHANGED <<requests, answers, reg>>
  PROVE  R!ReturnFail
<1>1. call # NoCall
  BY GetIsNoPut DEF IInv, CallOK
<1>2. Owed' >= 1 /\ ~ Waiting'
  BY DEF IInv, CallOK, Owed, Waiting, Return
<1>3. (Owed = IF Waiting THEN 1 ELSE 0)' = FALSE
  BY <1>2
<1> QED BY <1>1, <1>3, SameNames DEF R!ReturnFail, Return

LEMMA ReadsAnswer ==
  ASSUME IInv, pc = "body", whole > 0, Return(Outcome(Head(answers))),
         answers' = Tail(answers), UNCHANGED <<requests, reg>>
  PROVE  R!ReturnPut \/ (\E v \in Values : R!ReturnGet(v)) \/ R!ReturnFail
<1> DEFINE trusted == Owed = IF Waiting THEN 1 ELSE 0
<1>1. Waiting /\ ~ Waiting' /\ call \in Call /\ call # NoCall
  BY GetIsNoPut DEF IInv, CallOK, Waiting, Return
<1>2. answers # <<>> /\ Len(answers) >= 1 /\ Head(answers) = answers[1] /\ Head(answers) \in Answers
  BY DEF IInv, TypeOK, StreamOK
<1>3. Len(answers') = Len(answers) - 1 /\ Len(answers) \in Nat /\ Len(requests) \in Nat
  BY <1>2 DEF IInv, TypeOK
<1>4. Owed' = Owed - 1 /\ Owed \in Nat
  BY <1>3 DEF Owed
<1>5. trusted' = trusted
  BY <1>1, <1>4
<1>6. ASSUME trusted
      PROVE  requests = <<>> /\ (Head(answers) = Fault \/ Carried(Head(answers)))
  BY <1>1, <1>2, <1>6 DEF IInv, OwnAnswer
<1> HIDE DEF trusted
<1>7. CASE Outcome(Head(answers)) = Failed
  <2>1. trusted => requests = <<>>
    BY <1>6
  <2>2. trusted' = FALSE \/ (requests = <<>> /\ trusted' = trusted)
    BY <1>5, <2>1 DEF trusted
  <2>3. R!ReturnFail
    BY <1>1, <1>7, <2>2, SameNames DEF R!ReturnFail, Return, trusted
  <2> QED BY <2>3
<1>8. CASE Outcome(Head(answers)) # Failed
  <2>1. CASE call = Get
    <3>1. Head(answers).kind = "byte"
      BY <1>8, <2>1 DEF Outcome
    <3>2. Head(answers) \in Bytes /\ Head(answers).val \in Values /\ Head(answers) # Fault
      BY <1>2, <3>1 DEF Answers, Ack, Fault, Bytes
    <3>3. Outcome(Head(answers)) = [err |-> 0, val |-> Head(answers).val]
      BY <2>1, <3>1 DEF Outcome
    <3>4. trusted => requests = <<>> /\ Head(answers).val = reg
      BY <1>6, <2>1, <3>2, GetIsNoPut DEF Carried
    <3>5. R!ReturnGet(Head(answers).val)
      BY <1>1, <1>5, <2>1, <3>3, <3>4, SameNames DEF R!ReturnGet, Return, trusted
    <3> QED BY <3>2, <3>5
  <2>2. CASE call # Get
    <3>1. call \in Puts
      BY <1>1, <2>2, PutsHaveValues
    <3>2. Head(answers) = Ack /\ Outcome(Head(answers)) = [err |-> 0]
      BY <1>8, <2>2 DEF Outcome
    <3>3. Ack # Fault
      BY DEF Ack, Fault
    <3>4. trusted => requests = <<>> /\ reg = call.val
      BY <1>6, <2>2, <3>2, <3>3 DEF Carried
    <3>5. R!ReturnPut
      BY <1>5, <3>1, <3>2, <3>4, SameNames DEF R!ReturnPut, Return, trusted
    <3> QED BY <3>5
  <2> QED BY <2>1, <2>2
<1> QED BY <1>7, <1>8

LEMMA InitMaps == Init => R!Init
<1> SUFFICES ASSUME Init PROVE R!Init
  OBVIOUS
<1>1. Owed = 0 /\ ~ Waiting
  BY EmptyIsSeq DEF Init, Owed, Waiting
<1> QED BY <1>1, SameNames DEF Init, R!Init

LEMMA StepMaps ==
  ASSUME IInv, [Next]_vars
  PROVE  [R!Next]_(R!callVars)
<1>1. CASE open
  <2>1. Owed = 0 /\ Owed' = 0 /\ ~ Waiting /\ ~ Waiting'
    BY <1>1, EmptyIsSeq DEF open, IInv, CallOK, Owed, Waiting
  <2> QED BY <1>1, <2>1 DEF open, R!callVars
<1>2. CASE close
  <2>1. Owed' = 0 /\ ~ Waiting' /\ call = NoCall
    BY <1>2, EmptyIsSeq DEF close, IInv, CallOK, Owed, Waiting
  <2> QED BY <1>2, <2>1, SameNames DEF close, R!Reconnect, R!Next
<1>3. ASSUME NEW q \in Call, write(q) PROVE R!Next
  <2>1. Waiting' /\ ~ Waiting /\ call = NoCall
    BY <1>3 DEF write, IInv, CallOK, Waiting
  <2>2. Owed' = Owed + 1 /\ Owed \in Nat
    BY <1>3 DEF write, IInv, TypeOK, Owed
  <2>3. R!Begin(q)
    BY <1>3, <2>1, <2>2, SameNames DEF write, R!Begin
  <2> QED BY <2>3, SameNames DEF R!Next
<1>4. CASE write_fails
  <2>1. ~ Waiting /\ ~ Waiting' /\ Owed' = Owed /\ call = NoCall
    BY <1>4 DEF write_fails, IInv, CallOK, Owed, Waiting
  <2> QED BY <1>4, <2>1, SameNames DEF write_fails, R!CannotBegin, R!Next
<1>5. CASE timeout
  BY <1>5, GivesUp DEF timeout, R!Next, Waiting
<1>6. CASE read_few
  BY <1>6, GivesUp DEF read_few, R!Next, Waiting
<1>7. CASE read_header
  <2>1. Waiting /\ Waiting' /\ Owed' = Owed
    BY <1>7 DEF read_header, Waiting, Owed
  <2> QED BY <1>7, <2>1 DEF read_header, R!callVars
<1>8. CASE read_body
  <2>1. CASE whole > 0 /\ Return(Outcome(Head(answers))) /\ answers' = Tail(answers)
    BY <1>8, <2>1, ReadsAnswer DEF read_body, R!Next
  <2>2. CASE pc' = "spin" /\ UNCHANGED <<call, answers, whole, result>>
    <3>1. Waiting /\ Waiting' /\ Owed' = Owed
      BY <1>8, <2>2 DEF read_body, Waiting, Owed
    <3> QED BY <1>8, <2>2, <3>1 DEF read_body, R!callVars
  <2>3. CASE Return(Failed) /\ UNCHANGED <<answers, whole>>
    BY <1>8, <2>3, GivesUp DEF read_body, R!Next, Waiting
  <2> QED BY <1>8, <2>1, <2>2, <2>3 DEF read_body
<1>9. CASE serve
  <2>1. Len(answers') = Len(answers) + 1 /\ Len(requests') = Len(requests) - 1
        /\ Len(answers) \in Nat /\ Len(requests) \in Nat
    BY <1>9 DEF serve, IInv, TypeOK
  <2>2. Owed' = Owed /\ Waiting' = Waiting
    BY <1>9, <2>1 DEF serve, Owed, Waiting
  <2>3. R!CarryOut \/ R!Refuse
    BY <1>9, <2>2, SameNames DEF serve, R!CarryOut, R!Refuse
  <2> QED BY <2>3 DEF R!Next
<1>10. CASE arrive
  <2>1. Waiting' = Waiting /\ Owed' = Owed
    BY <1>10 DEF arrive, Waiting, Owed
  <2> QED BY <1>10, <2>1 DEF arrive, R!callVars
<1>11. CASE disconnect
  <2>1. Waiting' = Waiting /\ Owed' = Owed
    BY <1>11 DEF disconnect, Waiting, Owed
  <2> QED BY <1>11, <2>1 DEF disconnect, R!callVars
<1>12. CASE UNCHANGED vars
  <2>1. Waiting' = Waiting /\ Owed' = Owed
    BY <1>12 DEF vars, Waiting, Owed
  <2> QED BY <1>12, <2>1 DEF vars, R!callVars
<1> QED
  BY <1>1, <1>2, <1>3, <1>4, <1>5, <1>6, <1>7, <1>8, <1>9, <1>10, <1>11, <1>12 DEF Next, Client

\* The calls of class socket keep the promise of RemoteCall, for every set of
\* register values and every number of answers left behind.
THEOREM LinkImplementsRemoteCall == Spec => Remote
<1>1. IInv /\ [Next]_vars => [R!Next]_(R!callVars)
  BY StepMaps
<1>2. Spec => R!Spec
  BY InitMaps, <1>1, SpecIInv, PTL DEF Spec, R!Spec
<1> QED BY <1>2 DEF Remote

\* The type of the connection's state, for every set of values and every bound.
THEOREM LinkTypeOK == Spec => []TypeOK
<1>1. IInv => TypeOK
  BY DEF IInv
<1> QED BY <1>1, SpecIInv, PTL
=============================================================================
