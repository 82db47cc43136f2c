-------------------------------- MODULE Link --------------------------------
(***************************************************************************)
(* The control connection of class socket (socket.cpp 306-473 and the      *)
(* register calls 475-783), one system call at a time: a call writes its   *)
(* request, waits in pselect(), asks FIONREAD how much has arrived, reads  *)
(* the four bytes of a header, then the rest.  The device (external)       *)
(* serves the requests of a connection in order.  TCP may deliver an       *)
(* answer in several pieces, and the device may close the connection       *)
(* between any two.                                                        *)
(***************************************************************************)
EXTENDS Integers, Sequences

CONSTANTS
  Values,        \* what a register may hold
  MaxOwed        \* bound: requests and answers on the connection

ASSUME LinkAssumption == MaxOwed \in Nat

VARIABLES
  pc,        \* where write_then_read() is; "closed": sock = -1
  call,      \* the call being made
  requests,  \* requests written that the device has not dealt with
  answers,   \* answers of the device that read() has not consumed
  whole,     \* how many of the answers have arrived whole
  part,      \* what has arrived of the next: 0 none, 1 under 4 bytes, 2 more
  eof,       \* the device has closed the connection
  reg,       \* the device: its register
  result     \* what the last call returned

vars == <<pc, call, requests, answers, whole, part, eof, reg, result>>

NoCall == [op |-> "none"]
Get == [op |-> "get"]
Puts == [op : {"put"}, val : Values]
Call == Puts \cup {Get}

Ack == [kind |-> "ack"]
Fault == [kind |-> "fault"]
Bytes == [kind : {"byte"}, val : Values]

Answers == {Ack, Fault} \cup Bytes

Failed == [err |-> 1]
Results == {Failed} \cup [err : {0}] \cup [err : {0}, val : Values]

Owed == Len(requests) + Len(answers)
Waiting == pc \in {"wait", "body", "spin"}

Init ==
  /\ pc = "closed"
  /\ call = NoCall
  /\ requests = <<>> /\ answers = <<>> /\ whole = 0 /\ part = 0
  /\ eof = FALSE
  /\ reg \in Values
  /\ result = Failed

-----------------------------------------------------------------------------
(* The client *)

\* socket::open() whose connect() succeeds; a failing one leaves sock = -1.
open ==
  /\ pc = "closed"
  /\ pc' = "idle"
  /\ UNCHANGED <<call, requests, answers, whole, part, eof, reg, result>>

close ==
  /\ pc = "idle"
  /\ pc' = "closed"
  /\ requests' = <<>> /\ answers' = <<>> /\ whole' = 0 /\ part' = 0
  /\ eof' = FALSE
  /\ UNCHANGED <<call, reg, result>>

write(q) ==
  /\ pc = "idle" /\ Owed < MaxOwed
  /\ pc' = "wait"
  /\ call' = q
  /\ requests' = Append(requests, q)
  /\ UNCHANGED <<answers, whole, part, eof, reg, result>>

\* ::write() failed, or the call was made on a closed socket.
write_fails ==
  /\ pc \in {"idle", "closed"}
  /\ result' = Failed
  /\ UNCHANGED <<pc, call, requests, answers, whole, part, eof, reg>>

Return(r) ==
  /\ pc' = "idle"
  /\ call' = NoCall
  /\ result' = r

\* Mutant: the deadline starts again each time pselect() returns.
timeoutAfresh ==
  /\ pc = "wait" /\ whole > 0
  /\ Return(Failed)
  /\ UNCHANGED <<requests, answers, whole, part, eof, reg>>

\* 400 ms have passed, pselect() failed or malloc() did: the answer may have
\* arrived meanwhile, nobody looks.
timeout ==
  /\ pc = "wait"
  /\ Return(Failed)
  /\ UNCHANGED <<requests, answers, whole, part, eof, reg>>

\* pselect() woke up for fewer bytes than a header, or for the end of the
\* stream: read() returns nothing and the bytes stay where they are.
read_few ==
  /\ pc = "wait"
  /\ whole = 0
  /\ part = 1 \/ (part = 0 /\ eof)
  /\ Return(Failed)
  /\ UNCHANGED <<requests, answers, whole, part, eof, reg>>

read_header ==
  /\ pc = "wait"
  /\ whole > 0 \/ part = 2
  /\ pc' = "body"
  /\ UNCHANGED <<call, requests, answers, whole, part, eof, reg, result>>

\* Mutant: the length of the answer is not looked at.
AnyLength(a) ==
  IF call = Get THEN [err |-> 0, val |-> IF a.kind = "byte" THEN a.val ELSE reg]
  ELSE [err |-> 0]

\* Mutant: whatever the answer holds is taken for the register.
AnyAnswer(a) ==
  IF call = Get THEN [err |-> 0, val |-> IF a.kind = "byte" THEN a.val ELSE a.kind]
  ELSE IF a = Ack THEN [err |-> 0]
  ELSE Failed

\* What a register call makes of an answer: its length tells a byte from an ack.
Outcome(a) ==
  IF call = Get THEN (IF a.kind = "byte" THEN [err |-> 0, val |-> a.val] ELSE Failed)
  ELSE IF a = Ack THEN [err |-> 0]
  ELSE Failed

read_body ==
  /\ pc = "body"
  /\ \/ /\ whole > 0
        /\ Return(Outcome(Head(answers)))
        /\ answers' = Tail(answers) /\ whole' = whole - 1
     \/ /\ whole = 0 /\ eof           \* ::read() returns 0 from now on
        /\ pc' = "spin"
        /\ UNCHANGED <<call, answers, whole, result>>
     \/ /\ eof                         \* the connection was reset
        /\ Return(Failed)
        /\ UNCHANGED <<answers, whole>>
  /\ UNCHANGED <<requests, part, eof, reg>>

-----------------------------------------------------------------------------
(* The device, and what TCP delivers of its answers *)

AnswerTo(q) ==
  IF q = Get THEN [kind |-> "byte", val |-> reg] ELSE Ack

serve ==
  /\ requests # <<>> /\ ~eof
  /\ requests' = Tail(requests)
  /\ \/ /\ answers' = Append(answers, AnswerTo(Head(requests)))
        /\ reg' = IF Head(requests) = Get THEN reg ELSE Head(requests).val
     \/ /\ answers' = Append(answers, Fault)
        /\ UNCHANGED reg
  /\ UNCHANGED <<pc, call, whole, part, eof, result>>

arrive ==
  /\ whole < Len(answers) /\ ~eof
  /\ \/ \E p \in 1 .. 2 : p > part /\ part' = p /\ UNCHANGED whole
     \/ part' = 0 /\ whole' = whole + 1
  /\ UNCHANGED <<pc, call, requests, answers, eof, reg, result>>

\* A header that has arrived is followed by the rest of its answer.
arrive_rest ==
  /\ whole < Len(answers) /\ part = 2 /\ ~eof
  /\ part' = 0 /\ whole' = whole + 1
  /\ UNCHANGED <<pc, call, requests, answers, eof, reg, result>>

disconnect ==
  /\ pc # "closed" /\ ~eof
  /\ eof' = TRUE
  /\ UNCHANGED <<pc, call, requests, answers, whole, part, reg, result>>

Client ==
  \/ timeout
  \/ read_few
  \/ read_header
  \/ read_body

Next ==
  \/ open
  \/ close
  \/ \E q \in Call : write(q)
  \/ write_fails
  \/ Client
  \/ serve
  \/ arrive
  \/ disconnect

\* A call goes on until it returns, and the device, or TCP, completes an
\* answer whose header has been delivered, unless the connection ends.
Fairness == WF_vars(Client) /\ WF_vars(arrive_rest)

Spec == Init /\ [][Next]_vars

FairSpec == Spec /\ Fairness

-----------------------------------------------------------------------------
(* Properties *)

\* The type of the state of the client, of the stream and of the device.
TypeOK ==
  /\ pc \in {"closed", "idle", "wait", "body", "spin"}
  /\ call \in Call \cup {NoCall}
  /\ requests \in Seq(Call)
  /\ answers \in Seq(Answers)
  /\ whole \in Nat
  /\ part \in 0 .. 2
  /\ eof \in BOOLEAN
  /\ reg \in Values
  /\ result \in Results

\* The register calls keep the promise of RemoteCall: answers carry no number
\* and may be late, in pieces or refused, yet a call returns 0 only for what
\* the device did with its own request, until a call gives up on its answer
\* (socket.cpp 417-421, 354-357), which is then read by the next one.
R == INSTANCE RemoteCall WITH
       pending <- requests,
       trusted <- Owed = IF Waiting THEN 1 ELSE 0

Remote == R!Spec

\* Every call returns, unless the connection ends under it: a device that never
\* answers costs 400 ms, and a header that was read is followed by its body.
CallReturns == (pc = "wait" \/ pc = "body") ~> (pc = "idle" \/ eof)
=============================================================================
