----------------------------- MODULE RemoteCall -----------------------------
(***************************************************************************)
(* What the register calls of class socket (get_gpio() ... set_demodN())   *)
(* promise the tuner that makes them: one call at a time, each carried out *)
(* by the device at most once and in order, and, as long as no call of the *)
(* connection has left its answer behind, a call that returns 0 was        *)
(* carried out: the register holds what was put, or the value returned is  *)
(* the register's.  Once an answer has been left behind the promise is     *)
(* gone until the connection is opened again.                              *)
(***************************************************************************)
EXTENDS Sequences

CONSTANTS Values     \* what a register may hold

VARIABLES
  call,      \* the call being made, or NoCall
  pending,   \* calls the device has not dealt with, the oldest first
  reg,       \* the register
  trusted,   \* no call of this connection has left its answer behind
  result     \* what the last call returned

callVars == <<call, pending, reg, trusted, result>>

NoCall == [op |-> "none"]
Get == [op |-> "get"]
Puts == [op : {"put"}, val : Values]
Call == Puts \cup {Get}

Failed == [err |-> 1]
Results == {Failed} \cup [err : {0}] \cup [err : {0}, val : Values]

Init ==
  /\ call = NoCall
  /\ pending = <<>>
  /\ reg \in Values
  /\ trusted = TRUE
  /\ result = Failed

Begin(q) ==
  /\ call = NoCall
  /\ call' = q
  /\ pending' = Append(pending, q)
  /\ UNCHANGED <<reg, trusted, result>>

CannotBegin ==
  /\ call = NoCall
  /\ result' = Failed
  /\ UNCHANGED <<call, pending, reg, trusted>>

CarryOut ==
  /\ pending # <<>>
  /\ pending' = Tail(pending)
  /\ reg' = IF Head(pending) = Get THEN reg ELSE Head(pending).val
  /\ UNCHANGED <<call, trusted, result>>

Refuse ==
  /\ pending # <<>>
  /\ pending' = Tail(pending)
  /\ UNCHANGED <<call, reg, trusted, result>>

ReturnPut ==
  /\ call \in Puts
  /\ trusted => pending = <<>> /\ reg = call.val
  /\ call' = NoCall
  /\ result' = [err |-> 0]
  /\ UNCHANGED <<pending, reg, trusted>>

ReturnGet(v) ==
  /\ call = Get
  /\ trusted => pending = <<>> /\ v = reg
  /\ call' = NoCall
  /\ result' = [err |-> 0, val |-> v]
  /\ UNCHANGED <<pending, reg, trusted>>

\* A call that fails may leave its request, or its answer, behind.
ReturnFail ==
  /\ call # NoCall
  /\ call' = NoCall
  /\ result' = Failed
  /\ \/ trusted' = FALSE
     \/ pending = <<>> /\ UNCHANGED trusted
  /\ UNCHANGED <<pending, reg>>

Reconnect ==
  /\ call = NoCall
  /\ pending' = <<>>
  /\ trusted' = TRUE
  /\ UNCHANGED <<call, reg, result>>

Next ==
  \/ \E q \in Call : Begin(q)
  \/ CannotBegin
  \/ CarryOut
  \/ Refuse
  \/ ReturnPut
  \/ \E v \in Values : ReturnGet(v)
  \/ ReturnFail
  \/ Reconnect

Spec == Init /\ [][Next]_callVars

=============================================================================
