------------------------------ MODULE MCTables ------------------------------
(* A small instance of Tables for TLC: program tables that grow, shrink and *)
(* do without program 3, a PMT that may move to another PID.                *)
EXTENDS Tables, TLC

MCPatBodies == {3 :> 50, (1 :> 60 @@ 4 :> 70), (1 :> 60 @@ 3 :> 51)}
=============================================================================
