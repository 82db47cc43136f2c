------------------------------- MODULE MCLink -------------------------------
(* A small instance of Link for TLC. *)
EXTENDS Link

CONSTANTS v1, v2

MCValues == {v1, v2}
=============================================================================
