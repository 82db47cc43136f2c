------------------------------ MODULE MCRecord ------------------------------
(* Channel 7 is recorded; the scan has left the tuner at any of the three.  *)
EXTENDS Record
=============================================================================
