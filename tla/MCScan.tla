------------------------------- MODULE MCScan -------------------------------
(* A small instance of Scan: three channels, so that a turn over the even    *)
(* indices has both demodulators, and one over the odd ones a single one.    *)
EXTENDS Scan

MCFreq == [k \in 0 .. 2 |-> <<57, 177, 473>>[k + 1]]

NoneAsked == [ch \in {0, 1} |-> {}]
=============================================================================
