--------------------------- MODULE MCTunerTable ----------------------------
(* Tuner with the table of tuner.cpp 577-627, to tune to TV channel 7.      *)
EXTENDS Tuner

RealFreq ==
  [i \in 0 .. 49 |->
     CASE i <= 2  -> 57 + 6 * i
       [] i \in 3 .. 4 -> 79 + 6 * (i - 3)
       [] i \in 5 .. 11 -> 177 + 6 * (i - 5)
       [] OTHER -> 473 + 6 * (i - 12)]

SevenAsked == [ch \in {0, 1} |-> {7}]
=============================================================================
