------------------------------ MODULE MCTuner ------------------------------
(* A small instance of Tuner: a table of three channels.  By the index of    *)
(* line 291 TV channel 1 gets the frequency of 2 and TV channel 2 that of 3; *)
(* channel 3 reads past the table.  Demodulator 0 is asked for all of them,  *)
(* demodulator 1 for TV channel 1.                                           *)
EXTENDS Tuner

MCFreq == [i \in 0 .. 2 |-> <<57, 473, 479>>[i + 1]]

MCAsked == [ch \in {0, 1} |-> IF ch = 0 THEN {1, 2, 3} ELSE {1}]

=============================================================================
