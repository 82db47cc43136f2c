------------------------------ MODULE MCDemux ------------------------------
(* Packets with five bytes after the header, two PIDs.  Sections of the     *)
(* least and the greatest length, in one packet and in two or more; the     *)
(* buffer has the one byte more than the longest section that it has in the *)
(* code (0x1003, 0x1002).                                                   *)
EXTENDS Demux

MCSecLen == <<3, 9>>
=============================================================================
