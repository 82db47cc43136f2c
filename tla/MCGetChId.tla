----------------------------- MODULE MCGetChId -----------------------------
(* Three strong entries for two demodulators; one channel was found twice.  *)
EXTENDS GetChId

MCStrong == <<2, 7, 2>>
=============================================================================
