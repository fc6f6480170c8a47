---------------------------- MODULE MC_TimeConv ----------------------------
(* long at 21 bits (LONG_MAX 1048575, MAX_SECONDS_IN_MSEC_LONG 1047); the  *)
(* seconds around that limit and the microseconds around each whole       *)
(* millisecond and around 1000000.                                         *)
EXTENDS TimeConv

MCLongBits == 21
MCSecs == {0, 1, 2, 1045, 1046, 1047, 1048, 1049, 2^20 - 1}
MCUsecs == {0, 1, 2, 998, 999, 1000, 1001, 1999, 2000, 500000,
            999000, 999001, 999999, 1000000, 1000001}
=============================================================================
