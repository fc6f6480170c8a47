------------------------- MODULE MC_MonotonicTimer -------------------------
(* Instantiation of MonotonicTimer for TLC: two microseconds to a second  *)
(* and two nanoseconds to a microsecond, so that every carry, borrow and *)
(* truncation occurs; host clocks up to 2 s, returned values up to 4 s.   *)
EXTENDS MonotonicTimer

\* Every combination of the two flags, the empty one included.
MCFlagSets == SUBSET {"PRECISE", "FALLBACK"}
=============================================================================
