------------------------------ MODULE TimeConv ------------------------------
(***************************************************************************)
(* evutil_tv_to_msec_ (evutil_time.c): a struct timeval as a count of     *)
(* milliseconds, rounded up, or -1 when the count would not fit in a long. *)
(*                                                                         *)
(* long is taken at LONG_BITS bits; the constants 1000, 999 and 1000000 of *)
(* the code are kept.  Signed overflow is undefined in C; the builds wrap  *)
(* in two's complement, and so does the model, so that an overflow shows  *)
(* as a wrong count.  The harness holds one call per state.             *)
(***************************************************************************)
EXTENDS Integers

CONSTANTS
    LONG_BITS,  \* bits of a long: 64
    Secs,       \* the tv_sec values callers pass
    Usecs       \* the tv_usec values callers pass

LONG_MAX == 2^(LONG_BITS - 1) - 1

\* A long result as the build computes it: wrapped to LONG_BITS bits.
Wrap(x) == ((x + 2^(LONG_BITS - 1)) % 2^LONG_BITS) - 2^(LONG_BITS - 1)

\* C's "/", which truncates toward zero.
CDiv(a, b) == IF a >= 0 THEN a \div b ELSE -((-a) \div b)

\* Mutant of MAX_SECONDS_IN_MSEC_LONG: the room for the rounded-up
\* milliseconds is not kept.
MaxSecondsNoRoom == LONG_MAX \div 1000

\* MAX_SECONDS_IN_MSEC_LONG
MAX_SECONDS_IN_MSEC_LONG == (LONG_MAX - 999) \div 1000

\* evutil_tv_to_msec_
TvToMsec(tv) ==
    IF tv.usec > 1000000 \/ tv.sec > MAX_SECONDS_IN_MSEC_LONG
    THEN -1
    ELSE Wrap(Wrap(tv.sec * 1000) + CDiv(tv.usec + 999, 1000))

-----------------------------------------------------------------------------
(* The reference: the exact number of milliseconds in the interval,       *)
(* rounded up, in unbounded integers.                                      *)

CeilDiv(a, b) == -((-a) \div b)

ExactMsec(tv) == tv.sec * 1000 + CeilDiv(tv.usec, 1000)

\* Every timeval a caller passes.
Timevals == [sec : Secs, usec : Usecs]

-----------------------------------------------------------------------------
(* One call of evutil_tv_to_msec_ per state.                               *)

VARIABLES tv, msec

ConvInit ==
    /\ tv \in Timevals
    /\ msec = TvToMsec(tv)

\* Nothing further happens: each state is one call.
ConvDone == UNCHANGED <<tv, msec>>

ConvSpec == ConvInit /\ [][ConvDone]_<<tv, msec>>

-----------------------------------------------------------------------------
(* Properties.                                                             *)

\* evutil_tv_to_msec_ never overflows: it returns -1 or the exact interval
\* in milliseconds rounded up, also for a tv_usec of exactly 1000000 (which
\* the "> 1000000" test lets through) and for tv_sec at the limit; and -1
\* only for out-of-range input or a count near LONG_MAX.
MsecExact ==
    /\ msec # -1 => msec = ExactMsec(tv) /\ ExactMsec(tv) <= LONG_MAX
    /\ msec = -1 => tv.usec > 1000000 \/ ExactMsec(tv) > LONG_MAX - 2000

=============================================================================
