------------------------------ MODULE MC_Time ------------------------------
(***************************************************************************)
(* The small harnesses in one model: the monotonic timer of              *)
(* MC_MonotonicTimer, the calls of evutil_tv_to_msec_ of MC_TimeConv, the *)
(* weak random number generator of WeakRand and the calls of the ASCII  *)
(* helpers of Ascii.  harness tells the sets                               *)
(* of behaviours apart; the variables of the other harnesses keep an      *)
(* initial value throughout.                                              *)
(*                                                                         *)
(* The generator is taken at 5 bits; the tops are both ends of            *)
(* 1..WEAKRAND_MAX and a power of two; the seeds include 0 (seed from the *)
(* clock) and one with the uint32_t bit set.                               *)
(*                                                                         *)
(* The ASCII strings are up to two bytes of tab, space, 'A', '[' (between *)
(* 'Z' and 'a'), 'a' and a byte above 127, so that case folding, the      *)
(* order around the letters, trailing white space and the sign of a char  *)
(* all matter.                                                             *)
(***************************************************************************)
EXTENDS MC_MonotonicTimer, MC_TimeConv, Ascii

VARIABLES harness, seed, pc, top, divisor, result

WR == INSTANCE WeakRand WITH W <- 5, Tops <- {1, 3, 16, 31},
                             SeedArgs <- {0, 5, 40}

timerVars == <<timer, configured, wall, mono, monoWorks, returned, lastRaw,
               readClock>>
randVars == <<seed, pc, top, divisor, result>>
asciiVars == <<byte, str1, str2, count>>
timeVars == <<timerVars, tv, msec, randVars, asciiVars, harness>>

MCAlphabet == {9, 32, 65, 91, 97, 200}

TimerIdle ==
    /\ timer = [monotonic_clock |-> CLOCK_REALTIME,
                adjust_monotonic_clock |-> Zero, last_time |-> Zero]
    /\ configured = FALSE /\ wall = Zero /\ mono = [sec |-> 0, nsec |-> 0]
    /\ monoWorks = FALSE /\ returned = NoTime /\ lastRaw = NoTime
    /\ readClock = NoClock

ConvIdle == tv = [sec |-> 0, usec |-> 0] /\ msec = TvToMsec(tv)

AsciiIdle == byte = 0 /\ str1 = <<>> /\ str2 = <<>> /\ count = 0

TimeInit ==
    \/ harness = "timer" /\ Init /\ ConvIdle /\ WR!Init /\ AsciiIdle
    \/ harness = "conv" /\ TimerIdle /\ ConvInit /\ WR!Init /\ AsciiIdle
    \/ harness = "weakrand" /\ TimerIdle /\ ConvIdle /\ WR!Init /\ AsciiIdle
    \/ harness = "ascii" /\ TimerIdle /\ ConvIdle /\ WR!Init /\ AsciiInit

TimeNext ==
    \/ harness = "timer" /\ Next
       /\ UNCHANGED <<tv, msec, randVars, asciiVars, harness>>
    \/ harness = "weakrand" /\ WR!Next
       /\ UNCHANGED <<timerVars, tv, msec, asciiVars, harness>>
    \/ UNCHANGED timeVars

\* WeakRand's fairness: the rejection loop keeps drawing.
TimeSpec == TimeInit /\ [][TimeNext]_timeVars /\ WF_randVars(WR!Draw)

\* WeakRand's property, under the name of this model.
RangeReturns == WR!RangeReturns

=============================================================================
