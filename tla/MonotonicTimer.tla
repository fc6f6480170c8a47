---------------------------- MODULE MonotonicTimer ----------------------------
(***************************************************************************)
(* struct evutil_monotonic_timer of evutil_time.c: the choice of clock     *)
(* made by evutil_configure_monotonic_time_ and the values returned by     *)
(* evutil_gettime_monotonic_.  When no monotonic clock_gettime() source   *)
(* works, the timer falls back to gettimeofday() and ratchets it with     *)
(* adjust_monotonic_time so that its values never go backwards.          *)
(*                                                                         *)
(* The host's clocks are part of the model: the wall clock read by        *)
(* gettimeofday() may be stepped to any value (settimeofday, an NTP step) *)
(* and the kernel's CLOCK_MONOTONIC only advances.  A second is           *)
(* USEC_PER_SEC microseconds and a microsecond NSEC_PER_USEC nanoseconds; *)
(* both are scaled down so that the carries of timeradd/timersub and the  *)
(* nanosecond truncation happen within the bounds.                        *)
(***************************************************************************)
EXTENDS Integers

CONSTANTS
    USEC_PER_SEC,   \* 1000000, scaled
    NSEC_PER_USEC,  \* 1000, scaled
    MaxSec,         \* bound: seconds on the host's clocks
    MaxOutSec,      \* bound: seconds of any value the timer returns
    FlagSets        \* flags passed to evutil_configure_monotonic_time

ASSUME /\ USEC_PER_SEC \in Nat \ {0, 1} /\ NSEC_PER_USEC \in Nat \ {0}
       /\ FlagSets \subseteq SUBSET {"PRECISE", "FALLBACK"}

\* Linux clock ids; -1 is the timer's "use gettimeofday" marker.
CLOCK_REALTIME == 0
CLOCK_MONOTONIC == 1
CLOCK_MONOTONIC_COARSE == 6
FALLBACK_CLOCK == -1
NoClock == -2

VARIABLES
    timer,      \* [monotonic_clock, adjust_monotonic_clock, last_time]
    configured, \* evutil_configure_monotonic_time has been called
    wall,       \* the host's gettimeofday() value, a timeval
    mono,       \* the host's CLOCK_MONOTONIC value, [sec, nsec]
    monoWorks,  \* clock_gettime() on the monotonic clocks succeeds
    returned,   \* the last value evutil_gettime_monotonic returned
    lastRaw,    \* the raw reading behind that value
    readClock   \* the clock of that read, NoClock if the timer has been
                \* set to another clock since

vars == <<timer, configured, wall, mono, monoWorks, returned, lastRaw,
          readClock>>

Timeval == [sec : 0..MaxOutSec, usec : 0..(USEC_PER_SEC - 1)]
NoTime == [sec |-> -1, usec |-> 0]
Zero == [sec |-> 0, usec |-> 0]

-----------------------------------------------------------------------------
(* The timeval macros of <sys/time.h> the code relies on.                  *)

\* Mutant of TimerAdd: the microsecond carry is forgotten.
TimerAddNoCarry(a, b) == [sec |-> a.sec + b.sec, usec |-> a.usec + b.usec]

\* timeradd: one carry of the microseconds into the seconds.
TimerAdd(a, b) ==
    LET u == a.usec + b.usec
    IN IF u >= USEC_PER_SEC
       THEN [sec |-> a.sec + b.sec + 1, usec |-> u - USEC_PER_SEC]
       ELSE [sec |-> a.sec + b.sec, usec |-> u]

\* timersub: one borrow from the seconds.
TimerSub(a, b) ==
    LET u == a.usec - b.usec
    IN IF u < 0
       THEN [sec |-> a.sec - b.sec - 1, usec |-> u + USEC_PER_SEC]
       ELSE [sec |-> a.sec - b.sec, usec |-> u]

\* evutil_timercmp(a, b, <)
TimerLess(a, b) ==
    IF a.sec = b.sec THEN a.usec < b.usec ELSE a.sec < b.sec

-----------------------------------------------------------------------------
(* evutil_time.c                                                           *)

\* Mutant of AdjustMonotonicTime: no ratchet against last_time.
AdjustNoRatchet(t, raw) ==
    LET tv == TimerAdd(raw, t.adjust_monotonic_clock)
    IN [tv |-> tv, t |-> [t EXCEPT !.last_time = tv]]

\* Mutant of AdjustMonotonicTime: a backward step is hidden but the
\* offset is not grown to compensate for it.
AdjustNoCompensate(t, raw) ==
    LET tv == TimerAdd(raw, t.adjust_monotonic_clock)
    IN IF TimerLess(tv, t.last_time)
       THEN [tv |-> t.last_time, t |-> t]
       ELSE [tv |-> tv, t |-> [t EXCEPT !.last_time = tv]]

\* adjust_monotonic_time: returns the ratcheted value and the new timer.
AdjustMonotonicTime(t, raw) ==
    LET tv == TimerAdd(raw, t.adjust_monotonic_clock)
    IN IF TimerLess(tv, t.last_time)
       THEN [tv |-> t.last_time,
             t  |-> [t EXCEPT !.adjust_monotonic_clock =
                                 TimerAdd(TimerSub(t.last_time, tv), @)]]
       ELSE [tv |-> tv, t |-> [t EXCEPT !.last_time = tv]]

\* clock_gettime() -> struct timeval: tv_usec = ts.tv_nsec / 1000.
TimespecToTimeval(ts) == [sec |-> ts.sec, usec |-> ts.nsec \div NSEC_PER_USEC]

\* The clock evutil_configure_monotonic_time_ picks: COARSE unless PRECISE
\* or FALLBACK is asked for, else MONOTONIC unless FALLBACK is, else
\* gettimeofday; a clock is chosen only if clock_gettime() on it works now.
ChooseClock(flags, coarseWorks) ==
    CASE "PRECISE" \notin flags /\ "FALLBACK" \notin flags /\ coarseWorks
              -> CLOCK_MONOTONIC_COARSE
      [] "FALLBACK" \notin flags /\ monoWorks -> CLOCK_MONOTONIC
      [] OTHER -> FALLBACK_CLOCK

\* Mutant of ConfigureMonotonicTime: setting the timer up again starts it
\* afresh, with the offset and last_time cleared.
ConfigureResets(flags) ==
    /\ \E coarseWorks \in {monoWorks, FALSE} :
         LET clock == ChooseClock(flags, coarseWorks)
         IN /\ timer' = [monotonic_clock |-> clock,
                         adjust_monotonic_clock |-> Zero, last_time |-> Zero]
            /\ readClock' = IF clock = timer.monotonic_clock
                            THEN readClock ELSE NoClock
    /\ configured' = TRUE
    /\ UNCHANGED <<wall, mono, monoWorks, returned, lastRaw>>

\* evutil_configure_monotonic_time_: only monotonic_clock is written, so a
\* timer set up a second time keeps its offset and last_time.  Nothing
\* stops a caller from calling it again.
ConfigureMonotonicTime(flags) ==
    /\ \E coarseWorks \in {monoWorks, FALSE} :
         LET clock == ChooseClock(flags, coarseWorks)
         IN /\ timer' = [timer EXCEPT !.monotonic_clock = clock]
            /\ readClock' = IF clock = timer.monotonic_clock
                            THEN readClock ELSE NoClock
    /\ configured' = TRUE
    /\ UNCHANGED <<wall, mono, monoWorks, returned, lastRaw>>

\* evutil_gettime_monotonic_: a successful call.  The gettimeofday() path
\* ratchets the wall clock; the clock_gettime() path converts the
\* kernel's timespec.  (COARSE is read like MONOTONIC, at a coarser
\* granularity the model does not distinguish.)  A failing gettimeofday()
\* or clock_gettime() returns -1 and changes nothing: a stuttering step.
\* The header requires the timer to be configured before it is read.
GettimeMonotonic ==
    /\ configured
    /\ readClock' = timer.monotonic_clock
    /\ IF timer.monotonic_clock < 0
       THEN LET r == AdjustMonotonicTime(timer, wall)
            IN /\ r.tv.sec <= MaxOutSec
               /\ timer' = r.t
               /\ returned' = r.tv
               /\ lastRaw' = wall
       ELSE /\ monoWorks
            /\ returned' = TimespecToTimeval(mono)
            /\ lastRaw' = TimespecToTimeval(mono)
            /\ UNCHANGED timer
    /\ UNCHANGED <<configured, wall, mono, monoWorks>>

-----------------------------------------------------------------------------
(* The host.                                                               *)

\* The wall clock advances by one microsecond.
WallTick ==
    /\ wall.sec < MaxSec \/ wall.usec < USEC_PER_SEC - 1
    /\ wall' = TimerAdd(wall, [sec |-> 0, usec |-> 1])
    /\ UNCHANGED <<timer, configured, mono, monoWorks, returned, lastRaw,
                   readClock>>

\* Someone steps the wall clock, forwards or backwards.
WallStep ==
    /\ \E s \in 0..MaxSec, u \in 0..(USEC_PER_SEC - 1) :
         wall' = [sec |-> s, usec |-> u]
    /\ UNCHANGED <<timer, configured, mono, monoWorks, returned, lastRaw,
                   readClock>>

\* CLOCK_MONOTONIC advances by one nanosecond.
MonoTick ==
    /\ mono.sec < MaxSec \/ mono.nsec < USEC_PER_SEC * NSEC_PER_USEC - 1
    /\ mono' = IF mono.nsec + 1 = USEC_PER_SEC * NSEC_PER_USEC
               THEN [sec |-> mono.sec + 1, nsec |-> 0]
               ELSE [mono EXCEPT !.nsec = @ + 1]
    /\ UNCHANGED <<timer, configured, wall, monoWorks, returned, lastRaw,
                   readClock>>

\* evutil_monotonic_timer_new: the structure is zero-filled.
Init ==
    /\ timer = [monotonic_clock |-> CLOCK_REALTIME,
                adjust_monotonic_clock |-> Zero, last_time |-> Zero]
    /\ configured = FALSE
    /\ wall \in [sec : 0..MaxSec, usec : 0..(USEC_PER_SEC - 1)]
    /\ mono = [sec |-> 0, nsec |-> 0]
    /\ monoWorks \in BOOLEAN
    /\ returned = NoTime
    /\ lastRaw = NoTime
    /\ readClock = NoClock

Next ==
    \/ \E f \in FlagSets : ConfigureMonotonicTime(f)
    \/ GettimeMonotonic
    \/ WallTick
    \/ WallStep
    \/ MonoTick

Spec == Init /\ [][Next]_vars

-----------------------------------------------------------------------------
(* Properties.                                                             *)

\* Every timeval the timer holds or returns is normalised.
TypeOK ==
    /\ timer.monotonic_clock \in {CLOCK_REALTIME, CLOCK_MONOTONIC,
                                  CLOCK_MONOTONIC_COARSE, FALLBACK_CLOCK}
    /\ timer.adjust_monotonic_clock \in Timeval
    /\ timer.last_time \in Timeval
    /\ returned \in Timeval \cup {NoTime}
    /\ configured \in BOOLEAN /\ monoWorks \in BOOLEAN

\* The ratchet neither loses nor invents time: between two successful
\* calls on the gettimeofday() path the timer advances by exactly the
\* amount the wall clock moved forward, and not at all when it moved
\* back.  (Reported elapsed time is drift-free across clock steps.)
ElapsedIsForwardMovement ==
    [][/\ readClock = FALLBACK_CLOCK /\ timer.monotonic_clock = FALLBACK_CLOCK
       /\ returned # NoTime
       /\ lastRaw' # lastRaw \/ returned' # returned
       => TimerSub(returned', returned) =
            IF TimerLess(lastRaw', lastRaw) THEN Zero
            ELSE TimerSub(lastRaw', lastRaw)]_vars

\* The clocks a timer may be set to, and the refinement mapping: the
\* abstract clock's value is the last value read from the timer's current
\* clock, its source the clock evutil_configure_monotonic_time chose.
Clocks == {CLOCK_REALTIME, CLOCK_MONOTONIC, CLOCK_MONOTONIC_COARSE,
           FALLBACK_CLOCK}

clockNow == IF readClock = timer.monotonic_clock THEN returned ELSE NoTime
clockSource == timer.monotonic_clock

Abstract == INSTANCE MonotonicClock WITH
    Sources <- Clocks,
    Times <- Timeval,
    Earlier <- TimerLess,
    now <- clockNow,
    source <- clockSource

\* The timer implements the abstract monotonic clock: as long as
\* evutil_configure_monotonic_time keeps the clock it had (it may be called
\* again), reads never run in reverse, on the gettimeofday() ratchet
\* (adjust_monotonic_time, with the offset and last_time that survive the
\* new call) as on clock_gettime().
MonotonicPerClock == Abstract!Spec

=============================================================================
