--------------------------- MODULE MonotonicClock ---------------------------
(***************************************************************************)
(* What a struct evutil_monotonic_timer promises its caller, without the   *)
(* mechanism: a clock whose reads never run in reverse while it keeps     *)
(* the same time source.  Choosing another source (a new call of          *)
(* evutil_configure_monotonic_time that picks another clock) starts a new *)
(* time base, "not necessarily epoch-based, or relative to any other      *)
(* definite point", so the next read may be any value.                    *)
(*                                                                         *)
(* now is the value of the last read of the current source, or NoTime     *)
(* before the first one.                                                   *)
(***************************************************************************)
CONSTANTS
    Sources,    \* the time sources a timer may be set to
    Times,      \* the values a read may return
    NoTime,     \* "no read yet" (not in Times)
    Earlier(_, _)   \* the order of Times

VARIABLES now, source

Init == now = NoTime /\ source \in Sources

\* A read returns a value no earlier than the previous read of the source.
Read ==
    /\ now' \in Times
    /\ now = NoTime \/ ~Earlier(now', now)
    /\ UNCHANGED source

\* The timer is set to another source: what was read before is no bound.
Rebase ==
    /\ source' \in Sources \ {source}
    /\ now' = NoTime

Spec == Init /\ [][Read \/ Rebase]_<<now, source>>

=============================================================================
