------------------------------ MODULE WeakRand ------------------------------
(***************************************************************************)
(* The weak random number generator of evutil.c: evutil_weakrand_seed_,   *)
(* evutil_weakrand_ (a linear congruential generator modulo 2^31 with     *)
(* multiplier 1103515245 and addend 12345) and evutil_weakrand_range_,    *)
(* which divides its outputs by EVUTIL_WEAKRAND_MAX / top and draws again *)
(* until the quotient is below top.                                       *)
(*                                                                         *)
(* The generator is taken at W bits instead of 31: the state is reduced   *)
(* modulo 2^W and the multiplier and addend with it.  The low W bits of an *)
(* LCG modulo 2^31 are themselves this LCG modulo 2^W, and it keeps the    *)
(* properties the code relies on (an odd addend, a multiplier that is 1    *)
(* modulo 4: a full period).  state->seed is a uint32_t, one bit wider   *)
(* than the outputs; a seed from evutil_weakrand_seed_ may use that bit.  *)
(*                                                                         *)
(* evutil_weakrand_range_'s loop is a sequence of steps, one per draw, so *)
(* that its termination is a liveness property.                            *)
(***************************************************************************)
EXTENDS Integers

CONSTANTS
    W,          \* bits of the generator's output: 31
    Tops,       \* the top arguments callers pass, in 1..WEAKRAND_MAX
    SeedArgs    \* the seed arguments callers pass (0: seed from the clock)

MOD == 2^W
WEAKRAND_MAX == MOD - 1                 \* EVUTIL_WEAKRAND_MAX, 0x7fffffff
SEED_MOD == 2 * MOD                     \* a uint32_t state, one bit wider
MULTIPLIER == 1103515245 % MOD
ADDEND == 12345 % MOD

ASSUME Tops \subseteq 1..WEAKRAND_MAX /\ SeedArgs \subseteq 0..SEED_MOD - 1

VARIABLES
    seed,       \* state->seed
    pc,         \* "idle", or "loop" inside evutil_weakrand_range_
    top,        \* the top of the call in progress
    divisor,    \* its divisor
    result      \* the last value returned

vars == <<seed, pc, top, divisor, result>>

\* The next state of evutil_weakrand_: the uint32_t product wraps, and the
\* mask keeps the low W bits.
Lcg(s) == ((s * MULTIPLIER + ADDEND) % SEED_MOD) % MOD

\* evutil_weakrand_seed_: a seed of 0 is replaced by tv_sec + tv_usec +
\* getpid(), any uint32_t value.
WeakrandSeed(arg) ==
    /\ pc = "idle"
    /\ IF arg = 0 THEN seed' \in 0..SEED_MOD - 1 ELSE seed' = arg
    /\ UNCHANGED <<pc, top, divisor, result>>

\* evutil_weakrand_
Weakrand ==
    /\ pc = "idle"
    /\ seed' = Lcg(seed)
    /\ result' = Lcg(seed)
    /\ UNCHANGED <<pc, top, divisor>>

\* evutil_weakrand_range_(state, t): divisor = EVUTIL_WEAKRAND_MAX / t.
RangeBegin(t) ==
    /\ pc = "idle"
    /\ pc' = "loop"
    /\ top' = t
    /\ divisor' = WEAKRAND_MAX \div t
    /\ UNCHANGED <<seed, result>>

\* Mutant of Draw: each pass draws from a copy of the state, which is
\* never advanced.
DrawOnCopy ==
    /\ pc = "loop"
    /\ result' = Lcg(seed) \div divisor
    /\ pc' = IF Lcg(seed) \div divisor >= top THEN "loop" ELSE "idle"
    /\ UNCHANGED <<seed, top, divisor>>

\* One pass of "do { result = evutil_weakrand_(state) / divisor; } while
\* (result >= top);".
Draw ==
    /\ pc = "loop"
    /\ seed' = Lcg(seed)
    /\ result' = Lcg(seed) \div divisor
    /\ pc' = IF Lcg(seed) \div divisor >= top THEN "loop" ELSE "idle"
    /\ UNCHANGED <<top, divisor>>

Init ==
    /\ seed = 0         \* a zero-filled struct evutil_weakrand_state
    /\ pc = "idle"
    /\ top = 1
    /\ divisor = WEAKRAND_MAX
    /\ result = 0

Next ==
    \/ \E arg \in SeedArgs : WeakrandSeed(arg)
    \/ Weakrand
    \/ \E t \in Tops : RangeBegin(t)
    \/ Draw

\* The loop runs in its caller's thread and nothing can stop it between
\* draws: weak fairness of Draw.
Spec == Init /\ [][Next]_vars /\ WF_vars(Draw)

-----------------------------------------------------------------------------
(* Properties.                                                             *)

\* Every output of evutil_weakrand_ is in 0..EVUTIL_WEAKRAND_MAX: the state
\* after a draw never keeps the uint32_t bit the mask clears.
TypeOK ==
    /\ seed \in 0..SEED_MOD - 1
    /\ pc \in {"idle", "loop"}
    /\ top \in 1..WEAKRAND_MAX /\ divisor \in 1..WEAKRAND_MAX
    /\ result \in 0..WEAKRAND_MAX

\* Every call of evutil_weakrand_range_ returns, whatever the seed and the
\* top: the generator's full period reaches a seed below top * divisor
\* before any seed comes back.
RangeReturns == pc = "loop" ~> pc = "idle"

=============================================================================
