----------------------------- MODULE Arc4Random -----------------------------
(***************************************************************************)
(* The secure PRNG of libevent: the ARC4 stream of arc4random.c as wrapped *)
(* by evutil_rand.c.  Every process owns its own copy of the static        *)
(* globals (rs_initialized, rs, arc4_stir_pid, arc4_count and             *)
(* arc4random_urandom_filename); fork(2) copies them into the child.      *)
(*                                                                         *)
(* Data abstraction.  The 256-byte permutation and the indices i, j are   *)
(* replaced by the history that determines them: the sequence of blocks   *)
(* mixed in by arc4_addrandom (each a fresh entropy token tagged with the *)
(* stream position at which it was mixed) and the number of keystream    *)
(* bytes drawn since arc4_init.  Two generators with the same history     *)
(* produce the same bytes; generators with different histories are        *)
(* assumed to produce different ones.  A byte handed to the caller is     *)
(* identified by the history it was drawn from.                           *)
(*                                                                         *)
(* Every public entry point runs under ARC4_LOCK_, so each is one atomic  *)
(* action of the process that calls it.                                   *)
(***************************************************************************)
EXTENDS Integers, Sequences, SequencesExt, FiniteSets

CONSTANTS
    Procs,              \* pids a process may have (model values)
    FirstProc,          \* the pid of the process the program starts as
    NoPid,              \* the zero value of the static arc4_stir_pid
    BYTES_BEFORE_RESEED,\* arc4random.c: reseed after this many bytes
    DISCARD,            \* the 12*256 bytes arc4_stir throws away, scaled
    BufLens,            \* lengths n passed to evutil_secure_rng_get_bytes
    AddLens,            \* lengths passed to evutil_secure_rng_add_bytes
    Reliable,           \* seeding sources that never fail on this host
    MaxTokens,          \* bound: entropy blocks drawn in a behaviour
    MaxPos              \* bound: keystream position of any process

ASSUME /\ FirstProc \in Procs /\ NoPid \notin Procs
       /\ BYTES_BEFORE_RESEED \in Nat \ {0} /\ DISCARD \in Nat
       /\ BufLens \subseteq Nat /\ AddLens \subseteq Nat
       /\ Reliable \subseteq {"getrandom", "urandom", "uuid"}

VARIABLES
    alive,      \* processes that exist
    rng,        \* rng[p]: the static state of the PRNG in process p
    nextToken,  \* entropy blocks handed out so far (fresh values)
    emitted     \* every byte returned to a caller: [proc, mix, pos]

vars == <<alive, rng, nextToken, emitted>>

NoFile == "NULL"
UserFile == "user"

\* A block mixed into the stream: where it came from, and the position.
Block == [kind : {"os", "user"}, id : Nat, at : Nat]

RngState == [init : BOOLEAN, mix : Seq(Block), pos : Nat, count : Int,
             stirPid : Procs \cup {NoPid}, file : {NoFile, UserFile}]

-----------------------------------------------------------------------------
(* Seeding: arc4_seed and its three sources.                               *)

\* The sources arc4_seed tries: getrandom, the urandom device (the user's
\* file when one is set, else the built-in list), and the kernel uuid file
\* only while no user file is set.
Tried(file) ==
    IF file = NoFile THEN {"getrandom", "urandom", "uuid"}
                     ELSE {"getrandom", "urandom"}

\* What one call of arc4_seed may do.  "ok": some source succeeded and
\* mixed its 32 bytes.  "fail": every source failed and nothing was mixed.
\* "partial": the uuid source mixed a first 16-byte block and then failed
\* its second read, and every other source failed; arc4_seed returns -1.
SeedOutcomes(file) ==
    IF Reliable \cap Tried(file) # {} THEN {"ok"}
    ELSE {"ok", "fail"} \cup (IF "uuid" \in Tried(file) THEN {"partial"} ELSE {})

\* arc4_addrandom: mix one block into the permutation at the current
\* position.
AddRandom(g, kind, tok) ==
    [g EXCEPT !.mix = Append(@, [kind |-> kind, id |-> tok, at |-> g.pos])]

\* arc4_init: the identity permutation, i = j = 0.
ArcInit(g) == [g EXCEPT !.init = TRUE, !.mix = <<>>, !.pos = 0]

\* Mutant of Stir: a successful seeding that forgets to reset arc4_count.
StirKeepCount(g, outcome, tok) ==
    LET g1 == IF g.init THEN g ELSE ArcInit(g)
    IN CASE outcome = "ok" ->
              [g |-> [AddRandom(g1, "os", tok) EXCEPT !.pos = @ + DISCARD],
               ok |-> TRUE, tok |-> tok + 1]
         [] OTHER -> [g |-> g1, ok |-> FALSE, tok |-> tok]

\* arc4_stir, given the outcome of its arc4_seed call and the token the
\* seeding would mix.  Returns [g, ok, tok] with tok the next free token.
Stir(g, outcome, tok) ==
    LET g1 == IF g.init THEN g ELSE ArcInit(g)
    IN CASE outcome = "ok" ->
              [g |-> [AddRandom(g1, "os", tok) EXCEPT
                        !.pos = @ + DISCARD,
                        !.count = BYTES_BEFORE_RESEED],
               ok |-> TRUE, tok |-> tok + 1]
         [] outcome = "partial" ->
              [g |-> AddRandom(g1, "os", tok), ok |-> FALSE, tok |-> tok + 1]
         [] OTHER -> [g |-> g1, ok |-> FALSE, tok |-> tok]

\* Mutant of StirIfNeeded: no comparison of arc4_stir_pid with getpid().
StirIfNeededNoPid(g, p, outcome, tok) ==
    IF g.count <= 0 \/ ~g.init
    THEN LET r == Stir([g EXCEPT !.stirPid = p], outcome, tok)
         IN [g |-> r.g, tok |-> r.tok]
    ELSE [g |-> g, tok |-> tok]

\* arc4_stir_if_needed, called by the process whose pid is p.
StirIfNeeded(g, p, outcome, tok) ==
    IF g.count <= 0 \/ ~g.init \/ g.stirPid # p
    THEN LET r == Stir([g EXCEPT !.stirPid = p], outcome, tok)
         IN [g |-> r.g, tok |-> r.tok]
    ELSE [g |-> g, tok |-> tok]

\* arc4_getbyte: the byte drawn at the current history, and the step.
ByteId(g) == [mix |-> g.mix, pos |-> g.pos]
GetByte(g) == [g EXCEPT !.pos = @ + 1]

\* Mutant of BufLoop: arc4_count is decremented but never tested.
RECURSIVE BufLoopNoReseed(_, _, _, _, _)
BufLoopNoReseed(g, n, outs, tok, bytes) ==
    IF n = 0 THEN [g |-> g, tok |-> tok, bytes |-> bytes]
    ELSE BufLoopNoReseed(GetByte([g EXCEPT !.count = @ - 1]), n - 1, outs,
                         tok, bytes \cup {ByteId(g)})

\* The loop of arc4random_buf: n bytes, each preceded by the decrement of
\* arc4_count and a stir when it reaches zero.  outs[k] is the outcome of
\* the seeding a stir before byte k would perform.
RECURSIVE BufLoop(_, _, _, _, _)
BufLoop(g, n, outs, tok, bytes) ==
    IF n = 0 THEN [g |-> g, tok |-> tok, bytes |-> bytes]
    ELSE LET g1 == [g EXCEPT !.count = @ - 1]
             r  == IF g1.count <= 0 THEN Stir(g1, outs[n], tok)
                                    ELSE [g |-> g1, tok |-> tok]
         IN BufLoop(GetByte(r.g), n - 1, outs, r.tok,
                    bytes \cup {ByteId(r.g)})

\* Number of 256-byte chunks arc4random_addrandom mixes for datlen bytes.
Chunks(datlen) == (datlen + 255) \div 256

\* Mix the chunks as consecutive user blocks, tokens tok, tok+1, ...
RECURSIVE AddChunks(_, _, _)
AddChunks(g, c, tok) ==
    IF c = 0 THEN [g |-> g, tok |-> tok]
    ELSE AddChunks(AddRandom(g, "user", tok), c - 1, tok + 1)

\* A successor state is admitted only within the model's bounds.
InBounds(g, tok) == tok <= MaxTokens /\ g.pos <= MaxPos

-----------------------------------------------------------------------------
(* Public entry points (evutil_rand.c), each under ARC4_LOCK_.             *)

\* evutil_secure_rng_get_bytes -> arc4random_buf.
GetBytes(p) ==
    /\ p \in alive
    /\ \E n \in BufLens, out0 \in SeedOutcomes(rng[p].file),
          outs \in [1..Max(BufLens \cup {1}) -> SeedOutcomes(rng[p].file)] :
         LET s == StirIfNeeded(rng[p], p, out0, nextToken)
             r == BufLoop(s.g, n, outs, s.tok, {})
         IN /\ InBounds(r.g, r.tok)
            /\ rng' = [rng EXCEPT ![p] = r.g]
            /\ nextToken' = r.tok
            /\ emitted' = emitted \cup
                 {[proc |-> p, mix |-> b.mix, pos |-> b.pos] : b \in r.bytes}
    /\ UNCHANGED alive

\* evutil_secure_rng_add_bytes -> arc4random_addrandom.
AddBytes(p) ==
    /\ p \in alive
    /\ \E len \in AddLens, out \in SeedOutcomes(rng[p].file) :
         LET s == IF rng[p].init THEN [g |-> rng[p], tok |-> nextToken]
                  ELSE Stir(rng[p], out, nextToken)
             r == AddChunks(s.g, Chunks(len), s.tok)
         IN /\ InBounds(r.g, r.tok)
            /\ rng' = [rng EXCEPT ![p] = r.g]
            /\ nextToken' = r.tok
    /\ UNCHANGED <<alive, emitted>>

\* evutil_secure_rng_init: an unconditional arc4_stir.
SecureRngInit(p) ==
    /\ p \in alive
    /\ \E out \in SeedOutcomes(rng[p].file) :
         LET r == Stir(rng[p], out, nextToken)
         IN /\ InBounds(r.g, r.tok)
            /\ rng' = [rng EXCEPT ![p] = r.g]
            /\ nextToken' = r.tok
    /\ UNCHANGED <<alive, emitted>>

\* evutil_secure_rng_set_urandom_device_file.
SetUrandomFile(p) ==
    /\ p \in alive
    /\ rng' = [rng EXCEPT ![p].file = UserFile]
    /\ UNCHANGED <<alive, nextToken, emitted>>

\* The host program forks: the child gets a fresh pid and a copy of the
\* parent's memory, the PRNG globals included.
Fork(p, c) ==
    /\ p \in alive /\ c \in Procs \ alive
    /\ alive' = alive \cup {c}
    /\ rng' = [rng EXCEPT ![c] = rng[p]]
    /\ UNCHANGED <<nextToken, emitted>>

Init ==
    /\ alive = {FirstProc}
    /\ rng = [p \in Procs |-> [init |-> FALSE, mix |-> <<>>, pos |-> 0,
                               count |-> 0, stirPid |-> NoPid,
                               file |-> NoFile]]
    /\ nextToken = 0
    /\ emitted = {}

Next ==
    \E p \in Procs :
        \/ GetBytes(p)
        \/ AddBytes(p)
        \/ SecureRngInit(p)
        \/ SetUrandomFile(p)
        \/ \E c \in Procs : Fork(p, c)

Spec == Init /\ [][Next]_vars

-----------------------------------------------------------------------------
(* Properties.                                                             *)

TypeOK ==
    /\ alive \subseteq Procs /\ FirstProc \in alive
    /\ rng \in [Procs -> RngState]
    \* arc4_count: 0 before the first stir, then 1..BYTES_BEFORE_RESEED
    /\ \A p \in alive : rng[p].count \in 0..BYTES_BEFORE_RESEED
    /\ nextToken \in 0..MaxTokens
    /\ emitted \subseteq [proc : Procs, mix : Seq(Block), pos : Nat]

\* The position of the last platform-entropy block in a history, or -1.
LastOsAt(mix) ==
    LET k == SelectLastInSeq(mix, LAMBDA b : b.kind = "os")
    IN IF k = 0 THEN -1 ELSE mix[k].at

\* After a fork the child must not hand out the bytes its parent hands
\* out: arc4_stir_if_needed compares arc4_stir_pid with getpid() so that
\* the first call in the child reseeds.  No byte is ever returned by two
\* different processes.
ForkSafety ==
    \A a, b \in emitted :
        a.proc # b.proc => [mix |-> a.mix, pos |-> a.pos]
                             # [mix |-> b.mix, pos |-> b.pos]

\* Every byte returned by evutil_secure_rng_get_bytes comes from a stream
\* into which platform entropy was mixed (the header promises the
\* generator is "seeded using the platform's entropy source").
NoUnseededOutput ==
    \A e \in emitted : LastOsAt(e.mix) >= 0

\* arc4random_buf counts bytes in arc4_count and re-seeds "after
\* generating this many bytes": no byte is drawn more than
\* BYTES_BEFORE_RESEED bytes past the discard that follows the last
\* platform seeding of its stream.
ReseedBound ==
    \A e \in emitted :
        e.pos < LastOsAt(e.mix) + DISCARD + BYTES_BEFORE_RESEED

=============================================================================
