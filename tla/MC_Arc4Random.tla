--------------------------- MODULE MC_Arc4Random ---------------------------
(* Instantiation of Arc4Random for TLC: three pids (the first process and *)
(* up to two forked children), reseeding after 2 bytes, a discard of one  *)
(* byte, and calls that draw or mix 0, 1 or 2 bytes or chunks.            *)
EXTENDS Arc4Random, TLC

CONSTANTS p1, p2, p3

MCProcs == {p1, p2, p3}
MCBufLens == {0, 1, 3}
MCAddLens == {0, 1, 300}
\* Linux >= 3.17: getrandom(2) does not fail.
MCReliable == {"getrandom"}
\* A host where every source of entropy can fail (a chroot without
\* /dev/urandom, a seccomp filter denying getrandom).
MCUnreliable == {}
MCSymmetry == Permutations({p2, p3})
=============================================================================
