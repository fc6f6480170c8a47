---------------------------- MODULE MC_InetText ----------------------------
(***************************************************************************)
(* Bounds for InetText.  IPv6 addresses have 4 words instead of 8: every  *)
(* branch of both functions (the "::" at the start, middle and end, ties  *)
(* between zero runs, the IPv4-compatible and IPv4-mapped forms, too many *)
(* or too few words) is reachable with 4.                                 *)
(***************************************************************************)
EXTENDS InetText

\* Words: zero, one hex digit, three hex digits (two bytes 1.0), ffff.
MCWordVals == {0, 1, 256, 65535}
MCAddrs6 == [0..3 -> MCWordVals]

\* Every address whose bytes are 0, 1, 10 or 255.
MCAddrs4 == [1..4 -> {0, 1, 10, 255}]

MCLensAll == 0..20
MCLensBig == {BigLen}

\* A word, a four-digit word, a five-digit number, a colon, a word with
\* strtol's "0x" prefix and a dotted quad.
MCPieces == {<<"1">>, <<"f", "f", "f", "f">>, <<"1", "0", "0", "0", "0">>,
             <<":">>, <<"0", "x", "1">>, <<"1", ".", "2", ".", "3", ".", "4">>}

=============================================================================
