--------------------------- MODULE MC_SockaddrText ---------------------------
(***************************************************************************)
(* Bounds for SockaddrText, with IPv6 addresses of 4 words as in          *)
(* MC_InetText.  The host has one named interface, "lo", with index 1.   *)
(***************************************************************************)
EXTENDS SockaddrText, MC_InetText

MCIfIndex == <<"l", "o">> :> 1

\* The lowest port and 256, which swaps its bytes with it in network order.
MCPorts == {1, 256}

\* Addresses that compare differently in network and in host byte order,
\* and the all-zero ones, which the formatter compresses to "::".
MCAddrs4s == {<<1, 0, 0, 2>>, <<2, 0, 0, 1>>, <<1, 0, 0, 1>>, <<0, 0, 0, 0>>}
MCAddrs6s == {<<0, 0, 0, 1>>, <<0, 0, 1, 0>>, <<1, 0, 0, 0>>, <<0, 0, 0, 0>>}
MCAddrs6f == {[k \in 0..3 |-> a[k + 1]] : a \in MCAddrs6s}

\* Brackets, colons, a word, a dotted quad, a zone mark and a zone with
\* the interface name: every documented form within 5 pieces ("]:" and
\* "%lo" are one piece each), and their near misses.
MCSockPieces == {<<"[">>, <<"]">>, <<"]", ":">>, <<":">>, <<":", ":">>, <<"1">>,
                 <<"1", ".", "2", ".", "3", ".", "4">>, <<"%">>, <<"%", "l", "o">>}

MCOutLens == {16, 28}

=============================================================================
