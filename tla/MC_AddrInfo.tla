---------------------------- MODULE MC_AddrInfo ----------------------------
(***************************************************************************)
(* Bounds for AddrInfo, on top of those of MC_SockaddrText (IPv6          *)
(* addresses of 4 words, one interface "lo" with index 1).  Ints have 20  *)
(* bits and longs 24, so that a servname that strtol reads within a long  *)
(* but that does not fit an int is 7 digits long, not 10.                 *)
(***************************************************************************)
EXTENDS AddrInfo, MC_SockaddrText

Chars(s) == [k \in 1..Len(s) |-> SubSeq(s, k, k)]

\* A name the resolver knows, one it does not, an IPv4 literal, and an
\* IPv6 literal with a zone.
MCNodes == {Chars("h"), Chars("n"), Chars("1.2.3.4"), Chars("::1%lo")}

\* A port, port 0, the first number past the ports, a service of both
\* protocols, one of UDP only, and no service.
MCServs == {Chars("80"), Chars("0"), Chars("65536"), Chars("www"), Chars("dns"), Chars("x")}

\* The number 2^20 + 80, which (int) makes 80.
MCWrapServs == {Chars("1048656")}

MCServices ==
    {[name |-> Chars("www"), proto |-> "tcp", port |-> 80],
     [name |-> Chars("www"), proto |-> "udp", port |-> 80],
     [name |-> Chars("dns"), proto |-> "udp", port |-> 53]}

\* No protocol beyond TCP, UDP and SCTP has a name.
MCProtoNames == <<>>

MCV6Global == [k \in 0..3 |-> IF k = 0 THEN 8193 ELSE IF k = 3 THEN 1 ELSE 0]
MCV6Link == [k \in 0..3 |-> IF k = 0 THEN 65152 ELSE IF k = 3 THEN 1 ELSE 0]

MCDns ==
    Chars("h") :> <<[family |-> "AF_INET", addr |-> <<10, 0, 0, 1>>, scope |-> 0],
                    [family |-> "AF_INET6", addr |-> MCV6Global, scope |-> 0]>>

\* Every family (and one getaddrinfo does not know), no socket type or
\* protocol, each alone, and both; no flag and each flag alone.
MCHintSets ==
    [family : Families \cup {"AF_UNIX"},
     socktype : {0, 1, 2}, protocol : {0, 17},
     flags : {{}, {"AI_PASSIVE"}, {"AI_NUMERICHOST"}, {"AI_NUMERICSERV"}, {"AI_ADDRCONFIG"}}]

\* No allocation, one (a TCP entry without its UDP twin), two, enough.
MCLefts == {0, 1, 2, 9}

MCQuirkSets == SUBSET {"numport", "protocol"}

\* An entry without an address, loopback and link-local ones, and a
\* global address of each family.
MCIfaddrs ==
    <<[family |-> "none", addr |-> <<0, 0, 0, 0>>],
      [family |-> "AF_INET", addr |-> <<127, 0, 0, 1>>],
      [family |-> "AF_INET", addr |-> <<10, 0, 0, 1>>],
      [family |-> "AF_INET6", addr |-> MCV6Link],
      [family |-> "AF_INET6", addr |-> MCV6Global]>>

=============================================================================
