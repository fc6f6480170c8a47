------------------------------ MODULE AddrInfo ------------------------------
(***************************************************************************)
(* The getaddrinfo front end of evutil.c.                                  *)
(*                                                                         *)
(*  - evutil_getaddrinfo_common_ answers what needs no resolver: a NULL   *)
(*    nodename, an IPv6 or IPv4 literal, a decimal or known servname.    *)
(*    Its allocations (evutil_new_addrinfo_) may fail.                    *)
(*  - evutil_getaddrinfo calls the host's getaddrinfo and works around    *)
(*    two quirks that test_for_getaddrinfo_hacks detects once and caches: *)
(*    a numeric port refused without a socket type, and entries whose    *)
(*    protocol is left as the hints had it.                               *)
(*  - evutil_adjust_hints_for_addrconfig_ narrows PF_UNSPEC to the one    *)
(*    family the host has, probing its interfaces once per process        *)
(*    (evutil_check_interfaces); several threads may call it.             *)
(*                                                                         *)
(* A list of struct addrinfo is a sequence of entries [sa, socktype,      *)
(* protocol], sa a sockaddr of SockaddrText.  The host's getaddrinfo is   *)
(* RFC 3493's, over a table of DNS answers, with the quirks the host      *)
(* has.  The build is Linux's: AI_ADDRCONFIG and AI_NUMERICSERV are       *)
(* native, so ALL_NONNATIVE_AI_FLAGS is 0 and the #ifndef fallbacks of    *)
(* evutil_getaddrinfo are not compiled.                                    *)
(***************************************************************************)
EXTENDS SockaddrText

CONSTANTS
    Nodes,      \* nodenames given to the front end
    Servs,      \* servnames given to it
    HintSets,   \* hints given to it: [family, socktype, protocol, flags]
    Lefts,      \* allocations that succeed before mm_calloc/mm_malloc fails
    QuirkSets,  \* the quirks a host's getaddrinfo may have
    Threads,    \* threads calling evutil_adjust_hints_for_addrconfig_
    Ifaddrs,    \* getifaddrs: the host's interface addresses, in order
    NoName,     \* a NULL nodename or servname
    Services,   \* getservbyname's database: records [name, proto, port]
    ProtoNames, \* getprotobynumber: protocol number -> name, for known ones
    Dns,        \* the host resolver's answers: name -> sequence of addresses
    INT_BITS,   \* bits of an int: 32
    LONG_BITS   \* bits of a long: 64

\* Linux's numbers.
SOCK_STREAM == 1
SOCK_DGRAM == 2
IPPROTO_TCP == 6
IPPROTO_UDP == 17
IPPROTO_SCTP == 132
EAI_NONAME == -2
EAI_SERVICE == -8
EAI_FAMILY == -6
EAI_MEMORY == -10
EVUTIL_EAI_NEED_RESOLVE == -90002

Families == {"PF_UNSPEC", "AF_INET", "AF_INET6"}

LONG_MAX == 2^(LONG_BITS - 1) - 1

\* A long converted to int: the build keeps the low INT_BITS bits.
IntCast(x) == ((x + 2^(INT_BITS - 1)) % 2^INT_BITS) - 2^(INT_BITS - 1)

-----------------------------------------------------------------------------
(* Services and protocols.                                                 *)

RECURSIVE SpaceEnd(_, _)
SpaceEnd(s, p) == IF At(s, p) \in {" ", "\t", "\n"} THEN SpaceEnd(s, p + 1) ELSE p

\* strtol(s, &endptr, 10): leading white space and a sign, then digits; a
\* value out of range is clamped to LONG_MIN or LONG_MAX.  [val, end]
Strtol10(s) ==
    LET p0 == SpaceEnd(s, 1)
        p1 == IF At(s, p0) \in {"+", "-"} THEN p0 + 1 ELSE p0
        e == DecRunEnd(s, p1)
        mag == DigitsVal(s, p1, e, 10)
    IN CASE e = p1 -> [val |-> 0, end |-> 1]
         [] At(s, p0) = "-" ->
              [val |-> IF mag > LONG_MAX + 1 THEN -LONG_MAX - 1 ELSE -mag, end |-> e]
         [] OTHER -> [val |-> IF mag > LONG_MAX THEN LONG_MAX ELSE mag, end |-> e]

\* parse_numeric_servname: the (int) of strtol's value, when it is a port,
\* the name is not empty and nothing follows the number; else -1.
ParseNumericServname(s) ==
    LET r == Strtol10(s)
        n == IntCast(r.val)
    IN IF n >= 0 /\ n <= 65535 /\ Len(s) > 0 /\ At(s, r.end) = NUL THEN n ELSE -1

\* evutil_parse_servname: a decimal port, else (unless AI_NUMERICSERV) the
\* port getservbyname(servname, protocol) finds; a NULL protocol matches
\* every entry.
EvutilParseServname(s, pname, hints) ==
    LET n == ParseNumericServname(s)
        ents == {e \in Services : e.name = s /\ (pname = NoName \/ e.proto = pname)}
    IN CASE n >= 0 -> n
         [] "AI_NUMERICSERV" \notin hints.flags /\ ents # {} ->
              (CHOOSE e \in ents : TRUE).port
         [] OTHER -> -1

\* evutil_unparse_protoname
UnparseProtoname(proto) ==
    CASE proto = 0 -> NoName
      [] proto = IPPROTO_TCP -> "tcp"
      [] proto = IPPROTO_UDP -> "udp"
      [] proto = IPPROTO_SCTP -> "sctp"
      [] proto \in DOMAIN ProtoNames -> ProtoNames[proto]
      [] OTHER -> NoName

\* evutil_getaddrinfo_infer_protocols, on hints or on an entry: the
\* protocol from the socket type, then the socket type from the protocol.
InferProtocols(h) ==
    LET p == IF h.protocol = 0 /\ h.socktype # 0
             THEN CASE h.socktype = SOCK_DGRAM -> IPPROTO_UDP
                    [] h.socktype = SOCK_STREAM -> IPPROTO_TCP
                    [] OTHER -> 0
             ELSE h.protocol
        st == IF h.socktype = 0 /\ p # 0
              THEN CASE p = IPPROTO_UDP -> SOCK_DGRAM
                     [] p \in {IPPROTO_TCP, IPPROTO_SCTP} -> SOCK_STREAM
                     [] OTHER -> 0
              ELSE h.socktype
    IN [h EXCEPT !.protocol = p, !.socktype = st]

-----------------------------------------------------------------------------
(* Building answers.  An allocation result is [list, left, live]: the     *)
(* list made (<<>> for NULL), the allocations still to succeed before    *)
(* mm_calloc fails, and how many blocks the call leaves allocated.        *)

Entry(sa, st, pr) == [sa |-> sa, socktype |-> st, protocol |-> pr]

\* One mm_calloc of an addrinfo holding a copy of sa.
Alloc1(sa, st, pr, left) ==
    IF left = 0 THEN [list |-> <<>>, left |-> 0, live |-> 0]
    ELSE [list |-> <<Entry(sa, st, pr)>>, left |-> left - 1, live |-> 1]

\* Mutant of NewAddrinfo: when the UDP entry cannot be allocated, the TCP
\* one is not freed.
NewAddrinfoKeepR1(sa, hints, left) ==
    IF hints.socktype = 0 /\ hints.protocol = 0
    THEN LET r1 == Alloc1(sa, SOCK_STREAM, IPPROTO_TCP, left)
             r2 == Alloc1(sa, SOCK_DGRAM, IPPROTO_UDP, r1.left)
         IN CASE r1.list = <<>> -> r1
              [] r2.list = <<>> -> [list |-> <<>>, left |-> 0, live |-> 1]
              [] OTHER -> [list |-> r1.list \o r2.list, left |-> r2.left, live |-> 2]
    ELSE Alloc1(sa, hints.socktype, hints.protocol, left)

\* evutil_new_addrinfo_: a TCP and a UDP entry when the hints name neither
\* a socket type nor a protocol, else one entry of theirs.
NewAddrinfo(sa, hints, left) ==
    IF hints.socktype = 0 /\ hints.protocol = 0
    THEN LET r1 == Alloc1(sa, SOCK_STREAM, IPPROTO_TCP, left)
             r2 == Alloc1(sa, SOCK_DGRAM, IPPROTO_UDP, r1.left)
         IN CASE r1.list = <<>> -> r1
              [] r2.list = <<>> -> [list |-> <<>>, left |-> 0, live |-> 0]
              [] OTHER -> [list |-> r1.list \o r2.list, left |-> r2.left, live |-> 2]
    ELSE Alloc1(sa, hints.socktype, hints.protocol, left)

\* addrinfo_append_: first, with append linked after its last entry.
AddrinfoAppend(first, append) == first \o append

Any4 == <<0, 0, 0, 0>>
Loopback4 == <<127, 0, 0, 1>>
Any6 == [k \in 0..NWORDS - 1 |-> 0]
Loopback6 == [Any6 EXCEPT ![NWORDS - 1] = 1]

Sa(f, a, port, scope) == [family |-> f, addr |-> a, port |-> port, scope |-> scope]

\* A result of evutil_getaddrinfo_common_: [ret, res, live, portnum, hints].
Answer(ret, r, port, h) ==
    [ret |-> ret, res |-> r.list, live |-> r.live, portnum |-> port, hints |-> h]
NoList == [list |-> <<>>, live |-> 0]

\* The nodename == NULL branch: "::" or "::1", then "0.0.0.0" or
\* "127.0.0.1", as the family allows; the IPv4 entries come first.
NullNode(h, port, left) ==
    LET passive == "AI_PASSIVE" \in h.flags
        r6 == IF h.family = "AF_INET" THEN [list |-> <<>>, left |-> left, live |-> 0]
              ELSE NewAddrinfo(Sa("AF_INET6", IF passive THEN Any6 ELSE Loopback6, port, NoScope),
                               h, left)
        r4 == IF h.family = "AF_INET6" THEN [list |-> <<>>, left |-> r6.left, live |-> 0]
              ELSE NewAddrinfo(Sa("AF_INET", IF passive THEN Any4 ELSE Loopback4, port, NoScope),
                               h, r6.left)
    IN CASE h.family # "AF_INET" /\ r6.list = <<>> -> Answer(EAI_MEMORY, r6, port, h)
         [] h.family # "AF_INET6" /\ r4.list = <<>> -> Answer(EAI_MEMORY, r4, port, h)
         [] OTHER -> Answer(0, [list |-> AddrinfoAppend(r4.list, r6.list),
                                live |-> r4.live + r6.live], port, h)

\* The answer of evutil_getaddrinfo_common_ given the inferred hints h, the
\* port, the results r6 and r4 of parsing the node as IPv6 and IPv4, and
\* the entries v6 and v4 it would allocate for them.
CommonCases(node, serv, hints, left, h, port, r6, r4, v6, v4) ==
    CASE node = NoName /\ serv = NoName -> Answer(EAI_NONAME, NoList, 0, hints)
      [] hints.family \notin Families -> Answer(EAI_FAMILY, NoList, 0, hints)
      [] port < 0 -> Answer(EAI_NONAME, NoList, 0, h)
      [] node = NoName -> NullNode(h, port, left)
      [] h.family # "AF_INET" /\ r6.ret = 1 ->
           Answer(IF v6.list = <<>> THEN EAI_MEMORY ELSE 0, v6, port, h)
      [] h.family # "AF_INET6" /\ r4.ret = 1 ->
           Answer(IF v4.list = <<>> THEN EAI_MEMORY ELSE 0, v4, port, h)
      [] "AI_NUMERICHOST" \in h.flags -> Answer(EAI_NONAME, NoList, 0, h)
      [] OTHER -> Answer(EVUTIL_EAI_NEED_RESOLVE, NoList, port, h)

\* The entries evutil_getaddrinfo_common_ allocates for a parsed node.
CommonParsed(node, serv, hints, left, h, port, r6, r4) ==
    CommonCases(node, serv, hints, left, h, port, r6, r4,
                NewAddrinfo(Sa("AF_INET6", r6.words, port, r6.scope), h, left),
                NewAddrinfo(Sa("AF_INET", r4.addr, port, NoScope), h, left))

\* evutil_getaddrinfo_common_(nodename, servname, hints, res, portnum),
\* given the allocations that succeed.
GaiCommon(node, serv, hints, left) ==
    LET h == InferProtocols(hints)
    IN Once(IF serv = NoName THEN 0
            ELSE EvutilParseServname(serv, UnparseProtoname(h.protocol), h),
            LAMBDA port :
              \* a NULL nodename is never parsed
              Once(IF node = NoName THEN [ret |-> 0] ELSE PtonScope(node), LAMBDA r6 :
                Once(IF node = NoName THEN [ret |-> 0] ELSE PtonInet(node), LAMBDA r4 :
                  CommonParsed(node, serv, hints, left, h, port, r6, r4))))

-----------------------------------------------------------------------------
(* The host's getaddrinfo: RFC 3493 section 6.1 for the addresses a node  *)
(* names (NULL: the wildcard or loopback addresses; a literal; else the   *)
(* DNS answers), each once per socket type the hints allow.  Written      *)
(* from the RFC and the header, not from evutil.c: it is also the         *)
(* reference the front end is checked against.                            *)

Allows(h, f) == h.family \in {"PF_UNSPEC", f}

\* The socket types and protocols of the entries for one address.
Kinds(h) ==
    LET k == InferProtocols(h)
    IN IF k.socktype = 0 /\ k.protocol = 0
       THEN <<[st |-> SOCK_STREAM, pr |-> IPPROTO_TCP], [st |-> SOCK_DGRAM, pr |-> IPPROTO_UDP]>>
       ELSE <<[st |-> k.socktype, pr |-> k.protocol]>>

\* A decimal port, or a service of the hints' protocol; -1 for neither.
RefPort(serv, h) ==
    LET pname == UnparseProtoname(InferProtocols(h).protocol)
        ents == {e \in Services : e.name = serv /\ (pname = NoName \/ e.proto = pname)}
    IN CASE serv = NoName -> 0
         [] AllDigits(serv) -> IF NumVal(serv) <= 65535 THEN NumVal(serv) ELSE -1
         [] "AI_NUMERICSERV" \notin h.flags /\ ents # {} -> (CHOOSE e \in ents : TRUE).port
         [] OTHER -> -1

\* The addresses, as sequences of [family, addr, scope], that a node
\* stands for without a resolver, or "dns".
RefAddrs(node, h) ==
    LET passive == "AI_PASSIVE" \in h.flags
        null == <<[family |-> "AF_INET", addr |-> IF passive THEN Any4 ELSE Loopback4,
                   scope |-> NoScope],
                  [family |-> "AF_INET6", addr |-> IF passive THEN Any6 ELSE Loopback6,
                   scope |-> NoScope]>>
    IN IF node = NoName THEN SelectSeq(null, LAMBDA a : Allows(h, a.family))
       ELSE Once(RefV6Zone(node), LAMBDA z :
       CASE z.ok /\ Allows(h, "AF_INET6") ->
              <<[family |-> "AF_INET6", addr |-> z.addr.words, scope |-> z.scope]>>
         [] IPv4Text(node) /\ Allows(h, "AF_INET") ->
              <<[family |-> "AF_INET", addr |-> IPv4Val(node), scope |-> NoScope]>>
         [] OTHER -> "dns")

\* The entries for a sequence of addresses.
RECURSIVE Entries(_, _, _)
Entries(as, port, h) ==
    IF as = <<>> THEN <<>>
    ELSE [i \in 1..Len(Kinds(h)) |->
            Entry(Sa(Head(as).family, Head(as).addr, port, Head(as).scope),
                  Kinds(h)[i].st, Kinds(h)[i].pr)]
         \o Entries(Tail(as), port, h)

\* RFC 3493's answer, given the port a servname names and the addresses a
\* node stands for: [ret, res, resolve, port], resolve when the answer
\* needs the resolver (ret and res are then left open).
RefAnswer(node, serv, h, port, as) ==
    LET Is(ret, res) == [ret |-> ret, res |-> res, resolve |-> FALSE, port |-> port]
    IN CASE node = NoName /\ serv = NoName -> Is(EAI_NONAME, <<>>)
         [] h.family \notin Families -> Is(EAI_FAMILY, <<>>)
         [] port < 0 -> Is(EAI_SERVICE, <<>>)
         [] as = "dns" /\ "AI_NUMERICHOST" \in h.flags -> Is(EAI_NONAME, <<>>)
         [] as = "dns" -> [Is(0, <<>>) EXCEPT !.resolve = TRUE]
         [] OTHER -> Is(0, Entries(as, port, h))

\* RFC 3493's getaddrinfo.
GaiRef(node, serv, h) ==
    Once(RefPort(serv, h), LAMBDA port :
      Once(RefAddrs(node, h), LAMBDA as : RefAnswer(node, serv, h, port, as)))

\* A reference answer r completed with the DNS answers of the host:
\* [ret, res].
Resolved(r, node, h) ==
    LET as == IF r.resolve /\ node \in DOMAIN Dns
              THEN SelectSeq(Dns[node], LAMBDA a : Allows(h, a.family)) ELSE <<>>
    IN CASE ~r.resolve -> [ret |-> r.ret, res |-> r.res]
         [] as = <<>> -> [ret |-> EAI_NONAME, res |-> <<>>]
         [] OTHER -> [ret |-> 0, res |-> Entries(as, r.port, h)]

\* A conforming getaddrinfo on this host.
Conforming(node, serv, h) == Once(GaiRef(node, serv, h), LAMBDA r : Resolved(r, node, h))

\* A conforming answer r as a host with quirks gives it: "numport", a
\* numeric servname refused without a socket type where the call would
\* succeed (OpenBSD up to 4.6); "protocol", entries whose protocol is the
\* hints' own, 0 included (old Solaris).
WithQuirks(r, serv, h, quirks) ==
    CASE "numport" \in quirks /\ serv # NoName /\ AllDigits(serv) /\ h.socktype = 0
           /\ r.ret = 0 ->
           [ret |-> EAI_SERVICE, res |-> <<>>]
      [] "protocol" \in quirks ->
           [r EXCEPT !.res = [i \in DOMAIN @ |-> [@[i] EXCEPT !.protocol = h.protocol]]]
      [] OTHER -> r

\* The host's getaddrinfo.
NativeGai(node, serv, h, quirks) ==
    Once(Conforming(node, serv, h), LAMBDA r : WithQuirks(r, serv, h, quirks))

-----------------------------------------------------------------------------
(* evutil_getaddrinfo and its workarounds.                                 *)

Text1234 == <<"1", ".", "2", ".", "3", ".", "4">>
Text80 == <<"8", "0">>

\* ai_find_protocol: some entry has a protocol.
FindsProtocol(res) == \E i \in DOMAIN res : res[i].protocol # 0

\* The needs test_for_getaddrinfo_hacks draws from the answers rs of its
\* calls r, ai3 and r2: [needNp, needSock].
HacksFrom(rs) ==
    [needNp |-> rs[3].ret = 0 /\ rs[1].ret # 0,
     needSock |-> ~FindsProtocol(rs[3].res) \/ ~FindsProtocol(rs[2].res)]

\* test_for_getaddrinfo_hacks: [needNp, needSock] on a host.
TestForHacks(quirks) ==
    LET h == [family |-> "PF_UNSPEC", socktype |-> 0, protocol |-> 0,
              flags |-> {"AI_NUMERICHOST", "AI_NUMERICSERV"}]
        \* the calls r, ai3 and r2, in this order
        calls == <<[serv |-> Text80, h |-> h], [serv |-> NoName, h |-> h],
                   [serv |-> Text80, h |-> [h EXCEPT !.socktype = SOCK_STREAM]]>>
    IN Once([i \in 1..3 |-> NativeGai(Text1234, calls[i].serv, calls[i].h, quirks)],
            HacksFrom)

\* Mutant of PortHackFrom: only the IPv4 entries get the port.
RECURSIVE PortHackV4Only(_, _, _)
PortHackV4Only(l, p, port) ==
    CASE p > Len(l) -> [list |-> l, crashed |-> FALSE]
      [] l[p].sa.family = "AF_INET" ->
           PortHackV4Only([l EXCEPT ![p].sa.port = port], p + 1, port)
      [] l[p].sa.family = "AF_INET6" -> PortHackV4Only(l, p + 1, port)
      [] p = Len(l) -> [list |-> RemoveAt(l, p), crashed |-> TRUE]
      [] OTHER -> PortHackV4Only(RemoveAt(l, p), p + 1, port)

\* apply_numeric_port_hack from the link at position p: set the port of
\* every IPv4 and IPv6 entry, unlink any other entry.  After an unlink the
\* loop still steps to the next link, so it skips the entry that took the
\* victim's place, and when the victim was last it steps from NULL.
\* [list, crashed]
RECURSIVE PortHackFrom(_, _, _)
PortHackFrom(l, p, port) ==
    CASE p > Len(l) -> [list |-> l, crashed |-> FALSE]
      [] l[p].sa.family \in {"AF_INET", "AF_INET6"} ->
           PortHackFrom([l EXCEPT ![p].sa.port = port], p + 1, port)
      [] p = Len(l) -> [list |-> RemoveAt(l, p), crashed |-> TRUE]
      [] OTHER -> PortHackFrom(RemoveAt(l, p), p + 1, port)

\* apply_socktype_protocol_hack from position p: infer each entry's
\* protocol or socket type; an entry with neither becomes a TCP entry
\* followed by a new UDP copy, which mm_malloc may fail to allocate.
\* [list, failed, left]
RECURSIVE SocktypeHackFrom(_, _, _)
SocktypeHackFrom(l, p, left) ==
    LET e == InferProtocols(l[p])
    IN CASE p > Len(l) -> [list |-> l, failed |-> FALSE, left |-> left]
         [] e.socktype # 0 \/ e.protocol # 0 ->
              SocktypeHackFrom([l EXCEPT ![p] = e], p + 1, left)
         [] left = 0 -> [list |-> l, failed |-> TRUE, left |-> 0]
         [] OTHER ->
              SocktypeHackFrom(
                  InsertAt([l EXCEPT ![p] = [e EXCEPT !.socktype = SOCK_STREAM,
                                                      !.protocol = IPPROTO_TCP]],
                           p + 1,
                           [e EXCEPT !.socktype = SOCK_DGRAM, !.protocol = IPPROTO_UDP]),
                  p + 1, left - 1)

\* The rest of evutil_getaddrinfo once the host's getaddrinfo answered nat:
\* the numeric-port workaround np on a list ph, then the socket-type one.
AfterNative(need, np, nat, ph, left) ==
    LET l1 == IF np THEN ph.list ELSE nat.res
        Ret(ret, res) == [ret |-> ret, res |-> res, crashed |-> FALSE]
    IN Once(SocktypeHackFrom(l1, 1, left), LAMBDA l2 :
         CASE np /\ ph.crashed -> [ret |-> nat.ret, res |-> <<>>, crashed |-> TRUE]
           [] need.needSock /\ l2.failed -> Ret(EAI_MEMORY, <<>>)
           [] need.needSock -> Ret(nat.ret, l2.list)
           [] OTHER -> Ret(nat.ret, l1))

\* The answer c of evutil_getaddrinfo_common_ as evutil_getaddrinfo's.
CommonRet(c) == [ret |-> c.ret, res |-> c.res, crashed |-> FALSE]

\* The host's answer nat to the call evutil_getaddrinfo makes, and the
\* numeric-port workaround applied to it.
WithNative(node, serv, hints, need, left, np, portnum, nat) ==
    Once(PortHackFrom(nat.res, 1, portnum), LAMBDA ph : AfterNative(need, np, nat, ph, left))

\* evutil_getaddrinfo(nodename, servname, hints, res) with the cached
\* needs of the workarounds, given the allocations that succeed: [ret,
\* res, crashed], crashed when the process dies on a NULL pointer.
EvutilGetaddrinfo(node, serv, hints, quirks, need, left) ==
    LET portnum == IF serv = NoName THEN -1 ELSE ParseNumericServname(serv)
        np == need.needNp /\ serv # NoName /\ hints.socktype = 0 /\ portnum >= 0
        h == IF need.needSock THEN InferProtocols(hints) ELSE hints
    IN IF np /\ node = NoName
       THEN CommonRet(GaiCommon(NoName, serv, hints, left))
       ELSE Once(NativeGai(node, IF np THEN NoName ELSE serv, h, quirks), LAMBDA nat :
              WithNative(node, serv, hints, need, left, np, portnum, nat))

-----------------------------------------------------------------------------
(* evutil_adjust_hints_for_addrconfig_ and the interface probe.  The      *)
(* statics have_checked_interfaces, had_ipv4_address and had_ipv6_address *)
(* are shared by every thread and not locked.  An interface address is    *)
(* [family, addr], family "none" for an ifa_addr that is NULL.           *)

\* evutil_v4addr_is_local_: 0.0.0.0, 127/8, 169.254/16 or class D.
V4IsLocal(a) ==
    \/ a = Any4
    \/ a[1] = 127
    \/ a[1] = 169 /\ a[2] = 254
    \/ a[1] \div 16 = 14

\* evutil_v6addr_is_local_: the first 8 of the 16 bytes zero (the first
\* half of the words), fc00::/7, fe80::/10, fec0::/10 or ff00::/8.
V6IsLocal(w) ==
    LET b0 == w[0] \div 256
        b1 == w[0] % 256
    IN \/ \A k \in 0..(NWORDS \div 2) - 1 : w[k] = 0
       \/ b0 \div 2 = 126
       \/ b0 = 254 /\ b1 \div 64 = 2
       \/ b0 = 254 /\ b1 \div 64 = 3
       \/ b0 = 255

VARIABLES
    node, serv, hints, left,    \* the arguments of the call the state holds
    quirks,         \* the quirks of the host's getaddrinfo
    need,           \* the statics [tested, needNp, needSock] of test_for_getaddrinfo_hacks
    haveChecked,    \* have_checked_interfaces
    hadV4, hadV6,   \* had_ipv4_address, had_ipv6_address
    tpc,            \* each thread's place in evutil_adjust_hints_for_addrconfig_
    tidx,           \* each thread's next entry of the getifaddrs list
    tfam,           \* each thread's hints->ai_family
    probed          \* ghost: [done, v4, v6], the flags when a probe last finished

avars == <<node, serv, hints, left, quirks, need, haveChecked, hadV4, hadV6,
           tpc, tidx, tfam, probed>>

\* evutil_found_ifaddr: the flag of a family is set by an address of it
\* that is not local.
FoundIfaddr(ifa) ==
    /\ hadV4' = (hadV4 \/ (ifa.family = "AF_INET" /\ ~V4IsLocal(ifa.addr)))
    /\ hadV6' = (hadV6 \/ (ifa.family = "AF_INET6" /\ ~V6IsLocal(ifa.addr)))

IfcUnchanged == UNCHANGED <<node, serv, hints, left, quirks, need>>

\* Entry: return when AI_ADDRCONFIG is not set or the family is not
\* PF_UNSPEC, else call evutil_check_interfaces.
AdjustStart(t) ==
    /\ tpc[t] = "idle"
    /\ \E h \in HintSets :
         /\ tfam' = [tfam EXCEPT ![t] = h.family]
         /\ tpc' = [tpc EXCEPT ![t] =
                      IF "AI_ADDRCONFIG" \in h.flags /\ h.family = "PF_UNSPEC"
                      THEN "check" ELSE "skipped"]
    /\ UNCHANGED <<haveChecked, hadV4, hadV6, tidx, probed>> /\ IfcUnchanged

\* if (have_checked_interfaces) return 0;
CheckInterfaces(t) ==
    /\ tpc[t] = "check"
    /\ tpc' = [tpc EXCEPT ![t] = IF haveChecked THEN "decide" ELSE "set"]
    /\ UNCHANGED <<haveChecked, hadV4, hadV6, tidx, tfam, probed>> /\ IfcUnchanged

\* have_checked_interfaces = 1, then getifaddrs, which may fail.
SetChecked(t) ==
    /\ tpc[t] = "set"
    /\ haveChecked' = TRUE
    /\ \E ok \in BOOLEAN : tpc' = [tpc EXCEPT ![t] = IF ok THEN "scan" ELSE "probe4"]
    /\ tidx' = [tidx EXCEPT ![t] = 1]
    /\ UNCHANGED <<hadV4, hadV6, tfam, probed>> /\ IfcUnchanged

\* One entry of the ifaddrs list; after the last, freeifaddrs and return.
ScanIfaddr(t) ==
    /\ tpc[t] = "scan"
    /\ IF tidx[t] <= Len(Ifaddrs)
       THEN /\ FoundIfaddr(Ifaddrs[tidx[t]])
            /\ tidx' = [tidx EXCEPT ![t] = @ + 1]
            /\ UNCHANGED <<tpc, probed>>
       ELSE /\ tpc' = [tpc EXCEPT ![t] = "decide"]
            /\ probed' = [done |-> TRUE, v4 |-> hadV4, v6 |-> hadV6]
            /\ UNCHANGED <<hadV4, hadV6, tidx>>
    /\ UNCHANGED <<haveChecked, tfam>> /\ IfcUnchanged

\* The fallback: a UDP socket connected towards a remote host of the
\* family; getsockname gives the host's address the route leaves from.
\* socket, connect or getsockname may fail.
Probe(t, f, nxt) ==
    /\ \/ /\ \E i \in DOMAIN Ifaddrs :
               Ifaddrs[i].family = f /\ FoundIfaddr(Ifaddrs[i])
       \/ UNCHANGED <<hadV4, hadV6>>
    /\ tpc' = [tpc EXCEPT ![t] = nxt]
    /\ UNCHANGED <<haveChecked, tidx, tfam>> /\ IfcUnchanged

Probe4(t) == tpc[t] = "probe4" /\ Probe(t, "AF_INET", "probe6") /\ UNCHANGED probed

Probe6(t) ==
    /\ tpc[t] = "probe6"
    /\ Probe(t, "AF_INET6", "decide")
    /\ probed' = [done |-> TRUE, v4 |-> hadV4', v6 |-> hadV6']

\* After evutil_check_interfaces: PF_INET when the host had only IPv4,
\* PF_INET6 when it had only IPv6.
Decide(t) ==
    /\ tpc[t] = "decide"
    /\ tfam' = [tfam EXCEPT ![t] = CASE hadV4 /\ ~hadV6 -> "AF_INET"
                                     [] ~hadV4 /\ hadV6 -> "AF_INET6"
                                     [] OTHER -> @]
    /\ tpc' = [tpc EXCEPT ![t] = "done"]
    /\ UNCHANGED <<haveChecked, hadV4, hadV6, tidx, probed>> /\ IfcUnchanged

\* The thread calls evutil_adjust_hints_for_addrconfig_ again.
Again(t) ==
    /\ tpc[t] \in {"done", "skipped"}
    /\ tpc' = [tpc EXCEPT ![t] = "idle"]
    /\ UNCHANGED <<haveChecked, hadV4, hadV6, tidx, tfam, probed>> /\ IfcUnchanged

AdjustStep(t) ==
    \/ AdjustStart(t) \/ CheckInterfaces(t) \/ SetChecked(t) \/ ScanIfaddr(t)
    \/ Probe4(t) \/ Probe6(t) \/ Decide(t) \/ Again(t)

-----------------------------------------------------------------------------
(* Harnesses, joined with those of InetText and SockaddrText in AllSpec.  *)
(* call "common": one call of evutil_getaddrinfo_common_ with every       *)
(* argument and allocation budget.  call "getaddrinfo": a host with       *)
(* quirks, and a call of evutil_getaddrinfo, which tests for the          *)
(* workarounds.  call "addrconfig": threads                               *)
(* calling evutil_adjust_hints_for_addrconfig_, each step of which may    *)
(* interleave with the others'.                                            *)

Untested == [tested |-> FALSE, needNp |-> FALSE, needSock |-> FALSE]

NoHints == [family |-> "PF_UNSPEC", socktype |-> 0, protocol |-> 0, flags |-> {}]

IfcIdle ==
    /\ haveChecked = FALSE /\ hadV4 = FALSE /\ hadV6 = FALSE
    /\ tpc = [t \in Threads |-> "idle"] /\ tidx = [t \in Threads |-> 1]
    /\ tfam = [t \in Threads |-> "PF_UNSPEC"] /\ probed = [done |-> FALSE, v4 |-> FALSE, v6 |-> FALSE]

GaiIdle ==
    /\ node = NoName /\ serv = NoName /\ hints = NoHints /\ left = 0
    /\ quirks = {} /\ need = Untested

\* The variables of SockaddrText's harnesses, unused here.
SockIdle ==
    LET sa0 == CHOOSE sa \in Sockaddrs : TRUE
    IN sa1 = sa0 /\ sa2 = sa0 /\ sa3 = sa0 /\ incl = TRUE /\ outlen = SOCKADDR_IN6_LEN

CommonInit ==
    /\ node \in Nodes \cup {NoName} /\ serv \in Servs \cup {NoName}
    /\ hints \in HintSets /\ left \in Lefts
    /\ quirks = {} /\ need = Untested
    /\ IfcIdle
    /\ call = "common"

GaiInit ==
    /\ node = NoName /\ serv = NoName /\ hints = NoHints /\ left = 0
    /\ quirks \in QuirkSets /\ need = Untested
    /\ IfcIdle
    /\ call = "getaddrinfo"

\* evutil_getaddrinfo is called; need_numeric_port_hack() runs
\* test_for_getaddrinfo_hacks the first time.  One call per behaviour:
\* a later call reads the statics this one set and answers alike.
GaiCall ==
    /\ call = "getaddrinfo"
    /\ ~need.tested
    /\ \E n \in Nodes \cup {NoName}, s \in Servs \cup {NoName}, h \in HintSets, b \in Lefts :
         node' = n /\ serv' = s /\ hints' = h /\ left' = b
    /\ need' = [tested |-> TRUE] @@ TestForHacks(quirks)
    /\ UNCHANGED <<quirks, haveChecked, hadV4, hadV6, tpc, tidx, tfam, probed>>

AdjustInit == GaiIdle /\ IfcIdle /\ call = "addrconfig"

TextInit ==
    \/ ((NtopInit \/ PtonInit) /\ SockIdle)
    \/ FormatInit \/ ParseInit \/ CmpInit

AddrInits ==
    /\ InetIdle /\ SockIdle
    /\ \/ CommonInit
       \/ GaiInit
       \/ AdjustInit

allvars == <<svars, avars>>

AllInit ==
    \/ (TextInit /\ GaiIdle /\ IfcIdle)
    \/ AddrInits

AllNext ==
    \/ (Type /\ UNCHANGED <<sa1, sa2, sa3, incl, outlen>>) /\ UNCHANGED avars
    \/ ParseType /\ UNCHANGED avars
    \/ GaiCall /\ UNCHANGED svars
    \/ call = "addrconfig" /\ (\E t \in Threads : AdjustStep(t)) /\ UNCHANGED svars
    \/ UNCHANGED allvars

AllSpec == AllInit /\ [][AllNext]_allvars

-----------------------------------------------------------------------------
(* Properties.                                                             *)

\* An unknown service is EAI_SERVICE to POSIX and EAI_NONAME to
\* evutil_getaddrinfo_common_: the same refusal.
Refusal(ret) == IF ret = EAI_SERVICE THEN EAI_NONAME ELSE ret

\* The same entries in any order, each as often.
SameEntries(a, b) == ToBag(a) = ToBag(b)

\* evutil_getaddrinfo_common_ answers as RFC 3493's getaddrinfo does
\* whatever it can answer without a resolver (the same error, or the same
\* entries in the same order, IPv4 before IPv6 for a NULL nodename), and
\* returns EVUTIL_EAI_NEED_RESOLVE, with the port the servname names,
\* exactly for the names only a resolver can answer.  An allocation that
\* fails makes it return EAI_MEMORY and leave nothing allocated; on
\* success every block it allocated is on the list.
GaiCommonAsRfc ==
    call = "common" =>
    \A r \in {GaiCommon(node, serv, hints, left)} :
    \A x \in {GaiRef(node, serv, hints)} :
       /\ r.live = IF r.ret = 0 THEN Len(r.res) ELSE 0
       /\ r.ret # EAI_MEMORY =>
            IF x.resolve
            THEN r.ret = EVUTIL_EAI_NEED_RESOLVE /\ r.portnum = x.port
            ELSE Refusal(r.ret) = Refusal(x.ret) /\ r.res = x.res

\* evutil_getaddrinfo hides the quirks of the host's getaddrinfo: on every
\* host, whatever it found on the first call, each call returns what a
\* conforming getaddrinfo returns (the same entries, in any order, and
\* the same error), or EAI_MEMORY and no list when the socket-type
\* workaround cannot allocate.
GetaddrinfoHidesQuirks ==
    call = "getaddrinfo" /\ need.tested =>
    \A r \in {EvutilGetaddrinfo(node, serv, hints, quirks, need, left)} :
    \A c \in {Conforming(node, serv, hints)} :
       /\ ~r.crashed
       /\ \/ r.ret = EAI_MEMORY /\ r.res = <<>>
          \/ Refusal(r.ret) = Refusal(c.ret) /\ SameEntries(r.res, c.res)

\* AI_ADDRCONFIG as evutil_adjust_hints_for_addrconfig_ documents it: a
\* thread narrows PF_UNSPEC to PF_INET only on a host whose interface
\* probe found IPv4 and no IPv6 address, to PF_INET6 only on one that
\* found IPv6 and no IPv4, and keeps it otherwise.  Once a probe has
\* finished, every thread's choice agrees with it, although
\* have_checked_interfaces is set before the probe starts.
AddrconfigUsesFinishedProbe ==
    probed.done =>
    \A t \in Threads :
       tpc[t] = "done" =>
          /\ tfam[t] = "AF_INET" <=> probed.v4 /\ ~probed.v6
          /\ tfam[t] = "AF_INET6" <=> ~probed.v4 /\ probed.v6

=============================================================================
