---------------------------- MODULE SockaddrText ----------------------------
(***************************************************************************)
(* The sockaddr helpers of evutil.c built on InetText:                    *)
(* evutil_inet_pton_scope (an IPv6 text with a "%zone"),                   *)
(* evutil_parse_sockaddr_port (an address with an optional port),         *)
(* evutil_format_sockaddr_port_ (the text of a sockaddr) and              *)
(* evutil_sockaddr_cmp.  A sockaddr is a record [family, addr, port,      *)
(* scope]: addr as in InetText, port the host-order port.                 *)
(*                                                                         *)
(* if_nametoindex is the host's table of interface names, the constant    *)
(* IfIndex.  The layout of the sockaddr in memory matters to             *)
(* evutil_sockaddr_cmp, which compares s_addr and sin_port as the host    *)
(* reads them: the model takes a little-endian host (x86, the Linux this  *)
(* repository builds for).                                                *)
(***************************************************************************)
EXTENDS InetText

CONSTANTS
    IfIndex,    \* if_nametoindex: interface name -> index, for known names
    Ports,      \* ports of the sockaddrs given to the formatter
    SockAddrs4, SockAddrs6, \* their addresses
    OutLens,    \* the *outlen given to evutil_parse_sockaddr_port
    SockPieces, \* pieces of the texts given to evutil_parse_sockaddr_port
    MaxSockPieces

SOCKADDR_IN_LEN == 16       \* sizeof(struct sockaddr_in)
SOCKADDR_IN6_LEN == 28      \* sizeof(struct sockaddr_in6)
BUF_LEN == 128              \* the char buf[128] of the parser and formatter

\* strchr(s + from - 1, c): the first position at or after from holding
\* c, or 0.
IndexFrom(s, c, from) ==
    Once({p \in from..Len(s) : s[p] = c}, LAMBDA ps :
       IF ps = {} THEN 0 ELSE CHOOSE p \in ps : \A q \in ps : p <= q)

\* strtoul(s, &check, 10) or atoi(s): the leading decimal digits' value
\* (clamped) and the position of the first other character.
Strtoul10(s) ==
    Once(DecRunEnd(s, 1), LAMBDA e : [val |-> DigitsVal(s, 1, e, 10), check |-> e])

NoScope == 0

\* Mutant of PtonScope: a zone that is not an interface name is refused,
\* numeric zones included.
PtonScopeNameOnly(s) ==
    LET cp == IndexFrom(s, "%", 1)
        zone == SubSeq(s, cp + 1, Len(s))
        byName == IF zone \in DOMAIN IfIndex THEN IfIndex[zone] ELSE 0
    IN IF cp = 0 THEN PtonInet6(s) @@ [scope |-> NoScope]
       ELSE IF byName = 0 THEN Fail
       ELSE PtonInet6(SubSeq(s, 1, cp - 1)) @@ [scope |-> byName]

\* evutil_inet_pton_scope(AF_INET6, s, ...): [ret, words, scope].  The zone
\* after '%' is an interface name, or else a number; the text before it
\* is given to evutil_inet_pton.
PtonScope(s) ==
    Once(IndexFrom(s, "%", 1), LAMBDA cp :
    LET zone == SubSeq(s, cp + 1, Len(s))
        byName == IF zone \in DOMAIN IfIndex THEN IfIndex[zone] ELSE 0
        num == Strtoul10(zone)
        ifIndex == IF byName # 0 THEN byName ELSE num.val
        r == PtonInet6(IF cp = 0 THEN s ELSE SubSeq(s, 1, cp - 1))
    IN IF cp = 0 THEN r @@ [scope |-> NoScope]
       ELSE IF byName = 0 /\ At(zone, num.check) # NUL THEN Fail
       ELSE r @@ [scope |-> ifIndex])

\* The split of evutil_parse_sockaddr_port into is_ipv6, addr_part and
\* port_part ("none" for NULL), or "bad" for a '[' without ']'.  copied:
\* the address part was copied into buf[128].
SplitHostPort(s) ==
    LET cp == IndexFrom(s, ":", 1)
        rb == IndexFrom(s, "]", 1)
    IN CASE At(s, 1) = "[" /\ rb = 0 -> [form |-> "bad"]
         [] At(s, 1) = "[" ->
              [form |-> "ok", isV6 |-> TRUE, copied |-> TRUE, addrPart |-> SubSeq(s, 2, rb - 1),
               portPart |-> IF At(s, rb + 1) = ":" THEN SubSeq(s, rb + 2, Len(s))
                            ELSE "none"]
         [] cp # 0 /\ IndexFrom(s, ":", cp + 1) # 0 ->
              [form |-> "ok", isV6 |-> TRUE, copied |-> FALSE, addrPart |-> s,
               portPart |-> "none"]
         [] cp # 0 ->
              [form |-> "ok", isV6 |-> FALSE, copied |-> TRUE, addrPart |-> SubSeq(s, 1, cp - 1),
               portPart |-> SubSeq(s, cp + 1, Len(s))]
         [] OTHER ->
              [form |-> "ok", isV6 |-> FALSE, copied |-> FALSE, addrPart |-> s,
               portPart |-> "none"]

Refused == [ret |-> -1]

\* evutil_parse_sockaddr_port(s, out, &outlen): [ret, sa].
ParseSockaddrPort(s, outlen) ==
    Once(SplitHostPort(s), LAMBDA h :
    LET port == IF h.portPart = "none" THEN 0 ELSE Strtoul10(h.portPart).val
    IN IF h.form = "bad" THEN Refused
       ELSE IF h.copied /\ Len(h.addrPart) > BUF_LEN - 1 THEN Refused
       ELSE IF h.portPart # "none" /\ (port <= 0 \/ port > 65535) THEN Refused
       ELSE IF h.isV6
       THEN Once(PtonScope(h.addrPart), LAMBDA r6 :
              IF r6.ret # 1 \/ SOCKADDR_IN6_LEN > outlen THEN Refused
              ELSE [ret |-> 0, sa |-> [family |-> "AF_INET6", addr |-> r6.words,
                                       port |-> port, scope |-> r6.scope]])
       ELSE Once(PtonInet(h.addrPart), LAMBDA r4 :
              IF r4.ret # 1 \/ SOCKADDR_IN_LEN > outlen THEN Refused
              ELSE [ret |-> 0, sa |-> [family |-> "AF_INET", addr |-> r4.addr,
                                       port |-> port, scope |-> NoScope]]))

\* evutil_format_sockaddr_port_(sa, out, outlen): "a.b.c.d:port" or
\* "[ipv6]:port", cut to outlen - 1 characters by evutil_snprintf.  (The
\* "<addr with socktype %d>" of other families is not modelled: the model
\* has AF_INET and AF_INET6 only, for which ntop into b[128] never fails.)
FormatSockaddrPort(sa, outlen) ==
    LET b == Ntop(sa.family, sa.addr, BUF_LEN).dst
        full == IF sa.family = "AF_INET"
                THEN b \o <<":">> \o Radix(sa.port, 10)
                ELSE <<"[">> \o b \o <<"]", ":">> \o Radix(sa.port, 10)
    IN SubSeq(full, 1, IF Len(full) < outlen THEN Len(full) ELSE outlen - 1)

\* The sa_family values of Linux.
FamilyNum == [f \in {"AF_INET", "AF_INET6"} |-> IF f = "AF_INET" THEN 2 ELSE 10]

\* The sign of a comparison of two sequences of bytes, first byte first
\* (memcmp, or the comparison of two integers read from the bytes most
\* significant first).
RECURSIVE LexCmp(_, _)
LexCmp(a, b) ==
    IF a = <<>> THEN 0
    ELSE IF Head(a) < Head(b) THEN -1
    ELSE IF Head(a) > Head(b) THEN 1
    ELSE LexCmp(Tail(a), Tail(b))

\* The bytes of a sockaddr's address in memory order.
AddrBytes(sa) ==
    IF sa.family = "AF_INET" THEN sa.addr
    ELSE [k \in 1..2 * NWORDS |-> IF k % 2 = 1 THEN sa.addr[(k - 1) \div 2] \div 256
                                 ELSE sa.addr[(k - 1) \div 2] % 256]

\* sin_port as the host reads the two network-order bytes.
PortAsRead(p) == (p % 256) * 256 + p \div 256

\* Mutant of SockaddrCmp: an address that compares greater is taken as
\* equal (only the "<" test of s_addr is made).
SockaddrCmpLessOnly(sa1, sa2, includePort) ==
    LET r == FamilyNum[sa1.family] - FamilyNum[sa2.family]
        c == IF sa1.family = "AF_INET"
             THEN LexCmp(Reverse(AddrBytes(sa1)), Reverse(AddrBytes(sa2)))
             ELSE LexCmp(AddrBytes(sa1), AddrBytes(sa2))
        pr == PortAsRead(sa1.port) - PortAsRead(sa2.port)
    IN IF r # 0 THEN r
       ELSE IF c < 0 THEN c
       ELSE IF includePort /\ pr # 0 THEN pr
       ELSE 0

\* evutil_sockaddr_cmp: families, then s_addr as an unsigned integer read
\* little-endian (its bytes last first) or s6_addr with memcmp, then the
\* ports as read.
SockaddrCmp(sa1, sa2, includePort) ==
    LET r == FamilyNum[sa1.family] - FamilyNum[sa2.family]
        c == IF sa1.family = "AF_INET"
             THEN LexCmp(Reverse(AddrBytes(sa1)), Reverse(AddrBytes(sa2)))
             ELSE LexCmp(AddrBytes(sa1), AddrBytes(sa2))
        pr == PortAsRead(sa1.port) - PortAsRead(sa2.port)
    IN IF r # 0 THEN r
       ELSE IF c # 0 THEN c
       ELSE IF includePort /\ pr # 0 THEN pr
       ELSE 0

-----------------------------------------------------------------------------
(* The reference: the forms the header of evutil_parse_sockaddr_port      *)
(* lists, "[IPv6Address]:port", "[IPv6Address]", "IPv6Address",            *)
(* "IPv4Address:port" and "IPv4Address", with RFC 4291 / dotted-quad      *)
(* addresses, an optional "%zone" after an IPv6 address (an interface     *)
(* name or a number), and a port of 1 to 65535 in decimal.               *)

AllDigits(t) == Len(t) >= 1 /\ \A k \in 1..Len(t) : IsDigit(t[k])
NumVal(t) == DigitsVal(t, 1, Len(t) + 1, 10)
PortText(t) == AllDigits(t) /\ Len(t) <= 5 /\ NumVal(t) \in 1..65535

\* An IPv6 address with an optional zone: [ok, addr, scope].
RefV6Zone(t) ==
    Once(IndexFrom(t, "%", 1), LAMBDA cp :
    Once(RefInet6(IF cp = 0 THEN t ELSE SubSeq(t, 1, cp - 1)), LAMBDA a :
    LET zone == SubSeq(t, cp + 1, Len(t))
    IN IF cp = 0 THEN [ok |-> a.ok, addr |-> a, scope |-> NoScope]
       ELSE [ok |-> a.ok /\ (zone \in DOMAIN IfIndex \/ AllDigits(zone)),
             addr |-> a,
             scope |-> CASE zone \in DOMAIN IfIndex -> IfIndex[zone]
                         [] AllDigits(zone) -> NumVal(zone)
                         [] OTHER -> NoScope]))

V6Sa(z, port) ==
    [family |-> "AF_INET6", addr |-> z.addr.words, port |-> port, scope |-> z.scope]
V4Sa(t, port) ==
    [family |-> "AF_INET", addr |-> IPv4Val(t), port |-> port, scope |-> NoScope]

\* [ok, sa] of a text in one of the documented forms.
RefParse(s) ==
    Once(IndexFrom(s, "]", 1), LAMBDA rb :
    Once(RefV6Zone(SubSeq(s, 2, rb - 1)), LAMBDA inner :
    Once(RefV6Zone(s), LAMBDA whole :
    LET rest == SubSeq(s, rb + 1, Len(s))
        cp == IndexFrom(s, ":", 1)
        host == SubSeq(s, 1, cp - 1)
        pt == SubSeq(s, cp + 1, Len(s))
    IN CASE At(s, 1) = "[" /\ rb # 0 /\ inner.ok /\ rest = <<>>
              -> [ok |-> TRUE, sa |-> V6Sa(inner, 0)]
         [] At(s, 1) = "[" /\ rb # 0 /\ inner.ok /\ Len(rest) >= 2 /\ rest[1] = ":"
              /\ PortText(Tail(rest))
              -> [ok |-> TRUE, sa |-> V6Sa(inner, NumVal(Tail(rest)))]
         [] whole.ok -> [ok |-> TRUE, sa |-> V6Sa(whole, 0)]
         [] cp # 0 /\ IPv4Text(host) /\ PortText(pt)
              -> [ok |-> TRUE, sa |-> V4Sa(host, NumVal(pt))]
         [] IPv4Text(s) -> [ok |-> TRUE, sa |-> V4Sa(s, 0)]
         [] OTHER -> [ok |-> FALSE])))

-----------------------------------------------------------------------------
(* Harnesses, joined in SockSpec.  FormatInit formats one sockaddr,      *)
(* ParseInit and ParseType parse every text typed from SockPieces with    *)
(* one *outlen, CmpInit compares three sockaddrs pairwise.  call tells    *)
(* them apart.                                                            *)

VARIABLES
    sa1, sa2, sa3,  \* sockaddrs given to the formatter and the comparison
    incl,           \* include_port
    outlen          \* *outlen given to evutil_parse_sockaddr_port

svars == <<af, addr, len, text, typed, call, sa1, sa2, sa3, incl, outlen>>

Scopes == {NoScope} \cup {IfIndex[n] : n \in DOMAIN IfIndex}

Sockaddrs ==
    [family : {"AF_INET"}, addr : SockAddrs4, port : Ports, scope : {NoScope}]
    \cup [family : {"AF_INET6"}, addr : SockAddrs6, port : Ports, scope : Scopes]

\* The variables of InetText's harnesses, unused here.
InetIdle ==
    /\ af = "AF_INET" /\ addr = <<0, 0, 0, 0>> /\ len = BigLen
    /\ text = <<>> /\ typed = 0

Stay == UNCHANGED svars

\* The text the formatter writes for sa1 is the text the parser is given.
FormatInit ==
    /\ af = "AF_INET" /\ addr = <<0, 0, 0, 0>> /\ len = BigLen /\ typed = 0
    /\ sa1 \in {sa \in Sockaddrs : sa.scope = NoScope}
    /\ text = FormatSockaddrPort(sa1, BUF_LEN)
    /\ sa2 = sa1 /\ sa3 = sa1 /\ incl = TRUE /\ outlen = SOCKADDR_IN6_LEN
    /\ call = "format"

ParseInit ==
    /\ InetIdle
    /\ outlen \in OutLens
    /\ LET sa0 == CHOOSE sa \in Sockaddrs : TRUE
       IN sa1 = sa0 /\ sa2 = sa0 /\ sa3 = sa0 /\ incl = TRUE
    /\ call = "parse"

ParseType ==
    /\ call = "parse"
    /\ typed < MaxSockPieces
    /\ \E piece \in SockPieces : text' = text \o piece
    /\ typed' = typed + 1
    /\ UNCHANGED <<af, addr, len, call, sa1, sa2, sa3, incl, outlen>>

CmpInit ==
    /\ InetIdle
    /\ sa1 \in Sockaddrs /\ sa2 \in Sockaddrs /\ sa3 \in Sockaddrs
    /\ incl \in BOOLEAN
    /\ outlen = SOCKADDR_IN6_LEN
    /\ call = "cmp"

SockSpec == (FormatInit \/ ParseInit \/ CmpInit) /\ [][ParseType \/ Stay]_svars

-----------------------------------------------------------------------------
(* Properties.                                                             *)

SizeOf(sa) == IF sa.family = "AF_INET" THEN SOCKADDR_IN_LEN ELSE SOCKADDR_IN6_LEN

\* The header of evutil_parse_sockaddr_port: each of the five documented
\* forms is parsed into its address, port (0 when absent) and zone, and
\* -1 is returned when *outlen is too small for the result.  This holds of
\* every typed text and of every text evutil_format_sockaddr_port_ writes,
\* which is moreover the documented form of the sockaddr it was given
\* ("[ipv6]:port" or "a.b.c.d:port", nothing cut off): what the formatter
\* writes, the parser reads back.
ParseDocumentedForms ==
    call \in {"parse", "format"} =>
    \A ref \in {RefParse(text)} :
       /\ call = "format" => ref = [ok |-> TRUE, sa |-> sa1]
       /\ ref.ok =>
            ParseSockaddrPort(text, outlen) =
                IF SizeOf(ref.sa) <= outlen THEN [ret |-> 0, sa |-> ref.sa]
                ELSE Refused

Sign(n) == IF n < 0 THEN -1 ELSE IF n > 0 THEN 1 ELSE 0

\* evutil_sockaddr_cmp is an ordering, "less than 0 if sa1 preceeds sa2, or
\* greater than 0 if sa1 follows sa2": antisymmetric and transitive,
\* although it compares s_addr and sin_port in network byte order as a
\* little-endian host reads them.  When it returns 0 is not stated here:
\* util.h says "0 if they are equal", and the code ignores sin6_scope_id.
SockaddrCmpIsOrder ==
    call = "cmp" =>
    /\ Sign(SockaddrCmp(sa1, sa2, incl)) = -Sign(SockaddrCmp(sa2, sa1, incl))
    /\ SockaddrCmp(sa1, sa2, incl) <= 0 /\ SockaddrCmp(sa2, sa3, incl) <= 0
           => SockaddrCmp(sa1, sa3, incl) <= 0

=============================================================================
