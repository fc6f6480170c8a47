\* The address conversions and the getaddrinfo front end together:
\* evutil_inet_ntop then evutil_inet_pton; evutil_inet_pton on every text
\* of up to 7 pieces; evutil_format_sockaddr_port_ then
\* evutil_parse_sockaddr_port; evutil_parse_sockaddr_port on every text of
\* up to 5 pieces; evutil_sockaddr_cmp on three sockaddrs;
\* evutil_getaddrinfo_common_ on every argument and budget;
\* evutil_getaddrinfo on hosts with every set of quirks; one thread
\* through evutil_adjust_hints_for_addrconfig_, repeatedly.
CONSTANTS
    NWORDS = 4
    Addrs4 <- MCAddrs4
    Addrs6 <- MCAddrs6
    SockAddrs4 <- MCAddrs4s
    SockAddrs6 <- MCAddrs6f
    Lens <- MCLensBig
    Pieces <- MCPieces
    MaxPieces = 7
    IfIndex <- MCIfIndex
    OutLens <- MCOutLens
    Ports <- MCPorts
    SockPieces <- MCSockPieces
    MaxSockPieces = 5
    Nodes <- MCNodes
    Servs <- MCServs
    HintSets <- MCHintSets
    Lefts <- MCLefts
    QuirkSets <- MCQuirkSets
    Threads = {t1}
    Ifaddrs <- MCIfaddrs
    NoName = NoName
    Services <- MCServices
    ProtoNames <- MCProtoNames
    Dns <- MCDns
    INT_BITS = 20
    LONG_BITS = 24
SPECIFICATION AllSpec
INVARIANTS TypeOK RoundTrip AcceptsAddressText ParseDocumentedForms SockaddrCmpIsOrder
INVARIANTS GaiCommonAsRfc GetaddrinfoHidesQuirks
