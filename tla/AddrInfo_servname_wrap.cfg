\* evutil_getaddrinfo_common_ given a decimal servname that strtol reads
\* within a long but that is out of an int's range: parse_numeric_servname
\* casts it to int, and the low bits are taken as the port.
CONSTANTS
    NWORDS = 4
    Addrs4 <- MCAddrs4
    Addrs6 <- MCAddrs6
    SockAddrs4 <- MCAddrs4s
    SockAddrs6 <- MCAddrs6f
    Lens <- MCLensBig
    Pieces <- MCPieces
    MaxPieces = 0
    IfIndex <- MCIfIndex
    OutLens <- MCOutLens
    Ports <- MCPorts
    SockPieces <- MCSockPieces
    MaxSockPieces = 0
    Nodes <- MCNodes
    Servs <- MCWrapServs
    HintSets <- MCHintSets
    Lefts <- MCLefts
    QuirkSets <- MCQuirkSets
    Threads = {t1}
    Ifaddrs <- MCIfaddrs
    NoName = NoName
    Services <- MCServices
    ProtoNames <- MCProtoNames
    Dns <- MCDns
    INT_BITS = 20
    LONG_BITS = 24
SPECIFICATION AllSpec
INVARIANT GaiCommonAsRfc
