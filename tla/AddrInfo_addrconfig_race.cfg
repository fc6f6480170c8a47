\* Two threads in evutil_adjust_hints_for_addrconfig_ at once: the second
\* finds have_checked_interfaces set while the first is still probing,
\* and narrows the family by the flags found so far.
CONSTANTS
    NWORDS = 4
    Addrs4 <- MCAddrs4
    Addrs6 <- MCAddrs6
    SockAddrs4 <- MCAddrs4s
    SockAddrs6 <- MCAddrs6f
    Lens <- MCLensBig
    Pieces <- MCPieces
    MaxPieces = 0
    IfIndex <- MCIfIndex
    OutLens <- MCOutLens
    Ports <- MCPorts
    SockPieces <- MCSockPieces
    MaxSockPieces = 0
    Nodes <- MCNodes
    Servs <- MCServs
    HintSets <- MCHintSets
    Lefts <- MCLefts
    QuirkSets <- MCQuirkSets
    Threads = {t1, t2}
    Ifaddrs <- MCIfaddrs
    NoName = NoName
    Services <- MCServices
    ProtoNames <- MCProtoNames
    Dns <- MCDns
    INT_BITS = 20
    LONG_BITS = 24
SPECIFICATION AllSpec
INVARIANT AddrconfigUsesFinishedProbe
