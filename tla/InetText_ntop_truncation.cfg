\* evutil_inet_ntop with every buffer size up to 20.
CONSTANTS
    NWORDS = 4
    Addrs4 <- MCAddrs4
    Addrs6 <- MCAddrs6
    Lens <- MCLensAll
    Pieces <- MCPieces
    MaxPieces = 0
SPECIFICATION NtopSpec
INVARIANT NtopFitsOrFails
