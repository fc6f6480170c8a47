\* The descriptor helpers with any kernel, and one evutil_ersatz_socketpair_
\* call with four ports and a backlog of two.
CONSTANTS
    d1 = d1
    d2 = d2
    d3 = d3
    rfNull = rfNull
    rfNoMem = rfNoMem
SPECIFICATION SocketsSpec
SYMMETRY MCSymmetry
INVARIANTS
    DescriptorsTypeOK
    NoDescriptorLeak
    FlagsAsPromised
    SocketpairTypeOK
    PairIsConnected
    NoSocketLeak
    ReadFileTypeOK
    ReadWithinAllocation
    NoLeakOnReturn
    WholeFileIfUnchanged
PROPERTY
    ReadFileReturns
