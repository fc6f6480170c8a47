\* Fork safety and the reseed bound of the ARC4 PRNG on a host whose
\* getrandom(2) always succeeds.
CONSTANTS
    p1 = p1
    p2 = p2
    p3 = p3
    NoPid = NoPid
    Procs <- MCProcs
    FirstProc = p1
    BYTES_BEFORE_RESEED = 2
    DISCARD = 1
    BufLens <- MCBufLens
    AddLens <- MCAddLens
    Reliable <- MCUnreliable
    MaxTokens = 4
    MaxPos = 7
SPECIFICATION Spec
INVARIANT NoUnseededOutput
