\* The monotonic timer over every choice of flags and clock availability,
\* set up any number of times, with the wall clock stepped arbitrarily;
\* evutil_tv_to_msec_ on every timeval of a small set around its limits
\* (long at 21 bits); the weak RNG at 5 bits; and the ASCII helpers on
\* all 256 bytes and on strings of up to two bytes.
CONSTANTS
    USEC_PER_SEC = 2
    NSEC_PER_USEC = 2
    MaxSec = 2
    MaxOutSec = 4
    FlagSets <- MCFlagSets
    LONG_BITS <- MCLongBits
    Secs <- MCSecs
    Usecs <- MCUsecs
    Alphabet <- MCAlphabet
    MaxLen = 2
SPECIFICATION TimeSpec
INVARIANTS TypeOK MsecExact CharClassesAgree
    CaseCmpIsLexicographic RtrimIsLongestPrefix
PROPERTIES MonotonicPerClock ElapsedIsForwardMovement RangeReturns
