\* util.h's "As strcasecmp" for evutil_ascii_strcasecmp, on strings of up
\* to two bytes that include one above 127, for both signedness of char.
\* (The other harnesses of MC_Time keep their idle state.)
CONSTANTS
    USEC_PER_SEC = 2
    NSEC_PER_USEC = 2
    MaxSec = 2
    MaxOutSec = 4
    FlagSets <- MCFlagSets
    LONG_BITS <- MCLongBits
    Secs <- MCSecs
    Usecs <- MCUsecs
    Alphabet <- MCAlphabet
    MaxLen = 2
SPECIFICATION TimeSpec
INVARIANT AsStrcasecmp
