------------------------------ MODULE InetText ------------------------------
(***************************************************************************)
(* evutil_inet_pton and evutil_inet_ntop (evutil.c), the replacements of  *)
(* inet_pton(3) and inet_ntop(3).  Both are pure functions and are        *)
(* modelled as operators: a text is a sequence of one-character strings,  *)
(* an IPv4 address the four bytes of s_addr in network order (the shifts *)
(* of ntohl(s_addr) and of htonl(a<<24|...) take them apart and put them *)
(* together), an IPv6 address its NWORDS 16-bit words.  NWORDS is 8 in the code; a model may *)
(* scale it down, and every constant of the code derived from it (the     *)
(* 7 of "i > 7", the 6 and 7 of the embedded IPv4 words, the five leading *)
(* zero words of an IPv4-mapped address) is written in terms of it.       *)
(*                                                                         *)
(* The scans the code borrows from libc are modelled by what they do on   *)
(* digit text: strtol(s, &next, 16) takes an optional "0x" and the         *)
(* longest run of hex digits, sscanf's %u the longest run of decimal      *)
(* digits.  Their handling of white space and signs is left out: the      *)
(* parser only calls strtol on a hex digit, and the texts checked hold no *)
(* white space or signs.                                                   *)
(***************************************************************************)
EXTENDS Integers, Sequences, SequencesExt

CONSTANTS
    NWORDS,     \* 16-bit words of an IPv6 address: 8
    Addrs4,     \* IPv4 addresses given to evutil_inet_ntop
    Addrs6,     \* IPv6 addresses given to evutil_inet_ntop
    Lens,       \* output buffer sizes given to evutil_inet_ntop
    Pieces,     \* pieces of which the texts given to evutil_inet_pton are made
    MaxPieces   \* bound: pieces in one text

ASSUME NWORDS \in 4..8

NUL == "NUL"        \* the terminating '\0' read past the end of a text

\* F applied to the value v, v evaluated once however often F uses it
\* (a local variable of the C code that is read several times).
Once(v, F(_)) == CHOOSE y \in {F(x) : x \in {v}} : TRUE

DecDigits == <<"0", "1", "2", "3", "4", "5", "6", "7", "8", "9">>
HexDigits == DecDigits \o <<"a", "b", "c", "d", "e", "f">>
UpperHex == <<"A", "B", "C", "D", "E", "F">>

\* EVUTIL_ISDIGIT_ and EVUTIL_ISXDIGIT_
DecDigitSet == ToSet(DecDigits)
XDigitSet == ToSet(HexDigits) \cup ToSet(UpperHex)
IsDigit(c) == c \in DecDigitSet
IsXDigit(c) == c \in XDigitSet

\* The value of each hex digit, either case.
DigitValues ==
    [c \in XDigitSet |->
        IF c \in ToSet(HexDigits)
        THEN CHOOSE v \in 0..15 : HexDigits[v + 1] = c
        ELSE 10 + CHOOSE v \in 0..5 : UpperHex[v + 1] = c]
DigitVal(c) == DigitValues[c]

\* The character at (1-based) position p, or the terminator past the end.
At(s, p) == IF p \in 1..Len(s) THEN s[p] ELSE NUL

\* The first position at or after p that is not a hex (decimal) digit.
RECURSIVE HexRunEnd(_, _), DecRunEnd(_, _)
HexRunEnd(s, p) == IF IsXDigit(At(s, p)) THEN HexRunEnd(s, p + 1) ELSE p
DecRunEnd(s, p) == IF IsDigit(At(s, p)) THEN DecRunEnd(s, p + 1) ELSE p

\* strtol and strtoul clamp a value that overflows; any value above
\* Saturated is rejected by every check the code makes, so it stands for
\* them all.
Saturated == 16777216

\* The value of the digits s[a..b-1] in the given base, clamped.
RECURSIVE DigitsVal(_, _, _, _)
DigitsVal(s, a, b, base) ==
    IF b <= a THEN 0
    ELSE Once(DigitsVal(s, a, b - 1, base) * base + DigitVal(s[b - 1]),
              LAMBDA v : IF v > Saturated THEN Saturated ELSE v)

\* strtol(s + p - 1, &next, 16) where s[p] is a hex digit: [val, next].
Strtol16(s, p) ==
    Once(IF /\ At(s, p) = "0" /\ At(s, p + 1) \in {"x", "X"}
            /\ IsXDigit(At(s, p + 2))
         THEN p + 2 ELSE p, LAMBDA from :
      Once(HexRunEnd(s, from), LAMBDA e : [val |-> DigitsVal(s, from, e, 16), next |-> e]))

\* sscanf(s + p - 1, "%u.%u.%u.%u%c", ...) = 4: four decimal numbers
\* separated by dots that reach the end of the text.  [ok, vals].
Scan4(s, p) ==
    Once(DecRunEnd(s, p), LAMBDA e1 :
    Once(DecRunEnd(s, e1 + 1), LAMBDA e2 :
    Once(DecRunEnd(s, e2 + 1), LAMBDA e3 :
    Once(DecRunEnd(s, e3 + 1), LAMBDA e4 :
       [ok |-> /\ e1 > p /\ At(s, e1) = "."
               /\ e2 > e1 + 1 /\ At(s, e2) = "."
               /\ e3 > e2 + 1 /\ At(s, e3) = "."
               /\ e4 > e3 + 1 /\ At(s, e4) = NUL,
        vals |-> <<DigitsVal(s, p, e1, 10), DigitsVal(s, e1 + 1, e2, 10),
                   DigitsVal(s, e2 + 1, e3, 10), DigitsVal(s, e3 + 1, e4, 10)>>]))))

-----------------------------------------------------------------------------
(* evutil_inet_pton                                                        *)

Fail == [ret |-> 0]

\* AF_INET: four decimal numbers of at most 255, s_addr = a.b.c.d.
PtonInet(s) ==
    Once(Scan4(s, 1), LAMBDA sc :
       IF ~sc.ok \/ \E k \in 1..4 : sc.vals[k] > 255 THEN Fail
       ELSE [ret |-> 1, addr |-> sc.vals])

\* The words[] the loop has not written.
Unset == -1

\* Mutant of PtonWords: a leading "::" is not recognised.
RECURSIVE PtonWordsNoLeadingGap(_, _, _)
PtonWordsNoLeadingGap(s, eow, st) ==
    IF st.src >= eow THEN [ret |-> 1] @@ st
    ELSE IF st.i > NWORDS - 1 THEN Fail
    ELSE IF IsXDigit(At(s, st.src))
    THEN LET r == Strtol16(s, st.src)
         IN IF r.next > st.src + 4 \/ r.next = st.src \/ r.val > 65536
            THEN Fail
            ELSE IF At(s, r.next) # ":" /\ r.next # eow THEN Fail
            ELSE PtonWordsNoLeadingGap(s, eow,
                   [st EXCEPT !.words = [@ EXCEPT ![st.i] = r.val % 65536],
                              !.i = @ + 1, !.setWords = @ + 1,
                              !.src = r.next + 1])
    ELSE IF At(s, st.src) = ":" /\ st.i > 0 /\ st.gapPos = -1
    THEN PtonWordsNoLeadingGap(s, eow, [st EXCEPT !.gapPos = st.i, !.src = @ + 1])
    ELSE Fail

\* The loop "while (src < eow)" over the colon-separated words before the
\* dotted part (or the end).  st holds src, i, gapPos, setWords, words.
RECURSIVE PtonWords(_, _, _)
PtonWords(s, eow, st) ==
    IF st.src >= eow THEN [ret |-> 1] @@ st
    ELSE IF st.i > NWORDS - 1 THEN Fail
    ELSE IF IsXDigit(At(s, st.src))
    THEN Once(Strtol16(s, st.src), LAMBDA r :
            IF r.next > st.src + 4 \/ r.next = st.src \/ r.val > 65536
            THEN Fail
            ELSE IF At(s, r.next) # ":" /\ r.next # eow THEN Fail
            ELSE Once([st EXCEPT !.words = [@ EXCEPT ![st.i] = r.val % 65536],
                                 !.i = @ + 1, !.setWords = @ + 1,
                                 !.src = r.next + 1],
                      LAMBDA next : PtonWords(s, eow, next)))
    ELSE IF At(s, st.src) = ":" /\ st.i > 0 /\ st.gapPos = -1
    THEN Once([st EXCEPT !.gapPos = st.i, !.src = @ + 1], LAMBDA next : PtonWords(s, eow, next))
    ELSE IF /\ At(s, st.src) = ":" /\ st.i = 0 /\ At(s, st.src + 1) = ":"
            /\ st.gapPos = -1
    THEN Once([st EXCEPT !.gapPos = 0, !.src = @ + 2], LAMBDA next : PtonWords(s, eow, next))
    ELSE Fail

\* Mutant of OpenGap: the memset clears one word too few.
OpenGapShortMemset(words, gapPos, gapLen, nToMove) ==
    [k \in 0..NWORDS - 1 |->
        IF k < gapPos THEN words[k]
        ELSE IF k < gapPos + gapLen - 1 THEN 0
        ELSE IF k = gapPos + gapLen - 1 THEN words[k]
        ELSE IF k < gapPos + gapLen + nToMove THEN words[k - gapLen]
        ELSE words[k]]

\* The memmove and memset that open the gap of "::" to its full length.
OpenGap(words, gapPos, gapLen, nToMove) ==
    [k \in 0..NWORDS - 1 |->
        IF k < gapPos THEN words[k]
        ELSE IF k < gapPos + gapLen THEN 0
        ELSE IF k < gapPos + gapLen + nToMove THEN words[k - gapLen]
        ELSE words[k]]

\* Mutant of FinishWords: the words of the dotted part are moved too.
FinishWordsMoveDotted(st, dot) ==
    IF \/ st.setWords > NWORDS
       \/ st.setWords = NWORDS /\ st.gapPos # -1
       \/ st.setWords < NWORDS /\ st.gapPos = -1
    THEN Fail
    ELSE IF st.gapPos < 0 THEN [ret |-> 1, words |-> st.words]
    ELSE LET nToMove == st.setWords - st.gapPos
             gapLen == NWORDS - st.setWords
         IN IF nToMove < 0 THEN [ret |-> -1]
            ELSE [ret |-> 1, words |-> OpenGap(st.words, st.gapPos, gapLen, nToMove)]

\* The checks after the loop: the number of words against the gap.
FinishWords(st, dot) ==
    IF \/ st.setWords > NWORDS
       \/ st.setWords = NWORDS /\ st.gapPos # -1
       \/ st.setWords < NWORDS /\ st.gapPos = -1
    THEN Fail
    ELSE IF st.gapPos < 0 THEN [ret |-> 1, words |-> st.words]
    ELSE LET nToMove == st.setWords - (IF dot THEN 2 ELSE 0) - st.gapPos
             gapLen == NWORDS - st.setWords
         IN IF nToMove < 0 THEN [ret |-> -1]
            ELSE [ret |-> 1, words |-> OpenGap(st.words, st.gapPos, gapLen, nToMove)]

\* AF_INET6.  An embedded IPv4 part is found from the first '.', back
\* over the decimal digits before it, and fills the last two words.
PtonInet6(s) ==
    Once(IF \E p \in 1..Len(s) : s[p] = "."
         THEN CHOOSE p \in 1..Len(s) : s[p] = "." /\ \A q \in 1..p - 1 : s[q] # "."
         ELSE 0, LAMBDA dot :
    Once(IF dot = 0 THEN Len(s) + 1
         ELSE LET back == {p \in 1..dot : \A q \in p..dot - 1 : IsDigit(s[q])}
              IN CHOOSE p \in back : \A q \in back : p <= q, LAMBDA eow :
    Once(Scan4(s, eow), LAMBDA sc :
    LET none == [k \in 0..NWORDS - 1 |-> Unset]
        start == [src |-> 1, i |-> 0, gapPos |-> -1, setWords |-> 0, words |-> none]
        st0 == IF dot = 0 THEN start
               ELSE [start EXCEPT
                       !.words = [@ EXCEPT
                           ![NWORDS - 2] = sc.vals[1] * 256 + sc.vals[2],
                           ![NWORDS - 1] = sc.vals[3] * 256 + sc.vals[4]],
                       !.setWords = 2]
    IN IF dot = 1 THEN Fail
       ELSE IF dot # 0 /\ ~sc.ok THEN Fail
       ELSE IF dot # 0 /\ \E k \in 1..4 : sc.vals[k] > 255 THEN Fail
       ELSE Once(PtonWords(s, eow, st0), LAMBDA r :
              IF r.ret # 1 THEN r ELSE FinishWords(r, dot # 0)))))

-----------------------------------------------------------------------------
(* evutil_inet_ntop                                                        *)

\* "%x" (base 16) and "%d" (base 10) of a non-negative number.
RECURSIVE Radix(_, _)
Radix(n, base) ==
    IF n < base THEN <<HexDigits[n + 1]>>
    ELSE Radix(n \div base, base) \o <<HexDigits[(n % base) + 1]>>

\* "%d.%d.%d.%d" of four bytes.
Dotted(b) ==
    Radix(b[1], 10) \o <<".">> \o Radix(b[2], 10) \o <<".">>
        \o Radix(b[3], 10) \o <<".">> \o Radix(b[4], 10)

NULL == [ret |-> "NULL"]

\* AF_INET: evutil_snprintf returns the untruncated length r, and r >= len
\* makes the call return NULL.
NtopInet(a, len) ==
    LET text == Dotted(a)
    IN IF Len(text) >= len THEN NULL ELSE [ret |-> "dst", dst |-> text]

\* The first index at or after i that is past a run of zero words.
RECURSIVE ZeroRunEnd(_, _)
ZeroRunEnd(w, i) == IF i < NWORDS /\ w[i] = 0 THEN ZeroRunEnd(w, i + 1) ELSE i

\* The scan for the longest run of zero words; the first one wins a tie.
RECURSIVE LongestGap(_, _, _)
LongestGap(w, i, best) ==
    IF i >= NWORDS THEN best
    ELSE IF w[i] = 0
         THEN LET e == ZeroRunEnd(w, i)
              IN LongestGap(w, e, IF e - i > best.len
                                  THEN [pos |-> i, len |-> e - i] ELSE best)
         ELSE LongestGap(w, i + 1, best)

\* The loop that writes the words, with "::" for the gap at gapPos.
RECURSIVE Emit(_, _, _)
Emit(w, gapPos, i) ==
    IF i >= NWORDS THEN <<>>
    ELSE IF w[i] = 0 /\ gapPos = i
         THEN (IF i = 0 THEN <<":", ":">> ELSE <<":">>)
                  \o Emit(w, gapPos, ZeroRunEnd(w, i))
         ELSE Radix(w[i], 16) \o (IF i # NWORDS - 1 THEN <<":">> ELSE <<>>)
                  \o Emit(w, gapPos, i + 1)

\* The test for an IPv4-compatible or IPv4-mapped address.
IsIPv4Embedded(w) ==
    /\ \A k \in 0..NWORDS - 4 : w[k] = 0
    /\ \/ w[NWORDS - 3] = 0 /\ w[NWORDS - 2] # 0 /\ w[NWORDS - 1] # 0
       \/ w[NWORDS - 3] = 65535

\* The text the AF_INET6 branch builds in buf[64].
Ntop6Text(w) ==
    IF IsIPv4Embedded(w)
    THEN <<":", ":">>
         \o (IF w[NWORDS - 3] = 0 THEN <<>> ELSE Radix(w[NWORDS - 3], 16) \o <<":">>)
         \o Dotted(<<w[NWORDS - 2] \div 256, w[NWORDS - 2] % 256,
                     w[NWORDS - 1] \div 256, w[NWORDS - 1] % 256>>)
    ELSE LET g == LongestGap(w, 0, [pos |-> -1, len |-> 0])
         IN Emit(w, IF g.len <= 1 THEN -1 ELSE g.pos, 0)

\* AF_INET6: NULL if strlen(buf) > len, else strlcpy(dst, buf, len), which
\* copies at most len - 1 characters.
NtopInet6(w, len) ==
    LET buf == Ntop6Text(w)
    IN IF Len(buf) > len THEN NULL
       ELSE [ret |-> "dst",
             dst |-> SubSeq(buf, 1, IF Len(buf) < len - 1 THEN Len(buf) ELSE len - 1)]

-----------------------------------------------------------------------------
(* The reference: the text forms of RFC 4291 section 2.2 (with the        *)
(* dec-octet of RFC 3986), written independently of the code.            *)

\* The pieces of s between occurrences of c.
RECURSIVE SplitAt(_, _)
SplitAt(s, c) ==
    IF \E p \in 1..Len(s) : s[p] = c
    THEN Once(CHOOSE p \in 1..Len(s) : s[p] = c /\ \A q \in 1..p - 1 : s[q] # c, LAMBDA p :
           <<SubSeq(s, 1, p - 1)>> \o SplitAt(SubSeq(s, p + 1, Len(s)), c))
    ELSE <<s>>

H16(g) == Len(g) \in 1..4 /\ \A k \in 1..Len(g) : IsXDigit(g[k])
H16Val(g) == DigitsVal(g, 1, Len(g) + 1, 16)
DecOctet(g) ==
    /\ Len(g) \in 1..3 /\ \A k \in 1..Len(g) : IsDigit(g[k])
    /\ g[1] = "0" => Len(g) = 1
    /\ DigitsVal(g, 1, Len(g) + 1, 10) <= 255
IPv4Text(s) ==
    Once(SplitAt(s, "."), LAMBDA parts :
       Len(parts) = 4 /\ \A k \in 1..4 : DecOctet(parts[k]))
IPv4Val(s) ==
    Once(SplitAt(s, "."), LAMBDA parts :
       [k \in 1..4 |-> DigitsVal(parts[k], 1, Len(parts[k]) + 1, 10)])

\* "h16:h16:...", the last group possibly an IPv4 address (ls32): its words.
Groups(t, v4Last) ==
    Once(SplitAt(t, ":"), LAMBDA gs :
    LET n == Len(gs)
        heads == [k \in 1..n - 1 |-> H16Val(gs[k])]
    IN IF t = <<>> THEN [ok |-> TRUE, words |-> <<>>]
       ELSE IF \A k \in 1..n : H16(gs[k])
       THEN [ok |-> TRUE, words |-> [k \in 1..n |-> H16Val(gs[k])]]
       ELSE IF v4Last /\ (\A k \in 1..n - 1 : H16(gs[k])) /\ IPv4Text(gs[n])
       THEN Once(IPv4Val(gs[n]), LAMBDA v :
              [ok |-> TRUE, words |-> heads \o <<v[1] * 256 + v[2], v[3] * 256 + v[4]>>])
       ELSE [ok |-> FALSE, words |-> <<>>])

AsWords(seq) == [k \in 0..NWORDS - 1 |-> seq[k + 1]]

\* An IPv6 address text: NWORDS groups, or one "::" standing for at least
\* one zero word.  [ok, words].
RefInet6(s) ==
    Once({p \in 1..Len(s) - 1 : s[p] = ":" /\ s[p + 1] = ":"}, LAMBDA dc :
      IF dc = {}
      THEN Once(Groups(s, TRUE), LAMBDA g :
             IF g.ok /\ Len(g.words) = NWORDS
             THEN [ok |-> TRUE, words |-> AsWords(g.words)] ELSE [ok |-> FALSE])
      ELSE Once(CHOOSE p \in dc : TRUE, LAMBDA p :
           Once(Groups(SubSeq(s, 1, p - 1), FALSE), LAMBDA l :
           Once(Groups(SubSeq(s, p + 2, Len(s)), TRUE), LAMBDA r :
             LET zeros == [k \in 1..NWORDS - Len(l.words) - Len(r.words) |-> 0]
             IN IF /\ \A q \in dc : q = p
                   /\ l.ok /\ r.ok /\ Len(l.words) + Len(r.words) <= NWORDS - 1
                THEN [ok |-> TRUE, words |-> AsWords(l.words \o zeros \o r.words)]
                ELSE [ok |-> FALSE]))))

-----------------------------------------------------------------------------
(* Two harnesses, joined in Spec.  NtopSpec holds one call of            *)
(* evutil_inet_ntop: an address family, an address and a buffer size.     *)
(* PtonSpec types a text piece by piece, and every prefix is a text given *)
(* to evutil_inet_pton.                                                     *)

VARIABLES
    af,         \* "AF_INET" or "AF_INET6"
    addr,       \* the address given to evutil_inet_ntop
    len,        \* the size of its output buffer
    text,       \* the text given to evutil_inet_pton
    typed,      \* pieces in text
    call        \* "ntop" or "pton": the function the state exercises

vars == <<af, addr, len, text, typed, call>>

BigLen == 64    \* a buffer larger than any address text

Ntop(f, a, l) == IF f = "AF_INET" THEN NtopInet(a, l) ELSE NtopInet6(a, l)
Pton(f, s) == IF f = "AF_INET" THEN PtonInet(s) ELSE PtonInet6(s)

NtopInit ==
    /\ \/ af = "AF_INET" /\ addr \in Addrs4
       \/ af = "AF_INET6" /\ addr \in Addrs6
    /\ len \in Lens
    /\ text = <<>>
    /\ typed = 0
    /\ call = "ntop"

\* The call is made once; its result does not change.
Done == UNCHANGED vars

NtopSpec == NtopInit /\ [][Done]_vars

PtonInit ==
    /\ af = "AF_INET6" /\ addr = [k \in 0..NWORDS - 1 |-> 0] /\ len = BigLen
    /\ text = <<>>
    /\ typed = 0
    /\ call = "pton"

Type ==
    /\ call = "pton"
    /\ typed < MaxPieces
    /\ \E piece \in Pieces : text' = text \o piece
    /\ typed' = typed + 1
    /\ UNCHANGED <<af, addr, len, call>>

PtonSpec == PtonInit /\ [][Type]_vars

\* Both harnesses in one behaviour set; a finished call stays as it is.
Spec == (NtopInit \/ PtonInit) /\ [][Type \/ Done]_vars

-----------------------------------------------------------------------------
(* Properties.                                                             *)

\* evutil_inet_pton returns 1 or 0 ("return -1; /* should be impossible */"
\* is never reached), and on success every word of the IPv6 result was
\* written by the loop, the dotted part or the gap's memmove/memset: none
\* is left uninitialized, none is out of 16 bits.
TypeOK ==
    /\ call = "pton" => text \in Seq(ToSet(HexDigits) \cup ToSet(UpperHex) \cup {":", ".", "x", "X"})
    /\ call = "pton" => \A r \in {PtonInet6(text)} :
          /\ r.ret \in {0, 1}
          /\ r.ret = 1 => r.words \in [0..NWORDS - 1 -> 0..65535]

\* What evutil_inet_ntop prints, evutil_inet_pton reads back as the same
\* address: the "::" compression, the embedded IPv4 forms and the gap
\* reconstruction of the parser agree, for both families.
RoundTrip ==
    call = "ntop" =>
    LET out == Ntop(af, addr, BigLen)
    IN /\ out.ret = "dst"
       /\ Pton(af, out.dst) = IF af = "AF_INET" THEN [ret |-> 1, addr |-> addr]
                              ELSE [ret |-> 1, words |-> addr]

\* inet_ntop(3), which evutil_inet_ntop replaces: a buffer too small for
\* the text makes the call fail (ENOSPC); a call that returns dst has
\* written the whole text.
NtopFitsOrFails ==
    LET out == Ntop(af, addr, len)
    IN out.ret = "dst" => out.dst = Ntop(af, addr, BigLen).dst

\* Every RFC 4291 IPv6 text and every dotted-quad IPv4 text is accepted
\* by evutil_inet_pton, as the address the RFC gives it.
AcceptsAddressText ==
    call = "pton" =>
    /\ \A ref \in {RefInet6(text)} :
          ref.ok => PtonInet6(text) = [ret |-> 1, words |-> ref.words]
    /\ IPv4Text(text) => PtonInet(text) = [ret |-> 1, addr |-> IPv4Val(text)]

=============================================================================
