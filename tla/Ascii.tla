------------------------------- MODULE Ascii -------------------------------
(***************************************************************************)
(* The locale-independent ASCII helpers of evutil.c: the EVUTIL_IS*_()     *)
(* bit tables, EVUTIL_TOLOWER_/EVUTIL_TOUPPER_, evutil_ascii_strcasecmp,   *)
(* evutil_ascii_strncasecmp, evutil_rtrim_lws_ and evutil_hex_char_to_int_. *)
(*                                                                         *)
(* A character is its byte value in 0..255 and a C string the sequence of *)
(* its bytes before the terminating NUL.  Whether a plain char is signed  *)
(* is the build's choice (signed on x86, unsigned on ARM Linux); the two  *)
(* loops compare chars, so their results depend on it, and the operators  *)
(* take it as an argument.                                                 *)
(***************************************************************************)
EXTENDS Integers, Sequences

CONSTANTS
    Alphabet,   \* the bytes the harness builds strings from, in 1..255
    MaxLen      \* bound: the length of those strings

Bytes == 0..255

\* (char)u: the value a byte has as a plain char of the build.
CharVal(u, signedChar) == IF signedChar /\ u >= 128 THEN u - 256 ELSE u

\* The character at position i of a C string; its NUL past the end.
At(s, i) == IF i <= Len(s) THEN s[i] ELSE 0

-----------------------------------------------------------------------------
(* The tables.  Each EVUTIL_IS*_TABLE holds 256 bits in eight uint32_t.    *)
(* TLC's integers are 32-bit signed, so a word is held as the int32 with  *)
(* its bit pattern: 0xffffffff is -1.                                      *)

ISALPHA_TABLE == <<0, 0, \h7fffffe, \h7fffffe, 0, 0, 0, 0>>
ISALNUM_TABLE == <<0, \h3ff0000, \h7fffffe, \h7fffffe, 0, 0, 0, 0>>
ISSPACE_TABLE == <<\h3e00, \h1, 0, 0, 0, 0, 0, 0>>
ISDIGIT_TABLE == <<0, \h3ff0000, 0, 0, 0, 0, 0, 0>>
ISPRINT_TABLE == <<0, -1, -1, \h7fffffff, 0, 0, 0, 0>>
ISUPPER_TABLE == <<0, 0, \h7fffffe, 0, 0, 0, 0, 0>>
ISLOWER_TABLE == <<0, 0, 0, \h7fffffe, 0, 0, 0, 0>>

\* Mutant of ISXDIGIT_TABLE: the letter masks are 0x7f, which takes in '@'
\* and '`' with A-F and a-f.
ISXDIGIT_TABLE_AT == <<0, \h3ff0000, \h7f, \h7f, 0, 0, 0, 0>>

ISXDIGIT_TABLE == <<0, \h3ff0000, \h7e, \h7e, 0, 0, 0, 0>>

\* Bit b of a word held as its int32 pattern; bit 31 is the sign.
Bit(w, b) == IF b = 31 THEN w < 0 ELSE (w \div 2^b) % 2 = 1

\* IMPL_CTYPE_FN: uint8_t u = c; bit (u & 31) of word (u >> 5) & 7.
InTable(table, u) == Bit(table[((u \div 32) % 8) + 1], u % 32)

\* EVUTIL_TOLOWER_TABLE and EVUTIL_TOUPPER_TABLE list every byte at its
\* own position except in one row of 32 each: 64..95 and 96..127.
LowerRow == <<64, 97, 98, 99, 100, 101, 102, 103, 104, 105, 106, 107, 108,
              109, 110, 111, 112, 113, 114, 115, 116, 117, 118, 119, 120,
              121, 122, 91, 92, 93, 94, 95>>
UpperRow == <<96, 65, 66, 67, 68, 69, 70, 71, 72, 73, 74, 75, 76, 77, 78,
              79, 80, 81, 82, 83, 84, 85, 86, 87, 88, 89, 90, 123, 124,
              125, 126, 127>>
TOLOWER_TABLE == [u \in Bytes |-> IF u \in 64..95 THEN LowerRow[u - 63] ELSE u]
TOUPPER_TABLE == [u \in Bytes |-> IF u \in 96..127 THEN UpperRow[u - 95] ELSE u]

-----------------------------------------------------------------------------
(* The functions.                                                          *)

\* One pass of the comparison loops: the lowered characters at i, as chars.
Lowered(s, i, sc) == CharVal(TOLOWER_TABLE[At(s, i)], sc)

\* evutil_ascii_strcasecmp from position i.
RECURSIVE StrcasecmpFrom(_, _, _, _)
StrcasecmpFrom(s1, s2, i, sc) ==
    CASE Lowered(s1, i, sc) < Lowered(s2, i, sc) -> -1
      [] Lowered(s1, i, sc) > Lowered(s2, i, sc) -> 1
      [] Lowered(s1, i, sc) = 0 -> 0
      [] OTHER -> StrcasecmpFrom(s1, s2, i + 1, sc)

Strcasecmp(s1, s2, sc) == StrcasecmpFrom(s1, s2, 1, sc)

\* Mutant of StrncasecmpFrom: the loop tests n before it decrements it
\* (while (--n)), so one character fewer is compared.
RECURSIVE StrncasecmpShort(_, _, _, _, _)
StrncasecmpShort(s1, s2, i, n, sc) ==
    CASE n <= 1 -> 0
      [] Lowered(s1, i, sc) < Lowered(s2, i, sc) -> -1
      [] Lowered(s1, i, sc) > Lowered(s2, i, sc) -> 1
      [] Lowered(s1, i, sc) = 0 -> 0
      [] OTHER -> StrncasecmpShort(s1, s2, i + 1, n - 1, sc)

\* evutil_ascii_strncasecmp from position i with n characters left.
RECURSIVE StrncasecmpFrom(_, _, _, _, _)
StrncasecmpFrom(s1, s2, i, n, sc) ==
    CASE n = 0 -> 0
      [] Lowered(s1, i, sc) < Lowered(s2, i, sc) -> -1
      [] Lowered(s1, i, sc) > Lowered(s2, i, sc) -> 1
      [] Lowered(s1, i, sc) = 0 -> 0
      [] OTHER -> StrncasecmpFrom(s1, s2, i + 1, n - 1, sc)

Strncasecmp(s1, s2, n, sc) == StrncasecmpFrom(s1, s2, 1, n, sc)

\* Mutant of TrimFrom: the loop stops at the first character instead of
\* clearing it (while (cp > str && ...)).
RECURSIVE TrimKeepFirst(_, _)
TrimKeepFirst(s, cp) ==
    IF cp > 1 /\ s[cp] \in {32, 9} THEN TrimKeepFirst(s, cp - 1)
    ELSE SubSeq(s, 1, cp)

\* The loop of evutil_rtrim_lws_: while the character at cp is ' ' or
\* '\t' it is overwritten by NUL, and cp moves back unless it is at str.
RECURSIVE TrimFrom(_, _)
TrimFrom(s, cp) ==
    CASE s[cp] \notin {32, 9} -> SubSeq(s, 1, cp)
      [] cp = 1 -> <<>>
      [] OTHER -> TrimFrom(s, cp - 1)

\* evutil_rtrim_lws_: an empty string is left alone.
RtrimLws(s) == IF s = <<>> THEN s ELSE TrimFrom(s, Len(s))

\* evutil_hex_char_to_int_: the switch over '0'-'9', 'A'-'F', 'a'-'f'.
HexCharToInt(u) ==
    CASE u \in 48..57 -> u - 48
      [] u \in 65..70 -> u - 55
      [] u \in 97..102 -> u - 87
      [] OTHER -> -1

-----------------------------------------------------------------------------
(* The harness: one call per state, of the character functions on a byte   *)
(* or of the string functions on two strings and a count, of any values   *)
(* in the bounds.                                                          *)

VARIABLES byte, str1, str2, count

Strings == UNION {[1..k -> Alphabet] : k \in 0..MaxLen}

AsciiInit ==
    \/ /\ byte \in Bytes
       /\ str1 = <<>> /\ str2 = <<>> /\ count = 0
    \/ /\ byte = 0
       /\ str1 \in Strings /\ str2 \in Strings
       /\ count \in 0..MaxLen + 1

-----------------------------------------------------------------------------
(* The references: the "C" locale of the C standard, and the order of     *)
(* strcmp.                                                                 *)

CUpper == 65..90        \* 'A'..'Z'
CLower == 97..122       \* 'a'..'z'
CDigit == 48..57        \* '0'..'9'
CSpace == {9, 10, 11, 12, 13, 32}
CPrint == 32..126
CXDigit == CDigit \cup 65..70 \cup 97..102
HexDigitsLower == <<48, 49, 50, 51, 52, 53, 54, 55, 56, 57,
                    97, 98, 99, 100, 101, 102>>

CFold(u) == IF u \in CUpper THEN u + 32 ELSE u

\* A C string folded to lower case, with its NUL.
Folded(s) == [i \in 1..Len(s) + 1 |-> CFold(At(s, i))]

\* The first n characters of a C string.
Prefix(s, n) == SubSeq(s, 1, IF n < Len(s) THEN n ELSE Len(s))

\* strcmp's order on two NUL-terminated byte strings whose bytes compare
\* as the char values chosen by sc: the first difference decides.
LexCmp(a, b, sc) ==
    LET diff == {i \in 1..Len(a) : i <= Len(b) /\ a[i] # b[i]}
    IN IF diff = {} THEN 0
       ELSE LET k == CHOOSE i \in diff : \A j \in diff : i <= j
            IN IF CharVal(a[k], sc) < CharVal(b[k], sc) THEN -1 ELSE 1

-----------------------------------------------------------------------------
(* Properties.                                                             *)

\* Every EVUTIL_IS*_() table, EVUTIL_TOLOWER_/EVUTIL_TOUPPER_ and
\* evutil_hex_char_to_int_ agree with the "C" locale on every byte: what
\* the parsers accept as a digit or hex digit is what
\* evutil_hex_char_to_int_ can convert, with the digit's value.
CharClassesAgree ==
    LET u == byte IN
      /\ InTable(ISALPHA_TABLE, u) <=> u \in CUpper \cup CLower
      /\ InTable(ISALNUM_TABLE, u) <=> u \in CUpper \cup CLower \cup CDigit
      /\ InTable(ISSPACE_TABLE, u) <=> u \in CSpace
      /\ InTable(ISDIGIT_TABLE, u) <=> u \in CDigit
      /\ InTable(ISPRINT_TABLE, u) <=> u \in CPrint
      /\ InTable(ISUPPER_TABLE, u) <=> u \in CUpper
      /\ InTable(ISLOWER_TABLE, u) <=> u \in CLower
      /\ TOLOWER_TABLE[u] = CFold(u)
      /\ TOUPPER_TABLE[u] = IF u \in CLower THEN u - 32 ELSE u
      /\ HexCharToInt(u) # -1 <=> InTable(ISXDIGIT_TABLE, u)
      /\ HexCharToInt(u) # -1 =>
           HexDigitsLower[HexCharToInt(u) + 1] = TOLOWER_TABLE[u]

\* evutil_ascii_strcasecmp and evutil_ascii_strncasecmp order strings as
\* strcmp orders their lower-case forms (of the first n characters), with
\* the bytes compared as the build's chars, signed or not.
CaseCmpIsLexicographic ==
    \A sc \in BOOLEAN :
      /\ Strcasecmp(str1, str2, sc) = LexCmp(Folded(str1), Folded(str2), sc)
      /\ Strncasecmp(str1, str2, count, sc) =
           LexCmp(Folded(Prefix(str1, count)), Folded(Prefix(str2, count)), sc)

\* util.h: "As strcasecmp, but ... in locale-independent ASCII".  strcasecmp
\* compares the lower-cased bytes as unsigned char, so a byte above 127
\* sorts after every ASCII character, on every build.
AsStrcasecmp ==
    \A sc \in BOOLEAN :
      Strcasecmp(str1, str2, sc) = LexCmp(Folded(str1), Folded(str2), FALSE)

\* evutil_rtrim_lws_ cuts the string after its last character that is not
\* a space or a tab, down to the empty string if there is none.
RtrimIsLongestPrefix ==
    LET keep == {i \in 1..Len(str1) : str1[i] \notin {32, 9}}
    IN RtrimLws(str1) =
         SubSeq(str1, 1, IF keep = {} THEN 0
                         ELSE CHOOSE i \in keep : \A j \in keep : j <= i)

=============================================================================
