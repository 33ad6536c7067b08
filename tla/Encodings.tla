----------------------------- MODULE Encodings -----------------------------
(***************************************************************************)
(* Identifiers as sequences of bytes, and what src/lib/unitToIdMap.c does  *)
(* with their encoding: adjustEncoding() and latin1ToUtf8().  The          *)
(* terminating NUL of a C string is not part of the sequence.              *)
(***************************************************************************)
EXTENDS Integers, Sequences

CONSTANT CharIsSigned  \* is "char" a signed type, as it is on x86?

ASSUME CharAssumption == CharIsSigned \in BOOLEAN

Encoding == {"UT_ASCII", "UT_LATIN1", "UT_UTF8"}

High(c) == c >= 128

IsAscii(string) == \A i \in DOMAIN string : ~High(string[i])

Continuation == 128 .. 191

\* The number of bytes that a leading byte announces.  Stray continuation bytes
\* and 248 .. 255 lead nothing, and the code passes over them one by one.
Width(c) ==
  IF c \in 192 .. 223 THEN 2 ELSE IF c \in 224 .. 239 THEN 3
  ELSE IF c \in 240 .. 247 THEN 4 ELSE 1

\* The places after the leading byte at i where a continuation byte is missing.
Missing(string, i) ==
  { k \in 1 .. Width(string[i]) - 1 :
      i + k > Len(string) \/ string[i + k] \notin Continuation }

\* The scan stops at the first missing byte and complains unless that is the
\* end of the string, so it lets a truncated last character pass.
PassesAsUtf8(string) ==
  LET passes[i \in 1 .. Len(string) + 1] ==
        \/ i > Len(string)
        \/ IF Missing(string, i) = {}
           THEN passes[i + Width(string[i])]
           ELSE \A k \in Missing(string, i) : i + k > Len(string)
  IN passes[1]

\* adjustEncoding(): the encoding that a string is filed under, if any.
Adjusted(encoding, string) ==
  IF encoding = "UT_UTF8" THEN "UT_UTF8"
  ELSE IF IsAscii(string) THEN "UT_ASCII" ELSE "UT_LATIN1"

Conforms(encoding, string) == encoding = "UT_UTF8" => PassesAsUtf8(string)

\* latin1ToUtf8().  A signed char is sign-extended before it is shifted, so its
\* first byte becomes 254 or 255.
FirstByte(c) ==
  IF CharIsSigned THEN 252 + c \div 64 ELSE 192 + c \div 64

SecondByte(c) == 128 + (c % 64)

Latin1ToUtf8(string) ==
  LET converted[n \in 0 .. Len(string)] ==
        IF n = 0 THEN << >>
        ELSE converted[n - 1] \o (IF High(string[n])
                                  THEN <<FirstByte(string[n]), SecondByte(string[n])>>
                                  ELSE <<string[n]>>)
  IN converted[Len(string)]

\* strcasecmp() and tolower() in the C locale.
Lower(c) == IF c \in 65 .. 90 THEN c + 32 ELSE c

Folded(string) == [ i \in DOMAIN string |-> Lower(string[i]) ]
=============================================================================
