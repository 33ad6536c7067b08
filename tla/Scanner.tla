------------------------------ MODULE Scanner ------------------------------
(***************************************************************************)
(* src/lib/scanner.l: the token at a place of a text, in a start condition.*)
(*                                                                         *)
(* A rule of the scanner matches some of the lexemes that follow.  As flex *)
(* does, the longest match is taken, and of equally long ones the first in *)
(* the order of the rules.                                                 *)
(***************************************************************************)
EXTENDS Lexemes

CONSTANT
  OneLetter   \* the syllables that are one character

Condition == {"INITIAL", "ID_SEEN", "SHIFT_SEEN", "DATE_SEEN", "CLOCK_SEEN"}

At(text, p) == IF p <= Len(text) THEN text[p].t ELSE "end"

\* {space}*
Spaces(text, p) == IF At(text, p) = "sp" THEN 1 ELSE 0

\* [+-]?
Signs(text, p) == IF At(text, p) \in {"+", "-"} THEN 1 ELSE 0

\* {int}: a run of digits, whatever it means.
Digits == {"num", "pdate", "pclock", "far"}

\* The number of lexemes that match at p, 0 if the rule does not.
Around(text, p, c) ==
  LET b == Spaces(text, p)
  IN IF At(text, p + b) = c THEN b + 1 + Spaces(text, p + b + 1) ELSE 0

IsOne(text, p, types) == IF At(text, p) \in types THEN 1 ELSE 0

Signed(text, p, types) ==
  IF At(text, p + Signs(text, p)) \in types THEN 1 + Signs(text, p) ELSE 0

AsciiExponent(text, p) ==
  IF At(text, p) = "^" /\ Signed(text, p + 1, Digits) > 0 THEN 1 + Signed(text, p + 1, Digits) ELSE 0

\* The superscript minus and the digits other than 1, 2 and 3 have three bytes
\* in UTF-8 and are letters to the scanner, so an identifier goes on with them.
StartsWithLetter(n) == n < 0 \/ n \in {0, 4, 5, 6, 7, 8, 9}

Identifier(text, p) ==
  IF At(text, p) # "id" THEN 0
  ELSE IF At(text, p + 1) = "sup" /\ StartsWithLetter(text[p + 1].v) THEN 2 ELSE 1

\* A date and the "T" or the blanks after it; a clock and the blanks after it.
Dated(text, p, n) ==
  IF n = 0 THEN 0
  ELSE IF p + n <= Len(text) /\ (text[p + n] = TheT \/ text[p + n] = Blank) THEN n + 1 ELSE n

Clocked(text, p, n) == IF n = 0 THEN 0 ELSE n + Spaces(text, p + n)

Rule(token, n) == [token |-> token, n |-> n]

\* The rules that are active in a start condition, in the order of the file.
Rules(text, p, condition) ==
  LET initial == condition \in {"INITIAL", "ID_SEEN"}
      when(active, rule) == IF active THEN <<rule>> ELSE << >>
  IN  when(initial, Rule("SHIFT", Around(text, p, "@")))
   \o when(initial, Rule("DIVIDE", Around(text, p, "/")))
   \o when(initial, Rule("MULTIPLY", IsOne(text, p, {"-", ".", "middot", "*", "sp"})))
   \o when(initial, Rule("EXPONENT", AsciiExponent(text, p)))
   \o when(initial, Rule("SUPERSCRIPT", IsOne(text, p, {"sup"})))
   \o when(condition = "SHIFT_SEEN", Rule("broken_date", Dated(text, p, IsOne(text, p, {"bdate"}))))
   \o when(condition = "SHIFT_SEEN",
           Rule("packed_date", Dated(text, p, Signed(text, p, {"num", "pdate"}))))
   \o when(condition = "DATE_SEEN", Rule("clock", Clocked(text, p, Signed(text, p, {"bclock"}))))
   \o when(condition = "DATE_SEEN",
           Rule("clock", Clocked(text, p, Signed(text, p, {"num", "pclock"}))))
   \o when(condition = "CLOCK_SEEN", Rule("zone", Signed(text, p, {"bclock"})))
   \o when(condition = "CLOCK_SEEN", Rule("zone", Signed(text, p, Digits)))
   \o when(condition \in {"INITIAL", "SHIFT_SEEN"}, Rule("REAL", Signed(text, p, {"dec"})))
   \o when(initial \/ condition = "SHIFT_SEEN", Rule("INT", Signed(text, p, Digits)))
   \o <<Rule("LOGREF", IsOne(text, p, {"logref"}))>>
   \o when(condition \in {"INITIAL", "CLOCK_SEEN"}, Rule("ID", Identifier(text, p)))

Best(rules) ==
  LET i == CHOOSE i \in DOMAIN rules :
             \A j \in DOMAIN rules :
               rules[j].n < rules[i].n \/ (rules[j].n = rules[i].n /\ i <= j)
  IN rules[i]

-----------------------------------------------------------------------------
(* The values of the tokens.                                               *)

IsSigned(text, p) == At(text, p) = "-"
Bare(text, p) == text[p + Signs(text, p)]

\* A number as a multiple of 1 / Grain.
RealOf(text, p) ==
  LET l == Bare(text, p)
      magnitude == IF l.t = "dec" THEN l.v ELSE Grain * l.v
  IN IF IsSigned(text, p) THEN -magnitude ELSE magnitude

IntOf(text, p) == IF IsSigned(text, p) THEN -Bare(text, p).v ELSE Bare(text, p).v

\* decodeDate(): a date without month and day is January 1.
DateValue(text, p) ==
  IF Bare(text, p).t = "num" THEN YearDate(IntOf(text, p)) ELSE Bare(text, p).v

\* decodeClock(): minutes follow the sign of the hour, which 0 does not have.
DecodeClock(h, m, negative) ==
  IF negative /\ h > 0 THEN -(h * 60) - m ELSE h * 60 + m

ClockValue(text, p) ==
  LET l == Bare(text, p)
  IN IF l.t = "num" THEN DecodeClock(l.v, 0, IsSigned(text, p))
     ELSE DecodeClock(l.h, l.m, IsSigned(text, p))

-----------------------------------------------------------------------------

Token(token, value, p, condition) ==
  [token |-> token, value |-> value, p |-> p, condition |-> condition]

\* The rule "." takes one character, perhaps of a longer lexeme.
OtherChar(text, p) ==
  LET whole == \/ text[p].t \notin {"id", "num", "dec", "sup", "bdate", "pdate", "bclock", "pclock", "far"}
               \/ text[p].t = "num"
               \/ text[p].t = "id" /\ Len(text[p].s) = 1 /\ text[p].s[1] \in OneLetter
  IN Token(IF text[p].t \in {"(", ")"} THEN text[p].t ELSE "undefined", 0,
           IF whole THEN p + 1 ELSE p, "INITIAL")

\* Four digits after the shift are a year for a unit of time, and a number for
\* any other.
PackedDateToken(text, p, isTime, next) ==
  IF isTime THEN Token("DATE", DateValue(text, p), next, "DATE_SEEN")
  ELSE Token("REAL", RealOf(text, p), next, "INITIAL")

\* Syllables that no unit is known by.
Garbled(text, p) == Append(text[p].s, "superscript")

\* The token of a rule.
TokenOf(text, p, rule, condition, isTime) ==
  LET next == p + rule.n
  IN CASE rule.n = 0 -> OtherChar(text, p)
       [] rule.n > 0 /\ rule.token = "SHIFT" -> Token("SHIFT", 0, next, "SHIFT_SEEN")
       [] rule.n > 0 /\ rule.token \in {"DIVIDE", "MULTIPLY"} -> Token(rule.token, 0, next, "INITIAL")
       [] rule.n > 0 /\ rule.token = "EXPONENT" -> Token("EXPONENT", IntOf(text, p + 1), next, condition)
       [] rule.n > 0 /\ rule.token = "SUPERSCRIPT" -> Token("EXPONENT", text[p].v, next, "INITIAL")
       [] rule.n > 0 /\ rule.token = "broken_date" -> Token("DATE", text[p].v, next, "DATE_SEEN")
       [] rule.n > 0 /\ rule.token = "packed_date" -> PackedDateToken(text, p, isTime, next)
       [] rule.n > 0 /\ rule.token = "clock" -> Token("CLOCK", ClockValue(text, p), next, "CLOCK_SEEN")
       [] rule.n > 0 /\ rule.token = "zone" -> Token("CLOCK", ClockValue(text, p), next, "INITIAL")
       [] rule.n > 0 /\ rule.token = "REAL" -> Token("REAL", RealOf(text, p), next, "INITIAL")
       [] rule.n > 0 /\ rule.token = "INT" -> Token("INT", IntOf(text, p), next, "INITIAL")
       [] rule.n > 0 /\ rule.token = "LOGREF" -> Token("LOGREF", text[p].v, next, condition)
       [] rule.n > 0 /\ rule.token = "ID" ->
            Token("ID", IF rule.n = 1 THEN text[p].s ELSE Garbled(text, p), next, "ID_SEEN")

\* utlex(): the set of the one token that is next.
Scan(text, p, condition, isTime) ==
  IF p > Len(text) THEN {Token("EOF", 0, p, condition)}
  ELSE LET rule == { Best(rules) : rules \in {Rules(text, p, condition)} }
       IN { TokenOf(text, p, r, condition, isTime) : r \in rule }
=============================================================================
