------------------------------ MODULE Lexemes ------------------------------
(***************************************************************************)
(* The text of a unit specification, as src/lib/formatter.c writes it and  *)
(* src/lib/scanner.l reads it: a sequence of lexemes, the pieces that no   *)
(* rule of the scanner tears apart in the texts considered here.  What an  *)
(* identifier, a number or a date looks like in characters is left out;    *)
(* where one lexeme ends and which of them a rule takes together is not.   *)
(* Values are multiples of 1 / Grain.                                      *)
(***************************************************************************)
EXTENDS Integers, Sequences

CONSTANTS
  Grain,
  YearDate(_)   \* the day number of January 1 of a year

ASSUME GrainAssumption == Grain \in Nat \ {0}

Sym(c) == [t |-> c]                   \* a character, or a run of blanks: "sp"
Id(s) == [t |-> "id", s |-> s]        \* an identifier, as a sequence of syllables
Num(n) == [t |-> "num", v |-> n]      \* one digit
Dec(g) == [t |-> "dec", v |-> g]      \* digits with a decimal point or an exponent
Sup(n) == [t |-> "sup", v |-> n]      \* superscript characters
BrokenDate(d) == [t |-> "bdate", v |-> d]                  \* 2001-01-01
Far(d) == [t |-> "far", v |-> d]      \* the digits of the year of a day that has more than four
PackedDate(d) == [t |-> "pdate", v |-> d]                  \* 20010101
BrokenClock(h, m) == [t |-> "bclock", h |-> h, m |-> m]    \* 12:30
PackedClock(h, m) == [t |-> "pclock", h |-> h, m |-> m]    \* 1230
LogRef(base) == [t |-> "logref", v |-> base]               \* "lg(re ", "ln(re ", "lb(re "

\* A moment is a day and minutes; seconds are left out.
MinutesOfDay == 1440

Blank == Sym("sp")
TheT == Id(<<"T">>)

\* The form with dashes.  A year of more than four digits is none to the scanner, which
\* takes its digits for a number.
DashedDate(d) ==
  IF YearDate(-9999) <= d /\ d < YearDate(10000) THEN <<BrokenDate(d)>>
  ELSE (IF d < 0 THEN <<Sym("-")>> ELSE << >>) \o <<Far(d), Sym("-"), Num(1), Sym("-"), Num(1)>>

\* What printf("%d") and printf("%g") write.
IntText(n) == IF n < 0 THEN <<Sym("-"), Num(-n)>> ELSE <<Num(n)>>

MagnitudeText(g) == IF g % Grain = 0 THEN <<Num(g \div Grain)>> ELSE <<Dec(g)>>

NumberText(g) == IF g < 0 THEN <<Sym("-")>> \o MagnitudeText(-g) ELSE MagnitudeText(g)
=============================================================================
