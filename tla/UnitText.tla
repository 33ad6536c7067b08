------------------------------ MODULE UnitText ------------------------------
(***************************************************************************)
(* The parser with the formatter and the units: a text that ut_format()    *)
(* wrote is given to ut_parse().                                           *)
(***************************************************************************)
EXTENDS UnitParser, Formatter

CONSTANT TheSystem  \* the unit-system

TheSeconds == [s \in {TheSystem} |-> TheSecond]

-----------------------------------------------------------------------------
(* What the parser calls.                                                  *)

UnitOne == One(TheSystem)
UtScale(k, u) == ScaleOutcome(TheSeconds, k, u)
UtOffset(u, offset) == OffsetOutcome(TheSeconds, u, offset)
UtOffsetByTime(u, origin) == OffsetByTimeOutcome(TheSeconds, u, origin)
UtMultiply(u, v) == MultiplyOutcome(TheSeconds, u, v)
UtDivide(u, v) == DivideOutcome(TheSeconds, u, v)
UtRaise(u, n) == RaiseOutcome(TheSeconds, u, n)
UtLog(base, u) == LogOutcome(TheSeconds, base, u)
UtAreConvertible(u, v) == AreConvertible(u, v)
Unprintable == Fail
TextOf(u, o) == UtFormat(u, o)

\* The exponent of the power of 2 that x / Grain is.
Log2(x) == IF x = 0 THEN Zero ELSE CHOOSE k \in -9 .. 9 : Scaled(k, Grain) = x

-----------------------------------------------------------------------------
(* Properties.                                                             *)

\* What a unit is made of.
RECURSIVE Parts(_)
Parts(u) == {u} \cup (IF Wraps(u) THEN Parts(u.unit) ELSE {})

HasInside(u, type) == \E v \in Parts(u) \ {u} : v.type = type

\* The units and options whose text is a specification of the unit.  It is not
\* - with an exponent in UTF-8 that the scanner takes for letters;
\* - with an offset from a unit of time, which reads as a year;
\* - with a year of more than four digits, which the scanner knows only up to four;
\* - for a timestamp inside another unit, which a product strips off;
\* - for a logarithm of anything but a product, or one to another base.
Readable(u, t) ==
  /\ \A i \in DOMAIN t : t[i].t # "far" /\ (t[i].t = "sup" => ~StartsWithLetter(t[i].v))
  /\ \A v \in Parts(u) :
       /\ v.type = "galilean" => v.offset = 0 \/ ~IsTime(v)
       /\ v.type = "log" => v.base \in {2, NaturalBase, 10} /\ v.unit.type \in {"basic", "product"}
  /\ ~HasInside(u, "timestamp")

\* ut_parse() reads what ut_format() wrote: for every such unit, with names or
\* symbols, as a definition or not, in each encoding, the result is that unit.
\* The formatter leaves out parentheses, multiplies by blanks, dots and dashes
\* and puts exponents where a number, a date or a time zone could stand.
ReadsBack ==
  phase = "done" /\ asked # NoUnit /\ Readable(asked.unit, text) =>
    /\ result # NoUnit
    /\ status = "UT_SUCCESS"
    /\ Compare(result, asked.unit) = 0
=============================================================================
