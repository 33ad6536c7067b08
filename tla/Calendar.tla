------------------------------ MODULE Calendar ------------------------------
(***************************************************************************)
(* The dates and clock-times of src/lib/unitcore.c: ut_encode_date(),      *)
(* ut_encode_clock() and ut_decode_time().                                 *)
(*                                                                         *)
(* A time is a number of seconds since January 1, 2001, kept as whole days *)
(* and ticks, Grain of them in a second.  The constants of the code are    *)
(* decimal fractions; the operators compute with the same fractions        *)
(* exactly and truncate where the code converts to an integer.             *)
(***************************************************************************)
EXTENDS Integers, Sequences

CONSTANTS
  Grain,        \* ticks in a second
  Uncertainty,  \* ticks that the double of a time may be off, uncer in the code
  Windows,      \* bound: the client asks about Julian day numbers in these intervals
  Seconds,      \* the seconds of a day the client asks about
  Timed,        \* the days on which it asks about more than midnight
  Spans         \* numbers of years the client skips

ASSUME GrainAssumption ==
  Grain \in Nat /\ Uncertainty \in Nat /\ 2 * Uncertainty < Grain

ASSUME ClientAssumption ==
  /\ Windows \subseteq Nat \X Nat
  /\ Timed \subseteq Nat
  /\ Spans \subseteq Nat \ {0}

ASSUME SecondsAssumption == \A second \in Seconds : second \in Nat /\ second < 86400

VARIABLES
  asked,   \* the time the client has in mind, in days and seconds
  date,    \* what ut_decode_time() said of it
  clock

calendarVars == <<asked, date, clock>>

-----------------------------------------------------------------------------
(* Integer arithmetic of C.                                                *)

\* Conversion to an integer of the fraction n / d.
Truncated(n, d) == IF n >= 0 THEN n \div d ELSE -((-n) \div d)

Abs(n) == IF n >= 0 THEN n ELSE -n

-----------------------------------------------------------------------------
(* Dates.                                                                  *)

Date(y, m, d) == [year |-> y, month |-> m, day |-> d]

GregorianStart == 2299161

\* Mutant: every century is a leap year.
WithoutCenturies(julday) == IF julday < GregorianStart THEN julday ELSE julday + 10

\* The day number that the date would have in the Julian calendar.
InJulianCalendar(julday) ==
  LET ia == Truncated(4 * (julday - 1867216) - 1, 146097)
  IN IF julday < GregorianStart THEN julday ELSE julday + 1 + ia - Truncated(ia, 4)

SkippingYearZero(n) == IF n <= 0 THEN n - 1 ELSE n

\* julianDayToGregorianDate()
JulianDayToGregorianDate(julday) ==
  LET jb == InJulianCalendar(julday) + 1524
      jc == Truncated(100 * jb - 12210, 36525)
      jd == 365 * jc + Truncated(jc, 4)
      je == Truncated(10000 * (jb - jd), 306001)
      month == IF je - 1 > 12 THEN je - 13 ELSE je - 1
  IN Date(SkippingYearZero(IF month > 2 THEN jc - 4716 ELSE jc - 4715), month,
          jb - jd - Truncated(306001 * je, 10000))

\* gregorianDateToJulianDay(); there is no year 0, and 1 is taken for it.
GregorianDateToJulianDay(d) ==
  LET year == IF d.year = 0 THEN 1 ELSE d.year
      iy == IF year < 0 THEN year + 1 ELSE year
      late == d.month > 2
      jy == IF late THEN iy ELSE iy - 1
      jm == IF late THEN d.month + 1 ELSE d.month + 13
      \* "\div" rounds downwards, as the code takes care to.
      julian == d.day + Truncated(306001 * jm, 10000) + 365 * jy + (jy \div 4) + 1720995
      ja == Truncated(jy, 100)
  IN IF d.day + 31 * (d.month + 12 * iy) >= 15 + 31 * (10 + 12 * 1582)
     THEN julian - ja + 2 + Truncated(ja, 4)
     ELSE julian

\* getJuldayOrigin()
JuldayOrigin == GregorianDateToJulianDay(Date(2001, 1, 1))

\* ut_encode_date(), in days
EncodeDate(d) == GregorianDateToJulianDay(d) - JuldayOrigin

-----------------------------------------------------------------------------
(* Clock-times.                                                            *)

\* ut_encode_clock(), in ticks
EncodeClock(c) == (c.hour * 60 + c.minute) * 60 * Grain + c.second

Day == 86400 * Grain

Basis == [ i \in 1 .. 7 |-> Grain * <<86400, 43200, 3600, 600, 60, 10, 1>>[i] ]

\* Mutant: a remainder is only looked for above a multiple.
RemainderAbove(value, b) == value % b

\* The part of a value that is left over by multiples of b, and near which multiple.
Remainder(value, b) ==
  LET r == value % b IN IF 2 * r > b THEN r - b ELSE r

\* What the loop of decompose() has left of a value when it comes to each element of
\* the basis.
Left(value) ==
  LET left[i \in 1 .. 7] == IF i = 1 THEN value ELSE left[i - 1] % Basis[i - 1]
  IN left

\* decompose(): the first multiple that is near ends the loop.  What is left over by the
\* last element belongs to the last count, which is one of ticks.
Decompose(value) ==
  LET left == Left(value)
      near == { i \in 1 .. 7 : Abs(Remainder(left[i], Basis[i])) <= Uncertainty }
      nearest(i) == (left[i] + Basis[i] \div 2) \div Basis[i]
  IN [ i \in 1 .. 7 |->
         IF \E k \in near : k < i THEN 0
         ELSE IF i = 7 THEN IF i \in near THEN nearest(i) * Basis[i] ELSE left[i]
         ELSE IF i \in near THEN nearest(i)
         ELSE left[i] \div Basis[i] ]

Clock(h, m, s) == [hour |-> h, minute |-> m, second |-> s]

\* What a count that reaches its limit carries over, and what is left of it.
Carry(n, limit) == IF n >= limit THEN 1 ELSE 0
WithoutCarry(n, limit) == IF n >= limit THEN n - limit ELSE n

\* ut_decode_time() of a number of days and ticks
DecodeTime(days, ticks) ==
  LET counts == Decompose(ticks % Day)
      s == 10 * Grain * counts[6] + counts[7]
      m == 10 * counts[4] + counts[5] + Carry(s, 60 * Grain)
      h == 12 * counts[2] + counts[3] + Carry(m, 60)
      d == days + ticks \div Day + counts[1] + Carry(h, 24)
  IN [ date |-> JulianDayToGregorianDate(JuldayOrigin + d),
       clock |-> Clock(WithoutCarry(h, 24), WithoutCarry(m, 60), WithoutCarry(s, 60 * Grain)) ]

-----------------------------------------------------------------------------
(* The client, which asks for the date and clock of times it knows.        *)

Within(julday) == \E w \in Windows : julday \in w[1] .. w[2]

\* The double that stands for a time may be a little off.
Ask(julday, second) ==
  /\ Within(julday)
  /\ asked' = [julday |-> julday, second |-> second]
  /\ \E e \in -Uncertainty .. Uncertainty :
       LET decoded == DecodeTime(julday - JuldayOrigin, second * Grain + e)
       IN date' = decoded.date /\ clock' = decoded.clock

CalendarInit ==
  /\ asked = [julday |-> 0, second |-> 0]
  /\ date = DecodeTime(-JuldayOrigin, 0).date
  /\ clock = DecodeTime(-JuldayOrigin, 0).clock

AskNextDay == Ask(asked.julday + 1, 0)

\* The same day of another year, whole leap cycles later.
AskYearsLater(n) ==
  \/ /\ n % 4 = 0
     /\ asked.julday + 1461 * (n \div 4) < GregorianStart - 366
     /\ Ask(asked.julday + 1461 * (n \div 4), 0)
  \/ /\ n % 400 = 0 /\ asked.julday > GregorianStart + 366
     /\ Ask(asked.julday + 146097 * (n \div 400), 0)

AskSecond == asked.julday \in Timed /\ \E second \in Seconds : Ask(asked.julday, second)

CalendarNext ==
  \/ AskNextDay
  \/ AskSecond
  \/ \E n \in Spans : AskYearsLater(n)

CalendarSpec == CalendarInit /\ [][CalendarNext]_calendarVars

-----------------------------------------------------------------------------
(* Properties.                                                             *)

\* No year 0, no 60th second and no 24th hour.
ProperTime ==
  /\ date.year # 0 /\ date.month \in 1 .. 12 /\ date.day \in 1 .. 31
  /\ clock.hour \in 0 .. 23 /\ clock.minute \in 0 .. 59
  /\ clock.second \in 0 .. 60 * Grain - 1

\* However the double was off, ut_decode_time() gives a proper date and clock-time,
\* and ut_encode_time() makes of them the time that was decoded, in whole seconds.
DecodedEncodesBack ==
  /\ ProperTime
  /\ EncodeDate(date) = asked.julday - JuldayOrigin
  /\ EncodeClock(clock) = asked.second * Grain

\* From one day to the next, over the ends of months, leap days, the year before
\* year 1 and the switch of calendars, the date becomes the one that follows.
Civil == INSTANCE CivilCalendar

FollowsCalendar == Civil!Spec
=============================================================================
