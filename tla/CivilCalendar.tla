--------------------------- MODULE CivilCalendar ---------------------------
(***************************************************************************)
(* The calendar that the dates of src/lib/unitcore.c belong to, day by     *)
(* day: Julian until October 4, 1582, Gregorian from the day after, which  *)
(* is October 15, and without a year 0.  It begins on January 1 of 4713    *)
(* BCE, the day of Julian day number 0.                                    *)
(***************************************************************************)
EXTENDS Integers

CONSTANT Spans  \* numbers of years to skip at once

VARIABLE date

Date(y, m, d) == [year |-> y, month |-> m, day |-> d]

LastJulian == Date(1582, 10, 4)
FirstGregorian == Date(1582, 10, 15)

\* Years counted without a gap; 0 is the year 1 BCE.
Ordinal(y) == IF y < 0 THEN y + 1 ELSE y

YearOf(n) == IF n <= 0 THEN n - 1 ELSE n

Leap(y) ==
  /\ Ordinal(y) % 4 = 0
  /\ y > 1582 => (y % 100 # 0 \/ y % 400 = 0)

DaysIn(y, m) ==
  CASE m \in {4, 6, 9, 11} -> 30
    [] m = 2 -> IF Leap(y) THEN 29 ELSE 28
    [] OTHER -> 31

Tomorrow ==
  IF date = LastJulian THEN FirstGregorian
  ELSE IF date.day < DaysIn(date.year, date.month) THEN [date EXCEPT !.day = @ + 1]
  ELSE IF date.month < 12 THEN Date(date.year, date.month + 1, 1)
  ELSE Date(YearOf(Ordinal(date.year) + 1), 1, 1)

Later(years) == [date EXCEPT !.year = YearOf(Ordinal(@) + years)]

Init == date = Date(-4713, 1, 1)

\* The leap days of both calendars recur, so the same date some cycles later is a
\* known number of days away.
Next ==
  \/ date' = Tomorrow
  \/ \E n \in Spans :
       /\ \/ n % 4 = 0 /\ Ordinal(date.year) + n < 1582
          \/ n % 400 = 0 /\ date.year > 1582
       /\ date' = Later(n)

Spec == Init /\ [][Next]_date
=============================================================================
