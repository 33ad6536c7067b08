----------------------------- MODULE MCCalendar -----------------------------
(* Days around the origin of the day numbers, the first year, the switch    *)
(* of calendars and the centuries after it.                                 *)
EXTENDS Calendar

MCWindows ==
  {<<0, 800>>, <<1721000, 1721900>>, <<2298000, 2345000>>, <<2451900, 2500000>>}
MCSpans == {400, 4712, 1580}
MCSeconds == {0, 1, 9, 10, 59, 60, 599, 600, 3599, 3600, 43199, 43200, 86399}
MCTimed == {0, 2299160, 2451911}
=============================================================================
