CONSTANTS
  Grain = 8
  Uncertainty = 2
  Windows <- MCWindows
  Seconds <- MCSeconds
  Timed <- MCTimed
  Spans <- MCSpans
SPECIFICATION CalendarSpec
INVARIANTS
  DecodedEncodesBack
PROPERTIES
  FollowsCalendar
CHECK_DEADLOCK FALSE
