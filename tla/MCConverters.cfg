CONSTANTS
  Register = {r1, r2, r3}
  r1 = r1
  r2 = r2
  r3 = r3
  Slopes <- MCSlopes
  Offsets <- MCOffsets
  Bases = {0, 2, 3}
  Named = {2, 10}
  Cells = 3
  NoConverter = NoConverter
  MaxCalls = 4
  Size <- MCSize
  Clone <- MCClone
  Convert <- MCConvert
  Converted <- MCConverted
  Turned <- MCTurned
  Converter <- MCConverter
  Number <- MCNumber
SYMMETRY RegisterSymmetry
SPECIFICATION CvSpec
INVARIANTS
  NothingLeaks
  CombinationIsSequence
PROPERTIES
  OverlapIsSafe
CHECK_DEADLOCK FALSE
