CONSTANTS
  Basic = {0, 1}
  Dimensionless = {}
  ShortMax = 32767
  Powers = {2}
  Roots = {2}
  NoUnit = NoUnit
  Zero = Zero
  Grain = 1024
  NaturalBase = 3
  Reciprocal <- MCReciprocal
  YearDate <- MCYearDate
  Spelling <- MCSpelling
  OneLetter = {"m", "s", "x", "T"}
  System = {1}
  TheSystem = 1
  Unit <- MCUnit
  Depth <- RecDepth
  SystemOf <- RecSystemOf
  GetProduct <- RecGetProduct
  EnsureConverter <- RecEnsureConverter
  ToProduct <- RecToProduct
  FromProduct <- RecFromProduct
  ExactRoot <- RecExactRoot
  Compare <- RecCompare
  Clone <- RecClone
  Multiply <- RecMultiply
  Raise <- RecRaise
  Root <- RecRoot
  GetConverter <- RecGetConverter
  TheOne <- UnitOne
  TheSecond <- S
  ut_scale <- UtScale
  ut_offset <- UtOffset
  ut_offset_by_time <- UtOffsetByTime
  ut_multiply <- UtMultiply
  ut_divide <- UtDivide
  ut_raise <- UtRaise
  ut_log <- UtLog
  ut_are_convertible <- UtAreConvertible
  FactorOf <- Log2
  ut_format <- TextOf
  Unformatted <- Unprintable
  UnitOf <- MCUnitOf
  Prefixes <- MCPrefixes
  Formatted <- MCFormatted
  Options <- MCOptions
  Texts <- MCTexts
SPECIFICATION Spec
INVARIANTS
  ReadsBack
  UnitsFreed
  UnknownSurvives
  NothingIgnored
  FlagOfOperand
PROPERTY Returns
CHECK_DEADLOCK FALSE
