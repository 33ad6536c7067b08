\* Two basic-units with dimension and one without (a radian), real 16-bit
\* shorts: 128 * 128 doubled is one more than a short holds.
CONSTANTS
  Basic = {0, 1, 2}
  Dimensionless = {1}
  ShortMax = 32767
  Powers <- MCPowers
  Roots = {2}
  NoUnit = NoUnit
  MaxCalls = 4
SPECIFICATION FairSpec
INVARIANTS
  AllAscending
  OnlyOverflowLeavesZero
PROPERTIES
  ImplementsAlgebra
  CallReturns
CHECK_DEADLOCK FALSE
