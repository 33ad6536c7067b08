CONSTANTS
  Basic = {0, 1}
  Dimensionless = {1}
  ShortMax = 32767
  Powers <- MCPowers
  Roots = {2}
  NoUnit = NoUnit
  System = {1, 2}
  Unit <- MCUnit
  Depth <- RecDepth
  SystemOf <- RecSystemOf
  GetProduct <- RecGetProduct
  EnsureConverter <- RecEnsureConverter
  ToProduct <- RecToProduct
  FromProduct <- RecFromProduct
  ExactRoot <- RecExactRoot
  Compare <- RecCompare
  Clone <- RecClone
  Multiply <- RecMultiply
  Raise <- RecRaise
  Root <- RecRoot
  GetConverter <- RecGetConverter
  Furnished = {1}
  Registers = {r1, r2}
  r1 = r1
  r2 = r2
  Factors <- MCFactors
  Zero = Zero
  Offsets <- MCOffsets
  Origins = {0, 1}
  Bases = {1, 2}
  MaxCalls = 5
SYMMETRY RegisterSymmetry
SPECIFICATION Spec
INVARIANTS
  StatusTellsFailure
  GalileanMeansComposition
  ConversionsCompose
  ConverterIffConvertible
  CompareIsOrder
CHECK_DEADLOCK FALSE
