CONSTANTS
  Basic = {0}
  Dimensionless = {}
  ShortMax = 32767
  Powers <- MCPowers
  Roots = {2}
  NoUnit = NoUnit
  System = {1}
  TheSystem = 1
  Unit <- MCUnit
  Depth <- RecDepth
  SystemOf <- RecSystemOf
  GetProduct <- RecGetProduct
  EnsureConverter <- RecEnsureConverter
  ToProduct <- RecToProduct
  FromProduct <- RecFromProduct
  ExactRoot <- RecExactRoot
  Compare <- RecCompare
  Clone <- RecClone
  Multiply <- RecMultiply
  Raise <- RecRaise
  Root <- RecRoot
  GetConverter <- RecGetConverter
  TheOne <- UnitOne
  TheSecond <- MCSecond
  ut_clone <- UtClone
  ut_raise <- Power
  ut_offset <- Offset
  ut_scale <- Multiple
  ut_multiply <- Product
  ut_divide <- Divided
  ut_compare <- Compared
  ut_are_convertible <- UtAreConvertible
  ut_get_converter <- UtGetConverter
  Trees <- AddressTrees
  EmptyTree <- NullTree
  KeysIn <- KeysOf
  tfind <- TreeFind
  tsearch <- TreeSearch
  tdelete <- TreeDelete
  Zero = Zero
  Structures = {x1, x2}
  x1 = x1
  x2 = x2
  Addresses = {1, 2, 3}
  Values <- MCValues
  Factors <- MCFactors
  Amounts = {0}
  Exponents <- MCExponents
  Names = {n1, n2}
  n1 = n1
  n2 = n2
  Plural <- MCPlural
  TextLength <- MCTextLength
  BufferSize = 2
  Clients <- MCClients
  Nothing = Nothing
  Stale = Stale
  Lost = Lost
SPECIFICATION Spec
INVARIANTS
  NoDoubleFree
  NothingElseLost
  TreeKnowsUnits
PROPERTIES
  Implements
  AddUndone
  PrintReturns
CHECK_DEADLOCK FALSE
