CONSTANTS
  System = {s1, s2}
  Number = {m, n}
  s1 = s1
  s2 = s2
  m = m
  n = n
  Ident <- MCIdent
  NullUnit = NullUnit
  NullId = NullId
  NullSystem = NullSystem
  CharIsSigned = TRUE
  MaxCalls = 5
SYMMETRY RegistrySymmetry
SPECIFICATION Spec
INVARIANTS
  FreedSystemsForgotten
  OnlyMapped
PROPERTIES
  MappingsStay
  LookupsChangeNoAnswer
CHECK_DEADLOCK FALSE
