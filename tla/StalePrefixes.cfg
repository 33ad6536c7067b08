CONSTANTS
  System = {s1, s2}
  s1 = s1
  s2 = s2
  Character = {"a", "d", "D"}
  Lower <- MCLower
  Prefix <- MCPrefix
  String <- MCString
  Value = {0, 1, 2}
  NullSystem = NullSystem
  MaxCalls = 6
SYMMETRY SystemSymmetry
SPECIFICATION Spec
PROPERTY
  NewSystemHasNoPrefix
CHECK_DEADLOCK FALSE
