CONSTANTS
  Nesting <- MCNesting
  Content <- MCContent
  Numbers <- MCNumbers
  NonAscii = {"mu", "nbsp"}
  NonLatin1 = {}
  Garbage = {TRUE}
  MaxFiles = 2
  MaxUnits = 1
  MaxTags = 9
SPECIFICATION Spec
INVARIANTS
  ContextIsNesting
  TextIsOwn
  IdentifiersAgree
  DatabaseComplete
  StatusSaysWhy
CHECK_DEADLOCK FALSE
