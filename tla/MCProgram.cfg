CONSTANTS
  m = m
  s = s
  nonsense = nonsense
  Words = {m, s, nonsense}
  Unknown = {nonsense}
  Texts <- MCTexts
  Locales <- MCLocales
  MaxLines = 4
  MaxOptions = 2
  NoUnit = NoUnit
  NoText = NoText
SPECIFICATION Spec
INVARIANTS
  OwnsItsUnits
  AnswersLastRequest
PROPERTIES
  Ends
CHECK_DEADLOCK FALSE
