SPECIFICATION Spec
CONSTANTS
  Cases <- MCCases
  Texts <- MCTexts
  Languages <- MCLanguages
  Precision = 4
INVARIANTS
  Agrees
  Reported
  RefusedMatchNothing
CHECK_DEADLOCK FALSE
