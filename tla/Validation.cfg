SPECIFICATION Spec
CONSTANT Cases <- MCCases
INVARIANTS
  Sound
  Complete
  AnyEntryOrder
  DumpUnlessGuessed
CHECK_DEADLOCK FALSE
