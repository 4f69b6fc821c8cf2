SPECIFICATION Spec
CONSTANTS
  Schema <- MCSchema
  Families <- MCFamilies
  Values <- MCValues
  Stack = 8
INVARIANTS
  Contained
  Ends
CHECK_DEADLOCK FALSE
