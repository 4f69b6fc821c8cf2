SPECIFICATION Spec
CONSTANTS
  Schemas <- MCSchemas
  RootRule = "root"
  Stack = 8
INVARIANTS
  Ends
  Faithful
  Stable
CHECK_DEADLOCK FALSE
