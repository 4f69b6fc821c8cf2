SPECIFICATION Spec
CONSTANTS
  Names <- MCNames
  Files <- MCFiles
  Main = "main"
  TypeSockets <- MCTypeSockets
  GroupSockets = {}
  Invalid <- MCInvalid
CHECK_DEADLOCK FALSE
INVARIANTS
  ExportsAccounted
  UnreferencedCovered
  CyclesFound
  SurfaceGuarded
  Placed
