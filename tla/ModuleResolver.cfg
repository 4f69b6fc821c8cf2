\* Every small document: chains, diamonds, repetitions and cycles of modules.
CONSTANTS
  Modules <- MCModules
  Root = "root"
  Documents <- MCDocuments
SPECIFICATION Spec
INVARIANTS
  NoRecursion
  VisitedExactly
  SplicedExactly
  ErrorsSurvive
CHECK_DEADLOCK FALSE
