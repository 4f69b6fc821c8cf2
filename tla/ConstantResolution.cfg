\* Safety of the constant-resolution loop over the small programs.
CONSTANTS
  Names <- MCNames
  InfWords = {"inf"}
  NaNWords = {"nan"}
  Programs <- MCPrograms
  MaxInt = 3
SPECIFICATION FairSpec
INVARIANTS
  TypeOK
  Justified
  Settled
PROPERTIES
  ResolvedIsFinal
  Terminates
CHECK_DEADLOCK FALSE
