SPECIFICATION Spec
CONSTANTS
  Names <- MCNames
  Bare <- MCBare
  Sockets <- MCSockets
  Files <- MCFiles
  Consumer = "main"
  Signatures <- MCSignatures
  Postlude <- MCPostlude
  PostludeRefs <- MCPostludeRefs
  PostludeSig <- MCPostludeSig
  Documents <- MCDocuments
INVARIANTS
  ReachedExactly
  NamesResolved
  NoSilentLoss
  ReferencesAccounted
  InjectedExactly
CHECK_DEADLOCK FALSE
