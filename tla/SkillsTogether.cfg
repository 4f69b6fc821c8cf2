\* Two runs at once, one of which may die, a user who edits meanwhile.
CONSTANTS
  NumFiles = 1
  Lines <- OneLine
  Tokens <- MCTokens
  Versions <- MCVersions
  Bundled <- MCBundled
  UserToken = "mine"
  Procs = {p1, p2}
  Extras <- MCExtras
  InitExtras <- NoteOrDirectory
  InitTargets <- OneEdited
  QuietUser = FALSE
  MaxRuns = 2
  MaxEdits = 1
  MaxCrashes = 1
  MaxFaults = 0
  p1 = p1
  p2 = p2
  note = note
SPECIFICATION FairSpec
INVARIANTS
  ReportIsTrue
PROPERTIES
  ImplementsStore
  ExtrasProtected
  RunsEnd
CHECK_DEADLOCK FALSE
