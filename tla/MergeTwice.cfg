\* A second merge takes the user's lines away.
CONSTANTS
  NumFiles = 1
  Lines <- MCLines
  Tokens <- MCTokens
  Versions <- MCVersions
  Bundled <- MCBundled
  UserToken = "mine"
  Procs = {p1}
  Extras <- MCExtras
  InitExtras <- OneNote
  InitTargets <- OneMissing
  QuietUser = TRUE
  MaxRuns = 3
  MaxEdits = 1
  MaxCrashes = 0
  MaxFaults = 0
  p1 = p1
  p2 = p2
  note = note
SPECIFICATION Spec
PROPERTY MergeKeepsEdits
CHECK_DEADLOCK FALSE
