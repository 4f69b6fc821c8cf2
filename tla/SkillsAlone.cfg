\* One run at a time, a user who waits for it.
CONSTANTS
  NumFiles = 2
  Lines <- MCLines
  Tokens <- MCTokens
  Versions <- MCVersions
  Bundled <- MCBundled
  UserToken = "mine"
  Procs = {p1}
  Extras <- MCExtras
  InitExtras <- OneNote
  InitTargets <- MCInitTargets
  QuietUser = TRUE
  MaxRuns = 2
  MaxEdits = 1
  MaxCrashes = 1
  MaxFaults = 1
  p1 = p1
  p2 = p2
  note = note
SPECIFICATION Spec
PROPERTIES
  ReportIsExact
  ReplacedByConsent
CHECK_DEADLOCK FALSE
