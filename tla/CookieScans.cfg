\* One website, a caller's scan and the scheduled one, with a crash or a lost
\* last word.
CONSTANTS
  Sites = {s1}
  Callers = {c1}
  Periods = {1}
  Concurrency = 2
  Attempts = 2
  Window = 1
  KeepCompleted = 1
  KeepFailed = 1
  MaxManual = 1
  InitialStatuses = {"UNBORN", "FAILED"}
  MaxTime = 1
  MaxCrashes = 2
SPECIFICATION FairSpec
INVARIANTS
  ScanTypeOK
  ScanningIsWatched
  ListedWithinConcurrency
PROPERTIES
  ScanEnds
CHECK_DEADLOCK FALSE
