\* The scheduled scan of one website fails, and none comes after it.
CONSTANTS
  Sites = {s1}
  Callers = {c1}
  Periods = {1}
  Concurrency = 2
  Attempts = 2
  Window = 1
  KeepCompleted = 1
  KeepFailed = 1
  MaxManual = 0
  InitialStatuses = {"FAILED"}
  MaxTime = 1
  MaxCrashes = 0
SPECIFICATION HourlySpec
PROPERTIES
  FailedIsScannedAgain
CHECK_DEADLOCK FALSE
