\* One clerk, the erasure worker, extracts and a crash at any point.
CONSTANTS
  Requests = {r1}
  Clerks = {c1}
  Routes = {"updateStatus", "approve", "generateExtract"}
  Types = {"ERASURE"}
  InitialStatuses = {"IN_VERIFICATION"}
  DueDates = {}
  MaxTime = 0
  MaxQueue = 1
  MaxCrashes = 1
SPECIFICATION ErasureSpec
INVARIANTS
  NothingDoneUnreviewed
  ConfirmedIsScrubbed
  TerminalIsClosed
PROPERTIES
  LifecycleSpec
  QueuedErasureSettles
CHECK_DEADLOCK FALSE
