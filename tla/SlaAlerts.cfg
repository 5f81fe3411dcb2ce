\* The monitor among the calls of one clerk on two requests, with a crash
\* and a mail that fails.
CONSTANTS
  Requests = {r1, r2}
  Clerks = {c1}
  Routes = {"reject", "requestMoreInfo"}
  Types = {"OTHER"}
  InitialStatuses = {"IN_REVIEW"}
  DueDates = {1}
  MaxTime = 2
  MaxQueue = 0
  MaxCrashes = 1
  NearBreach = 1
  MaxUnsent = 1
SPECIFICATION SlaFairSpec
INVARIANTS
  MonitoredTypeOK
  AlertedOnce
  MarkedWasTried
PROPERTIES
  OverdueIsMarked
