\* A data extract is asked for and the worker erases the data.
CONSTANTS
  Requests = {r1}
  InitialStatuses = {"RECEIVED", "IN_REVIEW"}
  MaxTime = 1
  MaxQueue = 1
  MaxCrashes = 0
  Clerks = {c1}
  Routes = {"generateExtract"}
  Types = {"ACCESS"}
  DueDates = {}
SPECIFICATION Spec
INVARIANTS
  ExtractErasesNothing
CHECK_DEADLOCK FALSE
