\* Two clerks who race on one request while time passes, or one clerk alone with
\* every route that does not erase and with crashes.
CONSTANTS
  Requests = {r1}
  Clerks = {c1, c2}
  Routes = {"updateStatus", "approve", "reject", "escalate", "requestMoreInfo", "partialFulfil", "update"}
  Types = {"ACCESS"}
  InitialStatuses = {"RECEIVED", "IN_REVIEW"}
  DueDates = {1}
  MaxTime = 3
  MaxQueue = 0
  MaxCrashes = 2
SPECIFICATION DeskSpec
SYMMETRY ClerkSymmetry
INVARIANTS
  VerifiedFirst
  DeadlineBound
  ClockRunsAlone
PROPERTIES
  LifecycleSpec
  ValidatedAlone
CHECK_DEADLOCK FALSE
