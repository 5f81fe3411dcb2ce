\* A requester is sent a confirmation for a case that is rolled back.
CONSTANTS
  Calls = {i1}
  PoolSize = 2
  Filed = 2
SPECIFICATION Spec
INVARIANTS
  ConfirmedIsFiled
CHECK_DEADLOCK FALSE
