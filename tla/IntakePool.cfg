\* Three calls on a pool of two connections.
CONSTANTS
  Calls = {i1, i2, i3}
  PoolSize = 2
  Filed = 0
SPECIFICATION FairSpec
INVARIANTS
  TypeOK
PROPERTIES
  EveryCallAnswered
CHECK_DEADLOCK FALSE
