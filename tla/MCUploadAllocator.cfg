SPECIFICATION Spec
CONSTANTS
  PoolSize = 4
  CounterModulus = 8
  QueueSize = 3
  AllocationAlignment = 2
  Requests = {0, 1, 3, 6, 8, 17}
  MaxSubmissions = 3
INVARIANTS TypeOK GrantsAreFree PendingRangeExact GivesUpOnlyWhenExhausted
PROPERTY AllocationEnds
CHECK_DEADLOCK FALSE
