SPECIFICATION Spec
CONSTANTS
  PoolSize = 4
  CounterModulus = 8
  QueueSize = 3
  AllocationAlignment = 2
  Requests = {1, 3, 6}
  MaxSubmissions = 4
INVARIANTS EmptyRangeAtZero
CHECK_DEADLOCK FALSE
