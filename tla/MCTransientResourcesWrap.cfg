SPECIFICATION Spec
CONSTANTS
  Names = {n1}
  Sizes = {1}
  MaxEntries = 1
  QueueCapacity = 4
  EvictAge = 5
  CounterModulus = 8
  MaxFrame = 1
  MaxSessions = 9
INVARIANTS PushHasRoom
CHECK_DEADLOCK FALSE
