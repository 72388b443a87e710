SPECIFICATION Spec
CONSTANTS
  Names = {n1, n2}
  Sizes = {1, 2}
  MaxEntries = 3
  QueueCapacity = 4
  EvictAge = 5
  CounterModulus = 8
  MaxFrame = 2
  MaxSessions = 9
INVARIANTS TypeOK FrameResourcesDisjoint SessionsTracked EvictedIdle
CHECK_DEADLOCK FALSE
