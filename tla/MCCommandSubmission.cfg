SPECIFICATION Spec
CONSTANTS
  Allocators = {a1, a2}
  Lists = {l1, l2}
  NoAllocator = NoAllocator
  StatusHalf = 2
  SyncPointHalf = 8
  MaxUnobserved = 2
  MaxSignal = 6
INVARIANTS TypeOK SubmittedMemoryIntact RecordedMemoryIntact BookkeepingExact SyncPointSound FinishedAllocatorResettable
CHECK_DEADLOCK FALSE
