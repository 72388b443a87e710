-------------------------- MODULE UploadAllocator --------------------------
(***************************************************************************)
(* The circular allocator of transient upload memory                       *)
(* (XEngine.Gfx.Allocation.cpp) under its only client, the task graph: in  *)
(* a frame memory is allocated piece by piece, the frame is submitted, and *)
(* everything it allocated is queued for release behind its EOP sync       *)
(* point.  An allocation that does not fit busy-waits for the GPU.         *)
(*                                                                         *)
(* Two steps of the code hand out memory that its counters do not account  *)
(* for: an exact fit at the front of the pool (line 34), and a size that   *)
(* does not fit 16 bits (line 185).  `oversold` tells whether one was      *)
(* taken; the safety properties are about behaviours without.              *)
(***************************************************************************)
EXTENDS Integers, FiniteSets

CONSTANTS
  PoolSize,            \* 2^poolSizeLog2, in units of AllocationAlignment bytes
  CounterModulus,      \* 2^16: the counters are uint16
  QueueSize,           \* ReleaseQueueBufferSize
  AllocationAlignment, \* bytes in a unit
  Requests,            \* the sizes asked for, in bytes
  MaxSubmissions       \* bound of the model: frames submitted over a behaviour

ASSUME PoolAssumption == PoolSize \in Nat \ {0} /\ CounterModulus \in Nat /\ PoolSize <= CounterModulus
ASSUME QueueAssumption == QueueSize \in Nat \ {0, 1}
ASSUME RequestsAssumption == Requests \subseteq Nat /\ AllocationAlignment \in Nat \ {0}
ASSUME MaxSubmissionsAssumption == MaxSubmissions \in Nat

VARIABLES
  head, tail,      \* allocatedRangeHeadCounter, allocatedRangeTailCounter
  queueHead, queueTail, \* releaseQueueHeadCounter, releaseQueueTailCounter
  queue,           \* hwReleaseQueueSyncPoints and releaseQueueAllocatedRangeCounters
  pc,              \* where the client's thread is
  request,         \* bytes asked for by the allocation in progress
  submitted,       \* frames submitted; the sync point of a frame is its number
  completed,       \* frames the GPU is done with
  spans,           \* what was handed out and is in use: bytes, and the frame's sync point
  oversold         \* memory was handed out that the counters do not account for

counters == <<head, tail, queueHead, queueTail, queue>>
frames == <<submitted, completed>>
vars == <<counters, pc, request, frames, spans, oversold>>

Stopped == {"overflow", "queue full", "range assertion"}
NotSubmitted == 0
Span == [from : Nat, to : Nat, frame : 0..MaxSubmissions]
Counters == {c \in 0..PoolSize : c < CounterModulus}  \* range counters, uint16

-----------------------------------------------------------------------------
(* CircularUploadMemoryAllocator::allocate rounds up to units and passes   *)
(* the low 16 bits on.                                                     *)
Units(bytes) ==
  ((bytes + AllocationAlignment - 1) \div AllocationAlignment) % CounterModulus

(* tryAllocate: the assertion it makes, where it would place `size`.       *)
AssertionHolds == head = tail => head = 0
FitsBetween(size) == tail < head /\ head - tail > size
FitsBack(size) == tail >= head /\ PoolSize - tail >= size
FitsFront(size) == tail >= head /\ PoolSize - tail < size /\ head >= size

Fits(size) == FitsBetween(size) \/ FitsBack(size) \/ FitsFront(size)
PlaceOf(size) == IF FitsFront(size) THEN 0 ELSE tail

(* tryAdvanceReleaseQueue: the entries popped are those the GPU reached.   *)
NextSlot_Unmasked(slot) == slot + 1
NextSlot(slot) == (slot + 1) % QueueSize
Occupied == IF queueHead <= queueTail THEN queueHead..(queueTail - 1)
            ELSE (queueHead..(QueueSize - 1)) \cup (0..(queueTail - 1))
Distance(slot) == (slot - queueHead) % QueueSize
Reached_Early(slot) == queue[slot].syncPoint <= completed + 1
Reached_Late(slot) == queue[slot].syncPoint < completed
Reached(slot) == queue[slot].syncPoint <= completed
Poppable == {slot \in Occupied :
               \A s \in Occupied : Distance(s) <= Distance(slot) => Reached(s)}

(* The range counters go back to zero when the range is found empty.       *)
AdvanceReleaseQueue ==
  LET last == CHOOSE slot \in Poppable : \A s \in Poppable : Distance(s) <= Distance(slot)
      newHead == IF Poppable = {} THEN head ELSE queue[last].counter
  IN  /\ queueHead' = IF Poppable = {} THEN queueHead ELSE NextSlot(last)
      /\ head' = IF newHead = tail THEN 0 ELSE newHead
      /\ tail' = IF newHead = tail THEN 0 ELSE tail

IsReleaseQueueEmpty == queueHead = queueTail

IsPendingReleaseRangeEmpty_StaleSlot ==
  IF IsReleaseQueueEmpty THEN head = tail ELSE queue[queueTail].counter = tail

IsPendingReleaseRangeEmpty ==
  IF IsReleaseQueueEmpty THEN head = tail
  ELSE queue[(queueTail - 1) % QueueSize].counter = tail

-----------------------------------------------------------------------------
Init ==
  /\ head = 0 /\ tail = 0
  /\ queueHead = 0 /\ queueTail = 0
  /\ queue = [slot \in 0..(QueueSize - 1) |-> [syncPoint |-> 0, counter |-> 0]]
  /\ pc = "frame"
  /\ request = 0
  /\ submitted = 0 /\ completed = 0
  /\ spans = {}
  /\ oversold = FALSE

(* allocate is called.                                                     *)
Allocate(bytes) ==
  /\ pc = "frame"
  /\ request' = bytes
  /\ pc' = "allocating"
  /\ UNCHANGED <<counters, frames, spans, oversold>>

(* tryAllocate succeeds, on the first attempt or after a wait.             *)
TryAllocate ==
  LET size == Units(request)
      from == PlaceOf(size) * AllocationAlignment
  IN  /\ pc = "allocating"
      /\ AssertionHolds
      /\ Fits(size)
      /\ tail' = (PlaceOf(size) + size) % CounterModulus
      /\ spans' = IF request = 0 THEN spans
                  ELSE spans \cup {[from |-> from, to |-> from + request, frame |-> NotSubmitted]}
      /\ oversold' = \/ oversold
                     \/ size > 0 /\ tail' = head
                     \/ size * AllocationAlignment < request
      /\ pc' = "frame"
      /\ request' = 0
      /\ UNCHANGED <<head, queueHead, queueTail, queue, frames>>

(* The assertion on an empty range, line 21.                               *)
RangeAssertionFails ==
  /\ pc = "allocating"
  /\ ~AssertionHolds
  /\ tail >= head
  /\ pc' = "range assertion"
  /\ UNCHANGED <<counters, request, frames, spans, oversold>>

(* It does not fit and nothing is queued for release: allocator overflow.  *)
Overflow ==
  /\ pc = "allocating"
  /\ AssertionHolds /\ ~Fits(Units(request))
  /\ IsReleaseQueueEmpty
  /\ pc' = "overflow"
  /\ UNCHANGED <<counters, request, frames, spans, oversold>>

(* It does not fit: tryAdvanceReleaseQueue until an entry is popped.  A    *)
(* turn of the loop that pops nothing changes nothing, or resets a range   *)
(* it takes for empty.                                                     *)
WaitForGPU ==
  /\ pc \in {"allocating", "waiting"}
  /\ pc = "allocating" => AssertionHolds /\ ~Fits(Units(request))
  /\ ~IsReleaseQueueEmpty
  /\ AdvanceReleaseQueue
  /\ pc' = IF Poppable = {} THEN "waiting" ELSE "allocating"
  /\ UNCHANGED <<queueTail, queue, request, frames, spans, oversold>>

(* The frame is closed and submitted, getEOPSyncPoint.                     *)
SubmitFrame ==
  /\ pc = "frame"
  /\ submitted < MaxSubmissions
  /\ submitted' = submitted + 1
  /\ spans' = {[s EXCEPT !.frame = IF @ = NotSubmitted THEN submitted + 1 ELSE @] : s \in spans}
  /\ pc' = "submitted"
  /\ UNCHANGED <<counters, request, completed, oversold>>

(* enqueueRelease(EOP sync point), with nothing to release.                *)
EnqueueNothing ==
  /\ pc = "submitted"
  /\ IsPendingReleaseRangeEmpty
  /\ pc' = "frame"
  /\ UNCHANGED <<counters, request, frames, spans, oversold>>

(* enqueueRelease pushes the range in front of the tail it finds after it  *)
(* advanced the queue.                                                     *)
EnqueueRelease ==
  /\ pc = "submitted"
  /\ ~IsPendingReleaseRangeEmpty
  /\ AdvanceReleaseQueue
  /\ IF NextSlot(queueTail) = queueHead'
     THEN /\ pc' = "queue full"
          /\ UNCHANGED <<queue, queueTail>>
     ELSE /\ pc' = "frame"
          /\ queue' = [queue EXCEPT ![queueTail] = [syncPoint |-> submitted, counter |-> tail']]
          /\ queueTail' = NextSlot(queueTail)
  /\ UNCHANGED <<request, frames, spans, oversold>>

(* The GPU finishes the next frame; what it read is in use no more.  (The  *)
(* model ends where the program stops.)                                    *)
GPUAdvance ==
  /\ pc \notin Stopped
  /\ completed < submitted
  /\ completed' = completed + 1
  /\ spans' = {s \in spans : s.frame # completed + 1}
  /\ UNCHANGED <<counters, pc, request, submitted, oversold>>

Next ==
  \/ \E bytes \in Requests : Allocate(bytes)
  \/ TryAllocate
  \/ RangeAssertionFails
  \/ Overflow
  \/ WaitForGPU
  \/ SubmitFrame
  \/ EnqueueNothing
  \/ EnqueueRelease
  \/ GPUAdvance

(* The client's thread runs on through allocate, and the GPU finishes what *)
(* was submitted.                                                          *)
Fairness == WF_vars(TryAllocate \/ RangeAssertionFails \/ Overflow \/ WaitForGPU) /\ WF_vars(GPUAdvance)

Spec == Init /\ [][Next]_vars /\ Fairness

-----------------------------------------------------------------------------
TypeOK ==
  /\ {head, tail} \subseteq Counters
  /\ {queueHead, queueTail} \subseteq 0..(QueueSize - 1)
  /\ queue \in [0..(QueueSize - 1) -> [syncPoint : 0..MaxSubmissions, counter : Counters]]
  /\ pc \in {"frame", "allocating", "waiting", "submitted"} \cup Stopped
  /\ request \in Requests \cup {0}
  /\ submitted \in 0..MaxSubmissions
  /\ completed \in 0..submitted
  /\ spans \subseteq Span
  /\ oversold \in BOOLEAN

(* Memory handed out that no entry of the release queue covers yet.        *)
Unreleased == {s \in spans : s.frame = NotSubmitted \/ (pc = "submitted" /\ s.frame = submitted)}

(* Whatever tryAllocate would hand out now lies in the pool and touches no *)
(* byte that a frame being built or a frame on the GPU still uses.         *)
GrantsAreFree ==
  ~oversold =>
    \A bytes \in Requests :
      LET from == PlaceOf(Units(bytes)) * AllocationAlignment
          to == from + Units(bytes) * AllocationAlignment
      IN  Fits(Units(bytes)) =>
            /\ to <= PoolSize * AllocationAlignment
            /\ \A s \in spans : s.to <= from \/ to <= s.from \/ from = to

(* isPendingReleaseRangeEmpty forgets no frame's memory: while it holds,   *)
(* everything handed out is queued for release, also at the submission,    *)
(* which enqueues what it finds pending; and an empty range has its        *)
(* counters at zero, as tryAllocate asserts.                               *)
PendingRangeExact ==
  ~oversold =>
    /\ pc # "queue full" /\ IsPendingReleaseRangeEmpty => Unreleased = {}
    /\ pc = "submitted" /\ Unreleased # {} => ~IsPendingReleaseRangeEmpty
    /\ pc # "range assertion"

(* The allocator gives up only for want of memory the client still holds:  *)
(* it overflows when the frame being built holds memory or asks for more   *)
(* than the pool, and its queue is full when that many frames are on the   *)
(* GPU.                                                                    *)
GivesUpOnlyWhenExhausted ==
  ~oversold =>
    /\ pc = "overflow" => Unreleased # {} \/ Units(request) > PoolSize
    /\ pc = "queue full" => submitted - completed >= QueueSize

(* allocate's busy wait ends: it returns or reports that it cannot.        *)
AllocationEnds == pc \in {"allocating", "waiting"} ~> pc \notin {"allocating", "waiting"}

(* "If allocated range is empty, then we expect range counters be set to   *)
(* zero by releasing side" (line 19).                                      *)
EmptyRangeAtZero == pc # "range assertion"

=============================================================================
