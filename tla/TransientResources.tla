------------------------- MODULE TransientResources -------------------------
(***************************************************************************)
(* The transient resources of a frame (XEngine.Gfx.Scheduler.cpp):         *)
(* TaskGraph::execute places them one after the other in the device memory *)
(* of TransientResourceCache, and takes each from the cache, which keeps   *)
(* what earlier frames created.  A session of the cache is one frame; it   *)
(* is queued behind the frame's EOP sync point.  An entry that no frame    *)
(* uses for long is evicted.                                               *)
(***************************************************************************)
EXTENDS Integers, Sequences, FiniteSets

CONSTANTS
  Names,          \* nameXSH of a resource, and its description but for the size
  Sizes,          \* in units of TransientResourceAllocationAlignment
  MaxEntries,     \* entryPoolSize
  QueueCapacity,  \* SessionReleaseQueue::Capacity
  EvictAge,       \* SessionForceEvictAge
  CounterModulus, \* 2^16: session index and queue counters are uint16
  MaxFrame,       \* bound of the model: transient resources of a frame
  MaxSessions     \* bound of the model: sessions over a behaviour

(* The static_assert at Scheduler.h:80, and what a uint16 can count.       *)
ASSUME EvictAgeAssumption ==
  /\ QueueCapacity \in Nat \ {0, 1} /\ EvictAge \in Nat /\ CounterModulus \in Nat
  /\ EvictAge > QueueCapacity /\ EvictAge < CounterModulus
  /\ CounterModulus % QueueCapacity = 0
ASSUME SizesAssumption == Sizes \subseteq Nat \ {0}
ASSUME BoundsAssumption == MaxEntries \in Nat /\ MaxFrame \in Nat /\ MaxSessions \in Nat

VARIABLES
  pc,                  \* "closed" or "open" session, or why the program stopped
  entries,             \* what was asked for, where it is, and lastUsageSessionIndex
  queueHead, queueTail, queue,  \* sessionReleaseQueue
  currentSessionIndex,
  frame,               \* what the open session asked for so far, and the entry it got
  memoryOffset,        \* transientResourceMemoryOffsetAccum
  submitted,           \* sessions closed; the sync point of a session is its number
  completed,           \* sessions whose frame the GPU is done with
  lastUse,             \* per entry, the number of the last session that took it
  overrun              \* a session was pushed to a queue without room

sessionQueue == <<queueHead, queueTail, queue>>
vars == <<pc, entries, sessionQueue, currentSessionIndex, frame, memoryOffset,
          submitted, completed, lastUse, overrun>>

Stopped == {"evicted", "cache full", "queue full", "counter assertion"}
NextCounter_Unwrapped(counter) == counter + 1
NextCounter(counter) == (counter + 1) % CounterModulus

(* InplaceCircularQueue: counters run freely, a slot is their remainder.   *)
Slot(counter) == counter % QueueCapacity
Pending == (queueTail - queueHead) % CounterModulus
SyncPointAt(i) == queue[Slot(queueHead + i)]

(* isFull compares without wrapping headCounter + (Capacity - 1) to the    *)
(* width of a counter.                                                     *)
IsFull == queueHead + QueueCapacity - 1 = queueTail

(* pruneSessionReleaseQueue pops up to the first session not finished.     *)
Reached_Early(syncPoint) == syncPoint <= completed + 1
Reached(syncPoint) == syncPoint <= completed
Popped == CHOOSE n \in 0..Pending :
            /\ \A i \in 0..(n - 1) : Reached(SyncPointAt(i))
            /\ n < Pending => ~Reached(SyncPointAt(n))

Age(entry) == (currentSessionIndex - entry.lastUsage) % CounterModulus
Evictable_UnlessRecent(entry) == Age(entry) >= 2
Evictable(entry) == Age(entry) >= EvictAge

-----------------------------------------------------------------------------
Init ==
  /\ pc = "closed"
  /\ entries = <<>>
  /\ queueHead = 0 /\ queueTail = 0
  /\ queue = [i \in 0..(QueueCapacity - 1) |-> 0]
  /\ currentSessionIndex = 0
  /\ frame = <<>> /\ memoryOffset = 0
  /\ submitted = 0 /\ completed = 0
  /\ lastUse = <<>>
  /\ overrun = FALSE

(* openAndPruneCache: destroying an evicted resource and removing its      *)
(* entry are not implemented and stop the program.                         *)
OpenAndPruneCache ==
  /\ pc = "closed"
  /\ submitted < MaxSessions
  /\ queueHead' = (queueHead + Popped) % CounterModulus
  /\ pc' = IF \E i \in 1..Len(entries) : Evictable(entries[i]) THEN "evicted" ELSE "open"
  /\ UNCHANGED <<entries, queueTail, queue, currentSessionIndex, frame, memoryOffset,
                 submitted, completed, lastUse, overrun>>

(* The next transient resource of the frame gets the memory after the one  *)
(* before it.  queryBuffer and queryTexture look for an entry of the same  *)
(* name, size and place.                                                   *)
IsFound_Anywhere(entry, name, size) == entry.name = name /\ entry.size = size
IsFound(entry, name, size) ==
  entry.name = name /\ entry.size = size /\ entry.offset = memoryOffset
Found(name, size) == {i \in 1..Len(entries) : IsFound(entries[i], name, size)}

Take(i, size) ==
  /\ pc = "open" /\ Len(frame) < MaxFrame
  /\ frame' = Append(frame, [entry |-> i, offset |-> memoryOffset, size |-> size])
  /\ memoryOffset' = memoryOffset + size
  /\ UNCHANGED <<pc, sessionQueue, currentSessionIndex, submitted, completed, overrun>>

QueryCached(name, size) ==
  \E i \in Found(name, size) :
    /\ \A j \in Found(name, size) : i <= j
    /\ Take(i, size)
    /\ entries' = [entries EXCEPT ![i].lastUsage = currentSessionIndex]
    /\ lastUse' = [lastUse EXCEPT ![i] = submitted + 1]

QueryNew(name, size) ==
  /\ Found(name, size) = {}
  /\ Len(entries) < MaxEntries
  /\ Take(Len(entries) + 1, size)
  /\ entries' = Append(entries, [name |-> name, size |-> size, offset |-> memoryOffset,
                                 lastUsage |-> currentSessionIndex])
  /\ lastUse' = Append(lastUse, submitted + 1)

(* With no room for another entry the program stops.                       *)
QueryFails(name, size) ==
  /\ pc = "open" /\ Len(frame) < MaxFrame
  /\ Found(name, size) = {}
  /\ Len(entries) = MaxEntries
  /\ pc' = "cache full"
  /\ UNCHANGED <<entries, sessionQueue, currentSessionIndex, frame, memoryOffset,
                 submitted, completed, lastUse, overrun>>

(* The frame is submitted, and closeAndSetupSessionRelease called with its *)
(* EOP sync point.                                                         *)
CloseAndSetupSessionRelease ==
  /\ pc = "open"
  /\ submitted' = submitted + 1
  /\ IF IsFull
     THEN /\ pc' = "queue full"
          /\ UNCHANGED <<queueTail, queue, currentSessionIndex, overrun, frame, memoryOffset>>
     ELSE /\ queue' = [queue EXCEPT ![Slot(queueTail)] = submitted + 1]
          /\ queueTail' = NextCounter(queueTail)
          /\ currentSessionIndex' = NextCounter(currentSessionIndex)
          /\ overrun' = (overrun \/ Pending >= QueueCapacity - 1)
          /\ pc' = IF currentSessionIndex' = queueTail' THEN "closed" ELSE "counter assertion"
          /\ frame' = <<>> /\ memoryOffset' = 0
  /\ UNCHANGED <<entries, queueHead, completed, lastUse>>

(* The GPU finishes the next frame.                                        *)
GPUAdvance ==
  /\ pc \notin Stopped
  /\ completed < submitted
  /\ completed' = completed + 1
  /\ UNCHANGED <<pc, entries, sessionQueue, currentSessionIndex, frame, memoryOffset,
                 submitted, lastUse, overrun>>

Next ==
  \/ OpenAndPruneCache
  \/ \E name \in Names, size \in Sizes : QueryCached(name, size)
  \/ \E name \in Names, size \in Sizes : QueryNew(name, size)
  \/ \E name \in Names, size \in Sizes : QueryFails(name, size)
  \/ CloseAndSetupSessionRelease
  \/ GPUAdvance

Spec == Init /\ [][Next]_vars

-----------------------------------------------------------------------------
TypeOK ==
  /\ pc \in {"closed", "open"} \cup Stopped
  /\ Len(entries) <= MaxEntries
  /\ \A i \in 1..Len(entries) : /\ entries[i].name \in Names /\ entries[i].size \in Sizes
                                /\ entries[i].offset \in Nat
                                /\ entries[i].lastUsage \in 0..(CounterModulus - 1)
                                /\ lastUse[i] \in 1..(submitted + 1)
  /\ {queueHead, queueTail, currentSessionIndex} \subseteq 0..(CounterModulus - 1)
  /\ queue \in [0..(QueueCapacity - 1) -> 0..MaxSessions]
  /\ completed \in 0..submitted /\ submitted \in 0..MaxSessions
  /\ overrun \in BOOLEAN

(* What the frame being built takes lies where the placement put it, and   *)
(* no two of its resources share memory, whichever earlier frames left     *)
(* entries that overlap it.                                                *)
FrameResourcesDisjoint ==
  /\ \A i \in 1..Len(frame) : /\ entries[frame[i].entry].offset = frame[i].offset
                              /\ entries[frame[i].entry].size = frame[i].size
  /\ \A i, j \in 1..Len(frame) :
       i < j => frame[i].offset + frame[i].size <= frame[j].offset

(* As long as the queue was not overrun, it holds, oldest first, every     *)
(* session the GPU may still work on, and the session counter is the       *)
(* queue's (the assertion at line 142).                                    *)
SessionsTracked ==
  ~overrun =>
    /\ \A i \in 0..(Pending - 1) : pc # "queue full" => SyncPointAt(i) = submitted - Pending + 1 + i
    /\ pc # "queue full" => submitted - completed <= Pending
    /\ pc # "counter assertion"

(* An entry that is evicted is not used by a frame on the GPU: the eviction *)
(* age exceeds the frames the queue can hold.                              *)
EvictedIdle ==
  pc = "evicted" /\ ~overrun =>
    \A i \in 1..Len(entries) : Evictable(entries[i]) => lastUse[i] <= completed

(* The queue is pushed only with room, as push asserts (CircularQueue.h:48). *)
PushHasRoom == ~overrun

=============================================================================
