---------------------- MODULE TransientResourcesProofs ----------------------
(***************************************************************************)
(* For every set of resources, every size of the cache and of the session  *)
(* queue and every width of the counters: the resources of a frame do not  *)
(* share memory (FrameResourcesDisjoint), the session queue holds every    *)
(* session the GPU may still work on (SessionsTracked), and an evicted     *)
(* entry is idle (EvictedIdle).                                            *)
(*                                                                         *)
(* The last two follow from one relation: the wrapped counters are the     *)
(* session numbers modulo 2^16, the queue's slots the same numbers modulo  *)
(* its capacity, which divides 2^16, so that a slot may be computed from   *)
(* either.                                                                 *)
(***************************************************************************)
EXTENDS TransientResources, IntegerLemmas, SequenceTheorems, TLAPS

Entry == [name : Names, size : Sizes, offset : Nat, lastUsage : 0..(CounterModulus - 1)]
Resource == [entry : Nat, offset : Nat, size : Nat]

(* The types in full, and that a session is open only below the bound.     *)
TypeInv ==
  /\ pc \in {"closed", "open"} \cup Stopped
  /\ entries \in Seq(Entry) /\ Len(entries) <= MaxEntries
  /\ lastUse \in Seq(Nat) /\ Len(lastUse) = Len(entries)
  /\ \A i \in 1..Len(lastUse) : lastUse[i] \in 1..(submitted + 1)
  /\ queueHead \in 0..(CounterModulus - 1) /\ queueTail \in 0..(CounterModulus - 1)
  /\ currentSessionIndex \in 0..(CounterModulus - 1)
  /\ queue \in [0..(QueueCapacity - 1) -> 0..MaxSessions]
  /\ frame \in Seq(Resource) /\ memoryOffset \in Nat
  /\ completed \in 0..submitted /\ submitted \in 0..MaxSessions
  /\ pc = "open" => submitted < MaxSessions
  /\ overrun \in BOOLEAN

(* The frame's resources lie one after the other below memoryOffset, where *)
(* their entries say.                                                      *)
FrameInv ==
  /\ \A i \in 1..Len(frame) :
       /\ frame[i].entry \in 1..Len(entries)
       /\ entries[frame[i].entry].offset = frame[i].offset
       /\ entries[frame[i].entry].size = frame[i].size
       /\ frame[i].offset + frame[i].size <= memoryOffset
  /\ \A i, j \in 1..Len(frame) :
       i < j => frame[i].offset + frame[i].size <= frame[j].offset

(* Counters are session numbers, reduced; the queue holds the numbers of   *)
(* the sessions closed last.                                               *)
SessionInv ==
  /\ currentSessionIndex = queueTail
  /\ pc # "queue full" => currentSessionIndex = submitted % CounterModulus
  /\ pc # "counter assertion"
  /\ \A i \in 1..Len(entries) : entries[i].lastUsage = (lastUse[i] - 1) % CounterModulus
  /\ ~overrun => Pending < QueueCapacity
  /\ ~overrun /\ pc # "queue full" =>
       /\ submitted - completed <= Pending
       /\ \A i \in 0..(Pending - 1) : SyncPointAt(i) = submitted - Pending + 1 + i
  /\ EvictedIdle

-----------------------------------------------------------------------------
LEMMA Sizing ==
  /\ CounterModulus \in Nat \ {0} /\ QueueCapacity \in Nat \ {0} /\ QueueCapacity >= 2
  /\ EvictAge \in Nat /\ EvictAge > QueueCapacity /\ EvictAge < CounterModulus
  /\ CounterModulus % QueueCapacity = 0
BY EvictAgeAssumption DEF EvictAgeAssumption

(* The difference of two counters, as the queue computes it.               *)
LEMMA CounterDifference ==
  ASSUME NEW head \in 0..(CounterModulus - 1), NEW tail \in 0..(CounterModulus - 1)
  PROVE  (tail - head) % CounterModulus = IF tail >= head THEN tail - head
                                          ELSE tail - head + CounterModulus
<1>1. tail - head \in Int /\ -CounterModulus <= tail - head /\ tail - head < CounterModulus
  BY Sizing
<1>2. QED
  BY <1>1, Sizing, ModRange

LEMMA PendingIs ==
  ASSUME queueHead \in 0..(CounterModulus - 1), queueTail \in 0..(CounterModulus - 1)
  PROVE  /\ Pending \in 0..(CounterModulus - 1)
         /\ Pending = IF queueTail >= queueHead THEN queueTail - queueHead
                      ELSE queueTail - queueHead + CounterModulus
BY CounterDifference, Sizing DEF Pending

(* A slot may be computed from a counter before or after it wrapped.       *)
LEMMA SlotOfWrapped ==
  ASSUME NEW x \in Int
  PROVE  /\ Slot(x % CounterModulus) = Slot(x)
         /\ Slot(x - CounterModulus) = Slot(x)
         /\ Slot(x) \in 0..(QueueCapacity - 1)
<1>1. Slot(x % CounterModulus) = Slot(x)
  BY Sizing, ModOfMod DEF Slot
<1>2. Slot(x) \in 0..(QueueCapacity - 1)
  BY Sizing, ModBounds DEF Slot
<1> DEFINE y == x - CounterModulus
<1>3. y \in Int /\ x = y + CounterModulus * 1
  BY Sizing
<1> HIDE DEF y
<1>4. (y + CounterModulus * 1) % CounterModulus = y % CounterModulus
  <2>1. \A k \in Int : (y + CounterModulus * k) % CounterModulus = y % CounterModulus
    BY <1>3, Sizing, ModShift
  <2>2. QED
    BY <2>1
<1>5. Slot(y) = Slot(y % CounterModulus) /\ x % CounterModulus = y % CounterModulus
  BY <1>3, <1>4, Sizing, ModOfMod DEF Slot
<1>6. QED
  BY <1>1, <1>2, <1>5 DEF y

LEMMA SameSlot ==
  ASSUME NEW x \in Int, NEW y \in Int, y = x \/ y = x - CounterModulus
  PROVE  Slot(y) = Slot(x)
BY SlotOfWrapped

(* pruneSessionReleaseQueue pops what is reached, as far as it can.        *)
LEMMA PoppedIs ==
  ASSUME TypeInv
  PROVE  /\ Popped \in 0..Pending
         /\ \A i \in 0..(Popped - 1) : Reached(SyncPointAt(i))
         /\ Popped < Pending => ~Reached(SyncPointAt(Popped))
<1> DEFINE S == {n \in 0..Pending : n < Pending => ~Reached(SyncPointAt(n))}
<1>1. Pending \in Nat
  BY PendingIs, Sizing DEF TypeInv
<1>2. S \in SUBSET Nat /\ Pending \in S /\ \A n \in S : n <= Pending
  BY <1>1
<1>3. PICK m \in S : \A n \in S : m <= n
  <2>1. S # {}
    BY <1>2
  <2> HIDE DEF S
  <2>2. QED
    BY <1>1, <1>2, <2>1, LeastExists
<1>4. ASSUME NEW i \in 0..(m - 1) PROVE Reached(SyncPointAt(i))
  <2>1. i \in 0..Pending /\ i \notin S /\ i < Pending
    BY <1>1, <1>3
  <2>2. QED
    BY <2>1
<1>5. \E n \in 0..Pending : /\ \A i \in 0..(n - 1) : Reached(SyncPointAt(i))
                            /\ n < Pending => ~Reached(SyncPointAt(n))
  BY <1>3, <1>4
<1>6. QED
  BY <1>5 DEF Popped

(* What a query takes: entry `e`, with the place and size asked for; every *)
(* other entry is left alone.                                              *)
Takes(e, size) ==
  /\ entries' \in Seq(Entry) /\ e \in 1..Len(entries')
  /\ Len(entries) <= Len(entries') /\ Len(entries') <= MaxEntries
  /\ lastUse' \in Seq(Nat) /\ Len(lastUse') = Len(entries')
  /\ entries'[e].offset = memoryOffset /\ entries'[e].size = size
  /\ entries'[e].lastUsage = currentSessionIndex /\ lastUse'[e] = submitted + 1
  /\ \A j \in 1..Len(entries') : j # e =>
       j \in 1..Len(entries) /\ entries'[j] = entries[j] /\ lastUse'[j] = lastUse[j]
  /\ \A j \in 1..Len(entries) : /\ entries'[j].offset = entries[j].offset
                                /\ entries'[j].size = entries[j].size
  /\ Take(e, size)

LEMMA QueryTakes ==
  ASSUME TypeInv, NEW name \in Names, NEW size \in Sizes,
         QueryCached(name, size) \/ QueryNew(name, size)
  PROVE  \E e : Takes(e, size)
<1>1. /\ entries \in Seq(Entry) /\ lastUse \in Seq(Nat) /\ Len(lastUse) = Len(entries)
      /\ Len(entries) \in Nat /\ MaxEntries \in Nat /\ submitted + 1 \in Nat
      /\ Len(entries) <= MaxEntries /\ memoryOffset \in Nat
      /\ currentSessionIndex \in 0..(CounterModulus - 1)
      /\ \A i \in 1..Len(entries) : entries[i] \in Entry
  BY BoundsAssumption DEF BoundsAssumption, TypeInv
<1>2. ASSUME NEW e \in Found(name, size), Take(e, size),
             entries' = [entries EXCEPT ![e].lastUsage = currentSessionIndex],
             lastUse' = [lastUse EXCEPT ![e] = submitted + 1]
      PROVE  Takes(e, size)
  <2>1. /\ e \in 1..Len(entries)
        /\ entries[e].size = size /\ entries[e].offset = memoryOffset
    BY <1>2 DEF Found, IsFound
  <2> DEFINE entry == [entries[e] EXCEPT !.lastUsage = currentSessionIndex]
  <2>2. /\ entry \in Entry /\ entry.offset = entries[e].offset /\ entry.size = entries[e].size
        /\ entry.lastUsage = currentSessionIndex
    BY <1>1, <2>1 DEF Entry
  <2>3. entries' = [entries EXCEPT ![e] = entry]
    BY <1>2
  <2> HIDE DEF entry
  <2>4. /\ entries' \in Seq(Entry) /\ Len(entries') = Len(entries)
        /\ \A j \in 1..Len(entries) : entries'[j] = IF j = e THEN entry ELSE entries[j]
    BY <1>1, <2>1, <2>2, <2>3, ExceptSeq
  <2>5. /\ lastUse' \in Seq(Nat) /\ Len(lastUse') = Len(lastUse)
        /\ \A j \in 1..Len(lastUse) : lastUse'[j] = IF j = e THEN submitted + 1 ELSE lastUse[j]
    BY <1>1, <1>2, <2>1, ExceptSeq
  <2>6. QED
    BY <1>1, <1>2, <2>1, <2>2, <2>4, <2>5 DEF Takes
<1>3. ASSUME NEW e, e = Len(entries) + 1, Len(entries) < MaxEntries, Take(e, size), NEW entry,
             entry = [name |-> name, size |-> size, offset |-> memoryOffset,
                      lastUsage |-> currentSessionIndex],
             entries' = Append(entries, entry), lastUse' = Append(lastUse, submitted + 1)
      PROVE  Takes(e, size)
  <2>1. entry \in Entry /\ entry.offset = memoryOffset /\ entry.size = size
        /\ entry.lastUsage = currentSessionIndex
    BY <1>1, <1>3 DEF Entry
  <2>2. /\ entries' \in Seq(Entry) /\ Len(entries') = Len(entries) + 1
        /\ \A j \in 1..Len(entries) : entries'[j] = entries[j]
        /\ entries'[Len(entries) + 1] = entry
    BY <1>1, <1>3, <2>1, AppendProperties
  <2>3. /\ lastUse' \in Seq(Nat) /\ Len(lastUse') = Len(lastUse) + 1
        /\ \A j \in 1..Len(lastUse) : lastUse'[j] = lastUse[j]
        /\ lastUse'[Len(lastUse) + 1] = submitted + 1
    BY <1>1, <1>3, AppendProperties
  <2>4. QED
    BY <1>1, <1>3, <2>1, <2>2, <2>3 DEF Takes
<1>4. QED
  BY <1>2, <1>3 DEF QueryCached, QueryNew

-----------------------------------------------------------------------------
LEMMA TypeInvInit == Init => TypeInv
<1> SUFFICES ASSUME Init PROVE TypeInv
  OBVIOUS
<1>1. 0 \in 0..(CounterModulus - 1) /\ 0 \in 0..MaxSessions /\ 0 <= MaxEntries
  BY Sizing, BoundsAssumption DEF BoundsAssumption
<1>2. queue \in [0..(QueueCapacity - 1) -> 0..MaxSessions]
  BY <1>1 DEF Init
<1>3. /\ entries \in Seq(Entry) /\ lastUse \in Seq(Nat) /\ frame \in Seq(Resource)
      /\ Len(entries) = 0 /\ Len(lastUse) = 0
  BY EmptySeq DEF Init
<1>4. /\ queueHead \in 0..(CounterModulus - 1) /\ queueTail \in 0..(CounterModulus - 1)
      /\ currentSessionIndex \in 0..(CounterModulus - 1)
  BY <1>1 DEF Init
<1>5. completed \in 0..submitted /\ submitted \in 0..MaxSessions /\ memoryOffset \in Nat
  BY <1>1 DEF Init
<1>6. pc = "closed" /\ overrun = FALSE
  BY DEF Init
<1>7. \A i \in 1..Len(lastUse) : lastUse[i] \in 1..(submitted + 1)
  BY <1>3
<1>8. QED
  BY <1>1, <1>2, <1>3, <1>4, <1>5, <1>6, <1>7 DEF TypeInv

LEMMA NextCounterType ==
  ASSUME NEW counter \in Int
  PROVE  NextCounter(counter) \in 0..(CounterModulus - 1)
BY Sizing, ModBounds DEF NextCounter

LEMMA TypeInvStep == TypeInv /\ [Next]_vars => TypeInv'
<1> SUFFICES ASSUME TypeInv, [Next]_vars PROVE TypeInv'
  OBVIOUS
<1> USE DEF sessionQueue
<1>1. CASE OpenAndPruneCache
  <2>1. Popped \in Int
    BY PoppedIs, PendingIs, Sizing DEF TypeInv
  <2>2. queueHead' \in 0..(CounterModulus - 1)
    <3>1. queueHead + Popped \in Int
      BY <2>1 DEF TypeInv
    <3>2. QED
      BY <1>1, <3>1, Sizing, ModBounds DEF OpenAndPruneCache
  <2>3. submitted < MaxSessions /\ pc' \in {"evicted", "open"}
    BY <1>1 DEF OpenAndPruneCache
  <2>4. QED
    BY <1>1, <2>2, <2>3 DEF OpenAndPruneCache, TypeInv, Stopped
<1>2. ASSUME NEW name \in Names, NEW size \in Sizes, QueryCached(name, size) \/ QueryNew(name, size)
      PROVE  TypeInv'
  <2>1. PICK e : Takes(e, size)
    BY <1>2, QueryTakes
  <2>2. /\ entries' \in Seq(Entry) /\ Len(entries') <= MaxEntries /\ e \in 1..Len(entries')
        /\ lastUse' \in Seq(Nat) /\ Len(lastUse') = Len(entries') /\ Take(e, size)
    BY <2>1 DEF Takes
  <2>3. Len(entries') \in Nat /\ Len(entries) \in Nat /\ size \in Nat /\ memoryOffset \in Nat
    BY <2>2, LenProperties, SizesAssumption DEF SizesAssumption, TypeInv
  <2>4. ASSUME NEW j \in 1..Len(lastUse') PROVE lastUse'[j] \in 1..(submitted + 1)
    <3>1. CASE j = e
      BY <2>1, <3>1, BoundsAssumption DEF BoundsAssumption, Takes, TypeInv
    <3>2. CASE j # e
      BY <2>1, <2>2, <3>2 DEF Takes, TypeInv
    <3>3. QED
      BY <3>1, <3>2
  <2>5. frame' \in Seq(Resource)
    <3>1. e \in Nat
      BY <2>2, <2>3
    <3>2. [entry |-> e, offset |-> memoryOffset, size |-> size] \in Resource
      BY <2>3, <3>1 DEF Resource
    <3>3. QED
      BY <2>2, <3>2, AppendProperties DEF Take, TypeInv
  <2>6. memoryOffset' \in Nat /\ UNCHANGED <<pc, sessionQueue, currentSessionIndex, submitted, completed, overrun>>
    BY <2>2, <2>3 DEF Take
  <2>7. QED
    BY <2>2, <2>4, <2>5, <2>6 DEF TypeInv
<1>3. ASSUME NEW name \in Names, NEW size \in Sizes, QueryFails(name, size) PROVE TypeInv'
  BY <1>3 DEF QueryFails, TypeInv, Stopped
<1>4. CASE CloseAndSetupSessionRelease
  <2>1. /\ submitted' = submitted + 1 /\ submitted \in 0..MaxSessions /\ submitted < MaxSessions
        /\ UNCHANGED <<entries, queueHead, completed, lastUse>>
    BY <1>4 DEF CloseAndSetupSessionRelease, TypeInv
  <2>2. submitted' \in 0..MaxSessions /\ completed' \in 0..submitted'
    BY <2>1, BoundsAssumption DEF BoundsAssumption, TypeInv
  <2>3. \A i \in 1..Len(lastUse) : lastUse[i] \in 1..(submitted' + 1)
    BY <2>1 DEF TypeInv
  <2>4. CASE IsFull
    <3>1. pc' = "queue full" /\ UNCHANGED <<queueTail, queue, currentSessionIndex, overrun, frame, memoryOffset>>
      BY <1>4, <2>4 DEF CloseAndSetupSessionRelease
    <3>2. QED
      BY <2>1, <2>2, <2>3, <3>1 DEF TypeInv, Stopped
  <2>5. CASE ~IsFull
    <3>1. /\ queue' = [queue EXCEPT ![Slot(queueTail)] = submitted + 1]
          /\ queueTail' = NextCounter(queueTail)
          /\ currentSessionIndex' = NextCounter(currentSessionIndex)
          /\ overrun' = (overrun \/ Pending >= QueueCapacity - 1)
          /\ pc' \in {"closed", "counter assertion"}
          /\ frame' = <<>> /\ memoryOffset' = 0
      BY <1>4, <2>5 DEF CloseAndSetupSessionRelease
    <3>2. queue' \in [0..(QueueCapacity - 1) -> 0..MaxSessions]
      BY <2>1, <2>2, <3>1 DEF TypeInv
    <3>3. queueTail' \in 0..(CounterModulus - 1) /\ currentSessionIndex' \in 0..(CounterModulus - 1)
      <4>1. queueTail \in Int /\ currentSessionIndex \in Int
        BY Sizing DEF TypeInv
      <4>2. QED
        BY <3>1, <4>1, NextCounterType
    <3>4. overrun' \in BOOLEAN
      BY <3>1 DEF TypeInv
    <3>5. frame' \in Seq(Resource)
      BY <3>1, EmptySeq
    <3>6. QED
      BY <2>1, <2>2, <2>3, <3>1, <3>2, <3>3, <3>4, <3>5 DEF TypeInv, Stopped
  <2>6. QED
    BY <2>4, <2>5
<1>5. CASE GPUAdvance
  BY <1>5 DEF GPUAdvance, TypeInv
<1>6. CASE UNCHANGED vars
  BY <1>6 DEF vars, TypeInv
<1>7. QED
  BY <1>1, <1>2, <1>3, <1>4, <1>5, <1>6 DEF Next

(* Every reachable state has the variables' types; the counters stay below *)
(* 2^16 and the cache below its capacity.                                  *)
THEOREM TypeCorrect == Spec => []TypeOK
<1>1. TypeInv => TypeOK
  <2> SUFFICES ASSUME TypeInv PROVE TypeOK
    OBVIOUS
  <2>1. \A i \in 1..Len(entries) : entries[i] \in Entry
    BY DEF TypeInv
  <2>2. QED
    BY <2>1 DEF TypeInv, TypeOK, Entry
<1>2. Spec => []TypeInv
  BY TypeInvInit, TypeInvStep, PTL DEF Spec
<1>3. QED
  BY <1>1, <1>2, PTL

-----------------------------------------------------------------------------
LEMMA FrameInvStep == TypeInv /\ FrameInv /\ [Next]_vars => FrameInv'
<1> SUFFICES ASSUME TypeInv, FrameInv, [Next]_vars PROVE FrameInv'
  OBVIOUS
<1>1. CASE UNCHANGED <<entries, frame, memoryOffset>>
  BY <1>1 DEF FrameInv
<1>2. CASE frame' = <<>>
  <2>1. Len(frame') = 0
    BY <1>2
  <2>2. QED
    BY <2>1 DEF FrameInv
<1>3. ASSUME NEW name \in Names, NEW size \in Sizes, QueryCached(name, size) \/ QueryNew(name, size)
      PROVE  FrameInv'
  <2>1. PICK e : Takes(e, size)
    BY <1>3, QueryTakes
  <2> DEFINE taken == [entry |-> e, offset |-> memoryOffset, size |-> size]
  <2>2. /\ frame \in Seq(Resource) /\ Len(frame) \in Nat /\ memoryOffset \in Nat /\ size \in Nat
        /\ Len(entries) \in Nat /\ Len(entries') \in Nat /\ Len(entries) <= Len(entries')
        /\ \A i \in 1..Len(frame) : frame[i].offset \in Nat /\ frame[i].size \in Nat
    <3>1. frame \in Seq(Resource) /\ memoryOffset \in Nat /\ entries \in Seq(Entry)
      BY DEF TypeInv
    <3>2. entries' \in Seq(Entry) /\ Len(entries) <= Len(entries')
      BY <2>1 DEF Takes
    <3>3. Len(frame) \in Nat /\ Len(entries) \in Nat /\ Len(entries') \in Nat
      BY <3>1, <3>2, LenProperties
    <3>4. \A i \in 1..Len(frame) : frame[i] \in Resource
      BY <3>1
    <3>5. size \in Nat
      BY SizesAssumption DEF SizesAssumption
    <3>6. QED
      BY <3>1, <3>2, <3>3, <3>4, <3>5 DEF Resource
  <2>3. e \in 1..Len(entries') /\ taken \in Resource
    BY <2>1, <2>2 DEF Takes, Resource
  <2>4. frame' = Append(frame, taken) /\ memoryOffset' = memoryOffset + size
    BY <2>1 DEF Takes, Take
  <2>5. taken.entry = e /\ taken.offset = memoryOffset /\ taken.size = size
    OBVIOUS
  <2> HIDE DEF taken
  <2>6. /\ Len(frame') = Len(frame) + 1 /\ frame'[Len(frame) + 1] = taken
        /\ \A i \in 1..Len(frame) : frame'[i] = frame[i]
    BY <2>2, <2>3, <2>4, AppendProperties
  <2>7. ASSUME NEW i \in 1..Len(frame')
        PROVE  /\ frame'[i].entry \in 1..Len(entries')
               /\ entries'[frame'[i].entry].offset = frame'[i].offset
               /\ entries'[frame'[i].entry].size = frame'[i].size
               /\ frame'[i].offset + frame'[i].size <= memoryOffset'
    <3>1. CASE i \in 1..Len(frame)
      <4>1. frame'[i] = frame[i] /\ frame[i].entry \in 1..Len(entries)
        BY <2>6, <3>1 DEF FrameInv
      <4>2. /\ entries'[frame[i].entry].offset = frame[i].offset
            /\ entries'[frame[i].entry].size = frame[i].size
        BY <2>1, <3>1, <4>1 DEF FrameInv, Takes
      <4>3. frame[i].offset + frame[i].size <= memoryOffset
        BY <3>1 DEF FrameInv
      <4>4. QED
        BY <2>2, <2>4, <3>1, <4>1, <4>2, <4>3
    <3>2. CASE i = Len(frame) + 1
      <4>1. entries'[e].offset = memoryOffset /\ entries'[e].size = size
        BY <2>1 DEF Takes
      <4>2. QED
        BY <2>2, <2>3, <2>4, <2>5, <2>6, <3>2, <4>1
    <3>3. QED
      BY <2>2, <2>6, <3>1, <3>2
  <2>8. ASSUME NEW i \in 1..Len(frame'), NEW j \in 1..Len(frame'), i < j
        PROVE  frame'[i].offset + frame'[i].size <= frame'[j].offset
    <3>1. i \in 1..Len(frame) /\ frame'[i] = frame[i]
      BY <2>2, <2>6, <2>8
    <3>2. CASE j \in 1..Len(frame)
      BY <2>6, <2>8, <3>1, <3>2 DEF FrameInv
    <3>3. CASE j = Len(frame) + 1
      BY <2>5, <2>6, <3>1, <3>3 DEF FrameInv
    <3>4. QED
      BY <2>2, <2>6, <3>2, <3>3
  <2>9. QED
    BY <2>7, <2>8 DEF FrameInv
<1>4. CASE OpenAndPruneCache \/ GPUAdvance \/ UNCHANGED vars
  BY <1>1, <1>4 DEF OpenAndPruneCache, GPUAdvance, vars
<1>5. ASSUME NEW name \in Names, NEW size \in Sizes, QueryFails(name, size) PROVE FrameInv'
  BY <1>1, <1>5 DEF QueryFails
<1>6. CASE CloseAndSetupSessionRelease
  <2>1. CASE IsFull
    BY <1>1, <1>6, <2>1 DEF CloseAndSetupSessionRelease
  <2>2. CASE ~IsFull
    BY <1>2, <1>6, <2>2 DEF CloseAndSetupSessionRelease
  <2>3. QED
    BY <2>1, <2>2
<1>7. QED
  BY <1>3, <1>4, <1>5, <1>6 DEF Next

(* The resources a frame takes lie where the placement put them and share  *)
(* no memory, for any names and sizes, any cache and any frames before.    *)
THEOREM FrameResourcesAlwaysDisjoint == Spec => []FrameResourcesDisjoint
<1>1. Init => FrameInv
  <2> SUFFICES ASSUME Init PROVE FrameInv
    OBVIOUS
  <2>1. Len(frame) = 0
    BY DEF Init
  <2>2. QED
    BY <2>1 DEF FrameInv
<1>2. FrameInv => FrameResourcesDisjoint
  BY DEF FrameInv, FrameResourcesDisjoint
<1>3. Spec => [](TypeInv /\ FrameInv)
  BY <1>1, TypeInvInit, TypeInvStep, FrameInvStep, PTL DEF Spec
<1>4. QED
  BY <1>2, <1>3, PTL

-----------------------------------------------------------------------------
(* Opening a session takes Popped sessions from the front of the queue; the *)
(* others keep their order, also where the counters wrap.                  *)
LEMMA OpenShiftsQueue ==
  ASSUME TypeInv, OpenAndPruneCache
  PROVE  /\ Pending' = Pending - Popped
         /\ \A i \in 0..(Pending' - 1) : SyncPointAt(i)' = SyncPointAt(i + Popped)
<1> DEFINE M == CounterModulus
           p == Popped
<1>1. /\ queueHead \in 0..(M - 1) /\ queueTail \in 0..(M - 1) /\ M \in Nat \ {0}
      /\ Pending = IF queueTail >= queueHead THEN queueTail - queueHead
                   ELSE queueTail - queueHead + M
  BY PendingIs, Sizing DEF TypeInv
<1>2. p \in 0..Pending
  BY PoppedIs
<1>3. queueHead' = (queueHead + p) % M /\ queueTail' = queueTail /\ queue' = queue
  BY DEF OpenAndPruneCache
<1> HIDE DEF p
<1>4. queueHead' \in 0..(M - 1)
  BY <1>1, <1>2, <1>3, ModBounds
<1>5. queueHead' = IF queueHead + p < M THEN queueHead + p ELSE queueHead + p - M
  <2>1. CASE queueHead + p < M
    BY <1>1, <1>2, <1>3, <2>1, ModRange
  <2>2. CASE ~(queueHead + p < M)
    <3> DEFINE r == queueHead + p - M
    <3>1. r \in 0..(M - 1) /\ queueHead + p = M * 1 + r /\ queueHead + p \in Int
      BY <1>1, <1>2, <2>2
    <3> HIDE DEF r
    <3>2. (queueHead + p) % M = r
      BY <1>1, <3>1, ModUnique
    <3>3. QED
      BY <1>3, <2>2, <3>2 DEF r
  <2>3. QED
    BY <2>1, <2>2
<1>6. Pending' = IF queueTail >= queueHead' THEN queueTail - queueHead'
                 ELSE queueTail - queueHead' + M
  BY <1>1, <1>3, <1>4, CounterDifference DEF Pending
<1>7. Pending' = Pending - p
  BY <1>1, <1>2, <1>5, <1>6
<1>8. ASSUME NEW i \in 0..(Pending' - 1) PROVE SyncPointAt(i)' = SyncPointAt(i + p)
  <2>1. /\ queueHead + (i + p) \in Int /\ queueHead' + i \in Int
        /\ queueHead' + i = queueHead + (i + p) \/ queueHead' + i = queueHead + (i + p) - M
    BY <1>1, <1>2, <1>5, <1>7
  <2>2. Slot(queueHead' + i) = Slot(queueHead + (i + p))
    <3>1. \A x, y \in Int : y = x \/ y = x - M => Slot(y) = Slot(x)
      BY SameSlot
    <3> DEFINE x == queueHead + (i + p)
               y == queueHead' + i
    <3> HIDE DEF x, y
    <3>2. x \in Int /\ y \in Int /\ (y = x \/ y = x - M)
      BY <1>1, <1>2, <2>1 DEF x, y
    <3>3. QED
      BY <3>1, <3>2 DEF x, y
  <2>3. QED
    BY <1>3, <2>2 DEF SyncPointAt, Slot
<1>9. QED
  BY <1>7, <1>8 DEF p

(* Closing a session puts its number behind those in the queue.            *)
LEMMA CloseAppendsSession ==
  ASSUME TypeInv, CloseAndSetupSessionRelease, ~IsFull, Pending < QueueCapacity - 1
  PROVE  /\ Pending' = Pending + 1
         /\ \A i \in 0..Pending :
              SyncPointAt(i)' = IF i = Pending THEN submitted + 1 ELSE SyncPointAt(i)
<1> DEFINE M == CounterModulus
           n == Pending
<1>1. /\ queueHead \in 0..(M - 1) /\ queueTail \in 0..(M - 1) /\ M \in Nat \ {0}
      /\ n = IF queueTail >= queueHead THEN queueTail - queueHead
             ELSE queueTail - queueHead + M
      /\ n \in Nat /\ n + 1 < M /\ n < QueueCapacity /\ QueueCapacity \in Nat \ {0}
  <2>1. queueHead \in 0..(M - 1) /\ queueTail \in 0..(M - 1)
    BY DEF TypeInv
  <2>2. M \in Nat \ {0} /\ QueueCapacity \in Nat \ {0} /\ QueueCapacity < M
    BY Sizing
  <2>3. /\ n \in 0..(M - 1)
        /\ n = IF queueTail >= queueHead THEN queueTail - queueHead
               ELSE queueTail - queueHead + M
    BY <2>1, PendingIs
  <2>4. n < QueueCapacity - 1
    OBVIOUS
  <2> HIDE DEF n
  <2>5. QED
    BY <2>1, <2>2, <2>3, <2>4
<1>2. /\ queueHead' = queueHead /\ queueTail' = (queueTail + 1) % M
      /\ queue' = [queue EXCEPT ![Slot(queueTail)] = submitted + 1]
  BY DEF CloseAndSetupSessionRelease, NextCounter
<1> HIDE DEF n
<1>3. queueTail' = IF queueTail + 1 < M THEN queueTail + 1 ELSE 0
  BY <1>1, <1>2, ModRange
<1>4. Pending' = IF queueTail' >= queueHead THEN queueTail' - queueHead
                 ELSE queueTail' - queueHead + M
  <2>1. queueTail' \in 0..(M - 1)
    BY <1>1, <1>3
  <2>2. QED
    BY <1>1, <1>2, <2>1, CounterDifference DEF Pending
<1>5. Pending' = n + 1
  BY <1>1, <1>3, <1>4
<1>6. Slot(queueTail) = Slot(queueHead + n)
  <2>1. /\ queueHead + n \in Int /\ queueTail \in Int
        /\ queueTail = queueHead + n \/ queueTail = queueHead + n - M
    BY <1>1
  <2>2. \A x, y \in Int : y = x \/ y = x - M => Slot(y) = Slot(x)
    BY SameSlot
  <2> DEFINE x == queueHead + n
  <2> HIDE DEF x
  <2>3. x \in Int /\ (queueTail = x \/ queueTail = x - M)
    BY <1>1, <2>1 DEF x
  <2>4. QED
    BY <2>1, <2>2, <2>3 DEF x
<1>7. queue \in [0..(QueueCapacity - 1) -> 0..MaxSessions] /\ Slot(queueTail) \in 0..(QueueCapacity - 1)
  <2>1. queueTail \in Int
    BY <1>1
  <2>2. QED
    BY <2>1, SlotOfWrapped DEF TypeInv
<1>8. ASSUME NEW i \in 0..(n - 1) PROVE SyncPointAt(i)' = SyncPointAt(i)
  <2>1. /\ queueHead + i \in Int /\ queueHead + n \in Int
        /\ queueHead + i < queueHead + n /\ (queueHead + n) - (queueHead + i) < QueueCapacity
    BY <1>1
  <2>2. Slot(queueHead + i) # Slot(queueHead + n)
    BY <1>1, <2>1, ModDistinct DEF Slot
  <2>3. Slot(queueHead + i) \in 0..(QueueCapacity - 1)
    BY <2>1, SlotOfWrapped
  <2>4. queue'[Slot(queueHead + i)] = queue[Slot(queueHead + i)]
    BY <1>2, <1>6, <1>7, <2>2, <2>3
  <2>5. QED
    BY <1>2, <2>4 DEF SyncPointAt, Slot
<1>9. queue'[Slot(queueHead + n)] = submitted + 1
  BY <1>2, <1>6, <1>7
<1>10. ASSUME NEW i \in Nat, i = n PROVE SyncPointAt(i)' = submitted + 1
  BY <1>2, <1>9, <1>10 DEF SyncPointAt, Slot
<1>11. ASSUME NEW i \in 0..n
       PROVE  SyncPointAt(i)' = IF i = n THEN submitted + 1 ELSE SyncPointAt(i)
  BY <1>1, <1>8, <1>10
<1>12. QED
  BY <1>5, <1>11 DEF n

(* An entry old enough to be evicted was last used by a session the GPU is *)
(* done with: the counters' difference is at most that of the sessions.    *)
LEMMA EvictableIsIdle ==
  ASSUME TypeInv, NEW i \in 1..Len(entries), Evictable(entries[i]),
         entries[i].lastUsage = (lastUse[i] - 1) % CounterModulus,
         currentSessionIndex = submitted % CounterModulus,
         Pending < QueueCapacity, submitted - completed <= Pending
  PROVE  lastUse[i] <= completed
<1>1. /\ lastUse[i] \in Nat /\ lastUse[i] >= 1 /\ lastUse[i] <= submitted + 1
      /\ submitted \in Nat /\ completed \in Nat
  BY BoundsAssumption DEF BoundsAssumption, TypeInv
<1> DEFINE b == lastUse[i] - 1
<1>4. b \in Nat /\ b <= submitted
  BY <1>1
<1>5. Age(entries[i]) = ((submitted % CounterModulus) - (b % CounterModulus)) % CounterModulus
  BY DEF Age
<1> HIDE DEF b
<1>6. Age(entries[i]) <= submitted - b
  BY <1>1, <1>4, <1>5, Sizing, ModDifference
<1>7. Age(entries[i]) >= EvictAge
  BY DEF Evictable
<1>8. Age(entries[i]) \in Int /\ Pending \in Int
  <2>1. submitted % CounterModulus \in Int /\ b % CounterModulus \in Int
    BY <1>1, <1>4, Sizing, ModBounds
  <2>2. (submitted % CounterModulus) - (b % CounterModulus) \in Int
    BY <2>1
  <2>3. Age(entries[i]) \in 0..(CounterModulus - 1)
    BY <1>5, <2>2, Sizing, ModBounds
  <2>4. QED
    BY <2>3, Sizing, PendingIs DEF TypeInv
<1>9. ASSUME lastUse[i] > completed PROVE FALSE
  <2>1. submitted - b <= submitted - completed
    BY <1>1, <1>9 DEF b
  <2>2. QED
    BY <1>1, <1>4, <1>6, <1>7, <1>8, <2>1, Sizing
<1>10. QED
  BY <1>1, <1>9

LEMMA SessionInvStep == TypeInv /\ SessionInv /\ [Next]_vars => SessionInv'
<1> SUFFICES ASSUME TypeInv, SessionInv, [Next]_vars PROVE SessionInv'
  OBVIOUS
<1>1. Pending \in Int /\ QueueCapacity \in Int /\ submitted \in Int /\ completed \in Int
  BY PendingIs, Sizing, BoundsAssumption DEF BoundsAssumption, TypeInv
<1>2. /\ currentSessionIndex = queueTail
      /\ pc # "queue full" => currentSessionIndex = submitted % CounterModulus
      /\ pc # "counter assertion"
      /\ \A i \in 1..Len(entries) : entries[i].lastUsage = (lastUse[i] - 1) % CounterModulus
      /\ ~overrun => Pending < QueueCapacity
      /\ ~overrun /\ pc # "queue full" =>
           /\ submitted - completed <= Pending
           /\ \A i \in 0..(Pending - 1) : SyncPointAt(i) = submitted - Pending + 1 + i
      /\ EvictedIdle
  BY DEF SessionInv
<1>3. CASE OpenAndPruneCache
  <2>1. /\ pc = "closed" /\ pc' \in {"open", "evicted"}
        /\ pc' = "evicted" => \E i \in 1..Len(entries) : Evictable(entries[i])
        /\ UNCHANGED <<entries, queueTail, queue, currentSessionIndex, frame, memoryOffset,
                       submitted, completed, lastUse, overrun>>
    BY <1>3 DEF OpenAndPruneCache
  <2>2. Popped \in 0..Pending /\ Pending' = Pending - Popped
    BY <1>3, PoppedIs, OpenShiftsQueue
  <2>3. ~overrun' => Pending' < QueueCapacity
    <3>1. ~overrun => Pending' < QueueCapacity
      <4>1. Pending < QueueCapacity => Pending' < QueueCapacity
        BY <1>1, <2>2
      <4>2. QED
        BY <1>2, <4>1
    <3>2. QED
      BY <2>1, <3>1
  <2>4. ASSUME ~overrun PROVE submitted - completed <= Pending'
    <3>1. submitted - completed <= Pending
      BY <1>2, <2>1, <2>4
    <3>2. \A i \in 0..(Pending - 1) : SyncPointAt(i) = submitted - Pending + 1 + i
      BY <1>2, <2>1, <2>4
    <3>3. \A i \in 0..(Popped - 1) : SyncPointAt(i) <= completed
      BY PoppedIs DEF Reached
    <3>4. CASE Popped = 0
      <4>1. Pending' = Pending
        BY <1>1, <2>2, <3>4
      <4>2. QED
        BY <3>1, <4>1
    <3>5. CASE Popped # 0
      <4>1. Popped - 1 \in 0..(Popped - 1) /\ Popped - 1 \in 0..(Pending - 1)
        BY <1>1, <2>2, <3>5
      <4>2. submitted - Pending + 1 + (Popped - 1) <= completed
        BY <3>2, <3>3, <4>1
      <4>3. Popped \in Int
        BY <1>1, <2>2
      <4>4. (submitted - Pending + 1 + (Popped - 1) <= completed)
              => submitted - completed <= Pending - Popped
        BY <1>1, <4>3
      <4>5. QED
        BY <2>2, <4>2, <4>4
    <3>6. QED
      BY <3>4, <3>5
  <2>5. ASSUME ~overrun, NEW i \in 0..(Pending' - 1)
        PROVE  SyncPointAt(i)' = submitted - Pending' + 1 + i
    <3>1. i + Popped \in 0..(Pending - 1) /\ Popped \in Int
      BY <1>1, <2>2, <2>5
    <3>2. SyncPointAt(i + Popped) = submitted - Pending + 1 + (i + Popped)
      BY <1>2, <2>1, <2>5, <3>1
    <3>3. submitted - Pending + 1 + (i + Popped) = submitted - Pending' + 1 + i
      BY <1>1, <2>2, <3>1
    <3>4. SyncPointAt(i)' = SyncPointAt(i + Popped)
      BY <1>3, OpenShiftsQueue
    <3>5. QED
      BY <3>2, <3>3, <3>4
  <2>6. ASSUME ~overrun, NEW i \in 1..Len(entries), Evictable(entries[i])
        PROVE  lastUse[i] <= completed
    <3>1. /\ entries[i].lastUsage = (lastUse[i] - 1) % CounterModulus
          /\ currentSessionIndex = submitted % CounterModulus
          /\ Pending < QueueCapacity /\ submitted - completed <= Pending
      BY <1>2, <2>1, <2>6
    <3>2. QED
      BY <2>6, <3>1, EvictableIsIdle
  <2>7. EvictedIdle'
    BY <2>1, <2>6 DEF EvictedIdle, Evictable, Age
  <2>8. currentSessionIndex' = submitted' % CounterModulus
    BY <1>2, <2>1
  <2>9. \A i \in 1..Len(entries') : entries'[i].lastUsage = (lastUse'[i] - 1) % CounterModulus
    BY <1>2, <2>1
  <2>10. ~overrun' => \A i \in 0..(Pending' - 1) : SyncPointAt(i)' = submitted' - Pending' + 1 + i
    BY <2>1, <2>5
  <2>11. ~overrun' => submitted' - completed' <= Pending'
    BY <2>1, <2>4
  <2>12. currentSessionIndex' = queueTail' /\ pc' # "counter assertion"
    BY <1>2, <2>1
  <2>13. QED
    BY <2>3, <2>7, <2>8, <2>9, <2>10, <2>11, <2>12 DEF SessionInv
<1>4. ASSUME NEW name \in Names, NEW size \in Sizes, QueryCached(name, size) \/ QueryNew(name, size)
      PROVE  SessionInv'
  <2>1. PICK e : Takes(e, size)
    BY <1>4, QueryTakes
  <2>2. pc = "open" /\ UNCHANGED <<pc, sessionQueue, currentSessionIndex, submitted, completed, overrun>>
    BY <2>1 DEF Takes, Take
  <2>3. UNCHANGED <<queueHead, queueTail, queue>>
    BY <2>2 DEF sessionQueue
  <2>4. Pending' = Pending /\ \A i : SyncPointAt(i)' = SyncPointAt(i)
    BY <2>3 DEF Pending, SyncPointAt, Slot
  <2>5. ASSUME NEW i \in 1..Len(entries')
        PROVE  entries'[i].lastUsage = (lastUse'[i] - 1) % CounterModulus
    <3>1. CASE i = e
      <4>1. entries'[e].lastUsage = currentSessionIndex /\ lastUse'[e] = submitted + 1
        BY <2>1 DEF Takes
      <4>2. (submitted + 1) - 1 = submitted
        BY <1>1
      <4>3. QED
        BY <1>2, <2>2, <3>1, <4>1, <4>2
    <3>2. CASE i # e
      <4>1. i \in 1..Len(entries) /\ entries'[i] = entries[i] /\ lastUse'[i] = lastUse[i]
        BY <2>1, <2>5, <3>2 DEF Takes
      <4>2. QED
        BY <1>2, <4>1
    <3>3. QED
      BY <3>1, <3>2
  <2>6. EvictedIdle'
    BY <2>2 DEF EvictedIdle
  <2>7. currentSessionIndex' = queueTail' /\ currentSessionIndex' = submitted' % CounterModulus
    BY <1>2, <2>2, <2>3
  <2>8. ~overrun' => Pending' < QueueCapacity
    BY <1>2, <2>2, <2>4
  <2>9. ~overrun' => submitted' - completed' <= Pending'
    BY <1>2, <2>2, <2>4
  <2>10. ~overrun' => \A i \in 0..(Pending' - 1) : SyncPointAt(i)' = submitted' - Pending' + 1 + i
    BY <1>2, <2>2, <2>4
  <2>11. QED
    BY <2>2, <2>5, <2>6, <2>7, <2>8, <2>9, <2>10 DEF SessionInv
<1>5. ASSUME NEW name \in Names, NEW size \in Sizes, QueryFails(name, size) PROVE SessionInv'
  <2>1. /\ pc = "open" /\ pc' = "cache full"
        /\ UNCHANGED <<entries, queueHead, queueTail, queue, currentSessionIndex, submitted,
                       completed, lastUse, overrun>>
    BY <1>5 DEF QueryFails, sessionQueue
  <2>2. Pending' = Pending /\ \A i : SyncPointAt(i)' = SyncPointAt(i)
    BY <2>1 DEF Pending, SyncPointAt, Slot
  <2>3. EvictedIdle'
    BY <2>1 DEF EvictedIdle
  <2>4. QED
    BY <1>2, <2>1, <2>2, <2>3 DEF SessionInv
<1>6. CASE CloseAndSetupSessionRelease
  <2>1. /\ pc = "open" /\ submitted' = submitted + 1
        /\ UNCHANGED <<entries, queueHead, completed, lastUse>>
    BY <1>6 DEF CloseAndSetupSessionRelease
  <2>2. CASE IsFull
    <3>1. /\ pc' = "queue full" /\ UNCHANGED <<queueTail, queue, currentSessionIndex, overrun>>
      BY <1>6, <2>2 DEF CloseAndSetupSessionRelease
    <3>2. Pending' = Pending
      BY <2>1, <3>1 DEF Pending
    <3>3. EvictedIdle'
      BY <3>1 DEF EvictedIdle
    <3>4. QED
      BY <1>2, <2>1, <3>1, <3>2, <3>3 DEF SessionInv
  <2>3. CASE ~IsFull
    <3>1. /\ queueTail' = NextCounter(queueTail)
          /\ currentSessionIndex' = NextCounter(currentSessionIndex)
          /\ overrun' = (overrun \/ Pending >= QueueCapacity - 1)
          /\ pc' = IF currentSessionIndex' = queueTail' THEN "closed" ELSE "counter assertion"
      BY <1>6, <2>3 DEF CloseAndSetupSessionRelease
    <3>2. currentSessionIndex' = queueTail' /\ pc' = "closed"
      BY <1>2, <3>1
    <3>3. currentSessionIndex' = submitted' % CounterModulus
      <4>1. currentSessionIndex' = ((submitted % CounterModulus) + 1) % CounterModulus
        BY <1>2, <2>1, <3>1 DEF NextCounter
      <4>2. QED
        BY <1>1, <2>1, <4>1, Sizing, ModSuccessor
    <3>4. \A i \in 1..Len(entries') : entries'[i].lastUsage = (lastUse'[i] - 1) % CounterModulus
      BY <1>2, <2>1
    <3>5. EvictedIdle'
      BY <3>2 DEF EvictedIdle
    <3>6. ASSUME ~overrun'
          PROVE  /\ Pending' < QueueCapacity
                 /\ submitted' - completed' <= Pending'
                 /\ \A i \in 0..(Pending' - 1) : SyncPointAt(i)' = submitted' - Pending' + 1 + i
      <4>1. ~overrun /\ ~(Pending >= QueueCapacity - 1)
        BY <3>1, <3>6
      <4>2. Pending < QueueCapacity - 1
        <5>1. Pending >= QueueCapacity - 1 \/ Pending < QueueCapacity - 1
          BY <1>1
        <5>2. QED
          BY <4>1, <5>1
      <4>3. Pending' = Pending + 1 /\ Pending \in Nat
        BY <1>6, <2>3, <4>2, CloseAppendsSession, PendingIs, Sizing DEF TypeInv
      <4>4. \A i \in 0..Pending :
              SyncPointAt(i)' = IF i = Pending THEN submitted + 1 ELSE SyncPointAt(i)
        BY <1>6, <2>3, <4>2, CloseAppendsSession
      <4>5. /\ submitted - completed <= Pending
            /\ \A i \in 0..(Pending - 1) : SyncPointAt(i) = submitted - Pending + 1 + i
        BY <1>2, <2>1, <4>1
      <4>6. Pending' < QueueCapacity
        BY <1>1, <4>2, <4>3
      <4>7. submitted' - completed' <= Pending'
        BY <1>1, <2>1, <4>3, <4>5
      <4>8. ASSUME NEW i \in 0..(Pending' - 1)
            PROVE  SyncPointAt(i)' = submitted' - Pending' + 1 + i
        <5>1. i \in 0..Pending /\ (i # Pending => i \in 0..(Pending - 1))
          BY <4>3
        <5>2. submitted' - Pending' + 1 + i = submitted - Pending + 1 + i
          BY <1>1, <2>1, <4>3
        <5>3. CASE i = Pending
          <6>1. SyncPointAt(i)' = submitted + 1
            BY <4>4, <5>1, <5>3
          <6>2. submitted - Pending + 1 + i = submitted + 1
            BY <1>1, <5>3
          <6>3. QED
            BY <5>2, <6>1, <6>2
        <5>4. CASE i # Pending
          <6>1. SyncPointAt(i)' = SyncPointAt(i)
            BY <4>4, <5>1, <5>4
          <6>2. QED
            BY <4>5, <5>1, <5>2, <5>4, <6>1
        <5>5. QED
          BY <5>3, <5>4
      <4>9. QED
        BY <4>6, <4>7, <4>8
    <3>7. QED
      BY <3>2, <3>3, <3>4, <3>5, <3>6 DEF SessionInv
  <2>4. QED
    BY <2>2, <2>3
<1>7. CASE GPUAdvance
  <2>1. /\ pc \notin Stopped /\ completed' = completed + 1
        /\ UNCHANGED <<pc, entries, queueHead, queueTail, queue, currentSessionIndex, submitted,
                       lastUse, overrun>>
    BY <1>7 DEF GPUAdvance, sessionQueue
  <2>2. Pending' = Pending /\ \A i : SyncPointAt(i)' = SyncPointAt(i)
    BY <2>1 DEF Pending, SyncPointAt, Slot
  <2>3. EvictedIdle'
    BY <2>1 DEF EvictedIdle, Stopped
  <2>4. (submitted - completed <= Pending) => (submitted' - completed' <= Pending')
    BY <1>1, <2>1, <2>2
  <2>5. QED
    BY <1>2, <2>1, <2>2, <2>3, <2>4 DEF SessionInv
<1>8. CASE UNCHANGED vars
  BY <1>8 DEF vars, sessionQueue, SessionInv, Pending, SyncPointAt, Slot, EvictedIdle, Evictable, Age
<1>9. QED
  BY <1>3, <1>4, <1>5, <1>6, <1>7, <1>8 DEF Next

LEMMA SessionInvInit == Init => SessionInv
<1> SUFFICES ASSUME Init PROVE SessionInv
  OBVIOUS
<1>1. 0 % CounterModulus = 0
  BY Sizing, ModRange
<1>2. Pending = 0
  BY <1>1 DEF Init, Pending
<1>3. Len(entries) = 0 /\ pc = "closed" /\ submitted = 0 /\ completed = 0
  BY DEF Init
<1>4. EvictedIdle
  BY <1>3 DEF EvictedIdle
<1>5. currentSessionIndex = queueTail /\ currentSessionIndex = submitted % CounterModulus
  BY <1>1 DEF Init
<1>6. Pending < QueueCapacity /\ submitted - completed <= Pending
  BY <1>2, <1>3, Sizing
<1>7. \A i \in 0..(Pending - 1) : SyncPointAt(i) = submitted - Pending + 1 + i
  BY <1>2
<1>8. \A i \in 1..Len(entries) : entries[i].lastUsage = (lastUse[i] - 1) % CounterModulus
  BY <1>3
<1>9. QED
  BY <1>3, <1>4, <1>5, <1>6, <1>7, <1>8 DEF SessionInv

LEMMA SessionInvariant == Spec => [](TypeInv /\ SessionInv)
BY TypeInvInit, TypeInvStep, SessionInvInit, SessionInvStep, PTL DEF Spec

(* As long as the queue is not overrun it holds every session the GPU may  *)
(* still work on, oldest first, for any capacity that divides 2^16: a slot *)
(* is the same whether its counter has wrapped or not.                     *)
THEOREM SessionsAlwaysTracked == Spec => []SessionsTracked
<1>1. TypeInv /\ SessionInv => SessionsTracked
  BY DEF SessionInv, SessionsTracked
<1>2. QED
  BY <1>1, SessionInvariant, PTL

(* The cache never evicts an entry that a frame on the GPU uses, although  *)
(* the age of an entry is computed from 16-bit session numbers that wrap:  *)
(* the age seen is at most the true one, which bounds the frames in flight. *)
THEOREM EvictedAlwaysIdle == Spec => []EvictedIdle
<1>1. SessionInv => EvictedIdle
  BY DEF SessionInv
<1>2. QED
  BY <1>1, SessionInvariant, PTL

=============================================================================
