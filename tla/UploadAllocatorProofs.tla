----------------------- MODULE UploadAllocatorProofs -----------------------
(***************************************************************************)
(* For every size of the pool and of the release queue, every width of the *)
(* counters and every set of requests: what tryAllocate hands out is free  *)
(* (GrantsAreFree), no frame's memory is forgotten (PendingRangeExact) and *)
(* the allocator gives up only for want of memory                          *)
(* (GivesUpOnlyWhenExhausted).                                             *)
(*                                                                         *)
(* The argument is about distances: from the head counter on, around the   *)
(* pool, first come the ranges in the release queue, in queue order, then  *)
(* the range that is not queued yet, up to the tail counter.  Advancing    *)
(* the queue moves the origin (Rebase); everything else keeps its place.   *)
(***************************************************************************)
EXTENDS UploadAllocator, IntegerLemmas, TLAPS

-----------------------------------------------------------------------------
(* Slots of the release queue from `i` on to `j`, and the slots in use.    *)
SlotsTo(i, j) == IF j >= i THEN j - i ELSE j + QueueSize - i
Slots == 0..(QueueSize - 1)
InUse(first, end) == {slot \in Slots : SlotsTo(first, slot) < SlotsTo(first, end)}
Previous(slot) == IF slot = 0 THEN QueueSize - 1 ELSE slot - 1
Following(slot) == IF slot = QueueSize - 1 THEN 0 ELSE slot + 1

(* Units of the pool from counter `h` on to counter `c`.                   *)
UnitsTo(h, c) == IF c >= h THEN c - h ELSE c + PoolSize - h

-----------------------------------------------------------------------------

(* The model's remainders, as cases.                                       *)
LEMMA QueueGeometry ==
  ASSUME TypeOK
  PROVE  /\ Occupied = InUse(queueHead, queueTail)
         /\ \A slot \in Slots : /\ Distance(slot) = SlotsTo(queueHead, slot)
                                /\ NextSlot(slot) = Following(slot)
                                /\ (slot - 1) % QueueSize = Previous(slot)
<1> USE QueueAssumption DEF QueueAssumption
<1>1. queueHead \in Slots /\ queueTail \in Slots
  BY DEF TypeOK, Slots
<1>2. Occupied = InUse(queueHead, queueTail)
  BY <1>1 DEF Occupied, InUse, SlotsTo, Slots
<1>3. ASSUME NEW slot \in Slots PROVE Distance(slot) = SlotsTo(queueHead, slot)
  <2>1. slot - queueHead \in Int /\ -QueueSize <= slot - queueHead /\ slot - queueHead < QueueSize
    BY <1>1 DEF Slots
  <2>2. (slot - queueHead) % QueueSize = IF slot - queueHead >= 0 THEN slot - queueHead
                                         ELSE slot - queueHead + QueueSize
    BY <2>1, ModRange
  <2>3. QED
    BY <1>1, <2>2 DEF Distance, SlotsTo, Slots
<1>4. ASSUME NEW slot \in Slots PROVE NextSlot(slot) = Following(slot)
  <2>1. slot + 1 \in Int /\ 0 <= slot + 1 /\ slot + 1 <= QueueSize
    BY DEF Slots
  <2>2. (slot + 1) % QueueSize = IF slot + 1 = QueueSize THEN 0 ELSE slot + 1
    BY <2>1, ModRange
  <2>3. QED
    BY <2>2 DEF NextSlot, Following, Slots
<1>5. ASSUME NEW slot \in Slots PROVE (slot - 1) % QueueSize = Previous(slot)
  <2>1. slot - 1 \in Int /\ -QueueSize <= slot - 1 /\ slot - 1 < QueueSize
    BY DEF Slots
  <2>2. (slot - 1) % QueueSize = IF slot - 1 >= 0 THEN slot - 1 ELSE slot - 1 + QueueSize
    BY <2>1, ModRange
  <2>3. QED
    BY <2>2 DEF Previous, Slots
<1>6. QED
  BY <1>2, <1>3, <1>4, <1>5

(* What is in use once the entries up to `last` are popped.                *)
LEMMA InUseAfterPop ==
  ASSUME NEW first \in Slots, NEW end \in Slots, NEW last \in InUse(first, end)
  PROVE  /\ Following(last) \in Slots
         /\ InUse(Following(last), end) =
              {slot \in InUse(first, end) : SlotsTo(first, last) < SlotsTo(first, slot)}
         /\ \A slot \in InUse(Following(last), end) :
              SlotsTo(Following(last), slot) = SlotsTo(first, slot) - SlotsTo(first, last) - 1
BY QueueAssumption DEF QueueAssumption, InUse, SlotsTo, Slots, Following

(* What is in use once an entry is pushed.                                 *)
LEMMA InUseAfterPush ==
  ASSUME NEW first \in Slots, NEW end \in Slots, Following(end) # first
  PROVE  /\ Following(end) \in Slots
         /\ end \notin InUse(first, end)
         /\ InUse(first, Following(end)) = InUse(first, end) \cup {end}
BY QueueAssumption DEF QueueAssumption, InUse, SlotsTo, Slots, Following

LEMMA SlotsToInjective ==
  ASSUME NEW first \in Slots, NEW s \in Slots, NEW t \in Slots
  PROVE  /\ SlotsTo(first, s) \in 0..(QueueSize - 1)
         /\ SlotsTo(first, s) = SlotsTo(first, t) => s = t
BY QueueAssumption DEF QueueAssumption, SlotsTo, Slots

LEMMA NoneInUse ==
  ASSUME NEW slot \in Slots
  PROVE  InUse(slot, slot) = {}
BY QueueAssumption DEF QueueAssumption, InUse, SlotsTo, Slots

LEMMA FullLength ==
  ASSUME NEW slot \in Slots
  PROVE  SlotsTo(Following(slot), slot) = QueueSize - 1 /\ Following(slot) # slot
BY QueueAssumption DEF QueueAssumption, Following, SlotsTo, Slots

(* The newest entry is the one before the end.                             *)
LEMMA NewestEntry ==
  ASSUME NEW first \in Slots, NEW end \in Slots, first # end
  PROVE  /\ Previous(end) \in InUse(first, end)
         /\ SlotsTo(first, Previous(end)) = SlotsTo(first, end) - 1
         /\ first \in InUse(first, end) /\ SlotsTo(first, first) = 0
BY QueueAssumption DEF QueueAssumption, InUse, SlotsTo, Slots, Previous

(* Distances from a later counter are shorter by what is skipped.          *)
LEMMA Rebase ==
  ASSUME NEW h \in 0..PoolSize, NEW c \in 0..PoolSize, NEW x \in 0..PoolSize,
         UnitsTo(h, c) <= UnitsTo(h, x), c # 0 \/ x # PoolSize
  PROVE  UnitsTo(c, x) = UnitsTo(h, x) - UnitsTo(h, c)
BY PoolAssumption DEF PoolAssumption, UnitsTo

-----------------------------------------------------------------------------
(* What tryAdvanceReleaseQueue pops: nothing, or the entries up to `last`, *)
(* all reached by the GPU; the entry it stops at is not reached.           *)
Popped(last) ==
  /\ last \in Occupied
  /\ \A s \in Occupied : SlotsTo(queueHead, s) <= SlotsTo(queueHead, last) => Reached(s)

LEMMA LastPoppedExists ==
  ASSUME TypeOK, Poppable # {}
  PROVE  \E slot \in Poppable : \A s \in Poppable : Distance(s) <= Distance(slot)
<1> DEFINE S == {Distance(s) : s \in Poppable}
<1>1. Poppable \subseteq Slots /\ queueHead \in Slots
  BY QueueGeometry DEF Poppable, InUse, TypeOK, Slots
<1>2. \A s \in Poppable : Distance(s) \in Nat /\ Distance(s) <= QueueSize
  BY <1>1, QueueGeometry, QueueAssumption DEF QueueAssumption, SlotsTo, Slots
<1>3. S \in SUBSET Nat /\ S # {} /\ QueueSize \in Nat /\ \A n \in S : n <= QueueSize
  BY <1>2, QueueAssumption DEF QueueAssumption
<1>4. PICK m \in S : \A n \in S : n <= m
  <2> HIDE DEF S
  <2>1. QED
    BY <1>3, LargestExists
<1>5. QED
  BY <1>4

LEMMA AdvancePops ==
  ASSUME TypeOK, AdvanceReleaseQueue
  PROVE  \E newHead :
           /\ \/ Poppable = {} /\ queueHead' = queueHead /\ newHead = head
              \/ Poppable # {} /\ \E last : /\ Popped(last)
                                           /\ queueHead' = Following(last)
                                           /\ newHead = queue[last].counter
           /\ head' = IF newHead = tail THEN 0 ELSE newHead
           /\ tail' = IF newHead = tail THEN 0 ELSE tail
           /\ queueHead' # queueTail => ~Reached(queueHead')
<1>1. queueHead \in Slots /\ queueTail \in Slots /\ Occupied = InUse(queueHead, queueTail)
  BY QueueGeometry DEF TypeOK, Slots
<1>2. \A s \in Occupied : s \in Slots /\ Distance(s) = SlotsTo(queueHead, s)
  BY <1>1, QueueGeometry DEF InUse
<1>3. CASE Poppable = {}
  <2>1. queueHead # queueTail => ~Reached(queueHead)
    <3>1. SUFFICES ASSUME queueHead # queueTail, Reached(queueHead) PROVE queueHead \in Poppable
      BY <1>3
    <3>2. queueHead \in Occupied /\ Distance(queueHead) = 0
      BY <1>1, <1>2, <3>1, NewestEntry
    <3>3. \A s \in Occupied : Distance(s) <= 0 => s = queueHead
      BY <1>1, <1>2, QueueAssumption DEF QueueAssumption, SlotsTo, Slots
    <3>4. QED
      BY <3>1, <3>2, <3>3 DEF Poppable
  <2>2. QED
    BY <1>3, <2>1 DEF AdvanceReleaseQueue
<1>4. CASE Poppable # {}
  <2> DEFINE last == CHOOSE slot \in Poppable : \A s \in Poppable : Distance(s) <= Distance(slot)
  <2>1. last \in Poppable /\ \A s \in Poppable : Distance(s) <= Distance(last)
    BY <1>4, LastPoppedExists
  <2>2. /\ queueHead' = NextSlot(last)
        /\ head' = IF queue[last].counter = tail THEN 0 ELSE queue[last].counter
        /\ tail' = IF queue[last].counter = tail THEN 0 ELSE tail
    BY <1>4 DEF AdvanceReleaseQueue
  <2> HIDE DEF last
  <2>3. Popped(last) /\ last \in Slots
    BY <1>2, <2>1 DEF Popped, Poppable
  <2>4. queueHead' = Following(last)
    BY <2>2, <2>3, QueueGeometry
  <2>5. queueHead' # queueTail => ~Reached(queueHead')
    <3>1. SUFFICES ASSUME Following(last) # queueTail, Reached(Following(last)) PROVE FALSE
      BY <2>4
    <3>2. last \in InUse(queueHead, queueTail) /\ Following(last) \in Slots
      BY <1>1, <2>3, InUseAfterPop DEF Popped
    <3>3. Following(last) \in Occupied /\ Distance(Following(last)) = Distance(last) + 1
      <4>1. /\ Following(last) \in InUse(queueHead, queueTail)
            /\ SlotsTo(queueHead, Following(last)) = SlotsTo(queueHead, last) + 1
        BY <1>1, <2>3, <3>1, <3>2, QueueAssumption
           DEF QueueAssumption, InUse, SlotsTo, Slots, Following
      <4>2. QED
        BY <1>1, <1>2, <2>3, <3>2, <4>1, QueueGeometry
    <3>4. ASSUME NEW s \in Occupied, Distance(s) <= Distance(Following(last)) PROVE Reached(s)
      <4>1. SlotsTo(queueHead, s) <= SlotsTo(queueHead, last) \/ s = Following(last)
        <5>1. SlotsTo(queueHead, s) <= SlotsTo(queueHead, last) + 1
          BY <1>2, <2>3, <3>3, <3>4 DEF Popped
        <5>2. SlotsTo(queueHead, Following(last)) = SlotsTo(queueHead, last) + 1
          BY <1>2, <2>3, <3>3 DEF Popped
        <5>3. s \in Slots
          BY <1>2
        <5>4. SlotsTo(queueHead, s) \in Int /\ SlotsTo(queueHead, last) \in Int
          BY <1>1, <2>3, <5>3, SlotsToInjective
        <5>5. QED
          BY <1>1, <3>2, <5>1, <5>2, <5>3, <5>4, SlotsToInjective
      <4>2. QED
        BY <2>3, <3>1, <4>1 DEF Popped
    <3>5. Following(last) \in Poppable
      BY <3>3, <3>4 DEF Poppable
    <3>6. Distance(last) \in Int
      BY <1>1, <2>3, QueueGeometry, QueueAssumption DEF QueueAssumption, SlotsTo, Slots
    <3>7. QED
      BY <2>1, <3>3, <3>5, <3>6
  <2>6. QED
    BY <1>4, <2>2, <2>3, <2>4, <2>5
<1>5. QED
  BY <1>3, <1>4

-----------------------------------------------------------------------------
(* The inductive invariant, stated for any values of the counters and the  *)
(* queue, so that it can be stated of the middle of a step too.            *)
Queues == [Slots -> [syncPoint : 0..MaxSubmissions, counter : Counters]]
Owner(span) == IF span.frame = NotSubmitted THEN submitted + 1 ELSE span.frame

CountersAt(h, t) == /\ h = t => h = 0
                    /\ t = 0 => h = 0 \/ PoolSize = CounterModulus

(* Entries end in the allocated range, each further on than the one before *)
(* it and with a later sync point.                                         *)
EntryAt(h, t, entry) ==
  /\ 0 < UnitsTo(h, entry.counter) /\ UnitsTo(h, entry.counter) <= UnitsTo(h, t)
  /\ entry.counter = 0 => PoolSize = CounterModulus
  /\ entry.counter < CounterModulus

EntriesAt(h, t, first, end, q) ==
  /\ \A slot \in InUse(first, end) : EntryAt(h, t, q[slot])
  /\ \A r, s \in InUse(first, end) : SlotsTo(first, r) < SlotsTo(first, s) =>
       /\ UnitsTo(h, q[r].counter) < UnitsTo(h, q[s].counter)
       /\ q[s].syncPoint - q[r].syncPoint >= SlotsTo(first, s) - SlotsTo(first, r)

(* A span lies in units of the allocated range, behind the entries of      *)
(* earlier frames.                                                         *)
Lies(span, unit, length, h, t, first, end, q) ==
  /\ span.from = unit * AllocationAlignment /\ span.to <= (unit + length) * AllocationAlignment
  /\ 0 < length /\ unit + length <= PoolSize
  /\ UnitsTo(h, unit) + length <= UnitsTo(h, t)
  /\ \A slot \in InUse(first, end) :
       q[slot].syncPoint < Owner(span) => UnitsTo(h, q[slot].counter) <= UnitsTo(h, unit)

PlacesAt(h, t, first, end, q) ==
  \A span \in spans : \E unit, length \in 0..PoolSize :
    Lies(span, unit, length, h, t, first, end, q)

PendingAt(h, t, first, end, q) ==
  IF first = end THEN h # t ELSE q[Previous(end)].counter # t

-----------------------------------------------------------------------------
(* Popping the entries up to `last` keeps the rest of the queue in order.  *)
LEMMA PopEntries ==
  ASSUME NEW h \in Counters, NEW t \in Counters, NEW first \in Slots, NEW end \in Slots,
         NEW q \in Queues, NEW last \in InUse(first, end), q[last].counter # t,
         CountersAt(h, t), EntriesAt(h, t, first, end, q)
  PROVE  /\ CountersAt(q[last].counter, t)
         /\ EntriesAt(q[last].counter, t, Following(last), end, q)
<1> USE PoolAssumption, QueueAssumption DEF PoolAssumption, QueueAssumption
<1> DEFINE c == q[last].counter
<1>1. /\ last \in Slots /\ c \in 0..PoolSize
      /\ \A slot \in Slots : q[slot].counter \in 0..PoolSize /\ q[slot].syncPoint \in Int
  BY DEF InUse, Queues, Counters
<1>2. /\ 0 < UnitsTo(h, c) /\ UnitsTo(h, c) <= UnitsTo(h, t)
      /\ c = 0 => PoolSize = CounterModulus
      /\ c < CounterModulus
  BY DEF EntriesAt, EntryAt
<1> DEFINE rest == InUse(Following(last), end)
<1>3. /\ Following(last) \in Slots
      /\ rest = {slot \in InUse(first, end) : SlotsTo(first, last) < SlotsTo(first, slot)}
      /\ \A slot \in rest :
           SlotsTo(Following(last), slot) = SlotsTo(first, slot) - SlotsTo(first, last) - 1
  BY InUseAfterPop
<1>4. \A slot \in InUse(first, end) : slot \in Slots /\ SlotsTo(first, slot) \in Int
  BY DEF InUse, SlotsTo, Slots
<1> HIDE DEF c, rest
<1>5. h \in 0..PoolSize /\ t \in 0..PoolSize
      /\ (PoolSize = CounterModulus => h # PoolSize /\ t # PoolSize)
  BY DEF Counters
<1>6. UnitsTo(c, t) = UnitsTo(h, t) - UnitsTo(h, c)
  BY <1>1, <1>2, <1>5, Rebase
<1>7. CountersAt(c, t)
  BY <1>1, <1>2, <1>5 DEF CountersAt, UnitsTo, c
<1>8. ASSUME NEW slot \in rest
      PROVE  /\ UnitsTo(h, c) < UnitsTo(h, q[slot].counter)
             /\ UnitsTo(c, q[slot].counter) = UnitsTo(h, q[slot].counter) - UnitsTo(h, c)
  <2>1. UnitsTo(h, c) < UnitsTo(h, q[slot].counter)
    BY <1>3 DEF EntriesAt, c
  <2>2. q[slot].counter \in 0..PoolSize /\ (PoolSize = CounterModulus => q[slot].counter # PoolSize)
    BY <1>1, <1>3, <1>4 DEF EntriesAt, EntryAt
  <2>3. UnitsTo(h, c) <= UnitsTo(h, q[slot].counter)
    BY <1>1, <1>5, <2>1, <2>2 DEF UnitsTo
  <2>4. QED
    BY <1>1, <1>2, <1>5, <2>1, <2>2, <2>3, Rebase
<1>9. \A x \in 0..PoolSize : UnitsTo(h, x) \in Int
  BY <1>5 DEF UnitsTo
<1>10. ASSUME NEW slot \in rest PROVE EntryAt(c, t, q[slot])
  <2>1. EntryAt(h, t, q[slot])
    BY <1>3 DEF EntriesAt
  <2>2. UnitsTo(h, c) \in Int /\ UnitsTo(h, t) \in Int /\ UnitsTo(h, q[slot].counter) \in Int
    BY <1>1, <1>3, <1>4, <1>5, <1>9
  <2>3. QED
    BY <1>6, <1>8, <2>1, <2>2 DEF EntryAt
<1>11. ASSUME NEW r \in rest, NEW s \in rest,
              SlotsTo(Following(last), r) < SlotsTo(Following(last), s)
       PROVE  /\ UnitsTo(c, q[r].counter) < UnitsTo(c, q[s].counter)
              /\ q[s].syncPoint - q[r].syncPoint
                   >= SlotsTo(Following(last), s) - SlotsTo(Following(last), r)
  <2>1. /\ SlotsTo(first, r) \in Int /\ SlotsTo(first, s) \in Int /\ SlotsTo(first, last) \in Int
        /\ UnitsTo(h, c) \in Int /\ UnitsTo(h, q[r].counter) \in Int
        /\ UnitsTo(h, q[s].counter) \in Int
    BY <1>1, <1>3, <1>4, <1>9
  <2>2. SlotsTo(first, r) < SlotsTo(first, s)
    BY <1>3, <1>11, <2>1
  <2>3. /\ UnitsTo(h, q[r].counter) < UnitsTo(h, q[s].counter)
        /\ q[s].syncPoint - q[r].syncPoint >= SlotsTo(first, s) - SlotsTo(first, r)
    BY <1>3, <2>2 DEF EntriesAt
  <2>4. QED
    BY <1>3, <1>8, <2>1, <2>3
<1>12. QED
  BY <1>7, <1>10, <1>11 DEF EntriesAt, c, rest

(* The entry whose range ends at the tail is the newest.                   *)
LEMMA PopAll ==
  ASSUME NEW h \in Counters, NEW t \in Counters, NEW first \in Slots, NEW end \in Slots,
         NEW q \in Queues, NEW last \in InUse(first, end), EntriesAt(h, t, first, end, q)
  PROVE  q[last].counter = t <=> Following(last) = end /\ ~PendingAt(h, t, first, end, q)
<1> USE QueueAssumption DEF QueueAssumption
<1>1. first # end /\ last \in Slots
  BY DEF InUse, SlotsTo, Slots
<1>2. ASSUME q[last].counter = t PROVE Following(last) = end
  <2>1. SUFFICES ASSUME Following(last) # end PROVE FALSE
    OBVIOUS
  <2> DEFINE next == Following(last)
  <2>2. next \in InUse(first, end) /\ SlotsTo(first, last) < SlotsTo(first, next)
    BY <2>1 DEF InUse, SlotsTo, Slots, Following
  <2>3. UnitsTo(h, t) < UnitsTo(h, q[next].counter) /\ UnitsTo(h, q[next].counter) <= UnitsTo(h, t)
    BY <1>2, <2>2 DEF EntriesAt, EntryAt
  <2>4. q[next].counter \in 0..PoolSize /\ h \in 0..PoolSize /\ t \in 0..PoolSize
    BY <2>2 DEF Queues, InUse, Counters
  <2> HIDE DEF next
  <2>5. QED
    BY <2>3, <2>4, PoolAssumption DEF PoolAssumption, UnitsTo
<1>3. Following(last) = end => last = Previous(end)
  BY <1>1 DEF Following, Previous, Slots
<1>4. QED
  BY <1>1, <1>2, <1>3 DEF PendingAt

(* A span of a frame that is not popped stays where it is.                 *)
LEMMA PopPlace ==
  ASSUME NEW h \in Counters, NEW t \in Counters, NEW first \in Slots, NEW end \in Slots,
         NEW q \in Queues, NEW last \in InUse(first, end), EntriesAt(h, t, first, end, q),
         NEW span, NEW unit \in 0..PoolSize, NEW length \in 0..PoolSize,
         Lies(span, unit, length, h, t, first, end, q), q[last].syncPoint < Owner(span)
  PROVE  /\ q[last].counter # t
         /\ Lies(span, unit, length, q[last].counter, t, Following(last), end, q)
<1> USE PoolAssumption DEF PoolAssumption
<1> DEFINE c == q[last].counter
<1>1. /\ last \in Slots /\ c \in 0..PoolSize
      /\ \A slot \in Slots : q[slot].counter \in 0..PoolSize
  BY DEF InUse, Queues, Counters
<1>2. /\ UnitsTo(h, c) <= UnitsTo(h, unit)
      /\ UnitsTo(h, unit) + length <= UnitsTo(h, t)
      /\ 0 < length /\ unit + length <= PoolSize
  BY DEF Lies
<1>3. UnitsTo(h, c) <= UnitsTo(h, t) /\ (c = 0 => PoolSize = CounterModulus)
  BY DEF EntriesAt, EntryAt
<1> HIDE DEF c
<1>4. h \in 0..PoolSize /\ t \in 0..PoolSize /\ (PoolSize = CounterModulus => t # PoolSize)
  BY DEF Counters
<1>5. c # t
  BY <1>1, <1>2, <1>4 DEF UnitsTo
<1>6. UnitsTo(c, unit) = UnitsTo(h, unit) - UnitsTo(h, c)
  BY <1>1, <1>2, <1>4, Rebase
<1>7. UnitsTo(c, t) = UnitsTo(h, t) - UnitsTo(h, c)
  BY <1>1, <1>3, <1>4, Rebase
<1>8. UnitsTo(h, c) \in Int /\ UnitsTo(h, unit) \in Int /\ UnitsTo(h, t) \in Int
  BY <1>1, <1>4 DEF UnitsTo
<1>9. UnitsTo(c, unit) + length <= UnitsTo(c, t)
  BY <1>2, <1>6, <1>7, <1>8
<1>10. ASSUME NEW slot \in InUse(Following(last), end), q[slot].syncPoint < Owner(span)
       PROVE  UnitsTo(c, q[slot].counter) <= UnitsTo(c, unit)
  <2>1. slot \in InUse(first, end) /\ SlotsTo(first, last) < SlotsTo(first, slot) /\ slot \in Slots
    BY InUseAfterPop DEF InUse
  <2>2. /\ UnitsTo(h, c) < UnitsTo(h, q[slot].counter)
        /\ UnitsTo(h, q[slot].counter) <= UnitsTo(h, unit)
        /\ q[slot].counter < CounterModulus
    BY <1>10, <2>1 DEF EntriesAt, EntryAt, Lies, c
  <2>3. q[slot].counter \in 0..PoolSize
    BY <1>1, <2>1
  <2>4. UnitsTo(h, q[slot].counter) \in Int
    BY <1>4, <2>3 DEF UnitsTo
  <2>5. UnitsTo(c, q[slot].counter) = UnitsTo(h, q[slot].counter) - UnitsTo(h, c)
    BY <1>1, <1>3, <1>4, <1>8, <2>2, <2>3, <2>4, Rebase
  <2>6. QED
    BY <1>6, <1>8, <2>2, <2>4, <2>5
<1>11. QED
  BY <1>5, <1>9, <1>10 DEF Lies, c

-----------------------------------------------------------------------------
RingAt(h, t, first, end, q) ==
  CountersAt(h, t) /\ EntriesAt(h, t, first, end, q) /\ PlacesAt(h, t, first, end, q)

TypeOf(h, t, first, end, q) ==
  h \in Counters /\ t \in Counters /\ first \in Slots /\ end \in Slots /\ q \in Queues

LEMMA TypeOfRing == TypeOK => TypeOf(head, tail, queueHead, queueTail, queue)
BY DEF TypeOK, TypeOf, Queues, Slots

(* tryAdvanceReleaseQueue keeps the types.                                 *)
LEMMA AdvanceTypes ==
  ASSUME TypeOK, AdvanceReleaseQueue
  PROVE  TypeOf(head', tail', queueHead', queueTail, queue)
<1>1. TypeOf(head, tail, queueHead, queueTail, queue) /\ 0 \in Counters
  BY TypeOfRing, PoolAssumption DEF PoolAssumption, Counters
<1>2. \A last : Popped(last) => queue[last].counter \in Counters /\ Following(last) \in Slots
  <2> SUFFICES ASSUME NEW last, Popped(last)
               PROVE  queue[last].counter \in Counters /\ Following(last) \in Slots
    OBVIOUS
  <2>1. last \in InUse(queueHead, queueTail)
    BY QueueGeometry DEF Popped
  <2>2. last \in Slots
    BY <2>1 DEF InUse
  <2>3. queue[last].counter \in Counters
    BY <1>1, <2>2 DEF TypeOf, Queues
  <2>4. QED
    BY <1>1, <2>1, <2>3, InUseAfterPop DEF TypeOf
<1>3. QED
  BY <1>1, <1>2, AdvancePops DEF TypeOf

(* It keeps the ring in order, and what is pending is pending still.       *)
LEMMA AdvanceKeepsRing ==
  ASSUME TypeOK, RingAt(head, tail, queueHead, queueTail, queue), AdvanceReleaseQueue,
         \A span \in spans : completed < Owner(span)
  PROVE  /\ RingAt(head', tail', queueHead', queueTail, queue)
         /\ InUse(queueHead', queueTail) \subseteq InUse(queueHead, queueTail)
         /\ PendingAt(head', tail', queueHead', queueTail, queue)
              <=> PendingAt(head, tail, queueHead, queueTail, queue)
<1>1. /\ head \in Counters /\ tail \in Counters /\ queueHead \in Slots
      /\ queueTail \in Slots /\ queue \in Queues
  BY TypeOfRing DEF TypeOf
<1>2. PICK newHead :
        /\ \/ Poppable = {} /\ queueHead' = queueHead /\ newHead = head
           \/ Poppable # {} /\ \E last : /\ Popped(last)
                                        /\ queueHead' = Following(last)
                                        /\ newHead = queue[last].counter
        /\ head' = IF newHead = tail THEN 0 ELSE newHead
        /\ tail' = IF newHead = tail THEN 0 ELSE tail
  BY AdvancePops
<1>3. CASE queueHead' = queueHead /\ newHead = head
  <2>1. head' = head /\ tail' = tail
    BY <1>2, <1>3 DEF RingAt, CountersAt
  <2>2. QED
    BY <1>3, <2>1
<1>4. ASSUME NEW last, Popped(last), queueHead' = Following(last), newHead = queue[last].counter
      PROVE  /\ RingAt(head', tail', queueHead', queueTail, queue)
             /\ InUse(queueHead', queueTail) \subseteq InUse(queueHead, queueTail)
             /\ PendingAt(head', tail', queueHead', queueTail, queue)
                  <=> PendingAt(head, tail, queueHead, queueTail, queue)
  <2>1. last \in InUse(queueHead, queueTail) /\ queue[last].syncPoint <= completed
    BY <1>1, <1>4, QueueGeometry, SlotsToInjective DEF Popped, Reached, InUse
  <2>2. InUse(queueHead', queueTail) \subseteq InUse(queueHead, queueTail)
    BY <1>1, <1>4, <2>1, InUseAfterPop
  <2>3. ASSUME NEW span \in spans, NEW unit \in 0..PoolSize, NEW length \in 0..PoolSize,
               Lies(span, unit, length, head, tail, queueHead, queueTail, queue)
        PROVE  /\ newHead # tail
               /\ Lies(span, unit, length, newHead, tail, queueHead', queueTail, queue)
    <3>1. queue[last].syncPoint < Owner(span)
      <4>1. queue[last].syncPoint \in Int /\ completed \in Int /\ Owner(span) \in Int
        <5>1. submitted \in Int /\ completed \in Int /\ span.frame \in Int
          BY MaxSubmissionsAssumption DEF MaxSubmissionsAssumption, TypeOK, Span
        <5>2. last \in Slots
          BY <2>1 DEF InUse
        <5>3. queue[last].syncPoint \in Int
          BY <1>1, <5>2, MaxSubmissionsAssumption DEF MaxSubmissionsAssumption, Queues
        <5>4. QED
          BY <5>1, <5>3 DEF Owner
      <4>2. completed < Owner(span)
        OBVIOUS
      <4>3. QED
        BY <2>1, <4>1, <4>2
    <3>2. EntriesAt(head, tail, queueHead, queueTail, queue)
      BY DEF RingAt
    <3>3. /\ queue[last].counter # tail
          /\ Lies(span, unit, length, queue[last].counter, tail, Following(last), queueTail, queue)
      BY <1>1, <2>1, <2>3, <3>1, <3>2, PopPlace
    <3>4. QED
      BY <1>4, <3>3
  <2>4. newHead = tail <=> /\ queueHead' = queueTail
                           /\ ~PendingAt(head, tail, queueHead, queueTail, queue)
    <3>1. EntriesAt(head, tail, queueHead, queueTail, queue)
      BY DEF RingAt
    <3>2. queue[last].counter = tail <=> /\ Following(last) = queueTail
                                         /\ ~PendingAt(head, tail, queueHead, queueTail, queue)
      BY <1>1, <2>1, <3>1, PopAll
    <3>3. QED
      BY <1>4, <3>2
  <2>5. CASE newHead = tail
    <3>1. /\ head' = 0 /\ tail' = 0 /\ queueHead' = queueTail
          /\ ~PendingAt(head, tail, queueHead, queueTail, queue)
      BY <1>2, <2>5, <2>4
    <3>2. InUse(queueHead', queueTail) = {}
      BY <1>1, <3>1, NoneInUse
    <3>3. spans = {}
      BY <2>3, <2>5 DEF RingAt, PlacesAt
    <3>4. QED
      BY <2>2, <3>1, <3>2, <3>3 DEF RingAt, CountersAt, EntriesAt, PlacesAt, PendingAt
  <2>6. CASE newHead # tail
    <3>1. head' = newHead /\ tail' = tail
      BY <1>2, <2>6
    <3>2. CountersAt(newHead, tail) /\ EntriesAt(newHead, tail, queueHead', queueTail, queue)
      BY <1>1, <1>4, <2>1, <2>6, PopEntries DEF RingAt
    <3>3. PlacesAt(newHead, tail, queueHead', queueTail, queue)
      BY <2>3 DEF RingAt, PlacesAt
    <3>4. PendingAt(newHead, tail, queueHead', queueTail, queue)
            <=> PendingAt(head, tail, queueHead, queueTail, queue)
      <4>1. CASE queueHead' = queueTail
        BY <2>6, <2>4, <4>1 DEF PendingAt
      <4>2. CASE queueHead' # queueTail
        <5>1. queueHead # queueTail
          BY <1>1, <2>1, NoneInUse
        <5>2. QED
          BY <4>2, <5>1 DEF PendingAt
      <4>3. QED
        BY <4>1, <4>2
    <3>5. QED
      BY <2>2, <3>1, <3>2, <3>3, <3>4 DEF RingAt
  <2>7. QED
    BY <2>5, <2>6
<1>5. QED
  BY <1>2, <1>3, <1>4

-----------------------------------------------------------------------------
(* A request that is not zero takes a unit.                                *)
LEMMA UnitsOfRequest ==
  ASSUME NEW bytes \in Nat
  PROVE  /\ Units(bytes) \in 0..(CounterModulus - 1)
         /\ bytes = 0 => Units(bytes) = 0
<1> USE PoolAssumption, RequestsAssumption DEF PoolAssumption, RequestsAssumption
<1>1. CounterModulus \in Nat \ {0}
  OBVIOUS
<1>2. bytes + AllocationAlignment - 1 \in Nat
  OBVIOUS
<1>3. (bytes + AllocationAlignment - 1) \div AllocationAlignment \in Nat
  BY <1>2, DivBelow
<1>4. Units(bytes) \in 0..(CounterModulus - 1)
  BY <1>1, <1>3, ModBounds DEF Units
<1>5. ASSUME bytes = 0 PROVE Units(bytes) = 0
  <2>1. (bytes + AllocationAlignment - 1) \div AllocationAlignment = 0
    BY <1>2, <1>5, DivBelow
  <2>2. 0 % CounterModulus = 0
    BY <1>1, ModRange
  <2>3. QED
    BY <2>1, <2>2 DEF Units
<1>6. QED
  BY <1>4, <1>5

(* Where tryAllocate puts what fits, and the tail it leaves.               *)
LEMMA GrantExtends ==
  ASSUME TypeOK, CountersAt(head, tail), NEW size \in 0..(CounterModulus - 1), Fits(size),
         NEW end, end = (PlaceOf(size) + size) % CounterModulus, size > 0 => end # head
  PROVE  /\ PlaceOf(size) \in 0..PoolSize /\ PlaceOf(size) + size <= PoolSize
         /\ end \in Counters /\ CountersAt(head, end)
         /\ size = 0 => end = tail
         /\ UnitsTo(head, tail) <= UnitsTo(head, end)
         /\ size > 0 => /\ UnitsTo(head, tail) <= UnitsTo(head, PlaceOf(size))
                        /\ UnitsTo(head, PlaceOf(size)) + size <= UnitsTo(head, end)
<1> USE PoolAssumption DEF PoolAssumption
<1>1. head \in Counters /\ tail \in Counters
  BY DEF TypeOK
<1>2. PlaceOf(size) \in 0..PoolSize /\ PlaceOf(size) + size <= PoolSize
  BY <1>1 DEF Counters, Fits, FitsBetween, FitsBack, FitsFront, PlaceOf
<1>3. end = IF PlaceOf(size) + size = CounterModulus THEN 0 ELSE PlaceOf(size) + size
  <2>1. CounterModulus \in Nat \ {0} /\ PlaceOf(size) + size \in 0..CounterModulus
    BY <1>2
  <2>2. QED
    BY <2>1, ModRange
<1>4. end \in Counters
  BY <1>2, <1>3 DEF Counters
<1>5. CASE size = 0
  <2>1. PlaceOf(size) = tail
    BY <1>1, <1>5 DEF PlaceOf, FitsFront, Counters
  <2>2. end = tail
    BY <1>1, <1>3, <1>5, <2>1 DEF Counters
  <2>3. UnitsTo(head, tail) <= UnitsTo(head, end)
    BY <1>1, <2>2 DEF UnitsTo, Counters
  <2>4. QED
    BY <1>2, <1>4, <1>5, <2>2, <2>3
<1>6. CASE size > 0
  <2>1. CountersAt(head, end)
    BY <1>1, <1>2, <1>3, <1>6 DEF Counters, CountersAt
  <2>2. CASE FitsFront(size)
    BY <1>1, <1>2, <1>3, <1>4, <1>6, <2>1, <2>2 DEF Counters, FitsFront, PlaceOf, UnitsTo
  <2>3. CASE ~FitsFront(size) /\ FitsBack(size)
    BY <1>1, <1>2, <1>3, <1>4, <1>6, <2>1, <2>3 DEF Counters, FitsBack, PlaceOf, UnitsTo
  <2>4. CASE ~FitsFront(size) /\ FitsBetween(size)
    BY <1>1, <1>2, <1>3, <1>4, <1>6, <2>1, <2>4 DEF Counters, FitsBetween, PlaceOf, UnitsTo
  <2>5. QED
    BY <2>2, <2>3, <2>4 DEF Fits
<1>7. QED
  BY <1>5, <1>6

-----------------------------------------------------------------------------
(* Every reachable state has the variables' types: the counters stay in    *)
(* the pool and below 2^16 although 16-bit sums wrap.                      *)
THEOREM TypeCorrect == Spec => []TypeOK
<1> USE PoolAssumption, QueueAssumption, RequestsAssumption, MaxSubmissionsAssumption
    DEF PoolAssumption, QueueAssumption, RequestsAssumption, MaxSubmissionsAssumption
<1>1. Init => TypeOK
  <2> SUFFICES ASSUME Init PROVE TypeOK
    OBVIOUS
  <2>1. 0 \in Counters /\ 0 \in 0..MaxSubmissions /\ 0 \in 0..(QueueSize - 1)
    BY DEF Counters
  <2>2. queue \in [0..(QueueSize - 1) -> [syncPoint : 0..MaxSubmissions, counter : Counters]]
    BY <2>1 DEF Init
  <2>3. /\ {head, tail} \subseteq Counters /\ {queueHead, queueTail} \subseteq 0..(QueueSize - 1)
        /\ submitted \in 0..MaxSubmissions /\ completed \in 0..submitted
    BY <2>1 DEF Init
  <2>4. pc = "frame" /\ request \in Requests \cup {0} /\ spans \subseteq Span /\ oversold \in BOOLEAN
    BY DEF Init
  <2>5. QED
    BY <2>2, <2>3, <2>4 DEF TypeOK
<1>2. TypeOK /\ [Next]_vars => TypeOK'
  <2> SUFFICES ASSUME TypeOK, [Next]_vars PROVE TypeOK'
    OBVIOUS
  <2> USE DEF counters, frames
  <2>1. ASSUME NEW bytes \in Requests, Allocate(bytes) PROVE TypeOK'
    BY <2>1 DEF Allocate, TypeOK
  <2>2. CASE TryAllocate
    <3> DEFINE size == Units(request)
    <3>1. request \in Nat /\ size \in 0..(CounterModulus - 1)
      <4>1. request \in Nat
        BY DEF TypeOK
      <4>2. QED
        BY <4>1, UnitsOfRequest
    <3>2. PlaceOf(size) \in Nat /\ PlaceOf(size) + size <= PoolSize
      <4>1. Fits(size) /\ head \in 0..PoolSize /\ tail \in 0..PoolSize
        BY <2>2 DEF TryAllocate, TypeOK, Counters
      <4> HIDE DEF size
      <4>2. QED
        BY <3>1, <4>1 DEF Fits, FitsBetween, FitsBack, FitsFront, PlaceOf
    <3>3. tail' \in Counters
      <4>1. tail' = (PlaceOf(size) + size) % CounterModulus
        BY <2>2 DEF TryAllocate
      <4>2. tail' = IF PlaceOf(size) + size = CounterModulus THEN 0 ELSE PlaceOf(size) + size
        BY <3>1, <3>2, <4>1, ModRange
      <4>3. QED
        BY <3>1, <3>2, <4>2 DEF Counters
    <3>4. spans' \subseteq Span
      <4>1. PlaceOf(size) * AllocationAlignment \in Nat
        BY <3>2, TimesMonotone
      <4>2. QED
        BY <2>2, <3>1, <4>1 DEF TryAllocate, TypeOK, Span, NotSubmitted
    <3>5. oversold' \in BOOLEAN
      BY <2>2 DEF TryAllocate, TypeOK
    <3>6. QED
      BY <2>2, <3>3, <3>4, <3>5 DEF TryAllocate, TypeOK
  <2>3. CASE RangeAssertionFails
    BY <2>3 DEF RangeAssertionFails, TypeOK, Stopped
  <2>4. CASE Overflow
    BY <2>4 DEF Overflow, TypeOK, Stopped
  <2>5. ASSUME AdvanceReleaseQueue PROVE {head', tail'} \subseteq Counters /\ queueHead' \in Slots
    BY <2>5, AdvanceTypes DEF TypeOf
  <2>6. CASE WaitForGPU
    BY <2>5, <2>6 DEF WaitForGPU, TypeOK, Slots
  <2>7. CASE SubmitFrame
    <3>1. spans' \subseteq Span
      <4>1. submitted + 1 \in 0..MaxSubmissions
        BY <2>7 DEF SubmitFrame, TypeOK
      <4>2. ASSUME NEW s \in spans
            PROVE  [s EXCEPT !.frame = IF @ = NotSubmitted THEN submitted + 1 ELSE @] \in Span
        BY <4>1 DEF TypeOK, Span
      <4>3. QED
        BY <2>7, <4>2 DEF SubmitFrame
    <3>2. QED
      BY <2>7, <3>1 DEF SubmitFrame, TypeOK
  <2>8. CASE EnqueueNothing
    BY <2>8 DEF EnqueueNothing, TypeOK
  <2>9. CASE EnqueueRelease
    <3>1. queueTail \in Slots /\ NextSlot(queueTail) \in Slots
      <4>1. queueTail \in Slots
        BY DEF TypeOK, Slots
      <4>2. QED
        BY <4>1, QueueGeometry DEF Following, Slots
    <3>2. /\ {head', tail'} \subseteq Counters /\ queueHead' \in Slots
          /\ UNCHANGED <<request, frames, spans, oversold>>
      BY <2>5, <2>9 DEF EnqueueRelease
    <3>3. CASE NextSlot(queueTail) = queueHead'
      BY <2>9, <3>2, <3>3 DEF EnqueueRelease, TypeOK, Slots, Stopped
    <3>4. CASE NextSlot(queueTail) # queueHead'
      <4>1. /\ queue' = [queue EXCEPT ![queueTail] = [syncPoint |-> submitted, counter |-> tail']]
            /\ queueTail' = NextSlot(queueTail) /\ pc' = "frame"
        BY <2>9, <3>4 DEF EnqueueRelease
      <4>2. queue' \in [Slots -> [syncPoint : 0..MaxSubmissions, counter : Counters]]
        BY <3>1, <3>2, <4>1 DEF TypeOK, Slots
      <4>3. QED
        BY <3>1, <3>2, <4>1, <4>2 DEF TypeOK, Slots
    <3>5. QED
      BY <3>3, <3>4
  <2>10. CASE GPUAdvance
    BY <2>10 DEF GPUAdvance, TypeOK
  <2>11. CASE UNCHANGED vars
    BY <2>11 DEF vars, TypeOK
  <2>12. QED
    BY <2>1, <2>2, <2>3, <2>4, <2>6, <2>7, <2>8, <2>9, <2>10, <2>11 DEF Next
<1>3. QED
  BY <1>1, <1>2, PTL DEF Spec

-----------------------------------------------------------------------------
(* The inductive invariant of behaviours in which no memory is oversold.   *)
SpansOwned ==
  \A span \in spans : /\ completed < Owner(span) /\ span.frame <= submitted
                      /\ pc = "submitted" => span.frame # NotSubmitted

SyncPointsPast ==
  \A slot \in InUse(queueHead, queueTail) :
    /\ queue[slot].syncPoint <= submitted
    /\ pc = "submitted" => queue[slot].syncPoint < submitted

PendingHeld ==
  pc \in {"frame", "allocating", "waiting", "overflow"}
      /\ PendingAt(head, tail, queueHead, queueTail, queue)
    => \E span \in spans : span.frame = NotSubmitted

RingInv ==
  ~oversold => /\ RingAt(head, tail, queueHead, queueTail, queue)
               /\ SpansOwned
               /\ SyncPointsPast
               /\ PendingHeld
               /\ pc # "range assertion"
               /\ GivesUpOnlyWhenExhausted

LEMMA PendingIs ==
  TypeOK => (IsPendingReleaseRangeEmpty <=> ~PendingAt(head, tail, queueHead, queueTail, queue))
BY QueueGeometry DEF TypeOK, Slots, IsPendingReleaseRangeEmpty, IsReleaseQueueEmpty, PendingAt

LEMMA FrameNumbers ==
  ASSUME TypeOK
  PROVE  /\ submitted \in Nat /\ completed \in Nat /\ completed <= submitted
         /\ \A span \in spans : span.frame \in Nat /\ Owner(span) \in Nat
         /\ \A slot \in Slots : queue[slot].syncPoint \in Nat
BY MaxSubmissionsAssumption DEF MaxSubmissionsAssumption, TypeOK, Span, Owner, Slots

LEMMA RingInvInit == Init => RingInv
<1> SUFFICES ASSUME Init PROVE RingInv
  OBVIOUS
<1>1. /\ head = 0 /\ tail = 0 /\ queueHead = queueTail /\ queueHead \in Slots
      /\ pc = "frame" /\ spans = {}
  BY QueueAssumption DEF QueueAssumption, Init, Slots
<1>2. InUse(queueHead, queueTail) = {}
  BY <1>1, NoneInUse
<1>3. RingAt(head, tail, queueHead, queueTail, queue)
  BY <1>1, <1>2 DEF RingAt, CountersAt, EntriesAt, PlacesAt
<1>4. SpansOwned /\ SyncPointsPast /\ PendingHeld
  BY <1>1, <1>2 DEF SpansOwned, SyncPointsPast, PendingHeld, PendingAt
<1>5. QED
  BY <1>1, <1>3, <1>4 DEF RingInv, GivesUpOnlyWhenExhausted

(* tryAllocate appends to the allocated range; nothing else moves.         *)
LEMMA TryAllocateKeepsRing ==
  ASSUME TypeOK, RingInv, TryAllocate, ~oversold'
  PROVE  RingAt(head, tail, queueHead, queueTail, queue)' /\ SpansOwned' /\ PendingHeld'
<1> DEFINE size == Units(request)
           place == PlaceOf(size)
           granted == [from |-> place * AllocationAlignment,
                       to |-> place * AllocationAlignment + request, frame |-> NotSubmitted]
<1>1. /\ Fits(size) /\ tail' = (place + size) % CounterModulus
      /\ spans' = IF request = 0 THEN spans ELSE spans \cup {granted}
      /\ ~oversold /\ (size > 0 => tail' # head) /\ ~(size * AllocationAlignment < request)
      /\ pc = "allocating" /\ pc' = "frame"
      /\ UNCHANGED <<head, queueHead, queueTail, queue, submitted, completed>>
  BY DEF TryAllocate, frames
<1>2. request \in Nat /\ size \in 0..(CounterModulus - 1) /\ (request = 0 => size = 0)
  <2>1. request \in Nat
    BY RequestsAssumption DEF RequestsAssumption, TypeOK
  <2>2. QED
    BY <2>1, UnitsOfRequest
<1>3. RingAt(head, tail, queueHead, queueTail, queue) /\ SpansOwned /\ PendingHeld
  BY <1>1 DEF RingInv
<1> HIDE DEF size, place, granted
<1>4. /\ place \in 0..PoolSize /\ place + size <= PoolSize
      /\ tail' \in Counters /\ CountersAt(head, tail')
      /\ size = 0 => tail' = tail
      /\ UnitsTo(head, tail) <= UnitsTo(head, tail')
      /\ size > 0 => /\ UnitsTo(head, tail) <= UnitsTo(head, place)
                     /\ UnitsTo(head, place) + size <= UnitsTo(head, tail')
  BY <1>1, <1>2, <1>3, GrantExtends DEF RingAt, place
<1>5. /\ head \in 0..PoolSize /\ tail \in 0..PoolSize /\ tail' \in 0..PoolSize
      /\ \A x \in 0..PoolSize : UnitsTo(head, x) \in Int
  BY <1>4, PoolAssumption DEF PoolAssumption, TypeOK, Counters, UnitsTo
<1>6. \A slot \in InUse(queueHead, queueTail) :
        /\ slot \in Slots /\ queue[slot].counter \in 0..PoolSize
        /\ EntryAt(head, tail, queue[slot])
  BY <1>3 DEF RingAt, EntriesAt, InUse, Slots, TypeOK, Counters
<1>7. EntriesAt(head, tail', queueHead, queueTail, queue)
  <2>1. ASSUME NEW slot \in InUse(queueHead, queueTail)
        PROVE  EntryAt(head, tail', queue[slot])
    BY <1>4, <1>5, <1>6 DEF EntryAt
  <2>2. QED
    BY <1>3, <2>1 DEF RingAt, EntriesAt
<1>8. ASSUME NEW span \in spans
      PROVE  \E unit, length \in 0..PoolSize :
               Lies(span, unit, length, head, tail', queueHead, queueTail, queue)
  <2>1. PICK unit \in 0..PoolSize, length \in 0..PoolSize :
          Lies(span, unit, length, head, tail, queueHead, queueTail, queue)
    BY <1>3 DEF RingAt, PlacesAt
  <2>2. Lies(span, unit, length, head, tail', queueHead, queueTail, queue)
    BY <1>4, <1>5, <2>1 DEF Lies
  <2>3. QED
    BY <2>2
<1>9. ASSUME request # 0
      PROVE  Lies(granted, place, size, head, tail', queueHead, queueTail, queue)
  <2> USE RequestsAssumption DEF RequestsAssumption
  <2>1. size > 0
    <3>1. size = 0 => size * AllocationAlignment = 0
      OBVIOUS
    <3>2. QED
      BY <1>1, <1>2, <1>9, <3>1
  <2>2. granted.to <= (place + size) * AllocationAlignment
    <3>1. (place + size) * AllocationAlignment
            = place * AllocationAlignment + size * AllocationAlignment
      BY <1>2, <1>4, TimesDistributes
    <3>2. place * AllocationAlignment \in Int /\ size * AllocationAlignment \in Int
      BY <1>2, <1>4
    <3>3. request <= size * AllocationAlignment
      BY <1>1, <1>2, <3>2
    <3>4. granted.to = place * AllocationAlignment + request
      BY DEF granted
    <3>5. QED
      BY <1>2, <3>1, <3>2, <3>3, <3>4
  <2>3. granted.from = place * AllocationAlignment
    BY DEF granted
  <2>4. \A slot \in InUse(queueHead, queueTail) :
          UnitsTo(head, queue[slot].counter) <= UnitsTo(head, place)
    BY <1>4, <1>5, <1>6, <2>1 DEF EntryAt
  <2>5. QED
    BY <1>2, <1>4, <2>1, <2>2, <2>3, <2>4 DEF Lies
<1>10. \A span : Owner(span)' = Owner(span)
  BY <1>1 DEF Owner
<1>11. PlacesAt(head, tail, queueHead, queueTail, queue)'
  <2>1. ASSUME NEW span \in spans'
        PROVE  \E unit, length \in 0..PoolSize :
                 Lies(span, unit, length, head, tail', queueHead, queueTail, queue)
    <3>1. size \in 0..PoolSize
      BY <1>2, <1>4, PoolAssumption DEF PoolAssumption
    <3>2. CASE span \in spans
      BY <1>8, <3>2
    <3>3. CASE request # 0 /\ span = granted
      BY <1>4, <1>9, <3>1, <3>3
    <3>4. QED
      BY <1>1, <3>2, <3>3
  <2>2. QED
    BY <1>1, <1>10, <2>1 DEF PlacesAt, Lies
<1>12. RingAt(head, tail, queueHead, queueTail, queue)'
  BY <1>1, <1>4, <1>7, <1>11 DEF RingAt, CountersAt, EntriesAt, EntryAt
<1>13. SpansOwned'
  <2>1. ASSUME NEW span \in spans' PROVE completed' < Owner(span)' /\ span.frame <= submitted'
    <3>1. CASE span \in spans
      <4>1. completed < Owner(span) /\ span.frame <= submitted
        BY <1>3, <3>1 DEF SpansOwned
      <4>2. Owner(span)' = Owner(span)
        BY <1>1 DEF Owner
      <4>3. QED
        BY <1>1, <4>1, <4>2
    <3>2. CASE span = granted
      BY <1>1, <3>2, FrameNumbers DEF granted, Owner, NotSubmitted
    <3>3. QED
      BY <1>1, <3>1, <3>2
  <2>2. QED
    BY <1>1, <2>1 DEF SpansOwned
<1>14. PendingHeld'
  <2>1. CASE request = 0
    BY <1>1, <1>2, <1>3, <1>4, <2>1 DEF PendingHeld
  <2>2. CASE request # 0
    <3>1. granted \in spans' /\ granted.frame = NotSubmitted
      BY <1>1, <2>2 DEF granted
    <3>2. QED
      BY <3>1 DEF PendingHeld
  <2>3. QED
    BY <2>1, <2>2
<1>15. QED
  BY <1>12, <1>13, <1>14

(* enqueueRelease's push: the new entry ends the queue, and nothing is     *)
(* pending behind it.                                                      *)
LEMMA PushKeepsRing ==
  ASSUME NEW h, NEW t, NEW first, NEW end, NEW q, TypeOf(h, t, first, end, q),
         RingAt(h, t, first, end, q), PendingAt(h, t, first, end, q), Following(end) # first,
         NEW frame \in 0..MaxSubmissions, \A slot \in InUse(first, end) : q[slot].syncPoint < frame,
         \A span \in spans : Owner(span) \in Nat /\ Owner(span) <= frame,
         NEW r, r = [q EXCEPT ![end] = [syncPoint |-> frame, counter |-> t]]
  PROVE  RingAt(h, t, first, Following(end), r) /\ ~PendingAt(h, t, first, Following(end), r)
<1> USE PoolAssumption, QueueAssumption, MaxSubmissionsAssumption
    DEF PoolAssumption, QueueAssumption, MaxSubmissionsAssumption
<1>1. /\ h \in Counters /\ t \in Counters /\ first \in Slots /\ end \in Slots /\ q \in Queues
      /\ h \in 0..PoolSize /\ t \in 0..PoolSize /\ h < CounterModulus /\ t < CounterModulus
  BY DEF TypeOf, Counters
<1>2. /\ Following(end) \in Slots /\ end \notin InUse(first, end)
      /\ InUse(first, Following(end)) = InUse(first, end) \cup {end}
  BY <1>1, InUseAfterPush
<1>3. /\ r[end] = [syncPoint |-> frame, counter |-> t]
      /\ \A slot \in InUse(first, end) : r[slot] = q[slot]
  BY <1>1, <1>2 DEF Queues, InUse
<1>4. \A slot \in InUse(first, end) :
        /\ slot \in Slots /\ q[slot].counter \in 0..PoolSize /\ q[slot].counter < CounterModulus
        /\ q[slot].syncPoint \in Int /\ EntryAt(h, t, q[slot])
  BY <1>1 DEF RingAt, EntriesAt, InUse, Queues, Counters
<1>5. \A x \in 0..PoolSize : UnitsTo(h, x) \in Int
  BY <1>1 DEF UnitsTo
<1>6. ASSUME first # end
      PROVE  /\ Previous(end) \in InUse(first, end)
             /\ SlotsTo(first, Previous(end)) = SlotsTo(first, end) - 1
             /\ UnitsTo(h, q[Previous(end)].counter) < UnitsTo(h, t)
             /\ t = 0 => PoolSize = CounterModulus
  <2>1. /\ Previous(end) \in InUse(first, end)
        /\ SlotsTo(first, Previous(end)) = SlotsTo(first, end) - 1
    BY <1>1, <1>6, NewestEntry
  <2> DEFINE c == q[Previous(end)].counter
  <2>2. c # t
    BY <1>6 DEF PendingAt
  <2>3. /\ c \in 0..PoolSize /\ c < CounterModulus
        /\ 0 < UnitsTo(h, c) /\ UnitsTo(h, c) <= UnitsTo(h, t)
        /\ c = 0 => PoolSize = CounterModulus
    BY <1>4, <2>1 DEF EntryAt
  <2> HIDE DEF c
  <2>4. CountersAt(h, t)
    BY DEF RingAt
  <2>5. (t = 0 => PoolSize = CounterModulus) /\ UnitsTo(h, c) < UnitsTo(h, t)
    BY <1>1, <2>2, <2>3, <2>4 DEF UnitsTo, CountersAt
  <2>6. QED
    BY <2>1, <2>5 DEF c
<1>7. 0 < UnitsTo(h, t) /\ (t = 0 => PoolSize = CounterModulus)
  <2>1. CASE first = end
    BY <1>1, <2>1 DEF PendingAt, RingAt, CountersAt, UnitsTo
  <2>2. CASE first # end
    BY <1>1, <1>4, <1>5, <1>6, <2>2 DEF EntryAt
  <2>3. QED
    BY <2>1, <2>2
<1>8. \A slot \in InUse(first, Following(end)) : EntryAt(h, t, r[slot])
  <2>1. EntryAt(h, t, r[end])
    BY <1>1, <1>3, <1>5, <1>7 DEF EntryAt
  <2>2. QED
    BY <1>2, <1>3, <1>4, <2>1
<1>9. ASSUME NEW slot \in InUse(first, end)
      PROVE  /\ UnitsTo(h, q[slot].counter) < UnitsTo(h, t)
             /\ frame - q[slot].syncPoint >= SlotsTo(first, end) - SlotsTo(first, slot)
             /\ SlotsTo(first, slot) < SlotsTo(first, end)
  <2> DEFINE newest == Previous(end)
  <2>1. first # end
    BY <1>1, NoneInUse
  <2>2. /\ newest \in InUse(first, end) /\ q[newest].syncPoint < frame
        /\ SlotsTo(first, newest) = SlotsTo(first, end) - 1
        /\ UnitsTo(h, q[newest].counter) < UnitsTo(h, t)
    BY <1>6, <2>1
  <2>3. /\ SlotsTo(first, slot) \in Int /\ SlotsTo(first, end) \in Int
        /\ SlotsTo(first, slot) < SlotsTo(first, end)
    BY <1>1, <1>4, SlotsToInjective DEF InUse
  <2> HIDE DEF newest
  <2>4. newest \in Slots
    BY <2>2, <1>4
  <2>5. CASE slot = newest
    BY <1>4, <2>2, <2>3, <2>5
  <2>6. CASE slot # newest
    <3>1. SlotsTo(first, newest) \in Int /\ SlotsTo(first, slot) # SlotsTo(first, newest)
      BY <1>1, <1>4, <2>4, <2>6, SlotsToInjective
    <3>2. SlotsTo(first, slot) < SlotsTo(first, newest)
      BY <2>2, <2>3, <3>1
    <3>3. /\ UnitsTo(h, q[slot].counter) < UnitsTo(h, q[newest].counter)
          /\ q[newest].syncPoint - q[slot].syncPoint >= SlotsTo(first, newest) - SlotsTo(first, slot)
      BY <2>2, <3>2 DEF RingAt, EntriesAt
    <3>4. /\ q[slot].syncPoint \in Int /\ q[newest].syncPoint \in Int
          /\ UnitsTo(h, q[slot].counter) \in Int /\ UnitsTo(h, q[newest].counter) \in Int
          /\ UnitsTo(h, t) \in Int
      BY <1>1, <1>4, <1>5, <2>2
    <3>5. QED
      BY <2>2, <2>3, <3>1, <3>3, <3>4
  <2>7. QED
    BY <2>5, <2>6
<1>10. ASSUME NEW x \in InUse(first, Following(end)), NEW y \in InUse(first, Following(end)),
              SlotsTo(first, x) < SlotsTo(first, y)
       PROVE  /\ UnitsTo(h, r[x].counter) < UnitsTo(h, r[y].counter)
              /\ r[y].syncPoint - r[x].syncPoint >= SlotsTo(first, y) - SlotsTo(first, x)
  <2>1. \A s \in Slots : SlotsTo(first, s) \in Int
    BY <1>1, SlotsToInjective
  <2>2. x # end
    <3>1. SUFFICES ASSUME x = end PROVE FALSE
      OBVIOUS
    <3>2. CASE y = end
      BY <1>1, <1>10, <2>1, <3>1, <3>2
    <3>3. CASE y \in InUse(first, end)
      BY <1>1, <1>4, <1>9, <1>10, <2>1, <3>1, <3>3
    <3>4. QED
      BY <1>2, <3>2, <3>3
  <2>3. x \in InUse(first, end)
    BY <1>2, <2>2
  <2>4. CASE y = end
    BY <1>3, <1>9, <2>3, <2>4
  <2>5. CASE y \in InUse(first, end)
    BY <1>3, <1>10, <2>3, <2>5 DEF RingAt, EntriesAt
  <2>6. QED
    BY <1>2, <2>4, <2>5
<1>11. EntriesAt(h, t, first, Following(end), r)
  BY <1>8, <1>10 DEF EntriesAt
<1>12. PlacesAt(h, t, first, Following(end), r)
  <2> SUFFICES ASSUME NEW span \in spans
               PROVE  \E unit, length \in 0..PoolSize :
                        Lies(span, unit, length, h, t, first, Following(end), r)
    BY DEF PlacesAt
  <2>1. PICK unit \in 0..PoolSize, length \in 0..PoolSize :
          Lies(span, unit, length, h, t, first, end, q)
    BY DEF RingAt, PlacesAt
  <2>2. ~(r[end].syncPoint < Owner(span))
    <3>1. Owner(span) \in Nat /\ Owner(span) <= frame /\ r[end].syncPoint = frame
      BY <1>3
    <3>2. QED
      BY <3>1
  <2>3. Lies(span, unit, length, h, t, first, Following(end), r)
    BY <1>2, <1>3, <2>1, <2>2 DEF Lies
  <2>4. QED
    BY <2>3
<1>13. ~PendingAt(h, t, first, Following(end), r)
  <2>1. Previous(Following(end)) = end
    BY <1>1 DEF Previous, Following, Slots
  <2>2. QED
    BY <1>3, <2>1 DEF PendingAt
<1>14. QED
  BY <1>11, <1>12, <1>13 DEF RingAt

LEMMA RingOfNext ==
  ASSUME UNCHANGED <<spans, submitted>>,
         RingAt(head', tail', queueHead', queueTail', queue')
  PROVE  RingAt(head, tail, queueHead, queueTail, queue)'
<1>1. \A span : Owner(span)' = Owner(span)
  BY DEF Owner
<1>2. PlacesAt(head, tail, queueHead, queueTail, queue)'
  BY <1>1 DEF RingAt, PlacesAt, Lies
<1>3. QED
  BY <1>2 DEF RingAt, CountersAt, EntriesAt, EntryAt

LEMMA EnqueueKeepsRing ==
  ASSUME TypeOK, RingInv, EnqueueRelease, ~oversold
  PROVE  RingInv'
<1> USE MaxSubmissionsAssumption DEF MaxSubmissionsAssumption
<1>1. /\ RingAt(head, tail, queueHead, queueTail, queue) /\ SpansOwned /\ SyncPointsPast
      /\ AdvanceReleaseQueue /\ pc = "submitted"
      /\ UNCHANGED <<submitted, completed, spans, oversold>>
  BY DEF RingInv, EnqueueRelease, frames
<1>2. PendingAt(head, tail, queueHead, queueTail, queue)
  BY PendingIs DEF EnqueueRelease
<1>3. /\ RingAt(head', tail', queueHead', queueTail, queue)
      /\ InUse(queueHead', queueTail) \subseteq InUse(queueHead, queueTail)
      /\ PendingAt(head', tail', queueHead', queueTail, queue)
  BY <1>1, <1>2, AdvanceKeepsRing DEF SpansOwned
<1>4. TypeOf(head', tail', queueHead', queueTail, queue) /\ queueTail \in Slots /\ queueHead' \in Slots
  BY <1>1, AdvanceTypes DEF TypeOf
<1>5. \A slot \in InUse(queueHead', queueTail) : queue[slot].syncPoint < submitted
  BY <1>1, <1>3 DEF SyncPointsPast
<1>6. \A span \in spans : /\ Owner(span) \in Nat /\ Owner(span) <= submitted
                           /\ completed < Owner(span) /\ span.frame <= submitted
  BY <1>1, FrameNumbers DEF SpansOwned, Owner
<1>7. NextSlot(queueTail) = Following(queueTail)
  BY <1>4, QueueGeometry
<1>8. \A span : Owner(span)' = Owner(span)
  BY <1>1 DEF Owner
<1>9. CASE Following(queueTail) = queueHead'
  <2>1. pc' = "queue full" /\ queueTail' = queueTail /\ queue' = queue
    BY <1>7, <1>9 DEF EnqueueRelease
  <2>2. RingAt(head, tail, queueHead, queueTail, queue)'
    BY <1>1, <1>3, <2>1, RingOfNext
  <2>3. SpansOwned' /\ SyncPointsPast' /\ PendingHeld'
    BY <1>1, <1>3, <1>5, <1>6, <2>1, FrameNumbers DEF SpansOwned, SyncPointsPast, PendingHeld, Owner
  <2>4. submitted - completed >= QueueSize
    <3> DEFINE oldest == queueHead'
               newest == Previous(queueTail)
    <3>1. queueHead' # queueTail
      BY <1>4, <1>9, FullLength
    <3>2. /\ oldest \in InUse(queueHead', queueTail) /\ SlotsTo(queueHead', oldest) = 0
          /\ newest \in InUse(queueHead', queueTail)
          /\ SlotsTo(queueHead', newest) = SlotsTo(queueHead', queueTail) - 1
      BY <1>4, <3>1, NewestEntry
    <3>3. SlotsTo(queueHead', queueTail) = QueueSize - 1
      BY <1>4, <1>9, FullLength
    <3>4. ~Reached(oldest)
      BY <1>1, <3>1, AdvancePops
    <3>5. oldest \in Slots /\ newest \in Slots
      BY <3>2 DEF InUse
    <3> HIDE DEF oldest, newest
    <3>6. /\ queue[oldest].syncPoint \in Nat /\ queue[newest].syncPoint \in Nat
          /\ submitted \in Nat /\ completed \in Nat /\ QueueSize \in Nat /\ QueueSize >= 2
      BY <3>5, FrameNumbers, QueueAssumption DEF QueueAssumption
    <3>7. queue[oldest].syncPoint >= completed + 1 /\ queue[newest].syncPoint < submitted
      BY <1>5, <3>2, <3>4, <3>6 DEF Reached
    <3>8. queue[newest].syncPoint - queue[oldest].syncPoint >= QueueSize - 2
      <4>1. CASE QueueSize = 2
        <5>1. SlotsTo(queueHead', newest) = 0
          BY <3>2, <3>3, <4>1
        <5>2. newest = oldest
          BY <1>4, <3>2, <3>5, <5>1, SlotsToInjective
        <5>3. QED
          BY <3>6, <4>1, <5>2
      <4>2. CASE QueueSize > 2
        <5>1. SlotsTo(queueHead', oldest) < SlotsTo(queueHead', newest)
          BY <3>2, <3>3, <3>6, <4>2
        <5>2. queue[newest].syncPoint - queue[oldest].syncPoint
                >= SlotsTo(queueHead', newest) - SlotsTo(queueHead', oldest)
          BY <1>3, <3>2, <5>1 DEF RingAt, EntriesAt
        <5>3. QED
          BY <3>2, <3>3, <3>6, <5>2
      <4>3. QED
        BY <3>6, <4>1, <4>2
    <3>9. QED
      BY <3>6, <3>7, <3>8
  <2>5. GivesUpOnlyWhenExhausted'
    BY <1>1, <2>1, <2>4 DEF GivesUpOnlyWhenExhausted
  <2>6. QED
    BY <2>1, <2>2, <2>3, <2>5 DEF RingInv
<1>10. CASE Following(queueTail) # queueHead'
  <2>1. /\ pc' = "frame" /\ queueTail' = Following(queueTail)
        /\ queue' = [queue EXCEPT ![queueTail] = [syncPoint |-> submitted, counter |-> tail']]
    BY <1>7, <1>10 DEF EnqueueRelease
  <2>2. submitted \in 0..MaxSubmissions
    BY DEF TypeOK
  <2>3. /\ RingAt(head', tail', queueHead', queueTail', queue')
        /\ ~PendingAt(head', tail', queueHead', queueTail', queue')
    BY <1>3, <1>4, <1>5, <1>6, <1>10, <2>1, <2>2, PushKeepsRing
  <2>4. RingAt(head, tail, queueHead, queueTail, queue)'
    BY <1>1, <2>3, RingOfNext
  <2>5. PendingHeld'
    BY <2>3 DEF PendingHeld, PendingAt
  <2>6. SpansOwned'
    BY <1>1, <1>6, <2>1 DEF SpansOwned, Owner
  <2>7. SyncPointsPast'
    <3>1. ASSUME NEW slot \in InUse(queueHead', queueTail') PROVE queue'[slot].syncPoint <= submitted'
      <4>1. slot \in InUse(queueHead', queueTail) \cup {queueTail}
        BY <1>4, <1>10, <2>1, <3>1, InUseAfterPush
      <4>2. CASE slot = queueTail
        BY <1>1, <1>4, <2>1, <2>2, <4>2 DEF TypeOf, Queues
      <4>3. CASE slot # queueTail /\ slot \in InUse(queueHead', queueTail)
        <5>1. slot \in Slots /\ queue'[slot] = queue[slot]
          BY <1>4, <2>1, <4>3 DEF TypeOf, Queues, InUse
        <5>2. queue[slot].syncPoint < submitted /\ queue[slot].syncPoint \in Nat /\ submitted \in Nat
          BY <1>5, <4>3, <5>1, FrameNumbers
        <5>3. QED
          BY <1>1, <5>1, <5>2
      <4>4. QED
        BY <4>1, <4>2, <4>3
    <3>2. QED
      BY <2>1, <3>1 DEF SyncPointsPast, InUse, SlotsTo
  <2>8. QED
    BY <2>1, <2>4, <2>5, <2>6, <2>7 DEF RingInv, GivesUpOnlyWhenExhausted
<1>11. QED
  BY <1>9, <1>10

LEMMA RingInvStep == TypeOK /\ RingInv /\ [Next]_vars => RingInv'
<1> SUFFICES ASSUME TypeOK, RingInv, [Next]_vars, ~oversold' PROVE RingInv'
  BY DEF RingInv
<1>1. CASE oversold
  <2>1. oversold'
    <3>1. CASE TryAllocate
      BY <1>1, <3>1 DEF TryAllocate
    <3>2. CASE UNCHANGED oversold
      BY <1>1, <3>2
    <3>3. QED
      BY <3>1, <3>2 DEF Next, vars, Allocate, RangeAssertionFails, Overflow, WaitForGPU,
         SubmitFrame, EnqueueNothing, EnqueueRelease, GPUAdvance
  <2>2. QED
    BY <2>1
<1>2. SUFFICES ASSUME ~oversold PROVE RingInv'
  BY <1>1
<1>3. /\ RingAt(head, tail, queueHead, queueTail, queue) /\ SpansOwned /\ SyncPointsPast
      /\ PendingHeld /\ pc # "range assertion" /\ GivesUpOnlyWhenExhausted
  BY <1>2 DEF RingInv
<1>4. ASSUME UNCHANGED <<counters, submitted, spans>>
      PROVE  /\ RingAt(head, tail, queueHead, queueTail, queue)'
             /\ PendingAt(head, tail, queueHead, queueTail, queue)'
                  <=> PendingAt(head, tail, queueHead, queueTail, queue)
  <2>1. RingAt(head', tail', queueHead', queueTail', queue') /\ UNCHANGED <<spans, submitted>>
    BY <1>3, <1>4 DEF counters
  <2>2. RingAt(head, tail, queueHead, queueTail, queue)'
    BY <2>1, RingOfNext
  <2>3. QED
    BY <1>4, <2>2 DEF counters, PendingAt
<1>5. ASSUME UNCHANGED <<counters, frames, spans>>, pc' # "submitted"
      PROVE  SpansOwned' /\ SyncPointsPast'
  BY <1>3, <1>5 DEF counters, frames, SpansOwned, SyncPointsPast, Owner, InUse, SlotsTo
<1>6. ASSUME NEW bytes \in Requests, Allocate(bytes) PROVE RingInv'
  <2>1. /\ pc = "frame" /\ pc' = "allocating" /\ UNCHANGED <<counters, frames, spans>>
        /\ UNCHANGED <<submitted, completed>>
    BY <1>6 DEF Allocate, frames
  <2>2. PendingHeld'
    BY <1>3, <1>4, <2>1 DEF PendingHeld
  <2>3. QED
    BY <1>4, <1>5, <2>1, <2>2 DEF RingInv, GivesUpOnlyWhenExhausted
<1>7. CASE TryAllocate
  <2>1. RingAt(head, tail, queueHead, queueTail, queue)' /\ SpansOwned' /\ PendingHeld'
    BY <1>7, TryAllocateKeepsRing
  <2>2. pc' = "frame" /\ UNCHANGED <<queueHead, queueTail, queue, submitted>>
    BY <1>7 DEF TryAllocate, frames
  <2>3. SyncPointsPast'
    BY <1>3, <2>2 DEF SyncPointsPast, InUse, SlotsTo
  <2>4. QED
    BY <2>1, <2>2, <2>3 DEF RingInv, GivesUpOnlyWhenExhausted
<1>8. CASE RangeAssertionFails
  BY <1>3, <1>8 DEF RangeAssertionFails, AssertionHolds, RingAt, CountersAt
<1>9. CASE Overflow
  <2>1. /\ pc = "allocating" /\ pc' = "overflow" /\ UNCHANGED <<counters, frames, spans>>
        /\ UNCHANGED <<submitted, completed, request>>
        /\ ~Fits(Units(request)) /\ queueHead = queueTail
    BY <1>9 DEF Overflow, frames, IsReleaseQueueEmpty
  <2>2. PendingHeld'
    BY <1>3, <1>4, <2>1 DEF PendingHeld
  <2>3. Unreleased' # {} \/ Units(request)' > PoolSize
    <3>1. CASE head # tail
      <4>1. \E span \in spans : span.frame = NotSubmitted
        BY <1>3, <2>1, <3>1 DEF PendingHeld, PendingAt
      <4>2. QED
        BY <2>1, <4>1 DEF Unreleased
    <3>2. CASE head = tail
      <4>1. tail = 0 /\ head = 0
        BY <1>3, <3>2 DEF RingAt, CountersAt
      <4>2. ~(PoolSize - 0 >= Units(request))
        BY <2>1, <4>1 DEF Fits, FitsBack
      <4>3. Units(request) \in 0..(CounterModulus - 1)
        <5>1. request \in Nat
          BY RequestsAssumption DEF RequestsAssumption, TypeOK
        <5>2. QED
          BY <5>1, UnitsOfRequest
      <4>4. Units(request) > PoolSize
        BY <4>2, <4>3, PoolAssumption DEF PoolAssumption
      <4>5. QED
        BY <2>1, <4>4 DEF Units
    <3>3. QED
      BY <3>1, <3>2
  <2>4. QED
    BY <1>4, <1>5, <2>1, <2>2, <2>3 DEF RingInv, GivesUpOnlyWhenExhausted
<1>10. CASE WaitForGPU
  <2>1. /\ AdvanceReleaseQueue /\ pc \in {"allocating", "waiting"}
        /\ pc' \in {"allocating", "waiting"}
        /\ UNCHANGED <<queueTail, queue, submitted, completed, spans>>
    BY <1>10 DEF WaitForGPU, frames
  <2>2. /\ RingAt(head', tail', queueHead', queueTail, queue)
        /\ InUse(queueHead', queueTail) \subseteq InUse(queueHead, queueTail)
        /\ PendingAt(head', tail', queueHead', queueTail, queue)
             <=> PendingAt(head, tail, queueHead, queueTail, queue)
    BY <1>3, <2>1, AdvanceKeepsRing DEF SpansOwned
  <2>3. RingAt(head, tail, queueHead, queueTail, queue)'
    BY <2>1, <2>2, RingOfNext
  <2>4. PendingHeld'
    BY <1>3, <2>1, <2>2 DEF PendingHeld, PendingAt
  <2>5. SpansOwned'
    BY <1>3, <2>1 DEF SpansOwned, Owner
  <2>6. SyncPointsPast'
    BY <1>3, <2>1, <2>2 DEF SyncPointsPast, InUse, SlotsTo
  <2>7. QED
    BY <2>1, <2>3, <2>4, <2>5, <2>6 DEF RingInv, GivesUpOnlyWhenExhausted
<1>11. CASE SubmitFrame
  <2>1. /\ pc' = "submitted" /\ submitted' = submitted + 1
        /\ spans' = {[s EXCEPT !.frame = IF @ = NotSubmitted THEN submitted + 1 ELSE @] : s \in spans}
        /\ UNCHANGED <<head, tail, queueHead, queueTail, queue, completed>>
    BY <1>11 DEF SubmitFrame, counters
  <2>2. ASSUME NEW span \in spans'
        PROVE  \E s \in spans : /\ span.from = s.from /\ span.to = s.to /\ span.frame = Owner(s)
                                /\ Owner(span)' = Owner(s)
                                /\ completed < Owner(s) /\ Owner(s) <= submitted + 1
                                /\ Owner(s) # NotSubmitted
    <3>1. PICK s \in spans :
            span = [s EXCEPT !.frame = IF s.frame = NotSubmitted THEN submitted + 1 ELSE s.frame]
      BY <2>1
    <3>2. /\ s \in Span /\ s.frame \in Nat /\ Owner(s) \in Nat
          /\ submitted \in Nat /\ completed \in Nat
      BY FrameNumbers DEF TypeOK
    <3>3. completed < Owner(s) /\ s.frame <= submitted
      BY <1>3 DEF SpansOwned
    <3>4. span = [s EXCEPT !.frame = Owner(s)]
      BY <3>1 DEF Owner
    <3>5. span.from = s.from /\ span.to = s.to /\ span.frame = Owner(s)
      BY <3>2, <3>4 DEF Span
    <3>6. Owner(s) # NotSubmitted /\ Owner(s) <= submitted + 1
      BY <3>2, <3>3 DEF Owner, NotSubmitted
    <3>7. Owner(span)' = Owner(s)
      BY <3>5, <3>6 DEF Owner
    <3>8. QED
      BY <3>3, <3>5, <3>6, <3>7
  <2>3. PlacesAt(head, tail, queueHead, queueTail, queue)'
    <3>1. ASSUME NEW span \in spans'
          PROVE  \E unit, length \in 0..PoolSize :
                   Lies(span, unit, length, head, tail, queueHead, queueTail, queue)'
      <4>1. PICK s \in spans : /\ span.from = s.from /\ span.to = s.to
                               /\ Owner(span)' = Owner(s)
        BY <2>2
      <4>2. PICK unit \in 0..PoolSize, length \in 0..PoolSize :
              Lies(s, unit, length, head, tail, queueHead, queueTail, queue)
        BY <1>3 DEF RingAt, PlacesAt
      <4>3. Lies(span, unit, length, head, tail, queueHead, queueTail, queue)'
        BY <2>1, <4>1, <4>2 DEF Lies
      <4>4. QED
        BY <4>3
    <3>2. QED
      BY <3>1 DEF PlacesAt
  <2>4. RingAt(head, tail, queueHead, queueTail, queue)'
    BY <1>3, <2>1, <2>3 DEF RingAt, CountersAt, EntriesAt, EntryAt
  <2>5. SpansOwned'
    BY <2>1, <2>2 DEF SpansOwned
  <2>6. SyncPointsPast'
    <3>1. ASSUME NEW slot \in InUse(queueHead, queueTail)
          PROVE  queue[slot].syncPoint < submitted' /\ queue[slot].syncPoint <= submitted'
      <4>1. slot \in Slots
        BY DEF InUse
      <4>2. queue[slot].syncPoint \in Nat /\ submitted \in Nat
        BY <4>1, FrameNumbers
      <4>3. queue[slot].syncPoint <= submitted
        BY <1>3 DEF SyncPointsPast
      <4>4. QED
        BY <2>1, <4>2, <4>3
    <3>2. QED
      BY <2>1, <3>1 DEF SyncPointsPast, InUse, SlotsTo
  <2>7. QED
    BY <2>1, <2>4, <2>5, <2>6 DEF RingInv, PendingHeld, GivesUpOnlyWhenExhausted
<1>12. CASE EnqueueNothing
  <2>1. /\ pc' = "frame" /\ UNCHANGED <<counters, frames, spans>>
        /\ UNCHANGED <<submitted, completed>>
        /\ ~PendingAt(head, tail, queueHead, queueTail, queue)
    BY <1>12, PendingIs DEF EnqueueNothing, frames
  <2>2. PendingHeld'
    BY <1>4, <2>1 DEF PendingHeld
  <2>3. QED
    BY <1>4, <1>5, <2>1, <2>2 DEF RingInv, GivesUpOnlyWhenExhausted
<1>13. CASE EnqueueRelease
  BY <1>2, <1>13, EnqueueKeepsRing
<1>14. CASE GPUAdvance
  <2>1. /\ pc \notin Stopped /\ pc' = pc /\ completed' = completed + 1 /\ completed < submitted
        /\ spans' = {s \in spans : s.frame # completed + 1}
        /\ UNCHANGED <<head, tail, queueHead, queueTail, queue, submitted>>
    BY <1>14 DEF GPUAdvance, counters
  <2>2. \A span : Owner(span)' = Owner(span)
    BY <2>1 DEF Owner
  <2>3. PlacesAt(head, tail, queueHead, queueTail, queue)'
    BY <1>3, <2>1, <2>2, ZenonT(60) DEF RingAt, PlacesAt, Lies, InUse, SlotsTo, UnitsTo
  <2>4. RingAt(head, tail, queueHead, queueTail, queue)'
    BY <1>3, <2>1, <2>3 DEF RingAt, CountersAt, EntriesAt, EntryAt
  <2>5. SpansOwned'
    <3>1. ASSUME NEW span \in spans, span.frame # completed + 1
          PROVE  completed + 1 < Owner(span) /\ span.frame <= submitted
      <4>1. completed < Owner(span) /\ span.frame <= submitted
        BY <1>3 DEF SpansOwned
      <4>2. QED
        BY <2>1, <3>1, <4>1, FrameNumbers DEF Owner
    <3>2. QED
      BY <1>3, <2>1, <2>2, <3>1 DEF SpansOwned, Owner
  <2>6. SyncPointsPast'
    BY <1>3, <2>1 DEF SyncPointsPast, InUse, SlotsTo
  <2>7. PendingHeld'
    <3>1. \A span \in spans : span.frame = NotSubmitted => span \in spans'
      BY <2>1, FrameNumbers DEF NotSubmitted
    <3>2. PendingAt(head, tail, queueHead, queueTail, queue)'
            <=> PendingAt(head, tail, queueHead, queueTail, queue)
      BY <2>1 DEF PendingAt
    <3>3. QED
      BY <1>3, <2>1, <3>1, <3>2 DEF PendingHeld
  <2>8. QED
    BY <1>3, <2>1, <2>4, <2>5, <2>6, <2>7 DEF RingInv, GivesUpOnlyWhenExhausted, Stopped
<1>15. CASE UNCHANGED vars
  <2>1. UNCHANGED <<counters, submitted, completed, spans, pc, request>>
    BY <1>15 DEF vars, frames
  <2>2. SpansOwned' /\ SyncPointsPast'
    BY <1>3, <2>1 DEF counters, SpansOwned, SyncPointsPast, Owner, InUse, SlotsTo
  <2>3. PendingHeld'
    BY <1>3, <1>4, <2>1 DEF PendingHeld
  <2>4. GivesUpOnlyWhenExhausted'
    BY <1>3, <1>15 DEF vars, frames, GivesUpOnlyWhenExhausted, Unreleased, Units
  <2>5. QED
    BY <1>3, <1>4, <2>1, <2>2, <2>3, <2>4 DEF RingInv
<1>16. QED
  BY <1>6, <1>7, <1>8, <1>9, <1>10, <1>11, <1>12, <1>13, <1>14, <1>15 DEF Next

(* The inductive invariant about the ring: RingInv is what the pool, the   *)
(* release queue and the frames' spans have to do with each other.         *)
THEOREM RingInvariant == Spec => [](TypeOK /\ RingInv)
<1>1. TypeOK /\ TypeOK' /\ RingInv /\ [Next]_vars => RingInv'
  BY RingInvStep
<1>2. QED
  BY <1>1, RingInvInit, TypeCorrect, PTL DEF Spec

-----------------------------------------------------------------------------
(* Units of the pool that are apart hold bytes that are apart.             *)
LEMMA BytesApart ==
  ASSUME NEW a \in Nat, NEW b \in Nat, a <= b
  PROVE  a * AllocationAlignment <= b * AllocationAlignment
BY TimesMonotone, RequestsAssumption DEF RequestsAssumption

(* GrantsAreFree holds in every reachable state: what tryAllocate would    *)
(* hand out lies in the pool, apart from every span in use.                *)
THEOREM GrantsAlwaysFree == Spec => []GrantsAreFree
<1> USE PoolAssumption, RequestsAssumption DEF PoolAssumption, RequestsAssumption
<1>1. TypeOK /\ RingInv => GrantsAreFree
  <2> SUFFICES ASSUME TypeOK, RingInv, ~oversold, NEW bytes \in Requests, Fits(Units(bytes))
               PROVE  LET from == PlaceOf(Units(bytes)) * AllocationAlignment
                          to == from + Units(bytes) * AllocationAlignment
                      IN  /\ to <= PoolSize * AllocationAlignment
                          /\ \A s \in spans : s.to <= from \/ to <= s.from \/ from = to
    BY DEF GrantsAreFree
  <2> DEFINE size == Units(bytes)
             place == PlaceOf(size)
             from == place * AllocationAlignment
             to == from + size * AllocationAlignment
  <2>1. size \in 0..(CounterModulus - 1)
    BY UnitsOfRequest
  <2>2. Fits(size) /\ head \in 0..PoolSize /\ tail \in 0..PoolSize
    BY DEF TypeOK, Counters
  <2>3. place \in 0..PoolSize /\ place + size <= PoolSize
    <3> HIDE DEF size
    <3>1. QED
      BY <2>1, <2>2 DEF Fits, FitsBetween, FitsBack, FitsFront, PlaceOf
  <2>4. to = (place + size) * AllocationAlignment
    <3> HIDE DEF size, place
    <3>1. QED
      BY <2>1, <2>3, TimesDistributes
  <2>5. to <= PoolSize * AllocationAlignment
    <3> HIDE DEF size, place, to
    <3>1. QED
      BY <2>1, <2>3, <2>4, BytesApart
  <2>6. ASSUME NEW s \in spans PROVE s.to <= from \/ to <= s.from \/ from = to
    <3>1. PICK unit \in 0..PoolSize, length \in 0..PoolSize :
            Lies(s, unit, length, head, tail, queueHead, queueTail, queue)
      BY DEF RingInv, RingAt, PlacesAt
    <3>2. /\ s.from = unit * AllocationAlignment /\ s.to <= (unit + length) * AllocationAlignment
          /\ 0 < length /\ unit + length <= PoolSize
          /\ UnitsTo(head, unit) + length <= UnitsTo(head, tail)
      BY <3>1 DEF Lies
    <3>3. s.to \in Nat
      BY DEF TypeOK, Span
    <3>4. size = 0 \/ unit + length <= place \/ place + size <= unit
      <4> HIDE DEF size
      <4>1. CASE FitsFront(size)
        BY <2>1, <2>2, <3>2, <4>1 DEF FitsFront, PlaceOf, UnitsTo
      <4>2. CASE ~FitsFront(size) /\ FitsBack(size)
        BY <2>1, <2>2, <3>2, <4>2 DEF FitsBack, PlaceOf, UnitsTo
      <4>3. CASE ~FitsFront(size) /\ FitsBetween(size)
        BY <2>1, <2>2, <3>2, <4>3 DEF FitsBetween, PlaceOf, UnitsTo
      <4>4. QED
        BY <2>2, <4>1, <4>2, <4>3 DEF Fits
    <3>5. CASE size = 0
      <4>1. size * AllocationAlignment = 0 /\ from \in Int
        BY <2>3, <3>5
      <4>2. QED
        BY <4>1
    <3>6. CASE unit + length <= place
      <4> HIDE DEF size, place
      <4>1. (unit + length) * AllocationAlignment <= place * AllocationAlignment
        BY <2>3, <3>2, <3>6, BytesApart
      <4>2. (unit + length) * AllocationAlignment \in Int /\ place * AllocationAlignment \in Int
        BY <2>3
      <4>3. QED
        BY <3>2, <3>3, <4>1, <4>2
    <3>7. CASE place + size <= unit
      <4> HIDE DEF size, place, to
      <4>1. (place + size) * AllocationAlignment <= unit * AllocationAlignment
        BY <2>1, <2>3, <3>2, <3>7, BytesApart
      <4>2. QED
        BY <2>4, <3>2, <4>1
    <3>8. QED
      BY <3>4, <3>5, <3>6, <3>7
  <2>7. QED
    BY <2>5, <2>6
<1>2. QED
  BY <1>1, RingInvariant, PTL

(* PendingRangeExact holds in every reachable state: exactly what is not   *)
(* queued for release is found pending, and the range assertion of         *)
(* tryAllocate holds.                                                      *)
THEOREM PendingRangeAlwaysExact == Spec => []PendingRangeExact
<1>1. TypeOK /\ RingInv => PendingRangeExact
  <2> SUFFICES ASSUME TypeOK, RingInv, ~oversold
               PROVE  /\ pc # "queue full" /\ IsPendingReleaseRangeEmpty => Unreleased = {}
                      /\ pc = "submitted" /\ Unreleased # {} => ~IsPendingReleaseRangeEmpty
                      /\ pc # "range assertion"
    BY DEF PendingRangeExact
  <2>1. RingAt(head, tail, queueHead, queueTail, queue) /\ SyncPointsPast
    BY DEF RingInv
  <2>2. ASSUME NEW span \in Unreleased PROVE ~IsPendingReleaseRangeEmpty
    <3>1. span \in spans
      BY DEF Unreleased
    <3>2. PICK unit \in 0..PoolSize, length \in 0..PoolSize :
            Lies(span, unit, length, head, tail, queueHead, queueTail, queue)
      BY <2>1, <3>1 DEF RingAt, PlacesAt
    <3>3. /\ head \in 0..PoolSize /\ tail \in 0..PoolSize
          /\ queueHead \in Slots /\ queueTail \in Slots
      BY DEF TypeOK, Counters, Slots
    <3>4. /\ UnitsTo(head, unit) \in Nat /\ UnitsTo(head, tail) \in Nat
          /\ UnitsTo(head, unit) < UnitsTo(head, tail)
      BY <3>2, <3>3, PoolAssumption DEF PoolAssumption, Lies, UnitsTo
    <3>5. PendingAt(head, tail, queueHead, queueTail, queue)
      <4>1. CASE queueHead = queueTail
        BY <3>3, <3>4, <4>1 DEF PendingAt, UnitsTo
      <4>2. CASE queueHead # queueTail
        <5> DEFINE newest == Previous(queueTail)
        <5>1. newest \in InUse(queueHead, queueTail)
          BY <3>3, <4>2, NewestEntry
        <5>2. newest \in Slots
          BY <5>1 DEF InUse
        <5> HIDE DEF newest
        <5>3. queue[newest].syncPoint < Owner(span)
          <6>1. /\ queue[newest].syncPoint \in Nat /\ submitted \in Nat
            BY <5>2, FrameNumbers
          <6>2. /\ queue[newest].syncPoint <= submitted
                /\ pc = "submitted" => queue[newest].syncPoint < submitted
            BY <2>1, <5>1 DEF SyncPointsPast
          <6>3. Owner(span) = submitted + 1 \/ (pc = "submitted" /\ Owner(span) = submitted)
            BY DEF Unreleased, Owner
          <6>4. QED
            BY <6>1, <6>2, <6>3
        <5>4. UnitsTo(head, queue[newest].counter) <= UnitsTo(head, unit)
          BY <3>2, <5>1, <5>3 DEF Lies
        <5>5. queue[newest].counter # tail
          BY <3>4, <5>4
        <5>6. QED
          BY <4>2, <5>5 DEF PendingAt, newest
      <4>3. QED
        BY <4>1, <4>2
    <3>6. QED
      BY <3>5, PendingIs
  <2>3. QED
    BY <2>2 DEF RingInv
<1>2. QED
  BY <1>1, RingInvariant, PTL

(* GivesUpOnlyWhenExhausted holds in every reachable state: an overflow or *)
(* a full queue is never the allocator's own doing.                        *)
THEOREM AlwaysGivesUpOnlyWhenExhausted == Spec => []GivesUpOnlyWhenExhausted
<1>1. RingInv => GivesUpOnlyWhenExhausted
  BY DEF RingInv, GivesUpOnlyWhenExhausted
<1>2. QED
  BY <1>1, RingInvariant, PTL

=============================================================================
