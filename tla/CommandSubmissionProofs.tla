---------------------- MODULE CommandSubmissionProofs ----------------------
(***************************************************************************)
(* For every pool of allocators, every set of lists and every width of the *)
(* signals: the type invariant, that memory the GPU reads is not reset     *)
(* (SubmittedMemoryIntact) nor memory under a list that is still to be     *)
(* submitted (RecordedMemoryIntact), that the bookkeeping of an allocator  *)
(* matches its lists (BookkeepingExact), and that a fence value is read    *)
(* neither too early (SyncPointSound) nor, within the range of the status, *)
(* too late (FinishedAllocatorResettable).                                 *)
(***************************************************************************)
EXTENDS CommandSubmission, FiniteSetTheorems, TLAPS

(* Reduction by a mask changes nothing below it.                           *)
LEMMA ModSmall ==
  ASSUME NEW v \in Nat, NEW m \in Nat \ {0}, v < m
  PROVE  v % m = v
  BY Z3

(* The comparison of isDeviceSignalValueReached has no false positive as   *)
(* long as the signal fits the mask and is at most half the range ahead of *)
(* the value it is compared with.                                          *)
LEMMA SignalReachedSound ==
  ASSUME NEW value \in Nat, NEW signal \in Nat, NEW half \in Nat \ {0},
         signal < 2 * half, signal - value <= half, SignalReached(value, signal, half)
  PROVE  signal <= value
<1>1. SUFFICES ASSUME value < signal PROVE FALSE
  OBVIOUS
<1>2. value % (2 * half) = value
  <2>1. 2 * half \in Nat \ {0} /\ value < 2 * half
    BY <1>1
  <2>2. QED
    BY <2>1, ModSmall
<1>3. value - signal < 0 /\ value - signal >= -half
  BY <1>1
<1>4. QED
  BY <1>2, <1>3 DEF SignalReached

-----------------------------------------------------------------------------
(* The state keeps its shape, and reached <= completed <= emitted.         *)
THEOREM TypeCorrect == Spec => []TypeOK
<1> USE NoAllocatorAssumption, MaxSignalAssumption DEF NoAllocatorAssumption, MaxSignalAssumption
<1>1. Init => TypeOK
  <2> SUFFICES ASSUME Init PROVE TypeOK
    OBVIOUS
  <2>1. lists \in [Lists -> Attached \cup {Detached}]
    BY DEF Init
  <2>2. /\ phase \in [Allocators -> {"free", "live", "destroyed"}]
        /\ closedUnsubmitted \in [Allocators -> Nat]
        /\ finishSignal \in [Allocators -> 0..MaxSignal]
        /\ epoch \in [Allocators -> {0, 1}]
    BY DEF Init
  <2>3. failed \in Failures /\ strayDiscard \in BOOLEAN
    BY DEF Init, Failures
  <2>4. QED
    BY <2>1, <2>2, <2>3 DEF Init, TypeOK
<1>2. TypeOK /\ [Next]_vars => TypeOK'
  <2> SUFFICES ASSUME TypeOK, [Next]_vars PROVE TypeOK'
    OBVIOUS
  <2> USE DEF allocatorVars, queueVars
  <2>1. ASSUME NEW assertion \in Failures, Fail(assertion) PROVE TypeOK'
    BY <2>1 DEF Fail, TypeOK
  <2>2. ASSUME NEW a \in Allocators, CreateCommandAllocator(a) PROVE TypeOK'
    BY <2>2 DEF CreateCommandAllocator, TypeOK
  <2>3. CASE CreateInDestroyedSlot
    BY <2>1, <2>3 DEF CreateInDestroyedSlot, Failures
  <2>4. ASSUME NEW a \in Allocators, DestroyCommandAllocator(a) PROVE TypeOK'
    BY <2>4 DEF DestroyCommandAllocator, RefreshStatus, RefreshedValue, TypeOK
  <2>5. ASSUME NEW l \in Lists, NEW a \in Allocators, OpenCommandList(l, a) PROVE TypeOK'
    <3>1. [phase |-> "open", allocator |-> a, epoch |-> epoch[a]] \in Attached
      BY DEF TypeOK, Attached
    <3>2. QED
      BY <2>5, <3>1 DEF OpenCommandList, TypeOK
  <2>6. ASSUME NEW l \in Lists, lists[l].phase # "detached"
        PROVE  lists[l] \in Attached /\ lists[l].allocator \in Allocators
    BY <2>6 DEF TypeOK, Attached, Detached
  <2>7. ASSUME NEW l \in Lists, CloseCommandList(l) PROVE TypeOK'
    <3> DEFINE a == lists[l].allocator
    <3>1. lists[l] \in Attached /\ a \in Allocators
      BY <2>6, <2>7 DEF CloseCommandList
    <3>2. [phase |-> "closed", allocator |-> a, epoch |-> lists[l].epoch] \in Attached
      BY <3>1 DEF Attached
    <3>3. QED
      BY <2>7, <3>1, <3>2 DEF CloseCommandList, TypeOK
  <2>8. ASSUME NEW l \in Lists, CloseWithoutOpenList(l) PROVE TypeOK'
    BY <2>1, <2>8 DEF CloseWithoutOpenList, Failures
  <2>9. ASSUME NEW l \in Lists, DiscardCommandList(l) PROVE TypeOK'
    <3> DEFINE a == lists[l].allocator
    <3>1. a \in Allocators
      BY <2>6, <2>9 DEF DiscardCommandList
    <3>2. closedUnsubmitted' \in [Allocators -> Nat]
      BY <2>9, <3>1 DEF DiscardCommandList, TypeOK
    <3>3. strayDiscard' \in BOOLEAN
      BY <2>9 DEF DiscardCommandList, TypeOK
    <3>4. QED
      BY <2>9, <3>2, <3>3 DEF DiscardCommandList, TypeOK
  <2>10. ASSUME NEW l \in Lists, SubmitCommandList(l) PROVE TypeOK'
    <3> DEFINE a == lists[l].allocator
    <3>1. a \in Allocators
      BY <2>6, <2>10 DEF SubmitCommandList
    <3>2. emitted' \in 1..MaxSignal /\ emitted' = emitted + 1
      BY <2>10 DEF SubmitCommandList, MayEmit, TypeOK
    <3>3. [allocator |-> a, epoch |-> epoch[a], signal |-> emitted + 1] \in Submission
      BY <3>1, <3>2 DEF TypeOK, Submission
    <3>4. QED
      BY <2>10, <3>1, <3>2, <3>3 DEF SubmitCommandList, TypeOK
  <2>11. ASSUME SubmitOutputFlip PROVE TypeOK'
    BY <2>11 DEF SubmitOutputFlip, MayEmit, TypeOK
  <2>12. ASSUME NEW a \in Allocators, ResetCommandAllocator(a) PROVE TypeOK'
    BY <2>12 DEF ResetCommandAllocator, RefreshStatus, RefreshedValue, TypeOK
  <2>13. ASSUME NEW a \in Allocators, StatusSignalTooWide(a) PROVE TypeOK'
    BY <2>1, <2>13 DEF StatusSignalTooWide, Failures
  <2>14. ASSUME NEW signal \in 0..emitted, QuerySyncPoint(signal) PROVE TypeOK'
    BY <2>14 DEF QuerySyncPoint, RefreshedValue, TypeOK
  <2>15. ASSUME GPUAdvance PROVE TypeOK'
    BY <2>15 DEF GPUAdvance, TypeOK
  <2>16. CASE UNCHANGED vars
    BY <2>16 DEF vars, TypeOK
  <2>17. QED
    BY <2>2, <2>3, <2>4, <2>5, <2>7, <2>8, <2>9, <2>10, <2>11, <2>12, <2>13, <2>14, <2>15,
       <2>16 DEF Next
<1>3. QED
  BY <1>1, <1>2, PTL DEF Spec

-----------------------------------------------------------------------------
(* Why no memory is reset under the GPU.  The flag of an allocator with    *)
(* unfinished work stays up, its finish signal covers that work, and the   *)
(* fence value last read is close enough to what was emitted for the       *)
(* comparison of signals to have no false positive.                        *)
QueueInv ==
  /\ emitted - reached <= MaxUnobserved
  /\ \A a \in Allocators : finishSignal[a] <= emitted
  /\ \A a \in executing : phase[a] # "free"
  /\ \A s \in submissions :
       /\ completed < s.signal
       /\ s.signal <= emitted
       /\ s.allocator \in executing
       /\ s.signal <= finishSignal[s.allocator]
  /\ SubmittedMemoryIntact

(* The status update of an allocator reports it idle only when the fence   *)
(* has passed the signal of its last submission.                           *)
LEMMA IdleIsFinished ==
  ASSUME TypeOK, QueueInv, NEW a \in Allocators,
         StatusAsserts(a), ~StillExecuting(a)
  PROVE  \A s \in submissions : s.allocator # a
<1> USE StatusHalfAssumption, MaxUnobservedAssumption, MaxSignalAssumption
    DEF StatusHalfAssumption, MaxUnobservedAssumption, MaxSignalAssumption
<1>1. SUFFICES ASSUME NEW s \in submissions, s.allocator = a PROVE FALSE
  OBVIOUS
<1> DEFINE v == RefreshedValue(finishSignal[a], StatusHalf)
<1>2. a \in executing /\ s.signal <= finishSignal[a] /\ completed < s.signal
  BY <1>1 DEF QueueInv
<1>3. s.signal \in Nat /\ finishSignal[a] \in Nat /\ completed \in Nat /\ reached \in Nat
      /\ emitted \in Nat /\ reached <= completed /\ completed <= emitted
  BY <1>1 DEF TypeOK, Submission
<1>4. v \in Nat /\ reached <= v /\ v <= completed
  BY <1>3 DEF RefreshedValue
<1>5. finishSignal[a] < 2 * StatusHalf /\ SignalReached(v, finishSignal[a], StatusHalf)
  BY <1>2 DEF StatusAsserts, SignalFits, StillExecuting, FinishedSignal
<1>6. finishSignal[a] - v <= StatusHalf
  BY <1>3, <1>4 DEF QueueInv
<1>7. finishSignal[a] <= v
  <2> HIDE DEF v
  <2>1. QED
    BY <1>3, <1>4, <1>5, <1>6, SignalReachedSound
<1>8. QED
  BY <1>2, <1>3, <1>4, <1>7

(* Reading the fence again only brings the client closer to what it        *)
(* emitted.                                                                *)
LEMMA LaterReadIsCloser ==
  ASSUME NEW sent \in Nat, NEW old \in Nat, NEW new \in Nat, NEW bound \in Nat,
         old <= new, sent - old <= bound
  PROVE  sent - new <= bound
  OBVIOUS

(* The invariant is inductive.                                             *)
LEMMA QueueInvStep ==
  ASSUME TypeOK, TypeOK', QueueInv, [Next]_vars
  PROVE  QueueInv'
<1> USE MaxSignalAssumption, MaxUnobservedAssumption
    DEF MaxSignalAssumption, MaxUnobservedAssumption, allocatorVars, queueVars
<1> USE DEF SubmittedMemoryIntact
<1>1. ASSUME NEW assertion, Fail(assertion) PROVE QueueInv'
  BY <1>1 DEF Fail, QueueInv
<1>2. ASSUME NEW a \in Allocators, CreateCommandAllocator(a) PROVE QueueInv'
  BY <1>2 DEF CreateCommandAllocator, QueueInv, TypeOK
<1>3. CASE CreateInDestroyedSlot
  BY <1>1, <1>3 DEF CreateInDestroyedSlot
<1>4. ASSUME NEW a \in Allocators, StatusAsserts(a), ~StillExecuting(a), RefreshStatus(a),
             epoch' = [epoch EXCEPT ![a] = 1 - @],
             \A b \in Allocators : phase'[b] # phase[b] => b = a,
             UNCHANGED <<finishSignal, emitted, completed, submissions>>
      PROVE  QueueInv'
  <2>1. \A s \in submissions : s.allocator # a
    BY <1>4, IdleIsFinished
  <2>2. reached' \in Nat /\ reached <= reached' /\ reached \in Nat /\ emitted \in Nat
    BY <1>4 DEF RefreshStatus, RefreshedValue, TypeOK
  <2>3. emitted' - reached' <= MaxUnobserved
    BY <1>4, <2>2 DEF QueueInv
  <2>4. \A b \in executing' : phase'[b] # "free"
    BY <1>4 DEF RefreshStatus, QueueInv, TypeOK
  <2>5. \A s \in submissions : s.allocator \in executing' /\ s.epoch = epoch'[s.allocator]
    BY <1>4, <2>1 DEF RefreshStatus, QueueInv, TypeOK, Submission
  <2>6. QED
    BY <1>4, <2>3, <2>4, <2>5 DEF QueueInv
<1>5. ASSUME NEW a \in Allocators, DestroyCommandAllocator(a) PROVE QueueInv'
  BY <1>4, <1>5 DEF DestroyCommandAllocator, TypeOK
<1>6. ASSUME NEW l \in Lists, NEW a \in Allocators, OpenCommandList(l, a) PROVE QueueInv'
  BY <1>6 DEF OpenCommandList, QueueInv
<1>7. ASSUME NEW l \in Lists, CloseCommandList(l) PROVE QueueInv'
  BY <1>7 DEF CloseCommandList, QueueInv
<1>8. ASSUME NEW l \in Lists, CloseWithoutOpenList(l) PROVE QueueInv'
  BY <1>1, <1>8 DEF CloseWithoutOpenList
<1>9. ASSUME NEW l \in Lists, DiscardCommandList(l) PROVE QueueInv'
  BY <1>9 DEF DiscardCommandList, QueueInv
<1>10. ASSUME NEW l \in Lists, SubmitCommandList(l) PROVE QueueInv'
  <2> DEFINE a == lists[l].allocator
             new == [allocator |-> a, epoch |-> epoch[a], signal |-> emitted + 1]
  <2>1. a \in Allocators
    BY <1>10 DEF SubmitCommandList, TypeOK, Attached, Detached
  <2>2. /\ emitted' = emitted + 1 /\ submissions' = submissions \cup {new}
        /\ executing' = executing \cup {a}
        /\ finishSignal' = [finishSignal EXCEPT ![a] = emitted + 1]
        /\ UNCHANGED <<phase, reached, completed, epoch>> /\ phase[a] = "live"
        /\ emitted - reached < MaxUnobserved
    BY <1>10 DEF SubmitCommandList, MayEmit
  <2>3. emitted' - reached' <= MaxUnobserved
    BY <2>2 DEF TypeOK
  <2>4. \A b \in Allocators : finishSignal'[b] <= emitted' /\ finishSignal[b] <= finishSignal'[b]
    BY <2>1, <2>2 DEF QueueInv, TypeOK
  <2>5. \A b \in executing' : phase'[b] # "free"
    BY <2>1, <2>2 DEF QueueInv
  <2>6. ASSUME NEW s \in submissions
        PROVE  /\ completed' < s.signal /\ s.signal <= emitted'
               /\ s.allocator \in executing' /\ s.signal <= finishSignal'[s.allocator]
               /\ s.epoch = epoch'[s.allocator]
    <3>1. /\ completed < s.signal /\ s.signal <= emitted /\ s.allocator \in executing
          /\ s.signal <= finishSignal[s.allocator] /\ s.epoch = epoch[s.allocator]
          /\ s.allocator \in Allocators
      BY DEF QueueInv, TypeOK
    <3>2. s.signal \in Nat /\ finishSignal[s.allocator] \in Nat /\ finishSignal'[s.allocator] \in Nat
          /\ emitted \in Nat /\ finishSignal[s.allocator] <= finishSignal'[s.allocator]
      BY <3>1, <2>4 DEF TypeOK, Submission
    <3>3. QED
      BY <3>1, <3>2, <2>2
  <2>7. /\ completed' < new.signal /\ new.signal <= emitted'
        /\ new.allocator \in executing' /\ new.signal <= finishSignal'[new.allocator]
        /\ new.epoch = epoch'[new.allocator]
    BY <2>1, <2>2 DEF TypeOK
  <2>8. QED
    <3> HIDE DEF new
    <3>1. QED
      BY <2>2, <2>3, <2>4, <2>5, <2>6, <2>7 DEF QueueInv
<1>11. ASSUME SubmitOutputFlip PROVE QueueInv'
  <2>1. /\ emitted' = emitted + 1 /\ emitted - reached < MaxUnobserved
        /\ UNCHANGED <<phase, reached, completed, epoch, executing, submissions, finishSignal>>
    BY <1>11 DEF SubmitOutputFlip, MayEmit
  <2>2. emitted \in Nat /\ reached \in Nat /\ \A s \in submissions : s.signal \in Nat
    BY DEF TypeOK, Submission
  <2>3. \A b \in Allocators : finishSignal[b] \in Nat
    BY DEF TypeOK
  <2>4. QED
    BY <2>1, <2>2, <2>3 DEF QueueInv
<1>12. ASSUME NEW a \in Allocators, ResetCommandAllocator(a) PROVE QueueInv'
  BY <1>4, <1>12 DEF ResetCommandAllocator
<1>13. ASSUME NEW a \in Allocators, StatusSignalTooWide(a) PROVE QueueInv'
  BY <1>1, <1>13 DEF StatusSignalTooWide
<1>14. ASSUME NEW signal \in 0..emitted, QuerySyncPoint(signal) PROVE QueueInv'
  <2>1. reached' \in Nat /\ reached <= reached' /\ reached \in Nat /\ emitted \in Nat
    BY <1>14 DEF QuerySyncPoint, RefreshedValue, TypeOK
  <2>2. UNCHANGED <<phase, emitted, completed, epoch, executing, submissions, finishSignal>>
    BY <1>14 DEF QuerySyncPoint
  <2>3. emitted' - reached' <= MaxUnobserved
    <3>1. emitted - reached <= MaxUnobserved /\ emitted' = emitted
      BY <2>2 DEF QueueInv
    <3>2. MaxUnobserved \in Nat
      OBVIOUS
    <3>3. QED
      BY <2>1, <3>1, <3>2, LaterReadIsCloser
  <2>4. QED
    BY <2>2, <2>3 DEF QueueInv
<1>15. CASE GPUAdvance
  <2>1. /\ completed' = completed + 1
        /\ submissions' = {s \in submissions : s.signal > completed + 1}
        /\ UNCHANGED <<phase, emitted, reached, epoch, executing, finishSignal>>
    BY <1>15 DEF GPUAdvance
  <2>2. ASSUME NEW s \in submissions'
        PROVE  s \in submissions /\ completed' < s.signal
    BY <2>1 DEF TypeOK, Submission
  <2>3. QED
    BY <2>1, <2>2 DEF QueueInv
<1>16. CASE UNCHANGED vars
  BY <1>16 DEF vars, QueueInv
<1>17. QED
  BY <1>2, <1>3, <1>5, <1>6, <1>7, <1>8, <1>9, <1>10, <1>11, <1>12, <1>13, <1>14, <1>15,
     <1>16 DEF Next

LEMMA QueueInvInit == Init => QueueInv
<1> SUFFICES ASSUME Init PROVE QueueInv
  OBVIOUS
<1>1. 0 - 0 <= MaxUnobserved
  BY MaxUnobservedAssumption DEF MaxUnobservedAssumption
<1>2. \A a \in Allocators : finishSignal[a] = 0
  BY DEF Init
<1>3. emitted = 0 /\ reached = 0 /\ executing = {} /\ submissions = {}
  BY DEF Init
<1>4. QED
  BY <1>1, <1>2, <1>3 DEF QueueInv, SubmittedMemoryIntact

(* Both invariants together hold in every reachable state.                 *)
THEOREM QueueInvariant == Spec => [](TypeOK /\ QueueInv)
<1>1. TypeOK /\ TypeOK' /\ QueueInv /\ [Next]_vars => QueueInv'
  BY QueueInvStep
<1>2. QED
  BY <1>1, QueueInvInit, TypeCorrect, PTL DEF Spec

(* SubmittedMemoryIntact holds in every reachable state.                   *)
THEOREM SubmittedMemoryNeverReset == Spec => []SubmittedMemoryIntact
<1>1. QueueInv => SubmittedMemoryIntact
  BY DEF QueueInv
<1>2. QED
  BY <1>1, QueueInvariant, PTL

(* A sync point never reads as reached too early, in any reachable state.  *)
THEOREM SyncPointsSound == Spec => []SyncPointSound
<1>1. TypeOK /\ QueueInv => SyncPointSound
  <2> USE SyncPointHalfAssumption, SyncPointWidthAssumption, MaxUnobservedAssumption, MaxSignalAssumption
      DEF SyncPointHalfAssumption, SyncPointWidthAssumption, MaxUnobservedAssumption, MaxSignalAssumption
  <2> SUFFICES ASSUME TypeOK, QueueInv, NEW signal \in 0..emitted,
                      FinishedSignal(signal, SyncPointHalf), NEW s \in submissions
               PROVE  s.signal > signal
    BY DEF SyncPointSound
  <2> DEFINE v == RefreshedValue(signal, SyncPointHalf)
  <2>2. v \in Nat /\ reached <= v /\ v <= completed /\ reached \in Nat /\ completed \in Nat
        /\ emitted \in Nat /\ emitted <= MaxSignal
    BY DEF RefreshedValue, TypeOK
  <2>3. signal \in Nat /\ signal < 2 * SyncPointHalf /\ signal - v <= SyncPointHalf
    <3> HIDE DEF v
    <3>1. emitted - reached <= MaxUnobserved
      BY DEF QueueInv
    <3>2. signal \in Nat /\ signal <= emitted
      BY <2>2
    <3>3. QED
      BY <2>2, <3>1, <3>2
  <2>4. signal <= v
    <3>1. SignalReached(v, signal, SyncPointHalf)
      BY DEF FinishedSignal
    <3> HIDE DEF v
    <3>2. QED
      BY <2>2, <2>3, <3>1, SignalReachedSound
  <2>5. completed < s.signal /\ s.signal \in Nat
    BY DEF QueueInv, TypeOK, Submission
  <2>6. QED
    BY <2>2, <2>3, <2>4, <2>5
<1>2. QED
  BY <1>1, QueueInvariant, PTL

(* An allocator whose last submission is finished reads as finished while  *)
(* the fence is within the status range: FinishedAllocatorResettable holds *)
(* in every reachable state.                                               *)
THEOREM FinishedAllocatorsResettable == Spec => []FinishedAllocatorResettable
<1>1. TypeOK => FinishedAllocatorResettable
  <2> USE StatusHalfAssumption, MaxSignalAssumption DEF StatusHalfAssumption, MaxSignalAssumption
  <2> SUFFICES ASSUME TypeOK, NEW a \in Allocators, finishSignal[a] <= completed,
                      completed < 2 * StatusHalf
               PROVE  FinishedSignal(finishSignal[a], StatusHalf)
    BY DEF FinishedAllocatorResettable, StillExecuting
  <2>1. completed \in Nat /\ finishSignal[a] \in Nat /\ 2 * StatusHalf \in Nat \ {0}
    BY DEF TypeOK
  <2>2. completed % (2 * StatusHalf) = completed
    BY <2>1, ModSmall
  <2>3. SignalReached(completed, finishSignal[a], StatusHalf)
    BY <2>1, <2>2 DEF SignalReached
  <2>4. QED
    BY <2>3 DEF FinishedSignal, RefreshedValue
<1>2. QED
  BY <1>1, TypeCorrect, PTL

-----------------------------------------------------------------------------
(* Why the counters of an allocator match its lists.  A list is on an      *)
(* allocator that was created, and each step moves one list: what          *)
(* RecordedMemoryIntact needs of a reset is that no list is left on the    *)
(* allocator, which is what BookkeepingExact says of its guard.            *)
ListInv ==
  /\ \A l \in Lists : lists[l].phase # "detached" => phase[lists[l].allocator] # "free"
  /\ \A a \in hasOpenCommandList : phase[a] # "free"
  /\ \A a \in Allocators : IsFiniteSet(ListsOf(a, "open")) /\ IsFiniteSet(ListsOf(a, "closed"))
  /\ BookkeepingExact
  /\ RecordedMemoryIntact

LEMMA AttachedList ==
  ASSUME TypeOK, NEW l \in Lists, lists[l].phase # "detached"
  PROVE  lists[l] \in Attached /\ lists[l].allocator \in Allocators
  BY DEF TypeOK, Attached, Detached

(* Nothing recorded is left on an allocator whose guard lets it be reset.  *)
LEMMA NothingRecorded ==
  ASSUME TypeOK, ListInv, ~strayDiscard, NEW a \in Allocators,
         a \notin hasOpenCommandList, closedUnsubmitted[a] = 0
  PROVE  \A l \in Lists : lists[l].phase # "detached" => lists[l].allocator # a
<1>1. ListsOf(a, "open") = {} /\ ListsOf(a, "closed") = {}
  BY FS_EmptySet DEF ListInv, BookkeepingExact
<1>2. \A l \in Lists : lists[l].phase \in {"open", "closed", "detached"}
  BY DEF TypeOK, Attached, Detached
<1>3. QED
  BY <1>1, <1>2 DEF ListsOf

LEMMA ListInvInit == Init => ListInv
<1> SUFFICES ASSUME Init PROVE ListInv
  OBVIOUS
<1>1. \A l \in Lists : lists[l].phase = "detached"
  BY DEF Init, Detached
<1>2. \A a \in Allocators : ListsOf(a, "open") = {} /\ ListsOf(a, "closed") = {}
  BY <1>1 DEF ListsOf
<1>3. BookkeepingExact
  BY <1>2, FS_EmptySet DEF Init, BookkeepingExact
<1>4. QED
  BY <1>1, <1>2, <1>3, FS_EmptySet DEF Init, ListInv, RecordedMemoryIntact

(* The invariant is inductive.                                             *)
LEMMA ListInvStep ==
  ASSUME TypeOK, TypeOK', ListInv, [Next]_vars
  PROVE  ListInv'
<1> USE NoAllocatorAssumption DEF NoAllocatorAssumption, allocatorVars, queueVars
<1>1. ASSUME UNCHANGED <<phase, hasOpenCommandList, closedUnsubmitted, lists, epoch, failed,
                         strayDiscard>>
      PROVE  ListInv'
  <2>1. \A b \in Allocators, p \in {"open", "closed"} : ListsOf(b, p)' = ListsOf(b, p)
    BY <1>1 DEF ListsOf
  <2>2. BookkeepingExact' /\ RecordedMemoryIntact'
    BY <1>1, <2>1 DEF ListInv, BookkeepingExact, RecordedMemoryIntact
  <2>3. QED
    BY <1>1, <2>1, <2>2 DEF ListInv
<1>2. ASSUME NEW assertion, Fail(assertion),
             ~strayDiscard => assertion # "close without open list"
      PROVE  ListInv'
  <2>1. /\ UNCHANGED <<phase, hasOpenCommandList, closedUnsubmitted, lists, epoch, strayDiscard>>
        /\ failed' = assertion
    BY <1>2 DEF Fail
  <2>2. \A b \in Allocators, p \in {"open", "closed"} : ListsOf(b, p)' = ListsOf(b, p)
    BY <2>1 DEF ListsOf
  <2>3. BookkeepingExact' /\ RecordedMemoryIntact'
    BY <1>2, <2>1, <2>2 DEF ListInv, BookkeepingExact, RecordedMemoryIntact
  <2>4. QED
    BY <2>1, <2>2, <2>3 DEF ListInv
<1>3. ASSUME NEW a \in Allocators, CreateCommandAllocator(a) PROVE ListInv'
  <2>1. \A l \in Lists : lists[l].phase # "detached" => lists[l].allocator # a
    BY <1>3 DEF CreateCommandAllocator, ListInv
  <2>2. ListsOf(a, "open") = {} /\ ListsOf(a, "closed") = {}
    BY <2>1 DEF ListsOf
  <2>3. /\ phase' = [phase EXCEPT ![a] = "live"] /\ hasOpenCommandList' = hasOpenCommandList \ {a}
        /\ closedUnsubmitted' = [closedUnsubmitted EXCEPT ![a] = 0]
        /\ UNCHANGED <<lists, epoch, failed, strayDiscard>>
    BY <1>3 DEF CreateCommandAllocator
  <2>4. \A b \in Allocators, p \in {"open", "closed"} : ListsOf(b, p)' = ListsOf(b, p)
    BY <2>3 DEF ListsOf
  <2>5. BookkeepingExact'
    <3>1. ASSUME NEW b \in Allocators, b # a
          PROVE  closedUnsubmitted'[b] = closedUnsubmitted[b]
                 /\ (b \in hasOpenCommandList' <=> b \in hasOpenCommandList)
      BY <2>3, <3>1 DEF TypeOK
    <3>2. closedUnsubmitted'[a] = 0 /\ a \notin hasOpenCommandList'
      BY <2>3 DEF TypeOK
    <3>3. ~strayDiscard => failed # "close without open list"
      BY DEF ListInv, BookkeepingExact
    <3>4. QED
      BY <2>2, <2>3, <2>4, <3>1, <3>2, <3>3, FS_EmptySet DEF ListInv, BookkeepingExact
  <2>6. RecordedMemoryIntact'
    BY <2>1, <2>3 DEF ListInv, RecordedMemoryIntact, TypeOK
  <2>7. \A b \in Allocators : phase[b] # "free" => phase'[b] # "free"
    BY <2>3 DEF TypeOK
  <2>8. \A l \in Lists : lists'[l].phase # "detached" => phase'[lists'[l].allocator] # "free"
    BY <2>3, <2>7, AttachedList DEF ListInv
  <2>9. \A b \in hasOpenCommandList' : phase'[b] # "free"
    BY <2>3, <2>7 DEF ListInv, TypeOK
  <2>10. QED
    BY <2>4, <2>5, <2>6, <2>8, <2>9 DEF ListInv
<1>4. CASE CreateInDestroyedSlot
  BY <1>2, <1>4 DEF CreateInDestroyedSlot
<1>5. ASSUME NEW a \in Allocators, DestroyCommandAllocator(a) PROVE ListInv'
  <2>1. /\ phase' = [phase EXCEPT ![a] = "destroyed"] /\ epoch' = [epoch EXCEPT ![a] = 1 - @]
        /\ UNCHANGED <<hasOpenCommandList, closedUnsubmitted, lists, failed, strayDiscard>>
    BY <1>5 DEF DestroyCommandAllocator
  <2>2. BookkeepingExact'
    BY <2>1, ZenonT(60) DEF ListInv, BookkeepingExact, ListsOf
  <2>3. RecordedMemoryIntact'
    BY <2>1 DEF ListInv, RecordedMemoryIntact, TypeOK
  <2>4. QED
    BY <2>1, <2>2, <2>3, AttachedList DEF ListInv, ListsOf, TypeOK
<1>6. ASSUME NEW a \in Allocators, ResetCommandAllocator(a) PROVE ListInv'
  <2>1. /\ epoch' = [epoch EXCEPT ![a] = 1 - @]
        /\ a \notin hasOpenCommandList /\ closedUnsubmitted[a] = 0
        /\ UNCHANGED <<phase, hasOpenCommandList, closedUnsubmitted, lists, failed, strayDiscard>>
    BY <1>6 DEF ResetCommandAllocator
  <2>2. RecordedMemoryIntact'
    BY <2>1, NothingRecorded DEF ListInv, RecordedMemoryIntact, TypeOK
  <2>3. \A b \in Allocators, p \in {"open", "closed"} : ListsOf(b, p)' = ListsOf(b, p)
    BY <2>1 DEF ListsOf
  <2>4. BookkeepingExact'
    BY <2>1, <2>3 DEF ListInv, BookkeepingExact
  <2>5. QED
    BY <2>1, <2>2, <2>3, <2>4 DEF ListInv
<1>7. ASSUME NEW l \in Lists, NEW a \in Allocators, OpenCommandList(l, a) PROVE ListInv'
  <2> DEFINE moved == [phase |-> "open", allocator |-> a, epoch |-> epoch[a]]
  <2>1. /\ lists[l].phase = "detached" /\ phase[a] = "live" /\ a \notin hasOpenCommandList
        /\ hasOpenCommandList' = hasOpenCommandList \cup {a}
        /\ lists' = [lists EXCEPT ![l] = moved]
        /\ UNCHANGED <<phase, closedUnsubmitted, epoch, failed, strayDiscard>>
    BY <1>7 DEF OpenCommandList
  <2>2. \A b \in Allocators : l \notin ListsOf(b, "open") /\ l \notin ListsOf(b, "closed")
    BY <2>1 DEF ListsOf
  <2>3. /\ \A b \in Allocators : ListsOf(b, "closed")' = ListsOf(b, "closed")
        /\ \A b \in Allocators \ {a} : ListsOf(b, "open")' = ListsOf(b, "open")
        /\ ListsOf(a, "open")' = ListsOf(a, "open") \cup {l}
    BY <2>1, <2>2 DEF ListsOf, TypeOK
  <2>4. /\ IsFiniteSet(ListsOf(a, "open")')
        /\ Cardinality(ListsOf(a, "open")') = Cardinality(ListsOf(a, "open")) + 1
    BY <2>2, <2>3, FS_AddElement DEF ListInv
  <2>5. BookkeepingExact'
    <3>1. ASSUME NEW b \in Allocators, ~strayDiscard
          PROVE  Cardinality(ListsOf(b, "open")') = IF b \in hasOpenCommandList' THEN 1 ELSE 0
      <4>1. \A c \in Allocators :
              Cardinality(ListsOf(c, "open")) = IF c \in hasOpenCommandList THEN 1 ELSE 0
        BY <3>1 DEF ListInv, BookkeepingExact
      <4>2. CASE b = a
        BY <2>1, <2>4, <4>1, <4>2
      <4>3. CASE b # a
        BY <2>1, <2>3, <4>1, <4>3
      <4>4. QED
        BY <4>2, <4>3
    <3>2. QED
      BY <2>1, <2>3, <3>1 DEF ListInv, BookkeepingExact
  <2>6. RecordedMemoryIntact'
    BY <2>1 DEF ListInv, RecordedMemoryIntact, TypeOK
  <2>7. QED
    BY <2>1, <2>3, <2>4, <2>5, <2>6 DEF ListInv, TypeOK
<1>8. ASSUME NEW l \in Lists, CloseCommandList(l) PROVE ListInv'
  <2> DEFINE a == lists[l].allocator
             moved == [phase |-> "closed", allocator |-> a, epoch |-> lists[l].epoch]
  <2>1. /\ lists[l].phase = "open" /\ phase[a] = "live" /\ a \in hasOpenCommandList
        /\ hasOpenCommandList' = hasOpenCommandList \ {a}
        /\ closedUnsubmitted' = [closedUnsubmitted EXCEPT ![a] = @ + 1]
        /\ lists' = [lists EXCEPT ![l] = moved]
        /\ UNCHANGED <<phase, epoch, failed, strayDiscard>>
    BY <1>8 DEF CloseCommandList
  <2>2. a \in Allocators
    BY <2>1, AttachedList
  <2>3. l \in ListsOf(a, "open") /\ \A b \in Allocators : /\ l \notin ListsOf(b, "closed")
                                                          /\ b # a => l \notin ListsOf(b, "open")
    BY <2>1 DEF ListsOf
  <2>4. /\ \A b \in Allocators \ {a} : /\ ListsOf(b, "closed")' = ListsOf(b, "closed")
                                        /\ ListsOf(b, "open")' = ListsOf(b, "open")
        /\ ListsOf(a, "closed")' = ListsOf(a, "closed") \cup {l}
        /\ ListsOf(a, "open")' = ListsOf(a, "open") \ {l}
    BY <2>1, <2>3 DEF ListsOf, TypeOK
  <2>5. /\ IsFiniteSet(ListsOf(a, "open")') /\ IsFiniteSet(ListsOf(a, "closed")')
        /\ Cardinality(ListsOf(a, "open")') = Cardinality(ListsOf(a, "open")) - 1
        /\ Cardinality(ListsOf(a, "closed")') = Cardinality(ListsOf(a, "closed")) + 1
    <3>1. IsFiniteSet(ListsOf(a, "open")) /\ IsFiniteSet(ListsOf(a, "closed"))
      BY <2>2 DEF ListInv
    <3> HIDE DEF a
    <3>2. QED
      BY <2>2, <2>3, <2>4, <3>1, FS_AddElement, FS_RemoveElement
  <2>6. BookkeepingExact'
    <3>1. ASSUME NEW b \in Allocators
          PROVE  Cardinality(ListsOf(b, "closed")') = closedUnsubmitted'[b]
      BY <2>1, <2>2, <2>4, <2>5 DEF ListInv, BookkeepingExact, TypeOK
    <3>2. ASSUME NEW b \in Allocators, ~strayDiscard
          PROVE  Cardinality(ListsOf(b, "open")') = IF b \in hasOpenCommandList' THEN 1 ELSE 0
      <4>1. \A c \in Allocators :
              Cardinality(ListsOf(c, "open")) = IF c \in hasOpenCommandList THEN 1 ELSE 0
        BY <3>2 DEF ListInv, BookkeepingExact
      <4>2. CASE b = a
        BY <2>1, <2>5, <4>1, <4>2
      <4>3. CASE b # a
        BY <2>1, <2>4, <4>1, <4>3
      <4>4. QED
        BY <4>2, <4>3
    <3>3. QED
      BY <2>1, <3>1, <3>2 DEF ListInv, BookkeepingExact
  <2>7. RecordedMemoryIntact'
    BY <2>1, <2>2 DEF ListInv, RecordedMemoryIntact, TypeOK
  <2>8. QED
    BY <2>1, <2>2, <2>4, <2>5, <2>6, <2>7 DEF ListInv, TypeOK
<1>9. ASSUME NEW l \in Lists, CloseWithoutOpenList(l) PROVE ListInv'
  <2> DEFINE a == lists[l].allocator
  <2>1. lists[l].phase = "open" /\ a \notin hasOpenCommandList /\ Fail("close without open list")
    BY <1>9 DEF CloseWithoutOpenList
  <2>2. a \in Allocators /\ l \in ListsOf(a, "open")
    BY <2>1, AttachedList DEF ListsOf
  <2>3. Cardinality(ListsOf(a, "open")) # 0
    BY <2>2, FS_EmptySet DEF ListInv
  <2>4. strayDiscard
    BY <2>1, <2>2, <2>3 DEF ListInv, BookkeepingExact
  <2>5. QED
    BY <1>2, <2>1, <2>4
<1>10. ASSUME NEW l \in Lists, NEW a \in Allocators, a = lists[l].allocator,
              lists[l].phase = "closed", lists' = [lists EXCEPT ![l] = Detached],
              closedUnsubmitted' = [closedUnsubmitted EXCEPT ![a] = @ - 1]
       PROVE  /\ \A b \in Allocators :
                   /\ ListsOf(b, "open")' = ListsOf(b, "open")
                   /\ IsFiniteSet(ListsOf(b, "closed")')
                   /\ Cardinality(ListsOf(b, "closed")') = closedUnsubmitted'[b]
              /\ \A m \in Lists : lists'[m] = lists[m] \/ lists'[m].phase = "detached"
  <2>1. l \in ListsOf(a, "closed") /\ \A b \in Allocators : /\ l \notin ListsOf(b, "open")
                                                            /\ b # a => l \notin ListsOf(b, "closed")
    BY <1>10 DEF ListsOf
  <2>2. Detached.phase = "detached"
    BY DEF Detached
  <2>3. /\ \A b \in Allocators : ListsOf(b, "open")' = ListsOf(b, "open")
        /\ \A b \in Allocators \ {a} : ListsOf(b, "closed")' = ListsOf(b, "closed")
        /\ ListsOf(a, "closed")' = ListsOf(a, "closed") \ {l}
    BY <1>10, <2>1, <2>2 DEF ListsOf, TypeOK
  <2>4. /\ IsFiniteSet(ListsOf(a, "closed")')
        /\ Cardinality(ListsOf(a, "closed")') = Cardinality(ListsOf(a, "closed")) - 1
    BY <2>1, <2>3, FS_RemoveElement DEF ListInv
  <2>5. \A c \in Allocators : /\ IsFiniteSet(ListsOf(c, "closed"))
                              /\ Cardinality(ListsOf(c, "closed")) = closedUnsubmitted[c]
    BY DEF ListInv, BookkeepingExact
  <2>6. ASSUME NEW b \in Allocators
        PROVE  IsFiniteSet(ListsOf(b, "closed")') /\ Cardinality(ListsOf(b, "closed")') = closedUnsubmitted'[b]
    <3>1. CASE b = a
      BY <1>10, <2>4, <2>5, <3>1 DEF TypeOK
    <3>2. CASE b # a
      BY <1>10, <2>3, <2>5, <3>2 DEF TypeOK
    <3>3. QED
      BY <3>1, <3>2
  <2>7. \A m \in Lists : lists'[m] = lists[m] \/ lists'[m].phase = "detached"
    BY <1>10, <2>2 DEF TypeOK
  <2>8. QED
    BY <2>3, <2>6, <2>7
<1>11. ASSUME NEW l \in Lists, DiscardCommandList(l) PROVE ListInv'
  <2> DEFINE a == lists[l].allocator
  <2>1. /\ lists[l].phase = "closed"
        /\ closedUnsubmitted' = [closedUnsubmitted EXCEPT ![a] = @ - 1]
        /\ hasOpenCommandList' = hasOpenCommandList \ {a}
        /\ lists' = [lists EXCEPT ![l] = Detached]
        /\ strayDiscard' = (strayDiscard \/ ListsOf(a, "open") # {})
        /\ UNCHANGED <<phase, epoch, failed>>
    BY <1>11 DEF DiscardCommandList
  <2>2. a \in Allocators
    BY <2>1, AttachedList
  <2> HIDE DEF a
  <2>3. /\ \A b \in Allocators : /\ ListsOf(b, "open")' = ListsOf(b, "open")
                                 /\ IsFiniteSet(ListsOf(b, "closed")')
                                 /\ Cardinality(ListsOf(b, "closed")') = closedUnsubmitted'[b]
        /\ \A m \in Lists : lists'[m] = lists[m] \/ lists'[m].phase = "detached"
    BY <1>10, <2>1, <2>2 DEF a
  <2>4. ~strayDiscard' => ~strayDiscard /\ ListsOf(a, "open") = {}
    BY <2>1
  <2>5. BookkeepingExact'
    BY <2>1, <2>2, <2>3, <2>4, FS_EmptySet, ZenonT(60) DEF ListInv, BookkeepingExact
  <2>6. RecordedMemoryIntact'
    BY <2>1, <2>3, <2>4 DEF ListInv, RecordedMemoryIntact
  <2>7. QED
    BY <2>1, <2>3, <2>5, <2>6 DEF ListInv
<1>12. ASSUME NEW l \in Lists, SubmitCommandList(l) PROVE ListInv'
  <2> DEFINE a == lists[l].allocator
  <2>1. /\ lists[l].phase = "closed"
        /\ closedUnsubmitted' = [closedUnsubmitted EXCEPT ![a] = @ - 1]
        /\ lists' = [lists EXCEPT ![l] = Detached]
        /\ UNCHANGED <<phase, hasOpenCommandList, epoch, failed, strayDiscard>>
    BY <1>12 DEF SubmitCommandList
  <2>2. a \in Allocators
    BY <2>1, AttachedList
  <2> HIDE DEF a
  <2>3. /\ \A b \in Allocators : /\ ListsOf(b, "open")' = ListsOf(b, "open")
                                 /\ IsFiniteSet(ListsOf(b, "closed")')
                                 /\ Cardinality(ListsOf(b, "closed")') = closedUnsubmitted'[b]
        /\ \A m \in Lists : lists'[m] = lists[m] \/ lists'[m].phase = "detached"
    BY <1>10, <2>1, <2>2 DEF a
  <2>4. BookkeepingExact'
    BY <2>1, <2>3 DEF ListInv, BookkeepingExact
  <2>5. RecordedMemoryIntact'
    BY <2>1, <2>3 DEF ListInv, RecordedMemoryIntact
  <2>6. QED
    BY <2>1, <2>3, <2>4, <2>5 DEF ListInv
<1>13. ASSUME NEW a \in Allocators, StatusSignalTooWide(a) PROVE ListInv'
  BY <1>2, <1>13 DEF StatusSignalTooWide
<1>14. CASE SubmitOutputFlip
  BY <1>1, <1>14 DEF SubmitOutputFlip
<1>15. ASSUME NEW signal \in 0..emitted, QuerySyncPoint(signal) PROVE ListInv'
  BY <1>1, <1>15 DEF QuerySyncPoint
<1>16. CASE GPUAdvance
  BY <1>1, <1>16 DEF GPUAdvance
<1>17. CASE UNCHANGED vars
  BY <1>1, <1>17 DEF vars
<1>18. QED
  BY <1>3, <1>4, <1>5, <1>6, <1>7, <1>8, <1>9, <1>11, <1>12, <1>13, <1>14, <1>15, <1>16,
     <1>17 DEF Next

(* The inductive invariant about lists and the counters of allocators.     *)
THEOREM ListInvariant == Spec => [](TypeOK /\ ListInv)
<1>1. TypeOK /\ TypeOK' /\ ListInv /\ [Next]_vars => ListInv'
  BY ListInvStep
<1>2. QED
  BY <1>1, ListInvInit, TypeCorrect, PTL DEF Spec

(* BookkeepingExact holds in every reachable state: the counter of closed  *)
(* lists is exact, and short of a stray discard so is the open flag, and   *)
(* closeCommandList's assertion holds.                                     *)
THEOREM BookkeepingAlwaysExact == Spec => []BookkeepingExact
<1>1. ListInv => BookkeepingExact
  BY DEF ListInv
<1>2. QED
  BY <1>1, ListInvariant, PTL

(* RecordedMemoryIntact holds in every reachable state: a reset never      *)
(* takes the memory from under a list that is still to be submitted.       *)
THEOREM RecordedMemoryNeverReset == Spec => []RecordedMemoryIntact
<1>1. ListInv => RecordedMemoryIntact
  BY DEF ListInv
<1>2. QED
  BY <1>1, ListInvariant, PTL

=============================================================================
