------------------------- MODULE CommandSubmission -------------------------
(***************************************************************************)
(* Command allocators, command lists and the graphics queue of the D3D12   *)
(* HAL device (XEngine.Gfx.HAL.D3D12.cpp): lists are opened on an          *)
(* allocator, closed, then submitted or discarded; every submission and    *)
(* every output flip emits the next fence signal; the memory of an         *)
(* allocator may be reset only when nothing recorded in it can be read     *)
(* any more.                                                               *)
(*                                                                         *)
(* A contract assertion (XEMasterAssert on what the caller does) stops the *)
(* program before anything happens, so it is a conjunct of the action's    *)
(* guard.  An assertion on the device's own bookkeeping is a claim the     *)
(* code makes about itself: the step in which it fails is in the model and *)
(* leaves its name in `failed`.                                            *)
(***************************************************************************)
EXTENDS Integers, FiniteSets

CONSTANTS
  Allocators,     \* slots of the device's command allocator pool
  NoAllocator,    \* the allocator of a detached list
  Lists,          \* HAL::CommandList objects of the client
  StatusHalf,     \* 2^(n-1), n the signal width updateCommandAllocatorExecutionStatus asks for
  SyncPointHalf,  \* 2^(n-1), n the signal width of a DeviceQueueSyncPoint (48 bits in the code)
  MaxUnobserved,  \* signals the client emits between two looks at the fence, at most
  MaxSignal       \* bound of the model: signals emitted over a behaviour

ASSUME NoAllocatorAssumption == NoAllocator \notin Allocators
ASSUME StatusHalfAssumption == StatusHalf \in Nat \ {0}
ASSUME SyncPointHalfAssumption == SyncPointHalf \in Nat \ {0}
ASSUME MaxSignalAssumption == MaxSignal \in Nat
(* The client waits for its frame every few submissions (Game0's loop);    *)
(* a client that emits half the status range unobserved is out of scope.   *)
ASSUME MaxUnobservedAssumption ==
  MaxUnobserved \in Nat /\ MaxUnobserved <= StatusHalf /\ MaxUnobserved <= SyncPointHalf
(* The 48-bit signal of a sync point does not wrap.                        *)
ASSUME SyncPointWidthAssumption == MaxSignal < 2 * SyncPointHalf

VARIABLES
  \* The CommandAllocator pool entries, field by field
  phase,              \* "free" (never allocated), "live" or "destroyed" pool slot
  hasOpenCommandList, \* the allocators whose flag is set
  closedUnsubmitted,  \* closedUnsubmittedCommandListCount
  executing,          \* the allocators whose queueExecutionMask is not zero
  finishSignal,       \* queueExecutionFinishSignals
  \* The HAL::CommandList objects, and the graphics queue
  lists,              \* phase, allocator, and the epoch the list was opened in
  emitted,            \* Queue::deviceSignalEmittedValue
  reached,            \* Queue::deviceSignalReachedValue: the fence value last read
  \* The GPU
  completed,          \* the value of the D3D12 fence
  submissions,        \* what is not finished: allocator, epoch when submitted, signal
  \* What the properties are about
  epoch,              \* per allocator, flipped by every Reset or Release of its memory
  failed,             \* the bookkeeping assertion that failed, if any
  strayDiscard        \* a list was discarded while another one of its allocator was open

allocatorVars == <<phase, hasOpenCommandList, closedUnsubmitted, executing, finishSignal>>
queueVars == <<emitted, reached, completed, submissions>>
vars == <<allocatorVars, lists, queueVars, epoch, failed, strayDiscard>>

Detached == [phase |-> "detached", allocator |-> NoAllocator, epoch |-> 0]
Attached == [phase : {"open", "closed"}, allocator : Allocators, epoch : {0, 1}]
Submission == [allocator : Allocators, epoch : {0, 1}, signal : 1..MaxSignal]
Failures == {"none", "signal exceeds mask", "close without open list",
             "slot not cleared"}

ListsOf(a, p) == {l \in Lists : lists[l].phase = p /\ lists[l].allocator = a}
Running == failed = "none"

-----------------------------------------------------------------------------
(* isDeviceSignalValueReached on one fence value: the unsigned difference  *)
(* (value & mask) - signal is below 2^64 - half.                           *)
SignalReached_OneShort(value, signal, half) == value + 1 - signal >= 0

SignalReached(value, signal, half) ==
  LET difference == (value % (2 * half)) - signal
  IN  difference >= 0 \/ difference < -half

(* The cached value is tried first; the fence is read when it falls short. *)
RefreshedValue_Emitted(signal, half) == emitted

RefreshedValue(signal, half) ==
  IF SignalReached(reached, signal, half) THEN reached ELSE completed

FinishedSignal_CachedOnly(signal, half) == SignalReached(reached, signal, half)

FinishedSignal(signal, half) == SignalReached(RefreshedValue(signal, half), signal, half)

(* isDeviceSignalValueReached asserts that the signal fits its mask.       *)
SignalFits(signal, half) == signal < 2 * half

(* updateCommandAllocatorExecutionStatus, on an allocator the GPU may hold. *)
StatusAsserts(a) == a \in executing => SignalFits(finishSignal[a], StatusHalf)

StillExecuting_ForgetsQueue(a) == FALSE

StillExecuting(a) == a \in executing /\ ~FinishedSignal(finishSignal[a], StatusHalf)

RefreshStatus(a) ==
  /\ reached' = IF a \in executing THEN RefreshedValue(finishSignal[a], StatusHalf) ELSE reached
  /\ executing' = executing \ {a}

Fail(assertion) ==
  /\ Running
  /\ failed' = assertion
  /\ UNCHANGED <<allocatorVars, lists, queueVars, epoch, strayDiscard>>

-----------------------------------------------------------------------------
Init ==
  /\ phase = [a \in Allocators |-> "free"]
  /\ hasOpenCommandList = {} /\ executing = {}
  /\ closedUnsubmitted = [a \in Allocators |-> 0]
  /\ finishSignal = [a \in Allocators |-> 0]
  /\ lists = [l \in Lists |-> Detached]
  /\ emitted = 0 /\ reached = 0 /\ completed = 0
  /\ submissions = {}
  /\ epoch = [a \in Allocators |-> 0]
  /\ failed = "none"
  /\ strayDiscard = FALSE

(* createCommandAllocator.  The pool hands out a released slot first, and  *)
(* such a slot still holds its D3D12 allocator.                            *)
CreateCommandAllocator(a) ==
  /\ Running
  /\ phase[a] = "free"
  /\ \A b \in Allocators : phase[b] # "destroyed"
  /\ phase' = [phase EXCEPT ![a] = "live"]
  /\ closedUnsubmitted' = [closedUnsubmitted EXCEPT ![a] = 0]
  /\ finishSignal' = [finishSignal EXCEPT ![a] = 0]
  /\ hasOpenCommandList' = hasOpenCommandList \ {a}
  /\ executing' = executing \ {a}
  /\ UNCHANGED <<lists, queueVars, epoch, failed, strayDiscard>>

CreateInDestroyedSlot ==
  /\ \E b \in Allocators : phase[b] = "destroyed"
  /\ Fail("slot not cleared")

(* destroyCommandAllocator: asserts that a list IS open (line 1335).       *)
DestroyCommandAllocator(a) ==
  /\ Running
  /\ phase[a] = "live"
  /\ closedUnsubmitted[a] = 0
  /\ a \in hasOpenCommandList
  /\ StatusAsserts(a) /\ ~StillExecuting(a)
  /\ RefreshStatus(a)
  /\ phase' = [phase EXCEPT ![a] = "destroyed"]
  /\ epoch' = [epoch EXCEPT ![a] = 1 - @]
  /\ UNCHANGED <<hasOpenCommandList, closedUnsubmitted, finishSignal, lists, emitted,
                 completed, submissions, failed, strayDiscard>>

OpenCommandList(l, a) ==
  /\ Running
  /\ lists[l].phase = "detached"
  /\ phase[a] = "live"
  /\ a \notin hasOpenCommandList
  /\ hasOpenCommandList' = hasOpenCommandList \cup {a}
  /\ lists' = [lists EXCEPT ![l] = [phase |-> "open", allocator |-> a, epoch |-> epoch[a]]]
  /\ UNCHANGED <<phase, closedUnsubmitted, executing, finishSignal, queueVars, epoch, failed,
                 strayDiscard>>

CloseCommandList(l) ==
  LET a == lists[l].allocator IN
  /\ Running
  /\ lists[l].phase = "open"
  /\ phase[a] = "live"
  /\ a \in hasOpenCommandList
  /\ closedUnsubmitted' = [closedUnsubmitted EXCEPT ![a] = @ + 1]
  /\ hasOpenCommandList' = hasOpenCommandList \ {a}
  /\ lists' = [lists EXCEPT ![l] = [phase |-> "closed", allocator |-> a, epoch |-> lists[l].epoch]]
  /\ UNCHANGED <<phase, executing, finishSignal, queueVars, epoch, failed, strayDiscard>>

CloseWithoutOpenList(l) ==
  /\ lists[l].phase = "open"
  /\ phase[lists[l].allocator] = "live"
  /\ lists[l].allocator \notin hasOpenCommandList
  /\ Fail("close without open list")

(* discardCommandList clears hasOpenCommandList whichever list is open.    *)
DiscardCommandList(l) ==
  LET a == lists[l].allocator IN
  /\ Running
  /\ lists[l].phase = "closed"
  /\ phase[a] = "live"
  /\ closedUnsubmitted[a] > 0
  /\ closedUnsubmitted' = [closedUnsubmitted EXCEPT ![a] = @ - 1]
  /\ hasOpenCommandList' = hasOpenCommandList \ {a}
  /\ lists' = [lists EXCEPT ![l] = Detached]
  /\ strayDiscard' = (strayDiscard \/ ListsOf(a, "open") # {})
  /\ UNCHANGED <<phase, executing, finishSignal, queueVars, epoch, failed>>

MayEmit == emitted < MaxSignal /\ emitted - reached < MaxUnobserved

SubmitCommandList_KeepsCount(l) ==
  LET a == lists[l].allocator IN
  /\ Running
  /\ lists[l].phase = "closed"
  /\ MayEmit
  /\ emitted' = emitted + 1
  /\ submissions' = submissions \cup
       {[allocator |-> a, epoch |-> epoch[a], signal |-> emitted + 1]}
  /\ executing' = executing \cup {a}
  /\ finishSignal' = [finishSignal EXCEPT ![a] = emitted + 1]
  /\ lists' = [lists EXCEPT ![l] = Detached]
  /\ UNCHANGED <<phase, hasOpenCommandList, closedUnsubmitted, reached, completed, epoch,
                 failed, strayDiscard>>

(* submitCommandList: execute, signal, then the allocator's bookkeeping.   *)
SubmitCommandList(l) ==
  LET a == lists[l].allocator IN
  /\ Running
  /\ lists[l].phase = "closed"
  /\ phase[a] = "live"
  /\ closedUnsubmitted[a] > 0
  /\ MayEmit
  /\ emitted' = emitted + 1
  /\ submissions' = submissions \cup
       {[allocator |-> a, epoch |-> epoch[a], signal |-> emitted + 1]}
  /\ closedUnsubmitted' = [closedUnsubmitted EXCEPT ![a] = @ - 1]
  /\ executing' = executing \cup {a}
  /\ finishSignal' = [finishSignal EXCEPT ![a] = emitted + 1]
  /\ lists' = [lists EXCEPT ![l] = Detached]
  /\ UNCHANGED <<phase, hasOpenCommandList, reached, completed, epoch, failed, strayDiscard>>

(* submitOutputFlip: Present, then the next signal.                        *)
SubmitOutputFlip ==
  /\ Running
  /\ MayEmit
  /\ emitted' = emitted + 1
  /\ UNCHANGED <<allocatorVars, lists, reached, completed, submissions, epoch, failed,
                 strayDiscard>>

(* resetCommandAllocator with the guard on unfinished lists left out.      *)
ResetCommandAllocator_IgnoresLists(a) ==
  /\ Running
  /\ phase[a] = "live"
  /\ StatusAsserts(a) /\ ~StillExecuting(a)
  /\ RefreshStatus(a)
  /\ epoch' = [epoch EXCEPT ![a] = 1 - @]
  /\ UNCHANGED <<phase, hasOpenCommandList, closedUnsubmitted, finishSignal, lists, emitted,
                 completed, submissions, failed, strayDiscard>>

ResetCommandAllocator(a) ==
  /\ Running
  /\ phase[a] = "live"
  /\ a \notin hasOpenCommandList /\ closedUnsubmitted[a] = 0
  /\ StatusAsserts(a) /\ ~StillExecuting(a)
  /\ RefreshStatus(a)
  /\ epoch' = [epoch EXCEPT ![a] = 1 - @]
  /\ UNCHANGED <<phase, hasOpenCommandList, closedUnsubmitted, finishSignal, lists, emitted,
                 completed, submissions, failed, strayDiscard>>

(* Reset and destroy run updateCommandAllocatorExecutionStatus, whose call *)
(* of isDeviceSignalValueReached asserts that the signal fits.             *)
StatusSignalTooWide(a) ==
  /\ phase[a] = "live" /\ closedUnsubmitted[a] = 0
  /\ ~StatusAsserts(a)
  /\ Fail("signal exceeds mask")

(* isQueueSyncPointReached: getEOPSyncPoint handed out `signal` when it    *)
(* was the emitted value.                                                  *)
QuerySyncPoint(signal) ==
  /\ Running
  /\ reached' = RefreshedValue(signal, SyncPointHalf)
  /\ UNCHANGED <<allocatorVars, lists, emitted, completed, submissions, epoch, failed,
                 strayDiscard>>

(* The GPU executes the queue in order and signals the fence.              *)
GPUAdvance ==
  /\ completed < emitted
  /\ completed' = completed + 1
  /\ submissions' = {s \in submissions : s.signal > completed + 1}
  /\ UNCHANGED <<allocatorVars, lists, emitted, reached, epoch, failed, strayDiscard>>

Next ==
  \/ \E a \in Allocators : CreateCommandAllocator(a)
  \/ CreateInDestroyedSlot
  \/ \E a \in Allocators : DestroyCommandAllocator(a)
  \/ \E l \in Lists, a \in Allocators : OpenCommandList(l, a)
  \/ \E l \in Lists : CloseCommandList(l)
  \/ \E l \in Lists : CloseWithoutOpenList(l)
  \/ \E l \in Lists : DiscardCommandList(l)
  \/ \E l \in Lists : SubmitCommandList(l)
  \/ SubmitOutputFlip
  \/ \E a \in Allocators : ResetCommandAllocator(a)
  \/ \E a \in Allocators : StatusSignalTooWide(a)
  \/ \E signal \in 0..emitted : QuerySyncPoint(signal)
  \/ GPUAdvance

Spec == Init /\ [][Next]_vars

-----------------------------------------------------------------------------
(* The shape of the state; the value last read lags the fence, the fence   *)
(* lags what was emitted.                                                  *)
TypeOK ==
  /\ phase \in [Allocators -> {"free", "live", "destroyed"}]
  /\ hasOpenCommandList \subseteq Allocators
  /\ closedUnsubmitted \in [Allocators -> Nat]
  /\ executing \subseteq Allocators
  /\ finishSignal \in [Allocators -> 0..MaxSignal]
  /\ lists \in [Lists -> Attached \cup {Detached}]
  /\ emitted \in 0..MaxSignal
  /\ completed \in 0..emitted
  /\ reached \in 0..completed
  /\ submissions \subseteq Submission
  /\ epoch \in [Allocators -> {0, 1}]
  /\ failed \in Failures
  /\ strayDiscard \in BOOLEAN

(* The memory a submission was recorded in is not reset while the GPU can  *)
(* still read it (resetCommandAllocator's wait on the execution status).   *)
SubmittedMemoryIntact == \A s \in submissions : s.epoch = epoch[s.allocator]

(* As long as no list was discarded beside an open one of its allocator,   *)
(* whatever was recorded and not submitted yet is still in memory that was *)
(* not reset.  (destroyCommandAllocator releases memory under an open list *)
(* by its own assertion; such a list can never be closed.)                 *)
RecordedMemoryIntact ==
  ~strayDiscard =>
    \A a \in Allocators, l \in Lists :
      phase[a] = "live" /\ lists[l].phase # "detached" /\ lists[l].allocator = a
        => lists[l].epoch = epoch[a]

(* closedUnsubmittedCommandListCount is the number of closed lists (so     *)
(* that submit and discard never find it zero), and, short of such a       *)
(* discard, hasOpenCommandList says whether a list is open: an allocator   *)
(* records one list at a time and closeCommandList's assertion holds.      *)
BookkeepingExact ==
  \A a \in Allocators :
    /\ Cardinality(ListsOf(a, "closed")) = closedUnsubmitted[a]
    /\ ~strayDiscard =>
         /\ Cardinality(ListsOf(a, "open")) = IF a \in hasOpenCommandList THEN 1 ELSE 0
         /\ failed # "close without open list"

(* A sync point that reads as reached covers everything submitted before   *)
(* it was taken: the GPU is done with all of it (isQueueSyncPointReached). *)
SyncPointSound ==
  \A signal \in 0..emitted :
    FinishedSignal(signal, SyncPointHalf) => \A s \in submissions : s.signal > signal

(* Until the fence leaves the status range, an allocator whose work is all *)
(* done is seen as done, so that its next reset is not refused.            *)
FinishedAllocatorResettable ==
  \A a \in Allocators :
    finishSignal[a] <= completed /\ completed < 2 * StatusHalf => ~StillExecuting(a)

(* isDeviceSignalValueReached's XEAssert((signalValue & ~mask) == 0).      *)
SignalAssertionHolds == failed # "signal exceeds mask"

=============================================================================
