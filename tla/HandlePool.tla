----------------------------- MODULE HandlePool -----------------------------
(***************************************************************************)
(* Device::Pool of the D3D12 HAL: the fixed array behind every handle of   *)
(* the device.  A released entry goes to the front of an intrusive         *)
(* freelist and gets the next 8-bit handle generation; a handle resolves   *)
(* while its generation is the entry's.  What a client holds are handles,  *)
(* also of entries released long ago; using one that does not resolve      *)
(* stops the program, so it is no step here.                               *)
(***************************************************************************)
EXTENDS Integers, FiniteSets

CONSTANTS
  Capacity,     \* entries of the pool
  Generations,  \* 2^8 in the code
  MaxReleases   \* bound of the model: releases of one entry over a behaviour

ASSUME CapacityAssumption == Capacity \in Nat
ASSUME GenerationsAssumption == Generations \in Nat \ {0}
ASSUME MaxReleasesAssumption == MaxReleases \in Nat

VARIABLES
  committedEntryCount, freelistHeadIdx, freelistLength,
  freelistNextIdx,   \* PoolEntryBase, field by field
  handleGeneration,
  allocated,         \* the entries whose isAllocated is set
  \* What the properties are about
  releases,          \* how often each entry was released
  issued,            \* handles handed out: entry, generation, and its `releases` then
  rank               \* position of an entry in the freelist from its end, 0 when not in it

pool == <<committedEntryCount, freelistHeadIdx, freelistLength, freelistNextIdx,
          handleGeneration, allocated>>
vars == <<pool, releases, issued, rank>>

Entries == 0..(Capacity - 1)
Handle == [index : Entries, generation : 0..(Generations - 1), birth : 0..MaxReleases]

(* resolveHandleToEntryIndex.                                              *)
Resolves_IgnoresGeneration(h) == h.index < committedEntryCount /\ h.index \in allocated

Resolves(h) ==
  /\ h.index < committedEntryCount
  /\ h.generation = handleGeneration[h.index]
  /\ h.index \in allocated

(* handleGeneration is a uint8.                                            *)
NextGeneration(g) == (g + 1) % Generations

(* ComposeHandle.                                                          *)
Issue_Next(i) == issued' = issued \cup
  {[index |-> i, generation |-> NextGeneration(handleGeneration[i]), birth |-> releases[i]]}

Issue(i) == issued' = issued \cup
              {[index |-> i, generation |-> handleGeneration[i], birth |-> releases[i]]}

-----------------------------------------------------------------------------
Init ==
  /\ committedEntryCount = 0 /\ freelistHeadIdx = 0 /\ freelistLength = 0
  /\ freelistNextIdx = [i \in Entries |-> 0]
  /\ handleGeneration = [i \in Entries |-> 0]
  /\ allocated = {}
  /\ releases = [i \in Entries |-> 0]
  /\ issued = {}
  /\ rank = [i \in Entries |-> 0]

(* allocate takes the entry released last.                                 *)
AllocateFromFreelist_KeepsHead ==
  LET i == freelistHeadIdx IN
  /\ freelistLength > 0
  /\ freelistHeadIdx' = freelistHeadIdx
  /\ freelistLength' = freelistLength - 1
  /\ allocated' = allocated \cup {i}
  /\ Issue(i)
  /\ rank' = [rank EXCEPT ![i] = 0]
  /\ UNCHANGED <<committedEntryCount, freelistNextIdx, handleGeneration, releases>>

AllocateFromFreelist ==
  LET i == freelistHeadIdx IN
  /\ freelistLength > 0
  /\ freelistHeadIdx' = freelistNextIdx[i]
  /\ freelistLength' = freelistLength - 1
  /\ allocated' = allocated \cup {i}
  /\ Issue(i)
  /\ rank' = [rank EXCEPT ![i] = 0]
  /\ UNCHANGED <<committedEntryCount, freelistNextIdx, handleGeneration, releases>>

(* or, with none released, the next that was never used.                   *)
AllocateNewEntry ==
  LET i == committedEntryCount IN
  /\ freelistLength = 0
  /\ committedEntryCount < Capacity
  /\ committedEntryCount' = committedEntryCount + 1
  /\ allocated' = allocated \cup {i}
  /\ Issue(i)
  /\ UNCHANGED <<freelistHeadIdx, freelistLength, freelistNextIdx, handleGeneration, releases,
                 rank>>

(* release.                                                                *)
Release_Uncounted(h) ==
  LET i == h.index IN
  /\ Resolves(h)
  /\ releases[i] < MaxReleases
  /\ allocated' = allocated \ {i}
  /\ handleGeneration' = [handleGeneration EXCEPT ![i] = NextGeneration(@)]
  /\ freelistNextIdx' = [freelistNextIdx EXCEPT ![i] = freelistHeadIdx]
  /\ freelistHeadIdx' = i
  /\ releases' = [releases EXCEPT ![i] = @ + 1]
  /\ rank' = [rank EXCEPT ![i] = freelistLength + 1]
  /\ UNCHANGED <<committedEntryCount, freelistLength, issued>>

Release(h) ==
  LET i == h.index IN
  /\ Resolves(h)
  /\ releases[i] < MaxReleases
  /\ allocated' = allocated \ {i}
  /\ handleGeneration' = [handleGeneration EXCEPT ![i] = NextGeneration(@)]
  /\ freelistNextIdx' = [freelistNextIdx EXCEPT ![i] = freelistHeadIdx]
  /\ freelistHeadIdx' = i
  /\ freelistLength' = freelistLength + 1
  /\ releases' = [releases EXCEPT ![i] = @ + 1]
  /\ rank' = [rank EXCEPT ![i] = freelistLength + 1]
  /\ UNCHANGED <<committedEntryCount, issued>>

Next ==
  \/ AllocateFromFreelist
  \/ AllocateNewEntry
  \/ \E h \in issued : Release(h)

Spec == Init /\ [][Next]_vars

-----------------------------------------------------------------------------
TypeOK ==
  /\ committedEntryCount \in 0..Capacity
  /\ freelistHeadIdx \in Nat
  /\ freelistLength \in Nat
  /\ freelistNextIdx \in [Entries -> Nat]
  /\ handleGeneration \in [Entries -> 0..(Generations - 1)]
  /\ allocated \subseteq 0..(committedEntryCount - 1)
  /\ releases \in [Entries -> 0..MaxReleases]
  /\ issued \subseteq Handle
  /\ rank \in [Entries -> Nat]

(* The freelist holds every entry that was used and is free, each once,    *)
(* linked from freelistHeadIdx in freelistLength steps: no entry leaks,    *)
(* and the entry allocate takes is one that is free (its assertions on     *)
(* freelistHeadIdx and isAllocated).                                       *)
FreelistSound ==
  LET free == (0..(committedEntryCount - 1)) \ allocated IN
  /\ \A r \in 1..freelistLength : \E i \in free : rank[i] = r
  /\ \A i \in free : rank[i] \in 1..freelistLength
  /\ \A i, j \in free : rank[i] = rank[j] => i = j
  /\ freelistLength > 0 => freelistHeadIdx \in free /\ rank[freelistHeadIdx] = freelistLength
  /\ \A i \in free : rank[i] > 1 =>
       freelistNextIdx[i] \in free /\ rank[freelistNextIdx[i]] = rank[i] - 1

(* A handle of an entry that was released does not resolve, however often  *)
(* the entry was allocated again, until it was released Generations times. *)
StaleHandleRejected ==
  \A h \in issued :
    Resolves(h) /\ releases[h.index] - h.birth < Generations => releases[h.index] = h.birth

(* The handle of an entry that was not released resolves: nobody else's    *)
(* releases and allocations invalidate it.  (Past Generations releases a   *)
(* stale handle can release the entry under its owner.)                    *)
LiveHandleResolves ==
  \A h \in issued : releases[h.index] = h.birth => Resolves(h)

(* The pool as a set of handles: the ones that resolve, the ones handed    *)
(* out, and whether allocate would stop the program.                       *)
Names == [index : Entries, generation : 0..(Generations - 1)]
Valid == {h \in Names : Resolves(h)}
HandedOut == {[index |-> h.index, generation |-> h.generation] : h \in issued}
Exhausted == freelistLength = 0 /\ committedEntryCount = Capacity

Promise == INSTANCE HandleSet
  WITH Handles <- Names, valid <- Valid, handedOut <- HandedOut, full <- Exhausted

(* The pool implements its promise: allocate and release change the        *)
(* validity of the one handle they return or take, though validity is a    *)
(* comparison of fields spread over the entries, and an entry lost from    *)
(* the freelist would show as a pool that is full too early.               *)
ImplementsHandleSet == Promise!Spec

=============================================================================
