# XEngine: specifications of the graphics core and its shader tools

XEngine is a C++ game engine on Direct3D 12. This directory holds TLA+ models of the parts of it
whose correctness depends on *order* and on *correspondence*. Order: a CPU that runs ahead of the GPU,
memory that is used again while the GPU may still read it, counters narrower than what they count,
barriers derived from a description of a frame, a builder that decides from what an earlier run, maybe
a crashed one, left on disk. Correspondence: a name that a shader's text, a root signature, a blob and a
command list must resolve to the same register. And the sequential structures of XLib that these stand
on: a search tree, a JSON reader, character writers. The models are checked with TLC on small
instances; the theorems in the `*Proofs` modules are checked by TLAPS for every value of the constants.

Paths are relative to the root of the repository (`src/`); `D3D12.cpp` is
`XEngine.Gfx.HAL.D3D12/XEngine.Gfx.HAL.D3D12.cpp`, `Scheduler.cpp` is
`XEngine.Gfx/XEngine.Gfx.Scheduler.cpp`, `Allocation.cpp` is `XEngine.Gfx/XEngine.Gfx.Allocation.cpp`.
Names such as `BuildDepsTrace.cpp` or `ShaderRewriter.cpp` stand for the file of the repository that ends
so.

## 1. Inventory

### The frame, end to end

`Game0::run` (Game0.cpp:110-180) is the driver. Each turn it opens a `TaskGraph`, imports the back
buffer, lets `SceneRenderer` add resources and tasks, and calls `execute()`. `execute()` derives
barriers, places and fetches transient resources, records one command list, submits it, takes the
end-of-pipe (EOP) sync point of the queue, and hands that point to the upload allocator and the
transient resource cache, which may use memory again once the GPU has passed it. Game0 then flips the
output, spins on the sync point, and resets the command and descriptor allocators.

Two processes run concurrently: the client's thread and the GPU, which executes the queue in order
and raises a fence. Everything below the driver is single-threaded on the CPU side.

### The shader, from text to register

The shader library builder (`ShaderLibraryBuilder.cpp`, `main`) runs before the game. It loads the trace
of the previous build and compares modification times; if anything is outdated it loads the manifest
(JSON), reuses the cached blobs it can, and rewrites and compiles the other shaders: `ShaderRewriter`
replaces `[[xe::binding(name)]]` by the register the pipeline layout gives that name, the compiler (DXC,
external) turns the text into bytecode. It writes blobs, library and a new trace. At run time
`ShaderLibraryLoader` reads the library and creates device objects; a `CommandList` binds arguments *by
name*, resolved in the pipeline layout's blob to a root parameter, and descriptors of a set by nested
name. Nothing compares the two ends: text and root signature agree only if every stage does.

The builder is one thread, but the files are not its own: an editor may save any of them between any two
of its steps, and it may die at any of them.

| component | state | operations | what makes it correct |
|---|---|---|---|
| command submission (`Device`: allocators, lists, queue) | fence values emitted / last read, per allocator: open flag, closed count, finish signal | open, close, discard, submit list; submit flip; reset, destroy allocator; query sync point | memory of commands is not reset while the GPU reads it or the client still has to submit it; a sync point that reads as reached is reached |
| handle pools (`Device::Pool`) | entries with generation, intrusive freelist | allocate, release, resolve | freelist complete and acyclic; stale handles rejected; live handles resolve |
| upload allocator (`CircularUploadMemoryAllocator`) | ring of memory, ring of pending releases | allocate (busy-waits), enqueueRelease | nothing in use is handed out again; all memory is released; the wait ends |
| task graph (`Scheduler::TaskGraph`) | pools of resources, tasks, dependencies, barriers | build, then execute: plan barriers, emit, submit, reset | conflicting accesses ordered; layouts as declared; barriers the HAL accepts |
| transient resources (`TransientResourceCache`, placement in `execute`) | cache entries, ring of sessions | open session and prune, query, close session | resources of a frame disjoint; nothing evicted that the GPU uses |
| descriptor allocators and sets (`Device`) | reset counter, chunk fill level | allocate set, write, reset | a set of before a reset is rejected; the heap is not overrun |
| HAL resources, pipelines, outputs | pool entries, D3D12 objects | create (destroy is not implemented) | handles typed; blobs validated |
| uploader (`XEngine.Gfx.Uploader.cpp`) | one staging buffer, one allocator | upload buffer, upload texture: copy, submit, spin | staging memory is free before it is written |
| shader library: builder, manifest loader, build dependency trace, source cache | manifest, dependency records, timestamps | parse, decide what to rebuild, compile, store | nothing stale is kept, nothing fresh is rebuilt |
| HAL shader compiler, shader rewriter, blob format | compilation artifacts, blob sections | rewrite bindings, compile, write and read blobs | what is written reads back; bindings resolved |
| shader library loader | library file, device objects | load | offsets in range |
| renderer: scene, geometry heap, texture heap, scene renderer | bump-allocated heaps | allocate, upload, record passes | ranges disjoint |
| XLib containers | circular queue, cyclic queue, lists, heap, AVL and flat trees, bit array, array list | insert, remove, find | ordered, balanced, links consistent |
| XLib threading | barrier, MT circular queue, readers-writer lock, events, atomics | enter, push, pop, lock | mutual exclusion, no lost item or wake-up |
| XLib text, math, system wrappers | | parsing, formatting, files, sockets, windows | pure functions and OS calls |
| XEngine.Core, XEngine.System, simulation, games, tools | input state under a lock; disk worker and thread pool are disabled with `#if 0` | handlers, queries | key state consistent |

### What is hard here

* **Ordering against the GPU.** Command allocators, upload memory, transient resources and
  descriptor heaps are all reused behind a fence value that is *cached* (`deviceSignalReachedValue`)
  and compared in a *narrower width* than it is counted in.
* **Counters at their limits.** 8-bit generations, 16-bit ring counters and session indices, a 16-bit
  (intended: 32-bit) window on a 64-bit fence, rings that tell full from empty by one free slot.
* **Derived barriers.** A barrier already planned is extended later, when another reader shows up;
  chains are built back to front; one global barrier per task merges several buffers.
* **Long sequences of legal calls** that end in an assertion nobody meets in a short run.

* **What survives a run.** The builder's trace is written in pieces and read back by the next run,
  whatever is there; a modification time read at the wrong moment is believed for ever.
* **The same number computed in several places**: registers in the rewriter, in the ranges of the root
  signature, and in the descriptor table the device fills.
* **A sequence of small steps with one invariant at the end**: rotations of a tree, text forwarded and
  dropped around patches, buffers that are exactly full.

The graphics core itself persists nothing and passes no messages, so crash recovery is a hazard of the
builder only, and unreliable delivery of nothing. `PROJECT.json` lists every hazard at its line.

## 2. Modules

| module | models | proofs |
|---|---|---|
| `CommandSubmission` | command allocators, command lists, graphics queue, sync points | `CommandSubmissionProofs` |
| `HandleSet` | abstract: what a handle pool promises | |
| `HandlePool` | `Device::Pool`; implements `HandleSet` | `StructureProofs` |
| `UploadAllocator` | both allocators of `Allocation.cpp` and how a frame uses them | `UploadAllocatorProofs` |
| `TaskGraph` (`MCTaskGraph`) | building a graph, planning barriers, emitting them, the HAL's validation | `TaskGraphProofs` |
| `TransientResources` | placement, cache, session queue | `TransientResourcesProofs` |
| `ShaderLayouts` | set layouts, pipeline layouts, root signatures (`ShaderCompiler.cpp`) | |
| `LibraryManifest` extends it | the manifest loader | |
| `BuildDepsTrace` | the trace file: what is written, what is accepted | |
| `ShaderLibraryBuilder` (`MCShaderLibraryBuilder`) extends both | the builder, run after run, over changing files | `ShaderLibraryBuilderProofs` |
| `ShaderRewriter` extends `ShaderLayouts` | `ShaderRewriter.cpp`, lexeme by lexeme | |
| `ShaderLibraryFile` extends `ShaderLayouts` | blobs, library file, loader | |
| `DescriptorBinding` extends it | descriptor allocators, sets, bindings of a command list, pipelines | |
| `ShaderBinding` (`MCShaderBinding`) composes the two above | from the text of a shader to what the GPU reads | `ShaderBindingProofs` |
| `OrderedSet` | abstract: what `IntrusiveBinaryTree` promises | |
| `SearchTree` | `AVLTreeLogic`, `IntrusiveBinaryTree`; implements `OrderedSet` | |
| `JSONReader` | `JSONReader` | |
| `CharStreams` | memory, file and string writers; in-place and dynamic strings | `StructureProofs` |
| `Structures` (`MCStructures`) | `HandlePool` and the three above, one at work in each behaviour | `StructureProofs` |
| `IntegerLemmas` | nothing: remainders, products, least and largest elements, for the proofs | lemmas only |

`ShaderLayouts`, `LibraryManifest` and `ShaderLibraryFile` are functions of their inputs (operators, no
variables); the modules that extend them hold the state.

Conventions common to all of them:

* An assertion about what the *caller* does (`XEMasterAssert` on arguments and states) stops the
  program before anything changes; it is a conjunct of the action's guard. An assertion about the
  code's *own* bookkeeping is a claim: the step in which it fails is a step of the model, which
  records it (`failed`, `pc`) and ends there, and the invariants say which of these never happen.
  This is why the configurations set `CHECK_DEADLOCK FALSE`: the program really may stop.
* All assertion macros are active in every build and end in `XLib::Debug::Fail` (D3D12.h:33-37,
  XLib.h:251-255).
* Ghost variables, below the others in each `VARIABLES`, say what a property is about (which frame
  uses a range, how often an entry was released); no guard reads them.

### CommandSubmission

`phase`, `hasOpenCommandList`, `closedUnsubmitted`, `executing`, `finishSignal` are the fields of
`Device::CommandAllocator` (D3D12.cpp:126-134); `lists` the client's `HAL::CommandList` objects;
`emitted` and `reached` the two counters of `Queue`; `completed` is the D3D12 fence. One action per
public operation (D3D12.cpp:1316-1343, 2048-2205), `GPUAdvance` for the GPU. There is one queue: every
operation asserts that it is the graphics queue.

`SignalReached` is `isDeviceSignalValueReached` (1151-1161), on unsigned 64-bit differences:
`(value & mask) - signal < 2^64 - half`. `updateCommandAllocatorExecutionStatus` calls it with
`sizeof(uint32) * 4` = 16 bits, `isQueueSyncPointReached` with 48. The two widths are constants of
their own (`StatusHalf`, `SyncPointHalf`), a factor of four apart in the run, so that the narrow one
overflows within the bound while the wide one does not.

A cached fence value can make an old signal look reached when half a range or more was emitted since
the fence was last read. `MaxUnobserved` is the assumption that rules it out: a client looks at the
fence at least every so many signals. Game0 emits two a frame and waits for the first.

*Properties.* `SubmittedMemoryIntact`: memory a submission was recorded in is not reset before the GPU
is done with it. `RecordedMemoryIntact`: nor is memory under a list still to be submitted.
`BookkeepingExact`: counter and flag of an allocator are the number of its closed and open lists.
`SyncPointSound`: reached means everything before it is done. `FinishedAllocatorResettable`: an
allocator whose work is done is seen as done -- as long as the fence is within the status range;
beyond it the code stops (run `submission_signal16`). `RecordedMemoryIntact` and the flag in
`BookkeepingExact` are stated for behaviours in which no list was discarded beside an open one of its
allocator (`strayDiscard`): it clears the flag of the open one (D3D12.cpp:2114), which then fails an assertion when it is
closed (`CloseWithoutOpenList`), if its allocator was not reset under it before.

### HandlePool

The fields of `Pool` and `PoolEntryBase`; `issued` is every handle a client ever got, also stale ones.
`rank` gives each free entry its distance from the end of the freelist, which states that the list is
acyclic and complete without recursion. `StaleHandleRejected` holds until an entry was released
`Generations` = 256 times; the property says so, and the run goes past it with two generations.

`Promise == INSTANCE HandleSet WITH valid <- Valid, handedOut <- HandedOut, full <- Exhausted`: of the array of
entries only the set of handles that resolve is left, of the freelist only the code's test for a full pool.
`ImplementsHandleSet` says that an allocation makes the one handle it hands out valid, for an entry that has
none, that a release makes its own invalid, that no step does more, and that the pool is full only when every
entry has a valid handle.

### UploadAllocator

`head`, `tail` and the release ring as in the code, in units of `AllocationAlignment`; `spans` is what
was handed out, in bytes, with the frame that uses it. `WaitForGPU` is one turn of the busy wait in
`allocate` (119-123); `AllocationEnds` is its liveness, under weak fairness of the client's thread
inside `allocate` (it is a loop that does not block) and of the GPU (submitted work finishes).
Two steps hand out memory the counters do not account for, the exact fit at line 34 and the
truncation to 16 bits at line 185; `oversold` records that one was taken, the safety properties are
about behaviours without, and run `upload_exact_fit` shows what the first leads to.

### TaskGraph

A graph is built call by call (`Open` .. `AddTaskDependency`), then `execute()` runs in the order of
the code: `Plan*` is one turn of the dependency loop (660-895), split by its branches;
`PlanReturn` a pass of the loop at 897-925, `StartTasks` the end of planning; `EmitGlobalBarrier`, `EmitLocalBarrier`, `RunTask` the
emission loop (1128-1182); `Submit` the end. Indices start at 1 and 0 stands for `uint16(-1)`. Flag
words are sets of flags. The per-resource dependency chain (397-402) is written and never read, and
left out.

The GPU is `history`: every access of the tasks run so far, as a (sync, access) pair, with the set of
pairs it has been made `visible` to. A barrier covers an access if its first scope names it, or names
something it was made visible to (so that barriers chain); it adds its second scope. This is stricter
than D3D12 on two points (a chain needs a common pair, not just a common stage; a read must be named
by its access, not just its stage), so what holds here holds there. Layouts are `layoutOf`.

`CommandList::globalMemoryBarrier` has no body but an assertion (D3D12.cpp:578-583), so at present a
frame in which two tasks conflict on a *buffer* stops there. The model goes on with the barrier the
call stands for, in order to check the plan.

*Properties.* `AccessesOrdered` is the purpose of the module: when a task is about to run, every
conflicting access of an earlier task is visible to it. `LayoutsAgree`, `TransitionsSafe`,
`ImportsHandedBack` are about layouts; `UsedFramesEmit` says the HAL refuses a barrier only in a frame
that imports a texture and does not use it, which run `graph_unused_import` shows to happen;
`BarrierPoolSuffices` that the pool of barriers has the room the code assumes.

### TransientResources

Placement (1057-1084) and the query loop (1087-1120) of `execute()` are one action per resource, since
a resource's place depends only on those before it. The session queue is
`InplaceCircularQueue` with its free-running 16-bit counters; `isFull` (CircularQueue.h:33) does not
wrap, so a queue that is full across the wrap is not seen as full. `overrun` records that, the
properties are about behaviours without, and run `session_queue_wrap` shows it. Eviction itself is
not implemented (line 67) and stops the program; `EvictedIdle` says that what it picks is idle, which
rests on `SessionForceEvictAge > SessionReleaseQueue::Capacity` (the `static_assert` at Scheduler.h:80,
assumed as `EvictAgeAssumption`).

### ShaderLayouts, LibraryManifest

A creation gives a status (`ok`, `rejected` with a message, `assert` when the program stops) and the
layout. Names are opaque; what their characters decide is given by constant sets (`MalformedNames`,
`DottedNames`), their hash by `NameXSH`. `LibraryManifest` reads a document as the sequence of properties
the JSON reader hands out, one fold over them; the first step that is not well decides the status.
The filter and reduction strings of samplers are tables, as in the code.

### BuildDepsTrace, ShaderLibraryBuilder

A trace is whether its header is there and a sequence of records; a record cut in the middle fails its
size or its hash and is the end of the file (`WellFormed`, `IsLoaded`: `Reader::load`). One action per
step of `main()` that touches a file: `LoadTrace`, `CheckManifest`, `CheckSource` (one per record),
`CheckLibrary`; `LoadManifestFile`, `OpenTrace`, `LoadCachedShader` (one per shader), `Compile`,
`OpenSource` and `ReadSource` (one per file, includes depth first), `Store`, `OpenLibrary`,
`WriteLibrary`, `Finish`, `Flush`. Between any two, an editor may save or delete manifest and sources,
the library may be deleted, a call may fail or the program die (`Event`, `Outcome`), at most `MaxEvents`
of these in a behaviour. A crash amid a write leaves any part of it.

The records of a trace are `run.put`, of which the first `run.flushed` were handed to the file; the buffer is
what follows. `Writer::flush` (BuildDepsTrace.cpp:331-344) ignores the result of its write and empties the
buffer. So a write that fails (`WriteFails`) leaves any first part of its records in the file, maybe without
the header, maybe with a record cut in the middle, behind which a reader gets nothing that is written later
(`run.cut`); otherwise later records follow the hole. The ghost `missing` of a trace is the paths of the source
records lost in it. `putRecord` flushes also when the buffer is full and the next record does not fit (312).
Such a flush differs from a later one only if it fails, and is a step of its own only then; it comes between two
records of the writer's last call (`FullAt`), and the call goes on behind it.

Modification times of manifest and sources count edits. Those of files the builder writes are compared
only with recorded ones, so `NewTime` takes any value recorded nowhere, which keeps the state space
finite over any number of runs. Flushing every so many seconds is a choice at each `PutShader`. The
order in which shaders are compiled is left open.

*Properties.* `UpToDateSound`: "up to date" is said only of a library that is -- not torn, of the present
manifest and sources -- whatever the earlier runs went through, provided nobody edits during this run's
own look at the files. The formula names what the code does not see to: sources whose records a failed flush
lost (`missing`; that the others are still tracked, although records refer to sources by number, is what the
property says of such a trace), a reused shader's layout
beyond half the hash of its name (layout hashes are never computed, and `doShaderDetailsMatch` compares the
low 32 bits, BuildDepsTrace.cpp:281), a manifest edited between its load and
the reading of its time, a library write that failed, and a blob whose failed store went unnoticed
(`misdated`). `TracksWholeLibrary` is the same without the exception for lost records, as BuildDepsTrace.h:15
has it, and run `shader_build_lost_flush` violates it. `NoNeedlessRebuild`: after an undisturbed build the next has nothing to do.
`StopsExplained`: only a trace cut behind its header, or a manifest its loader asserts on, stops the
program. `BuildsConverge`: run the builder again and again on files that can be built, and it gets to
"up to date", whatever the crashes left.

### ShaderRewriter

The source is the sequence of lexemes the lexer hands out; what the lexer cannot read is a lexeme
`bad`. `pc`, `at`, `doubled`, `from` are the control state of `ShaderRewriter::Rewrite`, the lexer's
position, the flag `prevLexemeIsLeftSquareBracket` and the patcher's offset. One action per turn of the loop in
`Rewrite`, per attribute of a list, per declaration. Text is forwarded or dropped up to the current
lexeme, as `SourcePatcher::advance` does, and `RewritesToReference` says of the result, without reference
to those steps, which lexemes of the source it keeps and where it has a register instead.
`RewriteEnds` is the termination of the loops, on any text but for the comma at which
`ProcessAttributeList` does loop for ever (`AtComma`: one that follows an attribute with arguments, as in `[[f(1), b]]`).

### ShaderLibraryFile, DescriptorBinding, ShaderBinding

A blob or a file is a sequence of cells (a header or a record), so that sizes, offsets and a file cut
short mean something. `Load` is the one pass of `ShaderLibraryLoader::load`. `DescriptorBinding` holds the
device's descriptor state: allocators with fill level and reset counter, the heap, the sets clients keep
(also over a reset, with the `ResetCounterModulus` = 2^6 bits of the counter they carry), the open
list with its layout and bound arguments, the recorded draws. A draw reads the heap when the GPU gets to
it, not when it is recorded: `draws` keeps what was set, `frame` orders recording, submission and reset
as Game0 does. `ShaderBinding` composes builder and device: every shader of a library is rewritten and
compiled, the library is stored, possibly cut short, loaded, and drawn with.

*Properties.* `ArgumentsReachShader` is the purpose: the register the rewriter wrote for a name is, through
the root signature and the heap, what the client bound by that name, and for a set the view it wrote by the
nested name; not claimed where the code checks nothing (layouts of a pipeline's shaders, set layouts).
`SetsDisjoint`: descriptors of live sets do not overlap and stay in their allocator's chunk.
`StaleSetsRefused`: a set from before a reset is refused, except after a multiple of 2^6 resets.

### SearchTree, OrderedSet

`Find` and an iterator step are one action each, an insertion is `Link` followed by one action per node
of the retracing loop (`ChangeBalance`, `Rotate`, `RootReached`), so that the tree is looked at between
them. Nodes hold parent, children, balance. `Set == INSTANCE OrderedSet WITH members <- Members`, where
`Members` is what a search finds: `ImplementsOrderedSet` says that retracing steps are stutters (no key
vanishes or appears), that a search visits no more nodes than the tallest balanced tree of that size has
levels, that a kept iterator goes on in key order, and that no assertion of `AVLTreeLogic` fails.

### JSONReader, CharStreams

`JSONReader` is driven as the manifest loader drives it: the one call each state allows. Its scope bits are
uninitialised memory, any value at first. `Documents` defines the grammar by itself (values of n tokens
nesting d scopes, a comma allowed behind the last element, with the events their reading gives), and
`ReadsGrammar` says the reader accepts exactly those and reports their structure.

`CharStreams`: characters are numbered in the order they are given, so that a lost, doubled or stale one
shows. `TextKept` says that file and buffer, or the string up to its limit, hold what was given, in
order, terminated. `fault` marks the three ways in which the code itself spoils the text (section 5); the
property is about behaviours without.

## 3. Runs

| run | module, bounds | shows |
|---|---|---|
| `submission` | 2 allocators, 2 lists, 6 signals, status range 4, sync point range 16 | all properties of `CommandSubmission`; 0.9 M states. Two allocators and two lists let an allocator be recorded again while its first list is on the GPU and another allocator's list is closed; 6 signals exceed the status range |
| `submission_signal16` | same | the assertion at D3D12.cpp:1155 fails once the fence passes the status range |
| `upload_allocator` | pool of 4 units of 2 bytes, counters modulo 8, ring of 3, 3 frames | requests of nothing, a unit, a unit and a half, three units, the pool, more than the counter; the ring is filled and wraps |
| `upload_exact_fit` | same pool | the assertion at Allocation.cpp:21 fails after an exact fit at the front |
| `task_graph` | 2 resources, 3 tasks, 4 dependencies | 4.05 M states: every graph of that size over 3 buffer uses, 4 texture uses and 2 kinds of import. Three tasks on one resource are the longest chain the planner remembers (it keeps the last state only); two resources in one task are what merging and chaining need |
| `graph_unused_import` | 1 resource, 1 task | D3D12.cpp:625 fails for an imported texture that no task uses |
| `transient_resources` | 2 names, 2 sizes, 3 entries, 2 per frame, ring of 4, eviction at 5, counters modulo 8, 9 sessions | placement, queue and eviction, across a wrap of the counters |
| `session_queue_wrap` | 1 resource | the ring is pushed while full when its counters wrap |
| `shader_build` | 4 manifests (shaders, layout behind a name, name, undefined reference), 3 source files of which one includes another and that a third, 2 events, 3 files a shader at most | 508 000 states. Any number of runs, any two events anywhere in them. Two events reach an edit that races a build followed by a crash or a failed store, and a lost flush followed by an edit of what was lost; the include chain of `b` has 3 files and so meets the limit at which its list is dropped |
| `shader_build_lost_flush` | same | a flush of the trace that fails unnoticed, then an edit: the library is up to date without the edit |
| `hal_binding` | 381 libraries: all texts of one or two out of 19 fragments, and one library that is run; 1 allocator of 4 descriptors behind a bindless pool of 1, reset counter modulo 2, 2 sets, 2 resets, 1 draw | 396 000 states. The fragments are the shapes the rewriter tells apart, pairs of them the transitions between shapes (an attribute behind a list, a declaration cut by the end of file). The played library has a set before and behind a buffer, a set with two runs of read-only bindings around a writable one, a static sampler, so that every count that goes into a register differs from 0 and from the others; two resets reach the wrap of a counter modulo 2 |
| `structures` | one structure in each behaviour. The pool: 4 entries, 2 generations, 3 releases each. The tree: 7 keys. The reader: documents of up to 8 tokens nesting 2 deep, each with any one token wrong or missing, and every text of 3 tokens. The writers: buffers of 2 and 3 characters, pieces of 0 to 4, 8 characters in all | 195 000 states. Entries leave the freelist in every order, generations wrap; seven keys are the fewest with which a double rotation happens below the root; 8 tokens hold a scope closed and another opened on its level; pieces are shorter than, as long as and longer than a buffer, which is met at any fill |

*Fairness.* `UploadAllocator`: see section 2. `ShaderLibraryBuilder`: `WF_vars(Step)`, as a started
program is one thread that runs on; `Start` is not fair, since nothing makes anyone run it, and
`BuildsConverge` has "it is run again and again" and "the files stay buildable" as hypotheses.
`ShaderBinding`: `WF_vars(RewriteShader)`, for the same reason.

*Deadlock.* Checking is off where a program may stop (assertions, the end of a document) or an instance
reaches its bounds.

## 4. Proofs

`CommandSubmissionProofs` (for any number of allocators and lists, any widths, any `MaxSignal`):

* `TypeCorrect` -- `TypeOK`, which includes `reached <= completed <= emitted`.
* `SubmittedMemoryNeverReset` -- `SubmittedMemoryIntact`. By itself it is not inductive: a reset must
  be known to be refused while a submission of the allocator is unfinished. `QueueInv` adds that such
  an allocator is in `executing`, that its finish signal is at least the submission's, and that
  nothing emitted is more than `MaxUnobserved` ahead of what was observed; then lemma
  `SignalReachedSound` (windowed comparison of two values less than half a range apart) gives that an
  allocator that reads as finished is finished.
* `SyncPointsSound` -- `SyncPointSound`, from the same lemma for the wide range.

* `FinishedAllocatorsResettable` -- `FinishedAllocatorResettable`, from `TypeOK`: below the range of
  the status, masking the fence value changes nothing.
* `BookkeepingAlwaysExact`, `RecordedMemoryNeverReset` -- by `ListInv`, the two properties and what makes
  them inductive: a list in use is on an allocator that exists, and an allocator that is not in use has
  neither open nor closed lists (lemma `NothingRecorded`), so a reset meets none.

`StructureProofs`, of `HandlePool` (any capacity and number of generations):

* `TypeCorrect` -- the pool's type invariant, which the run does not repeat; `FreelistAlwaysSound` --
  `FreelistSound` is inductive together with `TypeOK`;
* `StaleHandlesRejected` -- from the invariant that a handle's generation is its birth count modulo
  `Generations`, and lemma `RemainderInjective`;
* `LiveHandlesResolve` -- a handle of a free entry was issued before the last release of it;
* `PoolImplementsHandleSet` -- `ImplementsHandleSet`, step by step: `Valid` holds one handle per allocated entry
  (`ValidIs`), so a step that changes one entry changes one handle (`AllocationImplements`, `ReleaseImplements`),
  and `FreelistSound` turns the test for a full pool into the statement that every entry is in use
  (`ExhaustedIs`).

and of `CharStreams` (any sizes of buffers and pieces, any sequence of calls):

* `TextAlwaysKept` -- `TextKept`, about `StructuresSpec`: a writer at work beside the other structures.
  `TextKept` itself says too little of the step after it. `WriterInv` has it character by character, and adds
  that the buffer of an open file is never full, that a string has a place behind its text for the terminator
  unless it has no buffer at all, and that a string that grows stays below the largest size, so that only a
  string of fixed size is ever clipped. The writers then share two lemmas: text copied behind a text
  continues it, in a buffer that may have grown (`TextGrown`), and pieces of waiting text in a row wait
  (`WaitingJoined`, `WaitingParts`). A piece that fills a file's buffer several times is a product of a quotient
  (`FillsWhole`); the size a string reaches while characters go into it one by one is a recursion whose
  argument grows, which exists and is bounded by induction from the largest size down (`GrowthExists`,
  `SizeForIs`).

`UploadAllocatorProofs` (any pool, release queue, width of the counters, requests):

* `TypeCorrect`, although sums of counters wrap; `GrantsAlwaysFree`, `PendingRangeAlwaysExact`,
  `AlwaysGivesUpOnlyWhenExhausted`. None is inductive. `RingInv` measures everything from the head counter,
  around the pool: the ranges of the release queue come first, in queue order, then the range that is not
  queued, then the tail, and every span in use lies in the range of its frame. An operation either
  appends at the far end or moves the origin forward (lemma `Rebase`), which keeps what is left in place.

`TransientResourcesProofs` (any names and sizes, capacities, width of the counters):

* `TypeCorrect`; `FrameResourcesAlwaysDisjoint` -- the frame's resources lie in the order they were placed;
* `SessionsAlwaysTracked`, `EvictedAlwaysIdle` -- the wrapped counters are session numbers modulo 2^16, the
  slots the same modulo the capacity, and the capacity divides 2^16 (lemma `ModOfMod`), so a slot does not
  depend on whether a counter wrapped; the age of an entry is a difference of two reduced numbers, which
  never exceeds the true one (`ModDifference`). That the capacity divides 2^16 is part of
  `EvictAgeAssumption`.

`TaskGraphProofs` (any uses of buffers and textures, any sizes of the pools):

* `TypeCorrect` -- from `DataInv`: what each pool holds and where its indices point;
* `BarrierPoolAlwaysSuffices` -- a turn of a planning loop takes one barrier at most;
* `UsedFramesAlwaysEmit` -- from `FitInv`: both sides of every barrier, and of the state a later turn may
  merge into it, fit their stages and their layout, and one side names an access if any task uses
  the texture. Merging two fitting sides gives one (it happens in one layout only).

Its second part: `AccessesAlwaysOrdered`, `LayoutsAlwaysAgree`,
`TransitionsAlwaysSafe`, `ImportsAlwaysHandedBack`, the purpose of the task graph for every graph that can be
built. The argument relates the plan to the dependencies and the emission to the plan:

1. The planning loops take one *turn* per dependency, then one per resource. Whether a turn starts a
   barrier is a fact about the dependencies alone (`Starts`): they cut the accesses of a resource into groups
   of one layout that are a single write or all reads (`GroupInv`).
2. `PlanInv(lead)`: `lead` gives the turn of every barrier of the pool. Barriers are in the order of their
   turns, there is one for each turn that starts one, the chain of a task holds exactly the barriers of its
   turns; the second scope of a barrier includes the whole group it starts (`AfterInv`: later turns of
   the group are merged into it), its first scope the whole group before (`BeforeInv`).
3. `EmitInv(lead)`: what ran so far is visible to the group of every barrier emitted since (`HistoryInv`, a
   chain of barriers being followed one link at a time), and a texture is in the layout of the last barrier
   emitted for it (`LayoutInv`).

`lead` is bound by an existential quantifier in the invariant rather than kept in a variable: it says nothing
about the code. `DataInv`, `FitInv` and the ordering invariant were checked by TLC on the bounds of `task_graph`
before they were proved (`lead` is determined there by the order of the turns).

`ShaderBindingProofs` (any libraries and texts, allocators, sizes, width of the reset counter):

* `TypeCorrect` -- with what the lexer and the patcher do to their positions, for any text;
* `SetsAlwaysDisjoint`, `StaleSetsAlwaysRefused` -- from `BindingInv`: the sets of the present epoch of an
  allocator lie below its fill level, one behind the other; epochs only grow; a set in a list or a draw
  decomposes, and lists and draws are empty when an allocator is reset. The run has one allocator; the
  theorem is about any number of chunks.

`ShaderLibraryBuilderProofs` (any manifests, source files and texts, and any number of edits, deletions, failures
and crashes):

* `BuilderInvariant` -- the inductive invariant `BuilderInv`, from which the others follow;
* `TypeCorrect` -- with it, that the records put for a trace, if all of them are written, can be loaded. Of what
  failed flushes leave of them a reader loads a first part, or rejects the file; either way no state of the
  trace but the bare header stops the program (`StopsAlwaysExplained`);
* `UpToDateAlwaysSound`, `NeverNeedlesslyRebuilt` -- `UpToDateSound` and `NoNeedlessRebuild`.

`UpToDateSound` speaks of the end of one run, but what is compared there was written by another, or by several
that died: neither it nor any statement about the present run alone is inductive. `BuilderInv` says what the
files mean at *every* step:

1. `BlobsSound`, `LibrarySound`: a cached blob with the time a shader record gives it is the one compiled for that
   record, of files it lists, with recorded times that are not after the versions it was made of; the same of
   the library and the last record; both but for what `misdated` and `missing` name. What is said of a record
   mentions only the records before it, so it survives appending (`MoreBlobsSound`). It is stated of the trace
   that was loaded, and of `run.put`, all records of the trace being written. The file holds a part of those
   (`Holds`: each of its records is one of them, and each source of them is in the file or in `missing`).
   A source is named by its number, which the reader checks against its place, so of a part that loads the
   same can be said as of the whole (`PartBlobsSound`, `PartLibrarySound`, `PartSound`), whether its flushes
   succeeded, failed or were cut by a crash. In a run nobody disturbs the file holds all of them (`HoldsAll`).
2. A new blob or library gets a time that is recorded nowhere (lemma `NewTimeIsNew`), so no old record can take it
   for the one it replaced (`Unmistakable`).
3. `CacheInv`: what the program remembers of a source file is not newer than the file, and the text it read is not
   older than the time it records. `TimedBy`: the trace being written records the remembered times. So a file edited
   in the middle of a build is recorded with a time that is too old, never one that is too new.
4. `Past`: no blob was made of a version still to come. With it, equal times mean equal versions when a later run
   compares them.
5. `CalmInv`, `CheckInv`, `SettledInv`: in a build nobody disturbs the remembered times are the present ones; what
   `checkIfBuildIsUpToDate` has compared so far agrees; what a build that settled left will agree again.

The folds of the model (the manifest, the records of a shader, its list of files) are unfolded one element at a time
by lemmas (`ManifestFold`, `TrackFold`, `DistinctFold`): each is a function on subsets of an interval that exists
by induction on its length, and is then known at every prefix. `BuilderInv` was checked by TLC on the bounds of
`shader_build` as well.

*Assumptions.* They are named and stand in the component modules: sizes are positive, sets of constants are of
the right types; the width relation `MaxSignal < 2 * SyncPointHalf` and `MaxUnobserved`; a release queue of
two slots at least (`QueueAssumption`); the `static_assert` and the divisibility in `EvictAgeAssumption`; that
uses of buffers and textures are ones the HAL's own tables accept (`BufferUsesAssumption`,
`TextureUsesAssumption`, `ImportLayoutsAssumption`); that a library has a shader (`LibrariesAssumption`); that a shader has room for a source file
(`MaxShaderSourceFilesAssumption`), that all paths a manifest or an include names are in `SourceFiles`
(`BuilderAssumption`), that behaviours of the character writers do not fill the largest `DynamicString`, of
2^32 - 1 characters, whose size the code computes without a check for overflow (`StreamsAssumption`), and
that "no file" is none of the contents a file can have (`NoneAssumption`). TLC evaluates
each of them on every run.

*Only model-checked.* The liveness properties `AllocationEnds`, `BuildsConverge` and `RewriteEnds` are outside the
prover's reach. Three invariants compare what folds and recursive functions compute from all of their data, and
would need unfolding lemmas for each of these: `RewritesToReference` and `ArgumentsReachShader` (offsets and
registers are sums over a list of bindings, a file a concatenation of blobs) and `ReadsGrammar`; these
functions are evaluated on bounded inputs only. So is the refinement of `OrderedSet` by the search tree, whose
order and balance are recursive in the depth of the tree.

## 5. Where the code contradicts itself

Four runs exhibit an assertion of the code that its own steps violate: the 16-bit comparison of a
32-bit signal (`submission_signal16`), the exact fit that makes a full range look empty
(`upload_exact_fit`), the barrier of an imported texture that no task uses (`graph_unused_import`), and
`isFull` across the wrap of its counters (`session_queue_wrap`). One more exhibits what a comment says and the
code does not do: a trace that tracks the whole library (`shader_build_lost_flush`). Others are single lines that need no
run and are modelled as they are, with the properties stated for behaviours without them: the inverted
assertion in `destroyCommandAllocator` (D3D12.cpp:1335), `discardCommandList` clearing the open flag of
another list (2114), `CopyDest` missing from the barrier validation (92), the empty
`globalMemoryBarrier` (582), the truncation of large uploads (Allocation.cpp:185), eviction that stops
the program (Scheduler.cpp:67). Two lie outside the models: the size of the descriptor allocator pool
(D3D12.cpp:1270) and the resource count limit in `execute` (Scheduler.cpp:657).

Of the shader tools: layout hashes that are never computed (ShaderCompiler.cpp:273, 551), failures to
store a blob, the library or the trace that go unnoticed (ShaderLibraryBuilder.cpp:449, 574;
BuildDepsTrace.cpp:340), layout names told apart by
half of their hash when a blob is reused (BuildDepsTrace.cpp:281), a manifest dated after it
was read (246), a trace of nothing but its header that stops every later build although the format
"supports truncation at any point" (BuildDepsTrace.h:21), a shader at the limit of source files that is
treated as beyond it (BuildDepsTrace.cpp:466), a comma in an attribute list that is never consumed
(ShaderRewriter.cpp:617), resource types without template arguments and unknown attributes without
parentheses that are rejected (722, 583), a property behind `entry_point` that stops the program
(LibraryManifestLoader.cpp:666), set layouts without bindings that nothing downstream takes
(ShaderCompiler.cpp:649), sampler reductions translated to other ones (74). Of the device: descriptor
types that are not checked (D3D12.cpp:2017), the source subresource of `copyTexture` (712), two limits off by one
(332, 1734) and the mesh stages (1690). Of XLib: a file writer that loses the part of a piece that fills its
buffer (CharStream.cpp:168), a string writer that moves its offset by what it clipped (272) and one that
writes through the null buffer of an empty string (279), characters beyond ASCII and numbers in JSON
(JSON.cpp:119, 161), `isHooked` of an only element (DoublyLinkedList.h:25). `PROJECT.json` has the details.

## 6. Plan

What is left:

1. Of the search tree, `TypeOK`, and that a rotation keeps the keys in order, as lemmas about `RotateSimple`
   and `RotateDouble`; from those the step of `ImplementsOrderedSet` that a retracing step is a stutter.
2. An abstract specification of fenced reuse (taken, used by a frame, free when the frame is done) that
   `UploadAllocator` and `TransientResources` refine.

## 7. Not modelled, and why

* *Nothing to get wrong in their order*: wrappers of D3D12, Win32, sockets and files; translation tables;
  mathematics and number formatting; geometry and texture heaps, which bump a counter and never release;
  the scene renderer, whose task graph calls are an instance of what `TaskGraph` explores; the uploader,
  one behaviour of `CommandSubmission`; shaders and assets; vendored code.
* *Not working in the code*: threading (`MTCircularQueue` assigns to a const local and does not compile when
  instantiated, barrier and readers-writer lock have no user); `XEngine.Core` (includes headers that do not
  exist); disk worker, thread pool, `CyclicQueue.h` and the optimal placement at Scheduler.cpp:946-1053
  (`#if 0`); `BinaryHeap.h` (a missing header); the flat tree map (does not compile when instantiated);
  removal from the AVL tree and `remove` and `clear` of the intrusive tree (declared, not defined); empty or
  unfinished parts (XC.Compiler, simulation, XUI); multiple queues (`submitSyncPointWait`); destruction of
  most HAL objects.
* *Abstracted inside what is modelled*: the characters of a shader's text (the lexer's classes of lexemes
  remain), the preprocessor and DXC (they may refuse; what they accept reads the registers written);
  checksums of blobs (written, never verified); fixed-function state, copies, clears and render targets of a
  command list (no state the properties speak about); views other than of a texture that is read, which the
  code asserts against.
* Whether a resource fits the 128 MiB of the transient pool is not checked by the code either (TODO at
  D3D12.cpp:1426).
