-------------------------- MODULE DescriptorBinding --------------------------
(***************************************************************************)
(* Descriptor allocators, descriptor sets and the bindings of a command    *)
(* list (XEngine.Gfx.HAL.D3D12.cpp), used frame by frame as Game0 does:    *)
(* record, submit, wait for the GPU, reset the allocator.  A set is a      *)
(* number that names its layout, its first descriptor, its allocator and   *)
(* the low bits of the allocator's reset counter; a client may keep it.    *)
(* A draw stands for draw, drawIndexed and dispatch, which differ only in  *)
(* the pipeline type they assert.                                          *)
(***************************************************************************)
EXTENDS ShaderLibraryFile

CONSTANTS
  Views, Buffers,        \* what can be written to a descriptor, bound to a root parameter
  Allocators,            \* pool indices of descriptor allocators, 0..n
  BindlessSize,          \* bindlessDescriptorPoolSize
  ChunkSize,             \* DescriptorAllocatorChunkSize
  ResetCounterModulus,   \* 2^6: the bits of the counter a set carries
  MaxSets, MaxArguments, MaxDraws, MaxResets, MaxPipelines  \* bounds of the model

ASSUME BindingBoundsAssumption ==
  {BindlessSize, ChunkSize, MaxSets, MaxArguments, MaxDraws, MaxResets, MaxPipelines} \subseteq Nat
ASSUME ResetCounterAssumption == ResetCounterModulus \in Nat \ {0}
ASSUME AllocatorsAssumption == Allocators \subseteq Nat

VARIABLES
  loaded,      \* what the loader made of the library: sets, layouts, shaders
  pipelines,   \* graphics pipelines
  allocators,  \* [fill, resets] of every descriptor allocator that was created
  heap,        \* the shader visible heap: a view or None per descriptor
  sets,        \* the descriptor sets clients hold, and what they wrote to each
  list,        \* the open command list
  draws,       \* recorded and not yet executed
  frame        \* "recording", "closed" or "submitted"

deviceVars == <<loaded, pipelines, allocators, heap, sets, list, draws, frame>>

(* A function with the value v at x, where it may not have been defined.   *)
With(f, x, v) == [y \in DOMAIN f \cup {x} |-> IF y = x THEN v ELSE f[y]]

PipelineTypes == {"Graphics", "Compute"}
ChunkOffset(a) == BindlessSize + a * ChunkSize
HeapSize == BindlessSize + Cardinality(Allocators) * ChunkSize

NoBindings == [root |-> 0, arguments |-> <<>>]
EmptyList ==
  [type |-> "Undefined", layout |-> 0, program |-> None,
   bound |-> <<>>,                                 \* by name, since the layout was set
   d3d |-> [t \in PipelineTypes |-> NoBindings]]   \* root signature, and arguments by root parameter

DeviceInit ==
  /\ loaded = None /\ pipelines = <<>>
  /\ allocators = <<>> /\ heap = [i \in 0..(HeapSize - 1) |-> None]
  /\ sets = <<>> /\ list = EmptyList /\ draws = {} /\ frame = "recording"

-----------------------------------------------------------------------------
(* Clients make allocators, pipelines and bindless descriptors before the  *)
(* first frame.                                                            *)
Initializing == frame = "recording" /\ sets = <<>> /\ list = EmptyList

CreateDescriptorAllocator ==
  /\ Initializing
  /\ \E a \in Allocators \ DOMAIN allocators :
       /\ \A b \in Allocators \ DOMAIN allocators : a <= b
       /\ allocators' = With(allocators, a, [fill |-> 0, resets |-> 0])
  /\ UNCHANGED <<loaded, pipelines, heap, sets, list, draws, frame>>

(* The fill level is raised, then asserted to be within the chunk.  Sets   *)
(* are allocated before and written after the commands of a frame: neither *)
(* looks at the list, and no command looks at what was written.            *)
FitsChunk_BeforeRaise(fill, count) == fill <= ChunkSize
FitsChunk(fill, count) == fill + count <= ChunkSize
DescriptorCount_OneShort(set) == Len(set.bindings) - 1
DescriptorCount(set) == Len(set.bindings)

(* composeDescriptorSetReference, of a set at the allocator's fill level.  *)
(* The epoch, ghost, is the counter the reference has only the low bits of.*)
Reference(layout, a) ==
  [layout |-> layout, base |-> ChunkOffset(a) + allocators[a].fill, allocator |-> a,
   counter |-> allocators[a].resets % ResetCounterModulus, epoch |-> allocators[a].resets, contents |-> <<>>]

AllocateDescriptorSet ==
  /\ frame = "recording" /\ list = EmptyList /\ Len(sets) < MaxSets
  /\ \E a \in DOMAIN allocators, s \in DOMAIN loaded.sets :
       LET count == DescriptorCount(loaded.sets[s])
       IN  /\ FitsChunk(allocators[a].fill, count)
           /\ allocators' = [allocators EXCEPT ![a].fill = @ + count]
           /\ sets' = Append(sets, Reference(s, a))
  /\ UNCHANGED <<loaded, pipelines, heap, list, draws, frame>>

(* decomposeDescriptorSetReference: a set of an allocator that was reset   *)
(* since is told by the counter alone.                                     *)
Decomposes(set) == allocators[set.allocator].resets % ResetCounterModulus = set.counter

(* writeDescriptor.  Only views of textures that are read can be written,  *)
(* and those to any descriptor: the type of its binding is not looked at.  *)
WriteDescriptor(i, view) == heap' = [heap EXCEPT ![i] = view]

WriteDescriptorSet ==
  /\ frame = "closed"
  /\ \E s \in DOMAIN sets, view \in Views :
       /\ Decomposes(sets[s])
       /\ \E i \in DOMAIN loaded.sets[sets[s].layout].bindings :
            LET name == loaded.sets[sets[s].layout].bindings[i].xsh
            IN  /\ WriteDescriptor(sets[s].base + i - 1, view)
                /\ sets' = [sets EXCEPT ![s].contents = With(@, name, view)]
  /\ UNCHANGED <<loaded, pipelines, allocators, list, draws, frame>>

WriteBindlessDescriptor ==
  /\ Initializing
  /\ \E i \in 0..(BindlessSize - 1), view \in Views : WriteDescriptor(i, view)
  /\ UNCHANGED <<loaded, pipelines, allocators, sets, list, draws, frame>>

(* Which stages a graphics pipeline may have.  An amplification shader is  *)
(* accepted only without the mesh shader it feeds; the layouts of the      *)
(* shaders are never compared with the pipeline's.                         *)
Stages == [vs |-> "Vertex", as |-> "Amplification", ms |-> "Mesh", ps |-> "Pixel"]
StagesAccepted(stages) ==
  /\ ~({"vs", "ms"} \subseteq DOMAIN stages) /\ ~({"as", "ms"} \subseteq DOMAIN stages)
  /\ \A stage \in DOMAIN stages : loaded.shaders[stages[stage]].type = Stages[stage]
CreateGraphicsPipeline ==
  /\ Initializing
  /\ Len(pipelines) < MaxPipelines
  /\ \E layout \in DOMAIN loaded.layouts, used \in (SUBSET DOMAIN Stages) \ {{}} :
       \E stages \in [used -> DOMAIN loaded.shaders] :
         /\ StagesAccepted(stages)
         /\ pipelines' = Append(pipelines, [layout |-> layout, shaders |-> Range(stages)])
  /\ UNCHANGED <<loaded, allocators, heap, sets, list, draws, frame>>

-----------------------------------------------------------------------------
(* Setting a root signature on the D3D command list forgets the arguments  *)
(* of another one, and keeps them when it is the same (external).          *)
SetRootSignature(bindings, layout) ==
  IF bindings.root = layout THEN bindings ELSE [root |-> layout, arguments |-> <<>>]

Recording == frame = "recording" /\ Cardinality(draws) < MaxDraws \* a frame ends with its last draw
ListStep == UNCHANGED <<loaded, pipelines, allocators, heap, sets, draws, frame>>

(* Bound of the model: a type or a layout is replaced only after something *)
(* was bound with it; before, it is as if it had not been set.             *)
SomethingBound == list.bound # <<>>

SetPipelineType ==
  /\ Recording /\ (list.type = "Undefined" \/ SomethingBound)
  /\ \E type \in PipelineTypes \ {list.type} :
       list' = [list EXCEPT !.type = type, !.layout = 0, !.bound = <<>>]
  /\ ListStep

SetPipelineLayout ==
  /\ Recording /\ list.type \in PipelineTypes /\ (list.layout = 0 \/ SomethingBound)
  /\ \E layout \in DOMAIN loaded.layouts \ {list.layout} :
       list' = [list EXCEPT !.layout = layout, !.bound = <<>>,
                            !.d3d[list.type] = SetRootSignature(@, layout)]
  /\ ListStep

SetComputePipeline ==
  /\ Recording
  /\ \E s \in DOMAIN loaded.shaders :
       /\ loaded.shaders[s].type = "Compute" /\ loaded.shaders[s].layout = list.layout
       /\ list' = [list EXCEPT !.program = [layout |-> list.layout, shaders |-> {s}]]
  /\ ListStep

SetGraphicsPipeline ==
  /\ Recording
  /\ \E p \in DOMAIN pipelines :
       pipelines[p].layout = list.layout /\ list' = [list EXCEPT !.program = pipelines[p]]
  /\ ListStep

(* ResolveBindingByNameXSH: the first binding of the layout whose hash is  *)
(* the name's; an unknown name and a list without a layout are asserted.   *)
ResolveBinding(xsh) ==
  LET bindings == loaded.layouts[list.layout].bindings
  IN  bindings[Min({i \in DOMAIN bindings : bindings[i].xsh = xsh})]
BindingNames == IF list.layout = 0 THEN {} ELSE {b.xsh : b \in ToSet(loaded.layouts[list.layout].bindings)}

Given == UNION {{t} \X DOMAIN list.d3d[t].arguments : t \in PipelineTypes}
(* The program comes before the arguments (bound of the model: neither     *)
(* looks at the other).                                                    *)
Bind(xsh, argument) ==
  /\ list.program # None /\ list.program.layout = list.layout
  /\ Cardinality(Given \cup {<<list.type, ResolveBinding(xsh).rootParameter>>}) <= MaxArguments
  /\ list' = [list EXCEPT !.bound = With(@, xsh, argument),
                          !.d3d[list.type].arguments = With(@, ResolveBinding(xsh).rootParameter, argument)]

BindBuffer ==
  /\ Recording /\ list.type \in PipelineTypes
  /\ \E xsh \in BindingNames, buffer \in Buffers :
       /\ ResolveBinding(xsh).type \in DOMAIN BufferRootParameter
       /\ Bind(xsh, [buffer |-> buffer])
  /\ ListStep

(* The layout of the set is compared with the binding's by source hash.    *)
BindDescriptorSet ==
  /\ Recording /\ list.type \in PipelineTypes
  /\ \E xsh \in BindingNames, s \in DOMAIN sets :
       /\ ResolveBinding(xsh).type = "DescriptorSet"
       /\ Decomposes(sets[s])
       /\ loaded.sets[sets[s].layout].sourceHash = ResolveBinding(xsh).setSourceHash
       /\ Bind(xsh, [set |-> s])
  /\ ListStep

(* A draw asserts the pipeline type.  D3D asks for a program made with the *)
(* root signature that is set, which the code leaves to its callers.       *)
Draw ==
  /\ Recording /\ list.type \in PipelineTypes
  /\ list.program # None /\ list.program.layout = list.layout
  /\ draws' = draws \cup {[layout |-> list.layout, program |-> list.program, bound |-> list.bound,
                           arguments |-> list.d3d[list.type].arguments]}
  /\ UNCHANGED <<loaded, pipelines, allocators, heap, sets, list, frame>>

-----------------------------------------------------------------------------
CloseList ==
  /\ frame = "recording" /\ draws # {}
  /\ frame' = "closed" /\ list' = EmptyList
  /\ UNCHANGED <<loaded, pipelines, allocators, heap, sets, draws>>

Submit ==
  /\ frame = "closed" /\ frame' = "submitted"
  /\ UNCHANGED <<loaded, pipelines, allocators, heap, sets, list, draws>>

Execute ==
  /\ frame = "submitted"
  /\ \E draw \in draws : draws' = draws \ {draw}
  /\ UNCHANGED <<loaded, pipelines, allocators, heap, sets, list, frame>>

(* Game0 spins until the frame's sync point is reached; a device call does *)
(* not look at what the GPU still reads.                                   *)
FrameFinished_Submitted == frame = "submitted"
FrameFinished == frame = "submitted" /\ draws = {}

ResetDescriptorAllocator ==
  /\ FrameFinished
  /\ \E a \in DOMAIN allocators :
       /\ allocators[a].resets < MaxResets
       /\ allocators' = [allocators EXCEPT ![a] = [fill |-> 0, resets |-> @.resets + 1]]
       /\ sets' = [s \in DOMAIN sets |->
                     IF sets[s].allocator = a THEN [sets[s] EXCEPT !.contents = <<>>] ELSE sets[s]]
  /\ frame' = "recording"
  /\ UNCHANGED <<loaded, pipelines, heap, list, draws>>

DeviceStep ==
  \/ CreateDescriptorAllocator \/ AllocateDescriptorSet \/ WriteDescriptorSet \/ WriteBindlessDescriptor
  \/ CreateGraphicsPipeline
  \/ SetPipelineType \/ SetPipelineLayout \/ SetComputePipeline \/ SetGraphicsPipeline
  \/ BindBuffer \/ BindDescriptorSet \/ Draw
  \/ CloseList \/ Submit \/ Execute \/ ResetDescriptorAllocator

=============================================================================
