----------------------------- MODULE TaskGraph -----------------------------
(***************************************************************************)
(* Scheduler::TaskGraph (XEngine.Gfx.Scheduler.cpp): a frame is described  *)
(* as tasks in submission order, each with the resources it uses and how;  *)
(* execute() derives the GPU barriers from that, and emits them between    *)
(* the tasks.  The GPU is modelled by what D3D12 promises about barriers:  *)
(* without one, two tasks run in any order and see each other's writes by  *)
(* chance.                                                                 *)
(***************************************************************************)
EXTENDS Integers, Sequences, FiniteSets

CONSTANTS
  BufferUses,      \* what a task may declare for a buffer: sync, access, layout "Undefined"
  TextureUses,     \* and for a texture: sync, access, layout
  ImportLayouts,   \* <<pre-execution, post-execution layout>> of an imported texture
  \* 2^9 - 1 (one less than the pool: execute() asserts so at 657), 2^9, 2^12 in the code
  MaxResources, MaxTasks, MaxDependencies

-----------------------------------------------------------------------------
(* HAL::BarrierAccessUtils::IsReadOnly.                                    *)
ReadOnlyAccesses == {"CopySource", "VertexOrIndexBuffer", "ConstantBuffer", "ShaderReadOnly",
                     "DepthStencilRenderTargetReadOnly", "RaytracingAccelerationStructureRead"}
IsReadOnly(access) == access \subseteq ReadOnlyAccesses

(* ValidateBarrierAccess, for a texture.                                   *)
TextureAccesses == {"CopySource", "CopyDest", "ShaderReadOnly", "ShaderReadWrite",
                    "ColorRenderTarget", "DepthStencilRenderTarget",
                    "DepthStencilRenderTargetReadOnly"}

(* ValidateBarrierAccessAndTextureLayoutCompatibility.                     *)
AccessesOfLayout(layout) ==
  CASE layout = "Present" -> {}
    [] layout = "Common" -> {"CopySource", "CopyDest", "ShaderReadOnly", "ShaderReadWrite"}
    [] OTHER -> {layout}
AccessFitsLayout(access, layout) ==
  IF access = {} \/ layout = "Undefined" THEN access = {}
  ELSE access \subseteq AccessesOfLayout(layout)

(* ValidateBarrierSyncAndAccessCompatibility: one matching sync is enough. *)
(* Copy destinations are missing from its table.                           *)
AllShaders == {"ComputeShader", "PrePixelShaders", "PixelShader"}
SyncsOfAccess(a) ==
  CASE a = "CopySource" -> {"Copy"}
    [] a = "VertexOrIndexBuffer" -> {"PrePixelShaders"}
    [] a \in {"ConstantBuffer", "ShaderReadOnly", "ShaderReadWrite"} -> AllShaders
    [] a = "ColorRenderTarget" -> {"ColorRenderTarget"}
    [] a \in {"DepthStencilRenderTarget", "DepthStencilRenderTargetReadOnly"} ->
         {"DepthStencilRenderTarget"}
    [] OTHER -> {}
SyncFitsAccess(sync, access) ==
  IF sync = {} \/ access = {} THEN sync = {} /\ access = {}
  ELSE \E a \in access : sync \cap SyncsOfAccess(a) # {}

(* Flags are sets; what a barrier names on either side is a scope.         *)
Scope == [sync : SUBSET {"Copy", "ComputeShader", "PrePixelShaders", "PixelShader",
                         "ColorRenderTarget", "DepthStencilRenderTarget"},
          access : SUBSET (TextureAccesses \cup ReadOnlyAccesses)]
NoScope == [sync |-> {}, access |-> {}]
Join(s1, s2) == [sync |-> s1.sync \cup s2.sync, access |-> s1.access \cup s2.access]
Layout == {"Undefined", "Present", "Common", "ShaderReadOnly", "ShaderReadWrite",
           "ColorRenderTarget", "DepthStencilRenderTarget", "DepthStencilRenderTargetReadOnly"}

ASSUME BufferUsesAssumption ==
  \A u \in BufferUses : u.scope \in Scope /\ u.scope.sync # {} /\ u.scope.access # {}
                        /\ u.layout = "Undefined"
(* What the HAL accepts; copy destinations are out, by the table above.    *)
ASSUME TextureUsesAssumption ==
  \A u \in TextureUses : u.scope \in Scope /\ SyncFitsAccess(u.scope.sync, u.scope.access)
                         /\ u.scope.access # {} /\ u.layout \in Layout \ {"Undefined"}
                         /\ AccessFitsLayout(u.scope.access, u.layout)
ASSUME ImportLayoutsAssumption ==
  ImportLayouts \subseteq (Layout \ {"Undefined"}) \X (Layout \ {"Undefined"})
ASSUME BoundsAssumption ==
  /\ MaxResources \in Nat /\ MaxTasks \in Nat /\ MaxDependencies \in Nat
  /\ MaxResources <= MaxDependencies

-----------------------------------------------------------------------------
VARIABLES
  pc,           \* where the client, or execute(), is
  resources, tasks, dependencies, barriers,  \* the pools, up to their counts
  postHead,     \* postExecutionLocalBarrierChainHeadIdx, 0 for uint16(-1)
  states,       \* resourceStates of execute(), per resource
  cursor,       \* the dependency being planned, then the resource; the task being emitted
  chain,        \* barrierChainIt, 0 for uint16(-1)
  \* The GPU, as far as the commands emitted so far oblige it
  layoutOf,     \* layout of a texture
  history       \* accesses of the tasks so far, and what each is visible to

pools == <<resources, tasks, dependencies, barriers, postHead>>
planning == <<states, cursor>>
gpu == <<layoutOf, history>>
vars == <<pc, pools, planning, chain, gpu>>

IsTexture(r) == resources[r].type = "Texture"
TasksOf(r) == {dependencies[d].task : d \in {i \in 1..Len(dependencies) :
                                               dependencies[i].resource = r}}
DependenciesOf(t) == {dependencies[d] : d \in {i \in 1..Len(dependencies) :
                                                 dependencies[i].task = t}}

Init ==
  /\ pc = "closed"
  /\ resources = <<>> /\ tasks = <<>> /\ dependencies = <<>> /\ barriers = <<>>
  /\ postHead = 0
  /\ states = <<>> /\ cursor = 0 /\ chain = 0
  /\ layoutOf = <<>> /\ history = {}

-----------------------------------------------------------------------------
(* Describing the frame.                                                   *)
Open ==
  /\ pc = "closed"
  /\ pc' = "building"
  /\ UNCHANGED <<pools, planning, chain, gpu>>

AddResource(resource) ==
  /\ pc = "building"
  /\ Len(resources) < MaxResources
  /\ resources' = Append(resources, resource)
  /\ UNCHANGED <<pc, tasks, dependencies, barriers, postHead, planning, chain, gpu>>

CreateTransientBuffer ==
  AddResource([type |-> "Buffer", isImported |-> FALSE, pre |-> "Undefined", post |-> "Undefined"])
CreateTransientTexture ==
  AddResource([type |-> "Texture", isImported |-> FALSE, pre |-> "Undefined", post |-> "Undefined"])
ImportExternalBuffer ==
  AddResource([type |-> "Buffer", isImported |-> TRUE, pre |-> "Undefined", post |-> "Undefined"])
ImportExternalTexture(pre, post) ==
  AddResource([type |-> "Texture", isImported |-> TRUE, pre |-> pre, post |-> post])

AddTask ==
  /\ pc = "building"
  /\ Len(tasks) < MaxTasks
  /\ tasks' = Append(tasks, [before |-> NoScope, after |-> NoScope, chainHead |-> 0])
  /\ UNCHANGED <<pc, resources, dependencies, barriers, postHead, planning, chain, gpu>>

(* addTaskDependency, through the collector of the last task.  A client    *)
(* declares a resource once per task (the TODO at Scheduler.h:16).         *)
AddTaskDependency(r, use) ==
  /\ pc = "building"
  /\ tasks # <<>>
  /\ Len(dependencies) < MaxDependencies
  /\ Len(tasks) \notin TasksOf(r)
  /\ use \in (IF IsTexture(r) THEN TextureUses ELSE BufferUses)
  /\ dependencies' = Append(dependencies, [resource |-> r, task |-> Len(tasks),
                                           scope |-> use.scope, layout |-> use.layout])
  /\ UNCHANGED <<pc, resources, tasks, barriers, postHead, planning, chain, gpu>>

(* execute() begins.                                                       *)
Execute ==
  /\ pc = "building"
  /\ tasks # <<>>
  /\ pc' = "planning"
  /\ cursor' = 1
  /\ states' = [r \in 1..Len(resources) |-> [scope |-> NoScope, layout |-> "Undefined", prev |-> 0]]
  /\ UNCHANGED <<pools, chain, gpu>>

-----------------------------------------------------------------------------
(* execute(): one pass over the dependencies of all tasks, a step each.    *)
Dep == dependencies[cursor]
Prior == states[Dep.resource]
IsFirstAccess == Prior.scope.access = {}
ExtendsReads == ~IsFirstAccess /\ IsReadOnly(Prior.scope.access) /\ IsReadOnly(Dep.scope.access)

Plan(isTexture) ==
  /\ pc = "planning"
  /\ cursor <= Len(dependencies)
  /\ IsTexture(Dep.resource) = isTexture
  /\ cursor' = cursor + 1
  /\ UNCHANGED <<pc, resources, dependencies, postHead, chain, gpu>>

ExtendedState_DropsEarlierReads == [Prior EXCEPT !.scope = Dep.scope]
NewState(prev) == [scope |-> Dep.scope, layout |-> Dep.layout, prev |-> prev]
ExtendedState == [Prior EXCEPT !.scope = Join(Prior.scope, Dep.scope)]

PlanFirstBufferAccess ==
  /\ Plan(FALSE)
  /\ IsFirstAccess
  /\ states' = [states EXCEPT ![Dep.resource] = NewState(0)]
  /\ UNCHANGED <<tasks, barriers>>

(* Read after read: the global barrier that ordered the earlier reads,     *)
(* `prev` being the task that emits it, is extended.                       *)
PlanBufferRead ==
  /\ Plan(FALSE)
  /\ ExtendsReads
  /\ tasks' = IF Prior.prev = 0 THEN tasks
              ELSE [tasks EXCEPT ![Prior.prev].after = Join(@, Dep.scope)]
  /\ states' = [states EXCEPT ![Dep.resource] = ExtendedState]
  /\ UNCHANGED barriers

PlanBufferBarrier ==
  /\ Plan(FALSE)
  /\ ~IsFirstAccess /\ ~ExtendsReads
  /\ tasks' = [tasks EXCEPT ![Dep.task].before = Join(@, Prior.scope),
                            ![Dep.task].after = Join(@, Dep.scope)]
  /\ states' = [states EXCEPT ![Dep.resource] = NewState(Dep.task)]
  /\ UNCHANGED barriers

NextBarrier_OnePast == Len(barriers) + 2
NextBarrier == Len(barriers) + 1

(* A barrier goes to the front of the chain of the task it precedes.       *)
AddBarrier(layoutBefore) ==
  /\ barriers' = Append(barriers,
       [resource |-> Dep.resource, before |-> Prior.scope, after |-> Dep.scope,
        layoutBefore |-> layoutBefore, layoutAfter |-> Dep.layout,
        next |-> tasks[Dep.task].chainHead])
  /\ tasks' = [tasks EXCEPT ![Dep.task].chainHead = NextBarrier]
  /\ states' = [states EXCEPT ![Dep.resource] = NewState(NextBarrier)]

(* A transient texture always gets a barrier, an imported one if it comes  *)
(* in another layout.                                                      *)
PlanFirstTextureAccess ==
  /\ Plan(TRUE)
  /\ IsFirstAccess
  /\ LET resource == resources[Dep.resource]
     IN  IF resource.isImported /\ resource.pre = Dep.layout
         THEN /\ states' = [states EXCEPT ![Dep.resource] = NewState(0)]
              /\ UNCHANGED <<tasks, barriers>>
         ELSE AddBarrier(resource.pre)

ContinuesReads_AnyLayout == ExtendsReads
ContinuesReads == ExtendsReads /\ Prior.layout = Dep.layout

PlanTextureRead ==
  /\ Plan(TRUE)
  /\ ContinuesReads
  /\ barriers' = IF Prior.prev = 0 THEN barriers
                 ELSE [barriers EXCEPT ![Prior.prev].after = Join(@, Dep.scope)]
  /\ states' = [states EXCEPT ![Dep.resource] = ExtendedState]
  /\ UNCHANGED tasks

PlanTextureBarrier ==
  /\ Plan(TRUE)
  /\ ~IsFirstAccess /\ ~ContinuesReads
  /\ AddBarrier(Prior.layout)

(* The textures to hand back in another layout: one pass over the          *)
(* resources, a step each, that pushes barriers at the front of a chain.   *)
NeedsReturn_ComparesImport(r) ==
  IsTexture(r) /\ resources[r].isImported /\ resources[r].post # resources[r].pre
NeedsReturn(r) ==
  IsTexture(r) /\ resources[r].isImported /\ resources[r].post # states[r].layout

PlanReturn ==
  LET r == cursor - Len(dependencies)
  IN  /\ pc = "planning"
      /\ r \in 1..Len(resources)
      /\ IF NeedsReturn(r)
         THEN /\ barriers' = Append(barriers,
                   [resource |-> r, before |-> states[r].scope, after |-> NoScope,
                    layoutBefore |-> states[r].layout, layoutAfter |-> resources[r].post,
                    next |-> postHead])
              /\ postHead' = NextBarrier
         ELSE UNCHANGED <<barriers, postHead>>
      /\ cursor' = cursor + 1
      /\ UNCHANGED <<pc, resources, tasks, dependencies, states, chain, gpu>>

(* The barriers are planned; the GPU will find a texture as its owner left *)
(* it, or, if it is transient, in no layout.                               *)
StartTasks ==
  /\ pc = "planning"
  /\ cursor > Len(dependencies) + Len(resources)
  /\ layoutOf' = [r \in 1..Len(resources) |-> resources[r].pre]
  /\ pc' = "task barriers"
  /\ cursor' = 1
  /\ UNCHANGED <<pools, states, chain, history>>

-----------------------------------------------------------------------------
(* What a barrier does to the accesses before it: those in its first scope *)
(* -- by themselves, or through an earlier barrier -- become visible to    *)
(* its second.                                                             *)
Tokens(scope) == scope.sync \X scope.access
Covers(before, access) == ({access.token} \cup access.visible) \cap Tokens(before) # {}
AfterBarrier(before, after, affected) ==
  {IF access.resource \in affected /\ Covers(before, access)
   THEN [access EXCEPT !.visible = @ \cup Tokens(after)] ELSE access : access \in history}

(* CommandList::textureMemoryBarrier: what it asserts.                     *)
NamesAnAccess(b) == b.before.access # {} \/ b.after.access # {}
ValidBarrier(b) ==
  /\ NamesAnAccess(b)
  /\ b.before.access \cup b.after.access \subseteq TextureAccesses
  /\ SyncFitsAccess(b.before.sync, b.before.access)
  /\ SyncFitsAccess(b.after.sync, b.after.access)
  /\ AccessFitsLayout(b.before.access, b.layoutBefore)
  /\ AccessFitsLayout(b.after.access, b.layoutAfter)

(* The global barrier of a task.  CommandList::globalMemoryBarrier has no  *)
(* body yet, only an assertion; this is the D3D12 barrier it stands for.   *)
EmitGlobalBarrier ==
  LET task == tasks[cursor]
  IN  /\ pc = "task barriers"
      /\ history' = IF task.before.sync = {} \/ task.after.sync = {} THEN history
                    ELSE AfterBarrier(task.before, task.after, 1..Len(resources))
      /\ chain' = task.chainHead
      /\ pc' = "local barriers"
      /\ UNCHANGED <<pools, planning, layoutOf>>

(* The program stops at an invalid barrier.                                *)
EmitLocalBarrier ==
  /\ pc \in {"local barriers", "post barriers"}
  /\ chain # 0
  /\ LET b == barriers[chain]
     IN  IF ValidBarrier(b)
         THEN /\ history' = AfterBarrier(b.before, b.after, {b.resource})
              /\ layoutOf' = [layoutOf EXCEPT ![b.resource] = b.layoutAfter]
              /\ chain' = b.next
              /\ UNCHANGED pc
         ELSE pc' = "stopped" /\ UNCHANGED <<gpu, chain>>
  /\ UNCHANGED <<pools, planning>>

RunTask ==
  /\ pc = "local barriers"
  /\ chain = 0
  /\ history' = history \cup
       UNION {{[resource |-> d.resource, token |-> token, visible |-> {}] :
                 token \in Tokens(d.scope)} : d \in DependenciesOf(cursor)}
  /\ cursor' = cursor + 1
  /\ pc' = IF cursor < Len(tasks) THEN "task barriers" ELSE "post barriers"
  /\ chain' = IF cursor < Len(tasks) THEN 0 ELSE postHead
  /\ UNCHANGED <<pools, states, layoutOf>>

(* Close, submit, and reset of the graph.                                  *)
Submit ==
  /\ pc = "post barriers"
  /\ chain = 0
  /\ pc' = "closed"
  /\ resources' = <<>> /\ tasks' = <<>> /\ dependencies' = <<>> /\ barriers' = <<>>
  /\ postHead' = 0
  /\ states' = <<>> /\ cursor' = 0 /\ chain' = 0
  /\ layoutOf' = <<>> /\ history' = {}

Describe ==
  \/ Open
  \/ CreateTransientBuffer
  \/ CreateTransientTexture
  \/ ImportExternalBuffer
  \/ \E layouts \in ImportLayouts : ImportExternalTexture(layouts[1], layouts[2])
  \/ AddTask
  \/ \E r \in 1..Len(resources), use \in BufferUses \cup TextureUses : AddTaskDependency(r, use)
  \/ Execute

PlanBarriers ==
  \/ PlanFirstBufferAccess
  \/ PlanBufferRead
  \/ PlanBufferBarrier
  \/ PlanFirstTextureAccess
  \/ PlanTextureRead
  \/ PlanTextureBarrier
  \/ PlanReturn
  \/ StartTasks

Emit == EmitGlobalBarrier \/ EmitLocalBarrier \/ RunTask \/ Submit

Next == Describe \/ PlanBarriers \/ Emit

Spec == Init /\ [][Next]_vars

-----------------------------------------------------------------------------
(* Every index in the pools is one of a live entry, chains included.       *)
TypeOK ==
  /\ pc \in {"closed", "building", "planning", "task barriers", "local barriers",
             "post barriers", "stopped"}
  /\ Len(resources) <= MaxResources /\ Len(tasks) <= MaxTasks
  /\ Len(dependencies) <= MaxDependencies
  /\ \A i \in 1..Len(dependencies) : /\ dependencies[i].resource \in 1..Len(resources)
                                     /\ dependencies[i].task \in 1..Len(tasks)
                                     /\ dependencies[i].scope \in Scope
  /\ \A i \in 1..Len(barriers) : /\ barriers[i].resource \in 1..Len(resources)
                                 /\ IsTexture(barriers[i].resource)
                                 /\ barriers[i].before \in Scope /\ barriers[i].after \in Scope
                                 /\ {barriers[i].layoutBefore, barriers[i].layoutAfter} \subseteq Layout
                                 /\ barriers[i].next \in 0..(i - 1)
  /\ \A t \in 1..Len(tasks) : /\ tasks[t].before \in Scope /\ tasks[t].after \in Scope
                              /\ tasks[t].chainHead \in 0..Len(barriers)
  /\ {postHead, chain} \subseteq 0..Len(barriers)
  /\ \A r \in DOMAIN states : states[r].scope \in Scope /\ states[r].layout \in Layout
  /\ cursor \in 0..(Len(dependencies) + Len(resources) + Len(tasks) + 1)

(* Every two accesses of two tasks to one resource, one of them a write,   *)
(* are ordered by a barrier: when a task is about to run, what the earlier *)
(* tasks did is visible to every stage and access it declared.  This is    *)
(* what the barrier generation of execute() is for (660-895).              *)
AccessesOrdered ==
  pc = "local barriers" /\ chain = 0 =>
    \A d \in DependenciesOf(cursor), earlier \in history :
      /\ earlier.resource = d.resource
      /\ ~(IsReadOnly(d.scope.access) /\ IsReadOnly({earlier.token[2]}))
      => Tokens(d.scope) \subseteq earlier.visible

(* A task finds each of its textures in the layout it declared, whatever   *)
(* order its barriers were chained and emitted in.                         *)
LayoutsAgree ==
  pc = "local barriers" /\ chain = 0 =>
    \A d \in DependenciesOf(cursor) :
      IsTexture(d.resource) => layoutOf[d.resource] = d.layout

(* A layout transition rewrites the texture: its barrier names the layout  *)
(* the texture is in and waits for every earlier access of it.  Barriers   *)
(* the HAL refuses are not emitted.                                        *)
TransitionsSafe ==
  pc \in {"local barriers", "post barriers"} /\ chain # 0 /\ ValidBarrier(barriers[chain]) =>
    LET b == barriers[chain]
    IN  /\ b.layoutBefore = layoutOf[b.resource]
        /\ b.layoutBefore # b.layoutAfter =>
             \A access \in history : access.resource = b.resource => Covers(b.before, access)

(* When the frame is submitted, every imported texture is in the layout    *)
(* its owner expects it back in (897-925).                                 *)
ImportsHandedBack ==
  pc = "post barriers" /\ chain = 0 =>
    \A r \in 1..Len(resources) :
      IsTexture(r) /\ resources[r].isImported => layoutOf[r] = resources[r].post

(* A frame that uses every texture it imports, in layouts that fit the     *)
(* accesses, never fails an assertion of the HAL's barriers (617-643),     *)
(* however the barriers were merged.                                       *)
UsedFramesEmit ==
  pc = "stopped" => /\ barriers[chain].resource \in 1..Len(resources)
                    /\ TasksOf(barriers[chain].resource) = {}

(* The barrier pool, sized 2 * MaxDenendencyCount, has room for a barrier  *)
(* of every dependency and one of every imported texture.                  *)
BarrierPoolSize_PerDependency == MaxDependencies
BarrierPoolSize == 2 * MaxDependencies
BarrierPoolSuffices == Len(barriers) <= BarrierPoolSize

(* The HAL's assertion "accessBefore != None || accessAfter != None"       *)
(* (D3D12.cpp:625) holds of every barrier the graph emits.                 *)
BarrierNamesAnAccess ==
  pc \in {"local barriers", "post barriers"} /\ chain # 0 => NamesAnAccess(barriers[chain])

=============================================================================
