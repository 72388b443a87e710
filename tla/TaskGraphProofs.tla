-------------------------- MODULE TaskGraphProofs --------------------------
(***************************************************************************)
(* For every set of buffer and texture uses and every size of the pools:   *)
(* the type invariant, that the pool of barriers never overflows           *)
(* (BarrierPoolSuffices), that the HAL accepts the barriers of every frame *)
(* whose imported textures are used (UsedFramesEmit), that the barriers    *)
(* order the tasks' accesses, keep every texture in the layout its task    *)
(* declared, and hand imported textures back.                              *)
(*                                                                         *)
(* DataInv says what the pools of a graph hold and where the indices in    *)
(* them point; the lemmas behind it say what one turn of a planning loop   *)
(* does to them, by the kind of its resource and of the accesses it meets. *)
(* The second part, on the order of accesses, builds on both.              *)
(***************************************************************************)
EXTENDS TaskGraph, IntegerLemmas, SequenceTheorems, TLAPS

(* The types of the pools' entries.                                        *)
Resource == [type : {"Buffer", "Texture"}, isImported : BOOLEAN, pre : Layout, post : Layout]
Dependency == [resource : Nat, task : Nat, scope : Scope, layout : Layout]
Task == [before : Scope, after : Scope, chainHead : Nat]
Barrier == [resource : Nat, before : Scope, after : Scope,
            layoutBefore : Layout, layoutAfter : Layout, next : Nat]
State == [scope : Scope, layout : Layout, prev : Nat]
Token == {"Copy", "ComputeShader", "PrePixelShaders", "PixelShader",
          "ColorRenderTarget", "DepthStencilRenderTarget"} \X (TextureAccesses \cup ReadOnlyAccesses)
Access == [resource : Nat, token : Token, visible : SUBSET Token]

Describing == {"closed", "building"}
Emitting == {"task barriers", "local barriers", "post barriers"}

PoolTypes ==
  /\ resources \in Seq(Resource) /\ Len(resources) <= MaxResources
  /\ tasks \in Seq(Task) /\ Len(tasks) <= MaxTasks
  /\ dependencies \in Seq(Dependency) /\ Len(dependencies) <= MaxDependencies
  /\ barriers \in Seq(Barrier)
  /\ history \in SUBSET Access

(* The dependencies are in the order of their tasks, and a task has no two *)
(* on one resource.                                                        *)
DependenciesInv ==
  /\ \A d \in 1..Len(dependencies) :
       /\ dependencies[d].resource \in 1..Len(resources)
       /\ dependencies[d].task \in 1..Len(tasks)
       /\ dependencies[d].scope.sync # {} /\ dependencies[d].scope.access # {}
       /\ IsTexture(dependencies[d].resource) =>
            /\ SyncFitsAccess(dependencies[d].scope.sync, dependencies[d].scope.access)
            /\ AccessFitsLayout(dependencies[d].scope.access, dependencies[d].layout)
            /\ dependencies[d].layout # "Undefined"
  /\ \A d, e \in 1..Len(dependencies) : d < e =>
       /\ dependencies[d].task <= dependencies[e].task
       /\ dependencies[d].resource = dependencies[e].resource =>
            dependencies[d].task # dependencies[e].task

(* Every index points into its pool; the barriers planned so far are at    *)
(* most one for each turn of the planning loops.                           *)
IndexInv ==
  /\ \A i \in 1..Len(barriers) :
       /\ barriers[i].resource \in 1..Len(resources) /\ IsTexture(barriers[i].resource)
       /\ barriers[i].next \in 0..(i - 1)
  /\ \A t \in 1..Len(tasks) : tasks[t].chainHead \in 0..Len(barriers)
  /\ postHead \in 0..Len(barriers) /\ chain \in 0..Len(barriers)
  /\ pc \notin Describing =>
       /\ states \in [1..Len(resources) -> State]
       /\ \A r \in 1..Len(resources) :
            states[r].prev \in 0..(IF IsTexture(r) THEN Len(barriers) ELSE Len(tasks))

PhaseInv ==
  /\ pc \in Describing \cup {"planning", "stopped"} \cup Emitting
  /\ cursor \in Nat
  /\ pc = "closed" => resources = <<>> /\ tasks = <<>> /\ dependencies = <<>>
  /\ pc \in Describing => /\ barriers = <<>> /\ postHead = 0 /\ chain = 0 /\ states = <<>>
                          /\ cursor = 0 /\ history = {}
                          /\ \A t \in 1..Len(tasks) : tasks[t].chainHead = 0
  /\ pc \notin Describing => /\ Len(tasks) > 0
                             /\ Len(barriers) <= Len(dependencies) + Len(resources)
  /\ pc = "planning" => /\ cursor \in 1..(Len(dependencies) + Len(resources) + 1)
                        /\ Len(barriers) < cursor
                        /\ chain = 0 /\ history = {}
  /\ pc = "task barriers" => chain = 0
  /\ pc \in {"task barriers", "local barriers"} => cursor \in 1..Len(tasks)
  /\ pc = "post barriers" => cursor = Len(tasks) + 1
  /\ pc = "stopped" => cursor \in 1..(Len(tasks) + 1)
  /\ pc \in Emitting => layoutOf \in [1..Len(resources) -> Layout]

DataInv == PoolTypes /\ DependenciesInv /\ IndexInv /\ PhaseInv

-----------------------------------------------------------------------------
LEMMA Scopes ==
  /\ NoScope \in Scope /\ NoScope.sync = {} /\ NoScope.access = {}
  /\ \A s \in Scope, u \in Scope :
       /\ Join(s, u) \in Scope
       /\ Join(s, u).sync = s.sync \cup u.sync /\ Join(s, u).access = s.access \cup u.access
  /\ \A s \in Scope : Tokens(s) \subseteq Token
BY DEF Scope, NoScope, Join, Tokens, Token

LEMMA EntryTypes ==
  ASSUME PoolTypes
  PROVE  /\ \A i \in 1..Len(resources) : resources[i] \in Resource
         /\ \A i \in 1..Len(tasks) : tasks[i] \in Task
         /\ \A i \in 1..Len(dependencies) : dependencies[i] \in Dependency
         /\ \A i \in 1..Len(barriers) : barriers[i] \in Barrier
         /\ Len(resources) \in Nat /\ Len(tasks) \in Nat
         /\ Len(dependencies) \in Nat /\ Len(barriers) \in Nat
BY LenProperties DEF PoolTypes

(* What the EXCEPTs of the planning steps do to a task and to a barrier.   *)
LEMMA TaskExtended ==
  ASSUME tasks \in Seq(Task), NEW p \in 1..Len(tasks), NEW s \in Scope,
         tasks' = [tasks EXCEPT ![p].after = Join(@, s)]
  PROVE  /\ tasks' \in Seq(Task) /\ Len(tasks') = Len(tasks)
         /\ \A t \in 1..Len(tasks) :
              /\ tasks'[t].chainHead = tasks[t].chainHead /\ tasks'[t].before = tasks[t].before
              /\ tasks'[t].after = IF t = p THEN Join(tasks[t].after, s) ELSE tasks[t].after
<1> DEFINE entry == [tasks[p] EXCEPT !.after = Join(tasks[p].after, s)]
<1>1. tasks[p] \in Task
  OBVIOUS
<1>2. Join(tasks[p].after, s) \in Scope
  BY <1>1, Scopes DEF Task
<1>3. /\ entry \in Task /\ entry.chainHead = tasks[p].chainHead /\ entry.before = tasks[p].before
      /\ entry.after = Join(tasks[p].after, s)
  BY <1>1, <1>2 DEF Task
<1>4. tasks' = [tasks EXCEPT ![p] = entry]
  OBVIOUS
<1> HIDE DEF entry
<1>5. /\ tasks' \in Seq(Task) /\ Len(tasks') = Len(tasks)
      /\ \A t \in 1..Len(tasks) : tasks'[t] = IF t = p THEN entry ELSE tasks[t]
  BY <1>3, <1>4, ExceptSeq
<1>6. QED
  BY <1>3, <1>5

LEMMA TaskOrdered ==
  ASSUME tasks \in Seq(Task), NEW p \in 1..Len(tasks), NEW s \in Scope, NEW u \in Scope,
         tasks' = [tasks EXCEPT ![p].before = Join(@, s), ![p].after = Join(@, u)]
  PROVE  /\ tasks' \in Seq(Task) /\ Len(tasks') = Len(tasks)
         /\ \A t \in 1..Len(tasks) :
              /\ tasks'[t].chainHead = tasks[t].chainHead
              /\ tasks'[t].before = IF t = p THEN Join(tasks[t].before, s) ELSE tasks[t].before
              /\ tasks'[t].after = IF t = p THEN Join(tasks[t].after, u) ELSE tasks[t].after
<1> DEFINE entry == [tasks[p] EXCEPT !.before = Join(tasks[p].before, s),
                                     !.after = Join(tasks[p].after, u)]
<1>1. tasks[p] \in Task
  OBVIOUS
<1>2. Join(tasks[p].before, s) \in Scope /\ Join(tasks[p].after, u) \in Scope
  BY <1>1, Scopes DEF Task
<1>3. /\ entry \in Task /\ entry.chainHead = tasks[p].chainHead
      /\ entry.before = Join(tasks[p].before, s) /\ entry.after = Join(tasks[p].after, u)
  BY <1>1, <1>2 DEF Task
<1>4. tasks' = [tasks EXCEPT ![p] = entry]
  OBVIOUS
<1> HIDE DEF entry
<1>5. /\ [tasks EXCEPT ![p] = entry] \in Seq(Task)
      /\ Len([tasks EXCEPT ![p] = entry]) = Len(tasks)
      /\ \A t \in 1..Len(tasks) :
           [tasks EXCEPT ![p] = entry][t] = IF t = p THEN entry ELSE tasks[t]
  BY <1>3, ExceptSeq
<1>6. /\ tasks' \in Seq(Task) /\ Len(tasks') = Len(tasks)
      /\ \A t \in 1..Len(tasks) : tasks'[t] = IF t = p THEN entry ELSE tasks[t]
  BY ONLY <1>4, <1>5
<1>7. QED
  BY <1>3, <1>6

LEMMA TaskChained ==
  ASSUME tasks \in Seq(Task), NEW p \in 1..Len(tasks), NEW i \in Nat,
         tasks' = [tasks EXCEPT ![p].chainHead = i]
  PROVE  /\ tasks' \in Seq(Task) /\ Len(tasks') = Len(tasks)
         /\ \A t \in 1..Len(tasks) :
              /\ tasks'[t].chainHead = IF t = p THEN i ELSE tasks[t].chainHead
              /\ tasks'[t].before = tasks[t].before /\ tasks'[t].after = tasks[t].after
<1> DEFINE entry == [tasks[p] EXCEPT !.chainHead = i]
<1>1. tasks[p] \in Task
  OBVIOUS
<1>2. /\ entry \in Task /\ entry.chainHead = i
      /\ entry.before = tasks[p].before /\ entry.after = tasks[p].after
  BY <1>1 DEF Task
<1>3. tasks' = [tasks EXCEPT ![p] = entry]
  OBVIOUS
<1> HIDE DEF entry
<1>4. /\ tasks' \in Seq(Task) /\ Len(tasks') = Len(tasks)
      /\ \A t \in 1..Len(tasks) : tasks'[t] = IF t = p THEN entry ELSE tasks[t]
  BY <1>2, <1>3, ExceptSeq
<1>5. QED
  BY <1>2, <1>4

LEMMA BarrierExtended ==
  ASSUME barriers \in Seq(Barrier), NEW p \in 1..Len(barriers), NEW s \in Scope,
         barriers' = [barriers EXCEPT ![p].after = Join(@, s)]
  PROVE  /\ barriers' \in Seq(Barrier) /\ Len(barriers') = Len(barriers)
         /\ \A i \in 1..Len(barriers) :
              /\ barriers'[i].resource = barriers[i].resource /\ barriers'[i].next = barriers[i].next
              /\ barriers'[i].layoutBefore = barriers[i].layoutBefore
              /\ barriers'[i].layoutAfter = barriers[i].layoutAfter
              /\ barriers'[i].before = barriers[i].before
              /\ barriers'[i].after = IF i = p THEN Join(barriers[i].after, s) ELSE barriers[i].after
<1> DEFINE entry == [barriers[p] EXCEPT !.after = Join(barriers[p].after, s)]
<1>1. barriers[p] \in Barrier
  OBVIOUS
<1>2. Join(barriers[p].after, s) \in Scope
  BY <1>1, Scopes DEF Barrier
<1>3. /\ entry \in Barrier
      /\ entry.resource = barriers[p].resource /\ entry.next = barriers[p].next
      /\ entry.layoutBefore = barriers[p].layoutBefore
      /\ entry.layoutAfter = barriers[p].layoutAfter
      /\ entry.before = barriers[p].before /\ entry.after = Join(barriers[p].after, s)
  BY <1>1, <1>2 DEF Barrier
<1>4. barriers' = [barriers EXCEPT ![p] = entry]
  OBVIOUS
<1> HIDE DEF entry
<1>5. /\ barriers' \in Seq(Barrier) /\ Len(barriers') = Len(barriers)
      /\ \A i \in 1..Len(barriers) : barriers'[i] = IF i = p THEN entry ELSE barriers[i]
  BY <1>3, <1>4, ExceptSeq
<1>6. QED
  BY <1>3, <1>5

-----------------------------------------------------------------------------
LEMMA DataInvInit == Init => DataInv
<1> SUFFICES ASSUME Init PROVE DataInv
  OBVIOUS
<1>1. /\ resources = <<>> /\ tasks = <<>> /\ dependencies = <<>> /\ barriers = <<>>
      /\ Len(resources) = 0 /\ Len(tasks) = 0 /\ Len(dependencies) = 0 /\ Len(barriers) = 0
  BY EmptySeq DEF Init
<1>2. PoolTypes
  <2>1. resources \in Seq(Resource) /\ tasks \in Seq(Task) /\ dependencies \in Seq(Dependency)
        /\ barriers \in Seq(Barrier)
    BY <1>1, EmptySeq
  <2>2. history \in SUBSET Access
    BY DEF Init
  <2>3. QED
    BY <1>1, <2>1, <2>2, BoundsAssumption DEF PoolTypes, BoundsAssumption
<1>3. DependenciesInv
  BY <1>1 DEF DependenciesInv
<1>4. IndexInv
  BY <1>1 DEF Init, IndexInv, Describing
<1>5. PhaseInv
  BY <1>1 DEF Init, PhaseInv, Describing, Emitting
<1>6. QED
  BY <1>2, <1>3, <1>4, <1>5 DEF DataInv

(* Describing the frame appends to the pools.                              *)
LEMMA AddResourceStep ==
  ASSUME DataInv, NEW resource \in Resource, AddResource(resource)
  PROVE  DataInv'
<1>1. /\ pc = "building" /\ Len(resources) < MaxResources
      /\ resources' = Append(resources, resource)
      /\ UNCHANGED <<pc, tasks, dependencies, barriers, postHead, states, cursor, chain, layoutOf, history>>
  BY DEF AddResource, planning, gpu
<1>2. PoolTypes /\ DependenciesInv /\ IndexInv /\ PhaseInv
  BY DEF DataInv
<1>3. /\ resources' \in Seq(Resource) /\ Len(resources') = Len(resources) + 1 /\ Len(resources) \in Nat
      /\ \A r \in 1..Len(resources) : resources'[r] = resources[r]
  BY <1>1, <1>2, AppendProperties, LenProperties DEF PoolTypes
<1>4. \A r \in 1..Len(resources) : r \in 1..Len(resources') /\ IsTexture(r)' = IsTexture(r)
  BY <1>3 DEF IsTexture
<1>5. PoolTypes'
  BY <1>1, <1>2, <1>3, BoundsAssumption DEF PoolTypes, BoundsAssumption
<1>6. DependenciesInv'
  <2>1. ASSUME NEW d \in 1..Len(dependencies)
        PROVE  IsTexture(dependencies[d].resource)' = IsTexture(dependencies[d].resource)
    BY <1>1, <1>2, <1>4 DEF DependenciesInv
  <2>2. QED
    BY <1>1, <1>2, <1>4, <2>1 DEF DependenciesInv
<1>7. IndexInv'
  BY <1>1, <1>2 DEF IndexInv, PhaseInv, Describing
<1>8. PhaseInv'
  BY <1>1, <1>2 DEF PhaseInv, Describing, Emitting
<1>9. QED
  BY <1>5, <1>6, <1>7, <1>8 DEF DataInv

LEMMA AddTaskStep == DataInv /\ AddTask => DataInv'
<1> SUFFICES ASSUME DataInv, AddTask PROVE DataInv'
  OBVIOUS
<1> DEFINE task == [before |-> NoScope, after |-> NoScope, chainHead |-> 0]
<1>1. /\ pc = "building" /\ Len(tasks) < MaxTasks
      /\ tasks' = Append(tasks, task)
      /\ UNCHANGED <<pc, resources, dependencies, barriers, postHead, states, cursor, chain, layoutOf, history>>
  BY DEF AddTask, planning, gpu
<1>2. PoolTypes /\ DependenciesInv /\ IndexInv /\ PhaseInv
  BY DEF DataInv
<1>3. task \in Task /\ task.chainHead = 0
  BY Scopes DEF Task
<1> HIDE DEF task
<1>4. /\ tasks' \in Seq(Task) /\ Len(tasks') = Len(tasks) + 1 /\ Len(tasks) \in Nat
      /\ \A t \in 1..Len(tasks) : tasks'[t] = tasks[t]
      /\ tasks'[Len(tasks) + 1] = task
  BY <1>1, <1>2, <1>3, AppendProperties, LenProperties DEF PoolTypes
<1>5. PoolTypes'
  BY <1>1, <1>2, <1>4, BoundsAssumption DEF PoolTypes, BoundsAssumption
<1>6. \A r : IsTexture(r)' = IsTexture(r)
  BY <1>1 DEF IsTexture
<1>7. DependenciesInv'
  <2>1. \A t \in 1..Len(tasks) : t \in 1..Len(tasks')
    BY <1>4
  <2>2. QED
    BY <1>1, <1>2, <1>6, <2>1 DEF DependenciesInv
<1>8. \A t \in 1..Len(tasks') : tasks'[t].chainHead = 0
  <2>1. \A t \in 1..Len(tasks) : tasks[t].chainHead = 0
    BY <1>1, <1>2 DEF PhaseInv, Describing
  <2>2. QED
    BY <1>3, <1>4, <2>1
<1>9. IndexInv'
  <2>1. barriers' = <<>> /\ Len(barriers') = 0 /\ postHead' = 0 /\ chain' = 0 /\ pc' \in Describing
    BY <1>1, <1>2, EmptySeq DEF PhaseInv, Describing
  <2>2. QED
    BY <1>8, <2>1 DEF IndexInv
<1>10. PhaseInv'
  BY <1>1, <1>2, <1>8 DEF PhaseInv, Describing, Emitting
<1>11. QED
  BY <1>5, <1>7, <1>9, <1>10 DEF DataInv

LEMMA AddTaskDependencyStep ==
  ASSUME DataInv, NEW r \in 1..Len(resources), NEW use, AddTaskDependency(r, use)
  PROVE  DataInv'
<1> DEFINE dep == [resource |-> r, task |-> Len(tasks), scope |-> use.scope, layout |-> use.layout]
           n == Len(dependencies)
<1>1. /\ pc = "building" /\ tasks # <<>> /\ n < MaxDependencies
      /\ Len(tasks) \notin TasksOf(r)
      /\ use \in (IF IsTexture(r) THEN TextureUses ELSE BufferUses)
      /\ dependencies' = Append(dependencies, dep)
      /\ UNCHANGED <<pc, resources, tasks, barriers, postHead, states, cursor, chain, layoutOf, history>>
  BY DEF AddTaskDependency, planning, gpu
<1>2. PoolTypes /\ DependenciesInv /\ IndexInv /\ PhaseInv
  BY DEF DataInv
<1>3. /\ use.scope \in Scope /\ use.layout \in Layout
      /\ use.scope.sync # {} /\ use.scope.access # {}
      /\ IsTexture(r) => /\ SyncFitsAccess(use.scope.sync, use.scope.access)
                         /\ AccessFitsLayout(use.scope.access, use.layout)
                         /\ use.layout # "Undefined"
  <2>1. CASE IsTexture(r)
    <3>1. /\ use.scope \in Scope /\ SyncFitsAccess(use.scope.sync, use.scope.access)
          /\ use.scope.access # {} /\ use.layout \in Layout \ {"Undefined"}
          /\ AccessFitsLayout(use.scope.access, use.layout)
      BY <1>1, <2>1, TextureUsesAssumption DEF TextureUsesAssumption
    <3>2. use.scope.sync # {}
      BY <3>1 DEF SyncFitsAccess
    <3>3. QED
      BY <3>1, <3>2
  <2>2. CASE ~IsTexture(r)
    <3>1. "Undefined" \in Layout
      BY DEF Layout
    <3>2. QED
      BY <1>1, <2>2, <3>1, BufferUsesAssumption DEF BufferUsesAssumption
  <2>3. QED
    BY <2>1, <2>2
<1>4. Len(tasks) \in Nat /\ Len(tasks) \in 1..Len(tasks) /\ n \in Nat /\ Len(resources) \in Nat
  <2>1. tasks \in Seq(Task) /\ tasks # <<>> /\ Len(tasks) \in Nat /\ n \in Nat /\ Len(resources) \in Nat
    BY <1>1, <1>2, LenProperties DEF PoolTypes
  <2>2. Len(tasks) # 0
    BY <2>1, EmptySeq
  <2>3. QED
    BY <2>1, <2>2
<1>5. /\ dep \in Dependency /\ dep.resource = r /\ dep.task = Len(tasks)
      /\ dep.scope = use.scope /\ dep.layout = use.layout
  BY <1>3, <1>4 DEF Dependency
<1> HIDE DEF dep
<1>6. /\ dependencies' \in Seq(Dependency) /\ Len(dependencies') = n + 1
      /\ \A d \in 1..n : dependencies'[d] = dependencies[d]
      /\ dependencies'[n + 1] = dep
  BY <1>1, <1>2, <1>5, AppendProperties DEF PoolTypes
<1>7. PoolTypes'
  BY <1>1, <1>2, <1>4, <1>6, BoundsAssumption DEF PoolTypes, BoundsAssumption
<1>8. \A q : IsTexture(q)' = IsTexture(q)
  BY <1>1 DEF IsTexture
<1>9. DependenciesInv'
  <2>1. ASSUME NEW d \in 1..Len(dependencies')
        PROVE  /\ dependencies'[d].resource \in 1..Len(resources')
               /\ dependencies'[d].task \in 1..Len(tasks')
               /\ dependencies'[d].scope.sync # {} /\ dependencies'[d].scope.access # {}
               /\ IsTexture(dependencies'[d].resource) =>
                    /\ SyncFitsAccess(dependencies'[d].scope.sync, dependencies'[d].scope.access)
                    /\ AccessFitsLayout(dependencies'[d].scope.access, dependencies'[d].layout)
                    /\ dependencies'[d].layout # "Undefined"
    <3>1. CASE d \in 1..n
      BY <1>1, <1>2, <1>6, <3>1 DEF DependenciesInv
    <3>2. CASE d = n + 1
      BY <1>1, <1>3, <1>4, <1>5, <1>6, <3>2
    <3>3. QED
      BY <1>4, <1>6, <3>1, <3>2
  <2>2. ASSUME NEW d \in 1..Len(dependencies'), NEW e \in 1..Len(dependencies'), d < e
        PROVE  /\ dependencies'[d].task <= dependencies'[e].task
               /\ dependencies'[d].resource = dependencies'[e].resource =>
                    dependencies'[d].task # dependencies'[e].task
    <3>1. d \in 1..n /\ dependencies'[d] = dependencies[d]
      BY <1>4, <1>6, <2>2
    <3>2. CASE e \in 1..n
      BY <1>2, <1>6, <2>2, <3>1, <3>2 DEF DependenciesInv
    <3>3. CASE e = n + 1
      <4>1. dependencies[d].task \in 1..Len(tasks)
        BY <1>2, <3>1 DEF DependenciesInv
      <4>2. dependencies[d].resource = r => dependencies[d].task # Len(tasks)
        BY <1>1, <3>1 DEF TasksOf
      <4>3. QED
        BY <1>4, <1>5, <1>6, <3>1, <3>3, <4>1, <4>2
    <3>4. QED
      BY <1>4, <1>6, <3>2, <3>3
  <2>3. QED
    BY <1>8, <2>1, <2>2 DEF DependenciesInv
<1>10. IndexInv'
  BY <1>1, <1>2, <1>8 DEF IndexInv, PhaseInv, Describing
<1>11. PhaseInv'
  BY <1>1, <1>2 DEF PhaseInv, Describing, Emitting
<1>12. QED
  BY <1>7, <1>9, <1>10, <1>11 DEF DataInv

LEMMA ExecuteStep == DataInv /\ Execute => DataInv'
<1> SUFFICES ASSUME DataInv, Execute PROVE DataInv'
  OBVIOUS
<1>1. /\ pc = "building" /\ tasks # <<>> /\ pc' = "planning" /\ cursor' = 1
      /\ states' = [r \in 1..Len(resources) |-> [scope |-> NoScope, layout |-> "Undefined", prev |-> 0]]
      /\ UNCHANGED <<resources, tasks, dependencies, barriers, postHead, chain, layoutOf, history>>
  BY DEF Execute, pools, gpu
<1>2. PoolTypes /\ DependenciesInv /\ IndexInv /\ PhaseInv
  BY DEF DataInv
<1>3. PoolTypes'
  BY <1>1, <1>2 DEF PoolTypes
<1>4. \A r : IsTexture(r)' = IsTexture(r)
  BY <1>1 DEF IsTexture
<1>5. DependenciesInv'
  BY <1>1, <1>2, <1>4 DEF DependenciesInv
<1>6. /\ Len(tasks) \in Nat /\ Len(tasks) # 0 /\ Len(barriers) = 0
      /\ Len(dependencies) \in Nat /\ Len(resources) \in Nat
  BY <1>1, <1>2, LenProperties, EmptySeq DEF PoolTypes, PhaseInv, Describing
<1>7. IndexInv'
  <2>1. [scope |-> NoScope, layout |-> "Undefined", prev |-> 0] \in State
    BY Scopes DEF State, Layout
  <2>2. states' \in [1..Len(resources) -> State] /\ \A r \in 1..Len(resources) : states'[r].prev = 0
    BY <1>1, <2>1
  <2>3. QED
    BY <1>1, <1>2, <1>4, <1>6, <2>2 DEF IndexInv
<1>8. PhaseInv'
  BY <1>1, <1>2, <1>6 DEF PhaseInv, Describing, Emitting
<1>9. QED
  BY <1>3, <1>5, <1>7, <1>8 DEF DataInv

LEMMA DescribeStep == DataInv /\ Describe => DataInv'
<1> SUFFICES ASSUME DataInv, Describe PROVE DataInv'
  OBVIOUS
<1>1. CASE Open
  <2>1. pc = "closed" /\ pc' = "building"
        /\ UNCHANGED <<resources, tasks, dependencies, barriers, postHead, states, cursor, chain, layoutOf, history>>
    BY <1>1 DEF Open, pools, planning, gpu
  <2>2. \A r : IsTexture(r)' = IsTexture(r)
    BY <2>1 DEF IsTexture
  <2>3. PoolTypes' /\ DependenciesInv'
    BY <2>1, <2>2 DEF DataInv, PoolTypes, DependenciesInv
  <2>4. IndexInv'
    BY <2>1, <2>2 DEF DataInv, IndexInv, Describing
  <2>5. PhaseInv'
    BY <2>1 DEF DataInv, PhaseInv, Describing, Emitting
  <2>6. QED
    BY <2>3, <2>4, <2>5 DEF DataInv
<1>2. CASE CreateTransientBuffer \/ CreateTransientTexture \/ ImportExternalBuffer
  <2>1. ASSUME NEW type \in {"Buffer", "Texture"}, NEW isImported \in BOOLEAN
        PROVE  [type |-> type, isImported |-> isImported, pre |-> "Undefined", post |-> "Undefined"] \in Resource
    BY DEF Resource, Layout
  <2>2. \E resource \in Resource : AddResource(resource)
    BY <1>2, <2>1 DEF CreateTransientBuffer, CreateTransientTexture, ImportExternalBuffer
  <2>3. QED
    BY <2>2, AddResourceStep
<1>3. ASSUME NEW layouts \in ImportLayouts, ImportExternalTexture(layouts[1], layouts[2]) PROVE DataInv'
  <2>1. layouts[1] \in Layout /\ layouts[2] \in Layout
    BY ImportLayoutsAssumption DEF ImportLayoutsAssumption
  <2>2. [type |-> "Texture", isImported |-> TRUE, pre |-> layouts[1], post |-> layouts[2]] \in Resource
    BY <2>1 DEF Resource
  <2>3. QED
    BY <1>3, <2>2, AddResourceStep DEF ImportExternalTexture
<1>4. QED
  BY <1>1, <1>2, <1>3, AddTaskStep, AddTaskDependencyStep, ExecuteStep DEF Describe

-----------------------------------------------------------------------------
(* What a turn of the planning loop finds and leaves.                      *)
LEMMA PlanFacts ==
  ASSUME DataInv, NEW isTexture \in BOOLEAN, Plan(isTexture)
  PROVE  /\ pc = "planning" /\ cursor \in 1..Len(dependencies) /\ cursor' = cursor + 1
         /\ (IsTexture(Dep.resource) <=> isTexture)
         /\ UNCHANGED <<pc, resources, dependencies, postHead, chain, layoutOf, history>>
         /\ Dep \in Dependency /\ Dep.resource \in 1..Len(resources) /\ Dep.task \in 1..Len(tasks)
         /\ states \in [1..Len(resources) -> State] /\ Prior \in State
<1>1. PoolTypes /\ DependenciesInv /\ IndexInv /\ PhaseInv
  BY DEF DataInv
<1>2. /\ pc = "planning" /\ cursor <= Len(dependencies) /\ cursor' = cursor + 1
      /\ IsTexture(Dep.resource) = isTexture
      /\ UNCHANGED <<pc, resources, dependencies, postHead, chain, layoutOf, history>>
  BY DEF Plan, gpu
<1>3. cursor \in 1..Len(dependencies)
  BY <1>1, <1>2, EntryTypes DEF PhaseInv
<1>4. Dep \in Dependency /\ Dep.resource \in 1..Len(resources) /\ Dep.task \in 1..Len(tasks)
  BY <1>1, <1>3, EntryTypes DEF Dep, DependenciesInv
<1>5. states \in [1..Len(resources) -> State]
  BY <1>1, <1>2 DEF IndexInv, Describing
<1>6. Prior \in State
  BY <1>4, <1>5 DEF Prior
<1>7. QED
  BY <1>2, <1>3, <1>4, <1>5, <1>6

LEMMA StateTypes ==
  ASSUME Dep \in Dependency, Prior \in State
  PROVE  /\ \A prev \in Nat : /\ NewState(prev) \in State
                              /\ NewState(prev).scope = Dep.scope
                              /\ NewState(prev).layout = Dep.layout /\ NewState(prev).prev = prev
         /\ ExtendedState \in State /\ ExtendedState.scope = Join(Prior.scope, Dep.scope)
         /\ ExtendedState.layout = Prior.layout /\ ExtendedState.prev = Prior.prev
<1>1. Dep.scope \in Scope /\ Dep.layout \in Layout /\ Prior.scope \in Scope
  BY DEF Dependency, State
<1>2. Join(Prior.scope, Dep.scope) \in Scope
  BY <1>1, Scopes
<1>3. QED
  BY <1>1, <1>2 DEF State, NewState, ExtendedState

(* The state of the dependency's resource alone is replaced.               *)
StateBecomes(s) ==
  /\ s \in State /\ states' \in [1..Len(resources) -> State]
  /\ states'[Dep.resource] = s
  /\ \A r \in 1..Len(resources) : r # Dep.resource => states'[r] = states[r]

LEMMA StateReplaced ==
  ASSUME states \in [1..Len(resources) -> State], Dep.resource \in 1..Len(resources),
         NEW s \in State, states' = [states EXCEPT ![Dep.resource] = s]
  PROVE  StateBecomes(s)
BY DEF StateBecomes

TasksKept ==
  /\ tasks' \in Seq(Task) /\ Len(tasks') = Len(tasks)
  /\ \A t \in 1..Len(tasks) : tasks'[t].chainHead = tasks[t].chainHead

BarriersKept ==
  /\ barriers' \in Seq(Barrier) /\ Len(barriers') = Len(barriers)
  /\ \A i \in 1..Len(barriers) :
       /\ barriers'[i].resource = barriers[i].resource /\ barriers'[i].next = barriers[i].next
       /\ barriers'[i].layoutBefore = barriers[i].layoutBefore
       /\ barriers'[i].layoutAfter = barriers[i].layoutAfter
       /\ barriers'[i].before = barriers[i].before

(* A turn that adds no barrier keeps the pools' structure.                 *)
LEMMA DataInvKept ==
  ASSUME DataInv, NEW isTexture \in BOOLEAN, Plan(isTexture), TasksKept, BarriersKept,
         NEW s, StateBecomes(s),
         s.prev \in 0..(IF isTexture THEN Len(barriers) ELSE Len(tasks))
  PROVE  DataInv'
<1>1. PoolTypes /\ DependenciesInv /\ IndexInv /\ PhaseInv
  BY DEF DataInv
<1>2. /\ pc = "planning" /\ cursor \in 1..Len(dependencies) /\ cursor' = cursor + 1
      /\ (IsTexture(Dep.resource) <=> isTexture)
      /\ UNCHANGED <<pc, resources, dependencies, postHead, chain, layoutOf, history>>
      /\ Dep.resource \in 1..Len(resources)
  BY PlanFacts
<1>3. \A r : IsTexture(r)' = IsTexture(r)
  BY <1>2 DEF IsTexture
<1>4. PoolTypes'
  BY <1>1, <1>2 DEF PoolTypes, TasksKept, BarriersKept
<1>5. DependenciesInv'
  BY <1>1, <1>2, <1>3 DEF DependenciesInv, TasksKept
<1>6. IndexInv'
  <2>1. \A i \in 1..Len(barriers') :
          /\ barriers'[i].resource \in 1..Len(resources') /\ IsTexture(barriers[i].resource)'
          /\ barriers'[i].next \in 0..(i - 1)
    BY <1>1, <1>2 DEF IndexInv, BarriersKept, IsTexture
  <2>2. \A t \in 1..Len(tasks') : tasks'[t].chainHead \in 0..Len(barriers')
    BY <1>1 DEF IndexInv, TasksKept, BarriersKept
  <2>3. postHead' \in 0..Len(barriers') /\ chain' \in 0..Len(barriers')
    BY <1>1, <1>2 DEF IndexInv, BarriersKept
  <2>4. ASSUME NEW r \in 1..Len(resources)
        PROVE  states'[r].prev \in 0..(IF IsTexture(r) THEN Len(barriers) ELSE Len(tasks))
    <3>1. CASE r = Dep.resource
      BY <1>2, <3>1 DEF StateBecomes
    <3>2. CASE r # Dep.resource
      BY <1>1, <1>2, <3>2 DEF StateBecomes, IndexInv, Describing
    <3>3. QED
      BY <3>1, <3>2
  <2>5. states' \in [1..Len(resources) -> State]
    BY DEF StateBecomes
  <2>6. QED
    BY <1>2, <1>3, <2>1, <2>2, <2>3, <2>4, <2>5 DEF IndexInv, TasksKept, BarriersKept
<1>7. PhaseInv'
  <2>1. Len(dependencies) \in Nat /\ Len(resources) \in Nat /\ Len(barriers) \in Nat
    BY <1>1, EntryTypes
  <2>2. cursor' \in 1..(Len(dependencies) + Len(resources) + 1) /\ Len(barriers) < cursor'
    BY <1>1, <1>2, <2>1 DEF PhaseInv
  <2>3. QED
    BY <1>1, <1>2, <2>1, <2>2 DEF PhaseInv, Describing, Emitting, TasksKept, BarriersKept
<1>8. QED
  BY <1>4, <1>5, <1>6, <1>7 DEF DataInv

(* A turn that adds one.                                                   *)
BarrierAdded(layoutBefore) ==
  LET i == Len(barriers) + 1
  IN  /\ barriers' \in Seq(Barrier) /\ Len(barriers') = i
      /\ \A j \in 1..Len(barriers) : barriers'[j] = barriers[j]
      /\ barriers'[i].resource = Dep.resource /\ barriers'[i].before = Prior.scope
      /\ barriers'[i].after = Dep.scope /\ barriers'[i].layoutBefore = layoutBefore
      /\ barriers'[i].layoutAfter = Dep.layout /\ barriers'[i].next = tasks[Dep.task].chainHead
      /\ tasks' \in Seq(Task) /\ Len(tasks') = Len(tasks)
      /\ \A t \in 1..Len(tasks) :
           /\ tasks'[t].chainHead = IF t = Dep.task THEN i ELSE tasks[t].chainHead
           /\ tasks'[t].before = tasks[t].before /\ tasks'[t].after = tasks[t].after
      /\ StateBecomes(NewState(i))

LEMMA BarrierIsAdded ==
  ASSUME DataInv, Plan(TRUE), NEW layoutBefore \in Layout, AddBarrier(layoutBefore)
  PROVE  BarrierAdded(layoutBefore)
<1> DEFINE i == Len(barriers) + 1
           b == [resource |-> Dep.resource, before |-> Prior.scope, after |-> Dep.scope,
                 layoutBefore |-> layoutBefore, layoutAfter |-> Dep.layout,
                 next |-> tasks[Dep.task].chainHead]
<1>1. PoolTypes
  BY DEF DataInv
<1>2. /\ Dep \in Dependency /\ Dep.resource \in 1..Len(resources) /\ Dep.task \in 1..Len(tasks)
      /\ states \in [1..Len(resources) -> State] /\ Prior \in State
  BY PlanFacts
<1>3. i \in Nat /\ tasks[Dep.task].chainHead \in Nat /\ Len(barriers) \in Nat /\ Dep.resource \in Nat
  BY <1>1, <1>2, EntryTypes DEF Task
<1>4. /\ b \in Barrier /\ b.resource = Dep.resource /\ b.before = Prior.scope /\ b.after = Dep.scope
      /\ b.layoutBefore = layoutBefore /\ b.layoutAfter = Dep.layout
      /\ b.next = tasks[Dep.task].chainHead
  BY <1>2, <1>3 DEF Barrier, Dependency, State
<1>5. /\ barriers' = Append(barriers, b)
      /\ tasks' = [tasks EXCEPT ![Dep.task].chainHead = i]
      /\ states' = [states EXCEPT ![Dep.resource] = NewState(i)]
  BY DEF AddBarrier, NextBarrier
<1> HIDE DEF b
<1>6. /\ barriers' \in Seq(Barrier) /\ Len(barriers') = i
      /\ \A j \in 1..Len(barriers) : barriers'[j] = barriers[j]
      /\ barriers'[i] = b
  BY <1>1, <1>4, <1>5, AppendProperties DEF PoolTypes
<1>7. /\ tasks' \in Seq(Task) /\ Len(tasks') = Len(tasks)
      /\ \A t \in 1..Len(tasks) :
           /\ tasks'[t].chainHead = IF t = Dep.task THEN i ELSE tasks[t].chainHead
           /\ tasks'[t].before = tasks[t].before /\ tasks'[t].after = tasks[t].after
  <2>1. tasks \in Seq(Task)
    BY <1>1 DEF PoolTypes
  <2> HIDE DEF i
  <2>2. QED
    BY <1>2, <1>3, <1>5, <2>1, TaskChained
<1>8. StateBecomes(NewState(i))
  <2>1. NewState(i) \in State
    BY <1>2, <1>3, StateTypes
  <2>2. QED
    BY <1>2, <1>5, <2>1, StateReplaced
<1>9. QED
  BY <1>4, <1>6, <1>7, <1>8 DEF BarrierAdded

LEMMA DataInvAdded ==
  ASSUME DataInv, Plan(TRUE), NEW layoutBefore, BarrierAdded(layoutBefore)
  PROVE  DataInv'
<1> DEFINE i == Len(barriers) + 1
<1>1. PoolTypes /\ DependenciesInv /\ IndexInv /\ PhaseInv
  BY DEF DataInv
<1>2. /\ pc = "planning" /\ cursor \in 1..Len(dependencies) /\ cursor' = cursor + 1
      /\ IsTexture(Dep.resource)
      /\ UNCHANGED <<pc, resources, dependencies, postHead, chain, layoutOf, history>>
      /\ Dep.resource \in 1..Len(resources) /\ Dep.task \in 1..Len(tasks)
      /\ Dep \in Dependency /\ Prior \in State
  BY PlanFacts
<1>3. /\ Len(dependencies) \in Nat /\ Len(resources) \in Nat /\ Len(barriers) \in Nat
      /\ Len(tasks) \in Nat /\ i \in Nat
  BY <1>1, EntryTypes
<1>4. /\ barriers' \in Seq(Barrier) /\ Len(barriers') = i
      /\ \A j \in 1..Len(barriers) : barriers'[j] = barriers[j]
      /\ barriers'[i].resource = Dep.resource /\ barriers'[i].next = tasks[Dep.task].chainHead
      /\ tasks' \in Seq(Task) /\ Len(tasks') = Len(tasks)
      /\ \A t \in 1..Len(tasks) : tasks'[t].chainHead = IF t = Dep.task THEN i ELSE tasks[t].chainHead
      /\ StateBecomes(NewState(i))
  BY DEF BarrierAdded
<1>5. \A r : IsTexture(r)' = IsTexture(r)
  BY <1>2 DEF IsTexture
<1>6. PoolTypes'
  BY <1>1, <1>2, <1>4 DEF PoolTypes
<1>7. DependenciesInv'
  BY <1>1, <1>2, <1>4, <1>5 DEF DependenciesInv
<1>8. IndexInv'
  <2>1. ASSUME NEW j \in 1..Len(barriers')
        PROVE  /\ barriers'[j].resource \in 1..Len(resources') /\ IsTexture(barriers[j].resource)'
               /\ barriers'[j].next \in 0..(j - 1)
    <3>1. CASE j \in 1..Len(barriers)
      BY <1>1, <1>2, <1>4, <3>1 DEF IndexInv, IsTexture
    <3>2. CASE j = i
      <4>1. tasks[Dep.task].chainHead \in 0..Len(barriers)
        BY <1>1, <1>2 DEF IndexInv
      <4>2. QED
        BY <1>2, <1>3, <1>4, <3>2, <4>1 DEF IsTexture
    <3>3. QED
      BY <1>3, <1>4, <3>1, <3>2
  <2>2. \A t \in 1..Len(tasks') : tasks'[t].chainHead \in 0..Len(barriers')
    BY <1>1, <1>3, <1>4 DEF IndexInv
  <2>3. postHead' \in 0..Len(barriers') /\ chain' \in 0..Len(barriers')
    BY <1>1, <1>2, <1>3, <1>4 DEF IndexInv
  <2>4. ASSUME NEW r \in 1..Len(resources)
        PROVE  states'[r].prev \in 0..(IF IsTexture(r) THEN i ELSE Len(tasks))
    <3>1. CASE r = Dep.resource
      <4>1. NewState(i).prev = i
        BY <1>2, <1>3, StateTypes
      <4>2. states'[r] = NewState(i)
        BY <1>4, <3>1 DEF StateBecomes
      <4>3. QED
        BY <1>2, <1>3, <3>1, <4>1, <4>2
    <3>2. CASE r # Dep.resource
      <4>1. states'[r] = states[r]
        BY <1>4, <3>2 DEF StateBecomes
      <4>2. states[r].prev \in 0..(IF IsTexture(r) THEN Len(barriers) ELSE Len(tasks))
        BY <1>1, <1>2 DEF IndexInv, Describing
      <4>3. QED
        BY <1>3, <4>1, <4>2
    <3>3. QED
      BY <3>1, <3>2
  <2>5. states' \in [1..Len(resources) -> State]
    BY <1>4 DEF StateBecomes
  <2>6. QED
    BY <1>2, <1>4, <1>5, <2>1, <2>2, <2>3, <2>4, <2>5 DEF IndexInv
<1>9. PhaseInv'
  <2>1. /\ cursor' \in 1..(Len(dependencies) + Len(resources) + 1) /\ Len(barriers') < cursor'
        /\ Len(barriers') <= Len(dependencies) + Len(resources)
    BY <1>1, <1>2, <1>3, <1>4 DEF PhaseInv
  <2>2. QED
    BY <1>1, <1>2, <1>4, <2>1 DEF PhaseInv, Describing, Emitting
<1>10. QED
  BY <1>6, <1>7, <1>8, <1>9 DEF DataInv

-----------------------------------------------------------------------------
(* The turns of the planning loop, as the proofs below use them: the first *)
(* access that needs no barrier, an extended read, and an ordering.        *)
UnorderedAccess ==
  /\ IsFirstAccess /\ UNCHANGED <<tasks, barriers>>
  /\ StateBecomes(NewState(0))
  /\ IsTexture(Dep.resource) =>
       resources[Dep.resource].isImported /\ resources[Dep.resource].pre = Dep.layout

ExtendedBuffer ==
  /\ ExtendsReads /\ UNCHANGED barriers
  /\ StateBecomes(ExtendedState)
  /\ TasksKept
  /\ \A t \in 1..Len(tasks) :
       /\ tasks'[t].before = tasks[t].before
       /\ tasks'[t].after = IF t = Prior.prev THEN Join(tasks[t].after, Dep.scope) ELSE tasks[t].after

OrderedBuffer ==
  /\ ~IsFirstAccess /\ ~ExtendsReads /\ UNCHANGED barriers
  /\ StateBecomes(NewState(Dep.task))
  /\ TasksKept
  /\ \A t \in 1..Len(tasks) :
       /\ tasks'[t].before = IF t = Dep.task THEN Join(tasks[t].before, Prior.scope) ELSE tasks[t].before
       /\ tasks'[t].after = IF t = Dep.task THEN Join(tasks[t].after, Dep.scope) ELSE tasks[t].after

ExtendedTexture ==
  /\ ContinuesReads /\ UNCHANGED tasks
  /\ StateBecomes(ExtendedState)
  /\ BarriersKept
  /\ \A i \in 1..Len(barriers) :
       barriers'[i].after = IF i = Prior.prev THEN Join(barriers[i].after, Dep.scope)
                            ELSE barriers[i].after

OrderedTexture ==
  \/ /\ IsFirstAccess /\ BarrierAdded(resources[Dep.resource].pre)
     /\ ~(resources[Dep.resource].isImported /\ resources[Dep.resource].pre = Dep.layout)
  \/ ~IsFirstAccess /\ ~ContinuesReads /\ BarrierAdded(Prior.layout)

LEMMA UnchangedKept == UNCHANGED <<tasks, barriers>> /\ PoolTypes => TasksKept /\ BarriersKept
BY DEF PoolTypes, TasksKept, BarriersKept

LEMMA PlanBufferCases ==
  ASSUME DataInv, PlanFirstBufferAccess \/ PlanBufferRead \/ PlanBufferBarrier
  PROVE  /\ Plan(FALSE)
         /\ UnorderedAccess \/ ExtendedBuffer \/ OrderedBuffer
<1>1. Plan(FALSE)
  BY DEF PlanFirstBufferAccess, PlanBufferRead, PlanBufferBarrier
<1>2. /\ Dep \in Dependency /\ Dep.resource \in 1..Len(resources) /\ Dep.task \in 1..Len(tasks)
      /\ states \in [1..Len(resources) -> State] /\ Prior \in State /\ pc = "planning"
      /\ (IsTexture(Dep.resource) <=> FALSE)
  BY <1>1, PlanFacts
<1>3. /\ tasks \in Seq(Task) /\ Dep.scope \in Scope /\ Prior.scope \in Scope /\ Dep.task \in Nat
  BY <1>2 DEF DataInv, PoolTypes, Dependency, State
<1>4. CASE PlanFirstBufferAccess
  <2>1. StateBecomes(NewState(0))
    BY <1>2, <1>4, StateTypes, StateReplaced DEF PlanFirstBufferAccess
  <2>2. QED
    BY <1>1, <1>2, <1>4, <2>1 DEF PlanFirstBufferAccess, UnorderedAccess
<1>5. CASE PlanBufferRead
  <2>1. StateBecomes(ExtendedState)
    BY <1>2, <1>5, StateTypes, StateReplaced DEF PlanBufferRead
  <2>2. Prior.prev \in 0..Len(tasks)
    BY <1>2 DEF DataInv, IndexInv, Describing, Prior
  <2>3. CASE Prior.prev = 0
    <3>1. tasks' = tasks
      BY <1>5, <2>3 DEF PlanBufferRead
    <3>2. \A t \in 1..Len(tasks) : t # Prior.prev
      BY <2>3
    <3>3. QED
      BY <1>1, <1>3, <1>5, <2>1, <3>1, <3>2 DEF PlanBufferRead, ExtendedBuffer, TasksKept
  <2>4. CASE Prior.prev # 0
    <3>1. tasks' = [tasks EXCEPT ![Prior.prev].after = Join(@, Dep.scope)]
      BY <1>5, <2>4 DEF PlanBufferRead
    <3>2. Prior.prev \in 1..Len(tasks)
      BY <1>3, <2>2, <2>4, LenProperties
    <3>3. /\ tasks' \in Seq(Task) /\ Len(tasks') = Len(tasks)
          /\ \A t \in 1..Len(tasks) :
               /\ tasks'[t].chainHead = tasks[t].chainHead /\ tasks'[t].before = tasks[t].before
               /\ tasks'[t].after = IF t = Prior.prev THEN Join(tasks[t].after, Dep.scope)
                                    ELSE tasks[t].after
      BY ONLY <1>3, <3>1, <3>2, TaskExtended
    <3>4. QED
      BY <1>1, <1>5, <2>1, <3>3 DEF PlanBufferRead, ExtendedBuffer, TasksKept
  <2>5. QED
    BY <2>3, <2>4
<1>6. CASE PlanBufferBarrier
  <2>1. StateBecomes(NewState(Dep.task))
    BY <1>2, <1>3, <1>6, StateTypes, StateReplaced DEF PlanBufferBarrier
  <2>2. tasks' = [tasks EXCEPT ![Dep.task].before = Join(@, Prior.scope),
                               ![Dep.task].after = Join(@, Dep.scope)]
    BY <1>6 DEF PlanBufferBarrier
  <2>3. /\ tasks' \in Seq(Task) /\ Len(tasks') = Len(tasks)
        /\ \A t \in 1..Len(tasks) :
             /\ tasks'[t].chainHead = tasks[t].chainHead
             /\ tasks'[t].before = IF t = Dep.task THEN Join(tasks[t].before, Prior.scope)
                                   ELSE tasks[t].before
             /\ tasks'[t].after = IF t = Dep.task THEN Join(tasks[t].after, Dep.scope)
                                  ELSE tasks[t].after
    BY ONLY <1>2, <1>3, <2>2, TaskOrdered
  <2>4. QED
    BY <1>1, <1>6, <2>1, <2>3 DEF PlanBufferBarrier, OrderedBuffer, TasksKept
<1>7. QED
  BY <1>4, <1>5, <1>6

LEMMA PlanTextureCases ==
  ASSUME DataInv, PlanFirstTextureAccess \/ PlanTextureRead \/ PlanTextureBarrier
  PROVE  /\ Plan(TRUE)
         /\ UnorderedAccess \/ ExtendedTexture \/ OrderedTexture
<1>1. Plan(TRUE)
  BY DEF PlanFirstTextureAccess, PlanTextureRead, PlanTextureBarrier
<1>2. /\ Dep \in Dependency /\ Dep.resource \in 1..Len(resources) /\ Dep.task \in 1..Len(tasks)
      /\ states \in [1..Len(resources) -> State] /\ Prior \in State /\ pc = "planning"
      /\ (IsTexture(Dep.resource) <=> TRUE)
  BY <1>1, PlanFacts
<1>3. barriers \in Seq(Barrier) /\ Dep.scope \in Scope
  BY <1>2 DEF DataInv, PoolTypes, Dependency
<1>4. CASE PlanFirstTextureAccess
  <2> DEFINE resource == resources[Dep.resource]
  <2>1. resource.pre \in Layout
    BY <1>2, EntryTypes DEF DataInv, Resource
  <2>2. CASE resource.isImported /\ resource.pre = Dep.layout
    <3>1. states' = [states EXCEPT ![Dep.resource] = NewState(0)] /\ UNCHANGED <<tasks, barriers>>
      BY <1>4, <2>2 DEF PlanFirstTextureAccess
    <3>2. StateBecomes(NewState(0))
      BY <1>2, <3>1, StateTypes, StateReplaced
    <3>3. QED
      BY <1>1, <1>4, <2>2, <3>1, <3>2 DEF PlanFirstTextureAccess, UnorderedAccess
  <2>3. CASE ~(resource.isImported /\ resource.pre = Dep.layout)
    <3>1. AddBarrier(resource.pre)
      BY <1>4, <2>3 DEF PlanFirstTextureAccess
    <3>2. BarrierAdded(resource.pre)
      BY <1>1, <2>1, <3>1, BarrierIsAdded
    <3>3. QED
      BY <1>1, <1>4, <2>3, <3>2 DEF PlanFirstTextureAccess, OrderedTexture
  <2>4. QED
    BY <2>2, <2>3
<1>5. CASE PlanTextureRead
  <2>1. StateBecomes(ExtendedState)
    BY <1>2, <1>5, StateTypes, StateReplaced DEF PlanTextureRead
  <2>2. Prior.prev \in 0..Len(barriers)
    BY <1>2 DEF DataInv, IndexInv, Describing, Prior
  <2>3. CASE Prior.prev = 0
    <3>1. barriers' = barriers
      BY <1>5, <2>3 DEF PlanTextureRead
    <3>2. \A i \in 1..Len(barriers) : i # Prior.prev
      BY <2>3
    <3>3. QED
      BY <1>1, <1>3, <1>5, <2>1, <3>1, <3>2 DEF PlanTextureRead, ExtendedTexture, BarriersKept
  <2>4. CASE Prior.prev # 0
    <3>1. barriers' = [barriers EXCEPT ![Prior.prev].after = Join(@, Dep.scope)]
      BY <1>5, <2>4 DEF PlanTextureRead
    <3>2. Prior.prev \in 1..Len(barriers)
      BY <1>3, <2>2, <2>4, LenProperties
    <3>3. /\ barriers' \in Seq(Barrier) /\ Len(barriers') = Len(barriers)
          /\ \A i \in 1..Len(barriers) :
               /\ barriers'[i].resource = barriers[i].resource /\ barriers'[i].next = barriers[i].next
               /\ barriers'[i].layoutBefore = barriers[i].layoutBefore
               /\ barriers'[i].layoutAfter = barriers[i].layoutAfter
               /\ barriers'[i].before = barriers[i].before
               /\ barriers'[i].after = IF i = Prior.prev THEN Join(barriers[i].after, Dep.scope)
                                       ELSE barriers[i].after
      BY ONLY <1>3, <3>1, <3>2, BarrierExtended
    <3>4. QED
      BY <1>1, <1>5, <2>1, <3>3 DEF PlanTextureRead, ExtendedTexture, BarriersKept
  <2>5. QED
    BY <2>3, <2>4
<1>6. CASE PlanTextureBarrier
  <2>1. Prior.layout \in Layout
    BY <1>2 DEF State
  <2>2. BarrierAdded(Prior.layout)
    BY <1>1, <1>6, <2>1, BarrierIsAdded DEF PlanTextureBarrier
  <2>3. QED
    BY <1>1, <1>6, <2>2 DEF PlanTextureBarrier, OrderedTexture
<1>7. QED
  BY <1>4, <1>5, <1>6

LEMMA PlanTurnStep ==
  ASSUME DataInv,
         \/ PlanFirstBufferAccess \/ PlanBufferRead \/ PlanBufferBarrier
         \/ PlanFirstTextureAccess \/ PlanTextureRead \/ PlanTextureBarrier
  PROVE  DataInv'
<1>1. \E isTexture \in BOOLEAN :
        /\ Plan(isTexture)
        /\ \/ UnorderedAccess
           \/ ~isTexture /\ (ExtendedBuffer \/ OrderedBuffer)
           \/ isTexture /\ (ExtendedTexture \/ OrderedTexture)
  BY PlanBufferCases, PlanTextureCases
<1>2. PICK isTexture \in BOOLEAN :
        /\ Plan(isTexture)
        /\ \/ UnorderedAccess
           \/ ~isTexture /\ (ExtendedBuffer \/ OrderedBuffer)
           \/ isTexture /\ (ExtendedTexture \/ OrderedTexture)
  BY <1>1
<1>3. /\ Dep \in Dependency /\ Dep.resource \in 1..Len(resources) /\ Dep.task \in 1..Len(tasks)
      /\ states \in [1..Len(resources) -> State] /\ Prior \in State /\ pc = "planning"
      /\ (IsTexture(Dep.resource) <=> isTexture)
  BY <1>2, PlanFacts
<1>4. PoolTypes /\ Len(tasks) \in Nat /\ Len(barriers) \in Nat
  BY EntryTypes DEF DataInv
<1>5. Prior.prev \in 0..(IF isTexture THEN Len(barriers) ELSE Len(tasks))
  BY <1>3 DEF DataInv, IndexInv, Describing, Prior
<1>6. CASE UnorderedAccess
  <2>1. NewState(0).prev = 0
    BY <1>3, StateTypes
  <2>2. TasksKept /\ BarriersKept /\ StateBecomes(NewState(0))
    BY <1>4, <1>6, UnchangedKept DEF UnorderedAccess
  <2>3. NewState(0).prev \in 0..(IF isTexture THEN Len(barriers) ELSE Len(tasks))
    BY <1>4, <2>1
  <2>4. QED
    BY <1>2, <2>2, <2>3, DataInvKept
<1>7. CASE ~isTexture /\ ExtendedBuffer
  <2>1. TasksKept /\ BarriersKept /\ StateBecomes(ExtendedState)
    BY <1>4, <1>7 DEF ExtendedBuffer, BarriersKept, PoolTypes
  <2>2. ExtendedState.prev \in 0..(IF isTexture THEN Len(barriers) ELSE Len(tasks))
    BY <1>3, <1>5, StateTypes
  <2>3. QED
    BY <1>2, <2>1, <2>2, DataInvKept
<1>8. CASE ~isTexture /\ OrderedBuffer
  <2>1. TasksKept /\ BarriersKept /\ StateBecomes(NewState(Dep.task))
    BY <1>4, <1>8 DEF OrderedBuffer, BarriersKept, PoolTypes
  <2>2. NewState(Dep.task).prev \in 0..(IF isTexture THEN Len(barriers) ELSE Len(tasks))
    <3>1. Dep.task \in Nat /\ Dep.task \in 0..Len(tasks)
      BY <1>3, <1>4
    <3>2. NewState(Dep.task).prev = Dep.task
      BY <1>3, <3>1, StateTypes
    <3>3. QED
      BY <1>8, <3>1, <3>2
  <2>3. QED
    BY <1>2, <2>1, <2>2, DataInvKept
<1>9. CASE isTexture /\ ExtendedTexture
  <2>1. TasksKept /\ BarriersKept /\ StateBecomes(ExtendedState)
    BY <1>4, <1>9 DEF ExtendedTexture, TasksKept, PoolTypes
  <2>2. ExtendedState.prev \in 0..(IF isTexture THEN Len(barriers) ELSE Len(tasks))
    BY <1>3, <1>5, StateTypes
  <2>3. QED
    BY <1>2, <2>1, <2>2, DataInvKept
<1>10. CASE isTexture /\ OrderedTexture
  <2>1. Plan(TRUE) /\ \E layoutBefore : BarrierAdded(layoutBefore)
    BY <1>2, <1>10 DEF OrderedTexture
  <2>2. QED
    BY <2>1, DataInvAdded
<1>11. QED
  BY <1>2, <1>6, <1>7, <1>8, <1>9, <1>10

-----------------------------------------------------------------------------
(* The loop over the resources to hand back.                               *)
ReturnAdded(r) ==
  LET i == Len(barriers) + 1
  IN  /\ barriers' \in Seq(Barrier) /\ Len(barriers') = i
      /\ \A j \in 1..Len(barriers) : barriers'[j] = barriers[j]
      /\ barriers'[i].resource = r /\ barriers'[i].before = states[r].scope
      /\ barriers'[i].after = NoScope /\ barriers'[i].layoutBefore = states[r].layout
      /\ barriers'[i].layoutAfter = resources[r].post /\ barriers'[i].next = postHead
      /\ postHead' = i

LEMMA ReturnFacts ==
  ASSUME DataInv, PlanReturn, NEW r, r = cursor - Len(dependencies)
  PROVE  /\ pc = "planning" /\ r \in 1..Len(resources) /\ cursor = Len(dependencies) + r
         /\ cursor' = cursor + 1
         /\ UNCHANGED <<pc, resources, tasks, dependencies, states, chain, layoutOf, history>>
         /\ states \in [1..Len(resources) -> State]
         /\ IF NeedsReturn(r) THEN ReturnAdded(r) ELSE UNCHANGED <<barriers, postHead>>
<1> DEFINE b == [resource |-> r, before |-> states[r].scope, after |-> NoScope,
                 layoutBefore |-> states[r].layout, layoutAfter |-> resources[r].post,
                 next |-> postHead]
<1>1. /\ pc = "planning" /\ r \in 1..Len(resources) /\ cursor' = cursor + 1
      /\ UNCHANGED <<pc, resources, tasks, dependencies, states, chain, layoutOf, history>>
      /\ IF NeedsReturn(r) THEN barriers' = Append(barriers, b) /\ postHead' = Len(barriers) + 1
         ELSE UNCHANGED <<barriers, postHead>>
  BY DEF PlanReturn, gpu, NextBarrier
<1>2. PoolTypes /\ IndexInv /\ cursor \in Nat
  BY DEF DataInv, PhaseInv
<1>3. states \in [1..Len(resources) -> State]
  BY <1>1, <1>2 DEF IndexInv, Describing
<1>4. /\ Len(resources) \in Nat /\ Len(dependencies) \in Nat /\ Len(barriers) \in Nat
      /\ resources[r] \in Resource
  BY <1>1, <1>2, EntryTypes
<1>5. cursor = Len(dependencies) + r
  BY <1>1, <1>2, <1>4
<1>6. states[r] \in State /\ postHead \in Nat /\ r \in Nat
  BY <1>1, <1>2, <1>3, <1>4, SMTT(30) DEF IndexInv
<1>7. /\ b \in Barrier /\ b.resource = r /\ b.before = states[r].scope /\ b.after = NoScope
      /\ b.layoutBefore = states[r].layout /\ b.layoutAfter = resources[r].post /\ b.next = postHead
  BY <1>4, <1>6, Scopes DEF Barrier, State, Resource
<1> HIDE DEF b
<1>8. ASSUME NeedsReturn(r) PROVE ReturnAdded(r)
  <2>1. barriers' = Append(barriers, b) /\ postHead' = Len(barriers) + 1
    BY <1>1, <1>8
  <2>2. /\ barriers' \in Seq(Barrier) /\ Len(barriers') = Len(barriers) + 1
        /\ \A j \in 1..Len(barriers) : barriers'[j] = barriers[j]
        /\ barriers'[Len(barriers) + 1] = b
    BY <1>2, <1>7, <2>1, AppendProperties DEF PoolTypes
  <2>3. QED
    BY <1>7, <2>1, <2>2 DEF ReturnAdded
<1>9. QED
  BY <1>1, <1>3, <1>5, <1>8

LEMMA ReturnStep == DataInv /\ PlanReturn => DataInv'
<1> SUFFICES ASSUME DataInv, PlanReturn PROVE DataInv'
  OBVIOUS
<1> DEFINE r == cursor - Len(dependencies)
<1>1. /\ pc = "planning" /\ r \in 1..Len(resources) /\ cursor = Len(dependencies) + r
      /\ cursor' = cursor + 1
      /\ UNCHANGED <<pc, resources, tasks, dependencies, states, chain, layoutOf, history>>
      /\ IF NeedsReturn(r) THEN ReturnAdded(r) ELSE UNCHANGED <<barriers, postHead>>
  BY ReturnFacts
<1> HIDE DEF r
<1>2. PoolTypes /\ DependenciesInv /\ IndexInv /\ PhaseInv
  BY DEF DataInv
<1>3. /\ Len(resources) \in Nat /\ Len(dependencies) \in Nat /\ Len(barriers) \in Nat /\ Len(tasks) \in Nat
  BY <1>2, EntryTypes
<1>4. \A q : IsTexture(q)' = IsTexture(q)
  BY <1>1 DEF IsTexture
<1>5. DependenciesInv'
  BY <1>1, <1>2, <1>4 DEF DependenciesInv
<1>6. /\ cursor' \in 1..(Len(dependencies) + Len(resources) + 1) /\ Len(barriers) + 1 < cursor'
      /\ Len(barriers) + 1 <= Len(dependencies) + Len(resources)
  BY <1>1, <1>2, <1>3 DEF PhaseInv
<1>7. CASE NeedsReturn(r)
  <2>1. ReturnAdded(r)
    BY <1>1, <1>7
  <2>2. PoolTypes'
    BY <1>1, <1>2, <2>1 DEF PoolTypes, ReturnAdded
  <2>3. IndexInv'
    <3>1. ASSUME NEW i \in 1..Len(barriers')
          PROVE  /\ barriers'[i].resource \in 1..Len(resources') /\ IsTexture(barriers[i].resource)'
                 /\ barriers'[i].next \in 0..(i - 1)
      <4>1. CASE i \in 1..Len(barriers)
        BY <1>1, <1>2, <2>1, <4>1 DEF IndexInv, IsTexture, ReturnAdded
      <4>2. CASE i = Len(barriers) + 1
        <5>1. IsTexture(r) /\ postHead \in 0..Len(barriers)
          BY <1>2, <1>7 DEF IndexInv, NeedsReturn
        <5>2. barriers'[i].resource = r /\ barriers'[i].next = postHead
          BY <2>1, <4>2 DEF ReturnAdded
        <5>3. QED
          BY <1>1, <1>3, <4>2, <5>1, <5>2 DEF IsTexture
      <4>3. QED
        BY <1>3, <2>1, <4>1, <4>2 DEF ReturnAdded
    <3>2. Len(barriers') = Len(barriers) + 1 /\ postHead' = Len(barriers) + 1
      BY <2>1 DEF ReturnAdded
    <3>3. \A t \in 1..Len(tasks') : tasks'[t].chainHead \in 0..Len(barriers')
      BY <1>1, <1>2, <1>3, <3>2 DEF IndexInv
    <3>4. postHead' \in 0..Len(barriers') /\ chain' \in 0..Len(barriers')
      BY <1>1, <1>2, <1>3, <3>2 DEF IndexInv
    <3>5. ASSUME NEW q \in 1..Len(resources)
          PROVE  states'[q].prev \in 0..(IF IsTexture(q) THEN Len(barriers') ELSE Len(tasks))
      <4>1. states[q].prev \in 0..(IF IsTexture(q) THEN Len(barriers) ELSE Len(tasks))
        BY <1>1, <1>2 DEF IndexInv, Describing
      <4>2. QED
        BY <1>1, <1>3, <3>2, <4>1
    <3>6. states' \in [1..Len(resources) -> State]
      BY <1>1, <1>2 DEF IndexInv, Describing
    <3>7. QED
      BY <1>1, <1>4, <3>1, <3>3, <3>4, <3>5, <3>6 DEF IndexInv
  <2>4. PhaseInv'
    BY <1>1, <1>2, <1>3, <1>6, <2>1 DEF PhaseInv, Describing, Emitting, ReturnAdded
  <2>5. QED
    BY <1>5, <2>2, <2>3, <2>4 DEF DataInv
<1>8. CASE ~NeedsReturn(r)
  <2>1. UNCHANGED <<barriers, postHead>>
    BY <1>1, <1>8
  <2>2. PoolTypes'
    BY <1>1, <1>2, <2>1 DEF PoolTypes
  <2>3. IndexInv'
    BY <1>1, <1>2, <1>4, <2>1 DEF IndexInv, IsTexture
  <2>4. PhaseInv'
    BY <1>1, <1>2, <1>3, <1>6, <2>1 DEF PhaseInv, Describing, Emitting
  <2>5. QED
    BY <1>5, <2>2, <2>3, <2>4 DEF DataInv
<1>9. QED
  BY <1>7, <1>8

(* What a barrier leaves of the accesses so far.                           *)
LEMMA AfterBarrierIs ==
  ASSUME history \in SUBSET Access, NEW before, NEW after \in Scope, NEW affected,
         NEW h \in AfterBarrier(before, after, affected)
  PROVE  /\ h \in Access
         /\ \E a \in history : /\ h.resource = a.resource /\ h.token = a.token
                               /\ a.visible \subseteq h.visible
                               /\ a.resource \in affected /\ Covers(before, a) =>
                                    Tokens(after) \subseteq h.visible
<1>1. PICK a \in history : h = IF a.resource \in affected /\ Covers(before, a)
                               THEN [a EXCEPT !.visible = @ \cup Tokens(after)] ELSE a
  BY DEF AfterBarrier
<1>2. a \in Access /\ Tokens(after) \subseteq Token
  BY Scopes
<1>3. CASE a.resource \in affected /\ Covers(before, a)
  <2>1. h = [a EXCEPT !.visible = a.visible \cup Tokens(after)]
    BY <1>1, <1>3
  <2>2. /\ h.resource = a.resource /\ h.token = a.token
        /\ h.visible = a.visible \cup Tokens(after) /\ h \in Access
    BY <1>2, <2>1 DEF Access
  <2>3. QED
    BY <2>2
<1>4. CASE ~(a.resource \in affected /\ Covers(before, a))
  BY <1>1, <1>2, <1>4
<1>5. QED
  BY <1>3, <1>4

LEMMA EmitStep == DataInv /\ (StartTasks \/ Emit) => DataInv'
<1> SUFFICES ASSUME DataInv, StartTasks \/ Emit PROVE DataInv'
  OBVIOUS
<1>1. PoolTypes /\ DependenciesInv /\ IndexInv /\ PhaseInv
  BY DEF DataInv
<1>2. /\ Len(resources) \in Nat /\ Len(dependencies) \in Nat /\ Len(barriers) \in Nat /\ Len(tasks) \in Nat
      /\ \A i \in 1..Len(barriers) : barriers[i] \in Barrier
      /\ \A r \in 1..Len(resources) : resources[r] \in Resource
  BY <1>1, EntryTypes
<1>2a. Len(resources) \in Nat /\ Len(dependencies) \in Nat /\ Len(barriers) \in Nat /\ Len(tasks) \in Nat
  BY <1>2
<1>3. ASSUME UNCHANGED <<resources, tasks, dependencies, barriers>> PROVE DependenciesInv'
  <2>1. \A r : IsTexture(r)' = IsTexture(r)
    BY <1>3 DEF IsTexture
  <2>2. QED
    BY <1>1, <1>3, <2>1 DEF DependenciesInv
<1>4. ASSUME UNCHANGED <<resources, tasks, dependencies, barriers, postHead, states>>,
             pc \notin Describing, chain' \in 0..Len(barriers)
      PROVE  IndexInv'
  BY <1>1, <1>4 DEF IndexInv, IsTexture
<1>5. CASE StartTasks
  <2>1. /\ pc = "planning" /\ pc' = "task barriers" /\ cursor' = 1
        /\ layoutOf' = [r \in 1..Len(resources) |-> resources[r].pre]
        /\ UNCHANGED <<resources, tasks, dependencies, barriers, postHead, states, chain, history>>
    BY <1>5 DEF StartTasks, pools
  <2>2. PoolTypes'
    BY <1>1, <2>1 DEF PoolTypes
  <2>3. IndexInv'
    BY <1>1, <1>4, <2>1 DEF IndexInv, Describing
  <2>4. layoutOf' \in [1..Len(resources) -> Layout]
    BY <1>2, <2>1 DEF Resource
  <2>5. PhaseInv'
    <3>1. Len(tasks) > 0 /\ chain = 0 /\ Len(barriers) <= Len(dependencies) + Len(resources)
      BY <1>1, <2>1 DEF PhaseInv, Describing
    <3>2a. cursor' = 1
      BY <2>1
    <3>2. cursor' \in 1..Len(tasks) /\ cursor' \in Nat
      BY ONLY <1>2a, <3>1, <3>2a
    <3>3. QED
      BY <2>1, <2>4, <3>1, <3>2 DEF PhaseInv, Describing, Emitting
  <2>6. QED
    BY <1>3, <2>1, <2>2, <2>3, <2>5 DEF DataInv
<1>6. CASE EmitGlobalBarrier
  <2> DEFINE task == tasks[cursor]
  <2>1. /\ pc = "task barriers" /\ pc' = "local barriers" /\ chain' = task.chainHead
        /\ history' = IF task.before.sync = {} \/ task.after.sync = {} THEN history
                      ELSE AfterBarrier(task.before, task.after, 1..Len(resources))
        /\ UNCHANGED <<resources, tasks, dependencies, barriers, postHead, states, cursor, layoutOf>>
    BY <1>6 DEF EmitGlobalBarrier, pools, planning
  <2>2. cursor \in 1..Len(tasks)
    BY <1>1, <2>1 DEF PhaseInv
  <2>3. chain' \in 0..Len(barriers) /\ task.after \in Scope
    BY <1>1, <2>1, <2>2, EntryTypes DEF IndexInv, Task
  <2>4. history' \in SUBSET Access
    <3>1. history \in SUBSET Access
      BY <1>1 DEF PoolTypes
    <3>2. \A h \in AfterBarrier(task.before, task.after, 1..Len(resources)) : h \in Access
      BY <2>3, <3>1, AfterBarrierIs
    <3>3. QED
      BY <2>1, <3>1, <3>2
  <2>5. PoolTypes'
    BY <1>1, <2>1, <2>4 DEF PoolTypes
  <2>6. PhaseInv'
    BY <1>1, <2>1, <2>2 DEF PhaseInv, Describing, Emitting
  <2>7. IndexInv'
    BY <1>4, <2>1, <2>3 DEF Describing
  <2>8. QED
    BY <1>3, <2>1, <2>5, <2>6, <2>7 DEF DataInv
<1>7. CASE EmitLocalBarrier
  <2> DEFINE b == barriers[chain]
  <2>1. /\ pc \in {"local barriers", "post barriers"} /\ chain # 0
        /\ \/ /\ history' = AfterBarrier(b.before, b.after, {b.resource})
              /\ layoutOf' = [layoutOf EXCEPT ![b.resource] = b.layoutAfter]
              /\ chain' = b.next
              /\ UNCHANGED pc
           \/ pc' = "stopped" /\ UNCHANGED <<layoutOf, history, chain>>
        /\ UNCHANGED <<resources, tasks, dependencies, barriers, postHead, states, cursor>>
    BY <1>7 DEF EmitLocalBarrier, pools, planning, gpu
  <2>2. /\ chain \in 1..Len(barriers) /\ b \in Barrier /\ b.next \in 0..(chain - 1)
        /\ b.resource \in 1..Len(resources)
    <3>1. chain \in 0..Len(barriers)
      BY <1>1 DEF IndexInv
    <3>2a. chain # 0
      BY <2>1
    <3>2. chain \in 1..Len(barriers)
      BY ONLY <1>2a, <3>1, <3>2a
    <3>3. QED
      BY <1>1, <1>2, <3>2 DEF IndexInv
  <2>3. chain' \in 0..Len(barriers)
    <3> HIDE DEF b
    <3>1. CASE chain' = b.next
      BY <1>2, <2>2, <3>1
    <3>2. CASE chain' = chain
      BY <1>2, <2>2, <3>2
    <3>3. QED
      BY <2>1, <3>1, <3>2
  <2>4. history' \in SUBSET Access
    <3>1. history \in SUBSET Access
      BY <1>1 DEF PoolTypes
    <3>2. b.after \in Scope
      BY <2>2 DEF Barrier
    <3>3. \A h \in AfterBarrier(b.before, b.after, {b.resource}) : h \in Access
      BY <3>1, <3>2, AfterBarrierIs
    <3>4. QED
      BY <2>1, <3>1, <3>3
  <2>5. PoolTypes'
    BY <1>1, <2>1, <2>4 DEF PoolTypes
  <2>6. layoutOf' \in [1..Len(resources) -> Layout]
    <3>1. layoutOf \in [1..Len(resources) -> Layout]
      BY <1>1, <2>1 DEF PhaseInv, Emitting
    <3>2. b.layoutAfter \in Layout
      BY <2>2 DEF Barrier
    <3>3. QED
      BY <2>1, <2>2, <3>1, <3>2
  <2>7. PhaseInv'
    <3>1. /\ pc = "local barriers" => cursor \in 1..Len(tasks)
          /\ pc = "post barriers" => cursor = Len(tasks) + 1
      BY <1>1 DEF PhaseInv
    <3>2a. cursor \in 1..Len(tasks) \/ cursor = Len(tasks) + 1
      BY <2>1, <3>1
    <3>2. cursor \in 1..(Len(tasks) + 1) /\ cursor \in Nat
      BY ONLY <1>2a, <3>2a
    <3>3. Len(tasks) > 0 /\ Len(barriers) <= Len(dependencies) + Len(resources)
      BY <1>1, <2>1 DEF PhaseInv, Describing
    <3>4. pc' \in {"local barriers", "post barriers", "stopped"} /\ (pc' = "stopped" \/ pc' = pc)
      BY <2>1
    <3> HIDE DEF b
    <3>5. QED
      BY <2>1, <2>6, <3>1, <3>2, <3>3, <3>4 DEF PhaseInv, Describing, Emitting
  <2>8. IndexInv'
    BY <1>4, <2>1, <2>3 DEF Describing
  <2>9. QED
    BY <1>3, <2>1, <2>5, <2>7, <2>8 DEF DataInv
<1>8. CASE RunTask
  <2> DEFINE done == UNION {{[resource |-> d.resource, token |-> token, visible |-> {}] :
                              token \in Tokens(d.scope)} : d \in DependenciesOf(cursor)}
  <2>1. /\ pc = "local barriers" /\ chain = 0 /\ cursor' = cursor + 1
        /\ history' = history \cup done
        /\ cursor < Len(tasks) => pc' = "task barriers" /\ chain' = 0
        /\ ~(cursor < Len(tasks)) => pc' = "post barriers" /\ chain' = postHead
        /\ UNCHANGED <<resources, tasks, dependencies, barriers, postHead, states, layoutOf>>
    BY <1>8 DEF RunTask, pools
  <2>1a. cursor' = cursor + 1
    BY <2>1
  <2>2. cursor \in 1..Len(tasks) /\ chain' \in 0..Len(barriers)
    <3>1. cursor \in 1..Len(tasks) /\ postHead \in 0..Len(barriers)
      BY <1>1, <2>1 DEF PhaseInv, IndexInv
    <3>2. 0 \in 0..Len(barriers)
      BY <1>2
    <3>3. QED
      BY <2>1, <3>1, <3>2
  <2>3. done \in SUBSET Access
    <3>1. ASSUME NEW d \in DependenciesOf(cursor), NEW token \in Tokens(d.scope)
          PROVE  [resource |-> d.resource, token |-> token, visible |-> {}] \in Access
      <4>1. d \in Dependency
        BY <1>1, EntryTypes DEF DependenciesOf
      <4>2. token \in Token /\ d.resource \in Nat
        BY <4>1, Scopes DEF Dependency
      <4>3. QED
        BY <4>2 DEF Access
    <3>2. QED
      BY <3>1
  <2> HIDE DEF done
  <2>4. PoolTypes'
    BY <1>1, <2>1, <2>3 DEF PoolTypes
  <2>5. PhaseInv'
    <3>0. /\ Len(tasks) > 0 /\ Len(barriers) <= Len(dependencies) + Len(resources)
          /\ layoutOf \in [1..Len(resources) -> Layout]
      BY <1>1, <2>1 DEF PhaseInv, Describing, Emitting
    <3>1. CASE cursor < Len(tasks)
      <4>1. pc' = "task barriers" /\ chain' = 0
        BY <2>1, <3>1
      <4>2. cursor' \in 1..Len(tasks) /\ cursor' \in Nat
        BY ONLY <1>2a, <2>1a, <2>2, <3>1
      <4>3. QED
        BY <2>1, <3>0, <4>1, <4>2 DEF PhaseInv, Describing, Emitting
    <3>2. CASE ~(cursor < Len(tasks))
      <4>1. pc' = "post barriers"
        BY <2>1, <3>2
      <4>2. cursor' = Len(tasks) + 1 /\ cursor' \in Nat
        BY ONLY <1>2a, <2>1a, <2>2, <3>2
      <4>3. QED
        BY <2>1, <3>0, <4>1, <4>2 DEF PhaseInv, Describing, Emitting
    <3>3. QED
      BY <3>1, <3>2
  <2>6. IndexInv'
    BY <1>4, <2>1, <2>2 DEF Describing
  <2>7. QED
    BY <1>3, <2>1, <2>4, <2>5, <2>6 DEF DataInv
<1>9. CASE Submit
  <2>1. /\ pc' = "closed" /\ resources' = <<>> /\ tasks' = <<>> /\ dependencies' = <<>>
        /\ barriers' = <<>> /\ postHead' = 0 /\ states' = <<>> /\ cursor' = 0 /\ chain' = 0
        /\ history' = {}
    BY <1>9 DEF Submit
  <2>2. /\ resources' \in Seq(Resource) /\ tasks' \in Seq(Task) /\ dependencies' \in Seq(Dependency)
        /\ barriers' \in Seq(Barrier) /\ Len(resources') = 0 /\ Len(tasks') = 0
        /\ Len(dependencies') = 0 /\ Len(barriers') = 0
    BY <2>1, EmptySeq
  <2>3. PoolTypes'
    BY <2>1, <2>2, BoundsAssumption DEF PoolTypes, BoundsAssumption
  <2>4. DependenciesInv'
    BY <2>2 DEF DependenciesInv
  <2>5. IndexInv'
    BY <2>1, <2>2 DEF IndexInv, Describing
  <2>6. PhaseInv'
    BY <2>1, <2>2 DEF PhaseInv, Describing, Emitting
  <2>7. QED
    BY <2>3, <2>4, <2>5, <2>6 DEF DataInv
<1>10. QED
  BY <1>5, <1>6, <1>7, <1>8, <1>9 DEF Emit

LEMMA DataInvStep == DataInv /\ [Next]_vars => DataInv'
<1> SUFFICES ASSUME DataInv, [Next]_vars PROVE DataInv'
  OBVIOUS
<1>1. CASE UNCHANGED vars
  <2>1. UNCHANGED <<pc, resources, tasks, dependencies, barriers, postHead, states, cursor, chain,
                    layoutOf, history>>
    BY <1>1 DEF vars, pools, planning, gpu
  <2>2. PoolTypes'
    BY <2>1 DEF DataInv, PoolTypes
  <2>3. DependenciesInv'
    BY <2>1 DEF DataInv, DependenciesInv, IsTexture
  <2>4. IndexInv'
    BY <2>1 DEF DataInv, IndexInv, IsTexture
  <2>5. PhaseInv'
    BY <2>1 DEF DataInv, PhaseInv
  <2>6. QED
    BY <2>2, <2>3, <2>4, <2>5 DEF DataInv
<1>2. QED
  BY <1>1, DescribeStep, PlanTurnStep, ReturnStep, EmitStep DEF Next, PlanBarriers

LEMMA DataInvariant == Spec => []DataInv
BY DataInvInit, DataInvStep, PTL DEF Spec

(* Every index a graph stores, and every barrier it emits, names a live    *)
(* entry of its pool, whatever is declared and however barriers are merged *)
(* and chained.                                                            *)
THEOREM TypeCorrect == Spec => []TypeOK
<1>1. DataInv => TypeOK
  <2> SUFFICES ASSUME DataInv PROVE TypeOK
    OBVIOUS
  <2>1. PoolTypes /\ DependenciesInv /\ IndexInv /\ PhaseInv
    BY DEF DataInv
  <2>2. /\ Len(resources) \in Nat /\ Len(dependencies) \in Nat /\ Len(barriers) \in Nat /\ Len(tasks) \in Nat
        /\ \A i \in 1..Len(barriers) : barriers[i] \in Barrier
        /\ \A i \in 1..Len(dependencies) : dependencies[i] \in Dependency
        /\ \A i \in 1..Len(tasks) : tasks[i] \in Task
    BY <2>1, EntryTypes
  <2>3. \A i \in 1..Len(dependencies) : /\ dependencies[i].resource \in 1..Len(resources)
                                        /\ dependencies[i].task \in 1..Len(tasks)
                                        /\ dependencies[i].scope \in Scope
    BY <2>1, <2>2 DEF DependenciesInv, Dependency
  <2>4. \A i \in 1..Len(barriers) :
          /\ barriers[i].resource \in 1..Len(resources) /\ IsTexture(barriers[i].resource)
          /\ barriers[i].before \in Scope /\ barriers[i].after \in Scope
          /\ {barriers[i].layoutBefore, barriers[i].layoutAfter} \subseteq Layout
          /\ barriers[i].next \in 0..(i - 1)
    BY <2>1, <2>2 DEF IndexInv, Barrier
  <2>5. \A t \in 1..Len(tasks) : /\ tasks[t].before \in Scope /\ tasks[t].after \in Scope
                                 /\ tasks[t].chainHead \in 0..Len(barriers)
    BY <2>1, <2>2 DEF IndexInv, Task
  <2>6. \A r \in DOMAIN states : states[r].scope \in Scope /\ states[r].layout \in Layout
    <3>1. CASE pc \in Describing
      <4>1. states = <<>>
        BY <2>1, <3>1 DEF PhaseInv
      <4>2. DOMAIN states = {}
        BY <4>1
      <4>3. QED
        BY <4>2
    <3>2. CASE pc \notin Describing
      BY <2>1, <3>2 DEF IndexInv, State
    <3>3. QED
      BY <3>1, <3>2
  <2>7. cursor \in 0..(Len(dependencies) + Len(resources) + Len(tasks) + 1)
    <3>1. /\ pc \in Describing => cursor = 0
          /\ pc = "planning" => cursor \in 1..(Len(dependencies) + Len(resources) + 1)
          /\ pc \in {"task barriers", "local barriers"} => cursor \in 1..Len(tasks)
          /\ pc = "post barriers" => cursor = Len(tasks) + 1
          /\ pc = "stopped" => cursor \in 1..(Len(tasks) + 1)
          /\ pc \in Describing \cup {"planning", "stopped"} \cup Emitting
      BY <2>1 DEF PhaseInv
    <3>2. \/ cursor = 0 \/ cursor \in 1..(Len(dependencies) + Len(resources) + 1)
          \/ cursor \in 1..Len(tasks) \/ cursor = Len(tasks) + 1 \/ cursor \in 1..(Len(tasks) + 1)
      BY <3>1 DEF Describing, Emitting
    <3>3. QED
      BY ONLY <2>2, <3>2
  <2>8. {postHead, chain} \subseteq 0..Len(barriers)
    BY <2>1 DEF IndexInv
  <2>9. /\ pc \in {"closed", "building", "planning", "task barriers", "local barriers",
                   "post barriers", "stopped"}
        /\ Len(resources) <= MaxResources /\ Len(tasks) <= MaxTasks
        /\ Len(dependencies) <= MaxDependencies
    BY <2>1 DEF PoolTypes, PhaseInv, Describing, Emitting
  <2>10. QED
    BY <2>3, <2>4, <2>5, <2>6, <2>7, <2>8, <2>9 DEF TypeOK
<1>2. QED
  BY <1>1, DataInvariant, PTL

(* The barrier pool never overflows: a turn of either planning loop takes  *)
(* one barrier at most, and there are not more resources than the pool of  *)
(* dependencies has entries.                                               *)
THEOREM BarrierPoolAlwaysSuffices == Spec => []BarrierPoolSuffices
<1>1. DataInv => BarrierPoolSuffices
  <2> SUFFICES ASSUME DataInv PROVE BarrierPoolSuffices
    OBVIOUS
  <2>1. PoolTypes /\ PhaseInv
    BY DEF DataInv
  <2>2. /\ Len(resources) \in Nat /\ Len(dependencies) \in Nat /\ Len(barriers) \in Nat
    BY <2>1, EntryTypes
  <2>3. Len(barriers) <= Len(dependencies) + Len(resources)
    <3>1. CASE pc \in Describing
      <4>1. barriers = <<>>
        BY <2>1, <3>1 DEF PhaseInv
      <4>2. Len(barriers) = 0
        BY <4>1, EmptySeq
      <4>3. QED
        BY <2>2, <4>2
    <3>2. CASE pc \notin Describing
      BY <2>1, <3>2 DEF PhaseInv
    <3>3. QED
      BY <3>1, <3>2
  <2>4. QED
    BY <2>1, <2>2, <2>3, BoundsAssumption DEF PoolTypes, BoundsAssumption, BarrierPoolSuffices, BarrierPoolSize
<1>2. QED
  BY <1>1, DataInvariant, PTL

-----------------------------------------------------------------------------
(* A barrier fits: each side's accesses fit its layout and its stages, and *)
(* one side names an access, unless no task uses the texture.              *)
SideFits(scope, layout) ==
  /\ scope.access \subseteq TextureAccesses
  /\ SyncFitsAccess(scope.sync, scope.access) /\ AccessFitsLayout(scope.access, layout)

BarrierFits(b) ==
  /\ SideFits(b.before, b.layoutBefore) /\ SideFits(b.after, b.layoutAfter)
  /\ NamesAnAccess(b) \/ TasksOf(b.resource) = {}

FitInv ==
  /\ pc \notin Describing =>
       /\ \A i \in 1..Len(barriers) : BarrierFits(barriers[i])
       /\ \A r \in 1..Len(resources) : IsTexture(r) =>
            /\ SideFits(states[r].scope, states[r].layout)
            /\ states[r].prev # 0 => barriers[states[r].prev].layoutAfter = states[r].layout
  /\ pc = "planning" =>
       \A d \in 1..Len(dependencies) : d < cursor =>
         states[dependencies[d].resource].scope.access # {}
  /\ pc = "stopped" => chain # 0 /\ ~ValidBarrier(barriers[chain])

LEMMA SideFacts ==
  /\ \A layout : SideFits(NoScope, layout)
  /\ \A s, layout, other : SideFits(s, layout) /\ s.access = {} => SideFits(s, other)
  /\ \A s \in Scope, u \in Scope : \A layout :
       SideFits(s, layout) /\ SideFits(u, layout) => SideFits(Join(s, u), layout)
  /\ \A s, layout : /\ s.access # {} /\ layout \in Layout
                    /\ SyncFitsAccess(s.sync, s.access) /\ AccessFitsLayout(s.access, layout)
                    => SideFits(s, layout)
<1>1. \A layout : SideFits(NoScope, layout)
  BY DEF SideFits, NoScope, SyncFitsAccess, AccessFitsLayout
<1>2. \A s, layout, other : SideFits(s, layout) /\ s.access = {} => SideFits(s, other)
  BY DEF SideFits, AccessFitsLayout
<1>3. ASSUME NEW s \in Scope, NEW u \in Scope, NEW layout, SideFits(s, layout), SideFits(u, layout)
      PROVE  SideFits(Join(s, u), layout)
  <2>1. /\ Join(s, u).sync = s.sync \cup u.sync /\ Join(s, u).access = s.access \cup u.access
    BY Scopes
  <2>2. SyncFitsAccess(s.sync \cup u.sync, s.access \cup u.access)
    BY <1>3 DEF SideFits, SyncFitsAccess
  <2>3. AccessFitsLayout(s.access \cup u.access, layout)
    BY <1>3 DEF SideFits, AccessFitsLayout
  <2>4. QED
    BY <1>3, <2>1, <2>2, <2>3 DEF SideFits
<1>4. ASSUME NEW s, NEW layout \in Layout, s.access # {}, SyncFitsAccess(s.sync, s.access),
             AccessFitsLayout(s.access, layout)
      PROVE  SideFits(s, layout)
  <2>1. s.access \subseteq AccessesOfLayout(layout)
    BY <1>4 DEF AccessFitsLayout
  <2>2. layout # "Undefined"
    BY <1>4 DEF AccessFitsLayout
  <2>3. AccessesOfLayout(layout) \subseteq TextureAccesses
    BY <2>2 DEF AccessesOfLayout, Layout, TextureAccesses
  <2>4. QED
    BY <1>4, <2>1, <2>3 DEF SideFits
<1>5. QED
  BY <1>1, <1>2, <1>3, <1>4

(* What the turns have in common.                                          *)
LEMMA FitInvTurn ==
  ASSUME DataInv, FitInv, NEW isTexture \in BOOLEAN, Plan(isTexture),
         NEW s, StateBecomes(s), s.scope.access # {},
         isTexture => /\ SideFits(s.scope, s.layout)
                      /\ s.prev # 0 => barriers'[s.prev].layoutAfter = s.layout,
         \A i \in 1..Len(barriers) : barriers'[i].layoutAfter = barriers[i].layoutAfter,
         \A i \in 1..Len(barriers') : BarrierFits(barriers'[i])
  PROVE  FitInv'
<1>1. /\ pc = "planning" /\ cursor \in 1..Len(dependencies) /\ cursor' = cursor + 1
      /\ (IsTexture(Dep.resource) <=> isTexture)
      /\ UNCHANGED <<pc, resources, dependencies>> /\ Dep.resource \in 1..Len(resources)
  BY PlanFacts
<1>2. /\ \A r : IsTexture(r)' = IsTexture(r) /\ TasksOf(r)' = TasksOf(r)
      /\ Len(dependencies) \in Nat /\ Len(barriers) \in Nat
  BY <1>1, EntryTypes DEF DataInv, IsTexture, TasksOf
<1>3. \A i \in 1..Len(barriers') : BarrierFits(barriers[i])'
  BY <1>2 DEF BarrierFits
<1>4. ASSUME NEW r \in 1..Len(resources), IsTexture(r)
      PROVE  /\ SideFits(states'[r].scope, states'[r].layout)
             /\ states'[r].prev # 0 => barriers'[states'[r].prev].layoutAfter = states'[r].layout
  <2>1. CASE r = Dep.resource
    BY <1>1, <1>4, <2>1 DEF StateBecomes
  <2>2. CASE r # Dep.resource
    <3>1. states'[r] = states[r]
      BY <2>2 DEF StateBecomes
    <3>2. /\ SideFits(states[r].scope, states[r].layout)
          /\ states[r].prev # 0 => barriers[states[r].prev].layoutAfter = states[r].layout
          /\ states[r].prev \in 0..Len(barriers)
      BY <1>1, <1>4 DEF FitInv, DataInv, IndexInv, Describing
    <3>3. states[r].prev # 0 => states[r].prev \in 1..Len(barriers)
      BY <1>2, <3>2
    <3>4. QED
      BY <3>1, <3>2, <3>3
  <2>3. QED
    BY <2>1, <2>2
<1>5. ASSUME NEW d \in 1..Len(dependencies), d < cursor + 1
      PROVE  states'[dependencies[d].resource].scope.access # {}
  <2>1. CASE dependencies[d].resource = Dep.resource
    BY <2>1 DEF StateBecomes
  <2>2. CASE dependencies[d].resource # Dep.resource
    <3>1. d # cursor
      BY <2>2 DEF Dep
    <3>2. d < cursor
      <4>1. cursor \in Nat /\ d \in Nat
        BY <1>1, <1>2
      <4>2. QED
        BY ONLY <1>5, <3>1, <4>1
    <3>3. dependencies[d].resource \in 1..Len(resources)
      BY DEF DataInv, DependenciesInv
    <3>4. QED
      BY <1>1, <2>2, <3>2, <3>3 DEF FitInv, StateBecomes
  <2>3. QED
    BY <2>1, <2>2
<1>6. QED
  BY <1>1, <1>2, <1>3, <1>4, <1>5 DEF FitInv

LEMMA FitInvPlan ==
  ASSUME DataInv, FitInv,
         \/ PlanFirstBufferAccess \/ PlanBufferRead \/ PlanBufferBarrier
         \/ PlanFirstTextureAccess \/ PlanTextureRead \/ PlanTextureBarrier
  PROVE  FitInv'
<1>1. PICK isTexture \in BOOLEAN :
        /\ Plan(isTexture)
        /\ \/ UnorderedAccess
           \/ ~isTexture /\ (ExtendedBuffer \/ OrderedBuffer)
           \/ isTexture /\ (ExtendedTexture \/ OrderedTexture)
  BY PlanBufferCases, PlanTextureCases
<1>2. /\ pc = "planning" /\ cursor \in 1..Len(dependencies)
      /\ (IsTexture(Dep.resource) <=> isTexture)
      /\ Dep \in Dependency /\ Dep.resource \in 1..Len(resources) /\ Dep.task \in 1..Len(tasks)
      /\ Prior \in State /\ Prior = states[Dep.resource]
  BY <1>1, PlanFacts DEF Prior
<1>3. Dep.scope.access # {} /\ (isTexture => SideFits(Dep.scope, Dep.layout))
  <2>1. /\ Dep.scope.access # {} /\ Dep.layout \in Layout
        /\ isTexture => /\ SyncFitsAccess(Dep.scope.sync, Dep.scope.access)
                        /\ AccessFitsLayout(Dep.scope.access, Dep.layout)
    BY <1>2 DEF DataInv, DependenciesInv, Dep, Dependency
  <2>2. QED
    BY <2>1, SideFacts
<1>4. /\ Dep.scope \in Scope /\ Prior.scope \in Scope /\ Len(barriers) \in Nat
      /\ Dep.task \in Nat
  BY <1>2, EntryTypes DEF Dependency, State, DataInv
<1>5. Join(Prior.scope, Dep.scope).access # {}
  BY <1>3, <1>4, Scopes
<1>6. \A i \in 1..Len(barriers) : BarrierFits(barriers[i])
  BY <1>2 DEF FitInv, Describing
<1>7. isTexture => /\ SideFits(Prior.scope, Prior.layout)
                   /\ Prior.prev # 0 => barriers[Prior.prev].layoutAfter = Prior.layout
  BY <1>2 DEF FitInv, Describing
<1>8. CASE UnorderedAccess
  <2>1. barriers' = barriers /\ StateBecomes(NewState(0))
    BY <1>8 DEF UnorderedAccess
  <2>2. /\ NewState(0).scope = Dep.scope /\ NewState(0).layout = Dep.layout /\ NewState(0).prev = 0
    BY <1>2, StateTypes
  <2>3. QED
    BY <1>1, <1>3, <1>6, <2>1, <2>2, FitInvTurn
<1>9. CASE ~isTexture /\ ExtendedBuffer
  <2>1. barriers' = barriers /\ StateBecomes(ExtendedState)
    BY <1>9 DEF ExtendedBuffer
  <2>2. ExtendedState.scope = Join(Prior.scope, Dep.scope)
    BY <1>2, StateTypes
  <2>3. QED
    BY <1>1, <1>5, <1>6, <1>9, <2>1, <2>2, FitInvTurn
<1>10. CASE ~isTexture /\ OrderedBuffer
  <2>1. barriers' = barriers /\ StateBecomes(NewState(Dep.task))
    BY <1>10 DEF OrderedBuffer
  <2>2. NewState(Dep.task).scope = Dep.scope
    BY <1>2, <1>4, StateTypes
  <2>3. QED
    BY <1>1, <1>3, <1>6, <1>10, <2>1, <2>2, FitInvTurn
<1>11. CASE isTexture /\ ExtendedTexture
  <2>1. /\ StateBecomes(ExtendedState) /\ BarriersKept /\ Prior.layout = Dep.layout
        /\ \A i \in 1..Len(barriers) :
             barriers'[i].after = IF i = Prior.prev THEN Join(barriers[i].after, Dep.scope)
                                  ELSE barriers[i].after
    BY <1>11 DEF ExtendedTexture, ContinuesReads
  <2>2. /\ ExtendedState.scope = Join(Prior.scope, Dep.scope)
        /\ ExtendedState.layout = Prior.layout /\ ExtendedState.prev = Prior.prev
    BY <1>2, StateTypes
  <2>3. SideFits(ExtendedState.scope, ExtendedState.layout)
    BY <1>3, <1>4, <1>7, <1>11, <2>1, <2>2, SideFacts
  <2>4. Len(barriers') = Len(barriers)
        /\ \A i \in 1..Len(barriers) : barriers'[i].layoutAfter = barriers[i].layoutAfter
    BY <2>1 DEF BarriersKept
  <2>5. ExtendedState.prev # 0 => barriers'[ExtendedState.prev].layoutAfter = ExtendedState.layout
    <3>1. Prior.prev \in 0..Len(barriers)
      BY <1>2, <1>11 DEF DataInv, IndexInv, Describing
    <3>2. Prior.prev # 0 => Prior.prev \in 1..Len(barriers)
      BY <1>4, <3>1
    <3>3. QED
      BY <1>7, <1>11, <2>2, <2>4, <3>2
  <2>6. ASSUME NEW i \in 1..Len(barriers') PROVE BarrierFits(barriers'[i])
    <3>1. i \in 1..Len(barriers) /\ BarrierFits(barriers[i])
      BY <1>6, <2>4
    <3>2. /\ barriers'[i].before = barriers[i].before /\ barriers'[i].resource = barriers[i].resource
          /\ barriers'[i].layoutBefore = barriers[i].layoutBefore
          /\ barriers'[i].layoutAfter = barriers[i].layoutAfter
          /\ barriers'[i].after = IF i = Prior.prev THEN Join(barriers[i].after, Dep.scope)
                                  ELSE barriers[i].after
      BY <2>1, <3>1 DEF BarriersKept
    <3>3. CASE i = Prior.prev
      <4>1. barriers[i].layoutAfter = Dep.layout /\ barriers[i].after \in Scope
        <5>1. i # 0
          BY <1>4, <3>1
        <5>2. barriers[i].after \in Scope
          BY <3>1, EntryTypes DEF DataInv, Barrier
        <5>3. QED
          BY <1>7, <1>11, <2>1, <3>3, <5>1, <5>2
      <4>2. Join(barriers[i].after, Dep.scope).access # {}
        BY <1>3, <1>4, <4>1, Scopes
      <4>3. SideFits(Join(barriers[i].after, Dep.scope), Dep.layout)
        BY <1>3, <1>4, <1>11, <3>1, <4>1, SideFacts DEF BarrierFits
      <4>4. QED
        BY <3>1, <3>2, <3>3, <4>1, <4>2, <4>3 DEF BarrierFits, NamesAnAccess
    <3>4. CASE i # Prior.prev
      BY <3>1, <3>2, <3>4 DEF BarrierFits, NamesAnAccess
    <3>5. QED
      BY <3>3, <3>4
  <2>7. QED
    BY <1>1, <1>5, <2>1, <2>2, <2>3, <2>4, <2>5, <2>6, FitInvTurn
<1>12. CASE isTexture /\ OrderedTexture
  <2>1. PICK layoutBefore : /\ BarrierAdded(layoutBefore)
                            /\ IsFirstAccess \/ layoutBefore = Prior.layout
    BY <1>12 DEF OrderedTexture
  <2>2. PICK i : i = Len(barriers) + 1
    OBVIOUS
  <2>3. /\ Len(barriers') = i /\ \A j \in 1..Len(barriers) : barriers'[j] = barriers[j]
        /\ barriers'[i].resource = Dep.resource /\ barriers'[i].before = Prior.scope
        /\ barriers'[i].after = Dep.scope /\ barriers'[i].layoutBefore = layoutBefore
        /\ barriers'[i].layoutAfter = Dep.layout
        /\ StateBecomes(NewState(i))
    BY <2>1, <2>2 DEF BarrierAdded
  <2>4. i \in Nat
    BY <1>4, <2>2
  <2>5. NewState(i).scope = Dep.scope /\ NewState(i).layout = Dep.layout /\ NewState(i).prev = i
    BY <1>2, <2>4, StateTypes
  <2>6. SideFits(Prior.scope, layoutBefore)
    BY <1>7, <1>12, <2>1, SideFacts DEF IsFirstAccess
  <2>7. BarrierFits(barriers'[i])
    BY <1>3, <1>12, <2>3, <2>6 DEF BarrierFits, NamesAnAccess
  <2>8. \A j \in 1..Len(barriers') : j \in 1..Len(barriers) \/ j = i
    BY <1>4, <2>2, <2>3
  <2>9. \A j \in 1..Len(barriers') : BarrierFits(barriers'[j])
    BY <1>6, <2>3, <2>7, <2>8
  <2>10. QED
    BY <1>1, <1>3, <1>12, <2>3, <2>5, <2>9, FitInvTurn
<1>13. QED
  BY <1>1, <1>8, <1>9, <1>10, <1>11, <1>12

LEMMA FitInvReturn ==
  ASSUME DataInv, FitInv, PlanReturn
  PROVE  FitInv'
<1>1. PICK r : r = cursor - Len(dependencies)
  OBVIOUS
<1>2. /\ pc = "planning" /\ r \in 1..Len(resources) /\ cursor = Len(dependencies) + r
      /\ cursor' = cursor + 1
      /\ UNCHANGED <<pc, resources, dependencies, states>>
      /\ IF NeedsReturn(r) THEN ReturnAdded(r) ELSE UNCHANGED <<barriers, postHead>>
  BY <1>1, ReturnFacts
<1>3. /\ \A q : IsTexture(q)' = IsTexture(q) /\ TasksOf(q)' = TasksOf(q)
      /\ Len(dependencies) \in Nat /\ Len(barriers) \in Nat /\ Len(resources) \in Nat
  BY <1>2, EntryTypes DEF DataInv, IsTexture, TasksOf
<1>4. /\ \A i \in 1..Len(barriers) : BarrierFits(barriers[i])
      /\ \A q \in 1..Len(resources) : IsTexture(q) =>
           /\ SideFits(states[q].scope, states[q].layout)
           /\ states[q].prev # 0 => barriers[states[q].prev].layoutAfter = states[q].layout
           /\ states[q].prev \in 0..Len(barriers)
      /\ \A d \in 1..Len(dependencies) : d < cursor =>
           states[dependencies[d].resource].scope.access # {}
  BY <1>2 DEF FitInv, DataInv, IndexInv, Describing
<1>5. \A d \in 1..Len(dependencies) : d < cursor
  BY <1>2, <1>3
<1>6. /\ \A i \in 1..Len(barriers') : BarrierFits(barriers'[i])
      /\ \A j \in 1..Len(barriers) : barriers'[j] = barriers[j]
  <2>1. CASE ~NeedsReturn(r)
    BY <1>2, <1>4, <2>1
  <2>2. CASE NeedsReturn(r)
    <3>1. PICK i : i = Len(barriers) + 1
      OBVIOUS
    <3>2. /\ Len(barriers') = i /\ \A j \in 1..Len(barriers) : barriers'[j] = barriers[j]
          /\ barriers'[i].resource = r /\ barriers'[i].before = states[r].scope
          /\ barriers'[i].after = NoScope /\ barriers'[i].layoutBefore = states[r].layout
      BY <1>2, <2>2, <3>1 DEF ReturnAdded
    <3>3. SideFits(states[r].scope, states[r].layout)
      BY <1>2, <1>4, <2>2 DEF NeedsReturn
    <3>4. states[r].scope.access # {} \/ TasksOf(r) = {}
      BY <1>4, <1>5 DEF TasksOf
    <3>5. BarrierFits(barriers'[i])
      BY <3>2, <3>3, <3>4, SideFacts DEF BarrierFits, NamesAnAccess
    <3>6. \A j \in 1..Len(barriers') : j \in 1..Len(barriers) \/ j = i
      BY <1>3, <3>1, <3>2
    <3>7. QED
      BY <1>4, <3>2, <3>5, <3>6
  <2>3. QED
    BY <2>1, <2>2
<1>7. ASSUME NEW q \in 1..Len(resources), IsTexture(q)
      PROVE  /\ SideFits(states[q].scope, states[q].layout)
             /\ states[q].prev # 0 => barriers'[states[q].prev].layoutAfter = states[q].layout
  <2>1. states[q].prev # 0 => states[q].prev \in 1..Len(barriers)
    BY <1>3, <1>4, <1>7
  <2>2. QED
    BY <1>4, <1>6, <1>7, <2>1
<1>8. \A i \in 1..Len(barriers') : BarrierFits(barriers[i])'
  BY <1>3, <1>6 DEF BarrierFits
<1>9. QED
  BY <1>2, <1>3, <1>4, <1>5, <1>7, <1>8 DEF FitInv

LEMMA FitInvStep == DataInv /\ DataInv' /\ FitInv /\ [Next]_vars => FitInv'
<1> SUFFICES ASSUME DataInv, DataInv', FitInv, [Next]_vars PROVE FitInv'
  OBVIOUS
<1>1. ASSUME pc' \in Describing PROVE FitInv'
  BY <1>1 DEF FitInv, Describing
<1>2. ASSUME UNCHANGED <<resources, dependencies, barriers, states>>, pc \notin Describing,
             pc' = "planning" => pc = "planning" /\ cursor' = cursor,
             pc' = "stopped" => chain' # 0 /\ ~ValidBarrier(barriers[chain'])
      PROVE  FitInv'
  <2>1. \A r : IsTexture(r)' = IsTexture(r) /\ TasksOf(r)' = TasksOf(r)
    BY <1>2 DEF IsTexture, TasksOf
  <2>2. \A i \in 1..Len(barriers) : BarrierFits(barriers[i])'
    BY <1>2, <2>1 DEF FitInv, BarrierFits
  <2>3. pc' = "stopped" => chain' # 0 /\ ~ValidBarrier(barriers[chain])'
    BY <1>2
  <2>4. QED
    BY <1>2, <2>1, <2>2, <2>3 DEF FitInv
<1>3. CASE UNCHANGED vars
  <2>1. UNCHANGED <<pc, resources, dependencies, barriers, states, cursor, chain>>
    BY <1>3 DEF vars, pools, planning
  <2>2. QED
    BY <1>1, <1>2, <2>1 DEF FitInv
<1>4. CASE Describe /\ ~Execute
  <2>1. pc' \in Describing
    BY <1>4 DEF Describe, Open, CreateTransientBuffer, CreateTransientTexture, ImportExternalBuffer,
       ImportExternalTexture, AddResource, AddTask, AddTaskDependency, Describing
  <2>2. QED
    BY <1>1, <2>1
<1>5. CASE Execute
  <2>1. /\ pc = "building" /\ pc' = "planning" /\ cursor' = 1
        /\ states' = [r \in 1..Len(resources) |-> [scope |-> NoScope, layout |-> "Undefined", prev |-> 0]]
        /\ UNCHANGED <<resources, dependencies, barriers>>
    BY <1>5 DEF Execute, pools
  <2>2. Len(barriers') = 0
    BY <2>1, EmptySeq DEF DataInv, PhaseInv, Describing
  <2>3. \A r \in 1..Len(resources) : /\ SideFits(states'[r].scope, states'[r].layout)
                                     /\ states'[r].prev = 0
    BY <2>1, SideFacts
  <2>4. \A d \in 1..Len(dependencies) : ~(d < 1)
    OBVIOUS
  <2>5. QED
    BY <2>1, <2>2, <2>3, <2>4 DEF FitInv
<1>6. CASE StartTasks
  BY <1>2, <1>6 DEF StartTasks, pools, Describing
<1>7. CASE PlanBarriers /\ ~StartTasks
  BY <1>7, FitInvPlan, FitInvReturn DEF PlanBarriers
<1>8. CASE EmitGlobalBarrier \/ RunTask
  BY <1>2, <1>8 DEF EmitGlobalBarrier, RunTask, pools, planning, Describing
<1>9. CASE EmitLocalBarrier
  <2>1. /\ pc \in {"local barriers", "post barriers"} /\ chain # 0
        /\ \/ pc' = pc
           \/ pc' = "stopped" /\ chain' = chain /\ ~ValidBarrier(barriers[chain])
        /\ UNCHANGED <<resources, dependencies, barriers, states, cursor>>
    BY <1>9 DEF EmitLocalBarrier, pools, planning, gpu
  <2>2. QED
    BY <1>2, <2>1 DEF Describing
<1>10. CASE Submit
  BY <1>1, <1>10 DEF Submit, Describing
<1>11. QED
  BY <1>3, <1>4, <1>5, <1>6, <1>7, <1>8, <1>9, <1>10 DEF Next, Emit

(* The program stops at a barrier only if a texture was imported that no   *)
(* task uses: in every other frame the HAL's assertions about barriers     *)
(* hold of all of them.                                                    *)
THEOREM UsedFramesAlwaysEmit == Spec => []UsedFramesEmit
<1>1. Init => FitInv
  BY DEF Init, FitInv, Describing
<1>2. DataInv /\ FitInv => UsedFramesEmit
  <2> SUFFICES ASSUME DataInv, FitInv, pc = "stopped"
               PROVE  /\ barriers[chain].resource \in 1..Len(resources)
                      /\ TasksOf(barriers[chain].resource) = {}
    BY DEF UsedFramesEmit
  <2>1. chain # 0 /\ ~ValidBarrier(barriers[chain]) /\ chain \in 0..Len(barriers)
    BY DEF FitInv, DataInv, IndexInv
  <2>2. Len(barriers) \in Nat
    BY EntryTypes DEF DataInv
  <2>3. chain \in 1..Len(barriers)
    BY ONLY <2>1, <2>2
  <2>4. BarrierFits(barriers[chain]) /\ barriers[chain].resource \in 1..Len(resources)
    BY <2>3 DEF FitInv, Describing, DataInv, IndexInv
  <2>5. ~NamesAnAccess(barriers[chain])
    BY <2>1, <2>4 DEF BarrierFits, SideFits, ValidBarrier
  <2>6. QED
    BY <2>4, <2>5 DEF BarrierFits
<1>3. DataInv /\ FitInv /\ DataInv' /\ [Next]_vars => FitInv'
  BY FitInvStep
<1>4. QED
  BY <1>1, <1>2, <1>3, DataInvariant, PTL DEF Spec

-----------------------------------------------------------------------------
(***************************************************************************)
(* The order of accesses: what the barriers of a graph are for.            *)
(*                                                                         *)
(* The planning loops take one turn for each dependency and then one for   *)
(* each resource.  Which turns start a barrier is a fact about the         *)
(* dependencies alone (Starts); it cuts the accesses of a resource into    *)
(* groups that need no order among themselves.  The invariant says that    *)
(* the pools hold a barrier for each such turn, that its first scope       *)
(* includes the group before it and its second the group it starts, and,   *)
(* once commands are emitted, that what ran so far is visible to the group *)
(* of the last emitted barrier.                                            *)
(***************************************************************************)
Turns == 1..(Len(dependencies) + Len(resources))
ResourceAt(m) == IF m <= Len(dependencies) THEN dependencies[m].resource ELSE m - Len(dependencies)
TaskAt(m) == IF m <= Len(dependencies) THEN dependencies[m].task ELSE Len(tasks) + 1
LayoutAt(m) == IF m <= Len(dependencies) THEN dependencies[m].layout
               ELSE resources[m - Len(dependencies)].post

(* The dependencies on r, and the last of them before a turn.              *)
Uses(r) == {d \in 1..Len(dependencies) : dependencies[d].resource = r}
Unused(r, m) == \A e \in Uses(r) : ~(e < m)
LastUse(r, e, m) == e \in Uses(r) /\ e < m /\ \A f \in Uses(r) : f < m => f <= e

ReadOnly(d) == IsReadOnly(dependencies[d].scope.access)
Continues(e, d) ==
  /\ ReadOnly(e) /\ ReadOnly(d)
  /\ IsTexture(dependencies[d].resource) => dependencies[e].layout = dependencies[d].layout

(* The turns that start a barrier.                                         *)
Starts(m) ==
  LET r == ResourceAt(m)
  IN  \/ /\ m <= Len(dependencies) /\ Unused(r, m) /\ IsTexture(r)
         /\ ~(resources[r].isImported /\ resources[r].pre = dependencies[m].layout)
      \/ /\ m <= Len(dependencies)
         /\ \E e \in Uses(r) : LastUse(r, e, m) /\ ~Continues(e, m)
      \/ /\ m > Len(dependencies) /\ IsTexture(r) /\ resources[r].isImported
         /\ \A e \in Uses(r) : LastUse(r, e, m) => dependencies[e].layout # resources[r].post

(* No turn of r after a, up to b, starts a barrier.                        *)
NoStart(r, a, b) == \A k \in Turns : ResourceAt(k) = r /\ a < k /\ k <= b => ~Starts(k)

Horizon == IF pc = "planning" THEN cursor ELSE Len(dependencies) + Len(resources) + 1
Within(s, u) == s.sync \subseteq u.sync /\ s.access \subseteq u.access

-----------------------------------------------------------------------------
(* `lead` gives the turn that planned each barrier of the pool.            *)
OrderInv(lead) ==
  /\ Len(lead) = Len(barriers)
  /\ \A i \in 1..Len(barriers) : /\ lead[i] \in Turns /\ lead[i] < Horizon
                                 /\ IsTexture(ResourceAt(lead[i])) /\ Starts(lead[i])
  /\ \A i, j \in 1..Len(barriers) : i < j => lead[i] < lead[j]
  /\ \A m \in Turns : m < Horizon /\ Starts(m) /\ IsTexture(ResourceAt(m)) =>
       \E i \in 1..Len(barriers) : lead[i] = m

(* h is the last of the first n barriers that task t emits.                *)
HeadIs(lead, t, h, n) ==
  /\ h \in 0..n
  /\ h # 0 => TaskAt(lead[h]) = t
  /\ \A i \in 1..n : h < i => TaskAt(lead[i]) # t

(* The head of the chain that task t emits, or the end of the frame.       *)
ChainOf(t) == IF t <= Len(tasks) THEN tasks[t].chainHead ELSE postHead

ChainInv(lead) ==
  /\ \A i \in 1..Len(barriers) : HeadIs(lead, TaskAt(lead[i]), barriers[i].next, i - 1)
  /\ \A t \in 1..(Len(tasks) + 1) : HeadIs(lead, t, ChainOf(t), Len(barriers))

BarrierInv(lead) ==
  \A i \in 1..Len(barriers) :
    LET m == lead[i]
        r == ResourceAt(m)
    IN  /\ barriers[i].resource = r /\ barriers[i].layoutAfter = LayoutAt(m)
        /\ \A e \in Uses(r) : LastUse(r, e, m) => barriers[i].layoutBefore = dependencies[e].layout
        /\ Unused(r, m) =>
             IF m <= Len(dependencies) THEN barriers[i].layoutBefore = resources[r].pre
             ELSE barriers[i].before = NoScope /\ barriers[i].after = NoScope

ScopeAt(m) == IF m <= Len(dependencies) THEN dependencies[m].scope ELSE NoScope

(* The access of turn d is in the first, or the second, scope of the       *)
(* barrier of turn m.                                                      *)
InBefore(lead, d, m) ==
  IF IsTexture(ResourceAt(m))
  THEN \A i \in 1..Len(barriers) : lead[i] = m => Within(ScopeAt(d), barriers[i].before)
  ELSE Within(ScopeAt(d), tasks[TaskAt(m)].before)
InAfter(lead, d, m) ==
  IF IsTexture(ResourceAt(m))
  THEN \A i \in 1..Len(barriers) : lead[i] = m => Within(ScopeAt(d), barriers[i].after)
  ELSE Within(ScopeAt(d), tasks[TaskAt(m)].after)

AfterInv(lead) ==
  \A m \in Turns : m < Horizon /\ Starts(m) =>
    \A d \in Uses(ResourceAt(m)) : m <= d /\ d < Horizon /\ NoStart(ResourceAt(m), m, d) =>
      InAfter(lead, d, m)

BeforeInv(lead) ==
  \A m \in Turns : m < Horizon /\ Starts(m) =>
    \A d \in Uses(ResourceAt(m)) : d < m /\ NoStart(ResourceAt(m), d, m - 1) =>
      InBefore(lead, d, m)

(* The accesses of a group are in one layout, and need no order.           *)
GroupInv ==
  /\ \A r \in 1..Len(resources) : IsTexture(r) =>
       \A d \in Uses(r) : d < Horizon =>
         /\ NoStart(r, 0, d) => dependencies[d].layout = resources[r].pre
         /\ \A m \in Uses(r) : m <= d /\ NoStart(r, m, d) =>
              dependencies[d].layout = dependencies[m].layout
  /\ \A r \in 1..Len(resources) : \A d, e \in Uses(r) :
       e < d /\ d < Horizon /\ NoStart(r, e, d) => ReadOnly(e) /\ ReadOnly(d)

(* resourceStates: the group the planning loop is in, for every resource.  *)
StateInv(lead) ==
  \A r \in 1..Len(resources) :
    /\ Unused(r, cursor) => states[r].scope = NoScope /\ states[r].layout = "Undefined"
    /\ \A e \in Uses(r) : LastUse(r, e, cursor) =>
         /\ states[r].scope.access # {}
         /\ IsReadOnly(states[r].scope.access) <=> ReadOnly(e)
         /\ IsTexture(r) => states[r].layout = dependencies[e].layout
    /\ \A d \in Uses(r) : d < cursor /\ NoStart(r, d, cursor - 1) =>
         Within(ScopeAt(d), states[r].scope)
    /\ \A m \in Uses(r) : m < cursor /\ Starts(m) /\ NoStart(r, m, cursor - 1) =>
         /\ states[r].prev # 0
         /\ IF IsTexture(r) THEN lead[states[r].prev] = m ELSE states[r].prev = TaskAt(m)

PlanInv(lead) ==
  /\ OrderInv(lead) /\ ChainInv(lead) /\ BarrierInv(lead)
  /\ AfterInv(lead) /\ BeforeInv(lead) /\ GroupInv
  /\ pc = "planning" => StateInv(lead)

-----------------------------------------------------------------------------
(* The barrier of turn m has been emitted.                                 *)
Emitted(lead, m) ==
  \/ TaskAt(m) < cursor
  \/ /\ TaskAt(m) = cursor /\ pc # "task barriers"
     /\ IsTexture(ResourceAt(m)) =>
          \A i \in 1..Len(barriers) : lead[i] = m => chain < i

(* An access so far is visible to the group of every barrier after it.     *)
HistoryInv(lead) ==
  \A h \in history :
    \E d \in Uses(h.resource) :
      /\ dependencies[d].task < cursor
      /\ h.token \in Tokens(ScopeAt(d))
      /\ \A m \in Turns :
           /\ ResourceAt(m) = h.resource /\ d < m /\ Starts(m) /\ Emitted(lead, m)
           => \A e \in Uses(h.resource) : m <= e /\ NoStart(h.resource, m, e) =>
                Tokens(ScopeAt(e)) \subseteq h.visible

(* A texture is in the layout its last emitted barrier took it to.         *)
LayoutInv(lead) ==
  \A r \in 1..Len(resources) : IsTexture(r) =>
    /\ (\A m \in Turns : ResourceAt(m) = r /\ Starts(m) => ~Emitted(lead, m)) =>
         layoutOf[r] = resources[r].pre
    /\ \A m \in Turns :
         /\ ResourceAt(m) = r /\ Starts(m) /\ Emitted(lead, m)
         /\ \A k \in Turns : ResourceAt(k) = r /\ Starts(k) /\ m < k => ~Emitted(lead, k)
         => layoutOf[r] = LayoutAt(m)

EmitInv(lead) ==
  /\ chain # 0 => TaskAt(lead[chain]) = cursor
  /\ HistoryInv(lead) /\ LayoutInv(lead)

ImportInv ==
  \A r \in 1..Len(resources) :
    resources[r].isImported /\ IsTexture(r) => resources[r].post # "Undefined"

GraphInv ==
  /\ ImportInv
  /\ pc \in Emitting \cup {"planning"} =>
       \E lead \in Seq(Nat) : PlanInv(lead) /\ (pc \in Emitting => EmitInv(lead))

-----------------------------------------------------------------------------
LEMMA TurnTypes ==
  ASSUME DataInv
  PROVE  /\ Len(resources) \in Nat /\ Len(tasks) \in Nat /\ Len(dependencies) \in Nat
         /\ Len(barriers) \in Nat /\ Turns \subseteq Nat
         /\ \A m \in Turns : /\ ResourceAt(m) \in 1..Len(resources)
                             /\ TaskAt(m) \in 1..(Len(tasks) + 1)
                             /\ m <= Len(dependencies) => /\ m \in Uses(ResourceAt(m))
                                                          /\ TaskAt(m) \in 1..Len(tasks)
                             /\ m > Len(dependencies) => TaskAt(m) = Len(tasks) + 1
         /\ \A r : \A d \in Uses(r) :
              /\ d \in Turns /\ d \in 1..Len(dependencies) /\ ResourceAt(d) = r
              /\ TaskAt(d) = dependencies[d].task /\ LayoutAt(d) = dependencies[d].layout
              /\ dependencies[d] \in Dependency /\ r \in 1..Len(resources)
<1>1. PoolTypes /\ DependenciesInv
  BY DEF DataInv
<1>2. /\ Len(resources) \in Nat /\ Len(tasks) \in Nat /\ Len(dependencies) \in Nat
      /\ Len(barriers) \in Nat /\ Turns \subseteq Nat
      /\ \A i \in 1..Len(dependencies) : dependencies[i] \in Dependency
  BY <1>1, EntryTypes DEF Turns
<1>3. \A d \in 1..Len(dependencies) : /\ dependencies[d].resource \in 1..Len(resources)
                                      /\ dependencies[d].task \in 1..Len(tasks)
  BY <1>1 DEF DependenciesInv
<1>4. ASSUME NEW m \in Turns
      PROVE  /\ ResourceAt(m) \in 1..Len(resources)
             /\ TaskAt(m) \in 1..(Len(tasks) + 1)
             /\ m <= Len(dependencies) => /\ m \in Uses(ResourceAt(m))
                                          /\ TaskAt(m) \in 1..Len(tasks)
             /\ m > Len(dependencies) => TaskAt(m) = Len(tasks) + 1
  BY <1>2, <1>3 DEF Turns, ResourceAt, TaskAt, Uses
<1>5. ASSUME NEW r, NEW d \in Uses(r)
      PROVE  /\ d \in Turns /\ d \in 1..Len(dependencies) /\ ResourceAt(d) = r
             /\ TaskAt(d) = dependencies[d].task /\ LayoutAt(d) = dependencies[d].layout
             /\ dependencies[d] \in Dependency /\ r \in 1..Len(resources)
  BY <1>2, <1>3 DEF Turns, ResourceAt, TaskAt, LayoutAt, Uses
<1>6. QED
  BY <1>2, <1>4, <1>5

(* A resource is used by later tasks at later turns.                       *)
LEMMA TurnOrder ==
  ASSUME DataInv, NEW r, NEW d \in Uses(r), NEW m \in Turns, ResourceAt(m) = r
  PROVE  /\ d < m <=> TaskAt(d) < TaskAt(m)
         /\ m < d <=> TaskAt(m) < TaskAt(d)
<1>1. /\ d \in 1..Len(dependencies) /\ d \in Turns /\ TaskAt(d) = dependencies[d].task
      /\ ResourceAt(d) = r /\ TaskAt(d) \in 1..Len(tasks) /\ Len(tasks) \in Nat
      /\ Len(dependencies) \in Nat
  BY TurnTypes
<1>2. m \in Nat /\ TaskAt(m) \in 1..(Len(tasks) + 1)
  BY TurnTypes
<1>3. CASE m <= Len(dependencies)
  <2>1. /\ m \in 1..Len(dependencies) /\ TaskAt(m) = dependencies[m].task
        /\ dependencies[m].resource = r /\ dependencies[d].resource = r
    BY <1>1, <1>3, TurnTypes DEF Uses
  <2>2. \A i, j \in 1..Len(dependencies) : i < j =>
          /\ dependencies[i].task <= dependencies[j].task
          /\ dependencies[i].resource = dependencies[j].resource =>
               dependencies[i].task # dependencies[j].task
    BY DEF DataInv, DependenciesInv
  <2>3. d < m => TaskAt(d) <= TaskAt(m) /\ TaskAt(d) # TaskAt(m)
    BY <1>1, <2>1, <2>2
  <2>4. m < d => TaskAt(m) <= TaskAt(d) /\ TaskAt(m) # TaskAt(d)
    BY <1>1, <2>1, <2>2
  <2>5. d \in Nat
    BY <1>1
  <2>6. QED
    BY ONLY <1>1, <1>2, <2>3, <2>4, <2>5
<1>4. CASE m > Len(dependencies)
  <2>1. TaskAt(m) = Len(tasks) + 1
    BY <1>4, TurnTypes
  <2>2. QED
    BY ONLY <1>1, <1>2, <1>4, <2>1
<1>5. QED
  BY <1>1, <1>2, <1>3, <1>4

LEMMA LastUseExists ==
  ASSUME DataInv, NEW r, NEW m \in Nat, ~Unused(r, m)
  PROVE  \E e \in Uses(r) : LastUse(r, e, m)
<1> DEFINE S == {e \in Uses(r) : e < m}
<1>1. Uses(r) \subseteq Nat
  BY TurnTypes
<1>2. S # {} /\ S \in SUBSET Nat /\ \A e \in S : e <= m
  BY <1>1 DEF Unused
<1>3. PICK e \in S : \A f \in S : f <= e
  <2> HIDE DEF S
  <2>1. QED
    BY <1>2, LargestExists
<1>4. QED
  BY <1>3 DEF LastUse

(* The last turn of r up to b that starts a barrier.                       *)
LEMMA LastStartExists ==
  ASSUME DataInv, NEW r, NEW a \in Nat, NEW b \in Nat, ~NoStart(r, a, b)
  PROVE  \E m \in Turns : ResourceAt(m) = r /\ a < m /\ m <= b /\ Starts(m) /\ NoStart(r, m, b)
<1> DEFINE S == {k \in Turns : ResourceAt(k) = r /\ a < k /\ k <= b /\ Starts(k)}
<1>1. Turns \subseteq Nat
  BY TurnTypes
<1>2. S # {} /\ S \in SUBSET Nat /\ \A k \in S : k <= b
  BY <1>1 DEF NoStart
<1>3. PICK m \in S : \A k \in S : k <= m
  <2> HIDE DEF S
  <2>1. QED
    BY <1>2, LargestExists
<1>4. ASSUME NEW k \in Turns, ResourceAt(k) = r, m < k, k <= b, Starts(k) PROVE FALSE
  <2>1. a < m /\ m \in Nat /\ k \in Nat
    BY <1>1, <1>3
  <2>2. a < k
    BY <1>4, <2>1
  <2>3. k \in S
    BY <1>4, <2>2
  <2>4. k <= m
    BY <1>3, <2>3
  <2>5. QED
    BY <1>4, <2>1, <2>4
<1>5. NoStart(r, m, b)
  BY <1>4 DEF NoStart
<1>6. QED
  BY <1>3, <1>5

LEMMA NoStartShorter ==
  ASSUME DataInv, NEW r, NEW a \in Nat, NEW b \in Nat, NEW c \in Nat, NEW d \in Nat,
         a <= b, c <= d, NoStart(r, a, d)
  PROVE  NoStart(r, b, c)
<1>1. Turns \subseteq Nat
  BY TurnTypes
<1>2. SUFFICES ASSUME NEW k \in Turns, ResourceAt(k) = r, b < k, k <= c PROVE ~Starts(k)
  BY DEF NoStart
<1>3. k \in Nat
  BY <1>1
<1>4. a < k /\ k <= d
  BY <1>2, <1>3
<1>5. QED
  BY <1>2, <1>4 DEF NoStart

(* Which turns start a barrier is settled when execute() begins.           *)
Settled == UNCHANGED <<resources, dependencies>> /\ Len(tasks') = Len(tasks)

LEMMA SettledFacts ==
  ASSUME Settled
  PROVE  /\ Turns' = Turns
         /\ \A m : /\ ResourceAt(m)' = ResourceAt(m) /\ TaskAt(m)' = TaskAt(m)
                   /\ LayoutAt(m)' = LayoutAt(m) /\ ScopeAt(m)' = ScopeAt(m) /\ IsTexture(m)' = IsTexture(m)
                   /\ Uses(m)' = Uses(m) /\ ReadOnly(m)' = ReadOnly(m)
                   /\ Starts(m)' = Starts(m)
         /\ \A r, m : Unused(r, m)' = Unused(r, m)
         /\ \A r, e, m : LastUse(r, e, m)' = LastUse(r, e, m)
         /\ \A r, a, b : NoStart(r, a, b)' = NoStart(r, a, b)
<1>1. resources' = resources /\ dependencies' = dependencies /\ Len(tasks') = Len(tasks)
  BY DEF Settled
<1>2. Turns' = Turns
  BY <1>1 DEF Turns
<1>3. \A m : /\ ResourceAt(m)' = ResourceAt(m) /\ TaskAt(m)' = TaskAt(m)
            /\ LayoutAt(m)' = LayoutAt(m) /\ ScopeAt(m)' = ScopeAt(m) /\ IsTexture(m)' = IsTexture(m)
            /\ Uses(m)' = Uses(m) /\ ReadOnly(m)' = ReadOnly(m)
  BY <1>1 DEF ResourceAt, TaskAt, LayoutAt, ScopeAt, IsTexture, Uses, ReadOnly
<1>4. \A r, m : Unused(r, m)' = Unused(r, m)
  BY <1>3 DEF Unused
<1>5. \A r, e, m : LastUse(r, e, m)' = LastUse(r, e, m)
  BY <1>3 DEF LastUse
<1>6. \A e, d : Continues(e, d)' = Continues(e, d)
  BY <1>1, <1>3 DEF Continues
<1>7. \A m : Starts(m)' = Starts(m)
  BY <1>1, <1>3, <1>4, <1>5, <1>6 DEF Starts
<1>8. \A r, a, b : NoStart(r, a, b)' = NoStart(r, a, b)
  BY <1>2, <1>3, <1>7 DEF NoStart
<1>9. QED
  BY <1>2, <1>3, <1>4, <1>5, <1>7, <1>8

-----------------------------------------------------------------------------
(* What a turn of the planning loops does, whichever kind it is.           *)
TurnSettled ==
  /\ pc = "planning" /\ pc' = "planning" /\ Settled
  /\ cursor \in Turns /\ cursor' = cursor + 1

PoolsGrow(lead, l) ==
  /\ Len(l) = Len(barriers') /\ Len(barriers) <= Len(barriers')
  /\ \A i \in 1..Len(barriers) :
       /\ l[i] = lead[i] /\ barriers'[i].resource = barriers[i].resource
       /\ barriers'[i].layoutBefore = barriers[i].layoutBefore
       /\ barriers'[i].layoutAfter = barriers[i].layoutAfter
       /\ barriers'[i].next = barriers[i].next /\ barriers'[i].before = barriers[i].before
       /\ Within(barriers[i].after, barriers'[i].after)
       /\ cursor > Len(dependencies) => barriers'[i].after = barriers[i].after
  /\ \A t \in 1..Len(tasks) : /\ Within(tasks[t].before, tasks'[t].before)
                              /\ Within(tasks[t].after, tasks'[t].after)

TurnBarrier(l) ==
  LET i == Len(barriers) + 1
      r == ResourceAt(cursor)
  IN  /\ Len(barriers') = i /\ l[i] = cursor
      /\ barriers'[i].resource = r /\ barriers'[i].layoutAfter = LayoutAt(cursor)
      /\ barriers'[i].layoutBefore = IF cursor <= Len(dependencies) /\ Unused(r, cursor)
                                     THEN resources[r].pre ELSE states[r].layout
      /\ barriers'[i].before = states[r].scope /\ barriers'[i].after = ScopeAt(cursor)
      /\ barriers'[i].next = ChainOf(TaskAt(cursor))
      /\ \A t \in 1..(Len(tasks) + 1) : ChainOf(t)' = IF t = TaskAt(cursor) THEN i ELSE ChainOf(t)

NoTurnBarrier ==
  /\ Len(barriers') = Len(barriers)
  /\ \A t \in 1..(Len(tasks) + 1) : ChainOf(t)' = ChainOf(t)

TurnAccess ==
  LET r == ResourceAt(cursor)
      p == states[r].prev
  IN  /\ Starts(cursor) /\ ~IsTexture(r) =>
           /\ Within(states[r].scope, tasks'[TaskAt(cursor)].before)
           /\ Within(ScopeAt(cursor), tasks'[TaskAt(cursor)].after)
      /\ cursor <= Len(dependencies) /\ ~Starts(cursor) /\ ~Unused(r, cursor) /\ p # 0 =>
           IF IsTexture(r) THEN Within(ScopeAt(cursor), barriers'[p].after)
           ELSE Within(ScopeAt(cursor), tasks'[p].after)

TurnState ==
  LET r == ResourceAt(cursor)
  IN  /\ \A q \in 1..Len(resources) : q # r \/ cursor > Len(dependencies) => states'[q] = states[q]
      /\ cursor <= Len(dependencies) =>
           /\ states'[r].scope = IF Starts(cursor) \/ Unused(r, cursor) THEN ScopeAt(cursor)
                                 ELSE Join(states[r].scope, ScopeAt(cursor))
           /\ IsTexture(r) => states'[r].layout = LayoutAt(cursor)
           /\ Starts(cursor) =>
                states'[r].prev = IF IsTexture(r) THEN Len(barriers) + 1 ELSE TaskAt(cursor)
           /\ ~Starts(cursor) /\ ~Unused(r, cursor) => states'[r].prev = states[r].prev

TurnTaken(lead, l) ==
  /\ TurnSettled /\ PoolsGrow(lead, l)
  /\ IF Starts(cursor) /\ IsTexture(ResourceAt(cursor)) THEN TurnBarrier(l) ELSE NoTurnBarrier
  /\ TurnAccess /\ TurnState

LEMMA TurnBasics ==
  ASSUME DataInv, TurnSettled
  PROVE  /\ Horizon = cursor /\ Horizon' = cursor + 1 /\ cursor' = cursor + 1
         /\ cursor \in Turns /\ cursor \in Nat /\ cursor - 1 \in Nat /\ cursor > 0
         /\ Turns \subseteq Nat /\ Settled /\ Len(barriers) \in Nat /\ Len(tasks) \in Nat
         /\ Len(dependencies) \in Nat /\ Len(resources) \in Nat
<1>1. cursor \in Turns /\ pc = "planning" /\ pc' = "planning" /\ cursor' = cursor + 1 /\ Settled
  BY DEF TurnSettled
<1>2. /\ Turns \subseteq Nat /\ Len(barriers) \in Nat /\ Len(tasks) \in Nat
      /\ Len(dependencies) \in Nat /\ Len(resources) \in Nat
  BY TurnTypes
<1>3. Horizon = cursor /\ Horizon' = cursor + 1
  BY <1>1 DEF Horizon
<1>4. cursor \in Nat /\ cursor - 1 \in Nat /\ cursor > 0
  BY <1>1, <1>2 DEF Turns
<1>5. QED
  BY <1>1, <1>2, <1>3, <1>4

LEMMA OrderTaken ==
  ASSUME DataInv, NEW lead, NEW l, OrderInv(lead), TurnTaken(lead, l)
  PROVE  OrderInv(l)'
<1>1. /\ TurnSettled /\ PoolsGrow(lead, l)
      /\ IF Starts(cursor) /\ IsTexture(ResourceAt(cursor)) THEN TurnBarrier(l) ELSE NoTurnBarrier
  BY DEF TurnTaken
<1>2. /\ Horizon = cursor /\ Horizon' = cursor + 1 /\ cursor \in Turns /\ cursor \in Nat
      /\ Turns \subseteq Nat /\ Settled /\ Len(barriers) \in Nat
  BY <1>1, TurnBasics
<1>3. /\ \A i \in 1..Len(barriers) : l[i] = lead[i]
      /\ Len(l) = Len(barriers')
  BY <1>1 DEF PoolsGrow
<1>4. /\ \A i \in 1..Len(barriers) : /\ lead[i] \in Turns /\ lead[i] < cursor
                                     /\ IsTexture(ResourceAt(lead[i])) /\ Starts(lead[i])
      /\ \A i, j \in 1..Len(barriers) : i < j => lead[i] < lead[j]
      /\ \A m \in Turns : m < cursor /\ Starts(m) /\ IsTexture(ResourceAt(m)) =>
           \E i \in 1..Len(barriers) : lead[i] = m
  BY <1>2 DEF OrderInv
<1>5. \/ Len(barriers') = Len(barriers) /\ ~(Starts(cursor) /\ IsTexture(ResourceAt(cursor)))
      \/ /\ Len(barriers') = Len(barriers) + 1 /\ l[Len(barriers) + 1] = cursor
         /\ Starts(cursor) /\ IsTexture(ResourceAt(cursor))
  BY <1>1 DEF TurnBarrier, NoTurnBarrier
<1>6. \A i \in 1..Len(barriers') :
        \/ i \in 1..Len(barriers)
        \/ i = Len(barriers) + 1 /\ Len(barriers') = Len(barriers) + 1
  BY <1>2, <1>5
<1>7. ASSUME NEW i \in 1..Len(barriers')
      PROVE  /\ l[i] \in Turns /\ l[i] < cursor + 1
             /\ IsTexture(ResourceAt(l[i])) /\ Starts(l[i])
  <2>1. CASE i \in 1..Len(barriers)
    <3>1. /\ l[i] = lead[i] /\ lead[i] \in Turns /\ lead[i] < cursor
          /\ IsTexture(ResourceAt(lead[i])) /\ Starts(lead[i])
      BY <1>3, <1>4, <2>1
    <3>2. lead[i] < cursor + 1
      <4>1. lead[i] \in Nat
        BY <1>2, <3>1
      <4>2. QED
        BY <1>2, <3>1, <4>1
    <3>3. QED
      BY <3>1, <3>2
  <2>2. CASE i = Len(barriers) + 1 /\ Len(barriers') = Len(barriers) + 1
    <3>1. /\ l[i] = cursor /\ Starts(cursor) /\ IsTexture(ResourceAt(cursor))
      BY <1>2, <1>5, <2>2
    <3>2. cursor < cursor + 1
      BY <1>2
    <3>3. QED
      BY <1>2, <3>1, <3>2
  <2>3. QED
    BY <1>6, <2>1, <2>2
<1>8. ASSUME NEW i \in 1..Len(barriers'), NEW j \in 1..Len(barriers'), i < j
      PROVE  l[i] < l[j]
  BY <1>2, <1>3, <1>4, <1>5, <1>6, <1>8
<1>9. ASSUME NEW m \in Turns, m < cursor + 1, Starts(m), IsTexture(ResourceAt(m))
      PROVE  \E i \in 1..Len(barriers') : l[i] = m
  <2>1. CASE m < cursor
    <3>1. PICK i \in 1..Len(barriers) : lead[i] = m
      BY <1>4, <1>9, <2>1
    <3>2. i \in 1..Len(barriers') /\ l[i] = m
      BY <1>2, <1>3, <1>5, <3>1
    <3>3. QED
      BY <3>2
  <2>2. CASE m = cursor
    <3>1. Len(barriers') = Len(barriers) + 1 /\ l[Len(barriers) + 1] = cursor
      BY <1>5, <1>9, <2>2
    <3>2. Len(barriers) + 1 \in 1..Len(barriers')
      BY <1>2, <3>1
    <3>3. QED
      BY <2>2, <3>1, <3>2
  <2>3. QED
    BY <1>2, <1>9, <2>1, <2>2
<1>10. /\ Turns' = Turns /\ Horizon' = cursor + 1
       /\ \A m : /\ ResourceAt(m)' = ResourceAt(m) /\ IsTexture(m)' = IsTexture(m)
                 /\ Starts(m)' = Starts(m)
  BY <1>2, SettledFacts
<1>11. \A i \in 1..Len(barriers') : /\ l[i] \in Turns' /\ l[i] < Horizon'
                                    /\ IsTexture(ResourceAt(l[i]))' /\ Starts(l[i])'
  BY <1>7, <1>10
<1>12. \A m \in Turns' : m < Horizon' /\ Starts(m)' /\ IsTexture(ResourceAt(m))' =>
         \E i \in 1..Len(barriers') : l[i] = m
  BY <1>9, <1>10
<1>13. QED
  BY <1>3, <1>8, <1>11, <1>12 DEF OrderInv

LEMMA ChainTaken ==
  ASSUME DataInv, NEW lead, NEW l, OrderInv(lead), ChainInv(lead), TurnTaken(lead, l)
  PROVE  ChainInv(l)'
<1>1. /\ TurnSettled /\ PoolsGrow(lead, l)
      /\ IF Starts(cursor) /\ IsTexture(ResourceAt(cursor)) THEN TurnBarrier(l) ELSE NoTurnBarrier
  BY DEF TurnTaken
<1>2. /\ cursor \in Turns /\ Settled /\ Len(barriers) \in Nat /\ Len(tasks) \in Nat
      /\ Len(tasks') = Len(tasks)
  BY <1>1, TurnBasics DEF Settled
<1>3. /\ \A i \in 1..Len(barriers) : l[i] = lead[i] /\ barriers'[i].next = barriers[i].next
      /\ \A m : TaskAt(m)' = TaskAt(m)
  BY <1>1, <1>2, SettledFacts DEF PoolsGrow
<1>4. /\ \A i \in 1..Len(barriers) : HeadIs(lead, TaskAt(lead[i]), barriers[i].next, i - 1)
      /\ \A t \in 1..(Len(tasks) + 1) : HeadIs(lead, t, ChainOf(t), Len(barriers))
  BY DEF ChainInv
<1>5. TaskAt(cursor) \in 1..(Len(tasks) + 1)
  BY <1>2, TurnTypes
(* The chains of the barriers there are stay as they are.                  *)
<1>6. ASSUME NEW n \in 0..Len(barriers), NEW t, NEW h, HeadIs(lead, t, h, n) PROVE HeadIs(l, t, h, n)'
  <2>1. /\ h \in 0..n /\ (h # 0 => TaskAt(lead[h]) = t)
        /\ \A i \in 1..n : h < i => TaskAt(lead[i]) # t
    BY <1>6 DEF HeadIs
  <2>2. \A i \in 1..n : l[i] = lead[i]
    BY <1>2, <1>3
  <2>3. h # 0 => h \in 1..n
    BY <1>2, <2>1
  <2>4. (h # 0 => TaskAt(l[h])' = t) /\ \A i \in 1..n : h < i => TaskAt(l[i])' # t
    BY <1>3, <2>1, <2>2, <2>3
  <2>5. QED
    BY <2>1, <2>4 DEF HeadIs
<1>7. \A i \in 1..Len(barriers) : HeadIs(l, TaskAt(l[i]), barriers[i].next, i - 1)'
  <2> TAKE i \in 1..Len(barriers)
  <2>1. PICK t, h : t = TaskAt(lead[i]) /\ h = barriers[i].next
    OBVIOUS
  <2>2. i - 1 \in 0..Len(barriers) /\ HeadIs(lead, t, h, i - 1)
    BY <1>2, <1>4, <2>1
  <2>3. HeadIs(l, t, h, i - 1)'
    BY <1>6, <2>2
  <2>4. TaskAt(l[i])' = t /\ barriers'[i].next = h
    BY <1>3, <2>1
  <2>5. QED
    BY <2>3, <2>4
<1>8. ASSUME NEW t \in 1..(Len(tasks) + 1) PROVE HeadIs(l, t, ChainOf(t), Len(barriers))'
                                                \/ Len(barriers') # Len(barriers)
  <2>1. PICK h, n : h = ChainOf(t) /\ n = Len(barriers)
    OBVIOUS
  <2>2. HeadIs(l, t, h, n)'
    BY <1>2, <1>4, <1>6, <2>1
  <2>3. CASE NoTurnBarrier
    <3>1. ChainOf(t)' = h /\ Len(barriers') = n
      BY <2>1, <2>3 DEF NoTurnBarrier
    <3>2. QED
      BY <2>2, <3>1
  <2>4. CASE TurnBarrier(l)
    BY <1>2, <2>4 DEF TurnBarrier
  <2>5. QED
    BY <1>1, <2>3, <2>4
<1>9. CASE NoTurnBarrier
  <2>1. Len(barriers') = Len(barriers)
    BY <1>9 DEF NoTurnBarrier
  <2>2. QED
    BY <1>2, <1>7, <1>8, <2>1 DEF ChainInv
<1>10. CASE TurnBarrier(l)
  <2>1. PICK k, t0, h0 : k = Len(barriers) + 1 /\ t0 = TaskAt(cursor) /\ h0 = ChainOf(t0)
    OBVIOUS
  <2>2. /\ Len(barriers') = k /\ l[k] = cursor /\ barriers'[k].next = h0
        /\ \A t \in 1..(Len(tasks) + 1) : ChainOf(t)' = IF t = t0 THEN k ELSE ChainOf(t)
        /\ k \in Nat /\ k - 1 = Len(barriers) /\ k # 0
    BY <1>2, <1>10, <2>1 DEF TurnBarrier
  <2>3. TaskAt(l[k])' = t0
    BY <1>3, <2>1, <2>2
  <2>4. HeadIs(l, t0, h0, k - 1)'
    BY <1>2, <1>4, <1>5, <1>6, <2>1, <2>2
  <2>5. HeadIs(l, TaskAt(l[k]), barriers[k].next, k - 1)'
    BY <2>2, <2>3, <2>4
  <2>6. ASSUME NEW t \in 1..(Len(tasks) + 1) PROVE HeadIs(l, t, ChainOf(t), Len(barriers))'
    <3>1. PICK h : h = ChainOf(t)
      OBVIOUS
    <3>2. CASE t = t0
      <4>1. ChainOf(t)' = k /\ k \in 0..k /\ \A i \in 1..k : ~(k < i)
        BY <2>2, <3>2
      <4>2. QED
        BY <2>2, <2>3, <3>2, <4>1 DEF HeadIs
    <3>3. CASE t # t0
      <4>1. ChainOf(t)' = h /\ HeadIs(l, t, h, k - 1)'
        BY <1>2, <1>4, <1>6, <2>2, <3>1, <3>3
      <4>2. /\ h \in 0..(k - 1) /\ (h # 0 => TaskAt(l[h])' = t)
            /\ \A i \in 1..(k - 1) : h < i => TaskAt(l[i])' # t
        BY <4>1 DEF HeadIs
      <4>3. h \in 0..k /\ \A i \in 1..k : i \in 1..(k - 1) \/ i = k
        BY <2>2, <4>2
      <4>4. \A i \in 1..k : h < i => TaskAt(l[i])' # t
        BY <2>3, <3>3, <4>2, <4>3
      <4>5. QED
        BY <2>2, <4>1, <4>2, <4>3, <4>4 DEF HeadIs
    <3>4. QED
      BY <3>2, <3>3
  <2>7. \A i \in 1..k : HeadIs(l, TaskAt(l[i]), barriers[i].next, i - 1)'
    <3>1. \A i \in 1..k : i \in 1..Len(barriers) \/ i = k
      BY <1>2, <2>1
    <3>2. QED
      BY <1>7, <2>5, <3>1
  <2>8. QED
    BY <1>2, <2>2, <2>6, <2>7 DEF ChainInv
<1>11. QED
  BY <1>1, <1>9, <1>10

LEMMA BarrierTaken ==
  ASSUME DataInv, NEW lead, NEW l, OrderInv(lead), BarrierInv(lead), StateInv(lead),
         TurnTaken(lead, l)
  PROVE  BarrierInv(l)'
<1>1. /\ TurnSettled /\ PoolsGrow(lead, l)
      /\ IF Starts(cursor) /\ IsTexture(ResourceAt(cursor)) THEN TurnBarrier(l) ELSE NoTurnBarrier
  BY DEF TurnTaken
<1>2. /\ cursor \in Turns /\ cursor \in Nat /\ Settled /\ Len(barriers) \in Nat /\ Horizon = cursor
      /\ Turns \subseteq Nat /\ Len(dependencies) \in Nat
      /\ resources' = resources /\ dependencies' = dependencies
  BY <1>1, TurnBasics DEF Settled
<1>3. /\ \A m : /\ ResourceAt(m)' = ResourceAt(m) /\ LayoutAt(m)' = LayoutAt(m)
                /\ Uses(m)' = Uses(m)
      /\ \A r, m : Unused(r, m)' = Unused(r, m)
      /\ \A r, e, m : LastUse(r, e, m)' = LastUse(r, e, m)
  BY <1>2, SettledFacts
<1> DEFINE Fits(i, m, bs) ==
      LET r == ResourceAt(m)
      IN  /\ bs[i].resource = r /\ bs[i].layoutAfter = LayoutAt(m)
          /\ \A e \in Uses(r) : LastUse(r, e, m) => bs[i].layoutBefore = dependencies[e].layout
          /\ Unused(r, m) =>
               IF m <= Len(dependencies) THEN bs[i].layoutBefore = resources[r].pre
               ELSE bs[i].before = NoScope /\ bs[i].after = NoScope
<1>4. \A i \in 1..Len(barriers) : Fits(i, lead[i], barriers)
  BY DEF BarrierInv
<1>5. ASSUME NEW i \in 1..Len(barriers) PROVE Fits(i, l[i], barriers')
  <2>1. /\ l[i] = lead[i] /\ barriers'[i].resource = barriers[i].resource
        /\ barriers'[i].layoutBefore = barriers[i].layoutBefore
        /\ barriers'[i].layoutAfter = barriers[i].layoutAfter
        /\ barriers'[i].before = barriers[i].before
        /\ cursor > Len(dependencies) => barriers'[i].after = barriers[i].after
    BY <1>1 DEF PoolsGrow
  <2>2. lead[i] \in Nat /\ lead[i] < cursor
    BY <1>2 DEF OrderInv
  <2>3. ~(lead[i] <= Len(dependencies)) => cursor > Len(dependencies)
    BY <1>2, <2>2
  <2>4. QED
    BY <1>4, <2>1, <2>3
<1>6. ASSUME TurnBarrier(l) PROVE Fits(Len(barriers) + 1, cursor, barriers')
  <2> DEFINE i == Len(barriers) + 1
             r == ResourceAt(cursor)
  <2>1. /\ barriers'[i].resource = r /\ barriers'[i].layoutAfter = LayoutAt(cursor)
        /\ barriers'[i].layoutBefore = IF cursor <= Len(dependencies) /\ Unused(r, cursor)
                                       THEN resources[r].pre ELSE states[r].layout
        /\ barriers'[i].before = states[r].scope /\ barriers'[i].after = ScopeAt(cursor)
    BY <1>6 DEF TurnBarrier
  <2>2. r \in 1..Len(resources) /\ IsTexture(r)
    BY <1>1, <1>2, <1>6, TurnTypes DEF NoTurnBarrier, TurnBarrier
  <2>3. /\ Unused(r, cursor) => states[r].scope = NoScope
        /\ \A e \in Uses(r) : LastUse(r, e, cursor) => states[r].layout = dependencies[e].layout
    BY <2>2 DEF StateInv
  <2>4. ~(cursor <= Len(dependencies)) => ScopeAt(cursor) = NoScope
    BY DEF ScopeAt
  <2>5. \A e \in Uses(r) : LastUse(r, e, cursor) => ~Unused(r, cursor)
    BY DEF LastUse, Unused
  <2> HIDE DEF r, i
  <2>6. QED
    BY <2>1, <2>3, <2>4, <2>5 DEF r, i
<1>7. \A i \in 1..Len(barriers') : Fits(i, l[i], barriers')
  <2>1. CASE NoTurnBarrier
    BY <1>5, <2>1 DEF NoTurnBarrier
  <2>2. CASE TurnBarrier(l)
    <3>1. Len(barriers') = Len(barriers) + 1 /\ l[Len(barriers) + 1] = cursor
      BY <2>2 DEF TurnBarrier
    <3>2. \A i \in 1..Len(barriers') : i \in 1..Len(barriers) \/ i = Len(barriers) + 1
      BY <1>2, <3>1
    <3> HIDE DEF Fits
    <3>3. QED
      BY <1>5, <1>6, <2>2, <3>1, <3>2
  <2>3. QED
    BY <1>1, <2>1, <2>2
<1>8. QED
  BY <1>2, <1>3, <1>7 DEF BarrierInv

LEMMA WithinJoin ==
  /\ \A s, u, v : Within(s, u) /\ Within(u, v) => Within(s, v)
  /\ \A s : Within(s, s)
  /\ \A s \in Scope, u \in Scope : Within(s, Join(s, u)) /\ Within(u, Join(s, u))
BY Scopes DEF Within

LEMMA BeforeTaken ==
  ASSUME DataInv, NEW lead, NEW l, OrderInv(lead), BeforeInv(lead), StateInv(lead),
         TurnTaken(lead, l)
  PROVE  BeforeInv(l)'
<1>1. /\ TurnSettled /\ PoolsGrow(lead, l) /\ TurnAccess
      /\ IF Starts(cursor) /\ IsTexture(ResourceAt(cursor)) THEN TurnBarrier(l) ELSE NoTurnBarrier
  BY DEF TurnTaken
<1>2. /\ cursor \in Turns /\ cursor \in Nat /\ Settled /\ Len(barriers) \in Nat
      /\ Horizon = cursor /\ Horizon' = cursor + 1 /\ cursor - 1 \in Nat
      /\ Turns \subseteq Nat /\ Len(dependencies) \in Nat /\ Len(tasks) \in Nat
  BY <1>1, TurnBasics
<1>3. /\ Turns' = Turns
      /\ \A m : /\ ResourceAt(m)' = ResourceAt(m) /\ TaskAt(m)' = TaskAt(m)
                /\ ScopeAt(m)' = ScopeAt(m) /\ IsTexture(m)' = IsTexture(m)
                /\ Uses(m)' = Uses(m) /\ Starts(m)' = Starts(m)
      /\ \A r, a, b : NoStart(r, a, b)' = NoStart(r, a, b)
  BY <1>2, SettledFacts
<1>4. ASSUME NEW m \in Turns, m < cursor + 1, Starts(m),
             NEW d \in Uses(ResourceAt(m)), d < m, NoStart(ResourceAt(m), d, m - 1)
      PROVE  InBefore(l, d, m)'
  <2> DEFINE r == ResourceAt(m)
  <2>1. m \in Nat
    BY <1>2
  <2>2. ASSUME NEW i \in 1..Len(barriers'), l[i] = m, IsTexture(r)
        PROVE  Within(ScopeAt(d), barriers'[i].before)
    <3>1. CASE i \in 1..Len(barriers)
      <4>1. l[i] = lead[i] /\ barriers'[i].before = barriers[i].before
        BY <1>1, <3>1 DEF PoolsGrow
      <4>2. m < cursor
        BY <1>2, <2>2, <3>1, <4>1 DEF OrderInv
      <4>3. InBefore(lead, d, m)
        BY <1>2, <1>4, <4>2 DEF BeforeInv
      <4>4. QED
        BY <2>2, <3>1, <4>1, <4>3 DEF InBefore
    <3>2. CASE i \notin 1..Len(barriers)
      <4>1. TurnBarrier(l)
        BY <1>1, <3>2 DEF NoTurnBarrier
      <4>2. Len(barriers') = Len(barriers) + 1
        BY <4>1 DEF TurnBarrier
      <4>3. i = Len(barriers) + 1
        BY <1>2, <3>2, <4>2
      <4>4. m = cursor /\ barriers'[i].before = states[r].scope
        BY <2>2, <4>1, <4>3 DEF TurnBarrier
      <4>5. Within(ScopeAt(d), states[r].scope)
        BY <1>4, <4>4, TurnTypes DEF StateInv
      <4>6. QED
        BY <4>4, <4>5
    <3>3. QED
      BY <3>1, <3>2
  <2>3. ASSUME ~IsTexture(r) PROVE Within(ScopeAt(d), tasks'[TaskAt(m)].before)
    <3>0. m <= Len(dependencies)
      BY <2>1, <1>2, <1>4, <2>3 DEF Starts
    <3>1. TaskAt(m) \in 1..Len(tasks)
      BY <3>0, TurnTypes
    <3>2. CASE m < cursor
      <4>1. InBefore(lead, d, m)
        BY <1>2, <1>4, <3>2 DEF BeforeInv
      <4>2. Within(ScopeAt(d), tasks[TaskAt(m)].before)
        BY <2>3, <4>1 DEF InBefore
      <4>3. Within(tasks[TaskAt(m)].before, tasks'[TaskAt(m)].before)
        BY <1>1, <3>1 DEF PoolsGrow
      <4>4. QED
        BY <4>2, <4>3, WithinJoin
    <3>3. CASE m = cursor
      <4>1. Within(ScopeAt(d), states[r].scope)
        BY <1>4, <3>3, TurnTypes DEF StateInv
      <4>2. Within(states[r].scope, tasks'[TaskAt(m)].before)
        BY <1>1, <1>4, <2>3, <3>3 DEF TurnAccess
      <4>3. QED
        BY <4>1, <4>2, WithinJoin
    <3>4. QED
      BY <1>2, <1>4, <2>1, <3>2, <3>3
  <2>4. QED
    BY <1>3, <2>2, <2>3 DEF InBefore
<1>5. QED
  BY <1>2, <1>3, <1>4 DEF BeforeInv

LEMMA AfterTaken ==
  ASSUME DataInv, DataInv', NEW lead, NEW l, OrderInv(lead), AfterInv(lead), StateInv(lead),
         TurnTaken(lead, l)
  PROVE  AfterInv(l)'
<1>1. /\ TurnSettled /\ PoolsGrow(lead, l) /\ TurnAccess
      /\ IF Starts(cursor) /\ IsTexture(ResourceAt(cursor)) THEN TurnBarrier(l) ELSE NoTurnBarrier
  BY DEF TurnTaken
<1>2. /\ cursor \in Turns /\ cursor \in Nat /\ Settled /\ Len(barriers) \in Nat
      /\ Horizon = cursor /\ Horizon' = cursor + 1 /\ cursor - 1 \in Nat
      /\ Turns \subseteq Nat /\ Len(dependencies) \in Nat /\ Len(tasks) \in Nat
  BY <1>1, TurnBasics
<1>3. /\ Turns' = Turns
      /\ \A m : /\ ResourceAt(m)' = ResourceAt(m) /\ TaskAt(m)' = TaskAt(m)
                /\ ScopeAt(m)' = ScopeAt(m) /\ IsTexture(m)' = IsTexture(m)
                /\ Uses(m)' = Uses(m) /\ Starts(m)' = Starts(m)
      /\ \A r, a, b : NoStart(r, a, b)' = NoStart(r, a, b)
  BY <1>2, SettledFacts
<1>4. ASSUME NEW m \in Turns, m < cursor + 1, Starts(m),
             NEW d \in Uses(ResourceAt(m)), m <= d, d < cursor + 1, NoStart(ResourceAt(m), m, d)
      PROVE  InAfter(l, d, m)'
  <2> DEFINE r == ResourceAt(m)
  <2>1. /\ m \in Nat /\ d \in Nat /\ d \in Turns /\ m <= Len(dependencies) /\ ResourceAt(d) = r
        /\ m \in Uses(r) /\ TaskAt(m) \in 1..Len(tasks) /\ r \in 1..Len(resources)
        /\ d <= Len(dependencies)
    <3>1. m \in Nat /\ d \in Nat /\ d \in Turns /\ d \in 1..Len(dependencies) /\ ResourceAt(d) = r
      BY <1>2, TurnTypes
    <3>2. m <= Len(dependencies) /\ d <= Len(dependencies)
      BY <1>2, <1>4, <3>1
    <3>3. QED
      BY <3>1, <3>2, TurnTypes
(* An access planned before stays in a scope that only grows.              *)
  <2>2. CASE d < cursor
    <3>1. m < cursor
      BY <1>2, <1>4, <2>1, <2>2
    <3>2. InAfter(lead, d, m)
      BY <1>2, <1>4, <2>2, <3>1 DEF AfterInv
    <3>3. ASSUME NEW i \in 1..Len(barriers'), l[i] = m, IsTexture(r)
          PROVE  Within(ScopeAt(d), barriers'[i].after)
      <4>1. i \in 1..Len(barriers)
        <5>1. CASE NoTurnBarrier
          BY <5>1 DEF NoTurnBarrier
        <5>2. CASE TurnBarrier(l)
          <6>1. Len(barriers') = Len(barriers) + 1 /\ l[Len(barriers) + 1] = cursor
            BY <5>2 DEF TurnBarrier
          <6>2. i # Len(barriers) + 1
            BY <1>2, <2>1, <3>1, <3>3, <6>1
          <6>3. QED
            BY <1>2, <6>1, <6>2
        <5>3. QED
          BY <1>1, <5>1, <5>2
      <4>2. l[i] = lead[i] /\ Within(barriers[i].after, barriers'[i].after)
        BY <1>1, <4>1 DEF PoolsGrow
      <4>3. Within(ScopeAt(d), barriers[i].after)
        BY <3>2, <3>3, <4>1, <4>2 DEF InAfter
      <4>4. QED
        BY <4>2, <4>3, WithinJoin
    <3>4. ASSUME ~IsTexture(r) PROVE Within(ScopeAt(d), tasks'[TaskAt(m)].after)
      <4>1. Within(ScopeAt(d), tasks[TaskAt(m)].after)
        BY <3>2, <3>4 DEF InAfter
      <4>2. Within(tasks[TaskAt(m)].after, tasks'[TaskAt(m)].after)
        BY <1>1, <2>1 DEF PoolsGrow
      <4>3. QED
        BY <4>1, <4>2, WithinJoin
    <3>5. QED
      BY <1>3, <3>3, <3>4 DEF InAfter
(* The turn that starts a barrier.                                         *)
  <2>3. CASE d = cursor /\ m = cursor
    <3>1. ASSUME NEW i \in 1..Len(barriers'), l[i] = m, IsTexture(r)
          PROVE  Within(ScopeAt(d), barriers'[i].after)
      <4>1. TurnBarrier(l)
        BY <1>1, <1>4, <2>3, <3>1
      <4>2. /\ Len(barriers') = Len(barriers) + 1
            /\ barriers'[Len(barriers) + 1].after = ScopeAt(cursor)
        BY <4>1 DEF TurnBarrier
      <4>3. i = Len(barriers) + 1
        <5>1. ASSUME i \in 1..Len(barriers) PROVE FALSE
          <6>1. l[i] = lead[i] /\ lead[i] < cursor
            BY <1>1, <1>2, <5>1 DEF PoolsGrow, OrderInv
          <6>2. QED
            BY <1>2, <2>3, <3>1, <6>1
        <5>2. QED
          BY <1>2, <4>2, <5>1
      <4>4. QED
        BY <2>3, <4>2, <4>3, WithinJoin
    <3>2. ASSUME ~IsTexture(r) PROVE Within(ScopeAt(d), tasks'[TaskAt(m)].after)
      BY <1>1, <1>4, <2>3, <3>2 DEF TurnAccess
    <3>3. QED
      BY <1>3, <3>1, <3>2 DEF InAfter
(* A turn that joins the group of an earlier one.                          *)
  <2>4. CASE d = cursor /\ m < cursor
    <3>1. ~Starts(cursor) /\ ResourceAt(cursor) = r /\ cursor <= Len(dependencies)
      BY <1>2, <1>4, <2>1, <2>4 DEF NoStart
    <3>2. NoStart(r, m, cursor - 1)
      BY <1>2, <1>4, <2>1, <2>4, NoStartShorter
    <3>3. ~Unused(r, cursor)
      BY <2>1, <2>4 DEF Unused
    <3>4. /\ states[r].prev # 0
          /\ IF IsTexture(r) THEN lead[states[r].prev] = m ELSE states[r].prev = TaskAt(m)
      BY <1>4, <2>1, <2>4, <3>2 DEF StateInv
    <3>5. IF IsTexture(r) THEN Within(ScopeAt(cursor), barriers'[states[r].prev].after)
          ELSE Within(ScopeAt(cursor), tasks'[states[r].prev].after)
      BY <1>1, <3>1, <3>3, <3>4 DEF TurnAccess
    <3>6. ASSUME NEW i \in 1..Len(barriers'), l[i] = m, IsTexture(r)
          PROVE  Within(ScopeAt(d), barriers'[i].after)
      <4>1. Len(barriers') = Len(barriers)
        BY <1>1, <3>1 DEF NoTurnBarrier
      <4>2. l[i] = lead[i] /\ i \in 1..Len(barriers)
        BY <1>1, <3>6, <4>1 DEF PoolsGrow
      <4>3. states[r].prev \in 1..Len(barriers)
        <5>1. states[r].prev \in 0..Len(barriers)
          BY <1>1, <2>1, <3>6 DEF DataInv, IndexInv, Describing, TurnSettled
        <5>2. QED
          BY <1>2, <3>4, <5>1
      <4>4. \A j, k \in 1..Len(barriers) : j < k => lead[j] < lead[k]
        BY DEF OrderInv
      <4>5. i = states[r].prev
        BY <1>2, <2>1, <3>4, <3>6, <4>2, <4>3, <4>4
      <4>6. QED
        BY <2>4, <3>5, <3>6, <4>5
    <3>7. ASSUME ~IsTexture(r) PROVE Within(ScopeAt(d), tasks'[TaskAt(m)].after)
      BY <2>4, <3>4, <3>5, <3>7
    <3>8. QED
      BY <1>3, <3>6, <3>7 DEF InAfter
  <2>5. QED
    BY <1>2, <1>4, <2>1, <2>2, <2>3, <2>4
<1>5. QED
  BY <1>2, <1>3, <1>4 DEF AfterInv

LEMMA GroupTaken ==
  ASSUME DataInv, GroupInv, TurnSettled
  PROVE  GroupInv'
<1>1. /\ cursor \in Turns /\ cursor \in Nat /\ Settled
      /\ Horizon = cursor /\ Horizon' = cursor + 1 /\ cursor - 1 \in Nat /\ cursor > 0
      /\ Turns \subseteq Nat /\ Len(dependencies) \in Nat
      /\ resources' = resources /\ dependencies' = dependencies
  BY TurnBasics DEF Settled
<1>2. /\ \A m : /\ IsTexture(m)' = IsTexture(m) /\ Uses(m)' = Uses(m) /\ ReadOnly(m)' = ReadOnly(m)
      /\ \A r, a, b : NoStart(r, a, b)' = NoStart(r, a, b)
  BY <1>1, SettledFacts
(* What the last use before this turn, if any, has in common with it.      *)
<1>3. ASSUME NEW r \in 1..Len(resources), NEW d \in Uses(r), d = cursor, ~Starts(d)
      PROVE  /\ Unused(r, d) /\ IsTexture(r) => dependencies[d].layout = resources[r].pre
             /\ \A e \in Uses(r) : LastUse(r, e, d) => Continues(e, d)
  <2>1. d <= Len(dependencies) /\ ResourceAt(d) = r
    BY <1>1, TurnTypes
  <2>2. QED
    BY <1>3, <2>1 DEF Starts
<1>4. ASSUME NEW r \in 1..Len(resources), IsTexture(r), NEW d \in Uses(r), d < cursor + 1,
             NoStart(r, 0, d)
      PROVE  dependencies[d].layout = resources[r].pre
  <2>1. d \in Nat /\ d \in Turns /\ d > 0 /\ ResourceAt(d) = r
    BY <1>1, TurnTypes DEF Turns
  <2>2. CASE d < cursor
    BY <1>1, <1>4, <2>2 DEF GroupInv
  <2>3. CASE d = cursor
    <3>1. ~Starts(d)
      BY <1>4, <2>1 DEF NoStart
    <3>2. CASE Unused(r, d)
      BY <1>3, <1>4, <2>3, <3>1, <3>2
    <3>3. CASE ~Unused(r, d)
      <4>1. PICK e \in Uses(r) : LastUse(r, e, d)
        BY <2>1, <3>3, LastUseExists
      <4>2. Continues(e, d) /\ e < d /\ e \in Nat
        BY <1>1, <1>3, <2>3, <3>1, <4>1, TurnTypes DEF LastUse
      <4>3. dependencies[e].layout = dependencies[d].layout
        BY <1>4, <4>2 DEF Continues, Uses
      <4>4. NoStart(r, 0, e)
        BY <1>4, <2>1, <4>2, NoStartShorter
      <4>5. QED
        BY <1>1, <1>4, <2>3, <4>2, <4>3, <4>4 DEF GroupInv
    <3>4. QED
      BY <3>2, <3>3
  <2>4. QED
    BY <1>1, <1>4, <2>1, <2>2, <2>3
<1>5. ASSUME NEW r \in 1..Len(resources), IsTexture(r), NEW d \in Uses(r), d < cursor + 1,
             NEW m \in Uses(r), m <= d, NoStart(r, m, d)
      PROVE  dependencies[d].layout = dependencies[m].layout
  <2>1. d \in Nat /\ d \in Turns /\ m \in Nat /\ ResourceAt(d) = r
    BY <1>1, TurnTypes
  <2>2. CASE d < cursor
    BY <1>1, <1>5, <2>2 DEF GroupInv
  <2>3. CASE m = d
    BY <2>3
  <2>4. CASE d = cursor /\ m < d
    <3>1. ~Starts(d) /\ ~Unused(r, d)
      BY <1>5, <2>1, <2>4 DEF NoStart, Unused
    <3>2. PICK e \in Uses(r) : LastUse(r, e, d)
      BY <2>1, <3>1, LastUseExists
    <3>3. Continues(e, d) /\ e < d /\ e \in Nat /\ m <= e
      BY <1>1, <1>3, <2>4, <3>1, <3>2, TurnTypes DEF LastUse
    <3>4. dependencies[e].layout = dependencies[d].layout
      BY <1>5, <3>3 DEF Continues, Uses
    <3>5. NoStart(r, m, e)
      BY <1>5, <2>1, <3>3, NoStartShorter
    <3>6. QED
      BY <1>1, <1>5, <2>4, <3>3, <3>4, <3>5 DEF GroupInv
  <2>5. QED
    BY <1>1, <1>5, <2>1, <2>2, <2>3, <2>4
<1>6. ASSUME NEW r \in 1..Len(resources), NEW d \in Uses(r), NEW e \in Uses(r), e < d, d < cursor + 1,
             NoStart(r, e, d)
      PROVE  ReadOnly(e) /\ ReadOnly(d)
  <2>1. d \in Nat /\ d \in Turns /\ e \in Nat /\ ResourceAt(d) = r
    BY <1>1, TurnTypes
  <2>2. CASE d < cursor
    BY <1>1, <1>6, <2>2 DEF GroupInv
  <2>3. CASE d = cursor
    <3>1. ~Starts(d) /\ ~Unused(r, d)
      BY <1>6, <2>1 DEF NoStart, Unused
    <3>2. PICK f \in Uses(r) : LastUse(r, f, d)
      BY <2>1, <3>1, LastUseExists
    <3>3. Continues(f, d) /\ f < d /\ f \in Nat /\ e <= f
      BY <1>1, <1>3, <1>6, <2>3, <3>1, <3>2, TurnTypes DEF LastUse
    <3>4. ReadOnly(f) /\ ReadOnly(d)
      BY <3>3 DEF Continues
    <3>5. CASE e < f
      <4>1. NoStart(r, e, f)
        BY <1>6, <2>1, <3>3, NoStartShorter
      <4>2. QED
        BY <1>1, <2>3, <3>3, <3>4, <3>5, <4>1 DEF GroupInv
    <3>6. QED
      BY <2>1, <3>3, <3>4, <3>5
  <2>4. QED
    BY <1>1, <1>6, <2>1, <2>2, <2>3
<1>7. QED
  BY <1>1, <1>2, <1>4, <1>5, <1>6 DEF GroupInv

LEMMA StateTaken ==
  ASSUME DataInv, NEW lead, NEW l, StateInv(lead), TurnTaken(lead, l)
  PROVE  StateInv(l)'
<1>1. /\ TurnSettled /\ PoolsGrow(lead, l) /\ TurnState
      /\ IF Starts(cursor) /\ IsTexture(ResourceAt(cursor)) THEN TurnBarrier(l) ELSE NoTurnBarrier
  BY DEF TurnTaken
<1>2. /\ cursor \in Turns /\ cursor \in Nat /\ Settled /\ Len(barriers) \in Nat /\ cursor' = cursor + 1
      /\ cursor - 1 \in Nat /\ cursor > 0 /\ Turns \subseteq Nat
      /\ Len(dependencies) \in Nat /\ Len(resources) \in Nat /\ Len(tasks) \in Nat
      /\ resources' = resources /\ dependencies' = dependencies
  BY <1>1, TurnBasics DEF Settled
<1>3. /\ \A m : /\ TaskAt(m)' = TaskAt(m) /\ ScopeAt(m)' = ScopeAt(m)
                /\ IsTexture(m)' = IsTexture(m) /\ Uses(m)' = Uses(m) /\ Starts(m)' = Starts(m)
                /\ ReadOnly(m)' = ReadOnly(m)
      /\ \A r, m : Unused(r, m)' = (\A e \in Uses(r) : ~(e < m'))
      /\ \A r, a, b : NoStart(r, a, b)' = NoStart(r, a, b)
  BY <1>2, SettledFacts DEF Unused
<1>4. PICK c \in Nat : c = cursor
  BY <1>2
<1> DEFINE StateIs(q, n, st, ld) ==
      /\ Unused(q, n) => st.scope = NoScope /\ st.layout = "Undefined"
      /\ \A e \in Uses(q) : LastUse(q, e, n) =>
           /\ st.scope.access # {}
           /\ IsReadOnly(st.scope.access) <=> ReadOnly(e)
           /\ IsTexture(q) => st.layout = dependencies[e].layout
      /\ \A d \in Uses(q) : d < n /\ NoStart(q, d, n - 1) => Within(ScopeAt(d), st.scope)
      /\ \A m \in Uses(q) : m < n /\ Starts(m) /\ NoStart(q, m, n - 1) =>
           /\ st.prev # 0
           /\ IF IsTexture(q) THEN ld[st.prev] = m ELSE st.prev = TaskAt(m)
<1>5. \A q \in 1..Len(resources) : StateIs(q, c, states[q], lead)
  BY <1>4 DEF StateInv
<1>6. /\ states \in [1..Len(resources) -> State]
      /\ \A q \in 1..Len(resources) : IsTexture(q) => states[q].prev \in 0..Len(barriers)
  BY <1>1 DEF DataInv, IndexInv, Describing, TurnSettled
(* A resource this turn is not about.                                      *)
<1>7. ASSUME NEW q \in 1..Len(resources), c \notin Uses(q), states'[q] = states[q]
      PROVE  StateIs(q, c + 1, states'[q], l)
  <2>1. \A e \in Uses(q) : e \in Nat /\ (e < c + 1 <=> e < c)
    <3> TAKE e \in Uses(q)
    <3>1. e \in Nat /\ e # c
      BY <1>2, <1>7, TurnTypes
    <3>2. QED
      BY <3>1
  <2>2. Unused(q, c + 1) <=> Unused(q, c)
    BY <2>1 DEF Unused
  <2>3. \A e \in Uses(q) : LastUse(q, e, c + 1) <=> LastUse(q, e, c)
    BY <2>1 DEF LastUse
  <2>4. \A d \in Uses(q) : NoStart(q, d, c) => NoStart(q, d, c - 1)
    <3> TAKE d \in Uses(q)
    <3>1. d \in Nat /\ c - 1 \in Nat /\ c - 1 <= c
      BY <1>2, <1>4, <2>1
    <3>2. QED
      BY <3>1, NoStartShorter
  <2>5. \A m \in Uses(q) : IsTexture(q) /\ states[q].prev # 0 => l[states[q].prev] = lead[states[q].prev]
    BY <1>1, <1>2, <1>6 DEF PoolsGrow
  <2>6. c + 1 - 1 = c
    OBVIOUS
  <2>7. StateIs(q, c, states[q], lead)
    BY <1>5
  <2>8. Unused(q, c + 1) => states'[q].scope = NoScope /\ states'[q].layout = "Undefined"
    BY <1>7, <2>2, <2>7
  <2>9. \A e \in Uses(q) : LastUse(q, e, c + 1) =>
          /\ states'[q].scope.access # {}
          /\ IsReadOnly(states'[q].scope.access) <=> ReadOnly(e)
          /\ IsTexture(q) => states'[q].layout = dependencies[e].layout
    BY <1>7, <2>3, <2>7
  <2>10. \A d \in Uses(q) : d < c + 1 /\ NoStart(q, d, c + 1 - 1) => Within(ScopeAt(d), states'[q].scope)
    BY <1>7, <2>1, <2>4, <2>6, <2>7
  <2>11. \A m \in Uses(q) : m < c + 1 /\ Starts(m) /\ NoStart(q, m, c + 1 - 1) =>
           /\ states'[q].prev # 0
           /\ IF IsTexture(q) THEN l[states'[q].prev] = m ELSE states'[q].prev = TaskAt(m)
    BY <1>7, <2>1, <2>4, <2>5, <2>6, <2>7
  <2>12. QED
    BY <2>8, <2>9, <2>10, <2>11
(* The resource this turn is about.                                        *)
<1>8. ASSUME NEW r, r = ResourceAt(c), c <= Len(dependencies)
      PROVE  StateIs(r, c + 1, states'[r], l)
  <2>1. /\ r \in 1..Len(resources) /\ c \in Uses(r) /\ c \in Turns /\ dependencies[c] \in Dependency
        /\ c \in 1..Len(dependencies) /\ LayoutAt(c) = dependencies[c].layout
        /\ TaskAt(c) \in 1..Len(tasks)
    BY <1>2, <1>4, <1>8, TurnTypes
  <2>2. ScopeAt(c) = dependencies[c].scope /\ ScopeAt(c) \in Scope /\ ScopeAt(c).access # {}
    BY <1>8, <2>1 DEF ScopeAt, Dependency, DataInv, DependenciesInv
  <2>3. states[r].scope \in Scope
    BY <1>6, <2>1 DEF State
  <2>4. /\ states'[r].scope = IF Starts(c) \/ Unused(r, c) THEN ScopeAt(c)
                              ELSE Join(states[r].scope, ScopeAt(c))
        /\ IsTexture(r) => states'[r].layout = LayoutAt(c)
        /\ Starts(c) => states'[r].prev = IF IsTexture(r) THEN Len(barriers) + 1 ELSE TaskAt(c)
        /\ ~Starts(c) /\ ~Unused(r, c) => states'[r].prev = states[r].prev
    BY <1>1, <1>4, <1>8 DEF TurnState
  <2>5. StateIs(r, c, states[r], lead)
    BY <1>5, <2>1
  <2>6. ASSUME ~Starts(c), ~Unused(r, c)
        PROVE  IsReadOnly(states[r].scope.access) /\ ReadOnly(c)
    <3>1. PICK e \in Uses(r) : LastUse(r, e, c)
      BY <2>6, LastUseExists
    <3>2. Continues(e, c)
      BY <1>8, <2>6, <3>1 DEF Starts
    <3>3. ReadOnly(e) /\ ReadOnly(c)
      BY <3>2 DEF Continues
    <3>4. QED
      BY <2>5, <3>1, <3>3
  <2>7. \A d \in Uses(r) : d \in Nat /\ (d < c + 1 => d = c \/ d < c) /\ d \in Turns
    <3> TAKE d \in Uses(r)
    <3>1. d \in Nat /\ d \in Turns
      BY <1>2, TurnTypes
    <3>2. QED
      BY <3>1
  <2>8. \A d \in Uses(r) : d < c /\ NoStart(r, d, c) =>
          ~Starts(c) /\ ~Unused(r, c) /\ NoStart(r, d, c - 1)
    <3> TAKE d \in Uses(r)
    <3> HAVE d < c /\ NoStart(r, d, c)
    <3>1. ~Starts(c)
      BY <1>8, <2>1 DEF NoStart
    <3>2. d \in Nat /\ c - 1 \in Nat /\ c - 1 <= c
      BY <1>2, <1>4, <2>7
    <3>3. NoStart(r, d, c - 1)
      BY <3>2, NoStartShorter
    <3>4. QED
      BY <3>1, <3>3 DEF Unused
  <2>9. ~Unused(r, c + 1)
    <3>1. c < c + 1
      OBVIOUS
    <3>2. QED
      BY <2>1, <3>1 DEF Unused
  <2>10. ASSUME NEW e \in Uses(r), LastUse(r, e, c + 1)
         PROVE  /\ states'[r].scope.access # {}
                /\ IsReadOnly(states'[r].scope.access) <=> ReadOnly(e)
                /\ IsTexture(r) => states'[r].layout = dependencies[e].layout
    <3>1. e = c
      <4>1. c < c + 1 /\ e \in Nat
        BY <2>7
      <4>2. c <= e /\ e < c + 1
        BY <2>1, <2>10, <4>1 DEF LastUse
      <4>3. QED
        BY <4>1, <4>2
    <3>2. IsTexture(r) => states'[r].layout = dependencies[e].layout
      BY <2>1, <2>4, <3>1
    <3>3. CASE Starts(c) \/ Unused(r, c)
      <4>1. states'[r].scope = dependencies[e].scope
        BY <2>2, <2>4, <3>1, <3>3
      <4>2. QED
        BY <2>2, <3>1, <3>2, <4>1 DEF ReadOnly
    <3>4. CASE ~Starts(c) /\ ~Unused(r, c)
      <4>1. states'[r].scope = Join(states[r].scope, ScopeAt(c))
        BY <2>4, <3>4
      <4>2. states'[r].scope.access = states[r].scope.access \cup ScopeAt(c).access
        BY <2>2, <2>3, <4>1, Scopes
      <4>3. IsReadOnly(states[r].scope.access) /\ IsReadOnly(ScopeAt(c).access) /\ ReadOnly(e)
        BY <2>2, <2>6, <3>1, <3>4 DEF ReadOnly
      <4>4. IsReadOnly(states'[r].scope.access) /\ states'[r].scope.access # {}
        BY <2>2, <4>2, <4>3 DEF IsReadOnly
      <4>5. QED
        BY <3>2, <4>3, <4>4
    <3>5. QED
      BY <3>3, <3>4
  <2>11. ASSUME NEW d \in Uses(r), d < c + 1, NoStart(r, d, c)
         PROVE  Within(ScopeAt(d), states'[r].scope)
    <3>1. CASE d = c
      BY <2>2, <2>3, <2>4, <3>1, WithinJoin
    <3>2. CASE d < c
      <4>1. ~Starts(c) /\ ~Unused(r, c) /\ NoStart(r, d, c - 1)
        BY <2>8, <2>11, <3>2
      <4>2. Within(ScopeAt(d), states[r].scope)
        BY <2>5, <3>2, <4>1
      <4>3. states'[r].scope = Join(states[r].scope, ScopeAt(c))
        BY <2>4, <4>1
      <4>4. QED
        BY <2>2, <2>3, <4>2, <4>3, WithinJoin
    <3>3. QED
      BY <2>7, <2>11, <3>1, <3>2
  <2>12. ASSUME NEW m \in Uses(r), m < c + 1, Starts(m), NoStart(r, m, c)
         PROVE  /\ states'[r].prev # 0
                /\ IF IsTexture(r) THEN l[states'[r].prev] = m ELSE states'[r].prev = TaskAt(m)
    <3>1. CASE m = c
      <4>1. IsTexture(r) => l[Len(barriers) + 1] = c
        BY <1>1, <1>4, <1>8, <2>12, <3>1 DEF TurnBarrier
      <4>2. Len(barriers) + 1 # 0 /\ TaskAt(c) # 0
        BY <1>2, <2>1
      <4>3. QED
        BY <2>4, <2>12, <3>1, <4>1, <4>2
    <3>2. CASE m < c
      <4>1. ~Starts(c) /\ ~Unused(r, c) /\ NoStart(r, m, c - 1)
        BY <2>8, <2>12, <3>2
      <4>2. states'[r].prev = states[r].prev
        BY <2>4, <4>1
      <4>3. /\ states[r].prev # 0
            /\ IF IsTexture(r) THEN lead[states[r].prev] = m ELSE states[r].prev = TaskAt(m)
        BY <2>5, <2>12, <3>2, <4>1
      <4>4. IsTexture(r) => l[states[r].prev] = lead[states[r].prev]
        BY <1>1, <1>2, <1>6, <2>1, <4>3 DEF PoolsGrow
      <4>5. QED
        BY <4>2, <4>3, <4>4
    <3>3. QED
      BY <2>7, <2>12, <3>1, <3>2
  <2>13. c + 1 - 1 = c
    OBVIOUS
  <2>14. QED
    BY <2>9, <2>10, <2>11, <2>12, <2>13
<1>9. ASSUME NEW q \in 1..Len(resources) PROVE StateIs(q, c + 1, states'[q], l)
  <2>1. CASE c <= Len(dependencies) /\ q = ResourceAt(c)
    BY <1>8, <2>1
  <2>2. CASE ~(c <= Len(dependencies) /\ q = ResourceAt(c))
    <3>1. c \notin Uses(q)
      <4>1. ASSUME c \in Uses(q) PROVE FALSE
        <5>1. c \in 1..Len(dependencies) /\ ResourceAt(c) = q
          BY <4>1, TurnTypes
        <5>2. QED
          BY <1>2, <2>2, <5>1
      <4>2. QED
        BY <4>1
    <3>2. states'[q] = states[q]
      BY <1>1, <1>2, <1>4, <2>2 DEF TurnState
    <3>3. QED
      BY <1>7, <3>1, <3>2
  <2>3. QED
    BY <2>1, <2>2
<1>10. cursor' = c + 1
  BY <1>2, <1>4
<1> USE DEF Unused, LastUse
<1>11. QED
  BY <1>2, <1>3, <1>9, <1>10 DEF StateInv

-----------------------------------------------------------------------------
(* Whether the planner starts a barrier is what Starts says of the turn.   *)
LEMMA StartsIs ==
  ASSUME DataInv, NEW lead, StateInv(lead), NEW isTexture \in BOOLEAN, Plan(isTexture)
  PROVE  /\ ResourceAt(cursor) = Dep.resource /\ TaskAt(cursor) = Dep.task
         /\ ScopeAt(cursor) = Dep.scope /\ LayoutAt(cursor) = Dep.layout
         /\ IsFirstAccess <=> Unused(Dep.resource, cursor)
         /\ IsFirstAccess =>
              (Starts(cursor) <=>
                 IsTexture(Dep.resource) /\ ~(/\ resources[Dep.resource].isImported
                                             /\ resources[Dep.resource].pre = Dep.layout))
         /\ ~IsFirstAccess =>
              (Starts(cursor) <=>
                 ~(ExtendsReads /\ (IsTexture(Dep.resource) => Prior.layout = Dep.layout)))
<1> DEFINE r == Dep.resource
<1>1. /\ pc = "planning" /\ cursor \in 1..Len(dependencies) /\ r \in 1..Len(resources)
      /\ Dep = dependencies[cursor]
  BY PlanFacts DEF Dep
<1>2. Len(dependencies) \in Nat /\ Len(resources) \in Nat
  BY TurnTypes
<1>3. cursor \in Nat /\ cursor <= Len(dependencies) /\ cursor \in Turns
  BY <1>1, <1>2 DEF Turns
<1>4. /\ ResourceAt(cursor) = r /\ TaskAt(cursor) = Dep.task
      /\ ScopeAt(cursor) = Dep.scope /\ LayoutAt(cursor) = Dep.layout
  BY <1>1, <1>3 DEF ResourceAt, TaskAt, ScopeAt, LayoutAt
<1>5. cursor \in Uses(r)
  BY <1>1 DEF Uses
<1>6. /\ Unused(r, cursor) => states[r].scope = NoScope
      /\ \A e \in Uses(r) : LastUse(r, e, cursor) =>
           /\ states[r].scope.access # {}
           /\ IsReadOnly(states[r].scope.access) <=> ReadOnly(e)
           /\ IsTexture(r) => states[r].layout = dependencies[e].layout
  BY <1>1 DEF StateInv
<1>7. ~Unused(r, cursor) => \E e \in Uses(r) : LastUse(r, e, cursor)
  BY <1>3, LastUseExists
<1>8. IsFirstAccess <=> Unused(r, cursor)
  BY <1>6, <1>7, Scopes DEF IsFirstAccess, Prior
<1>9. \A e \in Uses(r) : LastUse(r, e, cursor) => ~Unused(r, cursor)
  BY DEF LastUse, Unused
<1>10. ASSUME IsFirstAccess
       PROVE  Starts(cursor) <=> IsTexture(r) /\ ~(/\ resources[r].isImported
                                                  /\ resources[r].pre = Dep.layout)
  BY <1>1, <1>2, <1>3, <1>4, <1>8, <1>9, <1>10 DEF Starts
<1>11. ASSUME ~IsFirstAccess
       PROVE  Starts(cursor) <=> ~(ExtendsReads /\ (IsTexture(r) => Prior.layout = Dep.layout))
  <2>1. PICK e \in Uses(r) : LastUse(r, e, cursor)
    BY <1>7, <1>8, <1>11
  <2>2. \A f \in Uses(r) : LastUse(r, f, cursor) => f = e
    <3> TAKE f \in Uses(r)
    <3> HAVE LastUse(r, f, cursor)
    <3>1. e <= f /\ f <= e /\ e \in Nat /\ f \in Nat
      BY <2>1, TurnTypes DEF LastUse
    <3>2. QED
      BY <3>1
  <2>3. Starts(cursor) <=> ~Continues(e, cursor)
    <3>1. ~Unused(r, cursor) /\ ~(cursor > Len(dependencies))
      BY <1>2, <1>3, <1>8, <1>11
    <3>2. QED
      BY <1>3, <1>4, <2>1, <2>2, <3>1 DEF Starts
  <2>4. /\ IsReadOnly(Prior.scope.access) <=> ReadOnly(e)
        /\ IsTexture(r) => Prior.layout = dependencies[e].layout
    BY <1>6, <2>1 DEF Prior
  <2>5. ReadOnly(cursor) <=> IsReadOnly(Dep.scope.access)
    BY <1>1 DEF ReadOnly
  <2>6. ExtendsReads <=> ReadOnly(e) /\ ReadOnly(cursor)
    BY <1>11, <2>4, <2>5 DEF ExtendsReads
  <2>7. Continues(e, cursor) <=> /\ ReadOnly(e) /\ ReadOnly(cursor)
                                 /\ IsTexture(r) => dependencies[e].layout = Dep.layout
    BY <1>1 DEF Continues
  <2>8. QED
    BY <2>3, <2>4, <2>6, <2>7
<1>12. QED
  BY <1>4, <1>8, <1>10, <1>11

LEMMA PoolsAppended ==
  ASSUME NEW lead, NEW l, Len(barriers) \in Nat, Len(barriers') = Len(barriers) + 1,
         Len(l) = Len(barriers'), \A j \in 1..Len(barriers) : l[j] = lead[j],
         \A j \in 1..Len(barriers) : barriers'[j] = barriers[j],
         \A t \in 1..Len(tasks) : /\ tasks'[t].before = tasks[t].before
                                  /\ tasks'[t].after = tasks[t].after
  PROVE  PoolsGrow(lead, l)
<1>1. Len(barriers) <= Len(barriers')
  OBVIOUS
<1>2. ASSUME NEW i \in 1..Len(barriers)
      PROVE  /\ l[i] = lead[i] /\ barriers'[i] = barriers[i]
             /\ Within(barriers[i].after, barriers'[i].after)
  BY WithinJoin
<1>3. ASSUME NEW t \in 1..Len(tasks)
      PROVE  /\ Within(tasks[t].before, tasks'[t].before)
             /\ Within(tasks[t].after, tasks'[t].after)
  BY WithinJoin
<1>4. QED
  BY <1>1, <1>2, <1>3 DEF PoolsGrow

LEMMA DependencyTurn ==
  ASSUME DataInv, NEW lead \in Seq(Nat), OrderInv(lead), StateInv(lead),
         \/ PlanFirstBufferAccess \/ PlanBufferRead \/ PlanBufferBarrier
         \/ PlanFirstTextureAccess \/ PlanTextureRead \/ PlanTextureBarrier
  PROVE  \E l \in Seq(Nat) : TurnTaken(lead, l)
<1>1. PICK isTexture \in BOOLEAN :
        /\ Plan(isTexture)
        /\ \/ UnorderedAccess
           \/ ~isTexture /\ (ExtendedBuffer \/ OrderedBuffer)
           \/ isTexture /\ (ExtendedTexture \/ OrderedTexture)
  BY PlanBufferCases, PlanTextureCases
<1> DEFINE r == Dep.resource
<1>2. /\ pc = "planning" /\ cursor \in 1..Len(dependencies) /\ cursor' = cursor + 1
      /\ (IsTexture(r) <=> isTexture)
      /\ UNCHANGED <<pc, resources, dependencies, postHead>>
      /\ Dep \in Dependency /\ r \in 1..Len(resources) /\ Dep.task \in 1..Len(tasks)
      /\ states \in [1..Len(resources) -> State] /\ Prior \in State
  BY <1>1, PlanFacts
<1>3. /\ PoolTypes /\ Len(tasks) \in Nat /\ Len(barriers) \in Nat /\ Len(dependencies) \in Nat
      /\ Len(resources) \in Nat
  BY EntryTypes DEF DataInv
<1>4. /\ cursor \in Nat /\ cursor <= Len(dependencies) /\ ~(cursor > Len(dependencies))
      /\ cursor \in Turns
  BY <1>2, <1>3 DEF Turns
<1>5. /\ ResourceAt(cursor) = r /\ TaskAt(cursor) = Dep.task
      /\ ScopeAt(cursor) = Dep.scope /\ LayoutAt(cursor) = Dep.layout
      /\ IsFirstAccess <=> Unused(r, cursor)
      /\ IsFirstAccess =>
           (Starts(cursor) <=>
              IsTexture(r) /\ ~(resources[r].isImported /\ resources[r].pre = Dep.layout))
      /\ ~IsFirstAccess =>
           (Starts(cursor) <=> ~(ExtendsReads /\ (IsTexture(r) => Prior.layout = Dep.layout)))
  BY <1>1, StartsIs
<1>6. Prior = states[r] /\ Dep.scope \in Scope /\ Prior.scope \in Scope
  BY <1>2 DEF Prior, Dependency, State
<1>7. ASSUME NEW s, StateBecomes(s)
      PROVE  \A q \in 1..Len(resources) :
               q # ResourceAt(cursor) \/ cursor > Len(dependencies) => states'[q] = states[q]
  BY <1>4, <1>5, <1>7 DEF StateBecomes
<1>8. Len(lead) = Len(barriers)
  BY DEF OrderInv
<1>9. \A t \in 1..Len(tasks) : Within(tasks[t].before, tasks[t].before) /\ Within(tasks[t].after, tasks[t].after)
  BY WithinJoin
(* A turn that adds no barrier.                                            *)
<1>10. ASSUME TasksKept, BarriersKept, ~(Starts(cursor) /\ IsTexture(r)),
              \A i \in 1..Len(barriers) : Within(barriers[i].after, barriers'[i].after),
              \A t \in 1..Len(tasks) : /\ Within(tasks[t].before, tasks'[t].before)
                                       /\ Within(tasks[t].after, tasks'[t].after),
              TurnAccess, TurnState
       PROVE  TurnTaken(lead, lead)
  <2>1. Len(tasks') = Len(tasks) /\ Len(barriers') = Len(barriers)
    BY <1>10 DEF TasksKept, BarriersKept
  <2>2. TurnSettled
    BY <1>2, <1>4, <2>1 DEF TurnSettled, Settled
  <2>3. PoolsGrow(lead, lead)
    BY <1>3, <1>4, <1>8, <1>10, <2>1 DEF PoolsGrow, BarriersKept
  <2>4. \A t \in 1..(Len(tasks) + 1) : t <= Len(tasks) => t \in 1..Len(tasks)
    BY <1>3
  <2>5. NoTurnBarrier
    BY <1>2, <1>10, <2>1, <2>4 DEF NoTurnBarrier, ChainOf, TasksKept
  <2>6. QED
    BY <1>5, <1>10, <2>2, <2>3, <2>5 DEF TurnTaken
<1>11. CASE UnorderedAccess
  <2>1. TasksKept /\ BarriersKept /\ tasks' = tasks /\ barriers' = barriers /\ StateBecomes(NewState(0))
    BY <1>3, <1>11, UnchangedKept DEF UnorderedAccess
  <2>2. Unused(r, cursor) /\ ~Starts(cursor)
    BY <1>5, <1>11 DEF UnorderedAccess
  <2>3. NewState(0).scope = Dep.scope /\ NewState(0).layout = Dep.layout
    BY <1>2, StateTypes
  <2>4. TurnState
    BY <1>5, <1>7, <2>1, <2>2, <2>3 DEF TurnState, StateBecomes
  <2>5. TurnAccess
    BY <1>5, <2>2 DEF TurnAccess
  <2>6. QED
    BY <1>9, <1>10, <2>1, <2>2, <2>4, <2>5, WithinJoin
<1>12. CASE ~isTexture /\ ExtendedBuffer
  <2>1. /\ TasksKept /\ BarriersKept /\ barriers' = barriers /\ StateBecomes(ExtendedState)
        /\ \A t \in 1..Len(tasks) :
             /\ tasks'[t].before = tasks[t].before
             /\ tasks'[t].after = IF t = Prior.prev THEN Join(tasks[t].after, Dep.scope)
                                  ELSE tasks[t].after
    BY <1>3, <1>12 DEF ExtendedBuffer, BarriersKept, PoolTypes
  <2>2. ~Unused(r, cursor) /\ ~Starts(cursor) /\ ~IsTexture(r)
    BY <1>2, <1>5, <1>12 DEF ExtendedBuffer, ExtendsReads
  <2>3. ExtendedState.scope = Join(Prior.scope, Dep.scope) /\ ExtendedState.prev = Prior.prev
    BY <1>2, StateTypes
  <2>4. TurnState
    BY <1>5, <1>6, <1>7, <2>1, <2>2, <2>3 DEF TurnState, StateBecomes
  <2>5. \A t \in 1..Len(tasks) : tasks[t].after \in Scope
    BY <1>3, EntryTypes DEF Task
  <2>6. Prior.prev \in 0..Len(tasks)
    BY <1>2, <1>6, <2>2 DEF DataInv, IndexInv, Describing
  <2>7. TurnAccess
    BY <1>3, <1>5, <1>6, <2>1, <2>2, <2>5, <2>6, WithinJoin, SMTT(30) DEF TurnAccess
  <2>8. QED
    BY <1>6, <1>9, <1>10, <2>1, <2>2, <2>4, <2>5, <2>7, WithinJoin
<1>13. CASE ~isTexture /\ OrderedBuffer
  <2>1. /\ TasksKept /\ BarriersKept /\ barriers' = barriers /\ StateBecomes(NewState(Dep.task))
        /\ \A t \in 1..Len(tasks) :
             /\ tasks'[t].before = IF t = Dep.task THEN Join(tasks[t].before, Prior.scope)
                                   ELSE tasks[t].before
             /\ tasks'[t].after = IF t = Dep.task THEN Join(tasks[t].after, Dep.scope)
                                  ELSE tasks[t].after
    BY <1>3, <1>13 DEF OrderedBuffer, BarriersKept, PoolTypes
  <2>2. ~Unused(r, cursor) /\ Starts(cursor) /\ ~IsTexture(r)
    BY <1>2, <1>5, <1>13 DEF OrderedBuffer
  <2>3. NewState(Dep.task).scope = Dep.scope /\ NewState(Dep.task).prev = Dep.task
    BY <1>2, StateTypes DEF Dependency
  <2>4. TurnState
    BY <1>5, <1>6, <1>7, <2>1, <2>2, <2>3 DEF TurnState, StateBecomes
  <2>5. \A t \in 1..Len(tasks) : tasks[t].before \in Scope /\ tasks[t].after \in Scope
    BY <1>3, EntryTypes DEF Task
  <2>6. TurnAccess
    BY <1>2, <1>5, <1>6, <2>1, <2>2, <2>5, WithinJoin, SMTT(30) DEF TurnAccess
  <2>7. QED
    BY <1>6, <1>9, <1>10, <2>1, <2>2, <2>4, <2>5, <2>6, WithinJoin
<1>14. CASE isTexture /\ ExtendedTexture
  <2>1. /\ TasksKept /\ BarriersKept /\ tasks' = tasks /\ StateBecomes(ExtendedState)
        /\ \A i \in 1..Len(barriers) :
             barriers'[i].after = IF i = Prior.prev THEN Join(barriers[i].after, Dep.scope)
                                  ELSE barriers[i].after
    BY <1>3, <1>14 DEF ExtendedTexture, TasksKept, PoolTypes
  <2>2. ~Unused(r, cursor) /\ ~Starts(cursor) /\ IsTexture(r) /\ Prior.layout = Dep.layout
    BY <1>2, <1>5, <1>14 DEF ExtendedTexture, ContinuesReads, ExtendsReads
  <2>3. /\ ExtendedState.scope = Join(Prior.scope, Dep.scope) /\ ExtendedState.prev = Prior.prev
        /\ ExtendedState.layout = Prior.layout
    BY <1>2, StateTypes
  <2>4. TurnState
    BY <1>5, <1>6, <1>7, <2>1, <2>2, <2>3 DEF TurnState, StateBecomes
  <2>5. \A i \in 1..Len(barriers) : barriers[i].after \in Scope
    BY <1>3, EntryTypes DEF Barrier
  <2>6. Prior.prev \in 0..Len(barriers)
    BY <1>2, <1>6, <2>2 DEF DataInv, IndexInv, Describing
  <2>7. TurnAccess
    BY <1>3, <1>5, <1>6, <2>1, <2>2, <2>5, <2>6, WithinJoin, SMTT(30) DEF TurnAccess
  <2>8. QED
    BY <1>6, <1>9, <1>10, <2>1, <2>2, <2>4, <2>5, <2>7, WithinJoin
<1>15. CASE isTexture /\ OrderedTexture
  <2>1. PICK c \in Nat : c = cursor
    BY <1>4
  <2> DEFINE i == Len(barriers) + 1
             l == Append(lead, c)
  <2>2. PICK layoutBefore :
          /\ BarrierAdded(layoutBefore) /\ Starts(cursor) /\ IsTexture(r)
          /\ layoutBefore = IF Unused(r, cursor) THEN resources[r].pre ELSE Prior.layout
    BY <1>2, <1>5, <1>15 DEF OrderedTexture, ContinuesReads
  <2>3. /\ l \in Seq(Nat) /\ Len(l) = i /\ l[i] = c
        /\ \A j \in 1..Len(barriers) : l[j] = lead[j]
    BY <1>8, AppendProperties
  <2> HIDE DEF l
  <2>4. /\ Len(barriers') = i /\ \A j \in 1..Len(barriers) : barriers'[j] = barriers[j]
        /\ barriers'[i].resource = Dep.resource /\ barriers'[i].before = Prior.scope
        /\ barriers'[i].after = Dep.scope /\ barriers'[i].layoutBefore = layoutBefore
        /\ barriers'[i].layoutAfter = Dep.layout /\ barriers'[i].next = tasks[Dep.task].chainHead
        /\ Len(tasks') = Len(tasks)
        /\ \A t \in 1..Len(tasks) :
             /\ tasks'[t].chainHead = IF t = Dep.task THEN i ELSE tasks[t].chainHead
             /\ tasks'[t].before = tasks[t].before /\ tasks'[t].after = tasks[t].after
        /\ StateBecomes(NewState(i))
    BY <2>2 DEF BarrierAdded
  <2>5. TurnSettled
    BY <1>2, <1>4, <2>4 DEF TurnSettled, Settled
  <2>6. PoolsGrow(lead, l)
    <3>1. /\ Len(barriers) \in Nat /\ Len(barriers') = Len(barriers) + 1
          /\ Len(l) = Len(barriers') /\ \A j \in 1..Len(barriers) : l[j] = lead[j]
          /\ \A j \in 1..Len(barriers) : barriers'[j] = barriers[j]
      BY <1>3, <2>3, <2>4
    <3>2. \A t \in 1..Len(tasks) : /\ tasks'[t].before = tasks[t].before
                                   /\ tasks'[t].after = tasks[t].after
      BY <2>4
    <3>3. QED
      BY ONLY <3>1, <3>2, PoolsAppended
  <2>7. \A t \in 1..(Len(tasks) + 1) : ChainOf(t)' = IF t = Dep.task THEN i ELSE ChainOf(t)
    <3> TAKE t \in 1..(Len(tasks) + 1)
    <3>1. CASE t \in 1..Len(tasks)
      BY <1>3, <2>4, <3>1 DEF ChainOf
    <3>2. CASE t = Len(tasks) + 1
      <4>1. ~(t <= Len(tasks)) /\ t # Dep.task
        BY <1>2, <1>3, <3>2
      <4>2. QED
        BY <1>2, <2>4, <4>1 DEF ChainOf
    <3>3. QED
      BY <1>3, <3>1, <3>2
  <2>8. ChainOf(Dep.task) = tasks[Dep.task].chainHead
    BY <1>2, <1>3 DEF ChainOf
  <2>9. TurnBarrier(l)
    BY <1>4, <1>5, <1>6, <2>1, <2>2, <2>3, <2>4, <2>7, <2>8 DEF TurnBarrier
  <2>10. /\ NewState(i).scope = Dep.scope /\ NewState(i).layout = Dep.layout
         /\ NewState(i).prev = i
    BY <1>2, <1>3, StateTypes
  <2>11. TurnState
    BY <1>5, <1>7, <2>2, <2>4, <2>10 DEF TurnState, StateBecomes
  <2>12. TurnAccess
    BY <1>5, <2>2 DEF TurnAccess
  <2>13. TurnTaken(lead, l)
    BY <1>5, <2>2, <2>5, <2>6, <2>9, <2>11, <2>12 DEF TurnTaken
  <2>14. QED
    BY <2>3, <2>13
<1>16. QED
  BY <1>1, <1>11, <1>12, <1>13, <1>14, <1>15

LEMMA ReturnTurn ==
  ASSUME DataInv, NEW lead \in Seq(Nat), OrderInv(lead), StateInv(lead), ImportInv, PlanReturn
  PROVE  \E l \in Seq(Nat) : TurnTaken(lead, l)
<1>1. PICK r : r = cursor - Len(dependencies)
  OBVIOUS
<1>2. /\ pc = "planning" /\ r \in 1..Len(resources) /\ cursor = Len(dependencies) + r
      /\ cursor' = cursor + 1
      /\ UNCHANGED <<pc, resources, tasks, dependencies, states>>
      /\ states \in [1..Len(resources) -> State]
      /\ IF NeedsReturn(r) THEN ReturnAdded(r) ELSE UNCHANGED <<barriers, postHead>>
  BY <1>1, ReturnFacts
<1>3. /\ Len(tasks) \in Nat /\ Len(barriers) \in Nat /\ Len(dependencies) \in Nat
      /\ Len(resources) \in Nat
  BY TurnTypes
<1>4. /\ cursor \in Nat /\ ~(cursor <= Len(dependencies)) /\ cursor > Len(dependencies)
      /\ cursor \in Turns
  BY <1>2, <1>3 DEF Turns
<1>5. /\ ResourceAt(cursor) = r /\ TaskAt(cursor) = Len(tasks) + 1 /\ ScopeAt(cursor) = NoScope
      /\ LayoutAt(cursor) = resources[r].post
  BY <1>1, <1>4 DEF ResourceAt, TaskAt, ScopeAt, LayoutAt
<1>6. Starts(cursor) <=> NeedsReturn(r)
  <2>1. Starts(cursor) <=> /\ IsTexture(r) /\ resources[r].isImported
                           /\ \A e \in Uses(r) : LastUse(r, e, cursor) =>
                                dependencies[e].layout # resources[r].post
    BY <1>4, <1>5 DEF Starts
  <2>2. CASE Unused(r, cursor)
    <3>1. states[r].layout = "Undefined"
      BY <1>2, <2>2 DEF StateInv
    <3>2. \A e \in Uses(r) : ~LastUse(r, e, cursor)
      BY <2>2 DEF Unused, LastUse
    <3>3. IsTexture(r) /\ resources[r].isImported => resources[r].post # "Undefined"
      BY <1>2 DEF ImportInv
    <3>4. QED
      BY <2>1, <3>1, <3>2, <3>3 DEF NeedsReturn
  <2>3. CASE ~Unused(r, cursor)
    <3>1. PICK e \in Uses(r) : LastUse(r, e, cursor)
      BY <1>4, <2>3, LastUseExists
    <3>2. \A f \in Uses(r) : LastUse(r, f, cursor) => f = e
      <4> TAKE f \in Uses(r)
      <4> HAVE LastUse(r, f, cursor)
      <4>1. e <= f /\ f <= e /\ e \in Nat /\ f \in Nat
        BY <3>1, TurnTypes DEF LastUse
      <4>2. QED
        BY <4>1
    <3>3. IsTexture(r) => states[r].layout = dependencies[e].layout
      BY <1>2, <3>1 DEF StateInv
    <3>4. QED
      BY <2>1, <3>1, <3>2, <3>3 DEF NeedsReturn
  <2>4. QED
    BY <2>2, <2>3
<1>7. NeedsReturn(r) => IsTexture(r)
  BY DEF NeedsReturn
<1>8. TurnSettled
  BY <1>2, <1>4 DEF TurnSettled, Settled
<1>9. TurnState
  BY <1>2, <1>4 DEF TurnState
<1>10. TurnAccess
  BY <1>4, <1>5, <1>6, <1>7 DEF TurnAccess
<1>11. Len(lead) = Len(barriers)
  BY DEF OrderInv
<1>12. CASE NeedsReturn(r)
  <2>1. PICK c \in Nat : c = cursor
    BY <1>4
  <2> DEFINE i == Len(barriers) + 1
             l == Append(lead, c)
  <2>2. /\ Len(barriers') = i /\ \A j \in 1..Len(barriers) : barriers'[j] = barriers[j]
        /\ barriers'[i].resource = r /\ barriers'[i].before = states[r].scope
        /\ barriers'[i].after = NoScope /\ barriers'[i].layoutBefore = states[r].layout
        /\ barriers'[i].layoutAfter = resources[r].post /\ barriers'[i].next = postHead
        /\ postHead' = i
    BY <1>2, <1>12 DEF ReturnAdded
  <2>3. /\ l \in Seq(Nat) /\ Len(l) = i /\ l[i] = c
        /\ \A j \in 1..Len(barriers) : l[j] = lead[j]
    BY <1>11, AppendProperties
  <2> HIDE DEF l
  <2>4. PoolsGrow(lead, l)
    BY <1>2, <1>3, <2>2, <2>3, PoolsAppended
  <2>5. \A t \in 1..(Len(tasks) + 1) : ChainOf(t)' = IF t = Len(tasks) + 1 THEN i ELSE ChainOf(t)
    BY <1>2, <1>3, <2>2 DEF ChainOf
  <2>6. ChainOf(Len(tasks) + 1) = postHead
    BY <1>3 DEF ChainOf
  <2>7. TurnBarrier(l)
    BY <1>4, <1>5, <2>1, <2>2, <2>3, <2>5, <2>6 DEF TurnBarrier
  <2>8. TurnTaken(lead, l)
    BY <1>5, <1>6, <1>7, <1>8, <1>9, <1>10, <1>12, <2>4, <2>7 DEF TurnTaken
  <2>9. QED
    BY <2>3, <2>8
<1>13. CASE ~NeedsReturn(r)
  <2>1. UNCHANGED <<barriers, postHead>>
    BY <1>2, <1>13
  <2>2. PoolsGrow(lead, lead)
    BY <1>2, <1>3, <1>11, <2>1, WithinJoin DEF PoolsGrow
  <2>3. NoTurnBarrier
    BY <1>2, <2>1 DEF NoTurnBarrier, ChainOf
  <2>4. TurnTaken(lead, lead)
    BY <1>5, <1>6, <1>8, <1>9, <1>10, <1>13, <2>2, <2>3 DEF TurnTaken
  <2>5. QED
    BY <2>4
<1>14. QED
  BY <1>12, <1>13

LEMMA PlanInvTaken ==
  ASSUME DataInv, DataInv', NEW lead, PlanInv(lead), NEW l, TurnTaken(lead, l)
  PROVE  PlanInv(l)'
<1>1. /\ OrderInv(lead) /\ ChainInv(lead) /\ BarrierInv(lead) /\ AfterInv(lead)
      /\ BeforeInv(lead) /\ GroupInv /\ StateInv(lead) /\ TurnSettled
  BY DEF PlanInv, TurnTaken, TurnSettled
<1>2. OrderInv(l)' /\ ChainInv(l)' /\ BarrierInv(l)'
  BY <1>1, OrderTaken, ChainTaken, BarrierTaken
<1>3. AfterInv(l)' /\ BeforeInv(l)'
  BY <1>1, AfterTaken, BeforeTaken
<1>4. GroupInv' /\ StateInv(l)'
  BY <1>1, GroupTaken, StateTaken
<1>5. QED
  BY <1>2, <1>3, <1>4 DEF PlanInv

-----------------------------------------------------------------------------
(* Nothing of the plan changes while it is emitted.                        *)
PlanKept == UNCHANGED <<resources, tasks, dependencies, barriers, postHead>>

LEMMA PlanInvKept ==
  ASSUME NEW lead, PlanInv(lead), PlanKept, Horizon' = Horizon, pc' # "planning"
  PROVE  PlanInv(lead)'
<1>1. /\ resources' = resources /\ tasks' = tasks /\ dependencies' = dependencies
      /\ barriers' = barriers /\ postHead' = postHead /\ Settled
  BY DEF PlanKept, Settled
<1>2. /\ Turns' = Turns
      /\ \A m : /\ ResourceAt(m)' = ResourceAt(m) /\ TaskAt(m)' = TaskAt(m)
                /\ LayoutAt(m)' = LayoutAt(m) /\ ScopeAt(m)' = ScopeAt(m)
                /\ IsTexture(m)' = IsTexture(m) /\ Uses(m)' = Uses(m)
                /\ ReadOnly(m)' = ReadOnly(m) /\ Starts(m)' = Starts(m)
      /\ \A r, m : Unused(r, m)' = Unused(r, m)
      /\ \A r, e, m : LastUse(r, e, m)' = LastUse(r, e, m)
      /\ \A r, a, b : NoStart(r, a, b)' = NoStart(r, a, b)
  BY <1>1, SettledFacts
<1>3. OrderInv(lead)'
  BY <1>1, <1>2 DEF PlanInv, OrderInv
<1>4. ChainInv(lead)'
  BY <1>1, <1>2 DEF PlanInv, ChainInv, HeadIs, ChainOf
<1>5. BarrierInv(lead)'
  BY <1>1, <1>2 DEF PlanInv, BarrierInv
<1>6. AfterInv(lead)'
  BY <1>1, <1>2 DEF PlanInv, AfterInv, InAfter
<1>7. BeforeInv(lead)'
  BY <1>1, <1>2 DEF PlanInv, BeforeInv, InBefore
<1>8. GroupInv'
  BY <1>1, <1>2 DEF PlanInv, GroupInv
<1>9. QED
  BY <1>3, <1>4, <1>5, <1>6, <1>7, <1>8 DEF PlanInv

LEMMA BelowHorizon ==
  ASSUME DataInv, pc # "planning", NEW m \in Turns
  PROVE  m \in Nat /\ m < Horizon
<1>1. m \in 1..(Len(dependencies) + Len(resources)) /\ Len(dependencies) \in Nat /\ Len(resources) \in Nat
  BY TurnTypes DEF Turns
<1>2. Horizon = Len(dependencies) + Len(resources) + 1
  BY DEF Horizon
<1>3. QED
  BY ONLY <1>1, <1>2

(* Of two turns of a resource, the earlier is that of a dependency.        *)
LEMMA EarlierIsUse ==
  ASSUME DataInv, NEW k \in Turns, NEW m \in Turns, ResourceAt(k) = ResourceAt(m), k < m
  PROVE  k \in Uses(ResourceAt(m)) /\ TaskAt(k) < TaskAt(m)
<1>1. k \in Nat /\ m \in Nat /\ Len(dependencies) \in Nat
  BY TurnTypes
<1>2. k <= Len(dependencies)
  BY <1>1 DEF ResourceAt
<1>3. k \in Uses(ResourceAt(m))
  BY <1>2, TurnTypes
<1>4. QED
  BY <1>3, TurnOrder

(* The first scope of a barrier reaches every earlier access of its        *)
(* resource: one of the group before it by itself, an older one through    *)
(* what the barriers in between made it visible to.                        *)
LEMMA EarlierCovered ==
  ASSUME DataInv, NEW lead, BeforeInv(lead), pc # "planning",
         NEW m \in Turns, Starts(m), NEW r, r = ResourceAt(m),
         NEW access, NEW d \in Uses(r), d < m, access.token \in Tokens(ScopeAt(d)),
         \A k \in Turns : ResourceAt(k) = r /\ d < k /\ k < m /\ Starts(k) =>
            \A e \in Uses(r) : k <= e /\ NoStart(r, k, e) => Tokens(ScopeAt(e)) \subseteq access.visible,
         NEW before, \A e \in Uses(r) : InBefore(lead, e, m) => Within(ScopeAt(e), before)
  PROVE  Covers(before, access)
<1>1. /\ m \in Nat /\ d \in Nat /\ Len(dependencies) \in Nat /\ Len(resources) \in Nat
      /\ m < Horizon /\ m - 1 \in Nat
  BY TurnTypes DEF Turns, Horizon
<1>2. \A e \in Uses(r) : e < m /\ NoStart(r, e, m - 1) => Within(ScopeAt(e), before)
  BY <1>1 DEF BeforeInv
<1>3. \A s : Within(s, before) => Tokens(s) \subseteq Tokens(before)
  BY DEF Within, Tokens
<1>4. CASE NoStart(r, d, m - 1)
  <2>1. access.token \in Tokens(before)
    BY <1>2, <1>3, <1>4
  <2>2. QED
    BY <2>1 DEF Covers
<1>5. CASE ~NoStart(r, d, m - 1)
  <2>1. PICK k \in Turns : /\ ResourceAt(k) = r /\ d < k /\ k <= m - 1 /\ Starts(k)
                           /\ NoStart(r, k, m - 1)
    BY <1>1, <1>5, LastStartExists
  <2>2. k < m /\ k \in Nat /\ k <= k
    <3>1. k \in Nat
      BY TurnTypes
    <3>2. QED
      BY <1>1, <2>1, <3>1
  <2>3. k \in Uses(r)
    BY <2>1, <2>2, EarlierIsUse
  <2>4. NoStart(r, k, k)
    <3>1. \A j \in Turns : ~(k < j /\ j <= k)
      BY <2>2, TurnTypes
    <3>2. QED
      BY <3>1 DEF NoStart
  <2>5. Tokens(ScopeAt(k)) \subseteq access.visible
    BY <2>1, <2>2, <2>3, <2>4
  <2>6. Tokens(ScopeAt(k)) \subseteq Tokens(before)
    BY <1>2, <1>3, <2>1, <2>2, <2>3
  <2>7. Tokens(ScopeAt(k)) # {}
    <3>1. k \in 1..Len(dependencies)
      BY <2>3, TurnTypes
    <3>2. ScopeAt(k) = dependencies[k].scope
      BY <3>1 DEF ScopeAt
    <3>3. dependencies[k].scope.sync # {} /\ dependencies[k].scope.access # {}
      BY <3>1 DEF DataInv, DependenciesInv
    <3>4. PICK x \in ScopeAt(k).sync, y \in ScopeAt(k).access : TRUE
      BY <3>2, <3>3
    <3>5. <<x, y>> \in Tokens(ScopeAt(k))
      BY DEF Tokens
    <3>6. QED
      BY <3>5
  <2>8. QED
    BY <2>5, <2>6, <2>7 DEF Covers
<1>6. QED
  BY <1>4, <1>5

(* The commands between two barriers leave the invariant alone if no       *)
(* barrier counts as emitted on their account.                             *)
LEMMA LayoutInvKept ==
  ASSUME NEW lead, LayoutInv(lead), PlanKept, layoutOf' = layoutOf,
         \A m \in Turns : Starts(m) /\ IsTexture(ResourceAt(m)) => (Emitted(lead, m)' <=> Emitted(lead, m))
  PROVE  LayoutInv(lead)'
<1>1. Settled /\ resources' = resources
  BY DEF PlanKept, Settled
<1>2. /\ Turns' = Turns
      /\ \A m : /\ ResourceAt(m)' = ResourceAt(m) /\ LayoutAt(m)' = LayoutAt(m)
                /\ IsTexture(m)' = IsTexture(m) /\ Starts(m)' = Starts(m)
  BY <1>1, SettledFacts
<1>3. QED
  BY <1>1, <1>2 DEF LayoutInv

LEMMA StartTasksStep ==
  ASSUME DataInv, NEW lead, PlanInv(lead), StartTasks
  PROVE  PlanInv(lead)' /\ EmitInv(lead)'
<1>1. /\ pc = "planning" /\ pc' = "task barriers" /\ cursor' = 1
      /\ cursor > Len(dependencies) + Len(resources)
      /\ layoutOf' = [r \in 1..Len(resources) |-> resources[r].pre]
      /\ UNCHANGED <<resources, tasks, dependencies, barriers, postHead, states, chain, history>>
  BY DEF StartTasks, pools
<1>2. /\ Len(dependencies) \in Nat /\ Len(resources) \in Nat /\ Len(tasks) \in Nat
      /\ cursor \in 1..(Len(dependencies) + Len(resources) + 1) /\ chain = 0 /\ history = {}
  BY <1>1, TurnTypes DEF DataInv, PhaseInv
<1>3. PlanKept /\ Settled
  BY <1>1 DEF PlanKept, Settled
<1>4. Horizon' = Horizon
  <2>1. PICK c, n, k : c = cursor /\ n = Len(dependencies) /\ k = Len(resources)
    OBVIOUS
  <2>2. c > n + k /\ n \in Nat /\ k \in Nat /\ c \in 1..(n + k + 1)
    BY <1>1, <1>2, <2>1
  <2>3. c = n + k + 1
    BY ONLY <2>2
  <2>4. QED
    BY <1>1, <2>1, <2>3 DEF Horizon
<1>5. PlanInv(lead)'
  BY <1>1, <1>3, <1>4, PlanInvKept
<1>6. \A m \in Turns : ~Emitted(lead, m)'
  <2> TAKE m \in Turns
  <2>1. TaskAt(m) \in 1..(Len(tasks) + 1) /\ TaskAt(m)' = TaskAt(m)
    BY <1>3, SettledFacts, TurnTypes
  <2>2. PICK t : t = TaskAt(m)
    OBVIOUS
  <2>3. t \in 1..(Len(tasks) + 1) /\ TaskAt(m)' = t /\ cursor' = 1 /\ pc' = "task barriers"
    BY <1>1, <2>1, <2>2
  <2>4. ~(t < 1)
    <3>1. t \in 1..(Len(tasks) + 1) /\ Len(tasks) \in Nat
      BY <1>2, <2>3
    <3>2. QED
      BY ONLY <3>1
  <2>5. QED
    BY <2>3, <2>4 DEF Emitted
<1>7. LayoutInv(lead)'
  <2>1. Turns' = Turns /\ \A m : IsTexture(m)' = IsTexture(m)
    BY <1>3, SettledFacts
  <2>2. QED
    BY <1>1, <1>6, <2>1 DEF LayoutInv
<1>8. HistoryInv(lead)'
  BY <1>1, <1>2 DEF HistoryInv
<1>9. QED
  BY <1>1, <1>2, <1>5, <1>7, <1>8 DEF EmitInv

LEMMA EmitGlobalStep ==
  ASSUME DataInv, NEW lead, PlanInv(lead), EmitInv(lead), EmitGlobalBarrier
  PROVE  PlanInv(lead)' /\ EmitInv(lead)'
<1> DEFINE task == tasks[cursor]
<1>1. /\ pc = "task barriers" /\ pc' = "local barriers" /\ chain' = task.chainHead
      /\ history' = IF task.before.sync = {} \/ task.after.sync = {} THEN history
                    ELSE AfterBarrier(task.before, task.after, 1..Len(resources))
      /\ UNCHANGED <<resources, tasks, dependencies, barriers, postHead, states, cursor, layoutOf>>
  BY DEF EmitGlobalBarrier, pools, planning
<1>2. /\ cursor \in 1..Len(tasks) /\ chain = 0 /\ Len(tasks) \in Nat /\ Len(barriers) \in Nat
      /\ history \in SUBSET Access /\ Len(dependencies) \in Nat /\ task.after \in Scope
  BY <1>1, EntryTypes DEF DataInv, PhaseInv, PoolTypes, Task
<1>3. PlanKept /\ Settled
  BY <1>1 DEF PlanKept, Settled
<1>4. PlanInv(lead)'
  BY <1>1, <1>3, PlanInvKept DEF Horizon
<1>5. HeadIs(lead, cursor, chain', Len(barriers))
  <2>1. cursor \in 1..(Len(tasks) + 1) /\ cursor <= Len(tasks)
    BY ONLY <1>2
  <2>2. ChainOf(cursor) = chain'
    BY <1>1, <2>1 DEF ChainOf
  <2>3. QED
    BY <2>1, <2>2 DEF PlanInv, ChainInv
<1>6. chain' \in 0..Len(barriers) /\ \A i \in 1..Len(barriers) : chain' < i => TaskAt(lead[i]) # cursor
  BY <1>5 DEF HeadIs
<1>7. /\ Turns' = Turns
      /\ \A m : /\ ResourceAt(m)' = ResourceAt(m) /\ TaskAt(m)' = TaskAt(m)
                /\ IsTexture(m)' = IsTexture(m) /\ ScopeAt(m)' = ScopeAt(m)
                /\ Uses(m)' = Uses(m) /\ Starts(m)' = Starts(m)
      /\ \A r, a, b : NoStart(r, a, b)' = NoStart(r, a, b)
  BY <1>3, SettledFacts
<1>8. \A m \in Turns : Starts(m) =>
        (Emitted(lead, m)' <=>
           Emitted(lead, m) \/ (TaskAt(m) = cursor /\ ~IsTexture(ResourceAt(m))))
  <2> TAKE m \in Turns
  <2> HAVE Starts(m)
  <2>1. Emitted(lead, m) <=> TaskAt(m) < cursor
    BY <1>1 DEF Emitted
  <2>2. Emitted(lead, m)' <=>
          \/ TaskAt(m) < cursor
          \/ /\ TaskAt(m) = cursor
             /\ IsTexture(ResourceAt(m)) => \A i \in 1..Len(barriers) : lead[i] = m => chain' < i
    BY <1>1, <1>7 DEF Emitted
  <2>3. IsTexture(ResourceAt(m)) => \E i \in 1..Len(barriers) : lead[i] = m
    <3>1. m < Horizon /\ OrderInv(lead)
      BY <1>1, BelowHorizon DEF PlanInv
    <3>2. QED
      BY <3>1 DEF OrderInv
  <2>4. \A i \in 1..Len(barriers) : lead[i] = m /\ TaskAt(m) = cursor => ~(chain' < i)
    BY <1>6
  <2>5. QED
    BY ONLY <2>1, <2>2, <2>3, <2>4
<1>9. LayoutInv(lead)'
  <2>1. LayoutInv(lead) /\ layoutOf' = layoutOf
    BY <1>1 DEF EmitInv
  <2>2. \A m \in Turns : Starts(m) /\ IsTexture(ResourceAt(m)) =>
          (Emitted(lead, m)' <=> Emitted(lead, m))
    BY <1>8
  <2>3. QED
    BY <1>3, <2>1, <2>2, LayoutInvKept
<1>10. (chain # 0 => TaskAt(lead[chain]) = cursor)'
  <2>1. PICK h, t : h = chain' /\ t = cursor
    OBVIOUS
  <2>2. h # 0 => TaskAt(lead[h]) = t
    BY <1>5, <2>1 DEF HeadIs
  <2>3. (TaskAt(lead[h]) = cursor)' <=> TaskAt(lead[h]) = t
    BY <1>1, <1>7, <2>1
  <2>4. QED
    BY <2>1, <2>2, <2>3
(* A turn of the task for a buffer covers the buffer's earlier accesses.   *)
<1>11. ASSUME NEW a \in history, NEW d \in Uses(a.resource), a.token \in Tokens(ScopeAt(d)),
              \A m \in Turns :
                /\ ResourceAt(m) = a.resource /\ d < m /\ Starts(m) /\ Emitted(lead, m)
                => \A e \in Uses(a.resource) : m <= e /\ NoStart(a.resource, m, e) =>
                     Tokens(ScopeAt(e)) \subseteq a.visible,
              NEW m \in Turns, ResourceAt(m) = a.resource, d < m, Starts(m), TaskAt(m) = cursor,
              ~IsTexture(ResourceAt(m))
       PROVE  /\ Covers(task.before, a)
              /\ \A e \in Uses(a.resource) : m <= e /\ NoStart(a.resource, m, e) =>
                   Tokens(ScopeAt(e)) \subseteq Tokens(task.after)
              /\ task.before.sync # {} /\ task.after.sync # {}
  <2>1. m \in Nat /\ m <= Len(dependencies) /\ m < Horizon
    <3>1. m \in Nat /\ m < Horizon /\ pc # "planning"
      BY <1>1, <1>11, BelowHorizon
    <3>2. m > Len(dependencies) => cursor = Len(tasks) + 1
      BY <1>11, TurnTypes
    <3>3. QED
      BY ONLY <1>2, <3>1, <3>2
  <2>2. \A e \in Uses(a.resource) : InBefore(lead, e, m) => Within(ScopeAt(e), task.before)
    BY <1>11 DEF InBefore
  <2>3. \A k \in Turns : ResourceAt(k) = a.resource /\ d < k /\ k < m /\ Starts(k) =>
          \A e \in Uses(a.resource) : k <= e /\ NoStart(a.resource, k, e) =>
            Tokens(ScopeAt(e)) \subseteq a.visible
    <3> TAKE k \in Turns
    <3> HAVE ResourceAt(k) = a.resource /\ d < k /\ k < m /\ Starts(k)
    <3>1. TaskAt(k) < cursor
      BY <1>11, EarlierIsUse
    <3>2. Emitted(lead, k)
      BY <3>1 DEF Emitted
    <3>3. QED
      BY <1>11, <3>2
  <2>4. Covers(task.before, a)
    <3>1. BeforeInv(lead) /\ pc # "planning"
      BY <1>1 DEF PlanInv
    <3> HIDE DEF task
    <3>2. QED
      BY <1>11, <2>2, <2>3, <3>1, EarlierCovered
  <2>5. \A e \in Uses(a.resource) : m <= e /\ NoStart(a.resource, m, e) => Within(ScopeAt(e), task.after)
    <3> TAKE e \in Uses(a.resource)
    <3> HAVE m <= e /\ NoStart(a.resource, m, e)
    <3>1. e < Horizon
      BY <1>1, BelowHorizon, TurnTypes
    <3>2. InAfter(lead, e, m)
      BY <1>11, <2>1, <3>1 DEF PlanInv, AfterInv
    <3>3. QED
      BY <1>11, <3>2 DEF InAfter
  <2>6. task.before.sync # {}
    BY <2>4 DEF Covers, Tokens
  <2>7. task.after.sync # {}
    <3>1. m \in Uses(a.resource) /\ m \in 1..Len(dependencies)
      BY <1>11, <2>1, TurnTypes
    <3>2. NoStart(a.resource, m, m) /\ m <= m
      <4>1. \A j \in Turns : ~(m < j /\ j <= m)
        BY <2>1, TurnTypes
      <4>2. QED
        BY <2>1, <4>1 DEF NoStart
    <3>3. ScopeAt(m).sync # {}
      BY <2>1, <3>1 DEF ScopeAt, DataInv, DependenciesInv
    <3>4. QED
      BY <2>5, <3>1, <3>2, <3>3 DEF Within
  <2>8. QED
    BY <2>4, <2>5, <2>6, <2>7 DEF Within, Tokens
<1>12. HistoryInv(lead)'
  <2>1. SUFFICES ASSUME NEW h \in history'
        PROVE  \E d \in Uses(h.resource) :
                 /\ dependencies[d].task < cursor /\ h.token \in Tokens(ScopeAt(d))
                 /\ \A m \in Turns :
                      /\ ResourceAt(m) = h.resource /\ d < m /\ Starts(m) /\ Emitted(lead, m)'
                      => \A e \in Uses(h.resource) : m <= e /\ NoStart(h.resource, m, e) =>
                           Tokens(ScopeAt(e)) \subseteq h.visible
    BY <1>1, <1>7 DEF HistoryInv
  <2>2. PICK a \in history :
          /\ h.resource = a.resource /\ h.token = a.token /\ a.visible \subseteq h.visible
          /\ /\ task.before.sync # {} /\ task.after.sync # {} /\ Covers(task.before, a)
             /\ a.resource \in 1..Len(resources)
             => Tokens(task.after) \subseteq h.visible
    <3>1. CASE task.before.sync = {} \/ task.after.sync = {}
      BY <1>1, <2>1, <3>1
    <3>2. CASE ~(task.before.sync = {} \/ task.after.sync = {})
      <4>1. h \in AfterBarrier(task.before, task.after, 1..Len(resources))
        BY <1>1, <2>1, <3>2
      <4> HIDE DEF task
      <4>2. \E a \in history : /\ h.resource = a.resource /\ h.token = a.token
                               /\ a.visible \subseteq h.visible
                               /\ a.resource \in 1..Len(resources) /\ Covers(task.before, a) =>
                                    Tokens(task.after) \subseteq h.visible
        <5>1. PICK before, after, affected : /\ before = task.before /\ after = task.after
                                             /\ affected = 1..Len(resources)
          OBVIOUS
        <5>2. /\ history \in SUBSET Access /\ after \in Scope
              /\ h \in AfterBarrier(before, after, affected)
          BY <1>2, <4>1, <5>1 DEF task
        <5>3. \E a \in history : /\ h.resource = a.resource /\ h.token = a.token
                                 /\ a.visible \subseteq h.visible
                                 /\ a.resource \in affected /\ Covers(before, a) =>
                                      Tokens(after) \subseteq h.visible
          BY ONLY <5>2, AfterBarrierIs
        <5>4. QED
          BY <5>1, <5>3
      <4>3. QED
        BY <4>2
    <3>3. QED
      BY <3>1, <3>2
  <2>3. PICK d \in Uses(a.resource) :
          /\ dependencies[d].task < cursor /\ a.token \in Tokens(ScopeAt(d))
          /\ \A m \in Turns :
               /\ ResourceAt(m) = a.resource /\ d < m /\ Starts(m) /\ Emitted(lead, m)
               => \A e \in Uses(a.resource) : m <= e /\ NoStart(a.resource, m, e) =>
                    Tokens(ScopeAt(e)) \subseteq a.visible
    BY DEF EmitInv, HistoryInv
  <2>4. a.resource \in 1..Len(resources)
    BY TurnTypes
  <2>5. ASSUME NEW m \in Turns, ResourceAt(m) = h.resource, d < m, Starts(m), Emitted(lead, m)',
               NEW e \in Uses(h.resource), m <= e, NoStart(h.resource, m, e)
        PROVE  Tokens(ScopeAt(e)) \subseteq h.visible
    <3>1. CASE Emitted(lead, m)
      BY <2>2, <2>3, <2>5, <3>1
    <3>2. CASE TaskAt(m) = cursor /\ ~IsTexture(ResourceAt(m))
      <4> HIDE DEF task
      <4>1. /\ Covers(task.before, a) /\ task.before.sync # {} /\ task.after.sync # {}
            /\ Tokens(ScopeAt(e)) \subseteq Tokens(task.after)
        BY <1>11, <2>2, <2>3, <2>5, <3>2
      <4>2. QED
        BY <2>2, <2>4, <4>1
    <3>3. QED
      BY <1>8, <2>5, <3>1, <3>2
  <2>6. QED
    BY <2>2, <2>3, <2>5
<1>13. QED
  BY <1>4, <1>9, <1>10, <1>12 DEF EmitInv

LEMMA EmitLocalStep ==
  ASSUME DataInv, NEW lead, PlanInv(lead), EmitInv(lead), EmitLocalBarrier, pc' \in Emitting
  PROVE  PlanInv(lead)' /\ EmitInv(lead)'
<1>1. PICK c, b, t : c = chain /\ b = barriers[c] /\ t = cursor
  OBVIOUS
<1>2. /\ pc \in {"local barriers", "post barriers"} /\ pc' = pc /\ c # 0
      /\ history' = AfterBarrier(b.before, b.after, {b.resource})
      /\ layoutOf' = [layoutOf EXCEPT ![b.resource] = b.layoutAfter]
      /\ chain' = b.next
      /\ UNCHANGED <<resources, tasks, dependencies, barriers, postHead, states, cursor>>
  BY <1>1 DEF EmitLocalBarrier, pools, planning, Emitting
<1>3. /\ Len(barriers) \in Nat /\ history \in SUBSET Access /\ pc # "planning"
      /\ layoutOf \in [1..Len(resources) -> Layout]
      /\ chain \in 0..Len(barriers)
  BY <1>2, EntryTypes DEF DataInv, PhaseInv, IndexInv, PoolTypes, Emitting
<1>4. c \in 1..Len(barriers) /\ c - 1 \in Nat /\ c \in Nat
  <2>1. c \in 0..Len(barriers) /\ c # 0 /\ Len(barriers) \in Nat
    BY <1>1, <1>2, <1>3
  <2>2. QED
    BY ONLY <2>1
<1>5. b.after \in Scope
  BY <1>1, <1>4, EntryTypes DEF DataInv, Barrier
<1>6. PlanKept /\ Settled
  BY <1>2 DEF PlanKept, Settled
<1>7. PlanInv(lead)'
  BY <1>2, <1>6, PlanInvKept DEF Horizon
<1>8. /\ Turns' = Turns
      /\ \A m : /\ ResourceAt(m)' = ResourceAt(m) /\ TaskAt(m)' = TaskAt(m)
                /\ IsTexture(m)' = IsTexture(m) /\ ScopeAt(m)' = ScopeAt(m)
                /\ LayoutAt(m)' = LayoutAt(m)
                /\ Uses(m)' = Uses(m) /\ Starts(m)' = Starts(m)
      /\ \A r, a, k : NoStart(r, a, k)' = NoStart(r, a, k)
  BY <1>6, SettledFacts
<1>9. OrderInv(lead) /\ ChainInv(lead) /\ BarrierInv(lead) /\ AfterInv(lead) /\ BeforeInv(lead)
  BY DEF PlanInv
<1>10. PICK m0, r0 : m0 = lead[c] /\ r0 = ResourceAt(m0)
  OBVIOUS
<1>11. /\ m0 \in Turns /\ m0 \in Nat /\ m0 < Horizon /\ IsTexture(r0) /\ Starts(m0)
       /\ TaskAt(m0) = t /\ t \in Nat
       /\ b.resource = r0 /\ b.layoutAfter = LayoutAt(m0) /\ r0 \in 1..Len(resources)
  <2>1. m0 \in Turns /\ m0 < Horizon /\ IsTexture(r0) /\ Starts(m0)
    BY <1>4, <1>9, <1>10 DEF OrderInv
  <2>2. TaskAt(m0) = t
    BY <1>1, <1>2, <1>10 DEF EmitInv
  <2>3. b.resource = r0 /\ b.layoutAfter = LayoutAt(m0)
    BY <1>1, <1>4, <1>9, <1>10 DEF BarrierInv
  <2>4. m0 \in Nat /\ t \in Nat /\ r0 \in 1..Len(resources)
    BY <1>1, <1>10, <2>1, TurnTypes DEF DataInv, PhaseInv
  <2>5. QED
    BY <2>1, <2>2, <2>3, <2>4
<1>12. PICK n : n = chain'
  OBVIOUS
<1>13. /\ n \in 0..(c - 1) /\ (n # 0 => TaskAt(lead[n]) = t)
       /\ \A i \in 1..(c - 1) : n < i => TaskAt(lead[i]) # t
  BY <1>1, <1>2, <1>4, <1>9, <1>10, <1>11, <1>12, ZenonT(60) DEF ChainInv, HeadIs
<1>14. (chain # 0 => TaskAt(lead[chain]) = cursor)'
  <2>1. (TaskAt(lead[n]) = cursor)' <=> TaskAt(lead[n]) = t
    BY <1>1, <1>2, <1>8
  <2>2. QED
    BY <1>12, <1>13, <2>1
<1>15. \A m \in Turns : Starts(m) => (Emitted(lead, m)' <=> Emitted(lead, m) \/ m = m0)
  <2> TAKE m \in Turns
  <2> HAVE Starts(m)
  <2>1. Emitted(lead, m) <=>
          \/ TaskAt(m) < t
          \/ /\ TaskAt(m) = t
             /\ IsTexture(ResourceAt(m)) => \A i \in 1..Len(barriers) : lead[i] = m => c < i
    BY <1>1, <1>2 DEF Emitted
  <2>2. Emitted(lead, m)' <=>
          \/ TaskAt(m) < t
          \/ /\ TaskAt(m) = t
             /\ IsTexture(ResourceAt(m)) => \A i \in 1..Len(barriers) : lead[i] = m => n < i
    BY <1>1, <1>2, <1>8, <1>12 DEF Emitted
  <2>3. CASE ~IsTexture(ResourceAt(m))
    BY <1>10, <1>11, <2>1, <2>2, <2>3
  <2>4. CASE IsTexture(ResourceAt(m)) /\ TaskAt(m) # t
    BY <1>11, <2>1, <2>2, <2>4
  <2>5. CASE IsTexture(ResourceAt(m)) /\ TaskAt(m) = t
    <3>1. PICK j \in 1..Len(barriers) : lead[j] = m
      <4>1. m < Horizon
        BY <1>3, BelowHorizon
      <4>2. QED
        BY <1>9, <2>5, <4>1 DEF OrderInv
    <3>2. \A i \in 1..Len(barriers) : lead[i] = m => i = j
      <4> TAKE i \in 1..Len(barriers)
      <4> HAVE lead[i] = m
      <4>1. ~(i < j) /\ ~(j < i)
        <5>1. m \in Nat /\ (i < j => lead[i] < lead[j]) /\ (j < i => lead[j] < lead[i])
          BY <1>9, TurnTypes DEF OrderInv
        <5>2. ~(m < m)
          BY <5>1
        <5>3. QED
          BY <3>1, <5>1, <5>2
      <4>2. i \in 1..Len(barriers) /\ j \in 1..Len(barriers)
        OBVIOUS
      <4>3. QED
        BY ONLY <1>3, <4>1, <4>2
    <3>3. m = m0 <=> j = c
      BY <1>4, <1>10, <3>1, <3>2
    <3>4. ~(TaskAt(m) < t)
      BY <1>11, <2>5
    <3>5. Emitted(lead, m) <=> c < j
      BY <2>1, <2>5, <3>1, <3>2, <3>4
    <3>6. Emitted(lead, m)' <=> n < j
      BY <2>2, <2>5, <3>1, <3>2, <3>4
    <3>7. n < j /\ j \in 1..(c - 1) => FALSE
      BY <1>13, <2>5, <3>1
    <3>8. n < j <=> c < j \/ j = c
      <4>1. j \in 1..Len(barriers)
        OBVIOUS
      <4>2. n \in 0..(c - 1)
        BY <1>13
      <4>3. QED
        BY ONLY <1>3, <1>4, <3>7, <4>1, <4>2
    <3>9. QED
      BY <3>3, <3>5, <3>6, <3>8
  <2>6. QED
    BY <2>3, <2>4, <2>5
<1>16. Emitted(lead, m0)' /\ \A m \in Turns : ResourceAt(m) = r0 /\ m0 < m => ~Emitted(lead, m)
  <2>1. ASSUME NEW m \in Turns, ResourceAt(m) = r0, m0 < m PROVE ~Emitted(lead, m)
    <3>1. t < TaskAt(m) /\ TaskAt(m) \in Nat
      BY <1>10, <1>11, <2>1, EarlierIsUse, TurnTypes
    <3>2. ~(TaskAt(m) < t) /\ TaskAt(m) # t
      BY <1>11, <3>1
    <3>3. QED
      BY <1>1, <3>2 DEF Emitted
  <2>2. QED
    BY <1>11, <1>15, <2>1
<1>17. LayoutInv(lead)'
  <2>1. layoutOf' = [layoutOf EXCEPT ![r0] = LayoutAt(m0)]
    BY <1>2, <1>11
  <2>2. /\ layoutOf'[r0] = LayoutAt(m0)
        /\ \A r \in 1..Len(resources) : r # r0 => layoutOf'[r] = layoutOf[r]
    BY <1>3, <1>11, <2>1
  <2>3. ASSUME NEW r \in 1..Len(resources), IsTexture(r), r # r0
        PROVE  /\ (\A m \in Turns : ResourceAt(m) = r /\ Starts(m) => ~Emitted(lead, m)') =>
                    layoutOf'[r] = resources[r].pre
               /\ \A m \in Turns :
                    /\ ResourceAt(m) = r /\ Starts(m) /\ Emitted(lead, m)'
                    /\ \A k \in Turns : ResourceAt(k) = r /\ Starts(k) /\ m < k => ~Emitted(lead, k)'
                    => layoutOf'[r] = LayoutAt(m)
    <3>1. \A m \in Turns : ResourceAt(m) = r /\ Starts(m) => (Emitted(lead, m)' <=> Emitted(lead, m))
      BY <1>10, <1>15, <2>3
    <3>2. LayoutInv(lead)
      BY DEF EmitInv
    <3>3. QED
      BY <2>2, <2>3, <3>1, <3>2 DEF LayoutInv
  <2>4. \A m \in Turns :
          /\ ResourceAt(m) = r0 /\ Starts(m) /\ Emitted(lead, m)'
          /\ \A k \in Turns : ResourceAt(k) = r0 /\ Starts(k) /\ m < k => ~Emitted(lead, k)'
          => m = m0
    <3> TAKE m \in Turns
    <3> HAVE /\ ResourceAt(m) = r0 /\ Starts(m) /\ Emitted(lead, m)'
             /\ \A k \in Turns : ResourceAt(k) = r0 /\ Starts(k) /\ m < k => ~Emitted(lead, k)'
    <3>1. ~(m < m0)
      BY <1>10, <1>11, <1>16
    <3>2. m0 < m => m = m0
      BY <1>15, <1>16
    <3>3. m \in Nat /\ m0 \in Nat
      BY <1>11, TurnTypes
    <3>4. QED
      BY ONLY <3>1, <3>2, <3>3
  <2>5. ~(\A m \in Turns : ResourceAt(m) = r0 /\ Starts(m) => ~Emitted(lead, m)')
    BY <1>10, <1>11, <1>16
  <2>6. \A r \in 1..Len(resources) : IsTexture(r) =>
          /\ (\A m \in Turns : ResourceAt(m) = r /\ Starts(m) => ~Emitted(lead, m)') =>
               layoutOf'[r] = resources[r].pre
          /\ \A m \in Turns :
               /\ ResourceAt(m) = r /\ Starts(m) /\ Emitted(lead, m)'
               /\ \A k \in Turns : ResourceAt(k) = r /\ Starts(k) /\ m < k => ~Emitted(lead, k)'
               => layoutOf'[r] = LayoutAt(m)
    <3> TAKE r \in 1..Len(resources)
    <3> HAVE IsTexture(r)
    <3>1. CASE r # r0
      BY <2>3, <3>1
    <3>2. CASE r = r0
      BY <2>2, <2>4, <2>5, <3>2
    <3>3. QED
      BY <3>1, <3>2
  <2>7. resources' = resources
    BY <1>2
  <2>8. QED
    BY <1>8, <2>6, <2>7 DEF LayoutInv
<1>18. ASSUME NEW a \in history, a.resource = r0, NEW d \in Uses(r0), a.token \in Tokens(ScopeAt(d)),
              \A m \in Turns :
                /\ ResourceAt(m) = r0 /\ d < m /\ Starts(m) /\ Emitted(lead, m)
                => \A e \in Uses(r0) : m <= e /\ NoStart(r0, m, e) =>
                     Tokens(ScopeAt(e)) \subseteq a.visible,
              d < m0
       PROVE  /\ Covers(b.before, a)
              /\ \A e \in Uses(r0) : m0 <= e /\ NoStart(r0, m0, e) =>
                   Tokens(ScopeAt(e)) \subseteq Tokens(b.after)
  <2>1. \A e \in Uses(r0) : InBefore(lead, e, m0) => Within(ScopeAt(e), b.before)
    BY <1>1, <1>4, <1>10, <1>11 DEF InBefore
  <2>2. \A k \in Turns : ResourceAt(k) = r0 /\ d < k /\ k < m0 /\ Starts(k) =>
          \A e \in Uses(r0) : k <= e /\ NoStart(r0, k, e) => Tokens(ScopeAt(e)) \subseteq a.visible
    <3> TAKE k \in Turns
    <3> HAVE ResourceAt(k) = r0 /\ d < k /\ k < m0 /\ Starts(k)
    <3>1. TaskAt(k) < t
      BY <1>10, <1>11, EarlierIsUse
    <3>2. Emitted(lead, k)
      BY <1>1, <3>1 DEF Emitted
    <3>3. QED
      BY <1>18, <3>2
  <2>3. PICK before : before = b.before
    OBVIOUS
  <2>4. Covers(before, a)
    BY <1>3, <1>9, <1>10, <1>11, <1>18, <2>1, <2>2, <2>3, EarlierCovered
  <2>5. \A e \in Uses(r0) : m0 <= e /\ NoStart(r0, m0, e) => Within(ScopeAt(e), b.after)
    <3> TAKE e \in Uses(r0)
    <3> HAVE m0 <= e /\ NoStart(r0, m0, e)
    <3>1. e < Horizon
      BY <1>3, BelowHorizon, TurnTypes
    <3>2. InAfter(lead, e, m0)
      BY <1>9, <1>10, <1>11, <3>1 DEF AfterInv
    <3>3. QED
      BY <1>1, <1>4, <1>10, <1>11, <3>2 DEF InAfter
  <2>6. QED
    BY <2>3, <2>4, <2>5 DEF Within, Tokens
<1>19. HistoryInv(lead)'
  <2>1. SUFFICES ASSUME NEW h \in history'
        PROVE  \E d \in Uses(h.resource) :
                 /\ dependencies[d].task < cursor /\ h.token \in Tokens(ScopeAt(d))
                 /\ \A m \in Turns :
                      /\ ResourceAt(m) = h.resource /\ d < m /\ Starts(m) /\ Emitted(lead, m)'
                      => \A e \in Uses(h.resource) : m <= e /\ NoStart(h.resource, m, e) =>
                           Tokens(ScopeAt(e)) \subseteq h.visible
    BY <1>2, <1>8 DEF HistoryInv
  <2>2. PICK a \in history :
          /\ h.resource = a.resource /\ h.token = a.token /\ a.visible \subseteq h.visible
          /\ a.resource \in {r0} /\ Covers(b.before, a) => Tokens(b.after) \subseteq h.visible
    <3>1. PICK before, after, affected : before = b.before /\ after = b.after /\ affected = {r0}
      OBVIOUS
    <3>2. /\ history \in SUBSET Access /\ after \in Scope
          /\ h \in AfterBarrier(before, after, affected)
      BY <1>2, <1>3, <1>5, <1>11, <2>1, <3>1
    <3>3. \E a \in history : /\ h.resource = a.resource /\ h.token = a.token
                             /\ a.visible \subseteq h.visible
                             /\ a.resource \in affected /\ Covers(before, a) =>
                                  Tokens(after) \subseteq h.visible
      BY ONLY <3>2, AfterBarrierIs
    <3>4. QED
      BY <3>1, <3>3
  <2>3. PICK d \in Uses(a.resource) :
          /\ dependencies[d].task < cursor /\ a.token \in Tokens(ScopeAt(d))
          /\ \A m \in Turns :
               /\ ResourceAt(m) = a.resource /\ d < m /\ Starts(m) /\ Emitted(lead, m)
               => \A e \in Uses(a.resource) : m <= e /\ NoStart(a.resource, m, e) =>
                    Tokens(ScopeAt(e)) \subseteq a.visible
    BY DEF EmitInv, HistoryInv
  <2>4. ASSUME NEW m \in Turns, ResourceAt(m) = h.resource, d < m, Starts(m), Emitted(lead, m)',
               NEW e \in Uses(h.resource), m <= e, NoStart(h.resource, m, e)
        PROVE  Tokens(ScopeAt(e)) \subseteq h.visible
    <3>1. CASE Emitted(lead, m)
      BY <2>2, <2>3, <2>4, <3>1
    <3>2. CASE m = m0
      <4>1. a.resource = r0 /\ e \in Uses(r0) /\ m0 <= e /\ NoStart(r0, m0, e) /\ d < m0
        BY <1>10, <2>2, <2>4, <3>2
      <4>2. Covers(b.before, a) /\ Tokens(ScopeAt(e)) \subseteq Tokens(b.after)
        BY <1>18, <2>3, <4>1
      <4>3. QED
        BY <2>2, <4>1, <4>2
    <3>3. QED
      BY <1>15, <2>4, <3>1, <3>2
  <2>5. QED
    BY <2>2, <2>3, <2>4
<1>20. QED
  BY <1>7, <1>14, <1>17, <1>19 DEF EmitInv

LEMMA RunTaskStep ==
  ASSUME DataInv, NEW lead, PlanInv(lead), EmitInv(lead), RunTask
  PROVE  PlanInv(lead)' /\ EmitInv(lead)'
<1>1. PICK t, n, h0 : t = cursor /\ n = Len(tasks) /\ h0 = postHead
  OBVIOUS
<1>2. /\ pc = "local barriers" /\ chain = 0 /\ cursor' = t + 1
      /\ t < n => pc' = "task barriers" /\ chain' = 0
      /\ ~(t < n) => pc' = "post barriers" /\ chain' = h0
      /\ history' = history \cup
           UNION {{[resource |-> d.resource, token |-> token, visible |-> {}] :
                     token \in Tokens(d.scope)} : d \in DependenciesOf(t)}
      /\ UNCHANGED <<resources, tasks, dependencies, barriers, postHead, states, layoutOf>>
  BY <1>1 DEF RunTask, pools
<1>3. /\ t \in 1..n /\ n \in Nat /\ Len(barriers) \in Nat /\ Len(dependencies) \in Nat
      /\ h0 \in 0..Len(barriers)
  BY <1>1, <1>2, TurnTypes DEF DataInv, PhaseInv, IndexInv
<1>4. PlanKept /\ Settled
  BY <1>2 DEF PlanKept, Settled
<1>5. PlanInv(lead)'
  BY <1>2, <1>4, PlanInvKept DEF Horizon
<1>6. /\ Turns' = Turns
      /\ \A m : /\ ResourceAt(m)' = ResourceAt(m) /\ TaskAt(m)' = TaskAt(m)
                /\ IsTexture(m)' = IsTexture(m) /\ ScopeAt(m)' = ScopeAt(m)
                /\ Uses(m)' = Uses(m) /\ Starts(m)' = Starts(m)
      /\ \A r, a, k : NoStart(r, a, k)' = NoStart(r, a, k)
  BY <1>4, SettledFacts
<1>7. OrderInv(lead) /\ HeadIs(lead, n + 1, h0, Len(barriers))
  <2>1. n + 1 \in 1..(n + 1) /\ ~(n + 1 <= n)
    BY <1>3
  <2>2. ChainOf(n + 1) = h0
    BY <1>1, <2>1 DEF ChainOf
  <2>3. QED
    BY <1>1, <2>1, <2>2 DEF PlanInv, ChainInv
<1>8. ~(t < n) => t + 1 = n + 1
  BY <1>3
<1>9. (chain # 0 => TaskAt(lead[chain]) = cursor)'
  <2>1. (TaskAt(lead[h0]) = cursor)' <=> TaskAt(lead[h0]) = t + 1
    BY <1>2, <1>6
  <2>2. h0 # 0 => TaskAt(lead[h0]) = n + 1
    BY <1>7 DEF HeadIs
  <2>3. QED
    BY <1>2, <1>8, <2>1, <2>2
(* All barriers of the task were emitted, and none of the next.            *)
<1>10. \A m \in Turns : /\ Emitted(lead, m) <=> TaskAt(m) <= t
                        /\ TaskAt(m) \in Nat
  <2> TAKE m \in Turns
  <2>1. TaskAt(m) \in Nat
    BY TurnTypes
  <2>2. Emitted(lead, m) <=>
          \/ TaskAt(m) < t
          \/ /\ TaskAt(m) = t
             /\ IsTexture(ResourceAt(m)) => \A i \in 1..Len(barriers) : lead[i] = m => 0 < i
    BY <1>1, <1>2 DEF Emitted
  <2>3. \A i \in 1..Len(barriers) : 0 < i
    BY <1>3
  <2>4. t \in Nat
    BY <1>3
  <2>5. QED
    BY <2>1, <2>2, <2>3, <2>4
<1>11. \A m \in Turns : Starts(m) => (Emitted(lead, m)' <=> Emitted(lead, m))
  <2> TAKE m \in Turns
  <2> HAVE Starts(m)
  <2>1. Emitted(lead, m)' <=>
          \/ TaskAt(m) < t + 1
          \/ /\ TaskAt(m) = t + 1 /\ pc' # "task barriers"
             /\ IsTexture(ResourceAt(m)) => \A i \in 1..Len(barriers) : lead[i] = m => chain' < i
    BY <1>1, <1>2, <1>6 DEF Emitted
  <2>2. ~(TaskAt(m) = t + 1 /\ pc' # "task barriers"
          /\ (IsTexture(ResourceAt(m)) => \A i \in 1..Len(barriers) : lead[i] = m => chain' < i))
    <3> SUFFICES ASSUME TaskAt(m) = t + 1, pc' # "task barriers",
                        IsTexture(ResourceAt(m)) =>
                          \A i \in 1..Len(barriers) : lead[i] = m => chain' < i
                 PROVE  FALSE
      OBVIOUS
    <3>1. chain' = h0 /\ TaskAt(m) = n + 1
      BY <1>2, <1>8
    <3>2. m > Len(dependencies)
      <4>1. m <= Len(dependencies) => TaskAt(m) \in 1..n
        BY <1>1, TurnTypes
      <4>2. m \in Nat
        BY TurnTypes
      <4>3. QED
        BY ONLY <1>3, <3>1, <4>1, <4>2
    <3>3. IsTexture(ResourceAt(m))
      <4>1. m \in Nat
        BY TurnTypes
      <4>2. ~(m <= Len(dependencies))
        BY ONLY <1>3, <3>2, <4>1
      <4>3. QED
        BY <4>2 DEF Starts
    <3>4. PICK i \in 1..Len(barriers) : lead[i] = m
      <4>1. m < Horizon
        BY <1>2, BelowHorizon
      <4>2. QED
        BY <1>7, <3>3, <4>1 DEF OrderInv
    <3>5. h0 < i
      BY <3>1, <3>3, <3>4
    <3>6. QED
      BY <1>7, <3>1, <3>4, <3>5 DEF HeadIs
  <2>3. TaskAt(m) < t + 1 <=> TaskAt(m) <= t
    <3>1. TaskAt(m) \in Nat /\ t \in Nat
      BY <1>3, <1>10
    <3>2. QED
      BY ONLY <3>1
  <2>4. QED
    BY <1>10, <2>1, <2>2, <2>3
<1>12. LayoutInv(lead)'
  <2>1. LayoutInv(lead) /\ layoutOf' = layoutOf
    BY <1>2 DEF EmitInv
  <2>2. QED
    BY <1>4, <1>11, <2>1, LayoutInvKept
<1>13. HistoryInv(lead)'
  <2>1. SUFFICES ASSUME NEW h \in history'
        PROVE  \E d \in Uses(h.resource) :
                 /\ dependencies[d].task < t + 1 /\ h.token \in Tokens(ScopeAt(d))
                 /\ \A m \in Turns :
                      /\ ResourceAt(m) = h.resource /\ d < m /\ Starts(m) /\ Emitted(lead, m)'
                      => \A e \in Uses(h.resource) : m <= e /\ NoStart(h.resource, m, e) =>
                           Tokens(ScopeAt(e)) \subseteq h.visible
    BY <1>2, <1>6 DEF HistoryInv
  <2>2. CASE h \in history
    <3>1. PICK d \in Uses(h.resource) :
            /\ dependencies[d].task < t /\ h.token \in Tokens(ScopeAt(d))
            /\ \A m \in Turns :
                 /\ ResourceAt(m) = h.resource /\ d < m /\ Starts(m) /\ Emitted(lead, m)
                 => \A e \in Uses(h.resource) : m <= e /\ NoStart(h.resource, m, e) =>
                      Tokens(ScopeAt(e)) \subseteq h.visible
      BY <1>1, <2>2 DEF EmitInv, HistoryInv
    <3>2. dependencies[d].task < t + 1
      <4>1. dependencies[d].task \in Nat /\ t \in Nat
        BY <1>3, TurnTypes DEF Dependency
      <4>2. QED
        BY <3>1, <4>1
    <3>3. QED
      BY <1>11, <3>1, <3>2
  <2>3. CASE h \notin history
    <3>1. PICK dep \in DependenciesOf(t) : \E token \in Tokens(dep.scope) :
            h = [resource |-> dep.resource, token |-> token, visible |-> {}]
      BY <1>2, <2>1, <2>3
    <3>2. PICK d \in 1..Len(dependencies) : dependencies[d] = dep /\ dependencies[d].task = t
      BY DEF DependenciesOf
    <3>3. h.resource = dependencies[d].resource /\ h.token \in Tokens(ScopeAt(d))
      BY <3>1, <3>2 DEF ScopeAt
    <3>4. d \in Uses(h.resource)
      BY <3>3 DEF Uses
    <3>5. t < t + 1
      BY <1>3
    <3>6. ASSUME NEW m \in Turns, ResourceAt(m) = h.resource, d < m, Starts(m)
          PROVE  ~Emitted(lead, m)'
      <4>1. TaskAt(d) < TaskAt(m) /\ TaskAt(d) = t
        BY <3>2, <3>4, <3>6, TurnOrder, TurnTypes
      <4>2. ~(TaskAt(m) <= t)
        BY <1>3, <1>10, <4>1
      <4>3. QED
        BY <1>10, <1>11, <3>6, <4>2
    <3>7. QED
      BY <3>2, <3>3, <3>4, <3>5, <3>6
  <2>4. QED
    BY <2>2, <2>3
<1>14. QED
  BY <1>5, <1>9, <1>12, <1>13 DEF EmitInv

(* At first no turn has been taken.                                        *)
LEMMA PlanInvBegins ==
  ASSUME DataInv, DataInv', Execute
  PROVE  PlanInv(<<>>)'
<1>1. /\ pc = "building" /\ pc' = "planning" /\ cursor' = 1
      /\ states' = [r \in 1..Len(resources) |-> [scope |-> NoScope, layout |-> "Undefined", prev |-> 0]]
      /\ UNCHANGED <<resources, tasks, dependencies, barriers, postHead>>
  BY DEF Execute, pools
<1>2. /\ Len(barriers') = 0 /\ Len(<<>>) = 0 /\ postHead' = 0 /\ Horizon' = 1
      /\ \A t \in 1..Len(tasks') : tasks'[t].chainHead = 0
  BY <1>1, EmptySeq DEF DataInv, PhaseInv, Describing, Horizon
<1>3. /\ Turns' \subseteq Nat \ {0} /\ \A m \in Turns' : ~(m < 1)
      /\ \A r : \A d \in Uses(r)' : ~(d < 1)
  BY <1>1 DEF Turns, Uses
<1>4. OrderInv(<<>>)'
  BY <1>2, <1>3 DEF OrderInv
<1>5. ChainInv(<<>>)'
  <2>1. \A t \in 1..(Len(tasks') + 1) : ChainOf(t)' = 0
    <3>1. Len(tasks') \in Nat
      BY <1>1, TurnTypes
    <3>2. QED
      BY <1>2, <3>1 DEF ChainOf
  <2>2. \A t \in 1..(Len(tasks') + 1) : HeadIs(<<>>, t, ChainOf(t), Len(barriers))'
    BY <1>2, <2>1 DEF HeadIs
  <2>3. QED
    BY <1>2, <2>2 DEF ChainInv
<1>6. BarrierInv(<<>>)'
  BY <1>2 DEF BarrierInv
<1>7. AfterInv(<<>>)' /\ BeforeInv(<<>>)' /\ GroupInv'
  BY <1>2, <1>3 DEF AfterInv, BeforeInv, GroupInv
<1>8. StateInv(<<>>)'
  <2>1. \A r \in 1..Len(resources') : states'[r].scope = NoScope /\ states'[r].layout = "Undefined"
    BY <1>1
  <2>2. \A r, e : ~LastUse(r, e, cursor)'
    BY <1>1, <1>3 DEF LastUse
  <2>3. QED
    BY <1>1, <1>3, <2>1, <2>2 DEF StateInv
<1>9. QED
  BY <1>4, <1>5, <1>6, <1>7, <1>8 DEF PlanInv

-----------------------------------------------------------------------------
LEMMA ImportInvStep ==
  ASSUME DataInv, ImportInv, [Next]_vars
  PROVE  ImportInv'
<1>1. CASE resources' = resources
  BY <1>1 DEF ImportInv, IsTexture
<1>2. ASSUME NEW resource \in Resource, AddResource(resource),
             resource.isImported /\ resource.type = "Texture" => resource.post # "Undefined"
      PROVE  ImportInv'
  <2>1. /\ resources' = Append(resources, resource) /\ resources \in Seq(Resource)
        /\ Len(resources) \in Nat
    BY <1>2, EntryTypes DEF AddResource, DataInv, PoolTypes
  <2>2. /\ Len(resources') = Len(resources) + 1 /\ resources'[Len(resources) + 1] = resource
        /\ \A r \in 1..Len(resources) : resources'[r] = resources[r]
    BY <2>1, AppendProperties
  <2>3. \A r \in 1..Len(resources') : r \in 1..Len(resources) \/ r = Len(resources) + 1
    BY <2>1, <2>2
  <2>4. QED
    BY <1>2, <2>2, <2>3 DEF ImportInv, IsTexture
<1>3. CASE CreateTransientBuffer
  <2> DEFINE resource == [type |-> "Buffer", isImported |-> FALSE, pre |-> "Undefined", post |-> "Undefined"]
  <2>1. resource \in Resource /\ AddResource(resource) /\ resource.type # "Texture"
    BY <1>3 DEF CreateTransientBuffer, Resource, Layout
  <2> HIDE DEF resource
  <2>2. QED
    BY <1>2, <2>1
<1>4. CASE CreateTransientTexture
  <2> DEFINE resource == [type |-> "Texture", isImported |-> FALSE, pre |-> "Undefined", post |-> "Undefined"]
  <2>1. resource \in Resource /\ AddResource(resource) /\ resource.isImported = FALSE
    BY <1>4 DEF CreateTransientTexture, Resource, Layout
  <2> HIDE DEF resource
  <2>2. QED
    BY <1>2, <2>1
<1>5. CASE ImportExternalBuffer
  <2> DEFINE resource == [type |-> "Buffer", isImported |-> TRUE, pre |-> "Undefined", post |-> "Undefined"]
  <2>1. resource \in Resource /\ AddResource(resource) /\ resource.type # "Texture"
    BY <1>5 DEF ImportExternalBuffer, Resource, Layout
  <2> HIDE DEF resource
  <2>2. QED
    BY <1>2, <2>1
<1>6. ASSUME NEW layouts \in ImportLayouts, ImportExternalTexture(layouts[1], layouts[2])
      PROVE  ImportInv'
  <2> DEFINE resource == [type |-> "Texture", isImported |-> TRUE, pre |-> layouts[1], post |-> layouts[2]]
  <2>1. layouts[1] \in Layout /\ layouts[2] \in Layout \ {"Undefined"}
    BY ImportLayoutsAssumption DEF ImportLayoutsAssumption
  <2>2. resource \in Resource /\ AddResource(resource) /\ resource.post # "Undefined"
    BY <1>6, <2>1 DEF ImportExternalTexture, Resource
  <2> HIDE DEF resource
  <2>3. QED
    BY <1>2, <2>2
<1>7. CASE Submit
  <2>1. Len(resources') = 0
    BY <1>7, EmptySeq DEF Submit
  <2>2. QED
    BY <2>1 DEF ImportInv
<1>8. CASE Open \/ AddTask \/ Execute
  BY <1>1, <1>8 DEF Open, AddTask, Execute, pools
<1>9. ASSUME NEW r, NEW use, AddTaskDependency(r, use) PROVE ImportInv'
  BY <1>1, <1>9 DEF AddTaskDependency
<1>10. CASE PlanBarriers
  BY <1>1, <1>10 DEF PlanBarriers, PlanFirstBufferAccess, PlanBufferRead, PlanBufferBarrier,
     PlanFirstTextureAccess, PlanTextureRead, PlanTextureBarrier, Plan, PlanReturn, StartTasks, pools
<1>11. CASE EmitGlobalBarrier \/ EmitLocalBarrier \/ RunTask \/ UNCHANGED vars
  BY <1>1, <1>11 DEF EmitGlobalBarrier, EmitLocalBarrier, RunTask, vars, pools
<1>12. QED
  BY <1>3, <1>4, <1>5, <1>6, <1>7, <1>8, <1>9, <1>10, <1>11 DEF Next, Describe, Emit

LEMMA GraphInvInit == Init => GraphInv
<1> SUFFICES ASSUME Init PROVE GraphInv
  OBVIOUS
<1>1. Len(resources) = 0 /\ pc = "closed"
  BY EmptySeq DEF Init
<1>2. QED
  BY <1>1 DEF GraphInv, ImportInv, Emitting

LEMMA GraphInvStep == DataInv /\ DataInv' /\ GraphInv /\ [Next]_vars => GraphInv'
<1> SUFFICES ASSUME DataInv, DataInv', GraphInv, [Next]_vars,
                    pc' \in Emitting \cup {"planning"}
             PROVE  \E lead \in Seq(Nat) : PlanInv(lead)' /\ (pc' \in Emitting => EmitInv(lead)')
  BY ImportInvStep DEF GraphInv
<1>1. ImportInv
  BY DEF GraphInv
<1>2. ASSUME pc \in Emitting \cup {"planning"}
      PROVE  \E lead \in Seq(Nat) : PlanInv(lead) /\ (pc \in Emitting => EmitInv(lead))
  BY <1>2 DEF GraphInv
<1>3. CASE UNCHANGED vars
  <2>1. UNCHANGED <<pc, resources, tasks, dependencies, barriers, postHead, states, cursor, chain,
                    layoutOf, history>>
    BY <1>3 DEF vars, pools, planning, gpu
  <2>2. PICK lead \in Seq(Nat) : PlanInv(lead) /\ (pc \in Emitting => EmitInv(lead))
    BY <1>2, <2>1
  <2>3. Settled /\ cursor' = cursor /\ pc' = pc /\ barriers' = barriers /\ chain' = chain
    BY <2>1 DEF Settled
  <2>4. /\ Turns' = Turns
        /\ \A m : /\ ResourceAt(m)' = ResourceAt(m) /\ TaskAt(m)' = TaskAt(m)
                  /\ LayoutAt(m)' = LayoutAt(m) /\ ScopeAt(m)' = ScopeAt(m)
                  /\ IsTexture(m)' = IsTexture(m)
                  /\ Uses(m)' = Uses(m) /\ ReadOnly(m)' = ReadOnly(m)
                  /\ Starts(m)' = Starts(m)
        /\ \A r, m : Unused(r, m)' = Unused(r, m)
        /\ \A r, e, m : LastUse(r, e, m)' = LastUse(r, e, m)
        /\ \A r, a, b : NoStart(r, a, b)' = NoStart(r, a, b)
    BY <2>3, SettledFacts
  <2>5. Horizon' = Horizon
    BY <2>1 DEF Horizon
  <2>6. OrderInv(lead)' /\ ChainInv(lead)' /\ BarrierInv(lead)'
    <3>1. OrderInv(lead)'
      BY <2>1, <2>2, <2>4, <2>5 DEF PlanInv, OrderInv
    <3>2. ChainInv(lead)'
      BY <2>1, <2>2, <2>4 DEF PlanInv, ChainInv, HeadIs, ChainOf
    <3>3. BarrierInv(lead)'
      BY <2>1, <2>2, <2>4 DEF PlanInv, BarrierInv
    <3>4. QED
      BY <3>1, <3>2, <3>3
  <2>7. AfterInv(lead)' /\ BeforeInv(lead)' /\ GroupInv'
    <3>1. AfterInv(lead)'
      BY <2>1, <2>2, <2>4, <2>5 DEF PlanInv, AfterInv, InAfter
    <3>2. BeforeInv(lead)'
      BY <2>1, <2>2, <2>4, <2>5 DEF PlanInv, BeforeInv, InBefore
    <3>3. GroupInv'
      BY <2>1, <2>2, <2>4, <2>5 DEF PlanInv, GroupInv
    <3>4. QED
      BY <3>1, <3>2, <3>3
  <2>8. pc' = "planning" => StateInv(lead)'
    BY <2>1, <2>2, <2>4 DEF PlanInv, StateInv
  <2>9. ASSUME pc' \in Emitting PROVE EmitInv(lead)'
    <3>1. \A m : Emitted(lead, m)' = Emitted(lead, m)
      BY <2>3, <2>4 DEF Emitted
    <3>2. EmitInv(lead)
      BY <2>2, <2>3, <2>9
    <3>3. HistoryInv(lead)'
      BY <2>1, <2>4, <3>1, <3>2 DEF EmitInv, HistoryInv
    <3>4. LayoutInv(lead)'
      BY <2>1, <2>4, <3>1, <3>2 DEF EmitInv, LayoutInv
    <3>5. (chain # 0 => TaskAt(lead[chain]) = cursor)'
      BY <2>3, <2>4, <3>2 DEF EmitInv
    <3>6. QED
      BY <3>3, <3>4, <3>5 DEF EmitInv
  <2>10. QED
    BY <2>2, <2>6, <2>7, <2>8, <2>9 DEF PlanInv
<1>4. CASE Describe
  <2>1. Execute
    BY <1>4 DEF Describe, Open, CreateTransientBuffer, CreateTransientTexture, ImportExternalBuffer,
       ImportExternalTexture, AddResource, AddTask, AddTaskDependency, Emitting
  <2>2. PlanInv(<<>>)' /\ <<>> \in Seq(Nat)
    BY <2>1, PlanInvBegins, EmptySeq
  <2>3. pc' \notin Emitting
    BY <2>1 DEF Execute, Emitting
  <2>4. QED
    BY <2>2, <2>3
<1>5. CASE PlanBarriers /\ ~StartTasks
  <2>1. pc = "planning"
    BY <1>5 DEF PlanBarriers, PlanFirstBufferAccess, PlanBufferRead, PlanBufferBarrier,
       PlanFirstTextureAccess, PlanTextureRead, PlanTextureBarrier, Plan, PlanReturn
  <2>2. PICK lead \in Seq(Nat) : PlanInv(lead)
    BY <1>2, <2>1
  <2>3. OrderInv(lead) /\ StateInv(lead)
    BY <2>1, <2>2 DEF PlanInv
  <2>4. PICK l \in Seq(Nat) : TurnTaken(lead, l)
    <3>1. CASE PlanReturn
      BY <1>1, <2>3, <3>1, ReturnTurn
    <3>2. CASE ~PlanReturn
      BY <1>5, <2>3, <3>2, DependencyTurn DEF PlanBarriers
    <3>3. QED
      BY <3>1, <3>2
  <2>5. PlanInv(l)'
    BY <2>2, <2>4, PlanInvTaken
  <2>6. pc' \notin Emitting
    BY <2>4 DEF TurnTaken, TurnSettled, Emitting
  <2>7. QED
    BY <2>5, <2>6
<1>6. CASE StartTasks
  <2>1. pc = "planning"
    BY <1>6 DEF StartTasks
  <2>2. PICK lead \in Seq(Nat) : PlanInv(lead)
    BY <1>2, <2>1
  <2>3. QED
    BY <1>6, <2>2, StartTasksStep
<1>7. CASE Emit
  <2>1. pc \in Emitting /\ pc' \in Emitting
    BY <1>7 DEF Emit, EmitGlobalBarrier, EmitLocalBarrier, RunTask, Submit, Emitting
  <2>2. PICK lead \in Seq(Nat) : PlanInv(lead) /\ EmitInv(lead)
    BY <1>2, <2>1
  <2>3. ~Submit
    BY <2>1 DEF Submit, Emitting
  <2>4. PlanInv(lead)' /\ EmitInv(lead)'
    BY <1>7, <2>1, <2>2, <2>3, EmitGlobalStep, EmitLocalStep, RunTaskStep DEF Emit
  <2>5. QED
    BY <2>4
<1>8. QED
  BY <1>3, <1>4, <1>5, <1>6, <1>7 DEF Next, PlanBarriers

LEMMA GraphInvariant == Spec => [](DataInv /\ GraphInv)
<1>1. Init => DataInv /\ GraphInv
  BY DataInvInit, GraphInvInit
<1>2. (DataInv /\ GraphInv) /\ [Next]_vars => (DataInv /\ GraphInv)'
  BY DataInvStep, GraphInvStep
<1>3. QED
  BY <1>1, <1>2, PTL DEF Spec

-----------------------------------------------------------------------------
(* When the chain of a task has been walked, exactly the barriers of the   *)
(* turns up to that task have been emitted.                                *)
Walked == pc \in {"local barriers", "post barriers"} /\ chain = 0

LEMMA ChainWalked ==
  ASSUME DataInv, NEW lead, Walked, NEW m \in Turns
  PROVE  Emitted(lead, m) <=> TaskAt(m) <= cursor
<1>1. TaskAt(m) \in Nat
  BY TurnTypes
<1>2. cursor \in Nat /\ Len(barriers) \in Nat /\ chain = 0
  BY TurnTypes DEF DataInv, PhaseInv, Walked
<1>3. \A i \in 1..Len(barriers) : chain < i
  BY ONLY <1>2
<1>4. Emitted(lead, m) <=> TaskAt(m) < cursor \/ TaskAt(m) = cursor
  BY <1>3 DEF Emitted, Walked
<1>5. QED
  BY ONLY <1>1, <1>2, <1>4

LEMMA WalkedFacts ==
  ASSUME GraphInv, Walked
  PROVE  /\ pc # "planning"
         /\ \E lead \in Seq(Nat) : PlanInv(lead) /\ EmitInv(lead)
BY DEF GraphInv, Walked, Emitting

(* The layout of a texture between two of its barriers.                    *)
LEMMA LayoutAfterUse ==
  ASSUME DataInv, NEW lead, GroupInv, LayoutInv(lead), pc # "planning",
         NEW r \in 1..Len(resources), IsTexture(r), NEW e \in Uses(r),
         \A m \in Turns : ResourceAt(m) = r /\ Starts(m) => (Emitted(lead, m) <=> m <= e)
  PROVE  layoutOf[r] = dependencies[e].layout
<1>1. e \in Nat /\ e \in Turns /\ e < Horizon /\ Turns \subseteq Nat /\ 0 \in Nat
  BY BelowHorizon, TurnTypes
<1>2. CASE NoStart(r, 0, e)
  <2>1. \A m \in Turns : ResourceAt(m) = r /\ Starts(m) => ~Emitted(lead, m)
    <3> TAKE m \in Turns
    <3> HAVE ResourceAt(m) = r /\ Starts(m)
    <3>1. 0 < m
      BY DEF Turns
    <3>2. QED
      BY <1>2, <3>1 DEF NoStart
  <2>2. layoutOf[r] = resources[r].pre
    BY <2>1 DEF LayoutInv
  <2>3. QED
    BY <1>1, <1>2, <2>2 DEF GroupInv
<1>3. CASE ~NoStart(r, 0, e)
  <2>1. PICK m \in Turns : ResourceAt(m) = r /\ 0 < m /\ m <= e /\ Starts(m) /\ NoStart(r, m, e)
    BY <1>1, <1>3, LastStartExists
  <2>2. \A k \in Turns : ResourceAt(k) = r /\ Starts(k) /\ m < k => ~Emitted(lead, k)
    BY <2>1 DEF NoStart
  <2>3. layoutOf[r] = LayoutAt(m)
    BY <2>1, <2>2 DEF LayoutInv
  <2>4. m \in Uses(r) /\ LayoutAt(m) = dependencies[m].layout
    <3>1. m \in Nat /\ e \in 1..Len(dependencies) /\ Len(dependencies) \in Nat
      BY <1>1, TurnTypes
    <3>2. m <= Len(dependencies)
      BY ONLY <2>1, <3>1
    <3>3. QED
      BY <2>1, <3>2, TurnTypes
  <2>5. QED
    BY <1>1, <2>1, <2>3, <2>4 DEF GroupInv
<1>4. QED
  BY <1>2, <1>3

(* When a task is about to run, what the earlier tasks did to its          *)
(* resources is visible to every stage and access it declared, reads after *)
(* reads excepted.                                                         *)
THEOREM AccessesAlwaysOrdered == Spec => []AccessesOrdered
<1>1. DataInv /\ GraphInv => AccessesOrdered
  <2> SUFFICES ASSUME DataInv, GraphInv, Walked,
                        NEW dep \in DependenciesOf(cursor), NEW h \in history,
                        h.resource = dep.resource,
                        ~(IsReadOnly(dep.scope.access) /\ IsReadOnly({h.token[2]}))
                 PROVE  Tokens(dep.scope) \subseteq h.visible
    BY DEF AccessesOrdered, Walked
  <2>1. PICK lead \in Seq(Nat) : PlanInv(lead) /\ EmitInv(lead)
    BY WalkedFacts
  <2>2. PICK r, t : r = dep.resource /\ t = cursor
    OBVIOUS
  <2>3. PICK u \in 1..Len(dependencies) : dependencies[u] = dep /\ dependencies[u].task = t
    BY <2>2 DEF DependenciesOf
  <2>4. /\ u \in Uses(r) /\ ScopeAt(u) = dep.scope /\ TaskAt(u) = t /\ u \in Turns
        /\ u \in Nat /\ u < Horizon /\ r \in 1..Len(resources)
    <3>1. u \in Uses(r)
      BY <2>2, <2>3 DEF Uses
    <3>2. u \in Turns /\ TaskAt(u) = t /\ r \in 1..Len(resources)
      BY <2>3, <3>1, TurnTypes
    <3>3. u \in Nat /\ u < Horizon
      BY <3>2, BelowHorizon, WalkedFacts
    <3>4. u <= Len(dependencies)
      BY <2>3
    <3>5. ScopeAt(u) = dep.scope
      BY <2>3, <3>4 DEF ScopeAt
    <3>6. QED
      BY <3>1, <3>2, <3>3, <3>5
  <2>5. PICK d \in Uses(r) :
          /\ dependencies[d].task < t /\ h.token \in Tokens(ScopeAt(d))
          /\ \A m \in Turns :
               /\ ResourceAt(m) = r /\ d < m /\ Starts(m) /\ Emitted(lead, m)
               => \A e \in Uses(r) : m <= e /\ NoStart(r, m, e) => Tokens(ScopeAt(e)) \subseteq h.visible
    BY <2>1, <2>2 DEF EmitInv, HistoryInv
  <2>6. d < u /\ d \in Nat
    <3>1. TaskAt(d) < TaskAt(u) /\ ResourceAt(u) = r /\ d \in Turns
      BY <2>4, <2>5, TurnTypes
    <3>2. QED
      BY <2>4, <3>1, TurnOrder, TurnTypes
  <2>7. ~NoStart(r, d, u)
    <3>1. SUFFICES ASSUME NoStart(r, d, u) PROVE FALSE
      OBVIOUS
    <3>2. ReadOnly(d) /\ ReadOnly(u)
      BY <2>1, <2>4, <2>6, <3>1 DEF PlanInv, GroupInv
    <3>3. ScopeAt(d) = dependencies[d].scope
      <4>1. d \in 1..Len(dependencies)
        BY TurnTypes
      <4>2. QED
        BY <4>1 DEF ScopeAt
    <3>4. h.token[2] \in dependencies[d].scope.access
      BY <2>5, <3>3 DEF Tokens
    <3>5. QED
      BY <2>3, <3>2, <3>4 DEF ReadOnly, IsReadOnly
  <2>8. PICK m \in Turns : ResourceAt(m) = r /\ d < m /\ m <= u /\ Starts(m) /\ NoStart(r, m, u)
    BY <2>4, <2>6, <2>7, LastStartExists
  <2>9. TaskAt(m) <= t
    <3>1. ~(TaskAt(u) < TaskAt(m)) \/ u < m
      BY <2>4, <2>8, TurnOrder
    <3>2. TaskAt(m) \in Nat /\ TaskAt(u) \in Nat /\ m \in Nat
      <4>1. \A k \in Turns : k \in Nat /\ TaskAt(k) \in 1..(Len(tasks) + 1) /\ Len(tasks) \in Nat
        BY TurnTypes
      <4>2. \A k \in Turns : k \in Nat /\ TaskAt(k) \in Nat
        BY ONLY <4>1
      <4>3. QED
        BY <2>4, <4>2
    <3>3. m <= u /\ TaskAt(u) = t /\ u \in Nat
      BY <2>4, <2>8
    <3>4. QED
      BY ONLY <3>1, <3>2, <3>3
  <2>10. Emitted(lead, m)
    BY <2>2, <2>9, ChainWalked
  <2>11. QED
    BY <2>4, <2>5, <2>8, <2>10
<1>2. QED
  BY <1>1, GraphInvariant, PTL

(* A task finds its textures in the layouts it declared.                   *)
THEOREM LayoutsAlwaysAgree == Spec => []LayoutsAgree
<1>1. DataInv /\ GraphInv => LayoutsAgree
  <2> SUFFICES ASSUME DataInv, GraphInv, Walked,
                        NEW dep \in DependenciesOf(cursor), IsTexture(dep.resource)
                 PROVE  layoutOf[dep.resource] = dep.layout
    BY DEF LayoutsAgree, Walked
  <2>1. PICK lead \in Seq(Nat) : PlanInv(lead) /\ EmitInv(lead)
    BY WalkedFacts
  <2>2. PICK r, t : r = dep.resource /\ t = cursor
    OBVIOUS
  <2>3. PICK u \in 1..Len(dependencies) : dependencies[u] = dep /\ dependencies[u].task = t
    BY <2>2 DEF DependenciesOf
  <2>4. u \in Uses(r)
    BY <2>2, <2>3 DEF Uses
  <2>5. u \in Turns /\ TaskAt(u) = t /\ r \in 1..Len(resources) /\ ResourceAt(u) = r /\ u \in Nat
    BY <2>3, <2>4, TurnTypes
  <2>6. \A m \in Turns : ResourceAt(m) = r /\ Starts(m) => (Emitted(lead, m) <=> m <= u)
    <3> TAKE m \in Turns
    <3> HAVE ResourceAt(m) = r /\ Starts(m)
    <3>1. Emitted(lead, m) <=> TaskAt(m) <= t
      BY <2>2, ChainWalked
    <3>2. (u < m) <=> (t < TaskAt(m))
      BY <2>4, <2>5, TurnOrder
    <3>3. TaskAt(m) \in Nat /\ t \in Nat /\ m \in Nat /\ u \in Nat
      <4>1. \A k \in Turns : k \in Nat /\ TaskAt(k) \in 1..(Len(tasks) + 1) /\ Len(tasks) \in Nat
        BY TurnTypes
      <4>2. \A k \in Turns : k \in Nat /\ TaskAt(k) \in Nat
        BY ONLY <4>1
      <4>3. QED
        BY <2>5, <4>2
    <3>4. QED
      BY ONLY <3>1, <3>2, <3>3
  <2>7. layoutOf[r] = dependencies[u].layout
    BY <2>1, <2>2, <2>4, <2>5, <2>6, LayoutAfterUse, WalkedFacts DEF PlanInv, EmitInv
  <2>8. QED
    BY <2>2, <2>3, <2>7
<1>2. QED
  BY <1>1, GraphInvariant, PTL

(* A frame hands every imported texture back in the layout its owner       *)
(* expects.                                                                *)
THEOREM ImportsAlwaysHandedBack == Spec => []ImportsHandedBack
<1>1. DataInv /\ GraphInv => ImportsHandedBack
  <2> SUFFICES ASSUME DataInv, GraphInv, Walked, cursor = Len(tasks) + 1,
                        NEW r \in 1..Len(resources), IsTexture(r), resources[r].isImported
                 PROVE  layoutOf[r] = resources[r].post
    BY DEF ImportsHandedBack, Walked, DataInv, PhaseInv
  <2>1. PICK lead \in Seq(Nat) : PlanInv(lead) /\ EmitInv(lead)
    BY WalkedFacts
  <2>2. PICK m : m = Len(dependencies) + r
    OBVIOUS
  <2>3. /\ Len(dependencies) \in Nat /\ Len(resources) \in Nat /\ r \in Nat
        /\ Len(tasks) \in Nat /\ cursor = Len(tasks) + 1
    BY TurnTypes
  <2>4. m \in Turns /\ m \in Nat /\ ~(m <= Len(dependencies)) /\ m > Len(dependencies)
    BY <2>2, <2>3 DEF Turns
  <2>5. ResourceAt(m) = r /\ LayoutAt(m) = resources[r].post
    BY <2>2, <2>3, <2>4 DEF ResourceAt, LayoutAt
  <2>6. \A k \in Turns : Emitted(lead, k)
    <3> TAKE k \in Turns
    <3>1. TaskAt(k) \in 1..(Len(tasks) + 1)
      BY TurnTypes
    <3>2. TaskAt(k) <= cursor
      BY ONLY <2>3, <3>1
    <3>3. QED
      BY <3>2, ChainWalked
  <2>7. \A k \in Turns : ResourceAt(k) = r => (k \in Uses(r) /\ k < m) \/ k = m
    <3> TAKE k \in Turns
    <3> HAVE ResourceAt(k) = r
    <3>1. k \in Nat /\ (k <= Len(dependencies) => k \in Uses(r))
      BY TurnTypes
    <3>2. ~(k <= Len(dependencies)) => k - Len(dependencies) = r
      BY DEF ResourceAt
    <3>3. QED
      BY <2>2, <2>3, <2>4, <3>1, <3>2
  <2>8. CASE Starts(m)
    <3>1. \A k \in Turns : ResourceAt(k) = r => ~(m < k)
      BY <2>4, <2>7, TurnTypes
    <3>2. layoutOf[r] = LayoutAt(m)
      BY <2>1, <2>4, <2>5, <2>6, <2>8, <3>1 DEF EmitInv, LayoutInv
    <3>3. QED
      BY <2>5, <3>2
  <2>9. CASE ~Starts(m)
    <3>1. PICK e \in Uses(r) : LastUse(r, e, m) /\ dependencies[e].layout = resources[r].post
      BY <2>4, <2>5, <2>9 DEF Starts
    <3>2. \A k \in Turns : ResourceAt(k) = r /\ Starts(k) => (Emitted(lead, k) <=> k <= e)
      BY <2>6, <2>7, <2>9, <3>1 DEF LastUse
    <3>3. layoutOf[r] = dependencies[e].layout
      BY <2>1, <3>2, LayoutAfterUse, WalkedFacts DEF PlanInv, EmitInv
    <3>4. QED
      BY <3>1, <3>3
  <2>10. QED
    BY <2>8, <2>9
<1>2. QED
  BY <1>1, GraphInvariant, PTL

(* The barrier about to be emitted: those of its texture emitted so far    *)
(* are those of the turns before its own.                                  *)
Walking == pc \in {"local barriers", "post barriers"} /\ chain # 0

LEMMA WalkingFacts ==
  ASSUME GraphInv, Walking
  PROVE  /\ pc # "planning"
         /\ \E lead \in Seq(Nat) : PlanInv(lead) /\ EmitInv(lead)
BY DEF GraphInv, Walking, Emitting

LEMMA ChainInWalk ==
  ASSUME DataInv, NEW lead, PlanInv(lead), EmitInv(lead), Walking,
         NEW c, c = chain, NEW m0, m0 = lead[c], NEW r0, r0 = ResourceAt(m0)
  PROVE  /\ c \in 1..Len(barriers) /\ m0 \in Turns /\ Starts(m0) /\ IsTexture(r0)
         /\ r0 \in 1..Len(resources) /\ TaskAt(m0) = cursor
         /\ \A m \in Turns : ResourceAt(m) = r0 => (Emitted(lead, m) <=> m < m0)
<1>1. chain \in 0..Len(barriers) /\ chain # 0 /\ Len(barriers) \in Nat
  BY TurnTypes DEF DataInv, IndexInv, Walking
<1>2. c \in 1..Len(barriers) /\ c \in Nat
  BY ONLY <1>1, c = chain
<1>3. OrderInv(lead)
  BY DEF PlanInv
<1>4. m0 \in Turns /\ Starts(m0) /\ IsTexture(r0)
  BY <1>2, <1>3 DEF OrderInv
<1>5. TaskAt(m0) = cursor
  BY <1>1 DEF EmitInv
<1>6. r0 \in 1..Len(resources) /\ cursor \in Nat /\ m0 \in Nat
  BY <1>4, TurnTypes DEF DataInv, PhaseInv
<1>7. ASSUME NEW m \in Turns, ResourceAt(m) = r0 PROVE Emitted(lead, m) <=> m < m0
  <2>1. m \in Nat /\ TaskAt(m) \in Nat
    BY TurnTypes
  <2>2. CASE m < m0
    <3>1. TaskAt(m) < cursor
      BY <1>4, <1>5, <1>7, <2>2, EarlierIsUse
    <3>2. QED
      BY <2>2, <3>1 DEF Emitted
  <2>3. CASE m0 < m
    <3>1. cursor < TaskAt(m)
      BY <1>4, <1>5, <1>7, <2>3, EarlierIsUse
    <3>2. ~(TaskAt(m) < cursor) /\ TaskAt(m) # cursor /\ ~(m < m0)
      BY ONLY <1>6, <2>1, <2>3, <3>1
    <3>3. QED
      BY <3>2 DEF Emitted
  <2>4. CASE m = m0
    <3>1. ~(TaskAt(m) < cursor) /\ ~(m < m0) /\ ~(c < c)
      BY <1>2, <1>5, <1>6, <2>4
    <3>2. IsTexture(ResourceAt(m)) /\ ~(\A i \in 1..Len(barriers) : lead[i] = m => chain < i)
      BY <1>2, <1>4, <1>7, <2>4, <3>1
    <3>3. QED
      BY <3>1, <3>2 DEF Emitted
  <2>5. QED
    BY <1>6, <2>1, <2>2, <2>3, <2>4
<1>8. QED
  BY <1>2, <1>4, <1>5, <1>6, <1>7

(* A layout transition names the layout the texture is in and waits for    *)
(* every earlier access of it.                                             *)
THEOREM TransitionsAlwaysSafe == Spec => []TransitionsSafe
<1>1. DataInv /\ GraphInv => TransitionsSafe
  <2> SUFFICES ASSUME DataInv, GraphInv, Walking, ValidBarrier(barriers[chain])
               PROVE  /\ barriers[chain].layoutBefore = layoutOf[barriers[chain].resource]
                      /\ \A a \in history : a.resource = barriers[chain].resource =>
                           Covers(barriers[chain].before, a)
    BY DEF TransitionsSafe, Walking
  <2>1. PICK lead \in Seq(Nat) : PlanInv(lead) /\ EmitInv(lead)
    BY WalkingFacts
  <2>2. PICK c, b : c = chain /\ b = barriers[c]
    OBVIOUS
  <2>3. PICK m0, r0 : m0 = lead[c] /\ r0 = ResourceAt(m0)
    OBVIOUS
  <2>4. /\ c \in 1..Len(barriers) /\ m0 \in Turns /\ Starts(m0) /\ IsTexture(r0)
        /\ r0 \in 1..Len(resources) /\ TaskAt(m0) = cursor
        /\ \A m \in Turns : ResourceAt(m) = r0 => (Emitted(lead, m) <=> m < m0)
    BY <2>1, <2>2, <2>3, ChainInWalk
  <2>5. m0 \in Nat /\ Len(dependencies) \in Nat
    BY <2>4, TurnTypes
  <2>6. /\ b.resource = r0
        /\ \A e \in Uses(r0) : LastUse(r0, e, m0) => b.layoutBefore = dependencies[e].layout
        /\ Unused(r0, m0) =>
             IF m0 <= Len(dependencies) THEN b.layoutBefore = resources[r0].pre
             ELSE b.before = NoScope /\ b.after = NoScope
    BY <2>1, <2>2, <2>3, <2>4 DEF PlanInv, BarrierInv
  <2>7. b.layoutBefore = layoutOf[r0]
    <3>1. CASE Unused(r0, m0)
      <4>1. \A m \in Turns : ResourceAt(m) = r0 => ~Emitted(lead, m)
        BY <2>3, <2>4, <3>1, EarlierIsUse DEF Unused
      <4>2. layoutOf[r0] = resources[r0].pre
        BY <2>1, <2>4, <4>1 DEF EmitInv, LayoutInv
      <4>3. ~(b.before = NoScope /\ b.after = NoScope)
        BY <2>2, Scopes DEF ValidBarrier, NamesAnAccess
      <4>4. QED
        BY <2>6, <3>1, <4>2, <4>3
    <3>2. CASE ~Unused(r0, m0)
      <4>1. PICK e \in Uses(r0) : LastUse(r0, e, m0)
        BY <2>5, <3>2, LastUseExists
      <4>2. e \in Nat /\ e < m0
        BY <4>1, TurnTypes DEF LastUse
      <4>3. \A m \in Turns : ResourceAt(m) = r0 /\ Starts(m) => (Emitted(lead, m) <=> m <= e)
        <5> TAKE m \in Turns
        <5> HAVE ResourceAt(m) = r0 /\ Starts(m)
        <5>1. Emitted(lead, m) <=> m < m0
          BY <2>4
        <5>2. m < m0 => m <= e
          BY <2>3, <2>4, <4>1, EarlierIsUse DEF LastUse
        <5>3. m \in Nat
          BY TurnTypes
        <5>4. QED
          BY ONLY <2>5, <4>2, <5>1, <5>2, <5>3
      <4>4. layoutOf[r0] = dependencies[e].layout
        BY <2>1, <2>4, <4>3, LayoutAfterUse, WalkingFacts DEF PlanInv, EmitInv
      <4>5. QED
        BY <2>6, <4>1, <4>4
    <3>3. QED
      BY <3>1, <3>2
  <2>8. ASSUME NEW a \in history, a.resource = r0 PROVE Covers(b.before, a)
    <3>1. PICK d \in Uses(r0) :
            /\ dependencies[d].task < cursor /\ a.token \in Tokens(ScopeAt(d))
            /\ \A m \in Turns :
                 /\ ResourceAt(m) = r0 /\ d < m /\ Starts(m) /\ Emitted(lead, m)
                 => \A e \in Uses(r0) : m <= e /\ NoStart(r0, m, e) =>
                      Tokens(ScopeAt(e)) \subseteq a.visible
      BY <2>1, <2>8 DEF EmitInv, HistoryInv
    <3>2. d < m0
      <4>1. TaskAt(d) < TaskAt(m0)
        BY <2>4, <3>1, TurnTypes
      <4>2. QED
        BY <2>3, <2>4, <4>1, TurnOrder
    <3>3. \A k \in Turns : ResourceAt(k) = r0 /\ d < k /\ k < m0 /\ Starts(k) =>
            \A e \in Uses(r0) : k <= e /\ NoStart(r0, k, e) => Tokens(ScopeAt(e)) \subseteq a.visible
      BY <2>4, <3>1
    <3>4. \A e \in Uses(r0) : InBefore(lead, e, m0) => Within(ScopeAt(e), b.before)
      BY <2>2, <2>3, <2>4 DEF InBefore
    <3>5. PICK before : before = b.before
      OBVIOUS
    <3>6. Covers(before, a)
      BY <2>1, <2>3, <2>4, <3>1, <3>2, <3>3, <3>4, <3>5, EarlierCovered, WalkingFacts DEF PlanInv
    <3>7. QED
      BY <3>5, <3>6
  <2>9. QED
    BY <2>2, <2>6, <2>7, <2>8
<1>2. QED
  BY <1>1, GraphInvariant, PTL

=============================================================================
