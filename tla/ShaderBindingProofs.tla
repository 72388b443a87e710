------------------------- MODULE ShaderBindingProofs -------------------------
(***************************************************************************)
(* For all libraries and texts, any number of allocators, any size of the  *)
(* pools and any width of the reset counter: the type invariant, that      *)
(* descriptor sets in use do not overlap (SetsDisjoint), and that a bound  *)
(* set is one of the present epoch of its allocator, up to multiples of    *)
(* the width (StaleSetsRefused).                                           *)
(*                                                                         *)
(* The argument is the fill level: the sets of an allocator's epoch lie    *)
(* below it, one behind the other, and a reset, which lets the level drop, *)
(* ends the epoch of all of them.  No set is bound while an allocator is   *)
(* reset, since that is done between two frames.                           *)
(***************************************************************************)
EXTENDS ShaderBinding, IntegerLemmas, SequenceTheorems

IsSeq(s) == \E S : s \in Seq(S)

RewriterInv ==
  /\ pc \in {"scan", "attribute", "list", "declaration"} \cup Ended
  /\ Len(source) \in Nat
  /\ at \in 1..(Len(source) + 1) /\ from \in 1..at

BuildInv ==
  /\ library \in DOMAIN Libraries
  /\ phase \in {"compiling", "compiled", "stored", "running", "stopped"}
  /\ IsSeq(compiled) /\ Len(compiled) <= Len(Shaders)
  /\ phase = "compiling" => Len(compiled) < Len(Shaders)

(* Before a library is loaded nothing is on the device; what is loaded has *)
(* as many bindings in a set layout as its blob says.                      *)
Idle ==
  /\ allocators = <<>> /\ sets = <<>>
  /\ list = EmptyList /\ draws = {} /\ frame = "recording"
SetSize(l) == Len(loaded.sets[l].bindings)
LoadedInv ==
  /\ phase # "running" => Idle
  /\ phase = "running" => \A l \in DOMAIN loaded.sets : SetSize(l) \in Nat

HeapInv == DOMAIN heap = 0..(HeapSize - 1) /\ \A i \in DOMAIN heap : heap[i] \in Views \cup {None}

AllocatorsInv ==
  /\ DOMAIN allocators \subseteq Allocators
  /\ allocators \in [DOMAIN allocators -> [fill : 0..ChunkSize, resets : 0..MaxResets]]

(* A list is empty between frames.                                         *)
ListInv ==
  /\ DOMAIN list = {"type", "layout", "program", "bound", "d3d"}
  /\ list.type \in PipelineTypes \cup {"Undefined"}
  /\ DOMAIN list.bound \subseteq BindingNames
  /\ frame \in {"recording", "closed", "submitted"}
  /\ frame # "recording" => list = EmptyList

(* A set lies in its allocator's chunk, below the fill level as long as    *)
(* the epoch lasts; later sets of an epoch lie behind earlier ones.        *)
SetInv(s) ==
  /\ DOMAIN s = {"layout", "base", "allocator", "counter", "epoch", "contents"}
  /\ s.layout \in DOMAIN loaded.sets
  /\ s.allocator \in DOMAIN allocators
  /\ s.base \in Nat /\ s.base >= ChunkOffset(s.allocator)
  /\ s.epoch \in 0..allocators[s.allocator].resets
  /\ s.counter = s.epoch % ResetCounterModulus
  /\ InUse(s) => s.base + SetSize(s.layout) <= ChunkOffset(s.allocator) + allocators[s.allocator].fill
SetsInv ==
  /\ IsSeq(sets)
  /\ \A i \in 1..Len(sets) : SetInv(sets[i])
  /\ \A i, j \in 1..Len(sets) :
       i < j /\ sets[i].allocator = sets[j].allocator /\ InUse(sets[i]) /\ InUse(sets[j])
         => sets[i].base + SetSize(sets[i].layout) <= sets[j].base

(* A set in a list or in a draw decomposes.                                *)
Bounds == {list.bound} \cup {draw.bound : draw \in draws}
Resolves(bound) == \A s \in BoundSets(bound) : s \in 1..Len(sets) /\ Decomposes(sets[s])
BoundInv == \A bound \in Bounds : Resolves(bound)

DeviceInv == LoadedInv /\ HeapInv /\ AllocatorsInv /\ ListInv /\ SetsInv /\ BoundInv
BindingInv == RewriterInv /\ BuildInv /\ DeviceInv

-----------------------------------------------------------------------------
(* What Min makes of two numbers, and of a set with a bound.               *)
LEMMA MinOfTwo ==
  ASSUME NEW a \in Nat, NEW b \in Nat
  PROVE  Min({a, b}) = IF a <= b THEN a ELSE b
<1> DEFINE m == IF a <= b THEN a ELSE b
<1>1. m \in {a, b} /\ \A y \in {a, b} : m <= y
  OBVIOUS
<1>2. \A x \in {a, b} : (\A y \in {a, b} : x <= y) => x = m
  OBVIOUS
<1>3. QED
  BY <1>1, <1>2 DEF Min

LEMMA MinIsLeast ==
  ASSUME NEW S \in SUBSET Nat, S # {}, NEW bound \in Nat, \A n \in S : n <= bound
  PROVE  Min(S) \in S /\ \A n \in S : Min(S) <= n
BY LeastExists DEF Min

(* The lexer stands at the end of the source at the latest.                *)
LEMMA Advances ==
  ASSUME RewriterInv, NEW p \in Nat, at <= p, NEW next, AdvanceTo(p, next)
  PROVE  /\ at' \in 1..(Len(source) + 1) /\ at <= at'
         /\ p <= Len(source) + 1 => at' = p
         /\ pc' \in {"failed", next}
<1>1. at \in Nat /\ Len(source) \in Nat /\ 1 <= at /\ at <= Len(source) + 1
  BY DEF RewriterInv
<1>2. at' = IF p <= Len(source) + 1 THEN p ELSE Len(source) + 1
  BY <1>1, MinOfTwo DEF AdvanceTo
<1>3. QED
  BY <1>1, <1>2 DEF AdvanceTo

(* What has a shape other than the end of the file lies in the source.     *)
LEMMA InSource ==
  ASSUME RewriterInv, NEW p \in Nat, Lexeme(p).kind # "eof"
  PROVE  p <= Len(source)
BY DEF RewriterInv, Lexeme

LEMMA ArgumentsInSource ==
  ASSUME RewriterInv, NEW p \in Nat, BindingArguments(p) # None
  PROVE  /\ BindingArguments(p).after \in {p + 3, p + 5}
         /\ BindingArguments(p).after <= Len(source) + 1
<1>1. CASE HasShape(p, <<"(", "id", ")">>)
  <2>2. 3 \in DOMAIN <<"(", "id", ")">> /\ <<"(", "id", ")">>[3] = ")"
    OBVIOUS
  <2>3. Lexeme(p + 3 - 1).kind = ")"
    BY <1>1, <2>2 DEF HasShape
  <2>6. 3 \in DOMAIN <<"(", "id", "::", "id", ")">> /\ <<"(", "id", "::", "id", ")">>[3] = "::"
    OBVIOUS
  <2>7. ~HasShape(p, <<"(", "id", "::", "id", ")">>)
    BY <2>3, <2>6 DEF HasShape
  <2>1. BindingArguments(p) = [root |-> Lexeme(p + 1).text, nested |-> None, after |-> p + 3]
    BY <1>1, <2>7, Zenon DEF BindingArguments
  <2>4. p + 3 - 1 <= Len(source)
    BY <2>3, InSource
  <2>5. QED
    BY <2>1, <2>4 DEF RewriterInv
<1>2. CASE ~HasShape(p, <<"(", "id", ")">>) /\ HasShape(p, <<"(", "id", "::", "id", ")">>)
  <2>1. BindingArguments(p) = [root |-> Lexeme(p + 1).text, nested |-> Lexeme(p + 3).text, after |-> p + 5]
    BY <1>2, Zenon DEF BindingArguments
  <2>2. 5 \in DOMAIN <<"(", "id", "::", "id", ")">> /\ <<"(", "id", "::", "id", ")">>[5] = ")"
    OBVIOUS
  <2>3. Lexeme(p + 5 - 1).kind = ")"
    BY <1>2, <2>2 DEF HasShape
  <2>4. p + 5 - 1 <= Len(source)
    BY <2>3, InSource
  <2>5. QED
    BY <2>1, <2>4 DEF RewriterInv
<1>3. CASE ~HasShape(p, <<"(", "id", ")">>) /\ ~HasShape(p, <<"(", "id", "::", "id", ")">>)
  <2>1. BindingArguments(p) = None
    BY <1>3, Zenon DEF BindingArguments
  <2>2. QED
    BY <2>1
<1>4. QED
  BY <1>1, <1>2, <1>3

LEMMA AttributeRange ==
  ASSUME RewriterInv, AfterAttribute # None
  PROVE  /\ AfterAttribute \in Nat /\ at <= AfterAttribute
         /\ IsBinding => AfterAttribute <= Len(source) + 1
<1> DEFINE closing == ClosingParens(AfterName)
<1>1. at \in Nat /\ Len(source) \in Nat /\ at <= Len(source) + 1
  BY DEF RewriterInv
<1>2. AfterName \in Nat /\ at < AfterName
  BY <1>1 DEF AfterName
<1>3. CASE IsBinding
  <2>1. /\ Lexeme(at).kind = "id"
        /\ AfterAttribute = BindingArguments(AfterName).after
        /\ BindingArguments(AfterName) # None
    BY <1>3 DEF AfterAttribute, IsBinding
  <2>2. QED
    BY <2>1, <1>1, <1>2, ArgumentsInSource
<1>4. CASE ~IsBinding
  <2>1. \/ AfterAttribute = at
        \/ AfterAttribute = AfterName + 1
        \/ closing # {} /\ AfterAttribute = Min(closing) + 1
    BY <1>4 DEF AfterAttribute
  <2>2. closing \in SUBSET Nat /\ (\A q \in closing : q <= Len(source) /\ AfterName <= q)
    BY <1>1, <1>2 DEF ClosingParens
  <2>3. CASE closing # {} /\ AfterAttribute = Min(closing) + 1
    <3>1. Min(closing) \in closing
      BY <2>2, <2>3, <1>1, MinIsLeast
    <3>2. PICK q \in closing : q = Min(closing)
      BY <3>1
    <3>3. q \in Nat /\ AfterName <= q /\ AfterAttribute = q + 1
      BY <2>2, <2>3, <3>2
    <3>4. QED
      BY <1>1, <1>2, <1>4, <3>3
  <2>4. CASE AfterAttribute \in {at, AfterName + 1}
    BY <1>1, <1>2, <1>4, <2>4
  <2>5. QED
    BY <2>1, <2>3, <2>4
<1>5. QED
  BY <1>3, <1>4

LEMMA DeclarationRange ==
  ASSUME RewriterInv, NEW type, DeclarationEnd(type) # None
  PROVE  DeclarationEnd(type) \in Nat /\ at <= DeclarationEnd(type) /\ DeclarationEnd(type) <= Len(source)
<1> DEFINE name == IF type = "SamplerState" THEN at + 1
                   ELSE IF HasShape(at + 1, <<"<", "id", ">">>) THEN at + 4
                   ELSE IF Lexeme(at + 1).kind \in {"<", "bad"} THEN Len(source) + 1 ELSE at + 2
<1>1. at \in Nat /\ Len(source) \in Nat /\ at <= Len(source) + 1
  BY DEF RewriterInv
<1>2. name \in Nat /\ at <= name
  BY <1>1
<1>3. DeclarationEnd(type) = name + 1 /\ HasShape(name, <<"id", ";">>)
  BY DEF DeclarationEnd
<1> HIDE DEF name
<1>4. 2 \in DOMAIN <<"id", ";">> /\ <<"id", ";">>[2] = ";"
  OBVIOUS
<1>5. name + 2 - 1 = name + 1 /\ name + 1 \in Nat
  BY <1>2
<1>6. Lexeme(name + 1).kind = ";"
  BY <1>3, <1>4, <1>5 DEF HasShape
<1>7. name + 1 <= Len(source)
  BY <1>5, <1>6, InSource
<1>8. DeclarationEnd(type) = name + 1
  BY <1>3
<1>9. QED
  BY ONLY <1>1, <1>2, <1>7, <1>8

LEMMA RewriteStep ==
  ASSUME RewriterInv, Rewrite
  PROVE  RewriterInv'
<1>1. at \in Nat /\ Len(source) \in Nat /\ at \in 1..(Len(source) + 1) /\ from \in 1..at
  BY DEF RewriterInv
<1>2. UNCHANGED source
  BY DEF Rewrite
<1>3. CASE Scan
  <2>1. CASE Fail
    BY <1>1, <1>2, <2>1 DEF Fail, RewriterInv, Ended
  <2>2. CASE ~Fail
    <3>1. PICK next \in {"attribute", "scan"} : AdvanceTo(at + 1, next)
      BY <1>3, <2>2 DEF Scan
    <3>2. from' = from
      BY <1>3, <2>2 DEF Scan
    <3>3. at' \in 1..(Len(source) + 1) /\ at <= at' /\ pc' \in {"failed", next}
      BY <1>1, <3>1, Advances
    <3>4. QED
      BY <1>1, <1>2, <3>2, <3>3 DEF RewriterInv, Ended
  <2>3. QED
    BY <2>1, <2>2
<1>4. CASE ProcessAttribute
  <2>1. CASE AfterAttribute = None
    BY <1>1, <1>2, <1>4, <2>1 DEF ProcessAttribute, Fail, RewriterInv, Ended
  <2>2. CASE AfterAttribute # None
    <3>1. /\ AfterAttribute \in Nat /\ at <= AfterAttribute
          /\ IsBinding => AfterAttribute <= Len(source) + 1
      BY <2>2, AttributeRange
    <3>2. AdvanceTo(AfterAttribute, "list") /\ from' = (IF IsBinding THEN AfterAttribute ELSE at)
      BY <1>4, <2>2 DEF ProcessAttribute
    <3>3. /\ at' \in 1..(Len(source) + 1) /\ at <= at'
          /\ AfterAttribute <= Len(source) + 1 => at' = AfterAttribute
          /\ pc' \in {"failed", "list"}
      BY <3>1, <3>2, Advances
    <3>4. from' \in 1..at'
      BY <1>1, <3>1, <3>2, <3>3
    <3>5. QED
      BY <1>1, <1>2, <3>3, <3>4 DEF RewriterInv, Ended
  <2>3. QED
    BY <2>1, <2>2
<1>5. CASE ProcessAttributeList
  <2>1. \/ pc' = "attribute" /\ UNCHANGED <<at, from>>
        \/ Fail
        \/ UNCHANGED from /\ \E next \in {"scan", "declaration"} : AdvanceTo(at + 2, next)
    <3>1. CASE IsSeparator(Lexeme(at).kind)
      <4>1. ~HasShape(at, <<"]", "]">>)
        <5>1. 1 \in DOMAIN <<"]", "]">> /\ <<"]", "]">>[1] = "]"
          OBVIOUS
        <5>2. at + 1 - 1 = at
          BY <1>1
        <5>3. QED
          BY <3>1, <5>1, <5>2 DEF HasShape, IsSeparator
      <4>2. QED
        BY <1>5, <3>1, <4>1, Zenon DEF ProcessAttributeList
    <3>2. CASE ~IsSeparator(Lexeme(at).kind) /\ HasShape(at, <<"]", "]">>)
      <4>1. UNCHANGED from /\ AdvanceTo(at + 2, IF attribute = None THEN "scan" ELSE "declaration")
        BY <1>5, <3>2, Zenon DEF ProcessAttributeList
      <4>2. QED
        BY <4>1
    <3>3. CASE ~IsSeparator(Lexeme(at).kind) /\ ~HasShape(at, <<"]", "]">>)
      BY <1>5, <3>3, Zenon DEF ProcessAttributeList
    <3>4. QED
      BY <3>1, <3>2, <3>3
  <2>2. CASE pc' = "attribute" /\ UNCHANGED <<at, from>>
    BY <1>1, <1>2, <2>2 DEF RewriterInv
  <2>3. CASE Fail
    BY <1>1, <1>2, <2>3 DEF Fail, RewriterInv, Ended
  <2>4. CASE UNCHANGED from /\ \E next \in {"scan", "declaration"} : AdvanceTo(at + 2, next)
    <3>1. PICK next \in {"scan", "declaration"} : AdvanceTo(at + 2, next)
      BY <2>4
    <3>2. at' \in 1..(Len(source) + 1) /\ at <= at' /\ pc' \in {"failed", next}
      BY <1>1, <3>1, Advances
    <3>3. QED
      BY <1>1, <1>2, <2>4, <3>2 DEF RewriterInv, Ended
  <2>5. QED
    BY <2>1, <2>2, <2>3, <2>4
<1>6. CASE ProcessVariableDeclarationForBinding
  <2> DEFINE info == ExtractBindingInfo(attribute.root, attribute.nested)
             semicolon == IF info = None THEN None ELSE DeclarationEnd(info.type)
  <2>1. CASE semicolon = None
    BY <1>1, <1>2, <1>6, <2>1 DEF ProcessVariableDeclarationForBinding, Fail, RewriterInv, Ended
  <2>2. CASE semicolon # None
    <3>1. semicolon \in Nat /\ at <= semicolon /\ semicolon <= Len(source)
      BY <2>2, DeclarationRange
    <3>2. from' = semicolon /\ AdvanceTo(semicolon + 1, "scan")
      BY <1>6, <2>2 DEF ProcessVariableDeclarationForBinding
    <3> HIDE DEF semicolon
    <3>3. at' = semicolon + 1 /\ at' \in 1..(Len(source) + 1) /\ pc' \in {"failed", "scan"}
      BY <1>1, <3>1, <3>2, Advances
    <3>4. from' \in 1..at'
      BY <1>1, <3>1, <3>2, <3>3
    <3>5. QED
      BY <1>1, <1>2, <3>3, <3>4 DEF RewriterInv, Ended
  <2>3. QED
    BY <2>1, <2>2
<1>7. CASE Finish
  BY <1>1, <1>2, <1>7 DEF Finish, RewriterInv, Ended
<1>8. QED
  BY <1>3, <1>4, <1>5, <1>6, <1>7 DEF Rewrite

-----------------------------------------------------------------------------
(* Sequences of anything.                                                  *)
LEMMA SeqLength ==
  ASSUME NEW s, IsSeq(s)
  PROVE  Len(s) \in Nat /\ DOMAIN s = 1..Len(s)
BY LenProperties DEF IsSeq

LEMMA SeqOfNothing == IsSeq(<<>>) /\ Len(<<>>) = 0 /\ DOMAIN <<>> = {}
BY EmptySeq DEF IsSeq

LEMMA SeqAppended ==
  ASSUME NEW s, IsSeq(s), NEW e
  PROVE  /\ IsSeq(Append(s, e)) /\ Len(Append(s, e)) = Len(s) + 1
         /\ \A i \in 1..Len(s) : Append(s, e)[i] = s[i]
         /\ Append(s, e)[Len(s) + 1] = e
<1>1. PICK S : s \in Seq(S)
  BY DEF IsSeq
<1>2. s \in Seq(S \cup {e})
  BY <1>1, SeqMonotonic
<1>3. e \in S \cup {e}
  OBVIOUS
<1>4. Append(s, e) \in Seq(S \cup {e})
  BY <1>2, <1>3, AppendProperties
<1>5. QED
  BY <1>2, <1>3, <1>4, AppendProperties DEF IsSeq

LEMMA SeqRebuilt ==
  ASSUME NEW s, IsSeq(s), NEW t, t = [i \in DOMAIN s |-> t[i]]
  PROVE  IsSeq(t) /\ Len(t) = Len(s)
<1> DEFINE S == {t[i] : i \in DOMAIN s}
<1>1. Len(s) \in Nat /\ DOMAIN s = 1..Len(s)
  BY SeqLength
<1>2. t \in [1..Len(s) -> S]
  BY <1>1
<1>3. t \in Seq(S) /\ Len(t) = Len(s)
  BY <1>1, <1>2
<1>4. QED
  BY <1>3 DEF IsSeq

(* The parts of the state a step leaves alone.                             *)
LEMMA SetsKept ==
  ASSUME AllocatorsInv, SetsInv, UNCHANGED <<loaded, allocators, sets>>
  PROVE  AllocatorsInv' /\ SetsInv'
<1>1. AllocatorsInv'
  BY DEF AllocatorsInv
<1>2. SetsInv'
  BY DEF SetsInv, SetInv, InUse, SetSize, ChunkOffset
<1>3. QED
  BY <1>1, <1>2

LEMMA HeapKept ==
  ASSUME HeapInv, UNCHANGED heap
  PROVE  HeapInv'
BY DEF HeapInv, HeapSize

LEMMA ListKept ==
  ASSUME ListInv, UNCHANGED <<loaded, list, frame>>
  PROVE  ListInv'
BY DEF ListInv, BindingNames

LEMMA NothingBound == Resolves(<<>>)
BY SeqOfNothing DEF Resolves, BoundSets

LEMMA BoundsKept ==
  ASSUME BoundInv, UNCHANGED <<allocators, sets>>,
         \A bound \in Bounds' : bound \in Bounds \/ bound = <<>>
  PROVE  BoundInv'
<1> SUFFICES ASSUME NEW bound \in Bounds' PROVE Resolves(bound)'
  BY DEF BoundInv
<1>1. Resolves(bound)
  BY NothingBound DEF BoundInv
<1>2. QED
  BY <1>1 DEF Resolves, BoundSets, Decomposes

LEMMA DeviceKept ==
  ASSUME DeviceInv, UNCHANGED deviceVars, phase' = phase
  PROVE  DeviceInv'
<1> USE DEF DeviceInv, deviceVars
<1>1. LoadedInv'
  BY DEF LoadedInv, Idle, SetSize, EmptyList, NoBindings
<1>2. BoundInv'
  BY BoundsKept DEF Bounds
<1>3. QED
  BY <1>1, <1>2, SetsKept, HeapKept, ListKept

(* A device step leaves what was loaded, and the library is running.       *)
LEMMA LoadedKept ==
  ASSUME LoadedInv, phase = "running", UNCHANGED <<phase, loaded>>
  PROVE  LoadedInv'
BY DEF LoadedInv, SetSize

-----------------------------------------------------------------------------
(* What a set needs of its allocator: where chunks lie.                    *)
LEMMA ChunkNumbers ==
  ASSUME NEW a \in Allocators
  PROVE  ChunkOffset(a) \in Nat
<1>1. a \in Nat /\ BindlessSize \in Nat /\ ChunkSize \in Nat
  BY AllocatorsAssumption, BindingBoundsAssumption DEF AllocatorsAssumption, BindingBoundsAssumption
<1>2. a * ChunkSize \in Nat
  BY <1>1, Z3
<1>3. QED
  BY <1>1, <1>2 DEF ChunkOffset

LEMMA ResetNumbers ==
  ASSUME AllocatorsInv, NEW a \in DOMAIN allocators
  PROVE  /\ a \in Allocators
         /\ allocators[a].fill \in Nat /\ allocators[a].fill <= ChunkSize
         /\ allocators[a].resets \in Nat /\ allocators[a].resets <= MaxResets
BY BindingBoundsAssumption DEF BindingBoundsAssumption, AllocatorsInv

LEMMA CreateDescriptorAllocatorStep ==
  ASSUME DeviceInv, CreateDescriptorAllocator
  PROVE  AllocatorsInv' /\ SetsInv' /\ BoundInv'
<1>1. PICK a \in Allocators \ DOMAIN allocators : allocators' = With(allocators, a, [fill |-> 0, resets |-> 0])
  BY DEF CreateDescriptorAllocator
<1>2. sets = <<>> /\ list = EmptyList /\ UNCHANGED <<loaded, sets, list, draws>>
  BY DEF CreateDescriptorAllocator, Initializing
<1>3. AllocatorsInv'
  <2>1. [fill |-> 0, resets |-> 0] \in [fill : 0..ChunkSize, resets : 0..MaxResets]
    BY BindingBoundsAssumption DEF BindingBoundsAssumption
  <2>2. DOMAIN allocators' = DOMAIN allocators \cup {a}
    BY <1>1 DEF With
  <2>3. allocators' \in [DOMAIN allocators' -> [fill : 0..ChunkSize, resets : 0..MaxResets]]
    <3> DEFINE entry == [fill : 0..ChunkSize, resets : 0..MaxResets]
    <3>1. allocators \in [DOMAIN allocators -> entry]
      BY DEF DeviceInv, AllocatorsInv
    <3> HIDE DEF entry
    <3>2. allocators' = [b \in DOMAIN allocators \cup {a} |-> IF b = a THEN [fill |-> 0, resets |-> 0]
                                                              ELSE allocators[b]]
      BY <1>1 DEF With
    <3>3. [fill |-> 0, resets |-> 0] \in entry
      BY <2>1 DEF entry
    <3>4. QED
      BY <3>1, <3>2, <3>3 DEF entry
  <2>4. QED
    BY <2>2, <2>3 DEF DeviceInv, AllocatorsInv
<1>4. SetsInv'
  <2>1. sets' = <<>> /\ Len(<<>>) = 0 /\ IsSeq(<<>>)
    BY <1>2, SeqOfNothing
  <2>2. 1..0 = {}
    OBVIOUS
  <2>3. QED
    BY <2>1, <2>2 DEF SetsInv
<1>5. BoundInv'
  <2> SUFFICES ASSUME NEW bound \in Bounds' PROVE Resolves(bound)'
    BY DEF BoundInv
  <2>1. Resolves(bound)
    BY <1>2 DEF DeviceInv, BoundInv, Bounds
  <2>2. BoundSets(bound) = {}
    BY <1>2, <2>1, SeqOfNothing DEF Resolves
  <2>3. BoundSets(bound)' = {}
    BY <2>2 DEF BoundSets
  <2>4. QED
    BY <2>3 DEF Resolves
<1>6. QED
  BY <1>3, <1>4, <1>5

(* A new set lies behind the sets of the epoch and below the new level.    *)
LEMMA AllocateDescriptorSetStep ==
  ASSUME DeviceInv, phase = "running", AllocateDescriptorSet
  PROVE  AllocatorsInv' /\ SetsInv' /\ BoundInv'
<1> USE DEF DeviceInv
<1>1. PICK a \in DOMAIN allocators, l \in DOMAIN loaded.sets :
        /\ FitsChunk(allocators[a].fill, DescriptorCount(loaded.sets[l]))
        /\ allocators' = [allocators EXCEPT ![a].fill = @ + DescriptorCount(loaded.sets[l])]
        /\ sets' = Append(sets, Reference(l, a))
  BY DEF AllocateDescriptorSet
<1>2. UNCHANGED <<loaded, list, draws>>
  BY DEF AllocateDescriptorSet
<1>3. PICK set : set = Reference(l, a)
  OBVIOUS
<1>4. DescriptorCount(loaded.sets[l]) = SetSize(l) /\ SetSize(l) \in Nat
  BY <1>1 DEF LoadedInv, SetSize, DescriptorCount
<1>5. /\ a \in Allocators /\ allocators[a].fill \in Nat
      /\ allocators[a].resets \in Nat /\ ChunkSize \in Nat /\ ChunkOffset(a) \in Nat
  BY <1>1, ResetNumbers, ChunkNumbers, BindingBoundsAssumption DEF BindingBoundsAssumption
<1>6. allocators[a].fill + SetSize(l) <= ChunkSize
  BY <1>1, <1>4 DEF FitsChunk
<1>7. /\ DOMAIN allocators' = DOMAIN allocators
      /\ allocators'[a].fill = allocators[a].fill + SetSize(l)
      /\ \A b \in DOMAIN allocators : /\ allocators'[b].resets = allocators[b].resets
                                      /\ b # a => allocators'[b] = allocators[b]
  BY <1>1, <1>4 DEF AllocatorsInv
<1>8. AllocatorsInv'
  <2>1. \A b \in DOMAIN allocators : allocators'[b] \in [fill : 0..ChunkSize, resets : 0..MaxResets]
    <3> SUFFICES ASSUME NEW b \in DOMAIN allocators
                 PROVE  allocators'[b] \in [fill : 0..ChunkSize, resets : 0..MaxResets]
      OBVIOUS
    <3>1. CASE b = a
      <4>1. allocators[a] \in [fill : 0..ChunkSize, resets : 0..MaxResets]
        BY DEF AllocatorsInv
      <4>2. allocators'[a] = [allocators[a] EXCEPT !.fill = @ + SetSize(l)]
        BY <1>1, <1>4
      <4>3. allocators[a].fill + SetSize(l) \in 0..ChunkSize
        BY <1>4, <1>5, <1>6
      <4>4. QED
        BY <3>1, <4>1, <4>2, <4>3
    <3>2. CASE b # a
      BY <1>7, <3>2 DEF AllocatorsInv
    <3>3. QED
      BY <3>1, <3>2
  <2>2. allocators' = [b \in DOMAIN allocators |-> allocators'[b]]
    BY <1>1
  <2>3. QED
    BY <1>7, <2>1, <2>2 DEF AllocatorsInv
<1> DEFINE n == Len(sets)
<1>9. /\ n \in Nat /\ IsSeq(sets') /\ Len(sets') = n + 1
      /\ \A i \in 1..n : sets'[i] = sets[i]
      /\ sets'[n + 1] = set
  BY <1>1, <1>3, SeqLength, SeqAppended DEF SetsInv
<1>10. \A i \in 1..n : InUse(sets[i])' <=> InUse(sets[i])
  BY <1>7, <1>9 DEF SetsInv, SetInv, InUse
<1>11. \A i \in 1..n : SetInv(sets[i])'
  <2> SUFFICES ASSUME NEW i \in 1..n PROVE SetInv(sets[i])'
    OBVIOUS
  <2>1. SetInv(sets[i]) /\ sets[i].allocator \in DOMAIN allocators
    BY DEF SetsInv, SetInv
  <2>2. \E k \in Nat : allocators'[sets[i].allocator].fill = allocators[sets[i].allocator].fill + k
    <3>1. CASE sets[i].allocator = a
      BY <1>4, <1>7, <3>1
    <3>2. CASE sets[i].allocator # a
      <4>1. allocators[sets[i].allocator].fill \in Nat
        BY <2>1, ResetNumbers
      <4>2. QED
        BY <1>7, <2>1, <3>2, <4>1
    <3>3. QED
      BY <3>1, <3>2
  <2>3. /\ ChunkOffset(sets[i].allocator) \in Nat /\ allocators[sets[i].allocator].fill \in Nat
        /\ sets[i].base \in Nat /\ SetSize(sets[i].layout) \in Nat
    BY <2>1, ResetNumbers, ChunkNumbers DEF SetInv, LoadedInv
  <2>4. InUse(sets[i])' => sets[i].base + SetSize(sets[i].layout)
          <= ChunkOffset(sets[i].allocator) + allocators'[sets[i].allocator].fill
    <3>1. SUFFICES ASSUME InUse(sets[i])'
                   PROVE  sets[i].base + SetSize(sets[i].layout)
                            <= ChunkOffset(sets[i].allocator) + allocators'[sets[i].allocator].fill
      OBVIOUS
    <3>2. sets[i].base + SetSize(sets[i].layout)
            <= ChunkOffset(sets[i].allocator) + allocators[sets[i].allocator].fill
      BY <1>10, <2>1, <3>1 DEF SetInv
    <3>3. QED
      BY ONLY <2>2, <2>3, <3>2
  <2>5. SetSize(sets[i].layout)' = SetSize(sets[i].layout)
    BY <1>2, <1>9 DEF SetSize
  <2>6. QED
    BY <1>2, <1>7, <1>9, <2>1, <2>4, <2>5 DEF SetInv, ChunkOffset
<1>12. /\ DOMAIN set = {"layout", "base", "allocator", "counter", "epoch", "contents"}
       /\ set.layout = l /\ set.allocator = a /\ set.base = ChunkOffset(a) + allocators[a].fill
       /\ set.epoch = allocators[a].resets /\ set.counter = set.epoch % ResetCounterModulus
  BY <1>3 DEF Reference
<1>13. SetInv(set)'
  <2>1. set.base \in Nat /\ set.base >= ChunkOffset(a)
    BY <1>5, <1>12
  <2>2. set.epoch \in 0..allocators'[a].resets
    BY <1>5, <1>7, <1>12
  <2>3. set.base + SetSize(l) <= ChunkOffset(a) + allocators'[a].fill
    BY <1>4, <1>5, <1>7, <1>12
  <2>4. QED
    BY <1>1, <1>2, <1>7, <1>12, <2>1, <2>2, <2>3 DEF SetInv, SetSize, ChunkOffset
<1>14. SetsInv'
  <2>1. \A i \in 1..(n + 1) : i = n + 1 \/ i \in 1..n
    BY <1>9
  <2>2. \A i \in 1..(n + 1) : SetInv(sets[i])'
    <3> SUFFICES ASSUME NEW i \in 1..(n + 1) PROVE SetInv(sets[i])'
      OBVIOUS
    <3>1. CASE i = n + 1
      <4>1. sets'[i] = set
        BY <1>9, <3>1
      <4>2. QED
        BY <1>13, <4>1 DEF SetInv, InUse
    <3>2. CASE i \in 1..n
      <4>1. sets'[i] = sets[i]
        BY <1>9, <3>2
      <4>2. QED
        BY <1>11, <3>2, <4>1 DEF SetInv, InUse
    <3>3. QED
      BY <2>1, <3>1, <3>2
  <2>3. ASSUME NEW i \in 1..(n + 1), NEW j \in 1..(n + 1), i < j,
               sets'[i].allocator = sets'[j].allocator, InUse(sets[i])', InUse(sets[j])'
        PROVE  sets'[i].base + SetSize(sets'[i].layout) <= sets'[j].base
    <3>1. i \in 1..n /\ sets'[i] = sets[i]
      BY <1>9, <2>3
    <3>2. InUse(sets[i]) /\ SetInv(sets[i])
      BY <1>10, <2>3, <3>1 DEF SetsInv
    <3>3. CASE j \in 1..n
      <4>1. sets'[j] = sets[j] /\ InUse(sets[j])
        BY <1>9, <1>10, <2>3, <3>3
      <4>2. QED
        BY <2>3, <3>1, <3>2, <3>3, <4>1 DEF SetsInv
    <3>4. CASE j = n + 1
      <4>1. sets'[j] = set /\ sets[i].allocator = a
        BY <1>9, <1>12, <2>3, <3>1, <3>4
      <4>2. sets[i].base + SetSize(sets[i].layout) <= ChunkOffset(a) + allocators[a].fill
        BY <3>2, <4>1 DEF SetInv
      <4>3. QED
        BY <1>12, <3>1, <4>1, <4>2
    <3>5. QED
      BY <2>1, <3>3, <3>4
  <2>4. QED
    BY <1>2, <1>9, <2>2, <2>3 DEF SetsInv, SetSize
<1>15. BoundInv'
  <2> SUFFICES ASSUME NEW bound \in Bounds' PROVE Resolves(bound)'
    BY DEF BoundInv
  <2>1. Resolves(bound)
    BY <1>2 DEF BoundInv, Bounds
  <2>2. \A s \in BoundSets(bound) : s \in 1..(n + 1) /\ Decomposes(sets[s])'
    <3> SUFFICES ASSUME NEW s \in BoundSets(bound) PROVE s \in 1..(n + 1) /\ Decomposes(sets[s])'
      OBVIOUS
    <3>1. s \in 1..n /\ Decomposes(sets[s])
      BY <2>1 DEF Resolves
    <3>2. sets'[s] = sets[s] /\ sets[s].allocator \in DOMAIN allocators
      BY <1>9, <3>1 DEF SetsInv, SetInv
    <3>3. QED
      BY <1>7, <1>9, <3>1, <3>2 DEF Decomposes
  <2>3. QED
    BY <1>9, <2>2 DEF Resolves, BoundSets
<1>16. QED
  BY <1>8, <1>14, <1>15

(* A set written to is the same set, with other contents.                  *)
LEMMA SetContentsStep ==
  ASSUME AllocatorsInv, SetsInv, UNCHANGED <<loaded, allocators>>,
         IsSeq(sets'), Len(sets') = Len(sets),
         \A i \in 1..Len(sets) : \/ sets'[i] = sets[i]
                                    \/ \E contents : sets'[i] = [sets[i] EXCEPT !.contents = contents]
  PROVE  SetsInv'
<1>1. \A i \in 1..Len(sets) :
        /\ DOMAIN sets'[i] = {"layout", "base", "allocator", "counter", "epoch", "contents"}
        /\ sets'[i].layout = sets[i].layout /\ sets'[i].base = sets[i].base
        /\ sets'[i].allocator = sets[i].allocator /\ sets'[i].counter = sets[i].counter
        /\ sets'[i].epoch = sets[i].epoch
  BY DEF SetsInv, SetInv
<1>2. \A i \in 1..Len(sets) : SetInv(sets[i])'
  BY <1>1 DEF SetsInv, SetInv, InUse, SetSize, ChunkOffset
<1>3. QED
  BY <1>1, <1>2 DEF SetsInv, InUse, SetSize

LEMMA WriteDescriptorSetStep ==
  ASSUME DeviceInv, phase = "running", WriteDescriptorSet
  PROVE  HeapInv' /\ AllocatorsInv' /\ SetsInv' /\ BoundInv'
<1> USE DEF DeviceInv
<1>1. PICK s \in DOMAIN sets, view \in Views :
        \E i \in DOMAIN loaded.sets[sets[s].layout].bindings :
          /\ WriteDescriptor(sets[s].base + i - 1, view)
          /\ \E name : sets' = [sets EXCEPT ![s].contents = With(@, name, view)]
  BY DEF WriteDescriptorSet
<1>2. UNCHANGED <<loaded, allocators, list, draws>>
  BY DEF WriteDescriptorSet
<1>3. HeapInv'
  BY <1>1 DEF HeapInv, WriteDescriptor, HeapSize
<1>4. PICK name : sets' = [sets EXCEPT ![s].contents = With(@, name, view)]
  BY <1>1
<1>5. sets' = [k \in DOMAIN sets |-> sets'[k]]
  BY <1>4
<1>6. IsSeq(sets') /\ Len(sets') = Len(sets) /\ DOMAIN sets = 1..Len(sets)
  BY <1>5, SeqRebuilt, SeqLength DEF SetsInv
<1>7. \A k \in 1..Len(sets) : \/ sets'[k] = sets[k]
                               \/ \E contents : sets'[k] = [sets[k] EXCEPT !.contents = contents]
  BY <1>4, <1>6
<1>8. AllocatorsInv' /\ SetsInv'
  BY <1>2, <1>6, <1>7, SetContentsStep DEF AllocatorsInv
<1>9. BoundInv'
  <2> SUFFICES ASSUME NEW bound \in Bounds' PROVE Resolves(bound)'
    BY DEF BoundInv
  <2>1. Resolves(bound)
    BY <1>2 DEF BoundInv, Bounds
  <2>2. \A k \in 1..Len(sets) : sets'[k].allocator = sets[k].allocator /\ sets'[k].counter = sets[k].counter
    BY <1>7 DEF SetsInv, SetInv
  <2>3. QED
    BY <1>2, <1>6, <2>1, <2>2 DEF Resolves, BoundSets, Decomposes
<1>10. QED
  BY <1>3, <1>8, <1>9

(* A list whose type or layout was just set has nothing bound.             *)
LEMMA ListForgets ==
  ASSUME DeviceInv, frame = "recording", ListStep,
         DOMAIN list' = DOMAIN list, list'.type \in PipelineTypes \cup {"Undefined"}, list'.bound = <<>>
  PROVE  ListInv' /\ BoundInv'
<1>1. UNCHANGED <<loaded, allocators, sets, draws, frame>>
  BY DEF ListStep
<1>2. ListInv'
  BY <1>1, SeqOfNothing DEF DeviceInv, ListInv
<1>3. \A bound \in Bounds' : bound \in Bounds \/ bound = <<>>
  BY <1>1 DEF Bounds
<1>4. QED
  BY <1>1, <1>2, <1>3, BoundsKept DEF DeviceInv

LEMMA SetPipelineTypeStep ==
  ASSUME DeviceInv, SetPipelineType
  PROVE  ListInv' /\ BoundInv'
<1>1. PICK type \in PipelineTypes : list' = [list EXCEPT !.type = type, !.layout = 0, !.bound = <<>>]
  BY DEF SetPipelineType
<1>2. /\ DOMAIN list' = DOMAIN list /\ list'.type = type /\ list'.bound = <<>>
  BY <1>1 DEF DeviceInv, ListInv
<1>3. QED
  BY <1>2, ListForgets DEF SetPipelineType, Recording

LEMMA SetPipelineLayoutStep ==
  ASSUME DeviceInv, SetPipelineLayout
  PROVE  ListInv' /\ BoundInv'
<1>1. PICK layout_ : list' = [list EXCEPT !.layout = layout_, !.bound = <<>>,
                                          !.d3d[list.type] = SetRootSignature(@, layout_)]
  BY DEF SetPipelineLayout
<1>2. /\ DOMAIN list' = DOMAIN list /\ list'.type = list.type /\ list'.bound = <<>>
  BY <1>1 DEF DeviceInv, ListInv
<1>3. QED
  BY <1>2, ListForgets DEF SetPipelineLayout, Recording, DeviceInv, ListInv

LEMMA SetProgramStep ==
  ASSUME DeviceInv, SetComputePipeline \/ SetGraphicsPipeline
  PROVE  ListInv' /\ BoundInv'
<1>1. PICK program : list' = [list EXCEPT !.program = program]
  BY DEF SetComputePipeline, SetGraphicsPipeline
<1>2. frame = "recording" /\ UNCHANGED <<loaded, allocators, sets, draws, frame>>
  BY DEF SetComputePipeline, SetGraphicsPipeline, Recording, ListStep
<1>3. /\ DOMAIN list' = DOMAIN list /\ list'.type = list.type /\ list'.bound = list.bound
      /\ list'.layout = list.layout
  BY <1>1 DEF DeviceInv, ListInv
<1>4. ListInv'
  BY <1>2, <1>3 DEF DeviceInv, ListInv, BindingNames
<1>5. BoundInv'
  BY <1>2, <1>3, BoundsKept DEF DeviceInv, Bounds
<1>6. QED
  BY <1>4, <1>5

(* A set that decomposes when it is bound is one of the present epoch.     *)
LEMMA BindStep ==
  ASSUME DeviceInv, frame = "recording", ListStep,
         NEW xsh \in BindingNames, NEW argument, Bind(xsh, argument),
         "set" \in DOMAIN argument => argument.set \in 1..Len(sets) /\ Decomposes(sets[argument.set])
  PROVE  ListInv' /\ BoundInv'
<1>1. UNCHANGED <<loaded, allocators, sets, draws, frame>>
  BY DEF ListStep
<1>2. /\ DOMAIN list' = DOMAIN list /\ list'.type = list.type /\ list'.layout = list.layout
      /\ list'.bound = With(list.bound, xsh, argument)
  BY DEF Bind, DeviceInv, ListInv
<1>3. DOMAIN list'.bound = DOMAIN list.bound \cup {xsh}
  BY <1>2 DEF With
<1>4. ListInv'
  BY <1>1, <1>2, <1>3 DEF DeviceInv, ListInv, BindingNames
<1>5. BoundInv'
  <2> SUFFICES ASSUME NEW bound \in Bounds' PROVE Resolves(bound)'
    BY DEF BoundInv
  <2>1. Resolves(bound)
    <3>1. CASE bound \in Bounds
      BY <3>1 DEF DeviceInv, BoundInv
    <3>2. CASE bound = list'.bound
      <4> SUFFICES ASSUME NEW s \in BoundSets(bound) PROVE s \in 1..Len(sets) /\ Decomposes(sets[s])
        BY DEF Resolves
      <4>1. PICK y \in DOMAIN bound : "set" \in DOMAIN bound[y] /\ s = bound[y].set
        BY DEF BoundSets
      <4>2. CASE y = xsh
        BY <1>2, <1>3, <3>2, <4>1, <4>2 DEF With
      <4>3. CASE y # xsh
        <5>1. y \in DOMAIN list.bound /\ bound[y] = list.bound[y]
          BY <1>2, <1>3, <3>2, <4>1, <4>3 DEF With
        <5>2. s \in BoundSets(list.bound)
          BY <4>1, <5>1 DEF BoundSets
        <5>3. Resolves(list.bound)
          BY DEF DeviceInv, BoundInv, Bounds
        <5>4. QED
          BY <5>2, <5>3 DEF Resolves
      <4>4. QED
        BY <4>2, <4>3
    <3>3. QED
      BY <1>1, <3>1, <3>2 DEF Bounds
  <2>2. QED
    BY <1>1, <2>1 DEF Resolves, BoundSets, Decomposes
<1>6. QED
  BY <1>4, <1>5

LEMMA BindArgumentStep ==
  ASSUME DeviceInv, BindBuffer \/ BindDescriptorSet
  PROVE  ListInv' /\ BoundInv'
<1>1. CASE BindBuffer
  <2>1. PICK xsh \in BindingNames, buffer \in Buffers : Bind(xsh, [buffer |-> buffer])
    BY <1>1 DEF BindBuffer
  <2>2. "set" \notin DOMAIN [buffer |-> buffer]
    OBVIOUS
  <2>3. frame = "recording" /\ ListStep
    BY <1>1 DEF BindBuffer, Recording
  <2>4. QED
    BY <2>1, <2>2, <2>3, BindStep
<1>2. CASE BindDescriptorSet
  <2>1. PICK xsh \in BindingNames, s \in DOMAIN sets : Decomposes(sets[s]) /\ Bind(xsh, [set |-> s])
    BY <1>2 DEF BindDescriptorSet
  <2>2. s \in 1..Len(sets)
    BY SeqLength DEF DeviceInv, SetsInv
  <2>3. [set |-> s].set = s
    OBVIOUS
  <2>4. frame = "recording" /\ ListStep
    BY <1>2 DEF BindDescriptorSet, Recording
  <2>5. QED
    BY <2>1, <2>2, <2>3, <2>4, BindStep
<1>3. QED
  BY <1>1, <1>2

(* A draw refers to what is bound; what is executed is forgotten.          *)
LEMMA DrawStep ==
  ASSUME DeviceInv, Draw \/ Execute \/ Submit \/ CloseList
  PROVE  ListInv' /\ BoundInv'
<1>1. UNCHANGED <<loaded, allocators, sets>>
  BY DEF Draw, Execute, Submit, CloseList
<1>2. ListInv'
  <2>1. CASE Draw \/ Execute
    BY <2>1, ListKept DEF DeviceInv, Draw, Execute
  <2>2. CASE Submit
    BY <2>2, <1>1 DEF Submit, DeviceInv, ListInv, BindingNames
  <2>3. CASE CloseList
    <3>1. DOMAIN EmptyList = {"type", "layout", "program", "bound", "d3d"} /\ EmptyList.type = "Undefined"
          /\ DOMAIN EmptyList.bound = {}
      BY SeqOfNothing DEF EmptyList
    <3>2. QED
      BY <1>1, <2>3, <3>1 DEF CloseList, ListInv
  <2>4. QED
    BY <2>1, <2>2, <2>3
<1>3. \A bound \in Bounds' : bound \in Bounds \/ bound = <<>>
  <2>1. CASE Draw
    BY <2>1 DEF Draw, Bounds
  <2>2. CASE Execute \/ Submit
    BY <2>2 DEF Execute, Submit, Bounds
  <2>3. CASE CloseList
    BY <2>3 DEF CloseList, Bounds, EmptyList
  <2>4. QED
    BY <2>1, <2>2, <2>3
<1>4. BoundInv'
  BY <1>1, <1>3, BoundsKept DEF DeviceInv
<1>5. QED
  BY <1>2, <1>4

(* A reset ends the epoch of the allocator's sets, and leaves the others.  *)
LEMMA ResetDescriptorAllocatorStep ==
  ASSUME DeviceInv, ResetDescriptorAllocator
  PROVE  AllocatorsInv' /\ ListInv' /\ SetsInv' /\ BoundInv'
<1> USE DEF DeviceInv
<1>1. PICK a \in DOMAIN allocators :
        /\ allocators[a].resets < MaxResets
        /\ allocators' = [allocators EXCEPT ![a] = [fill |-> 0, resets |-> @.resets + 1]]
        /\ sets' = [s \in DOMAIN sets |->
                      IF sets[s].allocator = a THEN [sets[s] EXCEPT !.contents = <<>>] ELSE sets[s]]
  BY DEF ResetDescriptorAllocator
<1>2. UNCHANGED <<loaded, list, draws>> /\ draws = {} /\ list = EmptyList /\ frame' = "recording"
  BY DEF ResetDescriptorAllocator, FrameFinished, ListInv
<1>3. /\ allocators[a].fill \in Nat /\ allocators[a].resets \in Nat /\ MaxResets \in Nat /\ ChunkSize \in Nat
  BY ResetNumbers, BindingBoundsAssumption DEF BindingBoundsAssumption
<1>4. /\ DOMAIN allocators' = DOMAIN allocators
      /\ allocators'[a] = [fill |-> 0, resets |-> allocators[a].resets + 1]
      /\ \A b \in DOMAIN allocators \ {a} : allocators'[b] = allocators[b]
  BY <1>1
<1>5. AllocatorsInv'
  <2>1. allocators'[a] \in [fill : 0..ChunkSize, resets : 0..MaxResets]
    <3>1. 0 \in 0..ChunkSize /\ allocators[a].resets + 1 \in 0..MaxResets
      BY <1>1, <1>3
    <3>2. QED
      BY <1>4, <3>1
  <2>2. allocators' = [b \in DOMAIN allocators |-> allocators'[b]]
    BY <1>1
  <2>3. QED
    BY <1>4, <2>1, <2>2 DEF AllocatorsInv
<1>6. ListInv'
  BY <1>2, SeqOfNothing DEF ListInv, BindingNames, EmptyList
<1>7. IsSeq(sets') /\ Len(sets') = Len(sets) /\ DOMAIN sets = 1..Len(sets)
  <2>1. sets' = [s \in DOMAIN sets |-> sets'[s]]
    BY <1>1
  <2>2. QED
    BY <2>1, SeqRebuilt, SeqLength DEF SetsInv
<1>8. \A i \in 1..Len(sets) :
        /\ DOMAIN sets'[i] = {"layout", "base", "allocator", "counter", "epoch", "contents"}
        /\ sets'[i].layout = sets[i].layout /\ sets'[i].base = sets[i].base
        /\ sets'[i].allocator = sets[i].allocator /\ sets'[i].counter = sets[i].counter
        /\ sets'[i].epoch = sets[i].epoch
  BY <1>1, <1>7 DEF SetsInv, SetInv
<1>9. \A i \in 1..Len(sets) : /\ InUse(sets[i])' => InUse(sets[i]) /\ sets[i].allocator # a
                              /\ SetInv(sets[i])'
  <2> SUFFICES ASSUME NEW i \in 1..Len(sets)
               PROVE  /\ InUse(sets[i])' => InUse(sets[i]) /\ sets[i].allocator # a
                      /\ SetInv(sets[i])'
    OBVIOUS
  <2>1. SetInv(sets[i])
    BY DEF SetsInv
  <2>2. CASE sets[i].allocator = a
    <3>1. sets[i].epoch \in 0..allocators[a].resets
      BY <2>1, <2>2 DEF SetInv
    <3>2. sets[i].epoch # allocators[a].resets + 1 /\ sets[i].epoch \in 0..(allocators[a].resets + 1)
      BY <1>3, <3>1
    <3>3. allocators'[a].resets = allocators[a].resets + 1
      BY <1>4
    <3>4. ~InUse(sets[i])'
      BY <1>8, <2>2, <3>2, <3>3 DEF InUse
    <3>5. QED
      BY <1>2, <1>4, <1>8, <2>1, <2>2, <3>2, <3>3, <3>4 DEF SetInv, ChunkOffset
  <2>3. CASE sets[i].allocator # a
    <3>1. allocators'[sets[i].allocator] = allocators[sets[i].allocator]
      BY <1>4, <2>1, <2>3 DEF SetInv
    <3>2. QED
      BY <1>2, <1>4, <1>8, <2>1, <2>3, <3>1 DEF SetInv, InUse, ChunkOffset, SetSize
  <2>4. QED
    BY <2>2, <2>3
<1>10. SetsInv'
  <2>1. ASSUME NEW i \in 1..Len(sets), NEW j \in 1..Len(sets), i < j,
               sets'[i].allocator = sets'[j].allocator, InUse(sets[i])', InUse(sets[j])'
        PROVE  sets'[i].base + SetSize(sets'[i].layout) <= sets'[j].base
    <3>1. InUse(sets[i]) /\ InUse(sets[j])
      BY <1>9, <2>1
    <3>2. QED
      BY <1>8, <2>1, <3>1 DEF SetsInv
  <2>2. QED
    BY <1>2, <1>7, <1>9, <2>1 DEF SetsInv, SetSize
<1>11. BoundInv'
  <2> SUFFICES ASSUME NEW bound \in Bounds' PROVE Resolves(bound)'
    BY DEF BoundInv
  <2>1. bound = <<>>
    BY <1>2 DEF Bounds, EmptyList
  <2>2. QED
    BY <2>1, SeqOfNothing DEF Resolves, BoundSets
<1>12. QED
  BY <1>5, <1>6, <1>10, <1>11

(* One step per operation of the device.                                   *)
LEMMA DeviceSteps ==
  ASSUME DeviceInv, phase = "running", UNCHANGED phase, DeviceStep
  PROVE  DeviceInv'
<1>1. UNCHANGED loaded
  BY DEF DeviceStep, CreateDescriptorAllocator, AllocateDescriptorSet, WriteDescriptorSet,
         WriteBindlessDescriptor, CreateGraphicsPipeline, SetPipelineType, SetPipelineLayout,
         SetComputePipeline, SetGraphicsPipeline, BindBuffer, BindDescriptorSet, Draw, CloseList, Submit,
         Execute, ResetDescriptorAllocator, ListStep
<1>2. LoadedInv'
  BY <1>1, LoadedKept DEF DeviceInv
<1>3. CASE CreateDescriptorAllocator
  BY <1>2, <1>3, CreateDescriptorAllocatorStep, HeapKept, ListKept DEF DeviceInv, CreateDescriptorAllocator
<1>4. CASE AllocateDescriptorSet
  BY <1>2, <1>4, AllocateDescriptorSetStep, HeapKept, ListKept DEF DeviceInv, AllocateDescriptorSet
<1>5. CASE WriteDescriptorSet
  BY <1>2, <1>5, WriteDescriptorSetStep, ListKept DEF DeviceInv, WriteDescriptorSet
<1>6. CASE WriteBindlessDescriptor
  <2>1. HeapInv'
    BY <1>6 DEF WriteBindlessDescriptor, WriteDescriptor, DeviceInv, HeapInv, HeapSize
  <2>2. UNCHANGED <<allocators, sets, list, draws, frame>>
    BY <1>6 DEF WriteBindlessDescriptor
  <2>3. QED
    BY <1>1, <1>2, <2>1, <2>2, SetsKept, ListKept, BoundsKept DEF DeviceInv, Bounds
<1>7. CASE CreateGraphicsPipeline
  <2>1. UNCHANGED <<allocators, heap, sets, list, draws, frame>>
    BY <1>7 DEF CreateGraphicsPipeline
  <2>2. QED
    BY <1>1, <1>2, <2>1, SetsKept, HeapKept, ListKept, BoundsKept DEF DeviceInv, Bounds
<1>8. ASSUME ListInv', BoundInv', UNCHANGED <<allocators, heap, sets>>
      PROVE  DeviceInv'
  BY <1>1, <1>2, <1>8, SetsKept, HeapKept DEF DeviceInv
<1>9. CASE SetPipelineType
  BY <1>8, <1>9, SetPipelineTypeStep DEF SetPipelineType, ListStep
<1>10. CASE SetPipelineLayout
  BY <1>8, <1>10, SetPipelineLayoutStep DEF SetPipelineLayout, ListStep
<1>11. CASE SetComputePipeline \/ SetGraphicsPipeline
  BY <1>8, <1>11, SetProgramStep DEF SetComputePipeline, SetGraphicsPipeline, ListStep
<1>12. CASE BindBuffer \/ BindDescriptorSet
  BY <1>8, <1>12, BindArgumentStep DEF BindBuffer, BindDescriptorSet, ListStep
<1>13. CASE Draw \/ Execute \/ Submit \/ CloseList
  BY <1>8, <1>13, DrawStep DEF Draw, Execute, Submit, CloseList
<1>14. CASE ResetDescriptorAllocator
  BY <1>2, <1>14, ResetDescriptorAllocatorStep, HeapKept DEF DeviceInv, ResetDescriptorAllocator
<1>15. QED
  BY <1>3, <1>4, <1>5, <1>6, <1>7, <1>9, <1>10, <1>11, <1>12, <1>13, <1>14 DEF DeviceStep

-----------------------------------------------------------------------------
LEMMA ShadersOf ==
  ASSUME library \in DOMAIN Libraries
  PROVE  /\ Len(Shaders) \in Nat \ {0}
         /\ \A i \in 1..Len(Shaders) : Len(Shaders[i].source) \in Nat
BY LibrariesAssumption DEF LibrariesAssumption, Shaders

LEMMA BindingInit == Init => BindingInv
<1> SUFFICES ASSUME Init PROVE BindingInv
  OBVIOUS
<1>1. library \in DOMAIN Libraries
  BY DEF Init
<1>2. RewriterInv
  <2>1. Len(source) \in Nat
    <3>1. source = Shaders[1].source /\ 1 \in 1..Len(Shaders)
      BY <1>1, ShadersOf DEF Init, RewriterInit
    <3>2. QED
      BY <1>1, <3>1, ShadersOf
  <2>2. pc = "scan" /\ at = 1 /\ from = 1
    BY DEF Init, RewriterInit
  <2>3. QED
    BY <2>1, <2>2 DEF RewriterInv
<1>3. BuildInv
  BY <1>1, ShadersOf, SeqOfNothing DEF Init, BuildInv
<1>4. Idle /\ phase = "compiling" /\ heap = [i \in 0..(HeapSize - 1) |-> None]
  BY DEF Init, DeviceInit, Idle
<1>5. LoadedInv /\ HeapInv /\ AllocatorsInv
  BY <1>4, SeqOfNothing DEF LoadedInv, HeapInv, AllocatorsInv, Idle
<1>6. ListInv
  BY <1>4, SeqOfNothing DEF ListInv, Idle, EmptyList
<1>7. SetsInv
  <2>1. 1..0 = {}
    OBVIOUS
  <2>2. QED
    BY <1>4, <2>1, SeqOfNothing DEF SetsInv, Idle
<1>8. BoundInv
  BY <1>4, NothingBound DEF BoundInv, Bounds, Idle, EmptyList
<1>9. QED
  BY <1>2, <1>3, <1>5, <1>6, <1>7, <1>8 DEF BindingInv, DeviceInv

LEMMA CompileShaderStep ==
  ASSUME BindingInv, CompileShader
  PROVE  RewriterInv' /\ BuildInv'
<1> USE DEF BindingInv
<1>1. phase = "compiling" /\ UNCHANGED library /\ library \in DOMAIN Libraries
  BY DEF CompileShader, BuildInv
<1>2. Len(compiled) \in Nat /\ Len(Shaders) \in Nat /\ Len(compiled) < Len(Shaders)
  BY <1>1, SeqLength, ShadersOf DEF BuildInv
<1>3. CASE pc' = "failed" /\ UNCHANGED <<compiled, phase, source, at, from>>
  <2>1. RewriterInv'
    BY <1>3 DEF RewriterInv, Ended
  <2>2. BuildInv'
    BY <1>1, <1>3 DEF BuildInv, Shaders
  <2>3. QED
    BY <2>1, <2>2
<1>4. ASSUME NEW blob, compiled' = Append(compiled, blob),
             IF Len(compiled') = Len(Shaders)
             THEN phase' = "compiled" /\ NextRewrite(<<>>, None, pc)
             ELSE /\ NextRewrite(Shaders[Len(compiled) + 2].source, LayoutOf(Shaders[Len(compiled) + 2]), "scan")
                  /\ UNCHANGED phase
      PROVE  RewriterInv' /\ BuildInv'
  <2>1. IsSeq(compiled') /\ Len(compiled') = Len(compiled) + 1
    BY <1>4, SeqAppended DEF BuildInv
  <2>2. CASE Len(compiled') = Len(Shaders)
    <3>1. phase' = "compiled" /\ source' = <<>> /\ at' = 1 /\ from' = 1 /\ pc' = pc
      BY <1>4, <2>2 DEF NextRewrite
    <3>2. RewriterInv'
      BY <3>1, SeqOfNothing DEF RewriterInv
    <3>3. BuildInv'
      BY <1>1, <1>2, <2>1, <2>2, <3>1 DEF BuildInv, Shaders
    <3>4. QED
      BY <3>2, <3>3
  <2>3. CASE Len(compiled') # Len(Shaders)
    <3>1. /\ phase' = phase /\ source' = Shaders[Len(compiled) + 2].source
          /\ at' = 1 /\ from' = 1 /\ pc' = "scan"
      BY <1>4, <2>3 DEF NextRewrite
    <3>2. Len(compiled) + 2 \in 1..Len(Shaders)
      BY <1>2, <2>1, <2>3
    <3>3. Len(source') \in Nat
      BY <1>1, <3>1, <3>2, ShadersOf
    <3>4. RewriterInv'
      BY <3>1, <3>3 DEF RewriterInv
    <3>5. Len(compiled') < Len(Shaders) /\ Len(compiled') <= Len(Shaders)
      BY <1>2, <2>1, <2>3
    <3>6. BuildInv'
      BY <1>1, <2>1, <3>1, <3>5 DEF BuildInv, Shaders
    <3>7. QED
      BY <3>4, <3>6
  <2>4. QED
    BY <2>2, <2>3
<1>5. QED
  BY <1>3, <1>4 DEF CompileShader

(* The loader asserts that a set layout has as many bindings as it says.   *)
LEMMA LoadLibraryStep ==
  ASSUME BindingInv, LoadLibrary
  PROVE  DeviceInv'
<1> USE DEF BindingInv, DeviceInv
<1>1. Idle /\ UNCHANGED <<pipelines, allocators, heap, sets, list, draws, frame>>
  BY DEF LoadLibrary, LoadedInv
<1>2. LoadedInv'
  <2>1. Idle'
    BY <1>1 DEF Idle, EmptyList, NoBindings
  <2>2. ASSUME phase' = "running", NEW l \in DOMAIN loaded'.sets
        PROVE  Len(loaded'.sets[l].bindings) \in Nat
    <3>1. IsLoadable(file) /\ loaded' = Load(file)
      BY <2>2 DEF LoadLibrary
    <3>2. l \in DOMAIN file.sets /\ loaded'.sets[l].bindings = Records(BlobAt(file, file.sets[l]))
      BY <2>2, <3>1 DEF Load, HALSetLayout
    <3>3. SetLayoutAccepted(BlobAt(file, file.sets[l]))
      BY <3>1, <3>2 DEF IsLoadable
    <3>4. MaxSetBindings \in Nat
      BY LayoutLimitsAssumption DEF LayoutLimitsAssumption
    <3>5. Len(Records(BlobAt(file, file.sets[l]))) \in 1..MaxSetBindings
      BY <3>3 DEF SetLayoutAccepted
    <3>6. QED
      BY <3>2, <3>4, <3>5
  <2>3. QED
    BY <2>1, <2>2 DEF LoadedInv, SetSize
<1>3. AllocatorsInv' /\ HeapInv'
  BY <1>1, HeapKept DEF AllocatorsInv
<1>4. SetsInv'
  <2>1. 1..0 = {}
    OBVIOUS
  <2>2. QED
    BY <1>1, <2>1, SeqOfNothing DEF SetsInv, Idle
<1>5. ListInv'
  BY <1>1, SeqOfNothing DEF ListInv, Idle, EmptyList
<1>6. BoundInv'
  BY <1>1, BoundsKept DEF Bounds
<1>7. QED
  BY <1>2, <1>3, <1>4, <1>5, <1>6

LEMMA BindingStep == BindingInv /\ [Next]_vars => BindingInv'
<1> SUFFICES ASSUME BindingInv, [Next]_vars PROVE BindingInv'
  OBVIOUS
<1> USE DEF BindingInv
<1>1. ASSUME UNCHANGED rewriterVars PROVE RewriterInv'
  BY <1>1 DEF rewriterVars, RewriterInv
<1>2. ASSUME UNCHANGED <<library, compiled, phase>> PROVE BuildInv'
  BY <1>2 DEF BuildInv, Shaders
<1>3. CASE RewriteShader
  BY <1>2, <1>3, RewriteStep, DeviceKept DEF RewriteShader
<1>4. CASE CompileShader
  <2>1. DeviceInv'
    <3>1. CASE phase' = phase
      BY <1>4, <3>1, DeviceKept DEF CompileShader
    <3>2. CASE phase' # phase
      <4>1. phase # "running" /\ phase' # "running" /\ UNCHANGED deviceVars
        BY <1>4, <3>2 DEF CompileShader
      <4>2. LoadedInv'
        BY <4>1 DEF deviceVars, DeviceInv, LoadedInv, Idle, EmptyList, NoBindings
      <4>3. BoundInv'
        BY <4>1, BoundsKept DEF deviceVars, DeviceInv, Bounds
      <4>4. QED
        BY <4>1, <4>2, <4>3, SetsKept, HeapKept, ListKept DEF deviceVars, DeviceInv
    <3>3. QED
      BY <3>1, <3>2
  <2>2. QED
    BY <1>4, <2>1, CompileShaderStep
<1>5. CASE StoreLibrary
  <2>1. phase # "running" /\ phase' = "stored" /\ UNCHANGED deviceVars /\ UNCHANGED rewriterVars
    BY <1>5 DEF StoreLibrary
  <2>2. LoadedInv'
    BY <2>1 DEF deviceVars, DeviceInv, LoadedInv, Idle, EmptyList, NoBindings
  <2>3. BoundInv'
    BY <2>1, BoundsKept DEF deviceVars, DeviceInv, Bounds
  <2>4. DeviceInv'
    BY <2>1, <2>2, <2>3, SetsKept, HeapKept, ListKept DEF deviceVars, DeviceInv
  <2>5. BuildInv'
    <3>1. compiled' = <<>> /\ UNCHANGED library
      BY <1>5 DEF StoreLibrary
    <3>2. 0 <= Len(Shaders)
      BY ShadersOf DEF BuildInv
    <3>3. QED
      BY <2>1, <3>1, <3>2, SeqOfNothing DEF BuildInv, Shaders
  <2>6. QED
    BY <1>1, <2>1, <2>4, <2>5
<1>6. CASE LoadLibrary
  <2>1. UNCHANGED <<library, compiled>> /\ UNCHANGED rewriterVars /\ phase' \in {"running", "stopped"}
    BY <1>6 DEF LoadLibrary
  <2>2. BuildInv'
    BY <2>1 DEF BuildInv, Shaders
  <2>3. QED
    BY <1>1, <1>6, <2>1, <2>2, LoadLibraryStep
<1>7. CASE RunProgram
  BY <1>1, <1>2, <1>7, DeviceSteps DEF RunProgram
<1>8. CASE UNCHANGED vars
  <2>1. UNCHANGED deviceVars /\ UNCHANGED rewriterVars /\ UNCHANGED <<library, compiled, phase>>
    BY <1>8 DEF vars
  <2>2. QED
    BY <1>1, <1>2, <2>1, DeviceKept
<1>9. QED
  BY <1>3, <1>4, <1>5, <1>6, <1>7, <1>8 DEF Next

(* The invariant of the pipeline from a text to the GPU: where the         *)
(* rewriter stands, what is built, and what is on the device.              *)
THEOREM BindingInvariant == Spec => []BindingInv
BY BindingInit, BindingStep, PTL DEF Spec

(* The patcher never passes the lexer, nor the lexer the end of the text;  *)
(* no allocator is filled beyond its chunk; nothing is bound that the      *)
(* layout does not have.                                                   *)
THEOREM TypeCorrect == Spec => []TypeOK
<1>1. BindingInv => TypeOK
  BY DEF BindingInv, DeviceInv, RewriterInv, BuildInv, HeapInv, AllocatorsInv, ListInv, TypeOK
<1>2. QED
  BY <1>1, BindingInvariant, PTL

(* Intervals of numbers.                                                   *)
LEMMA IntervalsApart ==
  ASSUME NEW b \in Nat, NEW n \in Nat, NEW c \in Nat, NEW m \in Nat, b + n <= c \/ c + m <= b
  PROVE  b..(b + n - 1) \cap c..(c + m - 1) = {}
OBVIOUS

LEMMA IntervalWithin ==
  ASSUME NEW b \in Nat, NEW n \in Nat, NEW low \in Nat, NEW high \in Nat, low <= b, b + n <= high
  PROVE  b..(b + n - 1) \subseteq low..(high - 1)
OBVIOUS

(* The descriptors of two sets that may still be used never overlap, and   *)
(* none lies outside its allocator's chunk or in the bindless pool.        *)
THEOREM SetsAlwaysDisjoint == Spec => []SetsDisjoint
<1>1. ASSUME BindingInv PROVE SetsDisjoint
  <2> USE <1>1 DEF BindingInv, DeviceInv
  <2>1. DOMAIN sets = 1..Len(sets) /\ Len(sets) \in Nat
    BY SeqLength DEF SetsInv
  <2>2. BindlessSize \in Nat /\ ChunkSize \in Nat
    BY BindingBoundsAssumption DEF BindingBoundsAssumption
  <2>3. \A i \in 1..Len(sets) :
          /\ SetSize(sets[i].layout) \in Nat /\ sets[i].base \in Nat
          /\ sets[i].allocator \in DOMAIN allocators /\ sets[i].allocator \in Nat
    <3> SUFFICES ASSUME NEW i \in 1..Len(sets)
                 PROVE  /\ SetSize(sets[i].layout) \in Nat /\ sets[i].base \in Nat
                        /\ sets[i].allocator \in DOMAIN allocators /\ sets[i].allocator \in Nat
      OBVIOUS
    <3>1. SetInv(sets[i])
      BY DEF SetsInv
    <3>2. phase = "running"
      BY SeqOfNothing DEF LoadedInv, Idle
    <3>3. QED
      BY <3>1, <3>2, ResetNumbers, AllocatorsAssumption DEF AllocatorsAssumption, SetInv, LoadedInv
  <2>4. ASSUME NEW i \in 1..Len(sets), InUse(sets[i])
        PROVE  \E fill \in 0..ChunkSize :
                 /\ sets[i].base >= BindlessSize + sets[i].allocator * ChunkSize
                 /\ sets[i].base + SetSize(sets[i].layout)
                      <= BindlessSize + sets[i].allocator * ChunkSize + fill
    <3>1. SetInv(sets[i])
      BY DEF SetsInv
    <3>2. allocators[sets[i].allocator].fill \in 0..ChunkSize
      BY <2>3, <2>2, ResetNumbers
    <3>3. QED
      BY <2>4, <3>1, <3>2 DEF SetInv, ChunkOffset
  <2>5. ASSUME NEW i \in 1..Len(sets), InUse(sets[i])
        PROVE  /\ sets[i].allocator * ChunkSize \in Nat
               /\ (sets[i].allocator + 1) * ChunkSize = sets[i].allocator * ChunkSize + ChunkSize
               /\ BindlessSize + sets[i].allocator * ChunkSize <= sets[i].base
               /\ sets[i].base + SetSize(sets[i].layout)
                    <= BindlessSize + (sets[i].allocator + 1) * ChunkSize
    <3>1. PICK a \in Nat : a = sets[i].allocator
      BY <2>3
    <3>2. (a + 1) * ChunkSize = a * ChunkSize + 1 * ChunkSize /\ 1 * ChunkSize = ChunkSize
      BY <2>2, TimesDistributes
    <3>3. a * ChunkSize \in Nat
      BY <2>2, Z3
    <3>4. PICK fill \in 0..ChunkSize :
            /\ sets[i].base >= BindlessSize + a * ChunkSize
            /\ sets[i].base + SetSize(sets[i].layout) <= BindlessSize + a * ChunkSize + fill
      BY <2>4, <2>5, <3>1
    <3>5. PICK b \in Nat, n \in Nat : b = sets[i].base /\ n = SetSize(sets[i].layout)
      BY <2>3
    <3>6. PICK k \in Nat : k = a * ChunkSize
      BY <3>3
    <3>7. k + ChunkSize = (a + 1) * ChunkSize
      BY <3>2, <3>6
    <3>8. BindlessSize + k <= b /\ b + n <= BindlessSize + k + fill
      BY <3>4, <3>5, <3>6
    <3>9. b + n <= BindlessSize + (k + ChunkSize)
      BY ONLY <2>2, <3>5, <3>6, <3>8, fill \in 0..ChunkSize
    <3>10. QED
      BY <3>1, <3>3, <3>5, <3>6, <3>7, <3>8, <3>9
  <2>6. ASSUME NEW i \in 1..Len(sets), NEW j \in 1..Len(sets), i # j, InUse(sets[i]), InUse(sets[j])
        PROVE  \/ sets[i].base + SetSize(sets[i].layout) <= sets[j].base
               \/ sets[j].base + SetSize(sets[j].layout) <= sets[i].base
    <3>1. CASE sets[i].allocator = sets[j].allocator
      <4>1. i < j \/ j < i
        BY <2>1, <2>6
      <4>2. QED
        BY <2>6, <3>1, <4>1 DEF SetsInv
    <3>2. ASSUME NEW p \in 1..Len(sets), NEW q \in 1..Len(sets), InUse(sets[p]), InUse(sets[q]),
                 sets[p].allocator < sets[q].allocator
          PROVE  sets[p].base + SetSize(sets[p].layout) <= sets[q].base
      <4>1. PICK a \in Nat, b \in Nat : a = sets[p].allocator /\ b = sets[q].allocator
        BY <2>3
      <4>2. a + 1 <= b /\ a + 1 \in Nat
        BY <3>2, <4>1
      <4>3. (a + 1) * ChunkSize <= b * ChunkSize
        BY <2>2, <4>2, TimesMonotone
      <4>4. PICK k \in Nat, l \in Nat : k = (a + 1) * ChunkSize /\ l = b * ChunkSize
        <5>1. PICK m \in Nat, l \in Nat : m = a * ChunkSize /\ l = b * ChunkSize
          BY <2>5, <3>2, <4>1, Zenon
        <5>2. (a + 1) * ChunkSize = m + ChunkSize
          BY <2>5, <3>2, <4>1, <5>1, Zenon
        <5>3. PICK k \in Nat : k = m + ChunkSize
          BY ONLY <2>2, m \in Nat
        <5>4. QED
          BY <5>1, <5>2, <5>3, Zenon
      <4>5. sets[p].base + SetSize(sets[p].layout) \in Nat /\ sets[q].base \in Nat
        BY <2>3
      <4>6. PICK e \in Nat, f \in Nat : e = sets[p].base + SetSize(sets[p].layout) /\ f = sets[q].base
        BY <4>5
      <4>7. e <= BindlessSize + k /\ BindlessSize + l <= f
        BY <2>5, <3>2, <4>1, <4>4, <4>6
      <4>8. e <= f
        <5>1. k <= l
          BY <4>3, <4>4
        <5>2. QED
          BY <2>2, <4>7, <5>1
      <4>9. QED
        BY <4>6, <4>8
    <3>3. CASE sets[i].allocator # sets[j].allocator
      <4>1. sets[i].allocator < sets[j].allocator \/ sets[j].allocator < sets[i].allocator
        BY <2>3, <3>3
      <4>2. QED
        BY <2>6, <3>2, <4>1
    <3>4. QED
      BY <3>1, <3>3
  <2>7. ASSUME NEW i \in 1..Len(sets), InUse(sets[i])
        PROVE  DescriptorsOf(sets[i]) \subseteq
                 BindlessSize + sets[i].allocator * ChunkSize
                   .. BindlessSize + (sets[i].allocator + 1) * ChunkSize - 1
    <3>1. PICK b \in Nat, n \in Nat : b = sets[i].base /\ n = SetSize(sets[i].layout)
      BY <2>3
    <3>2. PICK k \in Nat, l \in Nat :
            k = sets[i].allocator * ChunkSize /\ l = (sets[i].allocator + 1) * ChunkSize
      <4>1. PICK k \in Nat : k = sets[i].allocator * ChunkSize
        BY <2>5, <2>7, Zenon
      <4>2. (sets[i].allocator + 1) * ChunkSize = k + ChunkSize
        BY <2>5, <2>7, <4>1, Zenon
      <4>3. PICK l \in Nat : l = k + ChunkSize
        BY ONLY <2>2, k \in Nat
      <4>4. QED
        BY <4>1, <4>2, <4>3, Zenon
    <3>3. BindlessSize + k <= b /\ b + n <= BindlessSize + l
      BY <2>5, <2>7, <3>1, <3>2
    <3>4. PICK low \in Nat, high \in Nat : low = BindlessSize + k /\ high = BindlessSize + l
      BY <2>2
    <3>5. b..(b + n - 1) \subseteq low..(high - 1)
      BY <3>3, <3>4, IntervalWithin
    <3>6. high - 1 = BindlessSize + (l - 1)
      BY <2>2, <3>4
    <3>7. DescriptorsOf(sets[i]) = b..(b + n - 1)
      <4>1. b + n - 1 = b + (n - 1)
        BY <3>1
      <4>2. QED
        BY <3>1, <4>1 DEF DescriptorsOf, SetSize
    <3>8. QED
      BY <3>2, <3>4, <3>5, <3>6, <3>7
  <2>8. ASSUME NEW i \in 1..Len(sets), NEW j \in 1..Len(sets), i # j, InUse(sets[i]), InUse(sets[j])
        PROVE  DescriptorsOf(sets[i]) \cap DescriptorsOf(sets[j]) = {}
    <3>1. PICK b \in Nat, n \in Nat : b = sets[i].base /\ n = SetSize(sets[i].layout)
      BY <2>3
    <3>2. PICK c \in Nat, m \in Nat : c = sets[j].base /\ m = SetSize(sets[j].layout)
      BY <2>3
    <3>3. b + n <= c \/ c + m <= b
      BY <2>6, <2>8, <3>1, <3>2
    <3>4. b..(b + n - 1) \cap c..(c + m - 1) = {}
      BY <3>3, IntervalsApart
    <3>5. QED
      BY <3>1, <3>2, <3>4 DEF DescriptorsOf, SetSize
  <2>9. QED
    BY <2>1, <2>7, <2>8 DEF SetsDisjoint
<1>2. QED
  BY <1>1, BindingInvariant, PTL

(* A set kept over a reset of its allocator is in no list and no draw, but *)
(* for a multiple of as many resets as the reference tells apart.          *)
THEOREM StaleSetsAlwaysRefused == Spec => []StaleSetsRefused
<1>1. ASSUME NEW r \in Nat, NEW e \in Nat, NEW m \in Nat \ {0}, e <= r, r % m = e % m
      PROVE  (r - e) % m = 0
  <2>1. /\ r \div m \in Int /\ r = m * (r \div m) + (r % m)
        /\ e \div m \in Int /\ e = m * (e \div m) + (e % m) /\ r % m \in Int /\ e % m \in Int
    BY DivMod
  <2> DEFINE d == (r \div m) - (e \div m)
  <2>2. m * d = m * (r \div m) - m * (e \div m)
    BY <2>1, Z3
  <2>3. d \in Int /\ r - e = m * d + 0 /\ 0 \in 0..(m - 1)
    BY <1>1, <2>1, <2>2
  <2> HIDE DEF d
  <2>4. QED
    BY <2>3, ModUnique
<1>2. ASSUME BindingInv PROVE StaleSetsRefused
  <2> SUFFICES ASSUME NEW bound \in Bounds, NEW s \in BoundSets(bound)
               PROVE  (allocators[sets[s].allocator].resets - sets[s].epoch) % ResetCounterModulus = 0
    BY DEF StaleSetsRefused, Bounds
  <2>1. s \in 1..Len(sets) /\ Decomposes(sets[s]) /\ SetInv(sets[s])
    BY <1>2 DEF BindingInv, DeviceInv, BoundInv, Resolves, SetsInv
  <2>2. /\ allocators[sets[s].allocator].resets \in Nat
        /\ sets[s].epoch \in 0..allocators[sets[s].allocator].resets
    BY <1>2, <2>1, ResetNumbers DEF BindingInv, DeviceInv, SetInv
  <2>3. allocators[sets[s].allocator].resets % ResetCounterModulus = sets[s].epoch % ResetCounterModulus
    BY <2>1 DEF Decomposes, SetInv
  <2>4. PICK r \in Nat, e \in Nat : r = allocators[sets[s].allocator].resets /\ e = sets[s].epoch
    BY <2>2
  <2>5. e <= r /\ r % ResetCounterModulus = e % ResetCounterModulus
    BY <2>2, <2>3, <2>4
  <2>6. (r - e) % ResetCounterModulus = 0
    BY <1>1, <2>5, ResetCounterAssumption DEF ResetCounterAssumption
  <2>7. QED
    BY <2>4, <2>6
<1>3. QED
  BY <1>2, BindingInvariant, PTL

=============================================================================
