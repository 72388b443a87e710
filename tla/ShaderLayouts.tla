---------------------------- MODULE ShaderLayouts ----------------------------
(***************************************************************************)
(* Descriptor set layouts, pipeline layouts and the root signature made of *)
(* them (XEngine.Gfx.HAL.ShaderCompiler.cpp).  A name is an opaque string; *)
(* what its characters decide is told by the constant sets, and its hash   *)
(* by NameXSH, as a pair of its low and its high 32 bits.                  *)
(*                                                                         *)
(* A creation gives [status |-> "ok", layout |-> ...], "rejected" (an      *)
(* error message) or "assert" (the program stops).                         *)
(***************************************************************************)
EXTENDS Naturals, Sequences, SequencesExt, FiniteSets

CONSTANTS
  None,                \* a model value: no set, no text, no file
  NameXSH,             \* XSH::Compute, on the names of the model
  MalformedNames,      \* names with characters no entry may have, or empty
  DottedNames,         \* names with a '.': entries may have them, bindings not
  StartShaderRegister, \* StartShaderRegiserIndex
  MaxSetBindings, MaxPipelineBindings, MaxStaticSamplers

ASSUME NameXSHAssumption == \A name \in DOMAIN NameXSH : NameXSH[name] \in Nat \X Nat
ASSUME LayoutLimitsAssumption ==
  {StartShaderRegister, MaxSetBindings, MaxPipelineBindings, MaxStaticSamplers} \subseteq Nat

Low32(xsh) == xsh[1]
XSH(name) == NameXSH[name]
NoSourceHash == 0 \* both layouts: the hash is never computed

ValidBindingName(name) == name \notin MalformedNames \cup DottedNames
ValidEntryName(name) == name \notin MalformedNames

Rejected == [status |-> "rejected"]
Asserted == [status |-> "assert"]
Created(layout) == [status |-> "ok", layout |-> layout]

-----------------------------------------------------------------------------
ReadOnlyDescriptors == {"ReadOnlyBuffer", "ReadOnlyTexture", "RaytracingAccelerationStructure"}
DescriptorTypes == ReadOnlyDescriptors \cup {"ReadWriteBuffer", "ReadWriteTexture"}
RangeType(type) == IF type \in ReadOnlyDescriptors THEN "SRV" ELSE "UAV"

DescriptorsBefore(bindings, i) ==
  FoldLeft(LAMBDA sum, b : sum + b.count, 0, SubSeq(bindings, 1, i - 1))

(* No two names are equal or share the low half of their hash.             *)
Distinguishable(bindings) ==
  \A i, j \in DOMAIN bindings : i # j =>
    /\ bindings[i].name # bindings[j].name
    /\ Low32(XSH(bindings[i].name)) # Low32(XSH(bindings[j].name))

PlacedDescriptor(bindings, i) ==
  [name |-> bindings[i].name, xsh |-> XSH(bindings[i].name), offset |-> DescriptorsBefore(bindings, i),
   count |-> bindings[i].count, type |-> bindings[i].type]

CreateDescriptorSetLayout(bindings) ==
  IF /\ Len(bindings) <= MaxSetBindings
     /\ \A i \in DOMAIN bindings :
          /\ ValidBindingName(bindings[i].name)
          /\ Low32(XSH(bindings[i].name)) # 0
          /\ bindings[i].count = 1
          /\ bindings[i].type \in DescriptorTypes
     /\ Distinguishable(bindings)
  THEN Created([bindings |-> [i \in DOMAIN bindings |-> PlacedDescriptor(bindings, i)],
                descriptorCount |-> DescriptorsBefore(bindings, Len(bindings) + 1),
                sourceHash |-> NoSourceHash])
  ELSE Rejected

(* Maximal runs of bindings of one range type become descriptor ranges.    *)
RangeStarts(set) ==
  {i \in DOMAIN set.bindings :
     i > 1 => RangeType(set.bindings[i].type) # RangeType(set.bindings[i - 1].type)}

RangeRegister_OfSet(baseRegister, offset) == baseRegister
RangeRegister(baseRegister, offset) == baseRegister + offset
DescriptorRanges(set, baseRegister) ==
  {LET offset == set.bindings[i].offset
       ends == {set.bindings[j].offset : j \in {j \in RangeStarts(set) : j > i}} \cup {set.descriptorCount}
   IN  [type |-> RangeType(set.bindings[i].type), offset |-> offset,
        register |-> RangeRegister(baseRegister, offset), count |-> Min(ends) - offset] : i \in RangeStarts(set)}

-----------------------------------------------------------------------------
BufferRootParameter == [ConstantBuffer |-> "CBV", ReadOnlyBuffer |-> "SRV", ReadWriteBuffer |-> "UAV"]
PipelineBindingTypes == DOMAIN BufferRootParameter \cup {"DescriptorSet"}

Filters == {"MinPnt_MagPnt_MipPnt", "MinPnt_MagPnt_MipLin", "MinPnt_MagLin_MipPnt", "MinPnt_MagLin_MipLin",
            "MinLin_MagPnt_MipPnt", "MinLin_MagPnt_MipLin", "MinLin_MagLin_MipPnt", "MinLin_MagLin_MipLin",
            "Anisotropic"}
AddressModes == {"Wrap", "Mirror", "Clamp", "BorderZero"}

(* Only the two reductions the code has a table for can be translated, and *)
(* the second of them to the filters of a minimum.                         *)
D3DFilterKind == [WeightedAverage |-> "filter", WeightedAverageOfComparisonResult |-> "minimum filter"]
SamplerTranslates(desc) ==
  /\ desc.reduction \in DOMAIN D3DFilterKind
  /\ desc.filter \in Filters
  /\ desc.address \in AddressModes

RegistersOf(binding) == IF binding.type = "DescriptorSet" THEN binding.set.descriptorCount ELSE 1
RegisterBefore(bindings, i) ==
  FoldLeft(LAMBDA register, b : register + RegistersOf(b), StartShaderRegister, SubSeq(bindings, 1, i - 1))

RootParameter(binding, register) ==
  IF binding.type = "DescriptorSet"
  THEN [kind |-> "Table", ranges |-> DescriptorRanges(binding.set, register)]
  ELSE [kind |-> BufferRootParameter[binding.type], register |-> register]

(* A sampler has no hash: its name is compared, never its XSH.             *)
NamesAccepted(bindings, samplers) ==
  /\ Distinguishable(bindings)
  /\ \A i, j \in DOMAIN samplers : i # j => samplers[i].name # samplers[j].name
  /\ \A i \in DOMAIN bindings, j \in DOMAIN samplers : bindings[i].name # samplers[j].name

PlacedBinding(bindings, i) ==
  [name |-> bindings[i].name, xsh |-> XSH(bindings[i].name), type |-> bindings[i].type, set |-> bindings[i].set,
   register |-> RegisterBefore(bindings, i), rootParameter |-> i]
(* Static samplers take the registers that follow those of the bindings.  *)
PlacedSampler(bindings, samplers, i) ==
  [name |-> samplers[i].name, desc |-> samplers[i].desc,
   register |-> RegisterBefore(bindings, Len(bindings) + 1) + i - 1]

CreatePipelineLayout(bindings, samplers) ==
  IF ~ /\ Len(bindings) <= MaxPipelineBindings
       /\ Len(samplers) <= MaxStaticSamplers
       /\ \A i \in DOMAIN bindings :
            /\ ValidBindingName(bindings[i].name)
            /\ Low32(XSH(bindings[i].name)) # 0
            /\ bindings[i].type \in PipelineBindingTypes
       /\ \A i \in DOMAIN samplers : ValidBindingName(samplers[i].name) /\ SamplerTranslates(samplers[i].desc)
       /\ NamesAccepted(bindings, samplers)
  THEN Rejected
  ELSE IF \E i \in DOMAIN bindings : bindings[i].type = "DescriptorSet" /\ bindings[i].set.bindings = <<>>
  THEN Asserted
  ELSE Created([bindings |-> [i \in DOMAIN bindings |-> PlacedBinding(bindings, i)],
                samplers |-> [i \in DOMAIN samplers |-> PlacedSampler(bindings, samplers, i)],
                rootParameters |-> [i \in DOMAIN bindings |->
                                      RootParameter(bindings[i], RegisterBefore(bindings, i))],
                sourceHash |-> NoSourceHash])

=============================================================================
