---------------------------- MODULE ShaderBinding ----------------------------
(***************************************************************************)
(* From a shader's text to what it reads on the GPU: the shaders of a      *)
(* library are rewritten and compiled one after the other, stored, loaded, *)
(* and drawn with.  What a client binds by a name must arrive where the    *)
(* rewriter put the declaration of that name, although the text, the root  *)
(* signature, the blobs and the command list each keep the correspondence  *)
(* on their own.                                                           *)
(***************************************************************************)
EXTENDS ShaderRewriter, DescriptorBinding

CONSTANTS
  Libraries,  \* what manifests declare: sets [name, bindings], layouts [name, bindings, samplers],
              \* shaders [name, type, layout, source], the set of a binding being its name
  Played      \* bound of the model: the libraries a program is run with

(* A program has a shader, or there is nothing to build.                   *)
ASSUME LibrariesAssumption ==
  \A l \in DOMAIN Libraries :
    /\ Len(Libraries[l].shaders) \in Nat \ {0}
    /\ \A i \in 1..Len(Libraries[l].shaders) : Len(Libraries[l].shaders[i].source) \in Nat

VARIABLES
  library,   \* which of the libraries
  compiled,  \* blobs of the shaders compiled so far
  file,      \* the stored library, or None
  phase      \* "compiling", "compiled", "stored", "running", "stopped"

vars == <<library, compiled, file, phase, rewriterVars, deviceVars>>

(* What the manifest loader makes of a library: its layouts in order.      *)
Named(entries, name) == entries[Min({i \in DOMAIN entries : entries[i].name = name})]
SetLayouts(lib) ==
  [i \in DOMAIN lib.sets |->
     [xsh |-> XSH(lib.sets[i].name), name |-> lib.sets[i].name,
      layout |-> CreateDescriptorSetLayout(lib.sets[i].bindings).layout]]
PipelineLayouts(lib) ==
  LET Resolved(b) == IF b.type = "DescriptorSet" THEN [b EXCEPT !.set = Named(SetLayouts(lib), @).layout] ELSE b
  IN  [i \in DOMAIN lib.layouts |->
         [xsh |-> XSH(lib.layouts[i].name), name |-> lib.layouts[i].name,
          layout |-> CreatePipelineLayout([j \in DOMAIN lib.layouts[i].bindings |-> Resolved(lib.layouts[i].bindings[j])],
                                          lib.layouts[i].samplers).layout]]

Shaders == Libraries[library].shaders
LayoutOf(shader) == Named(PipelineLayouts(Libraries[library]), shader.layout).layout

Init ==
  /\ library \in DOMAIN Libraries
  /\ RewriterInit(Shaders[1].source, LayoutOf(Shaders[1]))
  /\ compiled = <<>> /\ file = None /\ phase = "compiling"
  /\ DeviceInit

RewriteShader ==
  /\ phase = "compiling" /\ Rewrite
  /\ UNCHANGED <<library, compiled, file, phase, deviceVars>>

(* The compiler (external) may refuse the text; what it makes of it reads  *)
(* the registers that were written.  The first failure ends the build.     *)
CompileShader ==
  /\ phase = "compiling" /\ pc = "done"
  /\ LET shader == Shaders[Len(compiled) + 1]
         blob == ShaderBlob(shader.type, layout, <<[registers |-> declared]>>)
     IN  \/ pc' = "failed" /\ UNCHANGED <<compiled, phase, source, layout, at, doubled, from, result, attribute, declared>>
         \/ /\ compiled' = Append(compiled, blob)
            /\ IF Len(compiled') = Len(Shaders)
               THEN phase' = "compiled" /\ NextRewrite(<<>>, None, pc)
               ELSE /\ NextRewrite(Shaders[Len(compiled) + 2].source, LayoutOf(Shaders[Len(compiled) + 2]), "scan")
                    /\ UNCHANGED phase
  /\ UNCHANGED <<library, file, deviceVars>>

StoreLibrary ==
  /\ phase = "compiled"
  /\ LET built == [sets |-> SetLayouts(Libraries[library]), layouts |-> PipelineLayouts(Libraries[library]),
                   shaders |-> [i \in DOMAIN Shaders |->
                                  [xsh |-> XSH(Shaders[i].name), layoutXSH |-> XSH(Shaders[i].layout),
                                   blob |-> compiled[i]]]]
     IN  \E missing \in {0, 1} : file' = Truncated(StoreShaderLibrary(built), missing)
  /\ phase' = "stored" /\ compiled' = <<>> \* the builder ends
  /\ UNCHANGED <<library, rewriterVars, deviceVars>>

LoadLibrary ==
  /\ phase = "stored" /\ library \in Played
  /\ IF IsLoadable(file) THEN phase' = "running" /\ loaded' = Load(file)
                         ELSE phase' = "stopped" /\ UNCHANGED loaded
  /\ UNCHANGED <<library, compiled, file, rewriterVars, pipelines, allocators, heap, sets, list, draws, frame>>

RunProgram ==
  /\ phase = "running" /\ DeviceStep
  /\ UNCHANGED <<library, compiled, file, phase, rewriterVars>>

Next == RewriteShader \/ CompileShader \/ StoreLibrary \/ LoadLibrary \/ RunProgram

(* The builder is one thread that runs until it is through.                *)
Spec == Init /\ [][Next]_vars /\ WF_vars(RewriteShader)

-----------------------------------------------------------------------------
(* Every variable holds what the code can put there: the patcher stands at *)
(* or before the lexer, no allocator is filled past its chunk, a bound     *)
(* argument is one of a binding of the layout that is set.                 *)
TypeOK ==
  /\ pc \in {"scan", "attribute", "list", "declaration"} \cup Ended
  /\ at \in 1..(Len(source) + 1) /\ from \in 1..at
  /\ phase \in {"compiling", "compiled", "stored", "running", "stopped"}
  /\ Len(compiled) <= Len(Shaders)
  /\ \A a \in DOMAIN allocators : allocators[a].fill \in 0..ChunkSize /\ allocators[a].resets \in 0..MaxResets
  /\ DOMAIN heap = 0..(HeapSize - 1) /\ \A i \in DOMAIN heap : heap[i] \in Views \cup {None}
  /\ list.type \in PipelineTypes \cup {"Undefined"}
  /\ DOMAIN list.bound \subseteq BindingNames
  /\ frame \in {"recording", "closed", "submitted"}

(* What Rewrite makes of a text, said without its steps: a binding         *)
(* attribute at the head of a list is left out, the semicolon that ends    *)
(* the declaration after it gets the register of the binding in front, and *)
(* every other lexeme is kept in its place (SourcePatcher,                 *)
(* ShaderRewriter.cpp:417-444, and every place that advances it).          *)
AttributeAt(p) ==
  /\ p > 2 /\ HasShape(p - 2, <<"[", "[">>)
  /\ HasShape(p, <<"id", "::", "id">>) /\ TextsAt(<<p, p + 2>>) = <<"xe", "binding">>
  \* not among the arguments of another attribute
  /\ \A q \in 3..(p - 1) :
       HasShape(q - 2, <<"[", "[", "id", "(">>) => \E r \in ClosingParens(q + 1) : r < p
Left(p) == p..(BindingArguments(p + 3).after - 1)
Semicolon(p) == Min({q \in p..Len(source) : Lexeme(q).kind = ";"})
PatchOf(p) ==
  Patch(ExtractBindingInfo(BindingArguments(p + 3).root, BindingArguments(p + 3).nested))
RewritesToReference ==
  phase = "compiling" /\ pc = "done" =>
    LET heads == {p \in 1..Len(source) : AttributeAt(p)}
        Kept(p) == IF \E h \in heads : p \in Left(h) THEN <<>>
                   ELSE IF \E h \in heads : p = Semicolon(h)
                   THEN <<PatchOf(CHOOSE h \in heads : p = Semicolon(h)), source[p]>>
                   ELSE <<source[p]>>
    IN  result = FlattenSeq([p \in 1..Len(source) |-> Kept(p)])

(* Rewriting any text comes to an end, unless it stands at a comma in an   *)
(* attribute list: ProcessAttributeList loops there for ever               *)
(* (ShaderRewriter.cpp:592-628).                                           *)
AtComma == pc = "list" /\ Lexeme(at).kind = ","
RewriteEnds == pc = "scan" ~> pc \in Ended \/ AtComma

(* Descriptors of sets that may still be used never overlap, stay in the   *)
(* chunk of their allocator and out of the bindless pool                   *)
(* (allocateDescriptorSet, D3D12.cpp:2007-2020; the chunk is asserted      *)
(* after the fill level was raised).                                       *)
InUse(set) == set.epoch = allocators[set.allocator].resets
DescriptorsOf(set) == set.base..(set.base + Len(loaded.sets[set.layout].bindings) - 1)
SetsDisjoint ==
  \A i \in DOMAIN sets : InUse(sets[i]) =>
    /\ DescriptorsOf(sets[i]) \subseteq
         BindlessSize + sets[i].allocator * ChunkSize .. BindlessSize + (sets[i].allocator + 1) * ChunkSize - 1
    /\ \A j \in DOMAIN sets : j # i /\ InUse(sets[j]) => DescriptorsOf(sets[i]) \cap DescriptorsOf(sets[j]) = {}

(* A set that was kept over a reset of its allocator is refused, but for a *)
(* multiple of 2^6 resets, after which the six bits it carries are the     *)
(* same again (D3D12.cpp:1018-1041, "we need to validate allocator         *)
(* somehow").                                                              *)
BoundSets(bound) == {bound[xsh].set : xsh \in {x \in DOMAIN bound : "set" \in DOMAIN bound[x]}}
StaleSetsRefused ==
  \A bound \in {list.bound} \cup {draw.bound : draw \in draws} :
    \A s \in BoundSets(bound) :
      (allocators[sets[s].allocator].resets - sets[s].epoch) % ResetCounterModulus = 0

(* Whatever the GPU has yet to read for a draw, it finds what the client   *)
(* bound and wrote by the names the text uses: the register the rewriter   *)
(* wrote is covered by a root parameter of the argument bound by that      *)
(* name, and for a set by the descriptor written by the nested name        *)
(* (ShaderRewriter, PipelineLayout::Create, the blobs, bindDescriptorSet,  *)
(* writeDescriptorSet).  Not checked by the code and therefore not         *)
(* claimed: a pipeline whose shaders have another layout, a set of another *)
(* set layout, a set kept over 2^6 resets.                                 *)
KindOf == [b |-> "CBV", t |-> "SRV", u |-> "UAV"]
Reads(draw, r) ==
  LET signature == loaded.layouts[draw.layout].rootSignature
      Covering(i) == {range \in signature[i].ranges : /\ range.type = KindOf[r.class]
                                                      /\ r.register \in range.register..(range.register + range.count - 1)}
      given == DOMAIN draw.arguments
      views == {i \in given : signature[i].kind = KindOf[r.class] /\ signature[i].register = r.register}
      tables == {i \in given : signature[i].kind = "Table" /\ Covering(i) # {}}
  IN  {draw.arguments[i] : i \in views} \cup
      UNION {{heap[sets[draw.arguments[i].set].base + range.offset + r.register - range.register] :
                range \in Covering(i)} : i \in tables}

DeclaredSet(l, root) == Named(Libraries[library].layouts[l].bindings, root).set
ArgumentsReachShader ==
  \A draw \in draws :
    \A s \in draw.program.shaders : loaded.shaders[s].layout = draw.layout =>
      \A r \in loaded.shaders[s].bytecode[1].registers : XSH(r.root) \in DOMAIN draw.bound =>
        LET argument == draw.bound[XSH(r.root)]
        IN  IF r.nested = None THEN Reads(draw, r) = {argument}
            ELSE LET set == sets[argument.set]
                 IN  /\ InUse(set) /\ XSH(r.nested) \in DOMAIN set.contents
                     /\ Libraries[library].sets[set.layout].name = DeclaredSet(draw.layout, r.root)
                     => Reads(draw, r) = {set.contents[XSH(r.nested)]}

=============================================================================
