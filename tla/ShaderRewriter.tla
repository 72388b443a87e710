--------------------------- MODULE ShaderRewriter ---------------------------
(***************************************************************************)
(* The shader rewriter (XEngine.Gfx.HAL.ShaderCompiler.ShaderRewriter.cpp) *)
(* replaces the `xe::binding` attribute of a declaration by the register   *)
(* that the pipeline layout gives the binding of that name.                *)
(*                                                                         *)
(* The source is the sequence of lexemes the lexer hands out, [kind, text] *)
(* with kind "id", "literal", "other" (any character the rewriter gives no *)
(* meaning), the character itself for punctuation, and "bad" for what the  *)
(* lexer cannot read (an invalid character, an unfinished string or        *)
(* comment): the step that reaches it fails.  Messages are left out.       *)
(***************************************************************************)
EXTENDS ShaderLayouts

VARIABLES
  source, layout,  \* of the shader at hand
  pc,              \* where in Rewrite: "scan", "attribute", "list", "declaration", or how it ended
  at,              \* the current lexeme
  doubled,         \* prevLexemeIsLeftSquareBracket
  from,            \* SourcePatcher::originalSourceOffset
  result,          \* SourcePatcher::result: lexemes of the source, and patches
  attribute,       \* the binding attribute of the list at hand, or None
  declared         \* the registers written so far, and for which binding

rewriterVars == <<source, layout, pc, at, doubled, from, result, attribute, declared>>

Ended == {"done", "failed"}

Lexeme(p) == IF p <= Len(source) THEN source[p] ELSE [kind |-> "eof", text |-> ""]
HasShape(p, kinds) == \A i \in DOMAIN kinds : Lexeme(p + i - 1).kind = kinds[i]
TextsAt(positions) == [i \in DOMAIN positions |-> Lexeme(positions[i]).text]

(* Lexer::advance up to lexeme p, and on with `next`.                      *)
AdvanceTo(p, next) ==
  /\ at' = Min({p, Len(source) + 1})
  /\ pc' = IF \E q \in at..p : Lexeme(q).kind = "bad" THEN "failed" ELSE next

(* SourcePatcher::advance with forwardOriginalSource.                      *)
Forwarded_Inclusive(to) == SubSeq(source, from, Min({to, Len(source)}))
Forwarded(to) == SubSeq(source, from, to - 1)

-----------------------------------------------------------------------------
(* The binding a name stands for, as [class, type, register]: `class` is   *)
(* the letter of the register, `type` the kind of declaration it needs.    *)
ResourceType == [ConstantBuffer |-> "ConstantBuffer", ReadOnlyBuffer |-> "Buffer", ReadWriteBuffer |-> "RWBuffer",
                 ReadOnlyTexture |-> "Texture", ReadWriteTexture |-> "RWTexture",
                 RaytracingAccelerationStructure |-> "RaytracingAccelerationStructure"]
RegisterClass == [ConstantBuffer |-> "b", Buffer |-> "t", Texture |-> "t", RaytracingAccelerationStructure |-> "t",
                  RWBuffer |-> "u", RWTexture |-> "u", SamplerState |-> "s"]
DeclaredAs ==
  [ConstantBuffer |-> {"ConstantBuffer"}, Buffer |-> {"Buffer", "StructuredBuffer"}, RWBuffer |-> {"RWBuffer"},
   Texture |-> {"Texture1D", "Texture2D", "Texture3D"}, RWTexture |-> {"RWTexture1D", "RWTexture2D", "RWTexture3D"},
   RaytracingAccelerationStructure |-> {"RaytracingAccelerationStructure"}]

Find(bindings, name) == {i \in DOMAIN bindings : bindings[i].name = name}
Bound(type, register) == [class |-> RegisterClass[type], type |-> type, register |-> register]

ExtractBindingInfo(root, nested) ==
  LET samplers == Find(layout.samplers, root)
      bindings == Find(layout.bindings, root)
  IN  IF samplers # {}
      THEN IF nested # None THEN None ELSE Bound("SamplerState", layout.samplers[Min(samplers)].register)
      ELSE IF bindings = {} THEN None
      ELSE LET binding == layout.bindings[Min(bindings)]
           IN  IF binding.type # "DescriptorSet"
               THEN IF nested # None THEN None ELSE Bound(ResourceType[binding.type], binding.register)
               ELSE LET inSet == Find(binding.set.bindings, nested)
                    IN  IF inSet = {} THEN None
                        ELSE LET descriptor == binding.set.bindings[Min(inSet)]
                             IN  Bound(ResourceType[descriptor.type], binding.register + descriptor.offset)

-----------------------------------------------------------------------------
RewriterInit(text, pipelineLayout) ==
  /\ source = text /\ layout = pipelineLayout
  /\ pc = "scan" /\ at = 1 /\ doubled = FALSE
  /\ from = 1 /\ result = <<>>
  /\ attribute = None /\ declared = {}

(* A rewriter is a local variable: it ends with the shader it was for.     *)
NextRewrite(text, pipelineLayout, start) ==
  /\ source' = text /\ layout' = pipelineLayout
  /\ pc' = start /\ at' = 1 /\ doubled' = FALSE
  /\ from' = 1 /\ result' = <<>>
  /\ attribute' = None /\ declared' = {}

Fail == pc' = "failed" /\ UNCHANGED <<at, doubled, from, result, attribute, declared>>

(* The loop of Rewrite: two brackets in a row begin an attribute list.     *)
Scan ==
  /\ pc = "scan" /\ Lexeme(at).kind # "eof"
  /\ IF Lexeme(at).kind = "bad" \/ Lexeme(at).text \in {"register", "cbuffer"}
     THEN Fail
     ELSE LET opens == Lexeme(at).kind = "["
          IN  /\ AdvanceTo(at + 1, IF opens /\ doubled THEN "attribute" ELSE "scan")
              /\ doubled' = (opens /\ ~doubled)
              /\ attribute' = None
              /\ UNCHANGED <<from, result, declared>>

Qualified == Lexeme(at + 1).kind = "::"
AfterName == IF Qualified THEN at + 3 ELSE at + 1
AttributeName == TextsAt(IF Qualified THEN <<at, at + 2>> ELSE <<at>>)

(* Parens from p on: how many of them are still open after lexeme q.       *)
Count(kind, p, q) == Cardinality({r \in p..q : Lexeme(r).kind = kind})
ClosingParens(p) == {q \in p..Len(source) : Count("(", p, q) = Count(")", p, q)}

(* The arguments of xe::binding, as [root, nested, after], or None.        *)
BindingArguments(p) ==
  CASE HasShape(p, <<"(", "id", ")">>) ->
         [root |-> Lexeme(p + 1).text, nested |-> None, after |-> p + 3]
    [] HasShape(p, <<"(", "id", "::", "id", ")">>) ->
         [root |-> Lexeme(p + 1).text, nested |-> Lexeme(p + 3).text, after |-> p + 5]
    [] OTHER -> None

(* The lexeme after the attribute at hand, or None when it is refused.  An *)
(* attribute without parens is read one lexeme too far.                    *)
IsBinding == Lexeme(at).kind = "id" /\ AttributeName = <<"xe", "binding">>
AfterAttribute ==
  LET arguments == BindingArguments(AfterName)
      closing == ClosingParens(AfterName)
  IN  IF Lexeme(at).kind # "id" THEN at
      ELSE IF Qualified /\ Lexeme(at + 2).kind # "id" THEN None
      ELSE IF IsBinding THEN IF attribute # None \/ arguments = None THEN None ELSE arguments.after
      ELSE IF Qualified /\ Lexeme(at).text = "xe" THEN None
      ELSE IF Lexeme(AfterName).kind # "(" THEN AfterName + 1
      ELSE IF closing = {} THEN None ELSE Min(closing) + 1

(* The source up to an attribute is kept; a binding attribute is dropped.  *)
ProcessAttribute ==
  /\ pc = "attribute"
  /\ IF AfterAttribute = None THEN Fail
     ELSE /\ AdvanceTo(AfterAttribute, "list")
          /\ result' = result \o Forwarded(at)
          /\ from' = IF IsBinding THEN AfterAttribute ELSE at
          /\ attribute' = IF IsBinding THEN BindingArguments(AfterName) ELSE attribute
          /\ UNCHANGED <<doubled, declared>>

(* A separator is looked at, never consumed.                               *)
IsSeparator_AlsoEndOfFile(kind) == kind \in {",", "eof"}
IsSeparator(kind) == kind = ","
ProcessAttributeList ==
  /\ pc = "list"
  /\ CASE IsSeparator(Lexeme(at).kind) ->
            pc' = "attribute" /\ UNCHANGED <<at, doubled, from, result, attribute, declared>>
       [] HasShape(at, <<"]", "]">>) ->
            /\ AdvanceTo(at + 2, IF attribute = None THEN "scan" ELSE "declaration")
            /\ UNCHANGED <<doubled, from, result, attribute, declared>>
       [] OTHER -> Fail

(* Where the declaration ends, or None.  Without template arguments the    *)
(* lexeme after the type is skipped unseen.                                *)
DeclarationEnd(type) ==
  LET name == IF type = "SamplerState" THEN at + 1
              ELSE IF HasShape(at + 1, <<"<", "id", ">">>) THEN at + 4
              ELSE IF Lexeme(at + 1).kind \in {"<", "bad"} THEN Len(source) + 1 ELSE at + 2
      typed == IF type = "SamplerState" THEN Lexeme(at).text = type
               ELSE Lexeme(at).kind = "id" /\ Lexeme(at).text \in DeclaredAs[type]
  IN  IF typed /\ HasShape(name, <<"id", ";">>) THEN name + 1 ELSE None

Patch(info) == [kind |-> "patch", class |-> info.class, register |-> info.register]

ProcessVariableDeclarationForBinding ==
  /\ pc = "declaration"
  /\ LET info == ExtractBindingInfo(attribute.root, attribute.nested)
         semicolon == IF info = None THEN None ELSE DeclarationEnd(info.type)
     IN  IF semicolon = None THEN Fail
         ELSE /\ result' = Append(result \o Forwarded(semicolon), Patch(info))
              /\ from' = semicolon
              /\ AdvanceTo(semicolon + 1, "scan")
              /\ declared' = declared \cup
                   {[root |-> attribute.root, nested |-> attribute.nested,
                     class |-> info.class, register |-> info.register]}
              /\ UNCHANGED <<doubled, attribute>>

Finish ==
  /\ pc = "scan" /\ Lexeme(at).kind = "eof"
  /\ result' = result \o Forwarded(at)
  /\ from' = at /\ pc' = "done"
  /\ UNCHANGED <<at, doubled, attribute, declared>>

Rewrite ==
  /\ \/ Scan \/ ProcessAttribute \/ ProcessAttributeList
     \/ ProcessVariableDeclarationForBinding \/ Finish
  /\ UNCHANGED <<source, layout>>

=============================================================================
