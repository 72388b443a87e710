----------------------- MODULE MCShaderLibraryBuilder -----------------------
(***************************************************************************)
(* ShaderLibraryBuilder with manifests that differ in one thing each: the  *)
(* shaders and the layout behind a name, the name, an undefined reference. *)
(***************************************************************************)
EXTENDS ShaderLibraryBuilder

Str(key, value) == [key |-> key, kind |-> "string", value |-> value]
Obj(key, value) == [key |-> key, kind |-> "object", value |-> value]
Typed(key, type) == Obj(key, <<Str("type", type)>>)

Layout(name, bindings) == Obj(name, <<Str("type", "pipeline_layout"), Obj("bindings", bindings)>>)
Shader(name, type, layout, source) ==
  Obj(name, <<Str("type", type), Str("pipeline_layout", layout), Str("src", source), Str("entry_point", "main")>>)

TwoBindings == <<Typed("x", "constant_buffer"), Typed("y", "read_only_buffer")>>
Swapped == <<TwoBindings[2], TwoBindings[1]>>

MCDocuments ==
  <<<<Layout("P", TwoBindings), Shader("s", "cs", "P", "a"), Shader("t", "ps", "P", "b")>>,
    <<Layout("P", Swapped), Shader("s", "cs", "P", "a")>>,
    <<Layout("Q", Swapped), Shader("s", "cs", "Q", "a")>>,
    <<Shader("s", "cs", "P", "a")>>>>

MCTexts ==
  [a |-> {[includes |-> <<"h">>, compiles |-> TRUE], [includes |-> <<>>, compiles |-> FALSE]},
   b |-> {[includes |-> <<"a">>, compiles |-> TRUE]},
   h |-> {[includes |-> <<>>, compiles |-> TRUE]}]

MCNames == {"x", "y", "P", "Q", "s", "t", "main"}
MCNameXSH == [x |-> <<1, 0>>, y |-> <<2, 0>>, P |-> <<3, 0>>, Q |-> <<4, 0>>, s |-> <<5, 0>>, t |-> <<6, 0>>]

=============================================================================
