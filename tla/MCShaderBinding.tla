-------------------------- MODULE MCShaderBinding --------------------------
(***************************************************************************)
(* ShaderBinding with every text of at most two of the fragments below,    *)
(* each built alone, and one library whose program is run.                 *)
(***************************************************************************)
EXTENDS ShaderBinding

Punctuation == {"[", "]", "(", ")", "<", ">", "::", ",", ";"}
Lex(text) ==
  [kind |-> IF text \in Punctuation THEN text ELSE IF text = "$" THEN "bad" ELSE IF text = "1" THEN "literal" ELSE "id",
   text |-> text]
Text(words) == [i \in DOMAIN words |-> Lex(words[i])]

Attr(inner) == <<"[", "[">> \o inner \o <<"]", "]">>
Binding(name) == Attr(<<"xe", "::", "binding", "(">> \o name \o <<")">>)
Typed(type) == <<type, "<", "T", ">", "v", ";">>

ConstantsOfCB == Binding(<<"cb">>) \o Typed("ConstantBuffer")
SecondTexture == Binding(<<"ds", "::", "tex2">>) \o Typed("Texture2D")
WritableTexture == Binding(<<"ds", "::", "uav">>) \o Typed("RWTexture2D")
Sampler == Binding(<<"smp">>) \o <<"SamplerState", "v", ";">>

Fragments ==
  <<ConstantsOfCB, SecondTexture, WritableTexture, Sampler,
   Binding(<<"ds">>) \o Typed("Texture2D"),
   Binding(<<"cb", "::", "tex">>) \o Typed("ConstantBuffer"),
   Binding(<<"ds", "::", "tex">>) \o <<"Texture2D", "v", ";">>,
   Binding(<<"ds", "::", "tex">>) \o Typed("RWTexture2D"),
   Attr(<<"numthreads", "(", "f", "(", "1", ")", ",", "1", ")">>) \o <<"v", "(", ")", ";">>,
   Attr(<<"f", "(">> \o ConstantsOfCB \o <<")">>),
   Attr(<<"xe", "::", "other", "(", "1", ")">>), Attr(<<"a", ",", "b">>),
   Attr(<<"f", "(", "1", ")", ",", "b">>), Attr(<<"unroll">>), Attr(<<>>),
   <<"v", "[", "v", "[", "1", "]", "]", ";">>, <<"[", "[">>, <<"register">>, <<"$">>>>

Set(name, bindings) == [name |-> name, bindings |-> bindings]
D(name, type) == [name |-> name, type |-> type, count |-> 1]
B(name, type, set) == [name |-> name, type |-> type, set |-> set]
Shader(name, type, used, words) == [name |-> name, type |-> type, layout |-> used, source |-> Text(words)]
PointSampler == [filter |-> "MinPnt_MagPnt_MipPnt", reduction |-> "WeightedAverage", address |-> "Wrap"]

WideSet == Set("S", <<D("tex", "ReadOnlyTexture"), D("uav", "ReadWriteTexture"), D("tex2", "ReadOnlyTexture")>>)
NarrowSet == Set("N", <<D("tex2", "ReadOnlyTexture")>>)
SetFirst == [name |-> "P", bindings |-> <<B("ds", "DescriptorSet", "S"), B("cb", "ConstantBuffer", None)>>,
             samplers |-> <<[name |-> "smp", desc |-> PointSampler]>>]
BufferFirst == [name |-> "Q", bindings |-> <<B("cb", "ConstantBuffer", None), B("ds", "DescriptorSet", "N")>>,
                samplers |-> <<>>]

Played1 == [sets |-> <<WideSet, NarrowSet>>, layouts |-> <<SetFirst, BufferFirst>>,
            shaders |-> <<Shader("c", "Compute", "P", SecondTexture \o Sampler \o ConstantsOfCB),
                          Shader("p", "Pixel", "Q", ConstantsOfCB \o SecondTexture)>>]
Alone(words) == [sets |-> <<WideSet>>, layouts |-> <<SetFirst>>, shaders |-> <<Shader("c", "Compute", "P", words)>>]

MCLibraries ==
  LET n == Len(Fragments)
  IN  <<Played1>> \o [i \in 1..n |-> Alone(Fragments[i])]
      \o [i \in 1..(n * n) |-> Alone(Fragments[(i - 1) \div n + 1] \o Fragments[((i - 1) % n) + 1])]

MCNames == <<"cb", "ds", "tex", "tex2", "uav", "smp", "S", "N", "P", "Q", "c", "p">>
MCNameXSH == [name \in ToSet(MCNames) |-> <<CHOOSE i \in DOMAIN MCNames : MCNames[i] = name, 0>>]

=============================================================================
