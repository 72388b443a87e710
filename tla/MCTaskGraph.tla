---------------------------- MODULE MCTaskGraph ----------------------------
(***************************************************************************)
(* TaskGraph with the uses its clients declare: those of SceneRenderer     *)
(* (shader read in a pixel shader, color render target), of a compute      *)
(* pass, and of a copy.                                                    *)
(***************************************************************************)
EXTENDS TaskGraph

Use(sync, access, layout) == [scope |-> [sync |-> {sync}, access |-> {access}], layout |-> layout]

MCBufferUses ==
  {Use("PixelShader", "ShaderReadOnly", "Undefined"),
   Use("ComputeShader", "ShaderReadOnly", "Undefined"),
   Use("ComputeShader", "ShaderReadWrite", "Undefined")}

MCTextureUses ==
  {Use("PixelShader", "ShaderReadOnly", "ShaderReadOnly"),
   Use("ComputeShader", "ShaderReadOnly", "ShaderReadOnly"),
   Use("ColorRenderTarget", "ColorRenderTarget", "ColorRenderTarget"),
   Use("Copy", "CopySource", "Common")}

MCImportLayouts == {<<"Present", "Present">>, <<"ShaderReadOnly", "Common">>}

=============================================================================
