--------------------------- MODULE LibraryManifest ---------------------------
(***************************************************************************)
(* The loader of shader library manifests                                  *)
(* (XEngine.Gfx.ShaderLibraryBuilder.LibraryManifestLoader.cpp).  A        *)
(* document is what the JSON reader hands out: the properties of the root  *)
(* object in file order, a property being [key, kind, value] with kind     *)
(* "string", "object" or "number" and the value a string or the properties *)
(* of the object.  The loader reads on while all is well; a step that is   *)
(* not well ends the load as "rejected" (reported) or "assert" (the        *)
(* program stops: no number can be parsed, no property may be left over).  *)
(***************************************************************************)
EXTENDS ShaderLayouts

MissingSourcePaths == {""} \* ValidateShaderSourcePath: empty, or no file name

ParseFilter ==
  [point |-> "MinPnt_MagPnt_MipPnt", linear |-> "MinLin_MagLin_MipLin", aniso |-> "Anisotropic",
   min_pnt_mag_pnt_mip_pnt |-> "MinPnt_MagPnt_MipPnt", min_pnt_mag_pnt_mip_lin |-> "MinPnt_MagPnt_MipLin",
   min_pnt_mag_lin_mip_pnt |-> "MinPnt_MagLin_MipPnt", min_pnt_mag_lin_mip_lin |-> "MinPnt_MagLin_MipLin",
   min_lin_mag_pnt_mip_pnt |-> "MinLin_MagPnt_MipPnt", min_lin_mag_pnt_mip_lin |-> "MinLin_MagPnt_MipLin",
   min_lin_mag_lin_mip_pnt |-> "MinLin_MagLin_MipPnt", min_lin_mag_lin_mip_lin |-> "MinLin_MagLin_MipLin"]
ParseReduction ==
  [weighted_avg |-> "WeightedAverage", weighted_avg_cmp |-> "WeightedAverageOfComparisonResult",
   min |-> "Min", max |-> "Max"]
ParseAddress == [wrap |-> "Wrap", mirror |-> "Mirror", clamp |-> "Clamp", border_zero |-> "BorderZero"]
ParseDescriptorType ==
  [read_only_buffer_descriptor |-> "ReadOnlyBuffer", read_write_buffer_descriptor |-> "ReadWriteBuffer",
   read_only_texture_descriptor |-> "ReadOnlyTexture", read_write_texture_descriptor |-> "ReadWriteTexture",
   raytracing_acceleration_structure_descriptor |-> "RaytracingAccelerationStructure"]
ParsePipelineBindingType ==
  [constant_buffer |-> "ConstantBuffer", read_only_buffer |-> "ReadOnlyBuffer",
   read_write_buffer |-> "ReadWriteBuffer", descriptor_set |-> "DescriptorSet"]
ParseShaderType ==
  [vs |-> "Vertex", vertex_shader |-> "Vertex", as |-> "Amplification", amplification_shader |-> "Amplification",
   ms |-> "Mesh", mesh_shader |-> "Mesh", ps |-> "Pixel", pixel_shader |-> "Pixel",
   cs |-> "Compute", compute_shader |-> "Compute"]

Lookup(table, string, otherwise) == IF string \in DOMAIN table THEN table[string] ELSE otherwise

-----------------------------------------------------------------------------
(* Reading: a state is the library so far and how the load goes.           *)
Begin == [status |-> "ok", samplers |-> <<>>, sets |-> <<>>, layouts |-> <<>>, shaders |-> <<>>]
Failed(lib, status) == [lib EXCEPT !.status = status]

(* The status of consuming property i of an object: it must be there, be   *)
(* called `key` and have a value of the kind asked for.                    *)
Consume(body, i, key, kind) ==
  IF i > Len(body) THEN "rejected"
  ELSE IF body[i].kind = "number" THEN "assert"
  ELSE IF body[i].key = key /\ body[i].kind = kind THEN "ok" ELSE "rejected"

Check(condition) == IF condition THEN "ok" ELSE "rejected"

(* LibFind*: entries of one kind are told apart by the hash of the name.   *)
Named(entries, name) == {i \in DOMAIN entries : entries[i].xsh = XSH(name)}
FirstNamed(entries, name) == entries[Min(Named(entries, name))]
IsNew(entries, name) == XSH(name) # <<0, 0>> /\ Named(entries, name) = {}

(* readStaticSampler reads its properties in any order, each mode once.    *)
SamplerProperty(state, p) ==
  LET Mode(field, parsed) ==
        IF state.desc[field] # "Undefined" \/ p.kind # "string" \/ parsed = "Undefined"
        THEN Failed(state, "rejected") ELSE [state EXCEPT !.desc[field] = parsed]
  IN  IF state.status # "ok" THEN state
      ELSE IF p.kind = "number" THEN Failed(state, "assert")
      ELSE CASE p.key = "filter" -> Mode("filter", Lookup(ParseFilter, p.value, "Anisotropic"))
             [] p.key = "reduction" -> Mode("reduction", Lookup(ParseReduction, p.value, "Undefined"))
             [] p.key = "address" -> Mode("address", Lookup(ParseAddress, p.value, "Undefined"))
             \* The next property is read while the reader still stands at this object.
             [] p.key \in {"lod_bias", "lod_min"} -> IF p.kind = "object" THEN Failed(state, "assert") ELSE state
             [] OTHER -> Failed(state, "rejected")

ReadStaticSampler(lib, name, body) ==
  LET start == [status |-> Check(\A i \in DOMAIN lib.samplers : lib.samplers[i].name # name),
                desc |-> [filter |-> "Undefined", reduction |-> "Undefined", address |-> "Undefined"]]
      end == FoldLeft(SamplerProperty, start, body)
      complete == \A field \in DOMAIN end.desc : end.desc[field] # "Undefined"
      \* An anisotropic sampler needs max_anisotropy, which cannot be given.
      usable == complete /\ end.desc.filter # "Anisotropic"
  IN  IF end.status # "ok" THEN Failed(lib, end.status)
      ELSE IF usable THEN [lib EXCEPT !.samplers = Append(@, [name |-> name, desc |-> end.desc])]
      ELSE Failed(lib, "rejected")

(* The head of a binding: an object whose name is valid.                   *)
BindingHead(p) ==
  IF p.kind = "number" THEN "assert" ELSE Check(p.kind = "object" /\ ValidBindingName(p.key))

DescriptorBinding(state, p) ==
  LET head == BindingHead(p)
      typed == IF head # "ok" THEN head ELSE Consume(p.value, 1, "type", "string")
  IN  IF typed # "ok" THEN Failed(state, typed)
      ELSE IF /\ p.value[1].value \in DOMAIN ParseDescriptorType
              /\ Len(p.value) = 1
              /\ Len(state.bindings) < MaxSetBindings
      THEN [state EXCEPT !.bindings =
              Append(@, [name |-> p.key, count |-> 1, type |-> ParseDescriptorType[p.value[1].value]])]
      ELSE Failed(state, "rejected")

(* A static sampler is listed among the bindings and is not one of them.   *)
PipelineBinding(lib, state, p) ==
  LET head == BindingHead(p)
      typed == IF head # "ok" THEN head ELSE Consume(p.value, 1, "type", "string")
      typeName == p.value[1].value
      sampler == typeName = "static_sampler"
      type == Lookup(ParsePipelineBindingType, typeName, "Undefined")
      extra == IF sampler THEN Consume(p.value, 2, "sampler", "string")
               ELSE IF type = "Undefined" THEN "rejected"
               ELSE IF type = "DescriptorSet" THEN Consume(p.value, 2, "dsl", "string") ELSE "ok"
      declared == IF sampler THEN \E i \in DOMAIN lib.samplers : lib.samplers[i].name = p.value[2].value
                  ELSE type = "DescriptorSet" => Named(lib.sets, p.value[2].value) # {}
      closed == Len(p.value) = IF sampler \/ type = "DescriptorSet" THEN 2 ELSE 1
      room == IF sampler THEN Len(state.samplers) < MaxStaticSamplers
              ELSE Len(state.bindings) < MaxPipelineBindings
  IN  IF typed # "ok" THEN Failed(state, typed)
      ELSE IF extra # "ok" THEN Failed(state, extra)
      ELSE IF ~(declared /\ closed /\ room) THEN Failed(state, "rejected")
      ELSE IF sampler
      THEN [state EXCEPT !.samplers = Append(@,
              [name |-> p.key,
               desc |-> SelectSeq(lib.samplers, LAMBDA s : s.name = p.value[2].value)[1].desc])]
      ELSE [state EXCEPT !.bindings = Append(@,
              [name |-> p.key, type |-> type,
               set |-> IF type = "DescriptorSet" THEN FirstNamed(lib.sets, p.value[2].value).layout ELSE None])]

(* The object `bindings` is the only property of a layout entry.           *)
ReadBindings(lib, body, inSet) ==
  LET opened == Consume(body, 1, "bindings", "object")
      start == [status |-> opened, bindings |-> <<>>, samplers |-> <<>>]
      Read(state, p) == IF state.status # "ok" THEN state
                        ELSE IF inSet THEN DescriptorBinding(state, p) ELSE PipelineBinding(lib, state, p)
      end == FoldLeft(Read, start, body[1].value)
  IN  IF opened # "ok" THEN start
      ELSE IF end.status = "ok" /\ Len(body) > 1 THEN Failed(end, "rejected") ELSE end

Declare(lib, field, name, created) ==
  IF created.status # "ok" THEN Failed(lib, created.status)
  ELSE [lib EXCEPT ![field] = Append(@, [name |-> name, xsh |-> XSH(name), layout |-> created.layout])]

ReadDescriptorSetLayout(lib, name, body) ==
  LET read == ReadBindings(lib, body, TRUE)
  IN  IF read.status # "ok" THEN Failed(lib, read.status)
      ELSE IF IsNew(lib.sets, name) THEN Declare(lib, "sets", name, CreateDescriptorSetLayout(read.bindings))
      ELSE Failed(lib, "rejected")

ReadPipelineLayout(lib, name, body) ==
  LET read == ReadBindings(lib, body, FALSE)
  IN  IF read.status # "ok" THEN Failed(lib, read.status)
      ELSE IF IsNew(lib.layouts, name)
      THEN Declare(lib, "layouts", name, CreatePipelineLayout(read.bindings, read.samplers))
      ELSE Failed(lib, "rejected")

(* Three properties in a fixed order; a fourth stops the program in load.  *)
ReadShader(lib, name, body, type) ==
  LET layout == Consume(body, 1, "pipeline_layout", "string")
      source == Consume(body, 2, "src", "string")
      entry == Consume(body, 3, "entry_point", "string")
  IN  IF layout # "ok" THEN Failed(lib, layout)
      ELSE IF Named(lib.layouts, body[1].value) = {} THEN Failed(lib, "rejected")
      ELSE IF source # "ok" THEN Failed(lib, source)
      ELSE IF body[2].value \in MissingSourcePaths THEN Failed(lib, "rejected")
      ELSE IF entry # "ok" THEN Failed(lib, entry)
      ELSE IF ~ValidBindingName(body[3].value) \/ ~IsNew(lib.shaders, name) THEN Failed(lib, "rejected")
      ELSE IF Len(body) > 3 THEN Failed(lib, "assert")
      ELSE [lib EXCEPT !.shaders = Append(@,
              [name |-> name, xsh |-> XSH(name), type |-> type,
               layoutXSH |-> XSH(body[1].value), layout |-> FirstNamed(lib.layouts, body[1].value).layout,
               source |-> body[2].value, entry |-> body[3].value])]

(* An entry of the root object: an object whose first property is its type.*)
ReadEntry(lib, p) ==
  LET typed == IF p.kind = "number" THEN "assert"
               ELSE IF p.kind # "object" \/ ~ValidEntryName(p.key) THEN "rejected"
               ELSE Consume(p.value, 1, "type", "string")
      body == Tail(p.value)
      type == p.value[1].value
  IN  IF lib.status # "ok" THEN lib
      ELSE IF typed # "ok" THEN Failed(lib, typed)
      ELSE CASE type = "static_sampler" -> ReadStaticSampler(lib, p.key, body)
             [] type = "descriptor_set_layout" -> ReadDescriptorSetLayout(lib, p.key, body)
             [] type = "pipeline_layout" -> ReadPipelineLayout(lib, p.key, body)
             [] type \in DOMAIN ParseShaderType -> ReadShader(lib, p.key, body, ParseShaderType[type])
             [] OTHER -> Failed(lib, "rejected")

LoadManifest(document) == FoldLeft(ReadEntry, Begin, document)

=============================================================================
