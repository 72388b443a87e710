-------------------------- MODULE ShaderLibraryFile --------------------------
(***************************************************************************)
(* The blobs of layouts and shaders (XEngine.Gfx.HAL.BlobFormat.cpp), the  *)
(* library file made of them (storeShaderLibrary of the builder) and its   *)
(* loader (XEngine.Gfx.ShaderLibraryLoader.cpp).  A file or a blob is a    *)
(* sequence of cells, a header or a record each; offsets and sizes count   *)
(* cells.  Checksums are left out: they are written and never verified.    *)
(***************************************************************************)
EXTENDS ShaderLayouts

(* FillGenericBlobHeader and ValidateGenericBlobHeader.                    *)
Blob(signature, sub, records) ==
  <<[signature |-> signature, size |-> Len(records) + 1, sub |-> sub]>> \o records
OpensAs(blob, signature) ==
  /\ blob # <<>> /\ "signature" \in DOMAIN blob[1]
  /\ blob[1].signature = signature /\ blob[1].size = Len(blob)
Records(blob) == Tail(blob)

DescriptorSetLayoutBlob(set) ==
  Blob("F1A6", [sourceHash |-> set.sourceHash, bindingCount |-> Len(set.bindings)],
       [i \in DOMAIN set.bindings |->
          [xsh |-> set.bindings[i].xsh, count |-> set.bindings[i].count, type |-> set.bindings[i].type]])

SetSourceHash(binding) == IF binding.type = "DescriptorSet" THEN binding.set.sourceHash ELSE NoSourceHash
PipelineLayoutBlob(layout) ==
  Blob("E1B2", [sourceHash |-> layout.sourceHash, bindingCount |-> Len(layout.bindings),
                platformDataSize |-> Len(layout.rootParameters)],
       [i \in DOMAIN layout.bindings |->
          [xsh |-> layout.bindings[i].xsh, rootParameter |-> layout.bindings[i].rootParameter,
           type |-> layout.bindings[i].type, setSourceHash |-> SetSourceHash(layout.bindings[i])]]
       \o layout.rootParameters)

ShaderBlob(type, layout, bytecode) ==
  Blob("E084", [layoutSourceHash |-> layout.sourceHash, type |-> type, bytecodeSize |-> Len(bytecode)], bytecode)

-----------------------------------------------------------------------------
(* A library is what the builder holds: sets and layouts [xsh, layout],    *)
(* shaders [xsh, layoutXSH, blob], the blob of a shader being compiled.    *)
BlobsOf(library) ==
  [i \in DOMAIN library.sets |-> DescriptorSetLayoutBlob(library.sets[i].layout)]
  \o [i \in DOMAIN library.layouts |-> PipelineLayoutBlob(library.layouts[i].layout)]
  \o [i \in DOMAIN library.shaders |-> library.shaders[i].blob]

BlobOffset(blobs, i) == FoldLeft(LAMBDA sum, blob : sum + Len(blob), 0, SubSeq(blobs, 1, i - 1))

StoreShaderLibrary(library) ==
  LET blobs == BlobsOf(library)
      setCount == Len(library.sets)
      layoutCount == Len(library.layouts)
      Place(i) == [offset |-> BlobOffset(blobs, i), size |-> Len(blobs[i])]
  IN  [setCount |-> setCount, layoutCount |-> layoutCount, shaderCount |-> Len(library.shaders),
       blobsDataSize |-> BlobOffset(blobs, Len(blobs) + 1),
       sets |-> [i \in DOMAIN library.sets |->
                   [xsh |-> library.sets[i].xsh, blob |-> Place(i)]],
       layouts |-> [i \in DOMAIN library.layouts |->
                   [xsh |-> library.layouts[i].xsh, blob |-> Place(setCount + i)]],
       shaders |-> [i \in DOMAIN library.shaders |->
                   [xsh |-> library.shaders[i].xsh, layoutXSH |-> library.shaders[i].layoutXSH,
                    blob |-> Place(setCount + layoutCount + i)]],
       blobsData |-> FlattenSeq(blobs)]

(* The results of the writes are not looked at: a full disk keeps less of  *)
(* the data, and the builder still succeeds.                               *)
Truncated(file, missing) == [file EXCEPT !.blobsData = SubSeq(@, 1, Len(@) - missing)]

-----------------------------------------------------------------------------
BlobAt(file, record) ==
  SubSeq(file.blobsData, record.blob.offset + 1, record.blob.offset + record.blob.size)
IsWellFormed(file) ==
  /\ file.layoutCount > 0 /\ file.shaderCount > 0
  /\ Len(file.blobsData) = file.blobsDataSize

(* Device::createDescriptorSetLayout, createPipelineLayout, createShader:  *)
(* what they assert of a blob, and the object they make of it.             *)
SetLayoutAccepted(blob) ==
  /\ OpensAs(blob, "F1A6") /\ Len(Records(blob)) = blob[1].sub.bindingCount
  /\ blob[1].sub.bindingCount \in 1..MaxSetBindings
HALSetLayout(blob) == [sourceHash |-> blob[1].sub.sourceHash, bindings |-> Records(blob)]

PipelineLayoutAccepted(blob) ==
  /\ OpensAs(blob, "E1B2")
  /\ Len(Records(blob)) = blob[1].sub.bindingCount + blob[1].sub.platformDataSize
  /\ blob[1].sub.bindingCount <= MaxPipelineBindings
HALPipelineLayout(blob) ==
  [sourceHash |-> blob[1].sub.sourceHash,
   bindings |-> SubSeq(Records(blob), 1, blob[1].sub.bindingCount),
   rootSignature |-> SubSeq(Records(blob), blob[1].sub.bindingCount + 1, Len(Records(blob)))]

ShaderTypes == {"Compute", "Vertex", "Amplification", "Mesh", "Pixel"}
ShaderAccepted(blob, halLayout) ==
  /\ OpensAs(blob, "E084") /\ Len(Records(blob)) = blob[1].sub.bytecodeSize
  /\ blob[1].sub.type \in ShaderTypes
  /\ blob[1].sub.layoutSourceHash = halLayout.sourceHash
HALShader(blob, layout) == [layout |-> layout, type |-> blob[1].sub.type, bytecode |-> Records(blob)]

(* The tables of the loader: handles are places in the device's pools.     *)
Handle(records, xsh) == Min({i \in DOMAIN records : records[i].xsh = xsh})
IsKnown(records, xsh) == \E i \in DOMAIN records : records[i].xsh = xsh

LoadedLayouts(file) == [i \in DOMAIN file.layouts |-> HALPipelineLayout(BlobAt(file, file.layouts[i]))]
IsLoadable(file) ==
  /\ IsWellFormed(file)
  /\ \A record \in ToSet(file.sets \o file.layouts \o file.shaders) : record.xsh # <<0, 0>>
  /\ \A i \in DOMAIN file.sets : SetLayoutAccepted(BlobAt(file, file.sets[i]))
  /\ \A i \in DOMAIN file.layouts : PipelineLayoutAccepted(BlobAt(file, file.layouts[i]))
  /\ \A i \in DOMAIN file.shaders :
       /\ IsKnown(file.layouts, file.shaders[i].layoutXSH)
       /\ ShaderAccepted(BlobAt(file, file.shaders[i]),
                         LoadedLayouts(file)[Handle(file.layouts, file.shaders[i].layoutXSH)])

Load(file) ==
  [sets |-> [i \in DOMAIN file.sets |-> HALSetLayout(BlobAt(file, file.sets[i]))],
   layouts |-> LoadedLayouts(file),
   shaders |-> [i \in DOMAIN file.shaders |->
                  HALShader(BlobAt(file, file.shaders[i]), Handle(file.layouts, file.shaders[i].layoutXSH))]]

=============================================================================
