--------------------------- MODULE BuildDepsTrace ---------------------------
(***************************************************************************)
(* The trace file of build dependencies                                    *)
(* (XEngine.Gfx.ShaderLibraryBuilder.BuildDepsTrace.cpp): what a reader    *)
(* makes of the file a writer left behind, whole, cut short or with holes. *)
(* A file is whether it has its header, and its records; a record cut in   *)
(* the middle fails its size or its hash check and ends what is read.  What *)
(* a writer failed to put there is remembered for the properties: the      *)
(* paths of the source records that are missing.                           *)
(***************************************************************************)
EXTENDS Naturals, Sequences, SequencesExt, FiniteSets, FiniteSetsExt

CONSTANTS
  MaxShaderSourceFiles \* MaxShaderSourceFileCount

ASSUME MaxShaderSourceFilesAssumption == MaxShaderSourceFiles \in Nat \ {0}

NoFile == [header |-> FALSE, records |-> <<>>, missing |-> {}] \* an empty file is not told from none

(* `all` is bound so that TLC evaluates the records once.                  *)
OfKind(records, kind) == {r \in UNION {ToSet(all) : all \in {records}} : r.kind = kind}
SourceRecords(records) == OfKind(records, "source")
ShaderRecords(records) == OfKind(records, "shader")

(* How many source files are known once the records before i are read.     *)
SourcesBefore(records, i) == Cardinality({j \in 1..(i - 1) : records[j].kind = "source"})
SourceCount(records) == SourcesBefore(records, Len(records) + 1)

-----------------------------------------------------------------------------
(* Reader::load.  The first record is the manifest's and no other is; the  *)
(* library's record ends the file; indices are those of earlier sources.   *)
WellFormed(records) ==
  \A i \in DOMAIN records :
    /\ i = 1 <=> records[i].kind = "manifest"
    /\ records[i].kind = "source" => records[i].index = SourcesBefore(records, i)
    /\ records[i].kind = "shader" =>
         \A j \in DOMAIN records[i].files : records[i].files[j] < SourcesBefore(records, i)
    /\ records[i].kind = "library" => i = Len(records)

IsLoaded(file) == file.header /\ WellFormed(file.records)

(* What the getters assert: there is no manifest record to ask.            *)
HasManifestRecord_OfFinishedBuild(file) == file.records # <<>> /\ Last(file.records).kind = "library"
HasManifestRecord(file) == file.records # <<>>

WasBuildSuccessful(file) == file.records # <<>> /\ Last(file.records).kind = "library"
BuiltLibraryModTime(file) == Last(file.records).modTime
ManifestModTime(file) == file.records[1].modTime

(* A source file is named by its index, which starts at zero and was       *)
(* checked to be its place among the source files.                         *)
SourceFile(file, index) == CHOOSE r \in SourceRecords(file.records) : r.index = index

HasShader(file, name) == \E r \in ShaderRecords(file.records) : r.name = name
(* The first record with that name.                                        *)
FindShader(file, name) ==
  file.records[Min({i \in DOMAIN file.records : file.records[i].kind = "shader" /\ file.records[i].name = name})]

DoShaderDetailsMatch_AnyFiles(record, shader) ==
  /\ record.layoutName = shader.layoutXSH[1]
  /\ record.layoutHash = shader.layout.sourceHash
  /\ record.type = shader.type
  /\ record.entry = shader.entry
DoShaderDetailsMatch(record, shader) ==
  /\ record.layoutName = shader.layoutXSH[1] \* the low half of the hash
  /\ record.layoutHash = shader.layout.sourceHash
  /\ record.type = shader.type
  /\ record.entry = shader.entry
  /\ record.files # <<>>

-----------------------------------------------------------------------------
(* Writer::openForWriting and Writer::closeAfterSuccessfulBuild.           *)
ManifestRecord(modTime) == [kind |-> "manifest", modTime |-> modTime]
LibraryRecord(modTime) == [kind |-> "library", modTime |-> modTime]

(* Writer::addShader: the records it puts after those already written.     *)
(* `files` are the paths of the shader, `modTimes` their cached times.     *)
IndexIn(records, path) == CHOOSE r \in SourceRecords(records) : r.path = path
IsTracked(records, path) == \E r \in SourceRecords(records) : r.path = path

TrackSource_FromOne(modTimes, records, path) ==
  IF IsTracked(records, path) THEN records
  ELSE Append(records, [kind |-> "source", index |-> SourceCount(records) + 1,
                        path |-> path, modTime |-> modTimes[path]])
TrackSource(modTimes, records, path) ==
  IF IsTracked(records, path) THEN records
  ELSE Append(records, [kind |-> "source", index |-> SourceCount(records),
                        path |-> path, modTime |-> modTimes[path]])

Distinct(paths) == FoldLeft(LAMBDA seen, p : IF Contains(seen, p) THEN seen ELSE Append(seen, p), <<>>, paths)

Tracked(records, paths, modTimes) ==
  FoldLeft(LAMBDA sofar, p : TrackSource(modTimes, sofar, p), records, paths)

(* A list that became full is dropped, exceeded or not.                    *)
ListedFiles(paths) == IF Len(Distinct(paths)) >= MaxShaderSourceFiles THEN <<>> ELSE Distinct(paths)

AddShader(records, shader, paths, modTimes, blobModTime) ==
  LET tracked == Tracked(records, paths, modTimes)
  IN  Append(tracked, [kind |-> "shader", name |-> shader.name, layoutName |-> shader.layoutXSH[1],
                       layoutHash |-> shader.layout.sourceHash, type |-> shader.type, entry |-> shader.entry,
                       blobModTime |-> blobModTime,
                       files |-> [i \in DOMAIN ListedFiles(paths) |-> IndexIn(tracked, ListedFiles(paths)[i]).index]])

=============================================================================
