------------------------ MODULE ShaderLibraryBuilder ------------------------
(***************************************************************************)
(* The shader library builder (XEngine.Gfx.ShaderLibraryBuilder.cpp), run  *)
(* again and again over files that are edited, deleted and torn while it   *)
(* runs.  A run decides from the trace of the last one whether the library *)
(* is up to date; if not it reuses what shaders it can from the cache,     *)
(* compiles the others, and leaves a new library and a new trace.          *)
(*                                                                         *)
(* A file has a modification time that no two of its contents share, and   *)
(* InvalidTime while it is missing.  The times of manifest and sources     *)
(* count their edits; those of files the builder writes are any time that  *)
(* is not recorded anywhere, which is all that comparing them can tell.    *)
(***************************************************************************)
EXTENDS LibraryManifest, BuildDepsTrace

CONSTANTS
  Documents,   \* the manifests edited into the manifest file, a sequence
  SourceFiles, \* the paths of shader sources and includes
  Texts,       \* for each path the texts it may hold: [includes, compiles]
  MaxEvents    \* bound of the model: edits, deletions, failures and crashes

VARIABLES
  manifest, \* the manifest file
  sources,  \* the source files
  blobs,    \* the compiled shaders in the build cache, by shader name
  library,  \* the library file
  trace,    \* the trace file
  pc,       \* where the program is, or how it ended
  run,      \* the state of the program
  events,   \* how many events the files have seen
  disturbed,\* an event fell into this run
  settled   \* the last build met no event, and none came since

inputs == <<manifest, sources>>
outputs == <<blobs, library, trace>>
history == <<events, disturbed, settled>>
vars == <<inputs, outputs, pc, run, history>>

InvalidTime == 0
TimeOf(file) == IF file.content = None THEN InvalidTime ELSE file.modTime

Loads == [d \in DOMAIN Documents |-> LoadManifest(Documents[d])]
DeclaredShaders == UNION {ToSet(Loads[d].shaders) : d \in DOMAIN Documents}
ShaderNames == {s.name : s \in DeclaredShaders}

(* SourceFiles are all the paths that manifests and includes name.         *)
ASSUME BuilderAssumption ==
  /\ MaxEvents \in Nat
  /\ 1 \in DOMAIN Documents
  /\ \A d \in DOMAIN Documents : Len(Documents[d]) \in Nat /\ DOMAIN Documents[d] = 1..Len(Documents[d])
  /\ {s.source : s \in DeclaredShaders} \subseteq SourceFiles
  /\ DOMAIN Texts = SourceFiles
  /\ \A f \in SourceFiles : Texts[f] \subseteq [includes : Seq(SourceFiles), compiles : BOOLEAN]

NotOpened == [modTime |-> InvalidTime, text |-> None]

(* A new Program: nothing loaded, nothing cached in memory.                *)
FreshProgram ==
  [prev |-> NoFile, document |-> None, outdated |-> FALSE, next |-> 0, prevOpened |-> {},
   cache |-> [f \in SourceFiles |-> NotOpened],
   shaders |-> <<>>, built |-> [s \in ShaderNames |-> None],
   compiling |-> None, todo |-> <<>>, used |-> <<>>,
   traceOpen |-> FALSE, put |-> <<>>, flushed |-> 0, cut |-> FALSE, afterFlush |-> "loadCached",
   atLoad |-> InvalidTime, atTrace |-> InvalidTime]

Ended == {"idle", "upToDate", "done", "failed", "asserted", "crashed"}
Checking == {"loadTrace", "checkManifest", "checkSources", "checkLibrary"}
Building == {"loadManifest", "openTrace", "loadCached", "compile", "openSource", "readSource",
             "store", "openLibrary", "writeLibrary", "finish", "flush"}

Init ==
  /\ manifest = [modTime |-> 1, content |-> 1]
  /\ \E texts \in {t \in [SourceFiles -> UNION {Texts[f] : f \in SourceFiles}] : \A f \in SourceFiles : t[f] \in Texts[f]} :
       sources = [f \in SourceFiles |-> [modTime |-> 1, content |-> texts[f]]]
  /\ blobs = [s \in ShaderNames |-> [modTime |-> 1, content |-> None]]
  /\ library = [modTime |-> 1, content |-> None]
  /\ trace = NoFile
  /\ pc = "idle" /\ run = FreshProgram
  /\ events = 0 /\ disturbed = FALSE /\ settled = FALSE

-----------------------------------------------------------------------------
Goto(label) == pc' = label
NoEvent == UNCHANGED history
AnEvent == events < MaxEvents /\ events' = events + 1 /\ disturbed' = TRUE /\ settled' = FALSE
(* A call that may fail: failing is an event.                              *)
Outcome(ok) == IF ok THEN NoEvent ELSE AnEvent

(* A time the file system gives that nothing recorded can be equal to.     *)
RecordedTimes ==
  {r.modTime : r \in OfKind(trace.records \o run.prev.records \o run.put, "library")} \cup
  {r.blobModTime : r \in ShaderRecords(trace.records \o run.prev.records \o run.put)}
NewTime(file) ==
  LET free == (1..(Cardinality(RecordedTimes) + 2)) \ (RecordedTimes \cup {file.modTime}) IN Min(free)

Start ==
  /\ pc \in Ended
  /\ Goto("loadTrace") /\ run' = FreshProgram
  /\ disturbed' = FALSE
  /\ UNCHANGED <<inputs, outputs, events, settled>>

-----------------------------------------------------------------------------
(* loadPrevBuildInfo                                                       *)
LoadTrace ==
  /\ pc = "loadTrace"
  /\ run' = [run EXCEPT !.prev = IF IsLoaded(trace) THEN trace ELSE NoFile]
  /\ Goto(IF ~IsLoaded(trace) THEN "loadManifest"
          ELSE IF HasManifestRecord(trace) THEN "checkManifest" ELSE "asserted")
  /\ UNCHANGED <<inputs, outputs>> /\ NoEvent

IsOutdated(file, recorded) == TimeOf(file) = InvalidTime \/ TimeOf(file) # recorded

CheckManifest ==
  /\ pc = "checkManifest"
  /\ run' = [run EXCEPT !.outdated = IsOutdated(manifest, ManifestModTime(run.prev))]
  /\ Goto("checkSources")
  /\ UNCHANGED <<inputs, outputs>> /\ NoEvent

(* SourceFileCache::openFile: the time is asked for once; a missing file   *)
(* is asked for again.                                                     *)
Opened(f) == run.cache[f].modTime # InvalidTime
Open(f) == IF Opened(f) THEN run.cache ELSE [run.cache EXCEPT ![f].modTime = TimeOf(sources[f])]

CheckSource ==
  /\ pc = "checkSources"
  /\ IF run.next = SourceCount(run.prev.records)
     THEN Goto("checkLibrary") /\ run' = run
     ELSE LET record == SourceFile(run.prev, run.next)
              cache == Open(record.path)
          IN  /\ run' = [run EXCEPT !.cache = cache, !.next = @ + 1,
                           !.prevOpened = IF cache[record.path].modTime = InvalidTime THEN @ ELSE @ \cup {record.path},
                           !.outdated = @ \/ cache[record.path].modTime # record.modTime]
              /\ UNCHANGED pc
  /\ UNCHANGED <<inputs, outputs>> /\ NoEvent

CheckLibrary ==
  /\ pc = "checkLibrary"
  /\ Goto(IF run.outdated \/ ~WasBuildSuccessful(run.prev) THEN "loadManifest"
          ELSE IF IsOutdated(library, BuiltLibraryModTime(run.prev)) THEN "loadManifest" ELSE "upToDate")
  /\ UNCHANGED <<inputs, outputs, run>> /\ NoEvent

-----------------------------------------------------------------------------
LoadManifestFile ==
  /\ pc = "loadManifest"
  /\ LET loaded == IF manifest.content = None THEN Failed(Begin, "rejected") ELSE Loads[manifest.content]
     IN  /\ Goto(IF loaded.status = "assert" THEN "asserted"
                 ELSE IF loaded.status = "rejected" \/ loaded.shaders = <<>> THEN "failed" ELSE "openTrace")
         /\ run' = [run EXCEPT !.shaders = loaded.shaders, !.document = manifest.content,
                           !.atLoad = TimeOf(manifest), !.next = 1]
  /\ UNCHANGED <<inputs, outputs>> /\ NoEvent

(* startWritingBuildDepsTrace: the old trace is cut to nothing, header and *)
(* manifest record wait in the buffer.  If the file cannot be opened, the  *)
(* build goes on without a trace and the old one stays.                    *)
ManifestTimeForTrace == TimeOf(manifest)
OpenTrace ==
  /\ pc = "openTrace"
  /\ \E ok \in BOOLEAN :
       /\ Outcome(ok)
       /\ run' = [run EXCEPT !.traceOpen = ok, !.atTrace = TimeOf(manifest),
                             !.put = IF ok THEN <<ManifestRecord(ManifestTimeForTrace)>> ELSE <<>>]
       /\ trace' = IF ok THEN NoFile ELSE trace
  /\ Goto("loadCached")
  /\ UNCHANGED <<inputs, blobs, library>>

(* Writer::addShader, and whether the flush interval has passed.  A source *)
(* is recorded with the time it had when the cache first opened it.        *)
RecordedTime_Now(state, f) == TimeOf(sources[f])
RecordedTime(state, f) == state.cache[f].modTime
PutShader(state, shader, paths, blobModTime) ==
  IF ~state.traceOpen THEN state
  ELSE LET times == [f \in SourceFiles |-> RecordedTime(state, f)]
       IN  [state EXCEPT !.put = AddShader(@, shader, paths, times, blobModTime)]

FlushOr(next, state) ==
  \E due \in BOOLEAN :
    IF due /\ state.traceOpen THEN Goto("flush") /\ run' = [state EXCEPT !.afterFlush = next]
                              ELSE Goto(next) /\ run' = state

(* Writer::flush of the records up to n, of which a reader gets to those   *)
(* up to m: all, unless the write fails - nobody looks at its result, and  *)
(* the buffer is empty afterwards - or an earlier one cut a record short.  *)
(* The header is written with the first records, at the latest.            *)
SourcePaths(records) == {r.path : r \in SourceRecords(records)}
FlushedTo(m, n, header) ==
  [header |-> IF run.flushed = 0 THEN header ELSE trace.header,
   records |-> trace.records \o SubSeq(run.put, run.flushed + 1, m),
   missing |-> trace.missing \cup SourcePaths(SubSeq(run.put, m + 1, n))]

(* The buffer was full when the record after n was put, in the last call   *)
(* of the writer.  Only a failure tells such a flush from a later one.     *)
FullAt(n) ==
  /\ n \in (run.flushed + 1)..(Len(run.put) - 1)
  /\ run.afterFlush # "failed"
  /\ \A i \in (n + 1)..(Len(run.put) - 1) : run.put[i].kind = "source"

WriteSucceeds(n) ==
  /\ trace' = FlushedTo(IF run.cut THEN run.flushed ELSE n, n, TRUE)
  /\ run' = [run EXCEPT !.flushed = n]
  /\ settled' = IF pc' = "done" THEN ~disturbed ELSE settled
  /\ UNCHANGED <<events, disturbed>>

(* Behind a header that is cut or missing, nothing is read.                *)
WriteFails(n) ==
  /\ ~run.cut
  /\ \E m \in run.flushed..(n - 1), header, cut \in BOOLEAN :
       /\ (m > 0 => header) /\ (~header => cut)
       /\ trace' = FlushedTo(m, n, header)
       /\ run' = [run EXCEPT !.flushed = n, !.cut = cut]
  /\ AnEvent

Flush ==
  /\ pc = "flush"
  /\ \E n \in run.flushed..Len(run.put) :
       \/ n = Len(run.put) /\ Goto(run.afterFlush) /\ (WriteSucceeds(n) \/ WriteFails(n))
       \/ FullAt(n) /\ pc' \in {"flush", run.afterFlush} \ {"done"} /\ WriteFails(n)
  /\ UNCHANGED <<inputs, blobs, library>>

-----------------------------------------------------------------------------
(* loadCachedShaders                                                       *)
SourcesUpToDate(record) ==
  \A i \in DOMAIN record.files :
    LET source == SourceFile(run.prev, record.files[i]) IN
    source.path \in run.prevOpened /\ run.cache[source.path].modTime = source.modTime

BlobMatches(name, record) == TimeOf(blobs[name]) # InvalidTime /\ TimeOf(blobs[name]) = record.blobModTime

Reusable(shader) ==
  /\ HasShader(run.prev, shader.name)
  /\ LET record == FindShader(run.prev, shader.name) IN
       /\ DoShaderDetailsMatch(record, shader)
       /\ SourceFile(run.prev, record.files[1]).path = shader.source
       /\ SourcesUpToDate(record)
       /\ BlobMatches(shader.name, record)

(* The main source is opened only if the details match.                    *)
CacheAfterLookup(shader) ==
  IF HasShader(run.prev, shader.name) /\ DoShaderDetailsMatch(FindShader(run.prev, shader.name), shader)
  THEN Open(shader.source) ELSE run.cache

PathsOf(record) == [i \in DOMAIN record.files |-> SourceFile(run.prev, record.files[i]).path]

LoadCachedShader ==
  /\ pc = "loadCached"
  /\ IF run.next > Len(run.shaders)
     THEN NoEvent /\ Goto("compile") /\ run' = run
     ELSE LET shader == run.shaders[run.next]
              looked == [run EXCEPT !.next = @ + 1, !.cache = CacheAfterLookup(shader)]
              record == FindShader(run.prev, shader.name)
          IN  IF HasShader(run.prev, shader.name) /\ DoShaderDetailsMatch(record, shader) /\ record.files = <<>>
              THEN NoEvent /\ run' = looked /\ Goto("asserted") \* getShaderSourceFileIndex(shader, 0)
              ELSE \/ /\ Reusable(shader) /\ NoEvent
                      /\ FlushOr("loadCached",
                           PutShader([looked EXCEPT !.built[shader.name] =
                                        [blob |-> blobs[shader.name].content, reused |-> TRUE]],
                                     shader, PathsOf(record), record.blobModTime))
                   \/ /\ Outcome(~Reusable(shader)) \* a blob that cannot be read is none
                      /\ run' = looked /\ UNCHANGED pc
  /\ UNCHANGED <<inputs, outputs>>

-----------------------------------------------------------------------------
(* compileShaders.  The order, by name, is left open.                      *)
Uncompiled == {s \in ToSet(run.shaders) : run.built[s.name] = None}

(* closeAfterFailedBuild flushes what was recorded and the run ends.       *)
Fail == IF run.traceOpen THEN Goto("flush") /\ run' = [run EXCEPT !.afterFlush = "failed"]
                         ELSE Goto("failed") /\ UNCHANGED run

Compile ==
  /\ pc = "compile"
  /\ IF Uncompiled = {} THEN Goto("openLibrary") /\ UNCHANGED run
     ELSE \E shader \in Uncompiled :
            /\ run' = [run EXCEPT !.compiling = shader, !.todo = <<shader.source>>, !.used = <<>>]
            /\ Goto("openSource")
  /\ UNCHANGED <<inputs, outputs>> /\ NoEvent

OpenSource ==
  /\ pc = "openSource"
  /\ LET f == Head(run.todo) IN
       IF Open(f)[f].modTime = InvalidTime THEN Fail
       ELSE Goto("readSource") /\ run' = [run EXCEPT !.cache = Open(f)]
  /\ UNCHANGED <<inputs, outputs>> /\ NoEvent

(* SourceFileCache::getFileText reads the file once, after its time.       *)
TextRead(f) == [version |-> sources[f].modTime, includes |-> sources[f].content.includes,
                compiles |-> sources[f].content.compiles]
ReadSource ==
  /\ pc = "readSource"
  /\ LET f == Head(run.todo) IN
       IF run.cache[f].text = None /\ sources[f].content = None THEN Fail
       ELSE LET text == IF run.cache[f].text = None THEN TextRead(f) ELSE run.cache[f].text
                todo == text.includes \o Tail(run.todo)
            IN  /\ run' = [run EXCEPT !.cache[f].text = text, !.used = Append(@, f), !.todo = todo]
                /\ Goto(IF todo = <<>> THEN "store" ELSE "openSource")
  /\ UNCHANGED <<inputs, outputs>> /\ NoEvent

CompiledBlob(whole, misdated) ==
  [versions |-> {<<f, run.cache[f].text.version>> : f \in ToSet(run.used)},
   layout |-> run.compiling.layout, layoutXSH |-> run.compiling.layoutXSH,
   type |-> run.compiling.type, entry |-> run.compiling.entry, whole |-> whole, misdated |-> misdated]
Compiles == \A f \in ToSet(run.used) : run.cache[f].text.compiles

(* The blob is written to the cache, its time read back and recorded.  No  *)
(* failure is noticed: if the file cannot be opened, the time is that of   *)
(* the blob it holds, if it cannot be written, that of a part of the blob. *)
(* `misdated` tells of a blob whose time was recorded for another one.     *)
StoredBlob(file, how) ==
  CASE how = "stored" -> [modTime |-> NewTime(file), content |-> CompiledBlob(TRUE, FALSE)]
    [] how = "cut short" -> [modTime |-> NewTime(file), content |-> CompiledBlob(FALSE, TRUE)]
    [] how = "not opened" -> IF file.content = None THEN file ELSE [file EXCEPT !.content.misdated = TRUE]

Store ==
  /\ pc = "store"
  /\ IF ~Compiles THEN Fail /\ NoEvent /\ UNCHANGED blobs
     ELSE \E how \in {"stored", "cut short", "not opened"} :
            LET s == run.compiling
                file == StoredBlob(blobs[s.name], how)
            IN  /\ Outcome(how = "stored")
                /\ blobs' = [blobs EXCEPT ![s.name] = file]
                /\ FlushOr("compile",
                     PutShader([run EXCEPT !.built[s.name] = [blob |-> CompiledBlob(TRUE, FALSE), reused |-> FALSE],
                                           !.compiling = None], s, run.used, TimeOf(file)))
  /\ UNCHANGED <<inputs, library, trace>>

-----------------------------------------------------------------------------
(* storeShaderLibrary: opening cuts the library to nothing; no write is    *)
(* checked.                                                                *)
LibraryOf(state) ==
  [state |-> state, atLoad |-> run.atLoad, atTrace |-> run.atTrace,
   shaders |-> {[shader |-> s, built |-> run.built[s.name]] : s \in ToSet(run.shaders)}]

OpenLibrary ==
  /\ pc = "openLibrary"
  /\ \E ok \in BOOLEAN :
       /\ Outcome(ok)
       /\ IF ok THEN /\ library' = [modTime |-> NewTime(library), content |-> LibraryOf("torn")]
                     /\ Goto("writeLibrary") /\ UNCHANGED run
                ELSE Fail /\ UNCHANGED library
  /\ UNCHANGED <<inputs, blobs, trace>>

WriteLibrary ==
  /\ pc = "writeLibrary"
  /\ \E ok \in BOOLEAN :
       /\ Outcome(ok)
       /\ library' = [modTime |-> NewTime(library), content |-> LibraryOf(IF ok THEN "whole" ELSE "write failed")]
  /\ Goto("finish")
  /\ UNCHANGED <<inputs, blobs, trace, run>>

(* finishWritingBuildDepsTrace                                             *)
FinalRecords_None == <<>>
FinalRecords == <<LibraryRecord(TimeOf(library))>>
Finish ==
  /\ pc = "finish"
  /\ IF run.traceOpen
     THEN Goto("flush") /\ run' = [run EXCEPT !.put = @ \o FinalRecords, !.afterFlush = "done"]
     ELSE Goto("done") /\ UNCHANGED run
  /\ UNCHANGED <<inputs, outputs>> /\ NoEvent

Step == LoadTrace \/ CheckManifest \/ CheckSource \/ CheckLibrary \/ LoadManifestFile \/ OpenTrace \/ Flush
        \/ LoadCachedShader \/ Compile \/ OpenSource \/ ReadSource \/ Store \/ OpenLibrary \/ WriteLibrary \/ Finish

-----------------------------------------------------------------------------
(* What happens to the files meanwhile.                                    *)
EditManifest ==
  /\ AnEvent
  /\ \E d \in DOMAIN Documents \cup {None} :
       d # manifest.content /\ manifest' = [modTime |-> manifest.modTime + 1, content |-> d]
  /\ UNCHANGED <<sources, outputs, pc, run>>

EditSource ==
  /\ AnEvent
  /\ \E f \in SourceFiles : \E text \in Texts[f] \cup {None} :
       sources' = [sources EXCEPT ![f] = [modTime |-> @.modTime + 1, content |-> text]]
  /\ UNCHANGED <<manifest, outputs, pc, run>>

DeleteLibrary ==
  /\ AnEvent
  /\ library.content # None /\ library' = [library EXCEPT !.content = None]
  /\ UNCHANGED <<inputs, blobs, trace, pc, run>>

(* A crash loses the buffer; one amid a write leaves a part of it.         *)
TornTraces ==
  {trace} \cup IF pc = "flush" /\ ~run.cut THEN {FlushedTo(m, m, TRUE) : m \in run.flushed..Len(run.put)} ELSE {}
TornBlobs ==
  {blobs} \cup IF pc = "store" /\ Compiles
               THEN {[blobs EXCEPT ![run.compiling.name] =
                        [modTime |-> NewTime(blobs[run.compiling.name]), content |-> CompiledBlob(FALSE, FALSE)]]} ELSE {}
Crash ==
  /\ AnEvent
  /\ pc \in Building
  /\ trace' \in TornTraces /\ blobs' \in TornBlobs
  /\ Goto("crashed") /\ run' = FreshProgram
  /\ UNCHANGED <<inputs, library>>

Event == EditManifest \/ EditSource \/ DeleteLibrary \/ Crash

Next == Start \/ Step \/ Event

(* A started program runs on; nothing makes anyone start it.               *)
Spec == Init /\ [][Next]_vars /\ WF_vars(Step)

-----------------------------------------------------------------------------
Time == 1..(MaxEvents + 1)
FileTime == Nat \ {InvalidTime}
FileOf(contents, times) == [modTime : times, content : contents \cup {None}]

Text == [version : FileTime, includes : Seq(SourceFiles), compiles : BOOLEAN]
Blob == [versions : SUBSET (SourceFiles \X FileTime), layout : {s.layout : s \in DeclaredShaders},
         layoutXSH : {s.layoutXSH : s \in DeclaredShaders}, type : {s.type : s \in DeclaredShaders},
         entry : {s.entry : s \in DeclaredShaders}, whole : BOOLEAN, misdated : BOOLEAN]
Built == [blob : Blob, reused : BOOLEAN]
LibraryContent ==
  [state : {"torn", "whole", "write failed"}, atLoad : Nat, atTrace : Nat,
   shaders : SUBSET [shader : DeclaredShaders, built : Built \cup {None}]]

Record ==
  [kind : {"manifest", "library"}, modTime : Nat] \cup
  [kind : {"source"}, index : Nat, path : SourceFiles, modTime : FileTime] \cup
  [kind : {"shader"}, name : ShaderNames, layoutName : {s.layoutXSH[1] : s \in DeclaredShaders},
   layoutHash : {s.layout.sourceHash : s \in DeclaredShaders}, type : {s.type : s \in DeclaredShaders},
   entry : {s.entry : s \in DeclaredShaders}, blobModTime : Nat, files : Seq(Nat)]
TraceFile == [header : BOOLEAN, records : Seq(Record), missing : SUBSET SourceFiles]

Program ==
  [prev : TraceFile, document : DOMAIN Documents \cup {None}, outdated : BOOLEAN, next : Nat,
   prevOpened : SUBSET SourceFiles, cache : [SourceFiles -> [modTime : Nat, text : Text \cup {None}]],
   shaders : {<<>>} \cup {Loads[d].shaders : d \in DOMAIN Documents}, built : [ShaderNames -> Built \cup {None}],
   compiling : DeclaredShaders \cup {None}, todo : Seq(SourceFiles), used : Seq(SourceFiles),
   traceOpen : BOOLEAN, put : Seq(Record), flushed : Nat, cut : BOOLEAN, afterFlush : {"loadCached", "compile", "failed", "done"},
   atLoad : Nat, atTrace : Nat]

(* None is told from everything it stands for the absence of.              *)
ASSUME NoneAssumption ==
  /\ None \notin DOMAIN Documents /\ \A f \in SourceFiles : None \notin Texts[f]
  /\ None \notin Text /\ None \notin Blob /\ None \notin Built /\ None \notin LibraryContent

(* Files, trace and program have the shapes their writers give them, and   *)
(* the records put for a trace, if all of them are written, can be loaded. *)
TypeOK ==
  /\ manifest \in FileOf(DOMAIN Documents, Time)
  /\ sources \in [SourceFiles -> FileOf(UNION {Texts[f] : f \in SourceFiles}, Time)]
  /\ \A f \in SourceFiles : sources[f] \in FileOf(Texts[f], Time)
  /\ blobs \in [ShaderNames -> FileOf(Blob, FileTime)]
  /\ library \in FileOf(LibraryContent, FileTime)
  /\ trace \in TraceFile
  /\ pc \in Ended \cup Checking \cup Building
  /\ run \in Program
  /\ run.flushed <= Len(run.put)
  /\ run.put # <<>> => run.traceOpen /\ WellFormed(run.put)
  /\ events \in 0..MaxEvents /\ disturbed \in BOOLEAN /\ settled \in BOOLEAN

(* What can be said of the library in the file now: nothing a crash tore,  *)
(* of the manifest there is now unless that was edited between its load    *)
(* and the opening of the trace, and every shader whole, of the sources    *)
(* there are now and of the layout it is declared with - unless it was     *)
(* reused, when only half the hash of the layout's name is known to agree, *)
(* and nothing of a blob that an unnoticed failure to store misdated, or   *)
(* of the sources in `unknown`.                                            *)
SourcesCurrent(blob, unknown) ==
  \A v \in blob.versions :
    v[1] \in unknown \/ (sources[v[1]].content # None /\ sources[v[1]].modTime = v[2])
LibraryCurrent(unknown) ==
  LET content == library.content IN
  /\ content # None /\ content.state # "torn"
  /\ content.atLoad = TimeOf(manifest) \/ content.atLoad # content.atTrace
  /\ \A entry \in content.shaders :
       LET blob == entry.built.blob IN
       \/ entry.built.reused /\ blob.misdated
       \/ /\ blob.whole /\ SourcesCurrent(blob, unknown)
          /\ blob.type = entry.shader.type /\ blob.entry = entry.shader.entry
          /\ Low32(blob.layoutXSH) = Low32(entry.shader.layoutXSH)
          /\ ~entry.built.reused => /\ blob.layoutXSH = entry.shader.layoutXSH
                                   /\ blob.layout = entry.shader.layout

(* "Shader library is up to date" is only said of a library that is, as    *)
(* long as nobody touches the files while the program looks at them -      *)
(* whatever edits, crashes and failures the earlier builds met; of sources *)
(* whose records were lost when the trace was flushed it says nothing, but *)
(* the loss does not spread to the others.                                 *)
UpToDateSound == pc = "upToDate" /\ ~disturbed => LibraryCurrent(trace.missing)

(* The trace "is used to track the validity of compiled shaders and the    *)
(* library file as a whole" (BuildDepsTrace.h), so all sources of an up to *)
(* date library are unchanged.  They need not be: the result of the write  *)
(* in Writer::flush is not looked at, and a source lost there is no longer *)
(* tracked by a trace that still ends with the record of the library.      *)
TracksWholeLibrary == pc = "upToDate" /\ ~disturbed => LibraryCurrent({})

(* After a build nobody disturbed, and with nothing changed since, the     *)
(* next one finds that there is nothing to do.                             *)
NoNeedlessRebuild == settled => pc \in Ended \cup Checking

(* Only two things on disk stop the program in an assertion: a trace cut   *)
(* right after its header, and a manifest its loader asserts on.           *)
StopsExplained ==
  pc = "asserted" =>
    \/ run.prev.header /\ run.prev.records = <<>>
    \/ run.document # None /\ Loads[run.document].status = "assert"

(* From files that can be built, by running the builder again and again,   *)
(* one gets to "up to date", whatever an earlier crash left in the cache - *)
(* except for a trace cut right after its header, which stops every run.   *)
Buildable[f \in SourceFiles] ==
  /\ sources[f].content # None /\ sources[f].content.compiles
  /\ \A i \in DOMAIN sources[f].content.includes : Buildable[sources[f].content.includes[i]]
InputsBuildable ==
  /\ manifest.content # None
  /\ LET loaded == Loads[manifest.content] IN
       /\ loaded.status = "ok" /\ loaded.shaders # <<>>
       /\ \A s \in ToSet(loaded.shaders) : Buildable[s.source]
HeaderOnly == trace.header /\ trace.records = <<>>
BuildsConverge ==
  []<><<Start>>_vars /\ <>[]InputsBuildable => <>[]HeaderOnly \/ []<>(pc = "upToDate")

=============================================================================
