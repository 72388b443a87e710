---------------------- MODULE ShaderLibraryBuilderProofs ----------------------
(***************************************************************************)
(* For any manifests, source files and texts, and any number of edits,     *)
(* deletions, failures and crashes: the type invariant, that the library   *)
(* which is called up to date is, that nothing is rebuilt without need,    *)
(* and what stops the program.                                             *)
(*                                                                         *)
(* BuilderInv relates what the trace tells about a file to what was read   *)
(* of it.  While a trace is written it speaks of the records that were     *)
(* put, of which some part got to the file.  They are appended to and may  *)
(* be cut anywhere, so what is said of a record only mentions the records  *)
(* before it; and a part that loads still has, for each source one of its  *)
(* records refers to, the record that was put (PartBlobsSound).            *)
(***************************************************************************)
EXTENDS ShaderLibraryBuilder, IntegerLemmas, SequenceTheorems, TLAPS

(* The records put for the trace that is being written, or else those a    *)
(* reader finds, and the sources which were lost from them.                *)
Readable(file) == IF IsLoaded(file) THEN file.records ELSE <<>>
All == IF run.traceOpen THEN run.put ELSE Readable(trace)
Unknown == IF run.traceOpen THEN {} ELSE trace.missing

IsShader(records, i) == i \in DOMAIN records /\ records[i].kind = "shader"
IsSource(records, k) == k \in DOMAIN records /\ records[k].kind = "source"

(* The trace knows the path of every version, with a time not after it; it *)
(* is one of the files of shader record i.                                 *)
Tracks(records, v, k) ==
  IsSource(records, k) /\ records[k].path = v[1] /\ records[k].modTime <= v[2]
Covers(records, i, versions) ==
  \A v \in versions : \E k \in 1..(i - 1) :
    Tracks(records, v, k) /\ \E j \in DOMAIN records[i].files : records[i].files[j] = records[k].index

(* A blob that has the time a shader record gives it is that shader's,     *)
(* unless it was left behind by a failure to store another one.            *)
Describes(record, blob) ==
  blob.whole /\ blob.type = record.type /\ blob.entry = record.entry /\ Low32(blob.layoutXSH) = record.layoutName
HasBlob(files, record) ==
  record.files # <<>> /\ files[record.name].content # None /\ files[record.name].modTime = record.blobModTime
RecordSound(files, records, i) ==
  IsShader(records, i) /\ HasBlob(files, records[i]) =>
    LET blob == files[records[i].name].content IN
    blob.misdated \/ (Describes(records[i], blob) /\ Covers(records, i, blob.versions))
BlobsSound(files, records) == \A i \in DOMAIN records : RecordSound(files, records, i)

(* A shader of a library, and the blob that was built for it.              *)
EntrySound(records, s, built, unknown) ==
  LET blob == built.blob IN
  \/ built.reused /\ blob.misdated
  \/ /\ blob.whole /\ blob.type = s.type /\ blob.entry = s.entry
     /\ Low32(blob.layoutXSH) = Low32(s.layoutXSH)
     /\ ~built.reused => blob.layoutXSH = s.layoutXSH /\ blob.layout = s.layout
     /\ \A v \in blob.versions : v[1] \in unknown \/ \E k \in DOMAIN records : Tracks(records, v, k)
ContentSound(content, records, unknown) ==
  /\ content.state # "torn" /\ content.atTrace = records[1].modTime
  /\ \A entry \in content.shaders : entry.built # None /\ EntrySound(records, entry.shader, entry.built, unknown)
IsComplete(records) == records # <<>> /\ records[Len(records)].kind = "library"
LibrarySound(file, records, unknown) ==
  /\ IsComplete(records) /\ file.content # None /\ file.modTime = records[Len(records)].modTime
  => ContentSound(file.content, records, unknown)

(* What a file has of the first n records that were put.                   *)
HeldBy(file, r) == \E i \in DOMAIN file.records : file.records[i] = r
Holds(file, all, n) ==
  /\ \A i \in DOMAIN file.records : \E j \in 1..n : file.records[i] = all[j]
  /\ \A j \in 1..n : IsSource(all, j) => all[j].path \in file.missing \/ HeldBy(file, all[j])
(* All of them.                                                            *)
HoldsAll(file, all, n) ==
  /\ file.records = SubSeq(all, 1, n) /\ file.missing = {}
  /\ n > 0 => file.header

(* No blob was made of a version that is still to come.                    *)
Past(files, blob) == \A v \in blob.versions : v[2] <= files[v[1]].modTime
PastContent(files, content) == \A entry \in content.shaders : entry.built # None => Past(files, entry.built.blob)
PastInv ==
  /\ \A s \in ShaderNames : blobs[s].content # None => Past(sources, blobs[s].content)
  /\ \A s \in ShaderNames : run.built[s] # None => Past(sources, run.built[s].blob)
  /\ library.content # None => PastContent(sources, library.content)

(* Every edit of an input is an event.                                     *)
EventsInv == manifest.modTime <= events + 1 /\ \A f \in SourceFiles : sources[f].modTime <= events + 1

(* What the program remembers of the source files.                         *)
CachedSound(cached, file) ==
  /\ cached.modTime <= file.modTime
  /\ cached.text # None => cached.modTime # InvalidTime /\ cached.modTime <= cached.text.version
                           /\ cached.text.version <= file.modTime
CacheInv ==
  /\ \A f \in SourceFiles : CachedSound(run.cache[f], sources[f])
  /\ \A f \in run.prevOpened : run.cache[f].modTime # InvalidTime
  /\ ~disturbed =>
       \A f \in SourceFiles : run.cache[f].modTime # InvalidTime => run.cache[f].modTime = TimeOf(sources[f])

(* The trace being written.                                                *)
Finished == pc = "done" \/ (pc = "flush" /\ run.afterFlush = "done")
Unopened == {"loadManifest", "openTrace"}
NoLibrary(records) == \A i \in DOMAIN records : records[i].kind # "library"
TimedBy(cache, records) ==
  \A k \in DOMAIN records : IsSource(records, k) => records[k].modTime = cache[records[k].path].modTime
BuiltSound(shaders, built, records) ==
  \A s \in ToSet(shaders) : built[s.name] # None => EntrySound(records, s, built[s.name], {})
TraceInv ==
  /\ run.traceOpen =>
       /\ pc \in (Building \ Unopened) \cup {"done", "failed"}
       /\ WellFormed(All) /\ All # <<>> /\ All[1].modTime = run.atTrace
       /\ Finished \/ NoLibrary(All)
       /\ TimedBy(run.cache, All) /\ BuiltSound(run.shaders, run.built, All)
       /\ Holds(trace, All, run.flushed)
  /\ ~run.traceOpen => ~run.cut
  /\ IsLoaded(run.prev) \/ run.prev = NoFile

RecordsInv ==
  /\ BlobsSound(blobs, run.prev.records) /\ BlobsSound(blobs, All) /\ LibrarySound(library, All, Unknown)
  /\ pc = "finish" /\ run.traceOpen /\ library.content # None => ContentSound(library.content, All, {})

(* Where the program is.                                                   *)
PhaseInv ==
  /\ pc \in Checking \cup Unopened => \A s \in ShaderNames : run.built[s] = None
  /\ pc = "flush" => run.traceOpen
  /\ pc \in {"openTrace", "loadCached"} \/ (pc = "flush" /\ run.afterFlush = "loadCached") => run.next # 0
  /\ pc \in {"openSource", "readSource", "store"} =>
       /\ run.compiling \in ToSet(run.shaders)
       /\ \A f \in ToSet(run.used) : run.cache[f].text # None
  /\ pc \in {"openSource", "readSource"} => run.todo # <<>>
  /\ pc = "readSource" => run.cache[Head(run.todo)].modTime # InvalidTime
  /\ pc \in {"openLibrary", "writeLibrary"} => \A s \in ToSet(run.shaders) : run.built[s.name] # None

(* A build nobody disturbed.                                               *)
CalmInv ==
  ~disturbed =>
    /\ pc \in Building \ {"loadManifest"} => manifest.content # None
    /\ run.traceOpen => run.atTrace = TimeOf(manifest) /\ ~run.cut /\ HoldsAll(trace, All, run.flushed)
    /\ pc \in {"writeLibrary", "finish"} => library.content # None
    /\ pc = "flush" /\ run.afterFlush = "done" =>
         library.content # None /\ IsComplete(All) /\ All[Len(All)].modTime = library.modTime

(* Whether the last build is still good.                                   *)
CheckInv ==
  /\ pc \in {"checkManifest", "checkSources", "checkLibrary"} => run.prev = trace /\ IsLoaded(trace) /\ trace.records # <<>>
  /\ pc \in {"checkSources", "checkLibrary"} /\ ~disturbed /\ ~run.outdated =>
       /\ trace.records[1].modTime = TimeOf(manifest)
       /\ \A k \in DOMAIN trace.records :
            IsSource(trace.records, k) /\ trace.records[k].index < run.next =>
              trace.records[k].modTime = run.cache[trace.records[k].path].modTime
  /\ pc \in {"loadTrace", "checkManifest"} => run.next = 0
  /\ pc = "checkSources" => run.next <= SourceCount(run.prev.records)
  /\ pc = "checkLibrary" => run.next = SourceCount(run.prev.records)

SettledInv ==
  settled =>
    /\ ~disturbed /\ pc \in Ended \cup Checking
    /\ pc \in {"checkSources", "checkLibrary"} => ~run.outdated
    /\ IsLoaded(trace) /\ IsComplete(trace.records)
    /\ library.content # None /\ trace.records[Len(trace.records)].modTime = library.modTime
    /\ manifest.content # None /\ trace.records[1].modTime = manifest.modTime
    /\ \A k \in DOMAIN trace.records :
         IsSource(trace.records, k) => trace.records[k].modTime = TimeOf(sources[trace.records[k].path])

BuilderInv ==
  /\ TypeOK /\ EventsInv /\ PastInv /\ CacheInv /\ TraceInv /\ RecordsInv /\ PhaseInv /\ CalmInv
  /\ CheckInv /\ SettledInv /\ UpToDateSound /\ StopsExplained

-----------------------------------------------------------------------------
(* The last of the first numbers.                                          *)
LEMMA MaxOf ==
  ASSUME NEW n \in Nat, NEW s \in SUBSET (1..(n + 1)), n + 1 \in s
  PROVE  Max(s) = n + 1
<1>1. \A y \in s : n + 1 >= y
  OBVIOUS
<1>2. PICK m : m = Max(s)
  OBVIOUS
<1>3. m \in s /\ \A y \in s : m >= y
  BY <1>1, <1>2 DEF Max
<1>4. m = n + 1
  BY <1>3
<1>5. QED
  BY <1>2, <1>4

(* The first numbers, without the last of them.                            *)
LEMMA MaxOfFirst ==
  ASSUME NEW n \in Nat, NEW k \in 1..n
  PROVE  Max(1..k) = k /\ 1..k \in SUBSET (1..n) /\ 1..k # {} /\ (1..k) \ {k} = 1..(k - 1)
<1>1. PICK j \in Nat : j + 1 = k
  <2>1. k - 1 \in Nat /\ (k - 1) + 1 = k
    OBVIOUS
  <2>2. QED
    BY <2>1
<1>2. Max(1..(j + 1)) = j + 1
  <2>1. 1..(j + 1) \in SUBSET (1..(j + 1)) /\ j + 1 \in 1..(j + 1)
    OBVIOUS
  <2>2. QED
    BY <2>1, MaxOf
<1>3. k \in 1..k /\ 1..k \in SUBSET (1..n) /\ (1..k) \ {k} = 1..(k - 1)
  OBVIOUS
<1>4. QED
  BY <1>1, <1>2, <1>3

(* The first of some numbers.                                              *)
LEMMA MinOf ==
  ASSUME NEW n \in Nat, NEW s \in SUBSET (1..n), s # {}
  PROVE  Min(s) \in s
<1>1. s \in SUBSET Nat /\ \A k \in s : k <= n
  OBVIOUS
<1>2. PICK m \in s : \A k \in s : m <= k
  BY <1>1, LeastExists
<1>3. QED
  BY <1>2 DEF Min

-----------------------------------------------------------------------------
(* What a fold does, one element at a time, for the three folds the model  *)
(* is built from.                                                          *)
TrackSteps(f, D, records, paths, times) ==
  f = [s \in SUBSET D |-> IF s = {} THEN records ELSE TrackSource(times, f[s \ {Max(s)}], paths[Max(s)])]

LEMMA TrackStepsExist ==
  ASSUME NEW n \in Nat, NEW records, NEW paths, NEW times
  PROVE  \E f : TrackSteps(f, 1..n, records, paths, times)
<1> DEFINE S == {m \in 0..n : \E f : TrackSteps(f, 1..m, records, paths, times)}
<1>1. 0 \in S
  <2> DEFINE g == [s \in SUBSET (1..0) |-> records]
  <2>1. \A s \in SUBSET (1..0) : s = {}
    OBVIOUS
  <2>2. TrackSteps(g, 1..0, records, paths, times)
    BY <2>1 DEF TrackSteps
  <2> HIDE DEF g
  <2>3. QED
    BY <2>2
<1>2. ASSUME NEW m \in 0..(n - 1), m \in S PROVE m + 1 \in S
  <2>1. PICK f : TrackSteps(f, 1..m, records, paths, times)
    BY <1>2
  <2> DEFINE g == [s \in SUBSET (1..(m + 1)) |->
                     IF m + 1 \notin s THEN f[s] ELSE TrackSource(times, f[s \ {m + 1}], paths[m + 1])]
  <2>2. ASSUME NEW s \in SUBSET (1..(m + 1))
        PROVE  g[s] = IF s = {} THEN records ELSE TrackSource(times, g[s \ {Max(s)}], paths[Max(s)])
    <3>1. CASE m + 1 \in s
      <4>1. Max(s) = m + 1
        BY <3>1, MaxOf
      <4>2. g[s \ {m + 1}] = f[s \ {m + 1}]
        OBVIOUS
      <4>3. QED
        BY <3>1, <4>1, <4>2
    <3>2. CASE m + 1 \notin s
      <4>1. s \in SUBSET (1..m) /\ g[s] = f[s]
        BY <3>2
      <4>2. f[s] = IF s = {} THEN records ELSE TrackSource(times, f[s \ {Max(s)}], paths[Max(s)])
        BY <2>1, <4>1 DEF TrackSteps
      <4>3. g[s \ {Max(s)}] = f[s \ {Max(s)}]
        BY <3>2
      <4>4. QED
        BY <4>1, <4>2, <4>3
    <3>3. QED
      BY <3>1, <3>2
  <2>3. DOMAIN g = SUBSET (1..(m + 1)) /\ g = [s \in DOMAIN g |-> g[s]]
    OBVIOUS
  <2> HIDE DEF g
  <2>4. TrackSteps(g, 1..(m + 1), records, paths, times)
    BY <2>2, <2>3 DEF TrackSteps
  <2>5. QED
    BY <2>4
<1>3. QED
  <2> HIDE DEF S
  <2>1. n \in S
    BY <1>1, <1>2, UpTo
  <2>2. QED
    BY <2>1 DEF S

LEMMA TrackFold ==
  ASSUME NEW n \in Nat, NEW records, NEW paths, DOMAIN paths = 1..n, NEW times
  PROVE  \E acc : /\ acc[0] = records
                  /\ \A k \in 1..n : acc[k] = TrackSource(times, acc[k - 1], paths[k])
                  /\ Tracked(records, paths, times) = acc[n]
<1>1. PICK iter : iter = (CHOOSE f : TrackSteps(f, 1..n, records, paths, times))
  OBVIOUS
<1>2. TrackSteps(iter, 1..n, records, paths, times)
  BY <1>1, TrackStepsExist
<1> DEFINE acc == [k \in 0..n |-> iter[1..k]]
<1>4. acc[0] = records
  <2>1. 1..0 = {} /\ 0 \in 0..n
    OBVIOUS
  <2>2. QED
    BY <1>2, <2>1 DEF TrackSteps
<1>5. ASSUME NEW k \in 1..n PROVE acc[k] = TrackSource(times, acc[k - 1], paths[k])
  <2>1. k - 1 \in Nat /\ (k - 1) + 1 = k /\ k - 1 \in 0..n
    OBVIOUS
  <2>2. Max(1..k) = k /\ 1..k \in SUBSET (1..n) /\ 1..k # {} /\ (1..k) \ {k} = 1..(k - 1)
    BY MaxOfFirst
  <2>4. iter[1..k] = TrackSource(times, iter[1..(k - 1)], paths[k])
    BY <1>2, <2>2 DEF TrackSteps
  <2>5. QED
    BY <2>1, <2>4
<1>6. acc[n] = iter[DOMAIN paths]
  OBVIOUS
<1> HIDE DEF acc
<1>7. QED
  BY <1>1, <1>4, <1>5, <1>6 DEF Tracked, FoldLeft, MapThenFoldSet, TrackSteps

AddNew(seen, p) == IF Contains(seen, p) THEN seen ELSE Append(seen, p)
DistinctSteps(f, D, paths) ==
  f = [s \in SUBSET D |-> IF s = {} THEN <<>> ELSE AddNew(f[s \ {Max(s)}], paths[Max(s)])]

LEMMA DistinctStepsExist ==
  ASSUME NEW n \in Nat, NEW paths
  PROVE  \E f : DistinctSteps(f, 1..n, paths)
<1> DEFINE S == {m \in 0..n : \E f : DistinctSteps(f, 1..m, paths)}
<1>1. 0 \in S
  <2> DEFINE g == [s \in SUBSET (1..0) |-> <<>>]
  <2>1. \A s \in SUBSET (1..0) : s = {}
    OBVIOUS
  <2>2. DistinctSteps(g, 1..0, paths)
    BY <2>1 DEF DistinctSteps
  <2> HIDE DEF g
  <2>3. QED
    BY <2>2
<1>2. ASSUME NEW m \in 0..(n - 1), m \in S PROVE m + 1 \in S
  <2>1. PICK f : DistinctSteps(f, 1..m, paths)
    BY <1>2
  <2> DEFINE g == [s \in SUBSET (1..(m + 1)) |->
                     IF m + 1 \notin s THEN f[s] ELSE AddNew(f[s \ {m + 1}], paths[m + 1])]
  <2>2. ASSUME NEW s \in SUBSET (1..(m + 1))
        PROVE  g[s] = IF s = {} THEN <<>> ELSE AddNew(g[s \ {Max(s)}], paths[Max(s)])
    <3>1. CASE m + 1 \in s
      <4>1. Max(s) = m + 1
        BY <3>1, MaxOf
      <4>2. g[s \ {m + 1}] = f[s \ {m + 1}]
        OBVIOUS
      <4>3. QED
        BY <3>1, <4>1, <4>2
    <3>2. CASE m + 1 \notin s
      <4>1. s \in SUBSET (1..m) /\ g[s] = f[s]
        BY <3>2
      <4>2. f[s] = IF s = {} THEN <<>> ELSE AddNew(f[s \ {Max(s)}], paths[Max(s)])
        BY <2>1, <4>1 DEF DistinctSteps
      <4>3. g[s \ {Max(s)}] = f[s \ {Max(s)}]
        BY <3>2
      <4>4. QED
        BY <4>1, <4>2, <4>3
    <3>3. QED
      BY <3>1, <3>2
  <2>3. DOMAIN g = SUBSET (1..(m + 1)) /\ g = [s \in DOMAIN g |-> g[s]]
    OBVIOUS
  <2> HIDE DEF g
  <2>4. DistinctSteps(g, 1..(m + 1), paths)
    BY <2>2, <2>3 DEF DistinctSteps
  <2>5. QED
    BY <2>4
<1>3. QED
  <2> HIDE DEF S
  <2>1. n \in S
    BY <1>1, <1>2, UpTo
  <2>2. QED
    BY <2>1 DEF S

LEMMA DistinctFold ==
  ASSUME NEW n \in Nat, NEW paths, DOMAIN paths = 1..n
  PROVE  \E acc : /\ acc[0] = <<>>
                  /\ \A k \in 1..n : acc[k] = AddNew(acc[k - 1], paths[k])
                  /\ Distinct(paths) = acc[n]
<1>1. PICK iter : iter = (CHOOSE f : DistinctSteps(f, 1..n, paths))
  OBVIOUS
<1>2. DistinctSteps(iter, 1..n, paths)
  BY <1>1, DistinctStepsExist
<1> DEFINE acc == [k \in 0..n |-> iter[1..k]]
<1>4. acc[0] = <<>>
  <2>1. 1..0 = {} /\ 0 \in 0..n
    OBVIOUS
  <2>2. QED
    BY <1>2, <2>1 DEF DistinctSteps
<1>5. ASSUME NEW k \in 1..n PROVE acc[k] = AddNew(acc[k - 1], paths[k])
  <2>1. k - 1 \in Nat /\ (k - 1) + 1 = k /\ k - 1 \in 0..n
    OBVIOUS
  <2>2. Max(1..k) = k /\ 1..k \in SUBSET (1..n) /\ 1..k # {} /\ (1..k) \ {k} = 1..(k - 1)
    BY MaxOfFirst
  <2>4. iter[1..k] = AddNew(iter[1..(k - 1)], paths[k])
    BY <1>2, <2>2 DEF DistinctSteps
  <2>5. QED
    BY <2>1, <2>4
<1>6. acc[n] = iter[DOMAIN paths]
  OBVIOUS
<1> HIDE DEF acc
<1>7. QED
  BY <1>1, <1>4, <1>5, <1>6 DEF Distinct, AddNew, FoldLeft, MapThenFoldSet, DistinctSteps

ManifestSteps(f, D, document) ==
  f = [s \in SUBSET D |-> IF s = {} THEN Begin ELSE ReadEntry(f[s \ {Max(s)}], document[Max(s)])]

LEMMA ManifestStepsExist ==
  ASSUME NEW n \in Nat, NEW document
  PROVE  \E f : ManifestSteps(f, 1..n, document)
<1> DEFINE S == {m \in 0..n : \E f : ManifestSteps(f, 1..m, document)}
<1>1. 0 \in S
  <2> DEFINE g == [s \in SUBSET (1..0) |-> Begin]
  <2>1. \A s \in SUBSET (1..0) : s = {}
    OBVIOUS
  <2>2. ManifestSteps(g, 1..0, document)
    BY <2>1 DEF ManifestSteps
  <2> HIDE DEF g
  <2>3. QED
    BY <2>2
<1>2. ASSUME NEW m \in 0..(n - 1), m \in S PROVE m + 1 \in S
  <2>1. PICK f : ManifestSteps(f, 1..m, document)
    BY <1>2
  <2> DEFINE g == [s \in SUBSET (1..(m + 1)) |->
                     IF m + 1 \notin s THEN f[s] ELSE ReadEntry(f[s \ {m + 1}], document[m + 1])]
  <2>2. ASSUME NEW s \in SUBSET (1..(m + 1))
        PROVE  g[s] = IF s = {} THEN Begin ELSE ReadEntry(g[s \ {Max(s)}], document[Max(s)])
    <3>1. CASE m + 1 \in s
      <4>1. Max(s) = m + 1
        BY <3>1, MaxOf
      <4>2. g[s \ {m + 1}] = f[s \ {m + 1}]
        OBVIOUS
      <4>3. QED
        BY <3>1, <4>1, <4>2
    <3>2. CASE m + 1 \notin s
      <4>1. s \in SUBSET (1..m) /\ g[s] = f[s]
        BY <3>2
      <4>2. f[s] = IF s = {} THEN Begin ELSE ReadEntry(f[s \ {Max(s)}], document[Max(s)])
        BY <2>1, <4>1 DEF ManifestSteps
      <4>3. g[s \ {Max(s)}] = f[s \ {Max(s)}]
        BY <3>2
      <4>4. QED
        BY <4>1, <4>2, <4>3
    <3>3. QED
      BY <3>1, <3>2
  <2>3. DOMAIN g = SUBSET (1..(m + 1)) /\ g = [s \in DOMAIN g |-> g[s]]
    OBVIOUS
  <2> HIDE DEF g
  <2>4. ManifestSteps(g, 1..(m + 1), document)
    BY <2>2, <2>3 DEF ManifestSteps
  <2>5. QED
    BY <2>4
<1>3. QED
  <2> HIDE DEF S
  <2>1. n \in S
    BY <1>1, <1>2, UpTo
  <2>2. QED
    BY <2>1 DEF S

LEMMA ManifestFold ==
  ASSUME NEW n \in Nat, NEW document, DOMAIN document = 1..n
  PROVE  \E acc : /\ acc[0] = Begin
                  /\ \A k \in 1..n : acc[k] = ReadEntry(acc[k - 1], document[k])
                  /\ LoadManifest(document) = acc[n]
<1>1. PICK iter : iter = (CHOOSE f : ManifestSteps(f, 1..n, document))
  OBVIOUS
<1>2. ManifestSteps(iter, 1..n, document)
  BY <1>1, ManifestStepsExist
<1> DEFINE acc == [k \in 0..n |-> iter[1..k]]
<1>4. acc[0] = Begin
  <2>1. 1..0 = {} /\ 0 \in 0..n
    OBVIOUS
  <2>2. QED
    BY <1>2, <2>1 DEF ManifestSteps
<1>5. ASSUME NEW k \in 1..n PROVE acc[k] = ReadEntry(acc[k - 1], document[k])
  <2>1. k - 1 \in Nat /\ (k - 1) + 1 = k /\ k - 1 \in 0..n
    OBVIOUS
  <2>2. Max(1..k) = k /\ 1..k \in SUBSET (1..n) /\ 1..k # {} /\ (1..k) \ {k} = 1..(k - 1)
    BY MaxOfFirst
  <2>4. iter[1..k] = ReadEntry(iter[1..(k - 1)], document[k])
    BY <1>2, <2>2 DEF ManifestSteps
  <2>5. QED
    BY <2>1, <2>4
<1>6. acc[n] = iter[DOMAIN document]
  OBVIOUS
<1> HIDE DEF acc
<1>7. QED
  BY <1>1, <1>4, <1>5, <1>6 DEF LoadManifest, FoldLeft, MapThenFoldSet, ManifestSteps

-----------------------------------------------------------------------------
(* The paths of a shader, each once, in the order they were opened.        *)
Elements(q) == {q[j] : j \in 1..Len(q)}
FirstElements(q, k) == {q[j] : j \in 1..k}

LEMMA DistinctFacts ==
  ASSUME NEW S, NEW paths \in Seq(S)
  PROVE  /\ Distinct(paths) \in Seq(S)
         /\ Elements(Distinct(paths)) = FirstElements(paths, Len(paths))
<1>1. PICK n \in Nat : n = Len(paths)
  BY LenProperties
<1>2. DOMAIN paths = 1..n /\ \A k \in 1..n : paths[k] \in S
  BY <1>1, LenProperties, ElementOfSeq
<1>3. PICK acc : /\ acc[0] = <<>>
                 /\ \A k \in 1..n : acc[k] = AddNew(acc[k - 1], paths[k])
                 /\ Distinct(paths) = acc[n]
  BY <1>2, DistinctFold
<1> DEFINE Good(k) == acc[k] \in Seq(S) /\ Elements(acc[k]) = FirstElements(paths, k)
           G == {k \in 0..n : Good(k)}
<1>4. 0 \in G
  <2>1. acc[0] \in Seq(S) /\ Len(acc[0]) = 0
    BY <1>3, EmptySeq
  <2>2. 1..0 = {}
    OBVIOUS
  <2>3. Good(0)
    BY <2>1, <2>2 DEF Elements, FirstElements
  <2>4. QED
    BY <2>3
<1>5. ASSUME NEW k \in 0..(n - 1), k \in G PROVE k + 1 \in G
  <2>1. k + 1 \in 1..n /\ (k + 1) - 1 = k /\ k + 1 \in 0..n
    OBVIOUS
  <2>2. PICK q \in Seq(S) : q = acc[k]
    BY <1>5
  <2>3. PICK e \in S : e = paths[k + 1]
    BY <1>2, <2>1
  <2>4. Elements(q) = FirstElements(paths, k)
    BY <1>5, <2>2
  <2>5. acc[k + 1] = AddNew(q, e)
    BY <1>3, <2>1, <2>2, <2>3
  <2>6. FirstElements(paths, k + 1) = FirstElements(paths, k) \cup {e}
    BY <2>3 DEF FirstElements
  <2>7. CASE Contains(q, e)
    <3>1. e \in Elements(q)
      BY <2>7 DEF Contains, Elements
    <3>2. acc[k + 1] = q
      BY <2>5, <2>7 DEF AddNew
    <3>3. Good(k + 1)
      BY <2>4, <2>6, <3>1, <3>2
    <3>4. QED
      BY <2>1, <3>3
  <2>8. CASE ~Contains(q, e)
    <3>1. acc[k + 1] = Append(q, e)
      BY <2>5, <2>8 DEF AddNew
    <3>2. PICK w : w = Append(q, e)
      OBVIOUS
    <3>3. /\ w \in Seq(S) /\ Len(w) = Len(q) + 1 /\ w[Len(q) + 1] = e /\ Len(q) \in Nat
          /\ \A j \in 1..Len(q) : w[j] = q[j]
      BY <3>2, AppendProperties, LenProperties
    <3>4. Elements(w) = Elements(q) \cup {e}
      BY <3>3 DEF Elements
    <3>5. Good(k + 1)
      BY <2>4, <2>6, <3>1, <3>2, <3>3, <3>4
    <3>6. QED
      BY <2>1, <3>5
  <2>9. QED
    BY <2>7, <2>8
<1>6. n \in G
  <2> HIDE DEF G
  <2>1. QED
    BY <1>1, <1>4, <1>5, UpTo
<1>7. QED
  BY <1>1, <1>3, <1>6

-----------------------------------------------------------------------------
(* Only a shader entry adds to the shaders of a manifest.                  *)
Keeps(lib, new) == "shaders" \in DOMAIN new /\ new.shaders = lib.shaders

LEMMA FailedKeeps ==
  ASSUME NEW lib, "shaders" \in DOMAIN lib, NEW status
  PROVE  Keeps(lib, Failed(lib, status))
BY DEF Keeps, Failed

LEMMA SamplerKeeps ==
  ASSUME NEW lib, "shaders" \in DOMAIN lib, NEW name, NEW body
  PROVE  Keeps(lib, ReadStaticSampler(lib, name, body))
<1>1. \A x : Keeps(lib, [lib EXCEPT !.samplers = x])
  BY DEF Keeps
<1>2. \A s : Keeps(lib, Failed(lib, s))
  BY FailedKeeps
<1>3. QED
  BY <1>1, <1>2 DEF ReadStaticSampler

LEMMA DeclareKeeps ==
  ASSUME NEW lib, "shaders" \in DOMAIN lib, NEW field \in {"sets", "layouts"}, NEW name, NEW created
  PROVE  Keeps(lib, Declare(lib, field, name, created))
<1>1. \A x : Keeps(lib, [lib EXCEPT ![field] = x])
  BY DEF Keeps
<1>2. \A s : Keeps(lib, Failed(lib, s))
  BY FailedKeeps
<1>3. QED
  BY <1>1, <1>2 DEF Declare

LEMMA LayoutsKeep ==
  ASSUME NEW lib, "shaders" \in DOMAIN lib, NEW name, NEW body
  PROVE  Keeps(lib, ReadDescriptorSetLayout(lib, name, body)) /\ Keeps(lib, ReadPipelineLayout(lib, name, body))
<1>1. \A s : Keeps(lib, Failed(lib, s))
  BY FailedKeeps
<1>2. \A created : Keeps(lib, Declare(lib, "sets", name, created)) /\ Keeps(lib, Declare(lib, "layouts", name, created))
  BY DeclareKeeps
<1>3. QED
  BY <1>1, <1>2 DEF ReadDescriptorSetLayout, ReadPipelineLayout

(* The shaders of a manifest so far: named by their hashes, each once.     *)
ShadersOnce(shaders) ==
  /\ \E S : shaders \in Seq(S)
  /\ \A i \in 1..Len(shaders) : shaders[i].xsh = XSH(shaders[i].name)
  /\ \A i, j \in 1..Len(shaders) : shaders[i].name = shaders[j].name => i = j

LEMMA ShaderAppended ==
  ASSUME NEW shaders, ShadersOnce(shaders), NEW s, s.xsh = XSH(s.name), IsNew(shaders, s.name)
  PROVE  ShadersOnce(Append(shaders, s))
<1>1. PICK S : shaders \in Seq(S)
  BY DEF ShadersOnce
<1> DEFINE T == S \cup {s}
<1>2. shaders \in Seq(T) /\ s \in T
  BY <1>1, SeqMonotonic
<1>3. PICK w : w = Append(shaders, s)
  OBVIOUS
<1> HIDE DEF T
<1>4. PICK n \in Nat : n = Len(shaders)
  BY <1>1, LenProperties
<1>5. w \in Seq(T) /\ Len(w) = n + 1 /\ w[n + 1] = s /\ \A i \in 1..n : w[i] = shaders[i]
  BY <1>2, <1>3, <1>4, AppendProperties
<1>6. \A i \in 1..n : shaders[i].xsh # XSH(s.name)
  <2>1. DOMAIN shaders = 1..n
    BY <1>1, <1>4, LenProperties
  <2>2. QED
    BY <2>1 DEF IsNew, Named
<1>7. /\ \A i \in 1..n : shaders[i].xsh = XSH(shaders[i].name)
      /\ \A i, j \in 1..n : shaders[i].name = shaders[j].name => i = j
  BY <1>4 DEF ShadersOnce
<1>8. \A i \in 1..(n + 1) : i = n + 1 \/ i \in 1..n
  BY <1>4
<1>9. \A i \in 1..(n + 1) : w[i].xsh = XSH(w[i].name)
  BY <1>5, <1>7, <1>8
<1>10. \A i, j \in 1..(n + 1) : w[i].name = w[j].name => i = j
  BY <1>5, <1>6, <1>7, <1>8
<1>11. QED
  BY <1>3, <1>5, <1>9, <1>10 DEF ShadersOnce

LEMMA ShaderRead ==
  ASSUME NEW lib, "shaders" \in DOMAIN lib, ShadersOnce(lib.shaders), NEW name, NEW body, NEW type
  PROVE  LET new == ReadShader(lib, name, body, type) IN
         "shaders" \in DOMAIN new /\ ShadersOnce(new.shaders)
<1> DEFINE s == [name |-> name, xsh |-> XSH(name), type |-> type,
                 layoutXSH |-> XSH(body[1].value), layout |-> FirstNamed(lib.layouts, body[1].value).layout,
                 source |-> body[2].value, entry |-> body[3].value]
           new == ReadShader(lib, name, body, type)
<1>1. s.name = name /\ s.xsh = XSH(s.name)
  OBVIOUS
<1>2. Keeps(lib, new) \/ (IsNew(lib.shaders, name) /\ new = [lib EXCEPT !.shaders = Append(@, s)])
  <2>1. \A status : Keeps(lib, Failed(lib, status))
    BY FailedKeeps
  <2>2. QED
    BY <2>1 DEF ReadShader
<1> HIDE DEF s
<1> HIDE DEF new
<1>3. ASSUME Keeps(lib, new) PROVE "shaders" \in DOMAIN new /\ ShadersOnce(new.shaders)
  BY <1>3 DEF Keeps
<1>4. ASSUME IsNew(lib.shaders, name), new = [lib EXCEPT !.shaders = Append(@, s)]
      PROVE  "shaders" \in DOMAIN new /\ ShadersOnce(new.shaders)
  <2>1. ShadersOnce(Append(lib.shaders, s))
    BY <1>1, <1>4, ShaderAppended
  <2>2. "shaders" \in DOMAIN new /\ new.shaders = Append(lib.shaders, s)
    BY <1>4
  <2>3. QED
    BY <2>1, <2>2
<1>5. "shaders" \in DOMAIN new /\ ShadersOnce(new.shaders)
  BY <1>2, <1>3, <1>4
<1>6. QED
  BY <1>5 DEF new

LEMMA EntryRead ==
  ASSUME NEW lib, "shaders" \in DOMAIN lib, ShadersOnce(lib.shaders), NEW p
  PROVE  LET new == ReadEntry(lib, p) IN
         "shaders" \in DOMAIN new /\ ShadersOnce(new.shaders)
<1> DEFINE new == ReadEntry(lib, p)
           body == Tail(p.value)
           type == p.value[1].value
<1>1. \/ new = lib \/ \E status : new = Failed(lib, status)
      \/ new = ReadStaticSampler(lib, p.key, body) \/ new = ReadDescriptorSetLayout(lib, p.key, body)
      \/ new = ReadPipelineLayout(lib, p.key, body) \/ \E t : new = ReadShader(lib, p.key, body, t)
  <2> DEFINE typed == IF p.kind = "number" THEN "assert"
                      ELSE IF p.kind # "object" \/ ~ValidEntryName(p.key) THEN "rejected"
                      ELSE Consume(p.value, 1, "type", "string")
  <2>1. CASE lib.status # "ok"
    BY <2>1 DEF ReadEntry
  <2>2. CASE lib.status = "ok" /\ typed # "ok"
    <3>1. new = Failed(lib, typed)
      BY <2>2 DEF ReadEntry
    <3>2. QED
      BY <3>1
  <2>3. CASE lib.status = "ok" /\ typed = "ok"
    <3>1. new = CASE type = "static_sampler" -> ReadStaticSampler(lib, p.key, body)
                  [] type = "descriptor_set_layout" -> ReadDescriptorSetLayout(lib, p.key, body)
                  [] type = "pipeline_layout" -> ReadPipelineLayout(lib, p.key, body)
                  [] type \in DOMAIN ParseShaderType -> ReadShader(lib, p.key, body, ParseShaderType[type])
                  [] OTHER -> Failed(lib, "rejected")
      BY <2>3 DEF ReadEntry
    <3>2. QED
      <4>1. type = "static_sampler" => new = ReadStaticSampler(lib, p.key, body)
        BY <3>1, ZenonT(60) DEF ParseShaderType
      <4>2. type = "descriptor_set_layout" => new = ReadDescriptorSetLayout(lib, p.key, body)
        BY <3>1, ZenonT(60) DEF ParseShaderType
      <4>3. type = "pipeline_layout" => new = ReadPipelineLayout(lib, p.key, body)
        BY <3>1, ZenonT(60) DEF ParseShaderType
      <4>4. ASSUME type \notin {"static_sampler", "descriptor_set_layout", "pipeline_layout"},
                   type \in DOMAIN ParseShaderType
            PROVE  new = ReadShader(lib, p.key, body, ParseShaderType[type])
        <5> HIDE DEF new, body, type
        <5>1. QED
          BY <3>1, <4>4, ZenonT(60)
      <4>5. ASSUME type \notin {"static_sampler", "descriptor_set_layout", "pipeline_layout"},
                   type \notin DOMAIN ParseShaderType
            PROVE  new = Failed(lib, "rejected")
        <5> HIDE DEF new, body, type
        <5>1. QED
          BY <3>1, <4>5, ZenonT(60)
      <4> HIDE DEF new, body, type
      <4>6. QED
        BY <4>1, <4>2, <4>3, <4>4, <4>5
  <2>4. QED
    BY <2>1, <2>2, <2>3
<1>2. Keeps(lib, lib) /\ \A status : Keeps(lib, Failed(lib, status))
  BY FailedKeeps DEF Keeps
<1>3. /\ Keeps(lib, ReadStaticSampler(lib, p.key, body)) /\ Keeps(lib, ReadDescriptorSetLayout(lib, p.key, body))
      /\ Keeps(lib, ReadPipelineLayout(lib, p.key, body))
  BY SamplerKeeps, LayoutsKeep
<1>4. \A t : LET read == ReadShader(lib, p.key, body, t) IN "shaders" \in DOMAIN read /\ ShadersOnce(read.shaders)
  BY ShaderRead
<1> HIDE DEF new, body
<1>5. Keeps(lib, new) \/ ("shaders" \in DOMAIN new /\ ShadersOnce(new.shaders))
  BY <1>1, <1>2, <1>3, <1>4
<1>6. "shaders" \in DOMAIN new /\ ShadersOnce(new.shaders)
  BY <1>5 DEF Keeps
<1>7. QED
  BY <1>6 DEF new

(* A manifest declares every shader once.                                  *)
LEMMA LoadedShaders ==
  ASSUME NEW document, Len(document) \in Nat, DOMAIN document = 1..Len(document)
  PROVE  ShadersOnce(LoadManifest(document).shaders)
<1>1. PICK n \in Nat : n = Len(document)
  OBVIOUS
<1>2. PICK acc : /\ acc[0] = Begin
                 /\ \A k \in 1..n : acc[k] = ReadEntry(acc[k - 1], document[k])
                 /\ LoadManifest(document) = acc[n]
  BY <1>1, ManifestFold
<1> DEFINE Good(lib) == "shaders" \in DOMAIN lib /\ ShadersOnce(lib.shaders)
           G == {k \in 0..n : Good(acc[k])}
<1>3. 0 \in G
  <2>1. "shaders" \in DOMAIN Begin /\ Begin.shaders = <<>>
    BY DEF Begin
  <2>2. <<>> \in Seq({}) /\ Len(<<>>) = 0 /\ 1..0 = {}
    BY EmptySeq
  <2>3. ShadersOnce(<<>>)
    BY <2>2 DEF ShadersOnce
  <2>4. QED
    BY <1>1, <1>2, <2>1, <2>3
<1>4. ASSUME NEW k \in 0..(n - 1), k \in G PROVE k + 1 \in G
  <2>1. k + 1 \in 1..n /\ (k + 1) - 1 = k /\ k + 1 \in 0..n
    BY <1>1
  <2>2. PICK lib : lib = acc[k]
    OBVIOUS
  <2>3. Good(lib)
    BY <1>4, <2>2
  <2>4. acc[k + 1] = ReadEntry(lib, document[k + 1])
    BY <1>2, <2>1, <2>2
  <2>5. Good(ReadEntry(lib, document[k + 1]))
    BY <2>3, EntryRead
  <2> HIDE DEF Good
  <2>6. QED
    BY <2>1, <2>4, <2>5
<1>5. n \in G
  <2> HIDE DEF G
  <2>1. QED
    BY <1>1, <1>3, <1>4, UpTo
<1>6. QED
  BY <1>2, <1>5

-----------------------------------------------------------------------------
(* The source files known before a record: their number grows by one at a  *)
(* source record, and a record names each by its place among them.         *)
LEMMA SourcesCounted ==
  ASSUME NEW records, NEW i \in Nat \ {0}
  PROVE  /\ SourcesBefore(records, 1) = 0 /\ SourcesBefore(records, i) \in Nat
         /\ SourcesBefore(records, i + 1) =
              IF records[i].kind = "source" THEN SourcesBefore(records, i) + 1 ELSE SourcesBefore(records, i)
<1> DEFINE S(k) == {j \in 1..(k - 1) : records[j].kind = "source"}
<1>1. S(1) = {}
  OBVIOUS
<1>2. IsFiniteSet(S(i))
  <2>1. IsFiniteSet(1..(i - 1))
    <3>1. 1 \in Int /\ i - 1 \in Int
      OBVIOUS
    <3>2. QED
      BY <3>1, FS_Interval
  <2>2. S(i) \in SUBSET (1..(i - 1))
    OBVIOUS
  <2> HIDE DEF S
  <2>3. QED
    BY <2>1, <2>2, FS_Subset
<1>3. i \notin S(i) /\ (i + 1) - 1 = i
  OBVIOUS
<1>4. S(i + 1) = IF records[i].kind = "source" THEN S(i) \cup {i} ELSE S(i)
  OBVIOUS
<1>5. \A k : SourcesBefore(records, k) = Cardinality(S(k))
  BY DEF SourcesBefore
<1> HIDE DEF S
<1>6. Cardinality(S(i) \cup {i}) = Cardinality(S(i)) + 1 /\ Cardinality(S(i)) \in Nat /\ Cardinality({}) = 0
  BY <1>2, <1>3, FS_AddElement, FS_CardinalityType, FS_EmptySet
<1>7. QED
  BY <1>1, <1>4, <1>5, <1>6

LEMMA SourcesMonotone ==
  ASSUME NEW records, NEW i \in Nat \ {0}, NEW k \in Nat \ {0}, i <= k
  PROVE  SourcesBefore(records, i) <= SourcesBefore(records, k)
<1> DEFINE S(m) == {j \in 1..(m - 1) : records[j].kind = "source"}
<1>1. IsFiniteSet(S(k))
  <2>1. IsFiniteSet(1..(k - 1))
    <3>1. 1 \in Int /\ k - 1 \in Int
      OBVIOUS
    <3>2. QED
      BY <3>1, FS_Interval
  <2>2. S(k) \in SUBSET (1..(k - 1))
    OBVIOUS
  <2> HIDE DEF S
  <2>3. QED
    BY <2>1, <2>2, FS_Subset
<1>2. S(i) \in SUBSET S(k)
  OBVIOUS
<1>3. \A m : SourcesBefore(records, m) = Cardinality(S(m))
  BY DEF SourcesBefore
<1> HIDE DEF S
<1>4. QED
  BY <1>1, <1>2, <1>3, FS_Subset

LEMMA SourcesAgree ==
  ASSUME NEW records, NEW others, NEW i \in Nat \ {0}, \A j \in 1..(i - 1) : records[j] = others[j]
  PROVE  SourcesBefore(records, i) = SourcesBefore(others, i)
<1>1. {j \in 1..(i - 1) : records[j].kind = "source"} = {j \in 1..(i - 1) : others[j].kind = "source"}
  OBVIOUS
<1>2. QED
  BY <1>1 DEF SourcesBefore

(* The sources before record i have the numbers below their count.         *)
LEMMA SourceKnown ==
  ASSUME NEW S, NEW records \in Seq(S), WellFormed(records),
         NEW i \in 1..(Len(records) + 1), NEW x \in Nat, x < SourcesBefore(records, i)
  PROVE  \E k \in 1..(i - 1) : IsSource(records, k) /\ records[k].index = x
<1>1. PICK n \in Nat : n = Len(records)
  BY LenProperties
<1>2. DOMAIN records = 1..n
  BY <1>1, LenProperties
<1> DEFINE Known(m) == x < SourcesBefore(records, m + 1) =>
                         \E k \in 1..m : IsSource(records, k) /\ records[k].index = x
           G == {m \in 0..n : Known(m)}
<1>3. 0 \in G
  <2>1. SourcesBefore(records, 1) = 0
    <3>1. 1 \in Nat \ {0}
      OBVIOUS
    <3>2. QED
      BY <3>1, SourcesCounted
  <2>2. 0 + 1 = 1 /\ ~(x < 0) /\ 0 \in 0..n
    BY <1>1
  <2>3. Known(0)
    BY <2>1, <2>2
  <2> HIDE DEF Known
  <2>4. QED
    BY <2>2, <2>3
<1>4. ASSUME NEW m \in 0..(n - 1), m \in G PROVE m + 1 \in G
  <2>1. PICK k \in 1..n : k = m + 1
    BY <1>1
  <2>2. /\ SourcesBefore(records, k) \in Nat
        /\ SourcesBefore(records, k + 1) =
             IF records[k].kind = "source" THEN SourcesBefore(records, k) + 1 ELSE SourcesBefore(records, k)
    <3>1. k \in Nat \ {0}
      BY <1>1
    <3>2. QED
      BY <3>1, SourcesCounted
  <2>3. records[k].kind = "source" => IsSource(records, k) /\ records[k].index = SourcesBefore(records, k)
    BY <1>2 DEF WellFormed, IsSource
  <2>4. x < SourcesBefore(records, k) => \E l \in 1..m : IsSource(records, l) /\ records[l].index = x
    BY <1>4, <2>1
  <2>5. \A l \in 1..m : l \in 1..k
    BY <2>1
  <2>6. Known(k)
    BY <2>1, <2>2, <2>3, <2>4, <2>5
  <2> HIDE DEF Known
  <2>7. QED
    BY <1>1, <2>1, <2>6
<1>5. \A m \in 0..n : m \in G
  <2> HIDE DEF G
  <2>1. QED
    BY <1>1, <1>3, <1>4, UpTo
<1>6. i - 1 \in 0..n /\ (i - 1) + 1 = i
  BY <1>1
<1>7. Known(i - 1)
  BY <1>5, <1>6
<1>8. QED
  BY <1>6, <1>7

LEMMA SourceNumbered ==
  ASSUME NEW S, NEW records \in Seq(S), WellFormed(records), NEW k, IsSource(records, k)
  PROVE  /\ records[k].index \in Nat
         /\ \A i \in (k + 1)..(Len(records) + 1) : records[k].index < SourcesBefore(records, i)
<1>1. PICK n \in Nat : n = Len(records) /\ DOMAIN records = 1..n
  BY LenProperties
<1>2. k \in 1..n /\ records[k].kind = "source" /\ records[k].index = SourcesBefore(records, k)
  BY <1>1 DEF WellFormed, IsSource
<1>3. SourcesBefore(records, k) \in Nat /\ SourcesBefore(records, k + 1) = SourcesBefore(records, k) + 1
  BY <1>2, SourcesCounted
<1>4. ASSUME NEW i \in (k + 1)..(n + 1) PROVE records[k].index < SourcesBefore(records, i)
  <2>1. k + 1 \in Nat \ {0} /\ i \in Nat \ {0} /\ k + 1 <= i
    BY <1>1, <1>2
  <2>2. SourcesBefore(records, k + 1) <= SourcesBefore(records, i) /\ SourcesBefore(records, i) \in Nat
    BY <2>1, SourcesMonotone, SourcesCounted
  <2>3. QED
    BY <1>2, <1>3, <2>2
<1>5. QED
  BY <1>1, <1>2, <1>3, <1>4

LEMMA SourcesDiffer ==
  ASSUME NEW S, NEW records \in Seq(S), WellFormed(records), NEW k, IsSource(records, k),
         NEW l, IsSource(records, l), records[k].index = records[l].index
  PROVE  k = l
<1>1. PICK n \in Nat : n = Len(records) /\ DOMAIN records = 1..n
  BY LenProperties
<1>2. k \in 1..n /\ l \in 1..n /\ records[k].index = SourcesBefore(records, k) /\ records[l].index = SourcesBefore(records, l)
  BY <1>1 DEF WellFormed, IsSource
<1>3. /\ records[k].index \in Nat /\ records[l].index \in Nat
      /\ \A i \in (k + 1)..(n + 1) : records[k].index < SourcesBefore(records, i)
      /\ \A i \in (l + 1)..(n + 1) : records[l].index < SourcesBefore(records, i)
  BY <1>1, SourceNumbered
<1>4. ~(k < l)
  <2>1. SUFFICES ASSUME k < l PROVE FALSE
    OBVIOUS
  <2>2. l \in (k + 1)..(n + 1)
    BY <1>1, <1>2, <2>1
  <2>3. records[k].index < SourcesBefore(records, l)
    BY <1>3, <2>2
  <2>4. SourcesBefore(records, l) < SourcesBefore(records, l)
    BY <1>2, <2>3
  <2>5. SourcesBefore(records, l) \in Nat
    BY <1>2, <1>3
  <2>6. QED
    BY <2>4, <2>5
<1>5. ~(l < k)
  <2>1. SUFFICES ASSUME l < k PROVE FALSE
    OBVIOUS
  <2>2. k \in (l + 1)..(n + 1)
    BY <1>1, <1>2, <2>1
  <2>3. QED
    BY <1>2, <1>3, <2>2
<1>6. QED
  BY <1>2, <1>4, <1>5

(* An index names one source record.                                       *)
LEMMA SourceFound ==
  ASSUME NEW S, NEW file, file.records \in Seq(S), WellFormed(file.records), NEW k, IsSource(file.records, k)
  PROVE  SourceFile(file, file.records[k].index) = file.records[k]
<1>1. PICK r : r = file.records[k]
  OBVIOUS
<1>2. r \in SourceRecords(file.records)
  BY <1>1 DEF IsSource, SourceRecords, OfKind, ToSet
<1>3. ASSUME NEW s \in SourceRecords(file.records), s.index = r.index PROVE s = r
  <2>1. PICK l : IsSource(file.records, l) /\ s = file.records[l]
    BY DEF IsSource, SourceRecords, OfKind, ToSet
  <2>2. l = k
    BY <1>1, <1>3, <2>1, SourcesDiffer
  <2>3. QED
    BY <1>1, <2>1, <2>2
<1>4. SourceFile(file, r.index) = r
  BY <1>2, <1>3 DEF SourceFile
<1>5. QED
  BY <1>1, <1>4

-----------------------------------------------------------------------------
(* Records that go on after others.                                        *)
Extends(records, old) == Len(old) <= Len(records) /\ \A i \in 1..Len(old) : records[i] = old[i]

LEMMA Appended ==
  ASSUME NEW S, NEW records \in Seq(S), NEW e \in S
  PROVE  LET new == Append(records, e) IN
         /\ new \in Seq(S) /\ Len(new) = Len(records) + 1 /\ Len(records) \in Nat /\ new # <<>>
         /\ new[Len(records) + 1] = e /\ \A i \in 1..Len(records) : new[i] = records[i]
         /\ Extends(new, records)
<1>1. PICK new : new = Append(records, e)
  OBVIOUS
<1>2. PICK n \in Nat : n = Len(records)
  BY LenProperties
<1>3. /\ new \in Seq(S) /\ Len(new) = n + 1 /\ new # <<>>
      /\ new[n + 1] = e /\ \A i \in 1..n : new[i] = records[i]
  BY <1>1, <1>2, AppendProperties
<1>4. Extends(new, records)
  BY <1>2, <1>3 DEF Extends
<1>5. QED
  BY <1>1, <1>2, <1>3, <1>4

LEMMA ExtendsTransitive ==
  ASSUME NEW S, NEW a \in Seq(S), NEW b \in Seq(S), NEW c \in Seq(S), Extends(b, a), Extends(c, b)
  PROVE  Extends(c, a)
<1>1. Len(a) \in Nat /\ Len(b) \in Nat /\ Len(c) \in Nat
  BY LenProperties
<1>2. Len(a) <= Len(b) /\ Len(b) <= Len(c) /\ \A i \in 1..Len(a) : i \in 1..Len(b)
  BY <1>1 DEF Extends
<1>3. QED
  BY <1>1, <1>2 DEF Extends

LEMMA AppendedWellFormed ==
  ASSUME NEW S, NEW records \in Seq(S), WellFormed(records), NoLibrary(records), records # <<>>, NEW e \in S,
         \/ e.kind = "source" /\ e.index = SourceCount(records)
         \/ e.kind = "shader" /\ \A j \in DOMAIN e.files : e.files[j] < SourceCount(records)
         \/ e.kind = "library"
  PROVE  WellFormed(Append(records, e))
<1>1. PICK n \in Nat : n = Len(records) /\ DOMAIN records = 1..n
  BY LenProperties
<1>2. n # 0
  BY <1>1, EmptySeq
<1> DEFINE new == Append(records, e)
<1>3. new \in Seq(S) /\ Len(new) = n + 1 /\ new[n + 1] = e /\ \A i \in 1..n : new[i] = records[i]
  BY <1>1, Appended
<1> HIDE DEF new
<1>4. DOMAIN new = 1..(n + 1)
  BY <1>3, LenProperties
<1>5. ASSUME NEW i \in 1..(n + 1) PROVE SourcesBefore(new, i) = SourcesBefore(records, i)
  <2>1. i \in Nat \ {0} /\ \A j \in 1..(i - 1) : new[j] = records[j]
    BY <1>1, <1>3
  <2>2. QED
    BY <2>1, SourcesAgree
<1>6. ASSUME NEW i \in 1..n
      PROVE  /\ i = 1 <=> new[i].kind = "manifest"
             /\ new[i].kind = "source" => new[i].index = SourcesBefore(new, i)
             /\ new[i].kind = "shader" => \A j \in DOMAIN new[i].files : new[i].files[j] < SourcesBefore(new, i)
             /\ new[i].kind = "library" => i = n + 1
  <2>1. i \in 1..(n + 1) /\ new[i] = records[i] /\ records[i].kind # "library"
    BY <1>1, <1>3 DEF NoLibrary
  <2>2. SourcesBefore(new, i) = SourcesBefore(records, i)
    BY <1>5, <2>1
  <2>3. /\ i = 1 <=> records[i].kind = "manifest"
        /\ records[i].kind = "source" => records[i].index = SourcesBefore(records, i)
        /\ records[i].kind = "shader" => \A j \in DOMAIN records[i].files : records[i].files[j] < SourcesBefore(records, i)
    BY <1>1 DEF WellFormed
  <2>4. QED
    BY <2>1, <2>2, <2>3
<1>7. SourcesBefore(new, n + 1) = SourceCount(records)
  BY <1>1, <1>5 DEF SourceCount
<1>8. /\ n + 1 # 1 /\ e.kind # "manifest"
      /\ e.kind = "source" => e.index = SourcesBefore(new, n + 1)
      /\ e.kind = "shader" => \A j \in DOMAIN e.files : e.files[j] < SourcesBefore(new, n + 1)
  BY <1>1, <1>2, <1>7
<1>9. \A i \in 1..(n + 1) : i \in 1..n \/ i = n + 1
  BY <1>1
<1>10. WellFormed(new)
  BY <1>3, <1>4, <1>6, <1>8, <1>9 DEF WellFormed
<1>11. QED
  BY <1>10 DEF new

LEMMA StillTracked ==
  ASSUME NEW S, NEW records \in Seq(S), NEW old \in Seq(S), Extends(records, old), NEW p, IsTracked(old, p)
  PROVE  IsTracked(records, p)
<1>1. /\ Len(records) \in Nat /\ DOMAIN records = 1..Len(records)
      /\ Len(old) \in Nat /\ DOMAIN old = 1..Len(old)
  BY LenProperties
<1>2. PICK k \in DOMAIN old : old[k].kind = "source" /\ old[k].path = p
  BY DEF IsTracked, SourceRecords, OfKind, ToSet
<1>3. k \in DOMAIN records /\ records[k] = old[k]
  BY <1>1, <1>2 DEF Extends
<1>4. QED
  BY <1>2, <1>3 DEF IsTracked, SourceRecords, OfKind, ToSet

(* What recording a source file leaves: records that can be loaded, and    *)
(* that name it.                                                           *)
Loadable(records) == records \in Seq(Record) /\ WellFormed(records) /\ NoLibrary(records) /\ records # <<>>
NewSources(records, old, times) ==
  \A i \in (Len(old) + 1)..Len(records) :
    records[i].kind = "source" /\ records[i].modTime = times[records[i].path]

LEMMA SourceRecorded ==
  ASSUME NEW records, Loadable(records), NEW p \in SourceFiles, NEW times, times[p] \in FileTime
  PROVE  LET new == TrackSource(times, records, p) IN
         Loadable(new) /\ Extends(new, records) /\ NewSources(new, records, times) /\ IsTracked(new, p)
<1>1. PICK new : new = TrackSource(times, records, p)
  OBVIOUS
<1>2. PICK n \in Nat : n = Len(records) /\ DOMAIN records = 1..n
  BY LenProperties DEF Loadable
<1>3. CASE IsTracked(records, p)
  <2>1. new = records
    BY <1>1, <1>3 DEF TrackSource
  <2>2. Extends(records, records) /\ NewSources(records, records, times)
    BY <1>2 DEF Extends, NewSources
  <2>3. QED
    BY <1>1, <1>3, <2>1, <2>2
<1>4. CASE ~IsTracked(records, p)
  <2> DEFINE e == [kind |-> "source", index |-> SourceCount(records), path |-> p, modTime |-> times[p]]
  <2>1. SourceCount(records) \in Nat
    <3>1. n + 1 \in Nat \ {0}
      OBVIOUS
    <3>2. QED
      BY <1>2, <3>1, SourcesCounted DEF SourceCount
  <2>2. e \in Record
    BY <2>1 DEF Record
  <2>3. e.kind = "source" /\ e.index = SourceCount(records) /\ e.path = p /\ e.modTime = times[p]
    OBVIOUS
  <2>4. new = Append(records, e)
    BY <1>1, <1>4 DEF TrackSource
  <2> HIDE DEF e
  <2>5. /\ new \in Seq(Record) /\ Len(new) = n + 1 /\ new # <<>> /\ Extends(new, records)
        /\ new[n + 1] = e /\ \A i \in 1..n : new[i] = records[i]
    BY <1>2, <2>2, <2>4, Appended DEF Loadable
  <2>6. DOMAIN new = 1..(n + 1)
    BY <2>5, LenProperties
  <2>7. WellFormed(new)
    BY <2>2, <2>3, <2>4, AppendedWellFormed DEF Loadable
  <2>8. NoLibrary(new)
    <3>1. \A i \in 1..(n + 1) : i \in 1..n \/ i = n + 1
      BY <1>2
    <3>2. \A i \in 1..n : records[i].kind # "library"
      BY <1>2 DEF Loadable, NoLibrary
    <3>3. QED
      BY <2>3, <2>5, <2>6, <3>1, <3>2 DEF NoLibrary
  <2>9. NewSources(new, records, times)
    <3>1. \A i \in (n + 1)..(n + 1) : i = n + 1
      BY <1>2
    <3>2. QED
      BY <1>2, <2>3, <2>5, <3>1 DEF NewSources
  <2>10. IsTracked(new, p)
    <3>1. n + 1 \in DOMAIN new
      BY <1>2, <2>6
    <3>2. QED
      BY <2>3, <2>5, <3>1 DEF IsTracked, SourceRecords, OfKind, ToSet
  <2>11. QED
    BY <1>1, <2>5, <2>7, <2>8, <2>9, <2>10 DEF Loadable
<1>5. QED
  BY <1>3, <1>4

LEMMA NewSourcesAdd ==
  ASSUME NEW a, Loadable(a), NEW b, Loadable(b), NEW c, Loadable(c), NEW times,
         Extends(b, a), NewSources(b, a, times), Extends(c, b), NewSources(c, b, times)
  PROVE  Extends(c, a) /\ NewSources(c, a, times)
<1>1. Len(a) \in Nat /\ Len(b) \in Nat /\ Len(c) \in Nat
  BY LenProperties DEF Loadable
<1>2. Extends(c, a)
  BY ExtendsTransitive DEF Loadable
<1>3. ASSUME NEW i \in (Len(a) + 1)..Len(c)
      PROVE  c[i].kind = "source" /\ c[i].modTime = times[c[i].path]
  <2>1. CASE i <= Len(b)
    <3>1. i \in 1..Len(b) /\ i \in (Len(a) + 1)..Len(b)
      BY <1>1, <2>1
    <3>2. QED
      BY <3>1 DEF Extends, NewSources
  <2>2. CASE ~(i <= Len(b))
    <3>1. i \in (Len(b) + 1)..Len(c)
      BY <1>1, <2>2
    <3>2. QED
      BY <3>1 DEF NewSources
  <2>3. QED
    BY <2>1, <2>2
<1>4. QED
  BY <1>2, <1>3 DEF NewSources

LEMMA SourcesRecorded ==
  ASSUME NEW records, Loadable(records), NEW paths \in Seq(SourceFiles), NEW times,
         \A i \in 1..Len(paths) : times[paths[i]] \in FileTime
  PROVE  LET new == Tracked(records, paths, times) IN
         /\ Loadable(new) /\ Extends(new, records) /\ NewSources(new, records, times)
         /\ \A i \in 1..Len(paths) : IsTracked(new, paths[i])
<1>1. PICK n \in Nat : n = Len(paths) /\ DOMAIN paths = 1..n
  BY LenProperties
<1>2. PICK acc : /\ acc[0] = records
                 /\ \A k \in 1..n : acc[k] = TrackSource(times, acc[k - 1], paths[k])
                 /\ Tracked(records, paths, times) = acc[n]
  BY <1>1, TrackFold
<1> DEFINE Good(q, k) == /\ Loadable(q) /\ Extends(q, records) /\ NewSources(q, records, times)
                         /\ \A i \in 1..k : IsTracked(q, paths[i])
           G == {k \in 0..n : Good(acc[k], k)}
<1>3. 0 \in G
  <2>1. Len(records) \in Nat
    BY LenProperties DEF Loadable
  <2>2. Extends(records, records) /\ NewSources(records, records, times)
    BY <2>1 DEF Extends, NewSources
  <2>3. Good(records, 0)
    BY <2>2
  <2> HIDE DEF Good
  <2>4. QED
    BY <1>1, <1>2, <2>3
<1>4. ASSUME NEW k \in 0..(n - 1), k \in G PROVE k + 1 \in G
  <2>1. k + 1 \in 1..n /\ (k + 1) - 1 = k /\ k + 1 \in 0..n /\ \A i \in 1..(k + 1) : i \in 1..k \/ i = k + 1
    BY <1>1
  <2>2. PICK q, new, p : q = acc[k] /\ new = acc[k + 1] /\ p = paths[k + 1]
    OBVIOUS
  <2>3. Good(q, k)
    BY <1>4, <2>2
  <2>4. new = TrackSource(times, q, p) /\ p \in SourceFiles /\ times[p] \in FileTime
    BY <1>1, <1>2, <2>1, <2>2, ElementOfSeq
  <2>5. Loadable(new) /\ Extends(new, q) /\ NewSources(new, q, times) /\ IsTracked(new, p)
    BY <2>3, <2>4, SourceRecorded
  <2>6. Extends(new, records) /\ NewSources(new, records, times)
    BY <2>3, <2>5, NewSourcesAdd
  <2>7. \A i \in 1..k : IsTracked(new, paths[i])
    BY <2>3, <2>5, StillTracked DEF Loadable
  <2>8. Good(new, k + 1)
    BY <2>1, <2>2, <2>5, <2>6, <2>7
  <2> HIDE DEF Good
  <2>9. QED
    BY <2>1, <2>2, <2>8
<1>5. n \in G
  <2> HIDE DEF G
  <2>1. QED
    BY <1>1, <1>3, <1>4, UpTo
<1>6. Good(acc[n], n)
  BY <1>5
<1>7. QED
  BY <1>1, <1>2, <1>6

LEMMA IndexFound ==
  ASSUME NEW records, NEW p, IsTracked(records, p)
  PROVE  \E k : IsSource(records, k) /\ records[k].path = p /\ IndexIn(records, p) = records[k]
<1>1. PICK r : r = IndexIn(records, p)
  OBVIOUS
<1>2. r \in SourceRecords(records) /\ r.path = p
  BY <1>1 DEF IsTracked, IndexIn
<1>3. PICK k \in DOMAIN records : records[k] = r /\ r.kind = "source"
  BY <1>2 DEF SourceRecords, OfKind, ToSet
<1>4. QED
  BY <1>1, <1>2, <1>3 DEF IsSource

LEMMA FilesListed ==
  ASSUME NEW records, Loadable(records), NEW paths \in Seq(SourceFiles),
         \A i \in 1..Len(paths) : IsTracked(records, paths[i])
  PROVE  LET files == [i \in DOMAIN ListedFiles(paths) |-> IndexIn(records, ListedFiles(paths)[i]).index] IN
         /\ files \in Seq(Nat)
         /\ \A j \in DOMAIN files : files[j] < SourceCount(records)
         /\ files # <<>> =>
              \A i \in 1..Len(paths) :
                \E k : /\ IsSource(records, k) /\ records[k].path = paths[i]
                       /\ \E j \in DOMAIN files : files[j] = records[k].index
<1>1. PICK listed : listed = ListedFiles(paths)
  OBVIOUS
<1>2. /\ listed \in Seq(SourceFiles)
      /\ listed = <<>> \/ Elements(listed) = FirstElements(paths, Len(paths))
  BY <1>1, DistinctFacts, EmptySeq DEF ListedFiles
<1>3. PICK n \in Nat : n = Len(listed) /\ DOMAIN listed = 1..n
  BY <1>2, LenProperties
<1>4. ASSUME NEW i \in 1..n PROVE IsTracked(records, listed[i])
  <2>1. listed # <<>> /\ listed[i] \in Elements(listed)
    BY <1>3, EmptySeq DEF Elements
  <2>2. PICK l \in 1..Len(paths) : listed[i] = paths[l]
    BY <1>2, <2>1 DEF FirstElements
  <2>3. QED
    BY <2>2
<1> DEFINE files == [i \in 1..n |-> IndexIn(records, listed[i]).index]
<1>5. ASSUME NEW i \in 1..n
      PROVE  \E k : /\ IsSource(records, k) /\ records[k].path = listed[i] /\ files[i] = records[k].index
                    /\ files[i] \in Nat /\ files[i] < SourceCount(records)
  <2>1. PICK k : IsSource(records, k) /\ records[k].path = listed[i] /\ IndexIn(records, listed[i]) = records[k]
    BY <1>4, IndexFound
  <2>2. /\ records[k].index \in Nat
        /\ \A m \in (k + 1)..(Len(records) + 1) : records[k].index < SourcesBefore(records, m)
    BY <2>1, SourceNumbered DEF Loadable
  <2>3. Len(records) + 1 \in (k + 1)..(Len(records) + 1)
    <3>1. Len(records) \in Nat /\ k \in 1..Len(records)
      BY <2>1, LenProperties DEF Loadable, IsSource
    <3>2. QED
      BY <3>1
  <2>4. records[k].index < SourceCount(records)
    BY <2>2, <2>3 DEF SourceCount
  <2>5. QED
    BY <2>1, <2>2, <2>4
<1>6. files \in [1..n -> Nat] /\ DOMAIN files = 1..n /\ \A j \in 1..n : files[j] < SourceCount(records)
  <2>1. DOMAIN files = 1..n
    OBVIOUS
  <2>2. \A i \in 1..n : files[i] \in Nat /\ files[i] < SourceCount(records)
    BY <1>5
  <2>3. QED
    BY <2>1, <2>2
<1>7. files \in Seq(Nat)
  BY <1>3, <1>6, SeqDef
<1>8. ASSUME files # <<>>, NEW i \in 1..Len(paths)
      PROVE  \E k : /\ IsSource(records, k) /\ records[k].path = paths[i]
                    /\ \E j \in DOMAIN files : files[j] = records[k].index
  <2>1. listed # <<>>
    <3>1. SUFFICES ASSUME listed = <<>> PROVE files = <<>>
      BY <1>8
    <3>2. n = 0
      BY <1>3, <3>1
    <3>3. DOMAIN files = {}
      BY <1>6, <3>2
    <3>4. Len(files) = 0
      <4>1. Len(files) \in Nat /\ DOMAIN files = 1..Len(files)
        BY <1>7, LenProperties
      <4>2. QED
        BY <3>3, <4>1
    <3>5. QED
      BY <1>7, <3>4, EmptySeq
  <2>2. paths[i] \in Elements(listed)
    BY <1>2, <2>1 DEF FirstElements
  <2>3. PICK j \in 1..n : listed[j] = paths[i]
    BY <1>3, <2>2 DEF Elements
  <2>4. PICK k : IsSource(records, k) /\ records[k].path = listed[j] /\ files[j] = records[k].index
    BY <1>5
  <2>5. QED
    BY <1>6, <2>3, <2>4
<1>9. files = [i \in DOMAIN ListedFiles(paths) |-> IndexIn(records, ListedFiles(paths)[i]).index]
  BY <1>1, <1>3
<1> HIDE DEF files
<1>10. QED
  BY <1>6, <1>7, <1>8, <1>9

(* What Writer::addShader leaves: records that can be loaded, the sources  *)
(* it needed with their times, and the shader with all its files, or none. *)
NewShader(record, shader, blobModTime) ==
  /\ record.kind = "shader" /\ record.name = shader.name /\ record.blobModTime = blobModTime
  /\ record.layoutName = Low32(shader.layoutXSH) /\ record.layoutHash = shader.layout.sourceHash
  /\ record.type = shader.type /\ record.entry = shader.entry

Added(all, records, shader, paths, times, blobModTime) ==
  LET n == Len(all) IN
  /\ Loadable(all) /\ Extends(all, records) /\ n \in Nat /\ Len(records) < n
  /\ NewShader(all[n], shader, blobModTime)
  /\ \A i \in (Len(records) + 1)..(n - 1) : all[i].kind = "source" /\ all[i].modTime = times[all[i].path]
  /\ \A i \in 1..Len(paths) :
       \E k \in 1..(n - 1) : IsSource(all, k) /\ all[k].path = paths[i]
  /\ all[n].files # <<>> =>
       \A i \in 1..Len(paths) :
         \E k \in 1..(n - 1) : /\ IsSource(all, k) /\ all[k].path = paths[i]
                               /\ \E j \in DOMAIN all[n].files : all[n].files[j] = all[k].index

LEMMA ShaderAdded ==
  ASSUME NEW records, Loadable(records), NEW shader \in DeclaredShaders, NEW paths \in Seq(SourceFiles), NEW times,
         \A i \in 1..Len(paths) : times[paths[i]] \in FileTime, NEW blobModTime \in Nat
  PROVE  Added(AddShader(records, shader, paths, times, blobModTime), records, shader, paths, times, blobModTime)
<1>1. PICK tracked : tracked = Tracked(records, paths, times)
  OBVIOUS
<1>2. /\ Loadable(tracked) /\ Extends(tracked, records) /\ NewSources(tracked, records, times)
      /\ \A i \in 1..Len(paths) : IsTracked(tracked, paths[i])
  BY <1>1, SourcesRecorded
<1>3. PICK files : files = [i \in DOMAIN ListedFiles(paths) |-> IndexIn(tracked, ListedFiles(paths)[i]).index]
  OBVIOUS
<1>4. /\ files \in Seq(Nat) /\ \A j \in DOMAIN files : files[j] < SourceCount(tracked)
      /\ files # <<>> =>
           \A i \in 1..Len(paths) :
             \E k : /\ IsSource(tracked, k) /\ tracked[k].path = paths[i]
                    /\ \E j \in DOMAIN files : files[j] = tracked[k].index
  BY <1>2, <1>3, FilesListed
<1> DEFINE e == [kind |-> "shader", name |-> shader.name, layoutName |-> shader.layoutXSH[1],
                 layoutHash |-> shader.layout.sourceHash, type |-> shader.type, entry |-> shader.entry,
                 blobModTime |-> blobModTime, files |-> files]
           all == AddShader(records, shader, paths, times, blobModTime)
<1>5. all = Append(tracked, e)
  BY <1>1, <1>3 DEF AddShader
<1>6. NewShader(e, shader, blobModTime) /\ e.files = files /\ e.kind = "shader"
  BY DEF NewShader, Low32
<1>7. e \in Record
  <2>1. shader.name \in ShaderNames
    BY DEF ShaderNames
  <2>2. QED
    BY <1>4, <2>1 DEF Record
<1> HIDE DEF e, all
<1>8. PICK m \in Nat : m = Len(tracked) /\ DOMAIN tracked = 1..m
  BY <1>2, LenProperties DEF Loadable
<1>9. /\ all \in Seq(Record) /\ Len(all) = m + 1 /\ all # <<>> /\ all[m + 1] = e
      /\ \A i \in 1..m : all[i] = tracked[i]
      /\ Extends(all, tracked)
  BY <1>2, <1>5, <1>7, <1>8, Appended DEF Loadable
<1>10. DOMAIN all = 1..(m + 1) /\ \A i \in 1..(m + 1) : i \in 1..m \/ i = m + 1
  BY <1>8, <1>9, LenProperties
<1>11. WellFormed(all)
  BY <1>2, <1>4, <1>5, <1>6, <1>7, AppendedWellFormed DEF Loadable
<1>12. NoLibrary(all)
  <2>1. \A i \in 1..m : tracked[i].kind # "library"
    BY <1>2, <1>8 DEF Loadable, NoLibrary
  <2>2. QED
    BY <1>6, <1>9, <1>10, <2>1 DEF NoLibrary
<1>13. Extends(all, records) /\ Len(records) <= m /\ Len(records) \in Nat
  <2>1. Extends(all, records)
    BY <1>2, <1>9, ExtendsTransitive DEF Loadable
  <2>2. QED
    BY <1>2, <1>8, <2>1, LenProperties DEF Extends, Loadable
<1>14. ASSUME NEW i \in (Len(records) + 1)..m PROVE all[i].kind = "source" /\ all[i].modTime = times[all[i].path]
  <2>1. i \in 1..m /\ i \in (Len(records) + 1)..Len(tracked)
    BY <1>8, <1>13
  <2>2. QED
    BY <1>2, <1>9, <2>1 DEF NewSources
<1>15. ASSUME NEW k, IsSource(tracked, k) PROVE k \in 1..m /\ IsSource(all, k) /\ all[k] = tracked[k]
  BY <1>8, <1>9, <1>10, <1>15 DEF IsSource
<1>16. ASSUME NEW i \in 1..Len(paths) PROVE \E k \in 1..m : IsSource(all, k) /\ all[k].path = paths[i]
  <2>1. PICK k : IsSource(tracked, k) /\ tracked[k].path = paths[i]
    BY <1>2, IndexFound
  <2>2. QED
    BY <1>15, <2>1
<1>17. ASSUME files # <<>>, NEW i \in 1..Len(paths)
       PROVE  \E k \in 1..m : /\ IsSource(all, k) /\ all[k].path = paths[i]
                              /\ \E j \in DOMAIN files : files[j] = all[k].index
  <2>1. PICK k : IsSource(tracked, k) /\ tracked[k].path = paths[i] /\ \E j \in DOMAIN files : files[j] = tracked[k].index
    BY <1>4, <1>17
  <2>2. QED
    BY <1>15, <2>1
<1>18. PICK n \in Nat : n = m + 1 /\ n - 1 = m /\ Len(records) < n
  BY <1>8, <1>13
<1>19. /\ Loadable(all) /\ Extends(all, records) /\ Len(all) = n /\ NewShader(all[n], shader, blobModTime) /\ all[n].files = files
  BY <1>6, <1>9, <1>11, <1>12, <1>13, <1>18 DEF Loadable
<1>20. Added(all, records, shader, paths, times, blobModTime)
  BY <1>14, <1>16, <1>17, <1>18, <1>19 DEF Added
<1>21. QED
  BY <1>20 DEF all

-----------------------------------------------------------------------------
(* What is said of records stays true of more of them, or of fewer.        *)
LEMMA StillTracks ==
  ASSUME NEW S, NEW records \in Seq(S), NEW old \in Seq(S), Extends(records, old),
         NEW v, NEW k, Tracks(old, v, k)
  PROVE  Tracks(records, v, k)
<1>1. /\ Len(records) \in Nat /\ DOMAIN records = 1..Len(records)
      /\ Len(old) \in Nat /\ DOMAIN old = 1..Len(old)
  BY LenProperties
<1>2. k \in DOMAIN records /\ records[k] = old[k]
  BY <1>1 DEF Extends, Tracks, IsSource
<1>3. QED
  BY <1>2 DEF Tracks, IsSource

LEMMA EntryStillSound ==
  ASSUME NEW S, NEW records \in Seq(S), NEW old \in Seq(S), Extends(records, old),
         NEW s, NEW built, NEW unknown, EntrySound(old, s, built, unknown)
  PROVE  EntrySound(records, s, built, unknown)
<1>1. \A v, k : Tracks(old, v, k) => Tracks(records, v, k)
  BY StillTracks
<1>2. DOMAIN old \subseteq DOMAIN records
  <2>1. /\ Len(records) \in Nat /\ DOMAIN records = 1..Len(records)
        /\ Len(old) \in Nat /\ DOMAIN old = 1..Len(old)
    BY LenProperties
  <2>2. QED
    BY <2>1 DEF Extends
<1>3. QED
  BY <1>1, <1>2 DEF EntrySound

LEMMA ContentStillSound ==
  ASSUME NEW S, NEW records \in Seq(S), NEW old \in Seq(S), old # <<>>, Extends(records, old),
         NEW content, NEW unknown, ContentSound(content, old, unknown)
  PROVE  ContentSound(content, records, unknown)
<1>1. records[1] = old[1]
  <2>1. Len(old) \in Nat \ {0}
    BY EmptySeq
  <2>2. 1 \in 1..Len(old)
    BY <2>1
  <2>3. QED
    BY <2>2 DEF Extends
<1>2. \A s, built : EntrySound(old, s, built, unknown) => EntrySound(records, s, built, unknown)
  BY EntryStillSound
<1>3. QED
  BY <1>1, <1>2 DEF ContentSound

LEMMA MoreBlobsSound ==
  ASSUME NEW S, NEW records \in Seq(S), NEW old \in Seq(S), Extends(records, old),
         NEW files, BlobsSound(files, old),
         \A i \in (Len(old) + 1)..Len(records) : RecordSound(files, records, i)
  PROVE  BlobsSound(files, records)
<1>1. PICK n \in Nat : n = Len(records) /\ DOMAIN records = 1..n
  BY LenProperties
<1>2. PICK m \in Nat : m = Len(old) /\ DOMAIN old = 1..m
  BY LenProperties
<1>3. m <= n /\ \A i \in 1..m : records[i] = old[i]
  BY <1>1, <1>2 DEF Extends
<1>4. ASSUME NEW i \in 1..m PROVE RecordSound(files, records, i)
  <2>1. i \in 1..n /\ records[i] = old[i]
    BY <1>1, <1>2, <1>3
  <2>2. RecordSound(files, old, i)
    BY <1>2 DEF BlobsSound
  <2>3. IsShader(records, i) => IsShader(old, i)
    BY <1>2, <2>1 DEF IsShader
  <2>4. ASSUME NEW versions, Covers(old, i, versions) PROVE Covers(records, i, versions)
    <3>1. \A v, k : Tracks(old, v, k) => Tracks(records, v, k)
      BY StillTracks
    <3>2. \A k \in 1..(i - 1) : records[k] = old[k]
      BY <1>2, <1>3
    <3>3. QED
      BY <2>1, <2>4, <3>1, <3>2 DEF Covers
  <2>5. QED
    BY <2>1, <2>2, <2>3, <2>4 DEF RecordSound
<1>5. \A i \in 1..n : i \in 1..m \/ i \in (m + 1)..n
  BY <1>1, <1>2, <1>3
<1>6. QED
  BY <1>1, <1>2, <1>4, <1>5 DEF BlobsSound

(* Records whose blob got another time, or was misdated, are none to       *)
(* worry about.                                                            *)
LEMMA ReplacedBlobsSound ==
  ASSUME NEW records \in Seq(Record), NEW files, BlobsSound(files, records), NEW new, NEW name,
         \A other \in ShaderNames : other # name => new[other] = files[other],
         \A i \in DOMAIN records :
           IsShader(records, i) /\ records[i].name = name =>
             \/ new[name].modTime # records[i].blobModTime
             \/ new[name].content = None \/ new[name].content.misdated
  PROVE  BlobsSound(new, records)
<1>1. ASSUME NEW i \in DOMAIN records PROVE RecordSound(new, records, i)
  <2>1. RecordSound(files, records, i)
    BY DEF BlobsSound
  <2>2. records[i].kind = "shader" => records[i].name \in ShaderNames
    <3>1. records[i] \in Record
      OBVIOUS
    <3>2. QED
      BY <3>1 DEF Record
  <2>3. QED
    BY <2>1, <2>2 DEF RecordSound, HasBlob, IsShader
<1>2. QED
  BY <1>1 DEF BlobsSound

-----------------------------------------------------------------------------
(* The blob of a shader, made of files with the times recorded for them.   *)
Made(blob, shader, paths, times) ==
  /\ blob.whole /\ blob.type = shader.type /\ blob.entry = shader.entry
  /\ Low32(blob.layoutXSH) = Low32(shader.layoutXSH)
  /\ \A v \in blob.versions : \E i \in 1..Len(paths) : paths[i] = v[1] /\ times[v[1]] <= v[2]

Deserved(built, shader, paths, times) ==
  \/ built.reused /\ built.blob.misdated
  \/ /\ Made(built.blob, shader, paths, times)
     /\ ~built.reused => built.blob.layoutXSH = shader.layoutXSH /\ built.blob.layout = shader.layout

AddedSound(all, records, shader, paths, times, blobModTime) ==
  /\ Loadable(all) /\ Extends(all, records) /\ ~IsComplete(all)
  /\ \A k \in DOMAIN all : IsSource(all, k) => all[k].modTime = times[all[k].path]
  /\ \A files : BlobsSound(files, records) =>
       LET file == files[shader.name] IN
       (file.content # None /\ file.modTime = blobModTime =>
          file.content.misdated \/ Made(file.content, shader, paths, times))
       => BlobsSound(files, all)
  /\ \A built : Deserved(built, shader, paths, times) => EntrySound(all, shader, built, {})

LEMMA ShaderAddedSound ==
  ASSUME NEW records, Loadable(records), NEW shader \in DeclaredShaders, NEW paths \in Seq(SourceFiles), NEW times,
         \A i \in 1..Len(paths) : times[paths[i]] \in FileTime, NEW blobModTime \in Nat,
         \A k \in DOMAIN records : IsSource(records, k) => records[k].modTime = times[records[k].path],
         NEW all, all = AddShader(records, shader, paths, times, blobModTime)
  PROVE  AddedSound(all, records, shader, paths, times, blobModTime)
<1> DEFINE n == Len(all)
<1>1. n = Len(all) /\ Added(all, records, shader, paths, times, blobModTime)
  BY ShaderAdded
<1>2. /\ Loadable(all) /\ Extends(all, records) /\ n \in Nat /\ Len(records) < n
      /\ NewShader(all[n], shader, blobModTime)
      /\ \A i \in (Len(records) + 1)..(n - 1) : all[i].kind = "source" /\ all[i].modTime = times[all[i].path]
      /\ \A i \in 1..Len(paths) :
           \E k \in 1..(n - 1) : IsSource(all, k) /\ all[k].path = paths[i]
      /\ all[n].files # <<>> =>
           \A i \in 1..Len(paths) :
             \E k \in 1..(n - 1) : /\ IsSource(all, k) /\ all[k].path = paths[i]
                                   /\ \E j \in DOMAIN all[n].files : all[n].files[j] = all[k].index
  BY <1>1 DEF Added
<1> HIDE DEF n
<1>3. PICK m \in Nat : m = Len(records) /\ DOMAIN records = 1..m /\ m < n
  BY <1>2, LenProperties DEF Loadable
<1>4. DOMAIN all = 1..n /\ \A i \in 1..n : i \in 1..m \/ i \in (m + 1)..(n - 1) \/ i = n
  BY <1>1, <1>2, <1>3, LenProperties DEF Loadable
<1>5. \A i \in 1..m : all[i] = records[i]
  BY <1>2, <1>3 DEF Extends
<1>6. all[n].kind = "shader" /\ n \in 1..n
  BY <1>2, <1>3 DEF NewShader
<1>7. ~IsComplete(all)
  BY <1>1, <1>6 DEF IsComplete
<1>8. ASSUME NEW k \in DOMAIN all, IsSource(all, k) PROVE all[k].modTime = times[all[k].path]
  <2>1. CASE k \in 1..m
    <3>1. IsSource(records, k) /\ all[k] = records[k]
      BY <1>3, <1>5, <1>8, <2>1 DEF IsSource
    <3>2. QED
      BY <1>3, <2>1, <3>1
  <2>2. CASE k \in (m + 1)..(n - 1)
    BY <1>2, <1>3, <2>2
  <2>3. k # n
    BY <1>6, <1>8 DEF IsSource
  <2>4. QED
    BY <1>4, <2>1, <2>2, <2>3
<1>9. ASSUME NEW blob, Made(blob, shader, paths, times), NEW v \in blob.versions
      PROVE  /\ \E k \in DOMAIN all : Tracks(all, v, k)
             /\ all[n].files # <<>> =>
                  \E k \in 1..(n - 1) : Tracks(all, v, k) /\ \E j \in DOMAIN all[n].files : all[n].files[j] = all[k].index
  <2>1. PICK i \in 1..Len(paths) : paths[i] = v[1] /\ times[v[1]] <= v[2]
    BY <1>9 DEF Made
  <2>2. ASSUME NEW k, IsSource(all, k), all[k].path = paths[i] PROVE Tracks(all, v, k) /\ k \in DOMAIN all
    <3>1. k \in DOMAIN all /\ all[k].modTime = times[v[1]]
      BY <1>8, <2>1, <2>2 DEF IsSource
    <3>2. QED
      BY <2>1, <2>2, <3>1 DEF Tracks
  <2>3. QED
    BY <1>2, <2>2
<1>10. ASSUME NEW files, BlobsSound(files, records),
              files[shader.name].content # None /\ files[shader.name].modTime = blobModTime =>
                files[shader.name].content.misdated \/ Made(files[shader.name].content, shader, paths, times)
       PROVE  BlobsSound(files, all)
  <2>1. PICK blob : blob = files[shader.name].content
    OBVIOUS
  <2>2. ASSUME HasBlob(files, all[n]), ~blob.misdated PROVE Describes(all[n], blob) /\ Covers(all, n, blob.versions)
    <3>1. /\ files[shader.name].content # None /\ files[shader.name].modTime = blobModTime
          /\ all[n].files # <<>> /\ all[n].layoutName = Low32(shader.layoutXSH)
          /\ all[n].type = shader.type /\ all[n].entry = shader.entry
      BY <1>2, <2>2 DEF HasBlob, NewShader
    <3>2. Made(blob, shader, paths, times)
      BY <1>10, <2>1, <2>2, <3>1
    <3>3. Describes(all[n], blob)
      BY <3>1, <3>2 DEF Made, Describes
    <3>4. Covers(all, n, blob.versions)
      BY <1>9, <3>1, <3>2 DEF Covers
    <3>5. QED
      BY <3>3, <3>4
  <2>3. RecordSound(files, all, n)
    <3>1. all[n].name = shader.name
      BY <1>2 DEF NewShader
    <3>2. QED
      BY <2>1, <2>2, <3>1 DEF RecordSound
  <2>4. ASSUME NEW i \in (m + 1)..n PROVE RecordSound(files, all, i)
    <3>1. i = n \/ i \in (m + 1)..(n - 1)
      BY <1>2, <1>3
    <3>2. i \in (m + 1)..(n - 1) => all[i].kind = "source"
      BY <1>2, <1>3
    <3>3. QED
      BY <2>3, <3>1, <3>2 DEF RecordSound, IsShader
  <2>5. QED
    BY <1>1, <1>2, <1>3, <1>10, <2>4, MoreBlobsSound DEF Loadable
<1>11. ASSUME NEW built, Deserved(built, shader, paths, times)
       PROVE  EntrySound(all, shader, built, {})
  <2>1. CASE built.reused /\ built.blob.misdated
    BY <2>1 DEF EntrySound
  <2>2. CASE Made(built.blob, shader, paths, times) /\
             (~built.reused => built.blob.layoutXSH = shader.layoutXSH /\ built.blob.layout = shader.layout)
    <3>1. \A v \in built.blob.versions : \E k \in DOMAIN all : Tracks(all, v, k)
      BY <1>9, <2>2
    <3>2. QED
      BY <2>2, <3>1 DEF EntrySound, Made
  <2>3. QED
    BY <1>11, <2>1, <2>2 DEF Deserved
<1>12. QED
  BY <1>2, <1>7, <1>8, <1>10, <1>11 DEF AddedSound

-----------------------------------------------------------------------------
(* Putting records together.                                               *)
Parts(c, a, b) ==
  /\ \A i \in DOMAIN c : (\E j \in DOMAIN a : c[i] = a[j]) \/ (\E j \in DOMAIN b : c[i] = b[j])
  /\ \A j \in DOMAIN a : \E i \in DOMAIN c : c[i] = a[j]
  /\ \A j \in DOMAIN b : \E i \in DOMAIN c : c[i] = b[j]

LEMMA JoinedParts ==
  ASSUME NEW S, NEW a \in Seq(S), NEW b \in Seq(S), NEW c, c = a \o b
  PROVE  c \in Seq(S) /\ Extends(c, a) /\ (b = <<>> => c = a) /\ Parts(c, a, b)
<1>1. PICK m \in Nat : m = Len(a) /\ DOMAIN a = 1..m
  BY LenProperties
<1>2. PICK n \in Nat : n = Len(b) /\ DOMAIN b = 1..n
  BY LenProperties
<1>3. /\ c \in Seq(S) /\ Len(c) = m + n
      /\ \A i \in 1..(m + n) : c[i] = IF i <= m THEN a[i] ELSE b[i - m]
  BY <1>1, <1>2, ConcatProperties
<1>4. b = <<>> => c = a
  BY ConcatEmptySeq
<1>5. DOMAIN c = 1..(m + n)
  BY <1>3, LenProperties
<1>6. \A i \in 1..m : i \in 1..(m + n) /\ c[i] = a[i]
  BY <1>1, <1>2, <1>3
<1>7. Extends(c, a)
  BY <1>1, <1>2, <1>3, <1>6 DEF Extends
<1>8. \A i \in 1..(m + n) : ~(i <= m) => i - m \in 1..n /\ c[i] = b[i - m]
  BY <1>1, <1>2, <1>3
<1>9. \A i \in 1..(m + n) : (\E j \in 1..m : c[i] = a[j]) \/ (\E j \in 1..n : c[i] = b[j])
  <2>1. \A i \in 1..(m + n) : i <= m => i \in 1..m
    BY <1>1, <1>2
  <2>2. QED
    BY <1>6, <1>8, <2>1
<1>10. ASSUME NEW j \in 1..n PROVE j + m \in 1..(m + n) /\ c[j + m] = b[j]
  <2>1. PICK i : i = j + m
    OBVIOUS
  <2>2. i \in 1..(m + n) /\ ~(i <= m) /\ i - m = j
    BY <1>1, <1>2, <2>1
  <2>3. QED
    BY <1>3, <2>1, <2>2
<1>11. \A j \in DOMAIN a : \E i \in DOMAIN c : c[i] = a[j]
  BY <1>1, <1>5, <1>6
<1>12. \A j \in DOMAIN b : \E i \in DOMAIN c : c[i] = b[j]
  BY <1>2, <1>5, <1>10
<1>13. \A i \in DOMAIN c : (\E j \in DOMAIN a : c[i] = a[j]) \/ (\E j \in DOMAIN b : c[i] = b[j])
  BY <1>1, <1>2, <1>5, <1>9
<1>14. Parts(c, a, b)
  BY <1>11, <1>12, <1>13 DEF Parts
<1>15. QED
  BY <1>3, <1>4, <1>7, <1>14

-----------------------------------------------------------------------------
(* What reached the file of the records that were put.                     *)
AreOf(records, all, n) == \A i \in DOMAIN records : \E j \in 1..n : records[i] = all[j]

(* A source is known by its index, and a record only refers to those that  *)
(* come before it in the part as well.                                     *)
LEMMA PartBlobsSound ==
  ASSUME NEW S, NEW all \in Seq(S), WellFormed(all), NEW n \in 0..Len(all),
         NEW records \in Seq(S), WellFormed(records), AreOf(records, all, n),
         \A i \in DOMAIN all : IsShader(all, i) => \A j \in DOMAIN all[i].files : all[i].files[j] \in Nat,
         NEW files, BlobsSound(files, all)
  PROVE  BlobsSound(files, records)
<1>1. PICK l \in Nat : l = Len(all) /\ DOMAIN all = 1..l /\ n \in 0..l
  BY LenProperties
<1>2. PICK m \in Nat : m = Len(records) /\ DOMAIN records = 1..m
  BY LenProperties
<1>3. \A j \in 1..n : j \in 1..l
  BY <1>1
<1>4. ASSUME NEW i \in 1..m PROVE RecordSound(files, records, i)
  <2>1. PICK j \in 1..l : records[i] = all[j]
    BY <1>2, <1>3 DEF AreOf
  <2>2. RecordSound(files, all, j)
    BY <1>1 DEF BlobsSound
  <2>3. IsShader(records, i) => IsShader(all, j)
    BY <1>1, <2>1 DEF IsShader
  <2>4. ASSUME NEW versions, Covers(all, j, versions), IsShader(records, i) PROVE Covers(records, i, versions)
    <3>1. ASSUME NEW v \in versions
          PROVE  \E k \in 1..(i - 1) :
                   Tracks(records, v, k) /\ \E q \in DOMAIN records[i].files : records[i].files[q] = records[k].index
      <4>1. PICK k \in 1..(j - 1) : Tracks(all, v, k) /\ \E q \in DOMAIN all[j].files : all[j].files[q] = all[k].index
        BY <2>4 DEF Covers
      <4>2. PICK q \in DOMAIN all[j].files : all[j].files[q] = all[k].index
        BY <4>1
      <4>3. all[k].index \in Nat
        BY <1>1, <2>3, <2>4, <4>2
      <4>4. all[k].index < SourcesBefore(records, i)
        BY <1>2, <2>1, <2>4, <4>2 DEF WellFormed, IsShader
      <4>5. PICK h \in 1..(i - 1) : IsSource(records, h) /\ records[h].index = all[k].index
        <5>1. i \in 1..(Len(records) + 1)
          BY <1>2
        <5>2. QED
          BY <4>3, <4>4, <5>1, SourceKnown
      <4>6. PICK g \in 1..l : records[h] = all[g]
        BY <1>2, <1>3, <4>5 DEF AreOf, IsSource
      <4>7. IsSource(all, g) /\ IsSource(all, k) /\ all[g].index = all[k].index
        BY <1>1, <4>1, <4>5, <4>6 DEF IsSource, Tracks
      <4>8. g = k
        BY <4>7, SourcesDiffer
      <4>9. Tracks(records, v, h)
        BY <4>1, <4>5, <4>6, <4>8 DEF Tracks
      <4>10. QED
        BY <2>1, <4>2, <4>5, <4>9
    <3>2. QED
      BY <3>1 DEF Covers
  <2>5. QED
    BY <2>1, <2>2, <2>3, <2>4 DEF RecordSound
<1>5. QED
  BY <1>2, <1>4 DEF BlobsSound

(* A part that ends with the record of the library has no less of the      *)
(* sources than what was lost.                                             *)
LEMMA PartLibrarySound ==
  ASSUME NEW S, NEW all \in Seq(S), WellFormed(all), NEW n \in 0..Len(all),
         NEW file, file.records \in Seq(S), WellFormed(file.records), Holds(file, all, n),
         NEW lib, LibrarySound(lib, all, {})
  PROVE  LibrarySound(lib, file.records, file.missing)
<1>1. PICK l \in Nat : l = Len(all) /\ DOMAIN all = 1..l /\ n \in 0..l
  BY LenProperties
<1>2. PICK records \in Seq(S) : records = file.records
  OBVIOUS
<1>3. PICK m \in Nat : m = Len(records) /\ DOMAIN records = 1..m
  BY LenProperties
<1>4. SUFFICES ASSUME IsComplete(records), lib.content # None, lib.modTime = records[m].modTime
      PROVE  ContentSound(lib.content, records, file.missing)
  BY <1>2, <1>3 DEF LibrarySound
<1>5. m # 0
  BY <1>3, <1>4, EmptySeq DEF IsComplete
<1>6. PICK j \in 1..n : records[m] = all[j]
  BY <1>2, <1>3, <1>5 DEF Holds
<1>7. j = l /\ n = l /\ all # <<>>
  <2>1. j \in 1..l /\ all[j].kind = "library"
    BY <1>1, <1>3, <1>4, <1>6 DEF IsComplete
  <2>2. j = l
    BY <1>1, <2>1 DEF WellFormed
  <2>3. QED
    BY <1>1, <2>1, <2>2, EmptySeq
<1>8. PICK i \in 1..n : records[1] = all[i]
  BY <1>2, <1>3, <1>5 DEF Holds
<1>9. i = 1
  <2>1. records[1].kind = "manifest"
    BY <1>2, <1>3, <1>5 DEF WellFormed
  <2>2. QED
    BY <1>1, <1>7, <1>8, <2>1 DEF WellFormed
<1>10. ContentSound(lib.content, all, {})
  BY <1>1, <1>3, <1>4, <1>6, <1>7 DEF LibrarySound, IsComplete
<1>11. ASSUME NEW v, NEW k \in 1..l, Tracks(all, v, k)
       PROVE  v[1] \in file.missing \/ \E h \in DOMAIN records : Tracks(records, v, h)
  <2>1. IsSource(all, k) /\ all[k].path = v[1] /\ all[k].modTime <= v[2]
    BY <1>11 DEF Tracks
  <2>2. all[k].path \in file.missing \/ HeldBy(file, all[k])
    BY <1>7, <2>1 DEF Holds
  <2>3. ASSUME NEW h \in DOMAIN records, records[h] = all[k] PROVE Tracks(records, v, h)
    BY <2>1, <2>3 DEF Tracks, IsSource
  <2>4. QED
    BY <1>2, <2>1, <2>2, <2>3 DEF HeldBy
<1>12. ASSUME NEW s, NEW built, EntrySound(all, s, built, {}) PROVE EntrySound(records, s, built, file.missing)
  <2>1. CASE built.reused /\ built.blob.misdated
    BY <2>1 DEF EntrySound
  <2>2. CASE ~(built.reused /\ built.blob.misdated)
    <3>1. \A v \in built.blob.versions : \E k \in 1..l : Tracks(all, v, k)
      BY <1>1, <1>12, <2>2 DEF EntrySound
    <3>2. \A v \in built.blob.versions : v[1] \in file.missing \/ \E h \in DOMAIN records : Tracks(records, v, h)
      BY <1>11, <3>1
    <3>3. QED
      BY <1>12, <2>2, <3>2 DEF EntrySound
  <2>3. QED
    BY <2>1, <2>2
<1>13. QED
  BY <1>8, <1>9, <1>10, <1>12 DEF ContentSound

(* A piece of a sequence has the elements from p to q.                     *)
IsPiece(piece, all, p, q) ==
  /\ \A i \in DOMAIN piece : \E j \in p..q : piece[i] = all[j]
  /\ \A j \in p..q : \E i \in DOMAIN piece : piece[i] = all[j]

LEMMA PiecesOf ==
  ASSUME NEW S, NEW all \in Seq(S), NEW p \in Nat \ {0}, NEW q \in 0..Len(all), NEW piece, piece = SubSeq(all, p, q)
  PROVE  piece \in Seq(S) /\ IsPiece(piece, all, p, q)
<1>1. PICK l \in Nat : l = Len(all) /\ q \in 0..l
  BY LenProperties
<1>2. p \in Int /\ q \in Int /\ \A i \in p..q : i \in 1..Len(all)
  BY <1>1
<1>3. \A i \in p..q : all[i] \in S
  BY <1>2, ElementOfSeq
<1>4. /\ piece \in Seq(S)
      /\ Len(piece) = IF p <= q THEN q - p + 1 ELSE 0
      /\ \A i \in 1..(q - p + 1) : piece[i] = all[p + i - 1]
  BY <1>2, <1>3, SubSeqProperties
<1>5. PICK n \in Nat : n = Len(piece) /\ DOMAIN piece = 1..n
  BY <1>4, LenProperties
<1>6. ASSUME NEW i \in 1..n PROVE \E j \in p..q : piece[i] = all[j]
  <2>1. PICK j : j = p + i - 1
    OBVIOUS
  <2>2. j \in p..q /\ i \in 1..(q - p + 1)
    BY <1>1, <1>4, <1>5, <2>1
  <2>3. piece[i] = all[j]
    BY <1>4, <2>1, <2>2
  <2>4. QED
    BY <2>2, <2>3
<1>7. ASSUME NEW j \in p..q PROVE \E i \in 1..n : piece[i] = all[j]
  <2>1. PICK i : i = j - p + 1
    OBVIOUS
  <2>2. i \in 1..n /\ p + i - 1 = j /\ i \in 1..(q - p + 1)
    BY <1>1, <1>4, <1>5, <2>1
  <2>3. QED
    BY <1>4, <2>2
<1>8. QED
  BY <1>4, <1>5, <1>6, <1>7 DEF IsPiece

(* What one more flush leaves of the records put, of which a reader gets   *)
(* to those up to m.                                                       *)
LEMMA PartHeld ==
  ASSUME NEW S, NEW all \in Seq(S), NEW file, file.records \in Seq(S), NEW f \in 0..Len(all), Holds(file, all, f),
         NEW n \in f..Len(all), NEW m \in f..n,
         NEW there \in Seq(S), IsPiece(there, all, f + 1, m), NEW lost, IsPiece(lost, all, m + 1, n),
         NEW new, new.records = file.records \o there, new.missing = file.missing \cup SourcePaths(lost)
  PROVE  new.records \in Seq(S) /\ Holds(new, all, n)
<1>1. PICK l \in Nat : l = Len(all) /\ f \in 0..l /\ n \in f..l /\ m \in f..n
  BY LenProperties
<1>2. new.records \in Seq(S) /\ Parts(new.records, file.records, there)
  BY JoinedParts
<1>3. \A j \in 1..n : j \in 1..f \/ j \in (f + 1)..m \/ j \in (m + 1)..n
  BY <1>1
<1>4. (\A j \in 1..f : j \in 1..n) /\ \A j \in (f + 1)..m : j \in 1..n
  BY <1>1
<1>5. \A i \in DOMAIN new.records : \E j \in 1..n : new.records[i] = all[j]
  <2>1. \A i \in DOMAIN file.records : \E j \in 1..n : file.records[i] = all[j]
    BY <1>4 DEF Holds
  <2>2. \A i \in DOMAIN there : \E j \in 1..n : there[i] = all[j]
    BY <1>4 DEF IsPiece
  <2>3. ASSUME NEW i \in DOMAIN new.records PROVE \E j \in 1..n : new.records[i] = all[j]
    <3>1. \/ \E j \in DOMAIN file.records : new.records[i] = file.records[j]
          \/ \E j \in DOMAIN there : new.records[i] = there[j]
      BY <1>2 DEF Parts
    <3>2. QED
      BY <2>1, <2>2, <3>1
  <2>4. QED
    BY <2>3
<1>6. ASSUME NEW j \in 1..n, IsSource(all, j) PROVE all[j].path \in new.missing \/ HeldBy(new, all[j])
  <2>1. CASE j \in 1..f
    <3>1. all[j].path \in file.missing \/ HeldBy(file, all[j])
      BY <1>6, <2>1 DEF Holds
    <3>2. HeldBy(file, all[j]) => HeldBy(new, all[j])
      BY <1>2 DEF HeldBy, Parts
    <3>3. QED
      BY <3>1, <3>2
  <2>2. CASE j \in (f + 1)..m
    <3>1. PICK i \in DOMAIN there : there[i] = all[j]
      BY <2>2 DEF IsPiece
    <3>2. QED
      BY <1>2, <3>1 DEF HeldBy, Parts
  <2>3. CASE j \in (m + 1)..n
    <3>1. PICK i \in DOMAIN lost : lost[i] = all[j]
      BY <2>3 DEF IsPiece
    <3>2. all[j] \in SourceRecords(lost)
      BY <1>6, <3>1 DEF SourceRecords, OfKind, ToSet, IsSource
    <3>3. all[j].path \in SourcePaths(lost)
      BY <3>2 DEF SourcePaths
    <3>4. QED
      BY <3>3
  <2>4. QED
    BY <1>3, <2>1, <2>2, <2>3
<1>7. QED
  BY <1>2, <1>5, <1>6 DEF Holds

(* It has no less of them when more are put.                               *)
LEMMA StillHeld ==
  ASSUME NEW S, NEW records \in Seq(S), NEW old \in Seq(S), Extends(records, old),
         NEW n \in 0..Len(old), NEW file, Holds(file, old, n)
  PROVE  /\ n <= Len(records) /\ Holds(file, records, n)
         /\ HoldsAll(file, old, n) => HoldsAll(file, records, n)
<1>1. /\ Len(records) \in Nat /\ DOMAIN records = 1..Len(records)
      /\ Len(old) \in Nat /\ DOMAIN old = 1..Len(old)
  BY LenProperties
<1>2. n \in 0..Len(records) /\ n <= Len(records)
  BY <1>1 DEF Extends
<1>3. \A j \in 1..n : j \in DOMAIN old /\ j \in DOMAIN records /\ records[j] = old[j]
  BY <1>1 DEF Extends
<1>4. Holds(file, records, n)
  BY <1>3 DEF Holds, IsSource
<1>5. SubSeq(records, 1, n) = SubSeq(old, 1, n)
  <2>1. SubSeq(records, 1, n) = Restrict(records, 1..n) /\ SubSeq(old, 1, n) = Restrict(old, 1..n)
    BY <1>2, SubSeqRestrict
  <2>2. QED
    BY <1>3, <2>1 DEF Restrict
<1>6. QED
  BY <1>2, <1>4, <1>5 DEF HoldsAll

-----------------------------------------------------------------------------
(* A new time is not one that any record gives to a library or a blob.     *)
LEMMA FiniteImage ==
  ASSUME NEW S, IsFiniteSet(S), NEW f, f = [x \in S |-> f[x]]
  PROVE  IsFiniteSet({f[x] : x \in S})
<1> DEFINE T == {f[x] : x \in S}
<1>1. f \in Surjection(S, T)
  <2>1. f \in [S -> T] /\ \A y \in T : \E x \in S : f[x] = y
    OBVIOUS
  <2>2. QED
    BY <2>1 DEF Surjection
<1> HIDE DEF T
<1>2. IsFiniteSet(T)
  BY <1>1, FS_Surjection
<1>3. QED
  BY <1>2 DEF T

LEMMA TimesFinite ==
  ASSUME NEW S, NEW q \in Seq(S)
  PROVE  IsFiniteSet({r.modTime : r \in OfKind(q, "library")}) /\ IsFiniteSet({r.blobModTime : r \in ShaderRecords(q)})
<1>1. PICK n \in Nat : n = Len(q) /\ DOMAIN q = 1..n
  BY LenProperties
<1>2. IsFiniteSet(1..n)
  <2>1. 1 \in Int /\ n \in Int
    BY <1>1
  <2>2. QED
    BY <2>1, FS_Interval
<1> DEFINE L == {i \in 1..n : q[i].kind = "library"}
           H == {i \in 1..n : q[i].kind = "shader"}
           f == [i \in L |-> q[i].modTime]
           g == [i \in H |-> q[i].blobModTime]
<1>3. IsFiniteSet(L) /\ IsFiniteSet(H)
  <2>1. L \in SUBSET (1..n) /\ H \in SUBSET (1..n)
    OBVIOUS
  <2> HIDE DEF L, H
  <2>2. QED
    BY <1>2, <2>1, FS_Subset
<1>4. IsFiniteSet({f[i] : i \in L}) /\ IsFiniteSet({g[i] : i \in H})
  <2>1. f = [i \in L |-> f[i]] /\ g = [i \in H |-> g[i]]
    OBVIOUS
  <2> HIDE DEF f, g, L, H
  <2>2. QED
    BY <1>3, <2>1, FiniteImage
<1>5. {f[i] : i \in L} = {r.modTime : r \in OfKind(q, "library")}
  <2>1. OfKind(q, "library") = {q[i] : i \in L}
    BY <1>1 DEF OfKind, ToSet
  <2>2. QED
    BY <2>1
<1>6. {g[i] : i \in H} = {r.blobModTime : r \in ShaderRecords(q)}
  <2>1. ShaderRecords(q) = {q[i] : i \in H}
    BY <1>1 DEF ShaderRecords, OfKind, ToSet
  <2>2. QED
    BY <2>1
<1>7. QED
  BY <1>4, <1>5, <1>6

TimesIn(records) ==
  \A i \in DOMAIN records :
    /\ records[i].kind = "library" => records[i].modTime \in RecordedTimes
    /\ records[i].kind = "shader" => records[i].blobModTime \in RecordedTimes

LEMMA TimesRecorded ==
  ASSUME trace.records \in Seq(Record), run.prev.records \in Seq(Record), run.put \in Seq(Record)
  PROVE  IsFiniteSet(RecordedTimes) /\ TimesIn(run.prev.records) /\ TimesIn(All)
<1> DEFINE a == trace.records
           b == run.prev.records
           c == run.put
<1>1. a \in Seq(Record) /\ b \in Seq(Record) /\ c \in Seq(Record)
  OBVIOUS
<1>2. PICK ab, q : ab = a \o b /\ q = ab \o c
  OBVIOUS
<1>3. RecordedTimes = {r.modTime : r \in OfKind(q, "library")} \cup {r.blobModTime : r \in ShaderRecords(q)}
  BY <1>2 DEF RecordedTimes
<1>4. All \in {a, c, <<>>}
  BY DEF All, Readable
<1> HIDE DEF a, b, c
<1>5. ab \in Seq(Record) /\ Parts(ab, a, b)
  BY <1>1, <1>2, JoinedParts
<1>6. q \in Seq(Record) /\ Parts(q, ab, c)
  BY <1>1, <1>2, <1>5, JoinedParts
<1>7. TimesIn(q)
  <2>1. \A i \in DOMAIN q : /\ q[i].kind = "library" => q[i] \in OfKind(q, "library")
                            /\ q[i].kind = "shader" => q[i] \in ShaderRecords(q)
    BY DEF OfKind, ShaderRecords, ToSet
  <2>2. QED
    BY <1>3, <2>1 DEF TimesIn
<1>8. TimesIn(a) /\ TimesIn(b) /\ TimesIn(c)
  <2>1. \A j \in DOMAIN a : \E i \in DOMAIN q : q[i] = a[j]
    BY <1>5, <1>6 DEF Parts
  <2>2. \A j \in DOMAIN b : \E i \in DOMAIN q : q[i] = b[j]
    BY <1>5, <1>6 DEF Parts
  <2>3. \A j \in DOMAIN c : \E i \in DOMAIN q : q[i] = c[j]
    BY <1>6 DEF Parts
  <2>4. QED
    BY <1>7, <2>1, <2>2, <2>3 DEF TimesIn
<1>9. TimesIn(<<>>)
  BY DEF TimesIn
<1>10. IsFiniteSet(RecordedTimes)
  <2>1. IsFiniteSet({r.modTime : r \in OfKind(q, "library")}) /\ IsFiniteSet({r.blobModTime : r \in ShaderRecords(q)})
    BY <1>6, TimesFinite
  <2>2. PICK x, y : x = {r.modTime : r \in OfKind(q, "library")} /\ y = {r.blobModTime : r \in ShaderRecords(q)}
    OBVIOUS
  <2>3. IsFiniteSet(x \cup y)
    BY <2>1, <2>2, FS_Union
  <2>4. QED
    BY <1>3, <2>2, <2>3
<1>11. TimesIn(All)
  BY <1>4, <1>8, <1>9
<1>12. QED
  BY <1>8, <1>10, <1>11 DEF b

LEMMA NewTimeIsNew ==
  ASSUME IsFiniteSet(RecordedTimes), NEW file
  PROVE  NewTime(file) \in FileTime /\ NewTime(file) \notin RecordedTimes
<1> DEFINE taken == RecordedTimes \cup {file.modTime}
<1>1. PICK c \in Nat : c = Cardinality(RecordedTimes)
  BY FS_CardinalityType
<1>2. IsFiniteSet(taken) /\ Cardinality(taken) <= c + 1
  <2>1. IsFiniteSet(taken) /\ Cardinality(taken) = IF file.modTime \in RecordedTimes THEN c ELSE c + 1
    BY <1>1, FS_AddElement
  <2> HIDE DEF taken
  <2>2. QED
    BY <1>1, <2>1
<1> DEFINE free == (1..(c + 2)) \ taken
<1>3. free # {}
  <2>1. SUFFICES ASSUME free = {} PROVE FALSE
    OBVIOUS
  <2>2. 1..(c + 2) \in SUBSET taken
    BY <2>1
  <2>3. Cardinality(1..(c + 2)) = c + 2
    <3>1. 1 \in Int /\ c + 2 \in Int /\ ~(1 > c + 2) /\ (c + 2) - 1 + 1 = c + 2
      BY <1>1
    <3>2. QED
      BY <1>1, <3>1, FS_Interval
  <2> HIDE DEF taken
  <2>4. Cardinality(1..(c + 2)) <= Cardinality(taken)
    BY <1>2, <2>2, FS_Subset
  <2>5. Cardinality(taken) \in Nat
    BY <1>2, FS_CardinalityType
  <2>6. QED
    BY <1>1, <1>2, <2>3, <2>4, <2>5
<1>4. Min(free) \in free
  <2>1. free \in SUBSET (1..(c + 2)) /\ c + 2 \in Nat
    BY <1>1
  <2> HIDE DEF free
  <2>2. QED
    BY <1>3, <2>1, MinOf
<1>5. NewTime(file) = Min(free)
  BY <1>1 DEF NewTime
<1>6. QED
  BY <1>4, <1>5 DEF FileTime, InvalidTime

-----------------------------------------------------------------------------
LEMMA ShaderFound ==
  ASSUME NEW S, NEW file, file.records \in Seq(S), NEW name, HasShader(file, name)
  PROVE  \E m \in DOMAIN file.records : /\ IsShader(file.records, m) /\ file.records[m].name = name
                                        /\ FindShader(file, name) = file.records[m]
<1> DEFINE named == {i \in DOMAIN file.records : file.records[i].kind = "shader" /\ file.records[i].name = name}
<1>1. PICK n \in Nat : DOMAIN file.records = 1..n
  BY LenProperties
<1>2. named \in SUBSET (1..n) /\ named # {}
  BY <1>1 DEF HasShader, ShaderRecords, OfKind, ToSet
<1>3. FindShader(file, name) = file.records[Min(named)]
  BY DEF FindShader
<1>4. Min(named) \in named
  <2> HIDE DEF named
  <2>1. QED
    BY <1>1, <1>2, MinOf
<1>5. QED
  BY <1>3, <1>4 DEF IsShader

-----------------------------------------------------------------------------
(* What the types give.                                                    *)
LEMMA RecordTyped ==
  ASSUME NEW r \in Record
  PROVE  /\ r.kind \in {"manifest", "library", "source", "shader"}
         /\ r.kind \in {"manifest", "library"} => r.modTime \in Nat
         /\ r.kind = "source" => r.index \in Nat /\ r.path \in SourceFiles /\ r.modTime \in FileTime
         /\ r.kind = "shader" => r.name \in ShaderNames /\ r.blobModTime \in Nat /\ r.files \in Seq(Nat)
BY DEF Record

LEMMA RecordsTyped ==
  ASSUME NEW records \in Seq(Record)
  PROVE  /\ Len(records) \in Nat /\ DOMAIN records = 1..Len(records)
         /\ \A k \in DOMAIN records : records[k] \in Record
         /\ \A k : IsSource(records, k) =>
              records[k].index \in Nat /\ records[k].path \in SourceFiles /\ records[k].modTime \in FileTime
<1>1. Len(records) \in Nat /\ DOMAIN records = 1..Len(records)
  BY LenProperties
<1>2. \A k \in DOMAIN records : records[k] \in Record
  BY <1>1, ElementOfSeq
<1>3. QED
  BY <1>1, <1>2, RecordTyped DEF IsSource

LEMMA ShadersTyped ==
  ASSUME NEW shaders \in {<<>>} \cup {Loads[d].shaders : d \in DOMAIN Documents}
  PROVE  /\ Len(shaders) \in Nat /\ DOMAIN shaders = 1..Len(shaders)
         /\ ToSet(shaders) \subseteq DeclaredShaders
         /\ \A s, t \in ToSet(shaders) : s.name = t.name => s = t
<1>1. CASE shaders = <<>>
  <2>1. <<>> \in Seq({}) /\ Len(<<>>) = 0
    BY EmptySeq
  <2>2. Len(shaders) = 0 /\ DOMAIN shaders = 1..Len(shaders)
    BY <1>1, <2>1, LenProperties
  <2>3. DOMAIN shaders = {}
    BY <2>2
  <2>4. ToSet(shaders) = {}
    BY <2>3 DEF ToSet
  <2>5. QED
    BY <2>2, <2>4
<1>2. CASE \E d \in DOMAIN Documents : shaders = Loads[d].shaders
  <2>1. PICK d \in DOMAIN Documents : shaders = Loads[d].shaders
    BY <1>2
  <2>2. shaders = LoadManifest(Documents[d]).shaders
    BY <2>1 DEF Loads
  <2>3. ShadersOnce(shaders)
    BY <2>2, LoadedShaders, BuilderAssumption
  <2>4. PICK S : shaders \in Seq(S)
    BY <2>3 DEF ShadersOnce
  <2>5. Len(shaders) \in Nat /\ DOMAIN shaders = 1..Len(shaders)
    BY <2>4, LenProperties
  <2>6. ToSet(shaders) \subseteq DeclaredShaders
    BY <2>1 DEF DeclaredShaders
  <2>7. \A s, t \in ToSet(shaders) : s.name = t.name => s = t
    BY <2>3, <2>5 DEF ShadersOnce, ToSet
  <2>8. QED
    BY <2>5, <2>6, <2>7
<1>3. QED
  BY <1>1, <1>2

LEMMA DeclaredTyped ==
  ASSUME NEW s \in DeclaredShaders
  PROVE  s.name \in ShaderNames /\ s.source \in SourceFiles
BY BuilderAssumption DEF ShaderNames

LEMMA NoFileTyped == NoFile \in TraceFile /\ NoFile.records = <<>> /\ ~NoFile.header
<1>1. <<>> \in Seq(Record)
  BY EmptySeq
<1>2. QED
  BY <1>1 DEF NoFile, TraceFile

LEMMA Typed ==
  ASSUME TypeOK
  PROVE  /\ trace.records \in Seq(Record) /\ run.prev.records \in Seq(Record) /\ run.put \in Seq(Record)
         /\ All \in Seq(Record) /\ (run.traceOpen => All = run.put) /\ run.flushed \in 0..Len(run.put)
         /\ run \in Program /\ run.cache \in [SourceFiles -> [modTime : Nat, text : Text \cup {None}]]
         /\ Len(run.shaders) \in Nat /\ DOMAIN run.shaders = 1..Len(run.shaders)
         /\ ToSet(run.shaders) \subseteq DeclaredShaders
         /\ \A s, t \in ToSet(run.shaders) : s.name = t.name => s = t
<1>1. trace \in TraceFile /\ run \in Program /\ run.flushed <= Len(run.put)
  BY DEF TypeOK
<1>2. trace.records \in Seq(Record) /\ run.prev.records \in Seq(Record) /\ run.put \in Seq(Record) /\ run.flushed \in Nat
  BY <1>1 DEF TraceFile, Program
<1>3. run.shaders \in {<<>>} \cup {Loads[d].shaders : d \in DOMAIN Documents}
  BY <1>1 DEF Program
<1>4. run.cache \in [SourceFiles -> [modTime : Nat, text : Text \cup {None}]]
  BY <1>1 DEF Program
<1>5. All \in Seq(Record) /\ (run.traceOpen => All = run.put)
  <2>1. <<>> \in Seq(Record)
    BY EmptySeq
  <2>2. QED
    BY <1>2, <2>1 DEF All, Readable
<1>6. run.flushed \in 0..Len(run.put)
  <2>1. Len(run.put) \in Nat
    BY <1>2, LenProperties
  <2>2. QED
    BY <1>1, <1>2, <2>1
<1>7. QED
  BY <1>1, <1>2, <1>3, <1>4, <1>5, <1>6, ShadersTyped

(* Times are asked for once.                                               *)
OpenedAs(new, f) ==
  /\ new \in [SourceFiles -> [modTime : Nat, text : Text \cup {None}]]
  /\ \A g \in SourceFiles : run.cache[g].modTime # InvalidTime => new[g] = run.cache[g]
  /\ \A g \in SourceFiles : new[g].text = run.cache[g].text
  /\ \A g \in SourceFiles : CachedSound(new[g], sources[g])
  /\ ~disturbed => \A g \in SourceFiles : new[g].modTime # InvalidTime => new[g].modTime = TimeOf(sources[g])
  /\ new[f].modTime # InvalidTime \/ TimeOf(sources[f]) = InvalidTime

LEMMA Opening ==
  ASSUME TypeOK, CacheInv, NEW f \in SourceFiles
  PROVE  OpenedAs(Open(f), f)
<1>1. run.cache \in [SourceFiles -> [modTime : Nat, text : Text \cup {None}]]
  BY Typed
<1>2. \A g \in SourceFiles : CachedSound(run.cache[g], sources[g])
  BY DEF CacheInv
<1>3. ~disturbed => \A g \in SourceFiles : run.cache[g].modTime # InvalidTime => run.cache[g].modTime = TimeOf(sources[g])
  BY DEF CacheInv
<1>4. CASE Opened(f)
  <2>1. Open(f) = run.cache /\ run.cache[f].modTime # InvalidTime
    BY <1>4 DEF Open, Opened
  <2>2. OpenedAs(run.cache, f)
    BY <1>1, <1>2, <1>3, <2>1 DEF OpenedAs
  <2>3. QED
    BY <2>1, <2>2
<1>5. CASE ~Opened(f)
  <2>1. run.cache[f].modTime = InvalidTime
    BY <1>5 DEF Opened
  <2>2. PICK new : new = Open(f)
    OBVIOUS
  <2>3. new = [run.cache EXCEPT ![f].modTime = TimeOf(sources[f])]
    BY <1>5, <2>2 DEF Open
  <2>4. sources[f].modTime \in Nat /\ TimeOf(sources[f]) \in Nat /\ TimeOf(sources[f]) <= sources[f].modTime
    <3>1. sources[f].modTime \in Nat /\ 0 <= sources[f].modTime
      BY BuilderAssumption DEF TypeOK, FileOf, Time
    <3>2. QED
      BY <3>1 DEF TimeOf, InvalidTime
  <2>5. /\ new \in [SourceFiles -> [modTime : Nat, text : Text \cup {None}]]
        /\ new[f].modTime = TimeOf(sources[f]) /\ new[f].text = run.cache[f].text
        /\ \A g \in SourceFiles : g # f => new[g] = run.cache[g]
    BY <1>1, <2>3, <2>4
  <2>6. run.cache[f].text = None
    BY <1>2, <2>1 DEF CachedSound
  <2>7. CachedSound(new[f], sources[f])
    BY <2>4, <2>5, <2>6 DEF CachedSound
  <2>8. \A g \in SourceFiles : CachedSound(new[g], sources[g])
    BY <1>2, <2>5, <2>7
  <2>9. OpenedAs(new, f)
    BY <1>3, <2>1, <2>5, <2>8 DEF OpenedAs
  <2>10. QED
    BY <2>2, <2>9
<1>6. QED
  BY <1>4, <1>5

(* Nor do the records become untimely when texts are read, or more files   *)
(* are opened.                                                             *)
LEMMA StillTimed ==
  ASSUME NEW records \in Seq(Record), NEW old, NEW new, TimedBy(old, records),
         \A g \in SourceFiles : old[g].modTime # InvalidTime => new[g].modTime = old[g].modTime
  PROVE  TimedBy(new, records)
<1>1. ASSUME NEW k \in DOMAIN records, IsSource(records, k) PROVE records[k].modTime = new[records[k].path].modTime
  <2>1. records[k].path \in SourceFiles /\ records[k].modTime \in FileTime
    BY <1>1, RecordsTyped
  <2>2. records[k].modTime = old[records[k].path].modTime
    BY <1>1 DEF TimedBy
  <2>3. QED
    BY <2>1, <2>2 DEF FileTime
<1>2. QED
  BY <1>1 DEF TimedBy

-----------------------------------------------------------------------------
(* What happens to the history in a build: nothing, or one event.          *)
Later ==
  /\ events' \in events..MaxEvents /\ events' \in 0..MaxEvents
  /\ disturbed' \in BOOLEAN /\ settled' \in BOOLEAN
  /\ (settled' => settled) /\ (~disturbed' => ~disturbed)

LEMMA Unhindered ==
  ASSUME BuilderInv, history' = history
  PROVE  Later
<1>1. events \in 0..MaxEvents /\ disturbed \in BOOLEAN /\ settled \in BOOLEAN /\ MaxEvents \in Nat
  BY BuilderAssumption DEF BuilderInv, TypeOK
<1>2. events' = events /\ disturbed' = disturbed /\ settled' = settled
  BY DEF history
<1>3. QED
  BY <1>1, <1>2 DEF Later

LEMMA Outcomes ==
  ASSUME BuilderInv, NEW ok \in BOOLEAN, Outcome(ok)
  PROVE  Later /\ (~disturbed' => ok)
<1>1. events \in 0..MaxEvents /\ disturbed \in BOOLEAN /\ settled \in BOOLEAN /\ MaxEvents \in Nat
  BY BuilderAssumption DEF BuilderInv, TypeOK
<1>2. CASE ok
  <2>1. history' = history
    BY <1>2 DEF Outcome, NoEvent
  <2>2. QED
    BY <1>2, <2>1, Unhindered
<1>3. CASE ~ok
  <2>1. events < MaxEvents /\ events' = events + 1 /\ disturbed' = TRUE /\ settled' = FALSE
    BY <1>3 DEF Outcome, AnEvent
  <2>2. events' \in events..MaxEvents /\ events' \in 0..MaxEvents
    BY <1>1, <2>1
  <2>3. QED
    BY <2>1, <2>2 DEF Later
<1>4. QED
  BY <1>2, <1>3

LEMMA EventsCounted ==
  ASSUME BuilderInv, Later, inputs' = inputs
  PROVE  EventsInv'
<1>1. manifest' = manifest /\ sources' = sources
  BY DEF inputs
<1>2. events' \in Int /\ events \in Int /\ events <= events'
  BY DEF Later, BuilderInv, TypeOK
<1>3. manifest.modTime \in Int /\ \A f \in SourceFiles : sources[f].modTime \in Int
  BY BuilderAssumption DEF BuilderInv, TypeOK, FileOf, Time
<1>4. QED
  BY <1>1, <1>2, <1>3 DEF BuilderInv, EventsInv

(* A step of the program that leaves the files alone and does not touch    *)
(* what it writes.                                                         *)
LEMMA Quiet ==
  ASSUME BuilderInv, run' \in Program, inputs' = inputs, outputs' = outputs, Later,
         run'.put = run.put, run'.flushed = run.flushed, run'.prev = run.prev, run'.built = run.built,
         run'.traceOpen = run.traceOpen,
         pc' \in Ended \cup Checking \cup Building, pc' # "finish"
  PROVE  TypeOK' /\ EventsInv' /\ PastInv' /\ RecordsInv' /\ All' = All
<1>1. /\ manifest' = manifest /\ sources' = sources /\ blobs' = blobs /\ library' = library /\ trace' = trace
  BY DEF inputs, outputs
<1>2. All' = All /\ Unknown' = Unknown
  BY <1>1 DEF All, Unknown
<1>3. TypeOK'
  BY <1>1 DEF BuilderInv, TypeOK, Later
<1>4. EventsInv'
  BY EventsCounted
<1>5. PastInv'
  BY <1>1 DEF BuilderInv, PastInv
<1>6. RecordsInv'
  BY <1>1, <1>2 DEF BuilderInv, RecordsInv
<1>7. QED
  BY <1>2, <1>3, <1>4, <1>5, <1>6

(* A step of a build: nothing is settled, and it does not look at the last *)
(* build any more.                                                         *)
LEMMA InBuild ==
  ASSUME BuilderInv, pc \in Building, settled' => settled,
         pc' \notin Checking \cup {"upToDate", "asserted"}
  PROVE  CheckInv' /\ SettledInv' /\ UpToDateSound' /\ StopsExplained'
<1>1. ~settled
  BY DEF BuilderInv, SettledInv, Building, Ended, Checking
<1>2. ~settled'
  BY <1>1
<1>3. pc' \notin {"loadTrace", "checkManifest", "checkSources", "checkLibrary", "upToDate", "asserted"}
  BY DEF Checking
<1>4. QED
  BY <1>2, <1>3 DEF CheckInv, SettledInv, UpToDateSound, StopsExplained

(* A step of a build that keeps what is written, the times of the files    *)
(* that are opened, and the shaders there are.                             *)
LEMMA QuietBuild ==
  ASSUME BuilderInv, run' \in Program, inputs' = inputs, outputs' = outputs, Later,
         run'.put = run.put, run'.flushed = run.flushed, run'.cut = run.cut,
         run'.prev = run.prev, run'.built = run.built, run'.traceOpen = run.traceOpen,
         run'.shaders = run.shaders, run'.atTrace = run.atTrace,
         \A g \in SourceFiles : run.cache[g].modTime # InvalidTime => run'.cache[g].modTime = run.cache[g].modTime,
         pc \in Building \ (Unopened \cup {"flush"}),
         pc' \in {"loadCached", "compile", "openSource", "readSource", "store", "openLibrary", "flush", "failed", "done"},
         pc' = "done" => ~run.traceOpen, pc' = "flush" => run'.afterFlush # "done"
  PROVE  /\ TypeOK' /\ EventsInv' /\ PastInv' /\ RecordsInv' /\ TraceInv' /\ CalmInv'
         /\ CheckInv' /\ SettledInv' /\ UpToDateSound' /\ StopsExplained'
<1>1. /\ manifest' = manifest /\ sources' = sources /\ blobs' = blobs /\ library' = library /\ trace' = trace
      /\ (settled' => settled) /\ (~disturbed' => ~disturbed)
  BY DEF inputs, outputs, Later
<1>2. TypeOK' /\ EventsInv' /\ PastInv' /\ RecordsInv' /\ All' = All
  <2>1. pc' \in Ended \cup Checking \cup Building /\ pc' # "finish"
    BY DEF Ended, Checking, Building
  <2>2. QED
    BY <2>1, Quiet
<1>3. CheckInv' /\ SettledInv' /\ UpToDateSound' /\ StopsExplained'
  <2>1. pc \in Building /\ (settled' => settled) /\ pc' \notin Checking \cup {"upToDate", "asserted"}
    BY <1>1 DEF Checking
  <2>2. QED
    BY <2>1, InBuild
<1>4. TraceInv'
  <2>1. (IsLoaded(run.prev) \/ run.prev = NoFile) /\ (~run.traceOpen => ~run.cut)
    BY DEF BuilderInv, TraceInv
  <2>2. ASSUME run.traceOpen
        PROVE  /\ pc' \in (Building \ Unopened) \cup {"done", "failed"}
               /\ WellFormed(All) /\ All # <<>> /\ All[1].modTime = run.atTrace /\ NoLibrary(All)
               /\ TimedBy(run'.cache, All) /\ BuiltSound(run.shaders, run.built, All) /\ Holds(trace, All, run.flushed)
    <3>1. /\ WellFormed(All) /\ All # <<>> /\ All[1].modTime = run.atTrace /\ (Finished \/ NoLibrary(All))
          /\ TimedBy(run.cache, All) /\ BuiltSound(run.shaders, run.built, All) /\ Holds(trace, All, run.flushed)
      BY <2>2 DEF BuilderInv, TraceInv
    <3>2. ~Finished
      BY DEF Finished, Building
    <3>3. All \in Seq(Record)
      BY Typed DEF BuilderInv
    <3>4. TimedBy(run'.cache, All)
      BY <3>1, <3>3, StillTimed
    <3>5. pc' \in (Building \ Unopened) \cup {"done", "failed"}
      BY DEF Building, Unopened
    <3>6. QED
      BY <3>1, <3>2, <3>4, <3>5
  <2>3. QED
    BY <1>1, <1>2, <2>1, <2>2 DEF TraceInv
<1>5. CalmInv'
  <2>1. ~disturbed =>
          /\ manifest.content # None
          /\ run.traceOpen => run.atTrace = TimeOf(manifest) /\ ~run.cut /\ HoldsAll(trace, All, run.flushed)
    BY DEF BuilderInv, CalmInv, Unopened
  <2>2. TimeOf(manifest)' = TimeOf(manifest)
    BY <1>1 DEF TimeOf
  <2>3. QED
    BY <1>1, <1>2, <2>1, <2>2 DEF CalmInv
<1>6. QED
  BY <1>2, <1>3, <1>4, <1>5

-----------------------------------------------------------------------------
(* Of the records put, what got to a file that can be loaded is sound.     *)
LEMMA PartSound ==
  ASSUME NEW all \in Seq(Record), WellFormed(all), NEW n \in 0..Len(all),
         NEW file \in TraceFile, Holds(file, all, n), IsLoaded(file),
         NEW files, BlobsSound(files, all), NEW lib, LibrarySound(lib, all, {})
  PROVE  BlobsSound(files, file.records) /\ LibrarySound(lib, file.records, file.missing)
<1>1. file.records \in Seq(Record) /\ WellFormed(file.records) /\ AreOf(file.records, all, n)
  BY DEF TraceFile, IsLoaded, Holds, AreOf
<1>2. ASSUME NEW i \in DOMAIN all, IsShader(all, i), NEW j \in DOMAIN all[i].files PROVE all[i].files[j] \in Nat
  <2>1. all[i] \in Record /\ all[i].kind = "shader"
    BY <1>2, ElementOfSeq, LenProperties DEF IsShader
  <2>2. all[i].files \in Seq(Nat)
    BY <2>1, RecordTyped
  <2>3. QED
    BY <2>2, LenProperties, ElementOfSeq
<1>3. BlobsSound(files, file.records)
  BY <1>1, <1>2, PartBlobsSound
<1>4. LibrarySound(lib, file.records, file.missing)
  BY <1>1, PartLibrarySound
<1>5. QED
  BY <1>3, <1>4

LEMMA TraceSound ==
  ASSUME BuilderInv, IsLoaded(trace)
  PROVE  BlobsSound(blobs, trace.records) /\ LibrarySound(library, trace.records, trace.missing)
<1>1. BlobsSound(blobs, All) /\ LibrarySound(library, All, Unknown)
  BY DEF BuilderInv, RecordsInv
<1>2. CASE run.traceOpen
  <2>1. WellFormed(All) /\ Holds(trace, All, run.flushed) /\ Unknown = {}
    BY <1>2 DEF BuilderInv, TraceInv, Unknown
  <2>2. All \in Seq(Record) /\ All = run.put /\ run.flushed \in 0..Len(All)
    BY <1>2, Typed DEF BuilderInv
  <2>3. trace \in TraceFile
    BY DEF BuilderInv, TypeOK
  <2>4. QED
    BY <1>1, <2>1, <2>2, <2>3, PartSound
<1>3. CASE ~run.traceOpen
  BY <1>1, <1>3 DEF All, Unknown, Readable
<1>4. QED
  BY <1>2, <1>3

-----------------------------------------------------------------------------
(* A program that has just begun.                                          *)
LEMMA Fresh ==
  /\ FreshProgram \in Program
  /\ FreshProgram.prev = NoFile /\ FreshProgram.put = <<>> /\ FreshProgram.flushed = 0
  /\ ~FreshProgram.traceOpen /\ ~FreshProgram.cut
  /\ FreshProgram.next = 0 /\ FreshProgram.prevOpened = {}
  /\ \A f \in SourceFiles : FreshProgram.cache[f] = NotOpened
  /\ \A s \in ShaderNames : FreshProgram.built[s] = None
<1>1. NoFile \in TraceFile
  BY NoFileTyped
<1>2. NotOpened \in [modTime : Nat, text : Text \cup {None}]
  BY DEF NotOpened, InvalidTime
<1>3. /\ [f \in SourceFiles |-> NotOpened] \in [SourceFiles -> [modTime : Nat, text : Text \cup {None}]]
      /\ [s \in ShaderNames |-> None] \in [ShaderNames -> Built \cup {None}]
  BY <1>2
<1>4. <<>> \in Seq(SourceFiles) /\ <<>> \in Seq(Record)
  BY EmptySeq
<1>5. FreshProgram \in Program
  BY <1>1, <1>3, <1>4 DEF FreshProgram, Program, InvalidTime
<1>6. QED
  BY <1>5 DEF FreshProgram

(* With files in any state that an earlier run can leave, it is where      *)
(* BuilderInv has it.                                                      *)
LEMMA FreshStart ==
  ASSUME BuilderInv, run' = FreshProgram, inputs' = inputs, library' = library,
         blobs' \in [ShaderNames -> FileOf(Blob, FileTime)],
         \A s \in ShaderNames : blobs'[s].content # None => Past(sources, blobs'[s].content),
         trace' \in TraceFile,
         IsLoaded(trace') => BlobsSound(blobs', trace'.records) /\ LibrarySound(library, trace'.records, trace'.missing),
         events' \in events..MaxEvents, pc' \in {"loadTrace", "crashed"}
  PROVE  /\ EventsInv' /\ PastInv' /\ CacheInv' /\ TraceInv' /\ RecordsInv' /\ PhaseInv' /\ CalmInv' /\ CheckInv'
         /\ UpToDateSound' /\ StopsExplained'
         /\ (disturbed' \in BOOLEAN /\ settled' \in BOOLEAN => TypeOK')
<1> DEFINE new == FreshProgram
<1>1. manifest' = manifest /\ sources' = sources /\ run' = new
  BY DEF inputs
<1>2. /\ new \in Program
      /\ new.prev = NoFile /\ new.put = <<>> /\ new.flushed = 0 /\ ~new.traceOpen /\ ~new.cut
      /\ new.next = 0 /\ new.prevOpened = {}
      /\ \A f \in SourceFiles : new.cache[f] = NotOpened
      /\ \A s \in ShaderNames : new.built[s] = None
  BY Fresh
<1> HIDE DEF new
<1>3. events \in 0..MaxEvents /\ MaxEvents \in Nat /\ (\A f \in SourceFiles : sources[f].modTime \in Nat) /\ manifest.modTime \in Nat
  BY BuilderAssumption DEF BuilderInv, TypeOK, FileOf, Time
<1>4. BlobsSound(blobs', <<>>) /\ LibrarySound(library, <<>>, trace'.missing)
  BY DEF BlobsSound, LibrarySound, IsComplete
<1>5. All' = Readable(trace') /\ Unknown' = trace'.missing
  BY <1>1, <1>2 DEF All, Unknown
<1>6. EventsInv'
  <2>1. events' \in Int /\ events <= events'
    BY <1>3
  <2>2. QED
    BY <1>1, <1>3, <2>1 DEF BuilderInv, EventsInv
<1>7. PastInv'
  BY <1>1, <1>2 DEF BuilderInv, PastInv
<1>8. CacheInv'
  <2>1. \A f \in SourceFiles : CachedSound(new.cache[f], sources[f])
    BY <1>2, <1>3 DEF CachedSound, NotOpened, InvalidTime
  <2>2. \A f \in SourceFiles : new.cache[f].modTime = InvalidTime
    BY <1>2 DEF NotOpened
  <2>3. QED
    BY <1>1, <1>2, <2>1, <2>2 DEF CacheInv
<1>9. TraceInv'
  BY <1>1, <1>2 DEF TraceInv
<1>10. RecordsInv'
  <2>1. BlobsSound(blobs', All') /\ LibrarySound(library, All', Unknown')
    BY <1>4, <1>5 DEF Readable
  <2>2. QED
    BY <1>1, <1>2, <1>4, <2>1, NoFileTyped DEF RecordsInv
<1>11. PhaseInv'
  BY <1>1, <1>2 DEF PhaseInv
<1>12. CalmInv'
  BY <1>1, <1>2 DEF CalmInv, Building
<1>13. CheckInv'
  BY <1>1, <1>2 DEF CheckInv
<1>14. UpToDateSound' /\ StopsExplained'
  BY DEF UpToDateSound, StopsExplained
<1>15. ASSUME disturbed' \in BOOLEAN, settled' \in BOOLEAN PROVE TypeOK'
  <2>1. events' \in 0..MaxEvents
    BY <1>3
  <2>2. pc' \in Ended \cup Checking \cup Building
    BY DEF Ended, Checking
  <2>3. new.flushed <= Len(new.put)
    BY <1>2, EmptySeq
  <2>4. QED
    BY <1>1, <1>2, <1>15, <2>1, <2>2, <2>3 DEF BuilderInv, TypeOK
<1>16. QED
  BY <1>6, <1>7, <1>8, <1>9, <1>10, <1>11, <1>12, <1>13, <1>14, <1>15

LEMMA InitStep == Init => BuilderInv
<1> SUFFICES ASSUME Init PROVE BuilderInv
  OBVIOUS
<1>1. /\ manifest = [modTime |-> 1, content |-> 1]
      /\ \A f \in SourceFiles : sources[f].modTime = 1 /\ sources[f].content \in Texts[f]
      /\ \A f \in SourceFiles : sources[f] \in [modTime : {1}, content : Texts[f]]
      /\ sources = [f \in SourceFiles |-> sources[f]]
      /\ blobs = [s \in ShaderNames |-> [modTime |-> 1, content |-> None]]
      /\ library = [modTime |-> 1, content |-> None]
      /\ trace = NoFile
      /\ pc = "idle" /\ run = FreshProgram
      /\ events = 0 /\ disturbed = FALSE /\ settled = FALSE
  BY DEF Init
<1>2. /\ run \in Program
      /\ run.prev = NoFile /\ run.put = <<>> /\ run.flushed = 0 /\ ~run.traceOpen /\ ~run.cut
      /\ \A f \in SourceFiles : run.cache[f] = NotOpened
      /\ \A s \in ShaderNames : run.built[s] = None
      /\ run.prevOpened = {}
  BY <1>1, Fresh
<1>3. All = <<>>
  <2>1. trace.records = <<>>
    BY <1>1, NoFileTyped
  <2>2. QED
    BY <1>2, <2>1 DEF All, Readable
<1>4. TypeOK
  <2>1. 1 \in Time /\ 1 \in FileTime
    BY BuilderAssumption DEF Time, FileTime, InvalidTime
  <2>2. manifest \in FileOf(DOMAIN Documents, Time)
    BY <1>1, <2>1, BuilderAssumption DEF FileOf
  <2>3. /\ sources \in [SourceFiles -> FileOf(UNION {Texts[f] : f \in SourceFiles}, Time)]
        /\ \A f \in SourceFiles : sources[f] \in FileOf(Texts[f], Time)
    BY <1>1, <2>1 DEF FileOf
  <2>4. blobs \in [ShaderNames -> FileOf(Blob, FileTime)] /\ library \in FileOf(LibraryContent, FileTime)
    BY <1>1, <2>1 DEF FileOf
  <2>5. trace \in TraceFile
    BY <1>1, NoFileTyped
  <2>6. pc \in Ended \cup Checking \cup Building /\ events \in 0..MaxEvents /\ disturbed \in BOOLEAN /\ settled \in BOOLEAN
    <3>1. pc = "idle" /\ events = 0 /\ disturbed = FALSE /\ settled = FALSE
      BY <1>1
    <3>2. 0 \in 0..MaxEvents
      BY BuilderAssumption
    <3>3. QED
      BY <3>1, <3>2 DEF Ended
  <2>7. run \in Program /\ run.put = <<>> /\ run.flushed <= Len(run.put)
    BY <1>2, EmptySeq
  <2>8. QED
    BY <2>2, <2>3, <2>4, <2>5, <2>6, <2>7 DEF TypeOK
<1>5. EventsInv
  BY <1>1 DEF EventsInv
<1>6. PastInv
  BY <1>1, <1>2 DEF PastInv
<1>7. CacheInv
  <2>1. \A f \in SourceFiles : CachedSound(run.cache[f], sources[f])
    BY <1>1, <1>2 DEF CachedSound, NotOpened, InvalidTime
  <2>2. QED
    BY <1>1, <1>2, <2>1 DEF CacheInv, NotOpened
<1>8. TraceInv
  BY <1>1, <1>2 DEF TraceInv
<1>9. RecordsInv
  <2>1. BlobsSound(blobs, <<>>) /\ trace.records = <<>> /\ run.prev.records = <<>>
    BY <1>1, <1>2, NoFileTyped DEF BlobsSound
  <2>2. QED
    BY <1>1, <1>2, <1>3, <2>1 DEF RecordsInv, LibrarySound, IsComplete
<1>10. PhaseInv
  BY <1>1, <1>2 DEF PhaseInv, Checking, Unopened
<1>11. CalmInv
  BY <1>1, <1>2 DEF CalmInv, Building
<1>12. CheckInv /\ SettledInv /\ UpToDateSound /\ StopsExplained
  BY <1>1 DEF CheckInv, SettledInv, UpToDateSound, StopsExplained
<1>13. QED
  BY <1>4, <1>5, <1>6, <1>7, <1>8, <1>9, <1>10, <1>11, <1>12 DEF BuilderInv

LEMMA StartStep == ASSUME BuilderInv, Start PROVE BuilderInv'
<1>1. /\ pc \in Ended /\ pc' = "loadTrace" /\ run' = FreshProgram /\ disturbed' = FALSE
      /\ inputs' = inputs /\ manifest' = manifest /\ sources' = sources
      /\ blobs' = blobs /\ library' = library /\ trace' = trace /\ events' = events /\ settled' = settled
  BY DEF Start, Goto, inputs, outputs
<1>2. trace.records \in Seq(Record)
  BY Typed DEF BuilderInv
<1>3. IsLoaded(trace) => BlobsSound(blobs, trace.records) /\ LibrarySound(library, trace.records, trace.missing)
  BY TraceSound
<1>4. /\ blobs \in [ShaderNames -> FileOf(Blob, FileTime)] /\ trace \in TraceFile
      /\ events \in 0..MaxEvents /\ settled \in BOOLEAN
  BY DEF BuilderInv, TypeOK
<1>5. \A s \in ShaderNames : blobs[s].content # None => Past(sources, blobs[s].content)
  BY DEF BuilderInv, PastInv
<1>6. /\ EventsInv' /\ PastInv' /\ CacheInv' /\ TraceInv' /\ RecordsInv' /\ PhaseInv' /\ CalmInv' /\ CheckInv'
      /\ UpToDateSound' /\ StopsExplained' /\ TypeOK'
  <2>1. events' \in events..MaxEvents
    BY <1>1, <1>4, BuilderAssumption
  <2>2. QED
    BY <1>1, <1>3, <1>4, <1>5, <2>1, FreshStart
<1>7. SettledInv'
  <2>1. \A f \in SourceFiles : TimeOf(sources[f])' = TimeOf(sources[f])
    BY <1>1 DEF TimeOf
  <2>2. \A k \in DOMAIN trace.records : IsSource(trace.records, k) => trace.records[k].path \in SourceFiles
    BY <1>2, RecordsTyped
  <2>3. QED
    BY <1>1, <2>1, <2>2 DEF BuilderInv, SettledInv, Checking
<1>8. QED
  BY <1>6, <1>7 DEF BuilderInv

-----------------------------------------------------------------------------
(* Looking for what the last build left.                                   *)
LEMMA LoadTraceStep == ASSUME BuilderInv, LoadTrace PROVE BuilderInv'
<1> DEFINE prev == IF IsLoaded(trace) THEN trace ELSE NoFile
<1>1. /\ pc = "loadTrace" /\ run' = [run EXCEPT !.prev = prev]
      /\ pc' = IF ~IsLoaded(trace) THEN "loadManifest" ELSE IF HasManifestRecord(trace) THEN "checkManifest" ELSE "asserted"
      /\ manifest' = manifest /\ sources' = sources /\ blobs' = blobs /\ library' = library /\ trace' = trace
      /\ events' = events /\ disturbed' = disturbed /\ settled' = settled
  BY DEF LoadTrace, Goto, inputs, outputs, NoEvent, history
<1>2. /\ prev \in TraceFile /\ (IsLoaded(prev) \/ prev = NoFile) /\ (IsLoaded(trace) => prev = trace)
      /\ IsLoaded(trace) \/ prev.records = <<>>
  BY NoFileTyped DEF BuilderInv, TypeOK
<1> HIDE DEF prev
<1>3. /\ run \in Program /\ run' \in Program /\ run'.prev = prev /\ run'.built = run.built /\ run'.traceOpen = run.traceOpen
      /\ run'.put = run.put /\ run'.flushed = run.flushed /\ run'.next = run.next /\ run'.cache = run.cache
      /\ run'.cut = run.cut /\ run'.prevOpened = run.prevOpened
      /\ run'.shaders = run.shaders /\ run'.atTrace = run.atTrace /\ run'.document = run.document
  <2>1. run \in Program
    BY DEF BuilderInv, TypeOK
  <2>2. QED
    BY <1>1, <1>2, <2>1 DEF Program
<1>4. ~run.traceOpen /\ (IsLoaded(trace) => All = trace.records) /\ All' = All /\ Unknown' = Unknown
  <2>1. ~run.traceOpen
    BY <1>1 DEF BuilderInv, TraceInv, Building, Unopened
  <2>2. IsLoaded(trace) => All = trace.records
    BY <2>1 DEF All, Readable
  <2>3. QED
    BY <1>1, <1>3, <2>1, <2>2 DEF All, Unknown
<1>5. pc' \in {"loadManifest", "checkManifest", "asserted"}
  BY <1>1
<1>6. TypeOK' /\ EventsInv' /\ PastInv'
  <2>1. pc' \in Ended \cup Checking \cup Building
    BY <1>5 DEF Ended, Checking, Building
  <2>2. TypeOK'
    BY <1>1, <1>3, <2>1 DEF BuilderInv, TypeOK
  <2>3. EventsInv' /\ PastInv'
    BY <1>1, <1>3 DEF BuilderInv, EventsInv, PastInv
  <2>4. QED
    BY <2>2, <2>3
<1>7. CacheInv'
  <2>1. \A f \in SourceFiles : TimeOf(sources[f])' = TimeOf(sources[f])
    BY <1>1 DEF TimeOf
  <2>2. QED
    BY <1>1, <1>3, <2>1 DEF BuilderInv, CacheInv
<1>8. TraceInv'
  BY <1>1, <1>2, <1>3, <1>4 DEF BuilderInv, TraceInv
<1>9. RecordsInv'
  <2>1. BlobsSound(blobs, <<>>)
    BY DEF BlobsSound
  <2>2. BlobsSound(blobs, prev.records)
    BY <1>2, <1>4, <2>1 DEF BuilderInv, RecordsInv
  <2>3. QED
    BY <1>1, <1>3, <1>4, <1>5, <2>2 DEF BuilderInv, RecordsInv
<1>10. PhaseInv'
  BY <1>1, <1>3, <1>5 DEF BuilderInv, PhaseInv, Checking, Unopened
<1>11. CalmInv'
  BY <1>3, <1>4, <1>5 DEF CalmInv, Building
<1>12. CheckInv'
  <2>1. pc' = "checkManifest" => IsLoaded(trace) /\ trace.records # <<>> /\ prev = trace
    BY <1>1, <1>2 DEF HasManifestRecord
  <2>2. run.next = 0
    BY <1>1 DEF BuilderInv, CheckInv
  <2>3. QED
    BY <1>1, <1>3, <1>5, <2>1, <2>2 DEF CheckInv
<1>13. SettledInv'
  <2>1. settled => IsLoaded(trace) /\ trace.records # <<>>
    BY DEF BuilderInv, SettledInv, IsComplete
  <2>2. settled => pc' = "checkManifest"
    BY <1>1, <2>1 DEF HasManifestRecord
  <2>3. \A f \in SourceFiles : TimeOf(sources[f])' = TimeOf(sources[f])
    BY <1>1 DEF TimeOf
  <2>4. \A k \in DOMAIN trace.records : IsSource(trace.records, k) => trace.records[k].path \in SourceFiles
    BY Typed, RecordsTyped DEF BuilderInv
  <2>5. QED
    BY <1>1, <2>2, <2>3, <2>4 DEF BuilderInv, SettledInv, Checking
<1>14. UpToDateSound'
  BY <1>5 DEF UpToDateSound
<1>15. StopsExplained'
  <2>1. pc' = "asserted" => IsLoaded(trace) /\ trace.records = <<>>
    BY <1>1 DEF HasManifestRecord
  <2>2. pc' = "asserted" => prev.header /\ prev.records = <<>>
    BY <1>2, <2>1 DEF IsLoaded
  <2>3. QED
    BY <1>3, <2>2 DEF StopsExplained
<1>16. QED
  BY <1>6, <1>7, <1>8, <1>9, <1>10, <1>11, <1>12, <1>13, <1>14, <1>15 DEF BuilderInv

(* A step that compares the last build with what there is: what it leaves  *)
(* alone, and what is left to show of it.                                  *)
LEMMA Comparing ==
  ASSUME BuilderInv, run' \in Program, inputs' = inputs, outputs' = outputs, history' = history,
         run'.put = run.put, run'.flushed = run.flushed, run'.cut = run.cut,
         run'.prev = run.prev, run'.built = run.built, run'.traceOpen = run.traceOpen,
         pc \in Checking, pc' \in {"checkSources", "checkLibrary", "upToDate", "loadManifest"}
  PROVE  /\ TypeOK' /\ EventsInv' /\ PastInv' /\ RecordsInv' /\ TraceInv' /\ PhaseInv' /\ CalmInv' /\ StopsExplained'
         /\ (settled => pc' # "loadManifest" /\ (pc' \in {"checkSources", "checkLibrary"} => ~run'.outdated))
            => SettledInv'
<1>1. /\ manifest' = manifest /\ sources' = sources /\ blobs' = blobs /\ library' = library /\ trace' = trace
      /\ events' = events /\ disturbed' = disturbed /\ settled' = settled
  BY DEF inputs, outputs, history
<1>2. TypeOK' /\ EventsInv' /\ PastInv' /\ RecordsInv' /\ All' = All
  <2>1. pc' \in Ended \cup Checking \cup Building /\ pc' # "finish"
    BY DEF Ended, Checking, Building
  <2>2. QED
    BY <2>1, Unhindered, Quiet
<1>3. ~run.traceOpen
  BY DEF BuilderInv, TraceInv, Checking, Building, Unopened
<1>4. TraceInv'
  BY <1>1, <1>3 DEF BuilderInv, TraceInv
<1>5. PhaseInv'
  BY <1>1 DEF BuilderInv, PhaseInv, Checking, Unopened
<1>6. CalmInv'
  BY <1>3 DEF CalmInv, Building
<1>7. StopsExplained'
  BY DEF StopsExplained
<1>8. ASSUME settled => pc' # "loadManifest" /\ (pc' \in {"checkSources", "checkLibrary"} => ~run'.outdated)
      PROVE  SettledInv'
  <2>1. \A f \in SourceFiles : TimeOf(sources[f])' = TimeOf(sources[f])
    BY <1>1 DEF TimeOf
  <2>2. \A k \in DOMAIN trace.records : IsSource(trace.records, k) => trace.records[k].path \in SourceFiles
    BY Typed, RecordsTyped DEF BuilderInv
  <2>3. QED
    BY <1>1, <1>8, <2>1, <2>2 DEF BuilderInv, SettledInv, Checking, Ended
<1>9. QED
  BY <1>2, <1>4, <1>5, <1>6, <1>7, <1>8

LEMMA CheckManifestStep == ASSUME BuilderInv, CheckManifest PROVE BuilderInv'
<1> DEFINE outdated == IsOutdated(manifest, ManifestModTime(run.prev))
<1>1. /\ pc = "checkManifest" /\ pc' = "checkSources" /\ run' = [run EXCEPT !.outdated = outdated]
      /\ inputs' = inputs /\ outputs' = outputs /\ history' = history
      /\ manifest' = manifest /\ sources' = sources /\ trace' = trace /\ disturbed' = disturbed
  BY DEF CheckManifest, Goto, NoEvent, inputs, outputs, history
<1>2. outdated \in BOOLEAN /\ (~outdated => TimeOf(manifest) = run.prev.records[1].modTime)
      /\ (TimeOf(manifest) # InvalidTime /\ TimeOf(manifest) = run.prev.records[1].modTime => ~outdated)
  BY DEF IsOutdated, ManifestModTime
<1> HIDE DEF outdated
<1>3. /\ run' \in Program /\ run'.outdated = outdated /\ run'.prev = run.prev /\ run'.built = run.built
      /\ run'.traceOpen = run.traceOpen /\ run'.put = run.put /\ run'.flushed = run.flushed /\ run'.cut = run.cut
      /\ run'.next = run.next /\ run'.cache = run.cache /\ run'.prevOpened = run.prevOpened
  <2>1. run \in Program
    BY DEF BuilderInv, TypeOK
  <2>2. QED
    BY <1>1, <1>2, <2>1 DEF Program
<1>4. run.prev = trace /\ IsLoaded(trace) /\ trace.records # <<>> /\ run.next = 0
  BY <1>1 DEF BuilderInv, CheckInv
<1>5. settled => ~outdated
  <2>1. manifest.modTime # InvalidTime
    BY BuilderAssumption DEF BuilderInv, TypeOK, FileOf, Time, InvalidTime
  <2>2. QED
    BY <1>2, <1>4, <2>1 DEF BuilderInv, SettledInv, TimeOf
<1>6. /\ TypeOK' /\ EventsInv' /\ PastInv' /\ RecordsInv' /\ TraceInv' /\ PhaseInv' /\ CalmInv' /\ StopsExplained' /\ SettledInv'
  <2>1. pc \in Checking
    BY <1>1 DEF Checking
  <2>2. QED
    BY <1>1, <1>3, <1>5, <2>1, Comparing
<1>7. CacheInv'
  <2>1. \A f \in SourceFiles : TimeOf(sources[f])' = TimeOf(sources[f])
    BY <1>1 DEF TimeOf
  <2>2. QED
    BY <1>1, <1>3, <2>1 DEF BuilderInv, CacheInv
<1>8. CheckInv'
  <2>1. \A k \in DOMAIN trace.records : IsSource(trace.records, k) => trace.records[k].index \in Nat
    BY Typed, RecordsTyped DEF BuilderInv
  <2>2. 0 <= SourceCount(run.prev.records)
    <3>1. Len(run.prev.records) + 1 \in Nat \ {0}
      BY Typed, RecordsTyped DEF BuilderInv
    <3>2. QED
      BY <3>1, SourcesCounted DEF SourceCount
  <2>3. TimeOf(manifest)' = TimeOf(manifest)
    BY <1>1 DEF TimeOf
  <2>4. QED
    BY <1>1, <1>2, <1>3, <1>4, <2>1, <2>2, <2>3 DEF CheckInv
<1>9. UpToDateSound'
  BY <1>1 DEF UpToDateSound
<1>10. QED
  BY <1>6, <1>7, <1>8, <1>9 DEF BuilderInv

LEMMA CheckSourceStep == ASSUME BuilderInv, CheckSource PROVE BuilderInv'
<1>1. /\ pc = "checkSources" /\ inputs' = inputs /\ outputs' = outputs /\ history' = history
      /\ manifest' = manifest /\ sources' = sources /\ trace' = trace /\ disturbed' = disturbed
  BY DEF CheckSource, NoEvent, inputs, outputs, history
<1>2. /\ run.prev = trace /\ IsLoaded(trace) /\ trace.records # <<>> /\ run.next <= SourceCount(trace.records)
      /\ trace.records \in Seq(Record) /\ run \in Program /\ run.next \in Nat
  <2>1. run \in Program
    BY DEF BuilderInv, TypeOK
  <2>2. run.next \in Nat
    BY <2>1 DEF Program
  <2>3. QED
    BY <1>1, <2>1, <2>2, Typed DEF BuilderInv, CheckInv
<1>3. \A f \in SourceFiles : TimeOf(sources[f])' = TimeOf(sources[f])
  BY <1>1 DEF TimeOf
<1>4. TimeOf(manifest)' = TimeOf(manifest)
  BY <1>1 DEF TimeOf
<1>5. pc \in Checking
  BY <1>1 DEF Checking
<1>6. CASE run.next = SourceCount(run.prev.records)
  <2>1. pc' = "checkLibrary" /\ run' = run
    BY <1>6 DEF CheckSource, Goto
  <2>2. settled => ~run.outdated
    BY <1>1 DEF BuilderInv, SettledInv
  <2>3. /\ TypeOK' /\ EventsInv' /\ PastInv' /\ RecordsInv' /\ TraceInv' /\ PhaseInv' /\ CalmInv' /\ StopsExplained' /\ SettledInv'
    BY <1>1, <1>2, <1>5, <2>1, <2>2, Comparing
  <2>4. CacheInv'
    BY <1>1, <1>3, <2>1 DEF BuilderInv, CacheInv
  <2>5. CheckInv'
    BY <1>1, <1>2, <1>4, <1>6, <2>1 DEF BuilderInv, CheckInv
  <2>6. UpToDateSound'
    BY <2>1 DEF UpToDateSound
  <2>7. QED
    BY <2>3, <2>4, <2>5, <2>6 DEF BuilderInv
<1>7. CASE run.next # SourceCount(run.prev.records)
  <2>1. PICK n \in Nat \ {0} : n = Len(trace.records) + 1
    BY <1>2, RecordsTyped
  <2>2. SourceCount(trace.records) = SourcesBefore(trace.records, n) /\ SourcesBefore(trace.records, n) \in Nat
    BY <2>1, SourcesCounted DEF SourceCount
  <2>3. PICK k : IsSource(trace.records, k) /\ trace.records[k].index = run.next
    <3>1. run.next < SourcesBefore(trace.records, n) /\ n \in 1..(Len(trace.records) + 1)
      BY <1>2, <1>7, <2>1, <2>2
    <3>2. WellFormed(trace.records)
      BY <1>2 DEF IsLoaded
    <3>3. QED
      BY <1>2, <3>1, <3>2, SourceKnown
  <2>4. PICK record : record = trace.records[k]
    OBVIOUS
  <2>5. SourceFile(run.prev, run.next) = record
    BY <1>2, <2>3, <2>4, SourceFound DEF IsLoaded
  <2>6. record.path \in SourceFiles /\ record.modTime \in FileTime
    BY <1>2, <2>3, <2>4, RecordsTyped
  <2>7. PICK cache : cache = Open(record.path)
    OBVIOUS
  <2>8. OpenedAs(cache, record.path)
    BY <2>6, <2>7, Opening DEF BuilderInv
  <2>9. PICK opened, outdated :
          /\ opened = (IF cache[record.path].modTime = InvalidTime THEN run.prevOpened ELSE run.prevOpened \cup {record.path})
          /\ outdated = (run.outdated \/ cache[record.path].modTime # record.modTime)
    OBVIOUS
  <2>10. pc' = pc /\ run' = [run EXCEPT !.cache = cache, !.next = run.next + 1, !.prevOpened = opened, !.outdated = outdated]
    BY <1>7, <2>5, <2>7, <2>9 DEF CheckSource
  <2>11. cache \in [SourceFiles -> [modTime : Nat, text : Text \cup {None}]] /\ opened \in SUBSET SourceFiles /\ outdated \in BOOLEAN
    <3>1. run.prevOpened \in SUBSET SourceFiles
      BY <1>2 DEF Program
    <3>2. opened \in SUBSET SourceFiles
      BY <2>6, <2>9, <3>1
    <3>3. QED
      BY <2>8, <2>9, <3>2 DEF OpenedAs
  <2>12. /\ run' \in Program /\ run'.cache = cache /\ run'.next = run.next + 1 /\ run'.prevOpened = opened
         /\ run'.outdated = outdated /\ run'.prev = run.prev /\ run'.built = run.built
         /\ run'.traceOpen = run.traceOpen /\ run'.put = run.put /\ run'.flushed = run.flushed /\ run'.cut = run.cut
    <3>1. PICK next \in Nat : next = run.next + 1
      BY <1>2
    <3>2. run' = [run EXCEPT !.cache = cache, !.next = next, !.prevOpened = opened, !.outdated = outdated]
      BY <2>10, <3>1
    <3>3. QED
      BY <1>2, <2>11, <3>1, <3>2 DEF Program
  <2>13. settled => ~outdated
    <3>1. ASSUME settled PROVE cache[record.path].modTime = record.modTime
      <4>1. record.modTime = TimeOf(sources[record.path]) /\ ~disturbed
        BY <2>3, <2>4, <3>1 DEF BuilderInv, SettledInv, IsSource
      <4>2. cache[record.path].modTime # InvalidTime
        BY <2>6, <2>8, <4>1 DEF OpenedAs, FileTime
      <4>3. QED
        BY <2>6, <2>8, <4>1, <4>2 DEF OpenedAs
    <3>2. settled => ~run.outdated
      BY <1>1 DEF BuilderInv, SettledInv
    <3>3. QED
      BY <2>9, <3>1, <3>2
  <2>14. /\ TypeOK' /\ EventsInv' /\ PastInv' /\ RecordsInv' /\ TraceInv' /\ PhaseInv' /\ CalmInv' /\ StopsExplained' /\ SettledInv'
    BY <1>1, <1>5, <2>10, <2>12, <2>13, Comparing
  <2>15. CacheInv'
    <3>1. \A f \in opened : cache[f].modTime # InvalidTime
      <4>1. \A f \in run.prevOpened : f \in SourceFiles /\ run.cache[f].modTime # InvalidTime
        BY <1>2 DEF BuilderInv, CacheInv, Program
      <4>2. \A f \in run.prevOpened : cache[f].modTime # InvalidTime
        BY <2>8, <4>1 DEF OpenedAs
      <4>3. QED
        BY <2>9, <4>2
    <3>2. QED
      BY <1>1, <1>3, <2>8, <2>12, <3>1 DEF OpenedAs, CacheInv
  <2>16. CheckInv'
    <3>1. run.next + 1 <= SourceCount(trace.records)
      BY <1>2, <1>7, <2>2
    <3>2. ASSUME ~disturbed, ~outdated
          PROVE  /\ trace.records[1].modTime = TimeOf(manifest)
                 /\ \A m \in DOMAIN trace.records :
                      IsSource(trace.records, m) /\ trace.records[m].index < run.next + 1 =>
                        trace.records[m].modTime = cache[trace.records[m].path].modTime
      <4>1. ~run.outdated /\ cache[record.path].modTime = record.modTime
        BY <2>9, <3>2
      <4>2. /\ trace.records[1].modTime = TimeOf(manifest)
            /\ \A m \in DOMAIN trace.records :
                 IsSource(trace.records, m) /\ trace.records[m].index < run.next =>
                   trace.records[m].modTime = run.cache[trace.records[m].path].modTime
        BY <1>1, <3>2, <4>1 DEF BuilderInv, CheckInv
      <4>3. ASSUME NEW m \in DOMAIN trace.records, IsSource(trace.records, m), trace.records[m].index < run.next + 1
            PROVE  trace.records[m].modTime = cache[trace.records[m].path].modTime
        <5>1. trace.records[m].index \in Nat /\ trace.records[m].path \in SourceFiles /\ trace.records[m].modTime \in FileTime
          BY <1>2, <4>3, RecordsTyped
        <5>2. CASE trace.records[m].index = run.next
          <6>1. m = k
            BY <1>2, <2>3, <4>3, <5>2, SourcesDiffer DEF IsLoaded
          <6>2. QED
            BY <2>4, <4>1, <6>1
        <5>3. CASE trace.records[m].index < run.next
          <6>1. trace.records[m].modTime = run.cache[trace.records[m].path].modTime
            BY <4>2, <4>3, <5>3
          <6>2. cache[trace.records[m].path] = run.cache[trace.records[m].path]
            BY <2>8, <5>1, <6>1 DEF OpenedAs, FileTime
          <6>3. QED
            BY <6>1, <6>2
        <5>4. QED
          BY <1>2, <4>3, <5>1, <5>2, <5>3
      <4>4. QED
        BY <4>2, <4>3
    <3>3. QED
      BY <1>1, <1>2, <1>4, <2>10, <2>12, <3>1, <3>2 DEF CheckInv
  <2>17. UpToDateSound'
    BY <1>1, <2>10 DEF UpToDateSound
  <2>18. QED
    BY <2>14, <2>15, <2>16, <2>17 DEF BuilderInv
<1>8. QED
  BY <1>6, <1>7

(* Only here is a library called up to date.                               *)
LEMMA CheckLibraryStep == ASSUME BuilderInv, CheckLibrary PROVE BuilderInv'
<1>1. /\ pc = "checkLibrary" /\ run' = run /\ inputs' = inputs /\ outputs' = outputs /\ history' = history
      /\ manifest' = manifest /\ sources' = sources /\ library' = library /\ trace' = trace /\ disturbed' = disturbed
      /\ pc' = IF run.outdated \/ ~WasBuildSuccessful(run.prev) THEN "loadManifest"
               ELSE IF IsOutdated(library, BuiltLibraryModTime(run.prev)) THEN "loadManifest" ELSE "upToDate"
  BY DEF CheckLibrary, Goto, NoEvent, inputs, outputs, history
<1>2. pc' \in {"upToDate", "loadManifest"}
  BY <1>1
<1>3. PICK records : records = trace.records
  OBVIOUS
<1>4. /\ run.prev = trace /\ IsLoaded(trace) /\ records # <<>> /\ run.next = SourceCount(records)
      /\ records \in Seq(Record) /\ run \in Program /\ WellFormed(records)
  <2>1. run \in Program
    BY DEF BuilderInv, TypeOK
  <2>2. QED
    BY <1>1, <1>3, <2>1, Typed DEF BuilderInv, CheckInv, IsLoaded
<1>5. \A f \in SourceFiles : TimeOf(sources[f])' = TimeOf(sources[f])
  BY <1>1 DEF TimeOf
<1>6. /\ Len(records) \in Nat /\ DOMAIN records = 1..Len(records)
      /\ \A k : IsSource(records, k) =>
           records[k].index \in Nat /\ records[k].path \in SourceFiles /\ records[k].modTime \in FileTime
  BY <1>4, RecordsTyped
<1>7. Last(records) = records[Len(records)]
  BY DEF Last
<1>8. settled => pc' = "upToDate"
  <2>1. SUFFICES ASSUME settled PROVE pc' = "upToDate"
    OBVIOUS
  <2>2. /\ ~run.outdated /\ IsComplete(records) /\ library.content # None
        /\ records[Len(records)].modTime = library.modTime
    BY <1>1, <1>3, <2>1 DEF BuilderInv, SettledInv
  <2>3. library.modTime # InvalidTime
    BY DEF BuilderInv, TypeOK, FileOf, FileTime
  <2>4. WasBuildSuccessful(run.prev) /\ BuiltLibraryModTime(run.prev) = library.modTime
    BY <1>3, <1>4, <1>7, <2>2 DEF WasBuildSuccessful, BuiltLibraryModTime, IsComplete
  <2>5. ~IsOutdated(library, BuiltLibraryModTime(run.prev))
    BY <2>2, <2>3, <2>4 DEF IsOutdated, TimeOf
  <2>6. QED
    BY <1>1, <2>2, <2>4, <2>5
<1>9. /\ TypeOK' /\ EventsInv' /\ PastInv' /\ RecordsInv' /\ TraceInv' /\ PhaseInv' /\ CalmInv' /\ StopsExplained' /\ SettledInv'
  <2>1. pc \in Checking
    BY <1>1 DEF Checking
  <2>2. QED
    BY <1>1, <1>2, <1>4, <1>8, <2>1, Comparing
<1>10. CacheInv'
  BY <1>1, <1>5 DEF BuilderInv, CacheInv
<1>11. CheckInv'
  BY <1>2 DEF CheckInv
<1>12. UpToDateSound'
  <2>1. SUFFICES ASSUME pc' = "upToDate", ~disturbed PROVE LibraryCurrent(trace.missing)'
    BY <1>1 DEF UpToDateSound
  <2>2. ~run.outdated /\ IsComplete(records) /\ library.content # None
        /\ records[Len(records)].modTime = library.modTime
    <3>1. WasBuildSuccessful(run.prev) /\ ~IsOutdated(library, BuiltLibraryModTime(run.prev)) /\ ~run.outdated
      BY <1>1, <2>1
    <3>2. library.content # None
      BY <3>1 DEF IsOutdated, TimeOf
    <3>3. QED
      BY <1>3, <1>4, <1>7, <3>1, <3>2 DEF WasBuildSuccessful, BuiltLibraryModTime, IsOutdated, TimeOf, IsComplete
  <2>3. ContentSound(library.content, records, trace.missing)
    BY <1>3, <1>4, <2>2, TraceSound DEF LibrarySound
  <2>4. /\ records[1].modTime = TimeOf(manifest)
        /\ \A k \in DOMAIN records :
             IsSource(records, k) /\ records[k].index < run.next => records[k].modTime = run.cache[records[k].path].modTime
    BY <1>1, <1>3, <2>1, <2>2 DEF BuilderInv, CheckInv
  <2>5. ASSUME NEW k, IsSource(records, k)
        PROVE  sources[records[k].path].content # None /\ records[k].modTime = sources[records[k].path].modTime
    <3>1. k \in 1..Len(records) /\ records[k].path \in SourceFiles /\ records[k].modTime \in FileTime
      BY <1>6, <2>5 DEF IsSource
    <3>2. records[k].index < SourcesBefore(records, Len(records) + 1)
      <4>1. Len(records) + 1 \in (k + 1)..(Len(records) + 1)
        BY <1>6, <3>1
      <4>2. QED
        BY <1>4, <2>5, <4>1, SourceNumbered
    <3>3. records[k].modTime = run.cache[records[k].path].modTime
      BY <1>4, <2>4, <2>5, <3>1, <3>2, <1>6 DEF SourceCount
    <3>4. records[k].modTime = TimeOf(sources[records[k].path])
      BY <2>1, <3>1, <3>3 DEF BuilderInv, CacheInv, FileTime
    <3>5. QED
      BY <3>1, <3>4 DEF TimeOf, FileTime
  <2>6. PICK content : content = library.content
    OBVIOUS
  <2>7. content.atLoad = TimeOf(manifest) \/ content.atLoad # content.atTrace
    BY <2>3, <2>4, <2>6 DEF ContentSound
  <2>8. ASSUME NEW entry \in content.shaders, ~(entry.built.reused /\ entry.built.blob.misdated)
        PROVE  LET blob == entry.built.blob IN
               /\ blob.whole /\ SourcesCurrent(blob, trace.missing)
               /\ blob.type = entry.shader.type /\ blob.entry = entry.shader.entry
               /\ Low32(blob.layoutXSH) = Low32(entry.shader.layoutXSH)
               /\ ~entry.built.reused => blob.layoutXSH = entry.shader.layoutXSH /\ blob.layout = entry.shader.layout
    <3>1. PICK blob : blob = entry.built.blob
      OBVIOUS
    <3>2. entry.built # None /\ EntrySound(records, entry.shader, entry.built, trace.missing)
      BY <2>3, <2>6, <2>8 DEF ContentSound
    <3>3. /\ blob.whole /\ blob.type = entry.shader.type /\ blob.entry = entry.shader.entry
          /\ Low32(blob.layoutXSH) = Low32(entry.shader.layoutXSH)
          /\ ~entry.built.reused => blob.layoutXSH = entry.shader.layoutXSH /\ blob.layout = entry.shader.layout
          /\ \A v \in blob.versions : v[1] \in trace.missing \/ \E k \in DOMAIN records : Tracks(records, v, k)
      BY <2>8, <3>1, <3>2 DEF EntrySound
    <3>4. Past(sources, blob) /\ \A v \in blob.versions : v[1] \in SourceFiles /\ v[2] \in Nat
      <4>1. content \in LibraryContent
        BY <2>2, <2>6 DEF BuilderInv, TypeOK, FileOf
      <4>2. entry.built \in Built
        BY <2>8, <3>2, <4>1 DEF LibraryContent
      <4>3. blob.versions \in SUBSET (SourceFiles \X FileTime)
        BY <3>1, <4>2 DEF Built, Blob
      <4>4. Past(sources, blob)
        BY <2>2, <2>6, <2>8, <3>1, <3>2 DEF BuilderInv, PastInv, PastContent
      <4>5. QED
        BY <4>3, <4>4 DEF FileTime
    <3>5. ASSUME NEW v \in blob.versions, v[1] \notin trace.missing
          PROVE  sources[v[1]].content # None /\ sources[v[1]].modTime = v[2]
      <4>1. PICK k \in DOMAIN records : Tracks(records, v, k)
        BY <3>3, <3>5
      <4>2. sources[v[1]].content # None /\ sources[v[1]].modTime <= v[2]
        BY <2>5, <4>1 DEF Tracks
      <4>3. v[2] <= sources[v[1]].modTime /\ v[2] \in Nat /\ v[1] \in SourceFiles
        BY <3>4 DEF Past
      <4>4. sources[v[1]].modTime \in Nat
        BY <4>3, BuilderAssumption DEF BuilderInv, TypeOK, FileOf, Time
      <4>5. QED
        BY <4>2, <4>3, <4>4
    <3>6. QED
      BY <3>1, <3>3, <3>5 DEF SourcesCurrent
  <2>9. LibraryCurrent(trace.missing)
    BY <2>2, <2>3, <2>6, <2>7, <2>8 DEF LibraryCurrent, ContentSound
  <2>10. QED
    BY <1>1, <2>9 DEF LibraryCurrent, SourcesCurrent, TimeOf
<1>13. QED
  BY <1>9, <1>10, <1>11, <1>12 DEF BuilderInv

-----------------------------------------------------------------------------
(* The manifest is loaded, and the trace begun.                            *)
LEMMA LoadManifestFileStep == ASSUME BuilderInv, LoadManifestFile PROVE BuilderInv'
<1> DEFINE loaded == IF manifest.content = None THEN Failed(Begin, "rejected") ELSE Loads[manifest.content]
<1>1. /\ pc = "loadManifest" /\ inputs' = inputs /\ outputs' = outputs /\ history' = history
      /\ manifest' = manifest /\ sources' = sources /\ trace' = trace /\ disturbed' = disturbed /\ settled' = settled
  BY DEF LoadManifestFile, NoEvent, inputs, outputs, history
<1>2. /\ pc' = IF loaded.status = "assert" THEN "asserted"
               ELSE IF loaded.status = "rejected" \/ loaded.shaders = <<>> THEN "failed" ELSE "openTrace"
      /\ run' = [run EXCEPT !.shaders = loaded.shaders, !.document = manifest.content,
                            !.atLoad = TimeOf(manifest), !.next = 1]
  BY DEF LoadManifestFile, Goto
<1>3. /\ manifest.content \in DOMAIN Documents \cup {None} /\ TimeOf(manifest) \in Nat
      /\ run \in Program
  BY BuilderAssumption DEF BuilderInv, TypeOK, FileOf, Time, TimeOf, InvalidTime
<1>4. /\ loaded.shaders \in {<<>>} \cup {Loads[d].shaders : d \in DOMAIN Documents}
      /\ loaded.status = "assert" \/ loaded.shaders # <<>> => manifest.content # None
      /\ manifest.content # None => loaded = Loads[manifest.content]
  <2>1. CASE manifest.content = None
    <3>1. loaded.shaders = <<>> /\ loaded.status = "rejected"
      BY <2>1 DEF Failed, Begin
    <3>2. QED
      BY <2>1, <3>1
  <2>2. CASE manifest.content # None
    BY <1>3, <2>2
  <2>3. QED
    BY <2>1, <2>2
<1> HIDE DEF loaded
<1>5. /\ run' \in Program /\ run'.next = 1 /\ run'.document = manifest.content
      /\ run'.prev = run.prev /\ run'.built = run.built /\ run'.traceOpen = run.traceOpen
      /\ run'.put = run.put /\ run'.flushed = run.flushed /\ run'.cut = run.cut
      /\ run'.cache = run.cache /\ run'.prevOpened = run.prevOpened
  BY <1>2, <1>3, <1>4 DEF Program
<1>6. pc' \in {"asserted", "failed", "openTrace"}
  BY <1>2
<1>7. TypeOK' /\ EventsInv' /\ PastInv' /\ RecordsInv' /\ All' = All
  <2>1. pc' \in Ended \cup Checking \cup Building /\ pc' # "finish"
    BY <1>6 DEF Ended, Building
  <2>2. QED
    BY <1>1, <1>5, <2>1, Unhindered, Quiet
<1>8. CacheInv'
  <2>1. \A f \in SourceFiles : TimeOf(sources[f])' = TimeOf(sources[f])
    BY <1>1 DEF TimeOf
  <2>2. QED
    BY <1>1, <1>5, <2>1 DEF BuilderInv, CacheInv
<1>9. ~run.traceOpen
  BY <1>1 DEF BuilderInv, TraceInv, Unopened
<1>10. TraceInv'
  BY <1>1, <1>5, <1>9 DEF BuilderInv, TraceInv
<1>11. PhaseInv'
  BY <1>1, <1>5, <1>6 DEF BuilderInv, PhaseInv, Unopened, Checking
<1>12. CalmInv'
  <2>1. pc' = "openTrace" => manifest.content # None
    BY <1>2, <1>4
  <2>2. QED
    BY <1>1, <1>5, <1>6, <1>9, <2>1 DEF CalmInv, Building
<1>13. CheckInv' /\ UpToDateSound'
  BY <1>6 DEF CheckInv, UpToDateSound
<1>14. SettledInv'
  <2>1. ~settled
    BY <1>1 DEF BuilderInv, SettledInv, Ended, Checking
  <2>2. QED
    BY <1>1, <2>1 DEF SettledInv
<1>15. StopsExplained'
  BY <1>2, <1>4, <1>5 DEF StopsExplained
<1>16. QED
  BY <1>7, <1>8, <1>10, <1>11, <1>12, <1>13, <1>14, <1>15 DEF BuilderInv

LEMMA OpenTraceStep == ASSUME BuilderInv, OpenTrace PROVE BuilderInv'
<1>1. /\ pc = "openTrace" /\ pc' = "loadCached"
      /\ manifest' = manifest /\ sources' = sources /\ blobs' = blobs /\ library' = library
  BY DEF OpenTrace, Goto, inputs
<1>2. PICK ok \in BOOLEAN :
        /\ Outcome(ok)
        /\ run' = [run EXCEPT !.traceOpen = ok, !.atTrace = TimeOf(manifest),
                              !.put = IF ok THEN <<ManifestRecord(ManifestTimeForTrace)>> ELSE <<>>]
        /\ trace' = IF ok THEN NoFile ELSE trace
  BY DEF OpenTrace
<1>3. /\ events' \in events..MaxEvents /\ disturbed' \in BOOLEAN /\ settled' \in BOOLEAN
      /\ events' \in 0..MaxEvents /\ (settled' => settled) /\ (~disturbed' => ok /\ ~disturbed)
  BY <1>2, Outcomes DEF Later
<1>4. PICK first : first = ManifestRecord(TimeOf(manifest))
  OBVIOUS
<1>5. TimeOf(manifest) \in Nat /\ first \in Record /\ first.kind = "manifest" /\ first.modTime = TimeOf(manifest)
  <2>1. TimeOf(manifest) \in Nat
    BY BuilderAssumption DEF BuilderInv, TypeOK, FileOf, Time, TimeOf, InvalidTime
  <2>2. QED
    BY <1>4, <2>1 DEF ManifestRecord, Record
<1>6. PICK put : put = IF ok THEN <<first>> ELSE <<>>
  OBVIOUS
<1>7. /\ put \in Seq(Record) /\ (~ok => put = <<>>)
      /\ ok => put = <<first>> /\ Len(put) = 1 /\ DOMAIN put = 1..1 /\ put[1] = first /\ put # <<>>
  BY <1>5, <1>6
<1>8. /\ run \in Program /\ run' \in Program /\ run'.traceOpen = ok /\ run'.atTrace = TimeOf(manifest) /\ run'.put = put
      /\ run'.flushed = run.flushed /\ run'.cut = run.cut
      /\ run'.prev = run.prev /\ run'.built = run.built /\ run'.cache = run.cache /\ run'.prevOpened = run.prevOpened
      /\ run'.shaders = run.shaders /\ run'.next = run.next
  <2>1. run \in Program
    BY DEF BuilderInv, TypeOK
  <2>2. run' = [run EXCEPT !.traceOpen = ok, !.atTrace = TimeOf(manifest), !.put = put]
    BY <1>2, <1>4, <1>6 DEF ManifestTimeForTrace
  <2>3. QED
    BY <1>5, <1>7, <2>1, <2>2 DEF Program
<1>9. trace' \in TraceFile /\ (ok => trace' = NoFile) /\ (~ok => trace' = trace)
  BY <1>2, NoFileTyped DEF BuilderInv, TypeOK
<1>10. ~run.traceOpen /\ run.flushed = 0 /\ ~run.cut
  <2>1. ~run.traceOpen /\ ~run.cut
    BY <1>1 DEF BuilderInv, TraceInv, Unopened
  <2>2. run.put = <<>> /\ run.flushed \in 0..Len(run.put)
    BY <2>1, Typed DEF BuilderInv, TypeOK
  <2>3. run.flushed \in 0..0
    BY <2>2, EmptySeq
  <2>4. QED
    BY <2>1, <2>3
<1>11. /\ WellFormed(put) /\ NoLibrary(put) /\ ~IsComplete(put)
       /\ ok => All' = put /\ Unknown' = {}
       /\ ~ok => All' = All /\ Unknown' = Unknown
  <2>1. CASE ok
    <3>1. \A i \in DOMAIN put : i = 1 /\ put[i].kind = "manifest"
      BY <1>5, <1>7, <2>1
    <3>2. ~IsComplete(put)
      BY <1>5, <1>7, <2>1 DEF IsComplete
    <3>3. QED
      BY <1>8, <2>1, <3>1, <3>2 DEF WellFormed, NoLibrary, All, Unknown
  <2>2. CASE ~ok
    BY <1>7, <1>8, <1>9, <1>10, <2>2 DEF WellFormed, NoLibrary, IsComplete, All, Unknown
  <2>3. QED
    BY <2>1, <2>2
<1>12. TypeOK'
  <2>1. run'.put # <<>> => run'.traceOpen /\ WellFormed(run'.put)
    BY <1>7, <1>8, <1>11
  <2>2. run'.flushed <= Len(run'.put)
    <3>1. Len(put) \in Nat
      BY <1>7, LenProperties
    <3>2. QED
      BY <1>8, <1>10, <3>1
  <2>3. pc' \in Ended \cup Checking \cup Building
    BY <1>1 DEF Building
  <2>4. QED
    BY <1>1, <1>3, <1>8, <1>9, <2>1, <2>2, <2>3 DEF BuilderInv, TypeOK
<1>13. EventsInv'
  BY <1>1, <1>2, Outcomes, EventsCounted DEF inputs
<1>14. PastInv'
  BY <1>1, <1>8 DEF BuilderInv, PastInv
<1>15. CacheInv'
  <2>1. \A f \in SourceFiles : TimeOf(sources[f])' = TimeOf(sources[f])
    BY <1>1 DEF TimeOf
  <2>2. QED
    BY <1>1, <1>3, <1>8, <2>1 DEF BuilderInv, CacheInv
<1>16. TraceInv'
  <2>1. IsLoaded(run.prev) \/ run.prev = NoFile
    BY DEF BuilderInv, TraceInv
  <2>2. ASSUME ok
        PROVE  /\ WellFormed(put) /\ put # <<>> /\ put[1].modTime = TimeOf(manifest) /\ NoLibrary(put)
               /\ TimedBy(run.cache, put) /\ BuiltSound(run.shaders, run.built, put)
    <3>1. TimedBy(run.cache, put)
      BY <1>5, <1>7, <2>2 DEF TimedBy, IsSource
    <3>2. BuiltSound(run.shaders, run.built, put)
      <4>1. \A s \in ToSet(run.shaders) : s.name \in ShaderNames
        BY Typed, DeclaredTyped DEF BuilderInv
      <4>2. \A s \in ShaderNames : run.built[s] = None
        BY <1>1 DEF BuilderInv, PhaseInv, Unopened
      <4>3. QED
        BY <4>1, <4>2 DEF BuiltSound
    <3>3. QED
      BY <1>5, <1>7, <1>11, <2>2, <3>1, <3>2
  <2>3. pc' \in (Building \ Unopened) \cup {"done", "failed"}
    BY <1>1 DEF Building, Unopened
  <2>4. Holds(NoFile, put, 0)
    BY NoFileTyped DEF Holds
  <2>5. QED
    BY <1>8, <1>9, <1>10, <1>11, <2>1, <2>2, <2>3, <2>4 DEF TraceInv
<1>17. RecordsInv'
  <2>1. CASE ok
    <3>1. BlobsSound(blobs, put)
      BY <1>5, <1>7, <2>1 DEF BlobsSound, RecordSound, IsShader
    <3>2. LibrarySound(library, put, {})
      BY <1>11 DEF LibrarySound
    <3>3. QED
      BY <1>1, <1>8, <1>11, <2>1, <3>1, <3>2 DEF BuilderInv, RecordsInv
  <2>2. CASE ~ok
    BY <1>1, <1>8, <1>11, <2>2 DEF BuilderInv, RecordsInv
  <2>3. QED
    BY <2>1, <2>2
<1>18. PhaseInv'
  <2>1. run.next # 0
    BY <1>1 DEF BuilderInv, PhaseInv
  <2>2. QED
    BY <1>1, <1>8, <2>1 DEF PhaseInv, Checking, Unopened
<1>19. CalmInv'
  <2>1. ~disturbed => manifest.content # None
    BY <1>1 DEF BuilderInv, CalmInv, Building
  <2>2. TimeOf(manifest)' = TimeOf(manifest)
    BY <1>1 DEF TimeOf
  <2>3. ok => HoldsAll(NoFile, put, 0)
    <3>1. SubSeq(put, 1, 0) = <<>>
      BY SubSeqEmpty
    <3>2. QED
      BY <3>1 DEF HoldsAll, NoFile
  <2>4. QED
    BY <1>1, <1>3, <1>8, <1>9, <1>10, <1>11, <2>1, <2>2, <2>3 DEF CalmInv
<1>20. CheckInv' /\ SettledInv' /\ UpToDateSound' /\ StopsExplained'
  <2>1. pc \in Building /\ pc' \notin Checking \cup {"upToDate", "asserted"}
    BY <1>1 DEF Checking, Building
  <2>2. QED
    BY <1>3, <2>1, InBuild
<1>21. QED
  BY <1>12, <1>13, <1>14, <1>15, <1>16, <1>17, <1>18, <1>19, <1>20 DEF BuilderInv

(* What a flush leaves in the file.                                        *)
LEMMA FlushedHolds ==
  ASSUME BuilderInv, run.traceOpen, NEW n \in run.flushed..Len(run.put), NEW m \in run.flushed..n,
         NEW header \in BOOLEAN, NEW new, new = FlushedTo(m, n, header)
  PROVE  new \in TraceFile /\ Holds(new, All, n)
<1>1. /\ trace \in TraceFile /\ trace.records \in Seq(Record) /\ run.put \in Seq(Record)
      /\ All = run.put /\ run.flushed \in 0..Len(run.put)
  BY Typed DEF BuilderInv, TypeOK
<1>2. Holds(trace, run.put, run.flushed)
  BY <1>1 DEF BuilderInv, TraceInv
<1>3. new.header \in BOOLEAN
  BY <1>1 DEF FlushedTo, TraceFile
<1>4. PICK there, lost : there = SubSeq(run.put, run.flushed + 1, m) /\ lost = SubSeq(run.put, m + 1, n)
  OBVIOUS
<1>5. /\ new.records = trace.records \o there /\ new.missing = trace.missing \cup SourcePaths(lost)
      /\ new = [header |-> new.header, records |-> new.records, missing |-> new.missing]
  BY <1>4 DEF FlushedTo
<1>6. PICK all, f : all = run.put /\ f = run.flushed
  OBVIOUS
<1>7. all \in Seq(Record) /\ f \in 0..Len(all) /\ n \in f..Len(all) /\ m \in f..n
  BY <1>1, <1>6
<1>8. there \in Seq(Record) /\ IsPiece(there, all, f + 1, m)
  <2>1. PICK p \in Nat \ {0}, q \in 0..Len(all) : p = f + 1 /\ q = m
    BY <1>7, LenProperties
  <2>2. there = SubSeq(all, p, q)
    BY <1>4, <1>6, <2>1
  <2>3. there \in Seq(Record) /\ IsPiece(there, all, p, q)
    BY <1>7, <2>2, PiecesOf
  <2>4. QED
    BY <2>1, <2>3
<1>9. lost \in Seq(Record) /\ IsPiece(lost, all, m + 1, n)
  <2>1. PICK p \in Nat \ {0}, q \in 0..Len(all) : p = m + 1 /\ q = n
    BY <1>7, LenProperties
  <2>2. lost = SubSeq(all, p, q)
    BY <1>4, <1>6, <2>1
  <2>3. lost \in Seq(Record) /\ IsPiece(lost, all, p, q)
    BY <1>7, <2>2, PiecesOf
  <2>4. QED
    BY <2>1, <2>3
<1>10. new.records \in Seq(Record) /\ Holds(new, all, n)
  <2>1. PICK file : file = trace
    OBVIOUS
  <2>2. /\ file.records \in Seq(Record) /\ Holds(file, all, f)
        /\ new.records = file.records \o there /\ new.missing = file.missing \cup SourcePaths(lost)
    BY <1>1, <1>2, <1>5, <1>6, <2>1
  <2>3. QED
    BY <1>7, <1>8, <1>9, <2>2, PartHeld
<1>11. new.missing \in SUBSET SourceFiles
  <2>1. \A i \in DOMAIN lost : lost[i] \in Record
    BY <1>9, LenProperties, ElementOfSeq
  <2>2. SourcePaths(lost) \in SUBSET SourceFiles
    BY <2>1, RecordTyped DEF SourcePaths, SourceRecords, OfKind, ToSet
  <2>3. QED
    BY <1>1, <1>5, <2>2 DEF TraceFile
<1>12. QED
  BY <1>1, <1>3, <1>5, <1>6, <1>10, <1>11 DEF TraceFile

(* Without failures, that is all that was put.                             *)
LEMMA FlushedWhole ==
  ASSUME BuilderInv, run.traceOpen, HoldsAll(trace, All, run.flushed), NEW n \in run.flushed..Len(run.put),
         NEW new, new = FlushedTo(n, n, TRUE)
  PROVE  HoldsAll(new, All, n)
<1>1. run.put \in Seq(Record) /\ All = run.put /\ run.flushed \in 0..Len(run.put) /\ Len(run.put) \in Nat
  BY Typed, LenProperties DEF BuilderInv
<1>2. /\ trace.records = SubSeq(run.put, 1, run.flushed) /\ trace.missing = {}
      /\ run.flushed > 0 => trace.header
  BY <1>1 DEF HoldsAll
<1>3. SubSeq(run.put, 1, run.flushed) \o SubSeq(run.put, run.flushed + 1, n) = SubSeq(run.put, 1, n)
  <2>1. 1 \in 1..(Len(run.put) + 1) /\ run.flushed \in (1 - 1)..Len(run.put) /\ n \in run.flushed..Len(run.put)
    BY <1>1
  <2>2. QED
    BY <1>1, <2>1, ConcatAdjacentSubSeq
<1>4. SourcePaths(SubSeq(run.put, n + 1, n)) = {}
  <2>1. n \in Int /\ n + 1 > n
    BY <1>1
  <2>2. SubSeq(run.put, n + 1, n) = <<>>
    BY <2>1, SubSeqEmpty
  <2>3. SourcePaths(<<>>) = {}
    BY DEF SourcePaths, SourceRecords, OfKind, ToSet
  <2>4. QED
    BY <2>2, <2>3
<1>5. run.flushed = 0 \/ run.flushed > 0
  BY <1>1
<1>6. QED
  BY <1>1, <1>2, <1>3, <1>4, <1>5 DEF FlushedTo, HoldsAll

(* What a flush did: the file has the records up to m, and the buffer those *)
(* behind n.                                                               *)
Written(n, m, header) ==
  /\ m \in run.flushed..n /\ trace' = FlushedTo(m, n, header)
  /\ run' \in Program /\ run'.flushed = n /\ run'.put = run.put
  /\ run'.traceOpen = run.traceOpen /\ run'.atTrace = run.atTrace /\ run'.afterFlush = run.afterFlush
  /\ run'.prev = run.prev /\ run'.built = run.built /\ run'.cache = run.cache /\ run'.prevOpened = run.prevOpened
  /\ run'.shaders = run.shaders /\ run'.next = run.next
  /\ pc' \in {"flush", run.afterFlush}
  /\ events' \in events..MaxEvents /\ disturbed' \in BOOLEAN /\ settled' \in BOOLEAN
  /\ settled' => ~disturbed' /\ pc' = "done"
  /\ ~disturbed' => /\ ~disturbed /\ n = Len(run.put) /\ pc' = run.afterFlush /\ run'.cut = run.cut
                    /\ ~run.cut => trace' = FlushedTo(n, n, TRUE)

LEMMA FlushStep == ASSUME BuilderInv, Flush PROVE BuilderInv'
<1>1. /\ pc = "flush" /\ run.traceOpen /\ run \in Program
      /\ manifest' = manifest /\ sources' = sources /\ blobs' = blobs /\ library' = library
  BY DEF Flush, inputs, BuilderInv, PhaseInv, TypeOK
<1>2. /\ run.put \in Seq(Record) /\ All = run.put /\ run.flushed \in 0..Len(run.put)
      /\ Len(run.put) \in Nat /\ MaxEvents \in Nat
      /\ events \in 0..MaxEvents /\ disturbed \in BOOLEAN /\ settled \in BOOLEAN /\ ~settled
  <2>1. ~settled
    BY <1>1 DEF BuilderInv, SettledInv, Ended, Checking
  <2>2. QED
    BY <1>1, <2>1, Typed, LenProperties, BuilderAssumption DEF BuilderInv, TypeOK
<1>3. PICK n \in run.flushed..Len(run.put), m \in Nat, header \in BOOLEAN : Written(n, m, header)
  <2>1. PICK n \in run.flushed..Len(run.put) :
          \/ n = Len(run.put) /\ pc' = run.afterFlush /\ (WriteSucceeds(n) \/ WriteFails(n))
          \/ pc' \in {"flush", run.afterFlush} /\ WriteFails(n)
    BY DEF Flush, Goto
  <2>2. CASE n = Len(run.put) /\ pc' = run.afterFlush /\ WriteSucceeds(n)
    <3>1. PICK m : m = IF run.cut THEN run.flushed ELSE n
      OBVIOUS
    <3>2. m \in run.flushed..n /\ m \in Nat
      BY <1>2, <3>1
    <3>3. /\ trace' = FlushedTo(m, n, TRUE) /\ run' = [run EXCEPT !.flushed = n]
          /\ settled' = (IF pc' = "done" THEN ~disturbed ELSE settled) /\ events' = events /\ disturbed' = disturbed
      BY <2>2, <3>1 DEF WriteSucceeds
    <3>4. n \in Nat /\ events' \in events..MaxEvents
      BY <1>2, <3>3
    <3>5. /\ run' \in Program /\ run'.flushed = n /\ run'.put = run.put /\ run'.cut = run.cut
          /\ run'.traceOpen = run.traceOpen /\ run'.atTrace = run.atTrace /\ run'.afterFlush = run.afterFlush
          /\ run'.prev = run.prev /\ run'.built = run.built /\ run'.cache = run.cache /\ run'.prevOpened = run.prevOpened
          /\ run'.shaders = run.shaders /\ run'.next = run.next
      BY <1>1, <3>3, <3>4 DEF Program
    <3>6. settled' \in BOOLEAN /\ (settled' => ~disturbed' /\ pc' = "done")
      BY <1>2, <3>3
    <3>7. ~run.cut => trace' = FlushedTo(n, n, TRUE)
      BY <3>1, <3>3
    <3>8. Written(n, m, TRUE)
      BY <1>2, <2>2, <3>2, <3>3, <3>4, <3>5, <3>6, <3>7 DEF Written
    <3>9. QED
      BY <3>2, <3>8
  <2>3. CASE pc' \in {"flush", run.afterFlush} /\ WriteFails(n)
    <3>1. PICK m \in run.flushed..(n - 1), header \in BOOLEAN, cut \in BOOLEAN :
            trace' = FlushedTo(m, n, header) /\ run' = [run EXCEPT !.flushed = n, !.cut = cut]
      BY <2>3 DEF WriteFails
    <3>2. m \in run.flushed..n /\ m \in Nat /\ n \in Nat
      BY <1>2, <3>1
    <3>3. events < MaxEvents /\ events' = events + 1 /\ disturbed' = TRUE /\ settled' = FALSE
      BY <2>3 DEF WriteFails, AnEvent
    <3>4. events' \in events..MaxEvents
      BY <1>2, <3>3
    <3>5. /\ run' \in Program /\ run'.flushed = n /\ run'.put = run.put
          /\ run'.traceOpen = run.traceOpen /\ run'.atTrace = run.atTrace /\ run'.afterFlush = run.afterFlush
          /\ run'.prev = run.prev /\ run'.built = run.built /\ run'.cache = run.cache /\ run'.prevOpened = run.prevOpened
          /\ run'.shaders = run.shaders /\ run'.next = run.next
      BY <1>1, <3>1, <3>2 DEF Program
    <3>6. Written(n, m, header)
      BY <2>3, <3>1, <3>2, <3>3, <3>4, <3>5 DEF Written
    <3>7. QED
      BY <3>2, <3>6
  <2>4. QED
    BY <2>1, <2>2, <2>3
<1>4. /\ m \in run.flushed..n /\ trace' = FlushedTo(m, n, header)
      /\ run' \in Program /\ run'.flushed = n /\ run'.put = run.put
      /\ run'.traceOpen = run.traceOpen /\ run'.atTrace = run.atTrace /\ run'.afterFlush = run.afterFlush
      /\ run'.prev = run.prev /\ run'.built = run.built /\ run'.cache = run.cache /\ run'.prevOpened = run.prevOpened
      /\ run'.shaders = run.shaders /\ run'.next = run.next
      /\ pc' \in {"flush", run.afterFlush}
      /\ events' \in events..MaxEvents /\ disturbed' \in BOOLEAN /\ settled' \in BOOLEAN
      /\ settled' => ~disturbed' /\ pc' = "done"
      /\ ~disturbed' => /\ ~disturbed /\ n = Len(run.put) /\ pc' = run.afterFlush /\ run'.cut = run.cut
                        /\ ~run.cut => trace' = FlushedTo(n, n, TRUE)
  BY <1>3 DEF Written
<1>5. /\ WellFormed(All) /\ All # <<>> /\ All[1].modTime = run.atTrace
      /\ (Finished \/ NoLibrary(All))
      /\ TimedBy(run.cache, All) /\ BuiltSound(run.shaders, run.built, All)
      /\ (IsLoaded(run.prev) \/ run.prev = NoFile)
  BY <1>1 DEF BuilderInv, TraceInv
<1>6. trace' \in TraceFile /\ Holds(trace', All, n) /\ All' = All /\ Unknown' = Unknown
  <2>1. trace' \in TraceFile /\ Holds(trace', All, n)
    BY <1>1, <1>4, FlushedHolds
  <2>2. QED
    BY <1>1, <1>2, <1>4, <2>1 DEF All, Unknown
<1>7. /\ pc' \in {"flush", "loadCached", "compile", "failed", "done"}
      /\ pc' = "done" => run.afterFlush = "done"
      /\ pc' = "loadCached" => run.afterFlush = "loadCached"
  <2>1. run.afterFlush \in {"loadCached", "compile", "failed", "done"}
    BY <1>1 DEF Program
  <2>2. QED
    BY <1>4, <2>1
<1>8. TypeOK'
  <2>1. pc' \in Ended \cup Checking \cup Building
    BY <1>7 DEF Ended, Building
  <2>2. n <= Len(run.put) /\ events' \in 0..MaxEvents
    BY <1>2, <1>4
  <2>3. QED
    BY <1>1, <1>4, <1>6, <2>1, <2>2 DEF BuilderInv, TypeOK
<1>9. EventsInv' /\ PastInv'
  <2>1. PastInv'
    BY <1>1, <1>4 DEF BuilderInv, PastInv
  <2>2. events' \in Int /\ events \in Int /\ events <= events'
    BY <1>2, <1>4
  <2>3. manifest.modTime \in Int /\ \A f \in SourceFiles : sources[f].modTime \in Int
    BY BuilderAssumption DEF BuilderInv, TypeOK, FileOf, Time
  <2>4. EventsInv'
    BY <1>1, <2>2, <2>3 DEF BuilderInv, EventsInv
  <2>5. QED
    BY <2>1, <2>4
<1>10. \A f \in SourceFiles : TimeOf(sources[f])' = TimeOf(sources[f])
  BY <1>1 DEF TimeOf
<1>11. CacheInv'
  BY <1>1, <1>4, <1>10 DEF BuilderInv, CacheInv
<1>12. TraceInv'
  <2>1. pc' \in (Building \ Unopened) \cup {"done", "failed"}
    BY <1>7 DEF Building, Unopened
  <2>2. Finished' \/ NoLibrary(All)
    BY <1>1, <1>4, <1>5 DEF Finished
  <2>3. QED
    BY <1>1, <1>4, <1>5, <1>6, <2>1, <2>2 DEF TraceInv
<1>13. RecordsInv'
  BY <1>1, <1>4, <1>6, <1>7 DEF BuilderInv, RecordsInv
<1>14. PhaseInv'
  <2>1. run.afterFlush = "loadCached" => run.next # 0
    BY <1>1 DEF BuilderInv, PhaseInv
  <2>2. QED
    BY <1>1, <1>4, <1>7, <2>1 DEF PhaseInv, Checking, Unopened
<1>15. TimeOf(manifest)' = TimeOf(manifest)
  BY <1>1 DEF TimeOf
<1>16. ~disturbed' =>
         /\ manifest.content # None /\ run.atTrace = TimeOf(manifest) /\ ~run.cut /\ pc' = run.afterFlush
         /\ n = Len(All) /\ HoldsAll(trace', All, n)
  <2>1. SUFFICES ASSUME ~disturbed'
                 PROVE  /\ manifest.content # None /\ run.atTrace = TimeOf(manifest) /\ ~run.cut /\ pc' = run.afterFlush
                        /\ n = Len(All) /\ HoldsAll(trace', All, n)
    OBVIOUS
  <2>2. manifest.content # None /\ run.atTrace = TimeOf(manifest) /\ ~run.cut /\ HoldsAll(trace, All, run.flushed)
    BY <1>1, <1>4, <2>1 DEF BuilderInv, CalmInv, Building, Unopened
  <2>3. HoldsAll(trace', All, n)
    BY <1>1, <1>4, <2>1, <2>2, FlushedWhole
  <2>4. QED
    BY <1>2, <1>4, <2>1, <2>2, <2>3
<1>17. CalmInv'
  <2>1. run.afterFlush # "flush"
    BY <1>1 DEF Program
  <2>2. ~disturbed' => pc' # "flush"
    BY <1>16, <2>1
  <2>3. ~disturbed' => ~run'.cut
    BY <1>4, <1>16
  <2>4. QED
    BY <1>1, <1>4, <1>6, <1>7, <1>15, <1>16, <2>2, <2>3 DEF CalmInv
<1>18. CheckInv' /\ UpToDateSound' /\ StopsExplained'
  BY <1>7 DEF CheckInv, UpToDateSound, StopsExplained
<1>19. SettledInv'
  <2>1. SUFFICES ASSUME settled' PROVE SettledInv'
    BY DEF SettledInv
  <2>2. run.afterFlush = "done" /\ ~disturbed' /\ ~disturbed /\ pc' = "done"
    BY <1>4, <1>7, <2>1
  <2>3. trace'.records = All /\ IsLoaded(trace')
    <3>1. trace'.records = SubSeq(All, 1, Len(All)) /\ (Len(All) > 0 => trace'.header)
      BY <1>16, <2>2 DEF HoldsAll
    <3>2. SubSeq(All, 1, Len(All)) = All
      BY <1>2, SubSeqFull
    <3>3. Len(All) > 0
      BY <1>2, <1>5, EmptySeq
    <3>4. QED
      BY <1>5, <3>1, <3>2, <3>3 DEF IsLoaded
  <2>4. library.content # None /\ IsComplete(All) /\ All[Len(All)].modTime = library.modTime
    BY <1>1, <2>2 DEF BuilderInv, CalmInv
  <2>5. manifest.content # None /\ All[1].modTime = manifest.modTime
    BY <1>5, <1>16, <2>2 DEF TimeOf
  <2>6. ASSUME NEW k \in DOMAIN All, IsSource(All, k) PROVE All[k].modTime = TimeOf(sources[All[k].path])
    <3>1. All[k].path \in SourceFiles /\ All[k].modTime \in FileTime
      BY <1>2, <2>6, RecordsTyped
    <3>2. All[k].modTime = run.cache[All[k].path].modTime
      BY <1>5, <2>6 DEF TimedBy
    <3>3. QED
      BY <2>2, <3>1, <3>2 DEF BuilderInv, CacheInv, FileTime
  <2>7. \A k \in DOMAIN All : IsSource(All, k) => All[k].path \in SourceFiles
    BY <1>2, RecordsTyped
  <2>8. QED
    BY <1>1, <1>10, <2>2, <2>3, <2>4, <2>5, <2>6, <2>7 DEF SettledInv, Ended
<1>20. QED
  BY <1>8, <1>9, <1>11, <1>12, <1>13, <1>14, <1>17, <1>18, <1>19 DEF BuilderInv

-----------------------------------------------------------------------------
(* Compiling.                                                              *)
LEMMA FailKeeps ==
  ASSUME BuilderInv, Fail, inputs' = inputs, outputs' = outputs, Later,
         pc \in Building \ (Unopened \cup {"flush"})
  PROVE  BuilderInv'
<1>1. run \in Program
  BY DEF BuilderInv, TypeOK
<1>2. /\ run' \in Program
      /\ run'.put = run.put /\ run'.flushed = run.flushed /\ run'.cut = run.cut /\ run'.traceOpen = run.traceOpen
      /\ run'.prev = run.prev /\ run'.built = run.built
      /\ run'.shaders = run.shaders /\ run'.atTrace = run.atTrace /\ run'.cache = run.cache /\ run'.next = run.next
      /\ run'.prevOpened = run.prevOpened
      /\ \/ pc' = "flush" /\ run.traceOpen /\ run'.afterFlush = "failed"
         \/ pc' = "failed" /\ ~run.traceOpen
  <2>1. CASE run.traceOpen
    <3>1. run' = [run EXCEPT !.afterFlush = "failed"] /\ pc' = "flush"
      BY <2>1 DEF Fail, Goto
    <3>2. QED
      BY <1>1, <2>1, <3>1 DEF Program
  <2>2. CASE ~run.traceOpen
    BY <1>1, <2>2 DEF Fail, Goto
  <2>3. QED
    BY <2>1, <2>2
<1>3. /\ TypeOK' /\ EventsInv' /\ PastInv' /\ RecordsInv' /\ TraceInv' /\ CalmInv'
      /\ CheckInv' /\ SettledInv' /\ UpToDateSound' /\ StopsExplained'
  BY <1>2, QuietBuild
<1>4. sources' = sources /\ (~disturbed' => ~disturbed)
  BY DEF inputs, Later
<1>5. CacheInv'
  <2>1. \A f \in SourceFiles : TimeOf(sources[f])' = TimeOf(sources[f])
    BY <1>4 DEF TimeOf
  <2>2. QED
    BY <1>2, <1>4, <2>1 DEF BuilderInv, CacheInv
<1>6. PhaseInv'
  BY <1>2 DEF PhaseInv, Checking, Unopened
<1>7. QED
  BY <1>3, <1>5, <1>6 DEF BuilderInv

LEMMA CompileStep == ASSUME BuilderInv, Compile PROVE BuilderInv'
<1>1. /\ pc = "compile" /\ inputs' = inputs /\ outputs' = outputs /\ history' = history
      /\ sources' = sources /\ disturbed' = disturbed
  BY DEF Compile, NoEvent, inputs, outputs, history
<1>2. run \in Program /\ ToSet(run.shaders) \subseteq DeclaredShaders
  BY Typed DEF BuilderInv
<1>3. /\ run' \in Program
      /\ run'.put = run.put /\ run'.flushed = run.flushed /\ run'.cut = run.cut /\ run'.traceOpen = run.traceOpen
      /\ run'.prev = run.prev /\ run'.built = run.built
      /\ run'.shaders = run.shaders /\ run'.atTrace = run.atTrace /\ run'.cache = run.cache /\ run'.prevOpened = run.prevOpened
      /\ \/ pc' = "openLibrary" /\ \A s \in ToSet(run.shaders) : run.built[s.name] # None
         \/ /\ pc' = "openSource" /\ run'.compiling \in ToSet(run.shaders) /\ run'.todo # <<>> /\ ToSet(run'.used) = {}
  <2>1. CASE Uncompiled = {}
    <3>1. pc' = "openLibrary" /\ run' = run
      BY <2>1 DEF Compile, Goto
    <3>2. \A s \in ToSet(run.shaders) : run.built[s.name] # None
      BY <2>1 DEF Uncompiled
    <3>3. QED
      BY <1>2, <3>1, <3>2
  <2>2. CASE Uncompiled # {}
    <3>1. PICK shader \in Uncompiled :
            run' = [run EXCEPT !.compiling = shader, !.todo = <<shader.source>>, !.used = <<>>] /\ pc' = "openSource"
      BY <2>2 DEF Compile, Goto
    <3>2. shader \in ToSet(run.shaders) /\ shader \in DeclaredShaders /\ shader.source \in SourceFiles
      BY <1>2, <3>1, DeclaredTyped DEF Uncompiled
    <3>3. PICK todo, used : todo = <<shader.source>> /\ used = <<>>
      OBVIOUS
    <3>4. todo \in Seq(SourceFiles) /\ used \in Seq(SourceFiles) /\ todo # <<>> /\ ToSet(used) = {}
      BY <3>2, <3>3 DEF ToSet
    <3>5. run' = [run EXCEPT !.compiling = shader, !.todo = todo, !.used = used]
      BY <3>1, <3>3
    <3>6. QED
      BY <1>2, <3>1, <3>2, <3>4, <3>5 DEF Program
  <2>3. QED
    BY <2>1, <2>2
<1>4. /\ TypeOK' /\ EventsInv' /\ PastInv' /\ RecordsInv' /\ TraceInv' /\ CalmInv'
      /\ CheckInv' /\ SettledInv' /\ UpToDateSound' /\ StopsExplained'
  <2>1. pc \in Building \ (Unopened \cup {"flush"})
    BY <1>1 DEF Building, Unopened
  <2>2. pc' \in {"openLibrary", "openSource"}
    BY <1>3
  <2>3. QED
    BY <1>1, <1>3, <2>1, <2>2, Unhindered, QuietBuild
<1>5. CacheInv'
  <2>1. \A f \in SourceFiles : TimeOf(sources[f])' = TimeOf(sources[f])
    BY <1>1 DEF TimeOf
  <2>2. QED
    BY <1>1, <1>3, <2>1 DEF BuilderInv, CacheInv
<1>6. PhaseInv'
  BY <1>3 DEF PhaseInv, Checking, Unopened
<1>7. QED
  BY <1>4, <1>5, <1>6 DEF BuilderInv

LEMMA OpenSourceStep == ASSUME BuilderInv, OpenSource PROVE BuilderInv'
<1>1. /\ pc = "openSource" /\ inputs' = inputs /\ outputs' = outputs /\ history' = history
      /\ sources' = sources /\ disturbed' = disturbed
  BY DEF OpenSource, NoEvent, inputs, outputs, history
<1>2. PICK f : f = Head(run.todo)
  OBVIOUS
<1>3. run \in Program /\ run.todo \in Seq(SourceFiles) /\ run.todo # <<>> /\ f \in SourceFiles
  <2>1. run \in Program
    BY DEF BuilderInv, TypeOK
  <2>2. run.todo \in Seq(SourceFiles) /\ run.todo # <<>>
    BY <1>1, <2>1 DEF BuilderInv, PhaseInv, Program
  <2>3. QED
    BY <1>2, <2>1, <2>2
<1>4. PICK cache : cache = Open(f)
  OBVIOUS
<1>5. OpenedAs(cache, f)
  BY <1>3, <1>4, Opening DEF BuilderInv
<1>6. CASE cache[f].modTime = InvalidTime
  <2>1. Fail
    BY <1>2, <1>4, <1>6 DEF OpenSource
  <2>2. pc \in Building \ (Unopened \cup {"flush"})
    BY <1>1 DEF Building, Unopened
  <2>3. QED
    BY <1>1, <2>1, <2>2, Unhindered, FailKeeps
<1>7. CASE cache[f].modTime # InvalidTime
  <2>1. pc' = "readSource" /\ run' = [run EXCEPT !.cache = cache]
    BY <1>2, <1>4, <1>7 DEF OpenSource, Goto
  <2>2. cache \in [SourceFiles -> [modTime : Nat, text : Text \cup {None}]]
    BY <1>5 DEF OpenedAs
  <2>3. /\ run' \in Program
        /\ run'.put = run.put /\ run'.flushed = run.flushed /\ run'.cut = run.cut /\ run'.traceOpen = run.traceOpen
        /\ run'.prev = run.prev /\ run'.built = run.built
        /\ run'.shaders = run.shaders /\ run'.atTrace = run.atTrace /\ run'.cache = cache /\ run'.prevOpened = run.prevOpened
        /\ run'.compiling = run.compiling /\ run'.todo = run.todo /\ run'.used = run.used
    BY <1>3, <2>1, <2>2 DEF Program
  <2>4. /\ TypeOK' /\ EventsInv' /\ PastInv' /\ RecordsInv' /\ TraceInv' /\ CalmInv'
        /\ CheckInv' /\ SettledInv' /\ UpToDateSound' /\ StopsExplained'
    <3>1. \A g \in SourceFiles : run.cache[g].modTime # InvalidTime => run'.cache[g].modTime = run.cache[g].modTime
      BY <1>5, <2>3 DEF OpenedAs
    <3>2. pc \in Building \ (Unopened \cup {"flush"})
      BY <1>1 DEF Building, Unopened
    <3>3. QED
      BY <1>1, <2>1, <2>3, <3>1, <3>2, Unhindered, QuietBuild
  <2>5. CacheInv'
    <3>1. \A g \in SourceFiles : TimeOf(sources[g])' = TimeOf(sources[g])
      BY <1>1 DEF TimeOf
    <3>2. \A g \in run.prevOpened : g \in SourceFiles /\ cache[g].modTime # InvalidTime
      BY <1>3, <1>5 DEF BuilderInv, CacheInv, Program, OpenedAs
    <3>3. QED
      BY <1>1, <1>5, <2>3, <3>1, <3>2 DEF OpenedAs, CacheInv
  <2>6. PhaseInv'
    <3>1. run.compiling \in ToSet(run.shaders) /\ \A g \in ToSet(run.used) : run.cache[g].text # None
      BY <1>1 DEF BuilderInv, PhaseInv
    <3>2. ToSet(run.used) \subseteq SourceFiles
      <4>1. run.used \in Seq(SourceFiles)
        BY <1>3 DEF Program
      <4>2. QED
        BY <4>1 DEF ToSet
    <3>3. \A g \in ToSet(run.used) : cache[g].text # None
      BY <1>5, <3>1, <3>2 DEF OpenedAs
    <3>4. QED
      BY <1>2, <1>3, <1>7, <2>1, <2>3, <3>1, <3>3 DEF PhaseInv, Checking, Unopened
  <2>7. QED
    BY <2>4, <2>5, <2>6 DEF BuilderInv
<1>8. QED
  BY <1>6, <1>7

LEMMA ReadSourceStep == ASSUME BuilderInv, ReadSource PROVE BuilderInv'
<1>1. /\ pc = "readSource" /\ inputs' = inputs /\ outputs' = outputs /\ history' = history
      /\ sources' = sources /\ disturbed' = disturbed
  BY DEF ReadSource, NoEvent, inputs, outputs, history
<1>2. PICK f : f = Head(run.todo)
  OBVIOUS
<1>3. /\ run \in Program /\ run.todo \in Seq(SourceFiles) /\ run.todo # <<>> /\ f \in SourceFiles
      /\ run.used \in Seq(SourceFiles) /\ Tail(run.todo) \in Seq(SourceFiles)
      /\ run.cache \in [SourceFiles -> [modTime : Nat, text : Text \cup {None}]]
  <2>1. run \in Program
    BY DEF BuilderInv, TypeOK
  <2>2. /\ run.todo \in Seq(SourceFiles) /\ run.todo # <<>> /\ run.used \in Seq(SourceFiles)
        /\ run.cache \in [SourceFiles -> [modTime : Nat, text : Text \cup {None}]]
    BY <1>1, <2>1 DEF BuilderInv, PhaseInv, Program
  <2>3. QED
    BY <1>2, <2>1, <2>2
<1>4. run.cache[f].modTime # InvalidTime
  BY <1>1, <1>2 DEF BuilderInv, PhaseInv
<1>5. /\ \A g \in SourceFiles : CachedSound(run.cache[g], sources[g])
      /\ ~disturbed =>
           \A g \in SourceFiles : run.cache[g].modTime # InvalidTime => run.cache[g].modTime = TimeOf(sources[g])
  BY DEF BuilderInv, CacheInv
<1>6. sources[f].modTime \in FileTime /\ sources[f].content \in Texts[f] \cup {None}
  BY <1>3, BuilderAssumption DEF BuilderInv, TypeOK, FileOf, Time, FileTime, InvalidTime
<1>7. CASE run.cache[f].text = None /\ sources[f].content = None
  <2>1. Fail
    BY <1>2, <1>7 DEF ReadSource
  <2>2. pc \in Building \ (Unopened \cup {"flush"})
    BY <1>1 DEF Building, Unopened
  <2>3. QED
    BY <1>1, <2>1, <2>2, Unhindered, FailKeeps
<1>8. CASE ~(run.cache[f].text = None /\ sources[f].content = None)
  <2>1. PICK text : text = IF run.cache[f].text = None THEN TextRead(f) ELSE run.cache[f].text
    OBVIOUS
  <2>2. text \in Text
    <3>1. CASE run.cache[f].text = None
      <4>1. sources[f].content \in [includes : Seq(SourceFiles), compiles : BOOLEAN]
        BY <1>3, <1>6, <1>8, <3>1, BuilderAssumption
      <4>2. QED
        BY <1>6, <2>1, <3>1, <4>1 DEF TextRead, Text
    <3>2. CASE run.cache[f].text # None
      BY <1>3, <2>1, <3>2
    <3>3. QED
      BY <3>1, <3>2
  <2>3. run.cache[f].modTime <= text.version /\ text.version <= sources[f].modTime
    <3>1. CachedSound(run.cache[f], sources[f])
      BY <1>3, <1>5
    <3>2. CASE run.cache[f].text = None
      <4>1. text.version = sources[f].modTime
        BY <2>1, <3>2 DEF TextRead
      <4>2. QED
        BY <1>6, <3>1, <4>1 DEF CachedSound, FileTime
    <3>3. CASE run.cache[f].text # None
      BY <2>1, <3>1, <3>3 DEF CachedSound
    <3>4. QED
      BY <3>2, <3>3
  <2>4. PICK todo, used, cache :
          /\ todo = text.includes \o Tail(run.todo) /\ used = Append(run.used, f)
          /\ cache = [run.cache EXCEPT ![f].text = text]
    OBVIOUS
  <2>5. /\ pc' = (IF todo = <<>> THEN "store" ELSE "openSource")
        /\ run' = [run EXCEPT !.cache = cache, !.used = used, !.todo = todo]
    BY <1>2, <1>8, <2>1, <2>4 DEF ReadSource, Goto
  <2>6. /\ todo \in Seq(SourceFiles) /\ used \in Seq(SourceFiles)
        /\ ToSet(used) \subseteq ToSet(run.used) \cup {f}
    <3>1. text.includes \in Seq(SourceFiles)
      BY <2>2 DEF Text
    <3>2. todo \in Seq(SourceFiles)
      BY <1>3, <2>4, <3>1
    <3>3. /\ used \in Seq(SourceFiles) /\ Len(used) = Len(run.used) + 1 /\ Len(run.used) \in Nat
          /\ used[Len(run.used) + 1] = f /\ \A i \in 1..Len(run.used) : used[i] = run.used[i]
          /\ DOMAIN used = 1..Len(used) /\ DOMAIN run.used = 1..Len(run.used)
      BY <1>3, <2>4
    <3>4. ASSUME NEW i \in DOMAIN used PROVE used[i] \in ToSet(run.used) \cup {f}
      <4>1. i \in 1..Len(run.used) \/ i = Len(run.used) + 1
        BY <3>3, <3>4
      <4>2. QED
        BY <3>3, <4>1 DEF ToSet
    <3>5. QED
      BY <3>2, <3>3, <3>4 DEF ToSet
  <2>7. /\ cache \in [SourceFiles -> [modTime : Nat, text : Text \cup {None}]]
        /\ cache[f].text = text /\ cache[f].modTime = run.cache[f].modTime
        /\ \A g \in SourceFiles : g # f => cache[g] = run.cache[g]
    BY <1>3, <2>2, <2>4
  <2>8. /\ run' \in Program
        /\ run'.put = run.put /\ run'.flushed = run.flushed /\ run'.cut = run.cut /\ run'.traceOpen = run.traceOpen
        /\ run'.prev = run.prev /\ run'.built = run.built
        /\ run'.shaders = run.shaders /\ run'.atTrace = run.atTrace /\ run'.cache = cache /\ run'.prevOpened = run.prevOpened
        /\ run'.compiling = run.compiling /\ run'.todo = todo /\ run'.used = used
    BY <1>3, <2>5, <2>6, <2>7 DEF Program
  <2>9. pc' \in {"store", "openSource"} /\ (pc' = "openSource" => todo # <<>>)
    BY <2>5
  <2>10. \A g \in SourceFiles : cache[g].modTime = run.cache[g].modTime
    BY <2>7
  <2>11. /\ TypeOK' /\ EventsInv' /\ PastInv' /\ RecordsInv' /\ TraceInv' /\ CalmInv'
         /\ CheckInv' /\ SettledInv' /\ UpToDateSound' /\ StopsExplained'
    <3>1. pc \in Building \ (Unopened \cup {"flush"})
      BY <1>1 DEF Building, Unopened
    <3>2. QED
      BY <1>1, <2>8, <2>9, <2>10, <3>1, Unhindered, QuietBuild
  <2>12. CacheInv'
    <3>1. \A g \in SourceFiles : TimeOf(sources[g])' = TimeOf(sources[g])
      BY <1>1 DEF TimeOf
    <3>2. \A g \in run.prevOpened : g \in SourceFiles /\ cache[g].modTime # InvalidTime
      BY <1>3, <2>10 DEF BuilderInv, CacheInv, Program
    <3>3. CachedSound(cache[f], sources[f])
      BY <1>3, <1>4, <1>5, <2>3, <2>7 DEF CachedSound
    <3>4. \A g \in SourceFiles : CachedSound(cache[g], sources[g])
      BY <1>5, <2>7, <3>3
    <3>5. QED
      BY <1>1, <1>5, <2>8, <2>10, <3>1, <3>2, <3>4 DEF CacheInv
  <2>13. PhaseInv'
    <3>1. run.compiling \in ToSet(run.shaders) /\ \A g \in ToSet(run.used) : run.cache[g].text # None
      BY <1>1 DEF BuilderInv, PhaseInv
    <3>2. ToSet(run.used) \subseteq SourceFiles
      BY <1>3 DEF ToSet
    <3>3. text # None
      BY <2>2, NoneAssumption
    <3>4. \A g \in ToSet(used) : cache[g].text # None
      BY <2>6, <2>7, <3>1, <3>2, <3>3
    <3>5. QED
      BY <2>8, <2>9, <3>1, <3>4 DEF PhaseInv, Checking, Unopened
  <2>14. QED
    BY <2>11, <2>12, <2>13 DEF BuilderInv
<1>9. QED
  BY <1>7, <1>8

-----------------------------------------------------------------------------
(* A shader is there, and is put into the trace.                           *)
Times(cache) == [f \in SourceFiles |-> cache[f].modTime]

IsPut(new, state, all, shader, paths, times, blobModTime) ==
  /\ all \in Seq(Record) /\ new = [state EXCEPT !.put = all]
  /\ all = IF state.traceOpen THEN AddShader(state.put, shader, paths, times, blobModTime) ELSE state.put

(* PutShader puts the records of one shader behind those there are, and    *)
(* flushes now or later.                                                   *)
LEMMA Put ==
  ASSUME NEW state \in Program, state.traceOpen => Loadable(state.put),
         NEW shader \in DeclaredShaders, NEW paths \in Seq(SourceFiles), NEW blobModTime \in Nat,
         NEW times, times = Times(state.cache),
         \A i \in 1..Len(paths) : times[paths[i]] \in FileTime
  PROVE  \E all : IsPut(PutShader(state, shader, paths, blobModTime), state, all, shader, paths, times, blobModTime)
<1>1. CASE ~state.traceOpen
  <2>1. PutShader(state, shader, paths, blobModTime) = state
    BY <1>1 DEF PutShader
  <2>2. state = [state EXCEPT !.put = state.put] /\ state.put \in Seq(Record)
    BY DEF Program
  <2>3. QED
    BY <1>1, <2>1, <2>2 DEF IsPut
<1>2. CASE state.traceOpen
  <2>1. PICK all : all = AddShader(state.put, shader, paths, times, blobModTime)
    OBVIOUS
  <2>2. Added(all, state.put, shader, paths, times, blobModTime)
    BY <1>2, <2>1, ShaderAdded
  <2>3. all \in Seq(Record)
    BY <2>2 DEF Added, Loadable
  <2>4. PutShader(state, shader, paths, blobModTime) = [state EXCEPT !.put = all]
    BY <1>2, <2>1 DEF PutShader, RecordedTime, Times
  <2>5. QED
    BY <1>2, <2>1, <2>3, <2>4 DEF IsPut
<1>3. QED
  BY <1>1, <1>2

(* A shader that is reused: its blob is the one that was compiled for the  *)
(* record found, of files that have not changed since, or misdated.        *)
LEMMA ReusedMade ==
  ASSUME BuilderInv, NEW shader \in DeclaredShaders, Reusable(shader),
         NEW times, \A g \in SourceFiles : run.cache[g].modTime # InvalidTime => times[g] = run.cache[g].modTime,
         NEW record, record = FindShader(run.prev, shader.name), NEW blob, blob = blobs[shader.name].content
  PROVE  /\ record.blobModTime \in Nat /\ PathsOf(record) \in Seq(SourceFiles)
         /\ \A i \in 1..Len(PathsOf(record)) : times[PathsOf(record)[i]] \in FileTime
         /\ blob \in Blob /\ Past(sources, blob)
         /\ blob.misdated \/ Made(blob, shader, PathsOf(record), times)
<1>1. PICK prev, records : prev = run.prev /\ records = prev.records
  OBVIOUS
<1>2. records \in Seq(Record) /\ prev.records \in Seq(Record)
  BY <1>1, Typed DEF BuilderInv
<1>3. PICK m \in DOMAIN records : IsShader(records, m) /\ records[m].name = shader.name /\ record = records[m]
  BY <1>1, <1>2, ShaderFound DEF Reusable
<1>4. WellFormed(records)
  <2>1. prev # NoFile
    BY <1>1, <1>3, NoFileTyped
  <2>2. QED
    BY <1>1, <2>1 DEF BuilderInv, TraceInv, IsLoaded
<1>5. /\ record \in Record /\ record.kind = "shader" /\ record.name = shader.name /\ shader.name \in ShaderNames
      /\ record.blobModTime \in Nat /\ record.files \in Seq(Nat) /\ m \in 1..Len(records) /\ Len(records) \in Nat
  <2>1. record \in Record /\ m \in 1..Len(records) /\ Len(records) \in Nat
    BY <1>2, <1>3, RecordsTyped
  <2>2. QED
    BY <1>3, <2>1, RecordTyped, DeclaredTyped DEF IsShader
<1>6. PICK files : files = record.files
  OBVIOUS
<1>7. Len(files) \in Nat /\ DOMAIN files = 1..Len(files) /\ \A i \in DOMAIN files : files[i] \in Nat
  BY <1>5, <1>6
<1>8. PICK paths : paths = PathsOf(record)
  OBVIOUS
<1>9. paths = [i \in DOMAIN files |-> SourceFile(prev, files[i]).path]
  BY <1>1, <1>6, <1>8 DEF PathsOf
<1>10. ASSUME NEW i \in DOMAIN files
       PROVE  \E k \in 1..(m - 1) : /\ IsSource(records, k) /\ records[k].index = files[i]
                                    /\ SourceFile(prev, files[i]) = records[k]
  <2>1. files[i] < SourcesBefore(records, m)
    BY <1>3, <1>4, <1>6 DEF WellFormed, IsShader
  <2>2. m \in 1..(Len(records) + 1)
    BY <1>5
  <2>3. PICK k \in 1..(m - 1) : IsSource(records, k) /\ records[k].index = files[i]
    BY <1>2, <1>4, <1>7, <2>1, <2>2, SourceKnown
  <2>4. SourceFile(prev, records[k].index) = records[k]
    BY <1>1, <1>2, <1>4, <2>3, SourceFound
  <2>5. QED
    BY <2>3, <2>4
<1>11. ASSUME NEW i \in DOMAIN files
       PROVE  /\ paths[i] \in SourceFiles /\ run.cache[paths[i]].modTime = SourceFile(prev, files[i]).modTime
              /\ run.cache[paths[i]].modTime \in FileTime /\ times[paths[i]] = run.cache[paths[i]].modTime
  <2>1. PICK k \in 1..(m - 1) : IsSource(records, k) /\ SourceFile(prev, files[i]) = records[k]
    BY <1>10
  <2>2. records[k].path \in SourceFiles /\ records[k].modTime \in FileTime
    BY <1>2, <2>1, RecordsTyped
  <2>3. run.cache[records[k].path].modTime = records[k].modTime
    <3>1. SourcesUpToDate(record)
      BY DEF Reusable
    <3>2. run.cache[SourceFile(run.prev, files[i]).path].modTime = SourceFile(run.prev, files[i]).modTime
      BY <1>6, <3>1 DEF SourcesUpToDate
    <3>3. QED
      BY <1>1, <2>1, <3>2
  <2>4. paths[i] = records[k].path
    BY <1>9, <2>1
  <2>5. QED
    BY <2>1, <2>2, <2>3, <2>4 DEF FileTime
<1>12. DOMAIN paths = DOMAIN files
  BY <1>9
<1>13. paths \in Seq(SourceFiles) /\ Len(paths) = Len(files)
  <2>1. paths \in [1..Len(files) -> SourceFiles]
    BY <1>7, <1>9, <1>11
  <2>2. QED
    BY <1>7, <2>1
<1>14. /\ files # <<>> /\ record.type = shader.type /\ record.entry = shader.entry
       /\ record.layoutName = Low32(shader.layoutXSH)
  BY <1>1, <1>3, <1>6 DEF Reusable, DoShaderDetailsMatch, Low32
<1>15. blobs[shader.name].content # None /\ blobs[shader.name].modTime = record.blobModTime
  BY <1>1, <1>3 DEF Reusable, BlobMatches, TimeOf
<1>16. blob \in Blob
  BY <1>5, <1>15 DEF BuilderInv, TypeOK, FileOf
<1>17. Past(sources, blob)
  BY <1>5, <1>15 DEF BuilderInv, PastInv
<1>18. blob.misdated \/ (Describes(record, blob) /\ Covers(records, m, blob.versions))
  <2>1. RecordSound(blobs, records, m)
    BY <1>1, <1>3 DEF BuilderInv, RecordsInv, BlobsSound
  <2>2. HasBlob(blobs, records[m])
    BY <1>3, <1>5, <1>6, <1>14, <1>15 DEF HasBlob
  <2>3. blobs[records[m].name].content = blob
    BY <1>3
  <2>4. QED
    BY <1>3, <2>1, <2>2, <2>3 DEF RecordSound
<1>19. ASSUME Describes(record, blob), Covers(records, m, blob.versions)
       PROVE  Made(blob, shader, paths, times)
  <2>1. ASSUME NEW v \in blob.versions PROVE \E i \in 1..Len(paths) : paths[i] = v[1] /\ times[v[1]] <= v[2]
    <3>1. PICK k \in 1..(m - 1), j \in DOMAIN files : Tracks(records, v, k) /\ files[j] = records[k].index
      BY <1>3, <1>6, <1>19, <2>1 DEF Covers
    <3>2. IsSource(records, k) /\ records[k].path = v[1] /\ records[k].modTime <= v[2]
      BY <3>1 DEF Tracks
    <3>3. SourceFile(prev, files[j]) = records[k]
      BY <1>1, <1>2, <1>4, <3>1, <3>2, SourceFound
    <3>4. paths[j] = v[1]
      BY <1>9, <3>1, <3>2, <3>3
    <3>5. times[v[1]] = records[k].modTime
      BY <1>11, <3>1, <3>3, <3>4
    <3>6. j \in 1..Len(paths)
      BY <1>7, <1>13, <3>1
    <3>7. QED
      BY <3>2, <3>4, <3>5, <3>6
  <2>2. QED
    BY <1>14, <1>19, <2>1 DEF Made, Describes
<1>20. \A i \in 1..Len(paths) : times[paths[i]] \in FileTime
  BY <1>7, <1>11, <1>13
<1>21. QED
  BY <1>5, <1>8, <1>13, <1>16, <1>17, <1>18, <1>19, <1>20

(* What the program remembers of the files stays true.                     *)
Remembered(cache) ==
  /\ cache \in [SourceFiles -> [modTime : Nat, text : Text \cup {None}]]
  /\ \A g \in SourceFiles : run.cache[g].modTime # InvalidTime => cache[g].modTime = run.cache[g].modTime
  /\ \A g \in SourceFiles : CachedSound(cache[g], sources[g])
  /\ ~disturbed => \A g \in SourceFiles : cache[g].modTime # InvalidTime => cache[g].modTime = TimeOf(sources[g])

LEMMA StillRemembered ==
  ASSUME BuilderInv, Later, inputs' = inputs, Remembered(run'.cache), run'.prevOpened = run.prevOpened
  PROVE  CacheInv'
<1>1. sources' = sources /\ (~disturbed' => ~disturbed)
  BY DEF inputs, Later
<1>2. \A g \in SourceFiles : TimeOf(sources[g])' = TimeOf(sources[g])
  BY <1>1 DEF TimeOf
<1>3. \A g \in run.prevOpened : g \in SourceFiles /\ run.cache[g].modTime # InvalidTime
  <2>1. run.prevOpened \in SUBSET SourceFiles
    BY DEF BuilderInv, TypeOK, Program
  <2>2. QED
    BY <2>1 DEF BuilderInv, CacheInv
<1>4. QED
  BY <1>1, <1>2, <1>3 DEF Remembered, CacheInv

(* One shader more is built, and its record put after the others.          *)
LEMMA ShaderBuilt ==
  ASSUME BuilderInv, Later, inputs' = inputs, library' = library, trace' = trace,
         pc \in {"loadCached", "store"},
         NEW state \in Program, NEW shader \in ToSet(run.shaders), NEW built \in Built,
         NEW paths \in Seq(SourceFiles), NEW blobModTime \in Nat, NEW next \in {"loadCached", "compile"},
         NEW times, times = Times(state.cache),
         state.put = run.put, state.flushed = run.flushed, state.cut = run.cut,
         state.prev = run.prev, state.traceOpen = run.traceOpen,
         state.shaders = run.shaders, state.atTrace = run.atTrace, state.prevOpened = run.prevOpened,
         state.built = [run.built EXCEPT ![shader.name] = built], Remembered(state.cache),
         next = "loadCached" => state.next # 0,
         FlushOr(next, PutShader(state, shader, paths, blobModTime)),
         \A i \in 1..Len(paths) : times[paths[i]] \in FileTime,
         blobs' \in [ShaderNames -> FileOf(Blob, FileTime)],
         \A s \in ShaderNames : blobs'[s].content # None => Past(sources, blobs'[s].content),
         BlobsSound(blobs', run.prev.records), BlobsSound(blobs', All),
         LET file == blobs'[shader.name] IN
           file.content # None /\ file.modTime = blobModTime => file.content.misdated \/ Made(file.content, shader, paths, times),
         Past(sources, built.blob), Deserved(built, shader, paths, times)
  PROVE  BuilderInv'
<1>1. manifest' = manifest /\ sources' = sources /\ (~disturbed' => ~disturbed)
  BY DEF inputs, Later
<1>2. /\ All \in Seq(Record) /\ (run.traceOpen => All = run.put)
      /\ run.put \in Seq(Record) /\ run.flushed \in 0..Len(run.put)
      /\ run \in Program /\ ToSet(run.shaders) \subseteq DeclaredShaders
      /\ \A s, t \in ToSet(run.shaders) : s.name = t.name => s = t
  BY Typed DEF BuilderInv
<1>3. shader \in DeclaredShaders /\ shader.name \in ShaderNames
  BY <1>2, DeclaredTyped
<1>4. (IsLoaded(run.prev) \/ run.prev = NoFile) /\ (~run.traceOpen => ~run.cut)
  BY DEF BuilderInv, TraceInv
<1>5. ASSUME run.traceOpen
      PROVE  /\ Loadable(All) /\ All[1].modTime = run.atTrace
             /\ TimedBy(run.cache, All) /\ BuiltSound(run.shaders, run.built, All) /\ Holds(trace, All, run.flushed)
  <2>1. /\ WellFormed(All) /\ All # <<>> /\ All[1].modTime = run.atTrace /\ (Finished \/ NoLibrary(All))
        /\ TimedBy(run.cache, All) /\ BuiltSound(run.shaders, run.built, All) /\ Holds(trace, All, run.flushed)
    BY <1>5 DEF BuilderInv, TraceInv
  <2>2. ~Finished
    BY DEF Finished
  <2>3. QED
    BY <1>2, <2>1, <2>2 DEF Loadable
<1>6. PICK all :
        /\ all \in Seq(Record) /\ PutShader(state, shader, paths, blobModTime) = [state EXCEPT !.put = all]
        /\ ~run.traceOpen => all = run.put
        /\ run.traceOpen => all = AddShader(All, shader, paths, times, blobModTime)
  <2>1. state.traceOpen => Loadable(state.put)
    BY <1>2, <1>5
  <2>2. PICK all : IsPut(PutShader(state, shader, paths, blobModTime), state, all, shader, paths, times, blobModTime)
    BY <1>3, <2>1, Put
  <2>3. QED
    BY <1>2, <2>2 DEF IsPut
<1>7. PICK new : new = [state EXCEPT !.put = all]
  OBVIOUS
<1>8. /\ new \in Program /\ new.put = all /\ new.prev = run.prev /\ new.traceOpen = run.traceOpen
      /\ new.flushed = run.flushed /\ new.cut = run.cut
      /\ new.shaders = run.shaders /\ new.atTrace = run.atTrace /\ new.prevOpened = run.prevOpened
      /\ new.built = state.built /\ new.cache = state.cache /\ new.next = state.next
  BY <1>6, <1>7 DEF Program
<1>9. /\ run' \in Program /\ run'.put = all /\ run'.prev = run.prev /\ run'.traceOpen = run.traceOpen
      /\ run'.flushed = run.flushed /\ run'.cut = run.cut
      /\ run'.shaders = run.shaders /\ run'.atTrace = run.atTrace /\ run'.prevOpened = run.prevOpened
      /\ run'.built = state.built /\ run'.cache = state.cache /\ run'.next = state.next
      /\ \/ pc' = next
         \/ pc' = "flush" /\ run.traceOpen /\ run'.afterFlush = next
  <2>1. PICK due \in BOOLEAN :
          IF due /\ new.traceOpen THEN pc' = "flush" /\ run' = [new EXCEPT !.afterFlush = next] ELSE pc' = next /\ run' = new
    BY <1>6, <1>7 DEF FlushOr, Goto
  <2>2. CASE due /\ new.traceOpen
    <3>1. pc' = "flush" /\ run' = [new EXCEPT !.afterFlush = next]
      BY <2>1, <2>2
    <3>2. QED
      BY <1>8, <2>2, <3>1 DEF Program
  <2>3. CASE ~(due /\ new.traceOpen)
    <3>1. pc' = next /\ run' = new
      BY <2>1, <2>3
    <3>2. QED
      BY <1>8, <3>1
  <2>4. QED
    BY <2>2, <2>3
<1>10. pc' \in {"loadCached", "compile", "flush"}
  BY <1>9
<1>11. Unknown' = Unknown
  BY <1>9 DEF Unknown
<1>12. (run.traceOpen => All' = all) /\ (~run.traceOpen => All' = All)
  BY <1>9 DEF All
<1>13. ASSUME run.traceOpen
       PROVE  /\ Loadable(all) /\ Extends(all, All) /\ ~IsComplete(all)
              /\ TimedBy(state.cache, all) /\ BlobsSound(blobs', all) /\ EntrySound(all, shader, built, {})
  <2>1. all = AddShader(All, shader, paths, times, blobModTime) /\ Loadable(All)
    BY <1>5, <1>6, <1>13
  <2>2. ASSUME NEW k \in DOMAIN All, IsSource(All, k) PROVE All[k].modTime = times[All[k].path]
    <3>1. TimedBy(state.cache, All)
      <4>1. \A g \in SourceFiles : run.cache[g].modTime # InvalidTime => state.cache[g].modTime = run.cache[g].modTime
        BY DEF Remembered
      <4>2. QED
        BY <1>2, <1>5, <1>13, <4>1, StillTimed
    <3>2. All[k].path \in SourceFiles
      BY <1>2, <2>2, RecordsTyped
    <3>3. All[k].modTime = state.cache[All[k].path].modTime
      BY <2>2, <3>1 DEF TimedBy
    <3>4. QED
      BY <3>2, <3>3 DEF Times
  <2>3. /\ Loadable(all) /\ Extends(all, All) /\ ~IsComplete(all)
        /\ \A k \in DOMAIN all : IsSource(all, k) => all[k].modTime = times[all[k].path]
        /\ BlobsSound(blobs', all) /\ EntrySound(all, shader, built, {})
    <3>1. PICK files, old : files = blobs' /\ old = All
      OBVIOUS
    <3>2. /\ Loadable(old) /\ \A k \in DOMAIN old : IsSource(old, k) => old[k].modTime = times[old[k].path]
          /\ all = AddShader(old, shader, paths, times, blobModTime) /\ BlobsSound(files, old)
      BY <2>1, <2>2, <3>1
    <3>3. AddedSound(all, old, shader, paths, times, blobModTime)
      BY <1>3, <3>2, ShaderAddedSound
    <3>4. BlobsSound(files, all)
      BY <3>1, <3>2, <3>3 DEF AddedSound
    <3>5. EntrySound(all, shader, built, {})
      BY <3>3 DEF AddedSound
    <3>6. QED
      BY <3>1, <3>3, <3>4, <3>5 DEF AddedSound
  <2>4. \A k \in DOMAIN all : IsSource(all, k) => all[k].path \in SourceFiles
    BY <2>3, RecordsTyped DEF Loadable
  <2>5. TimedBy(state.cache, all)
    BY <2>3, <2>4 DEF TimedBy, Times
  <2>6. QED
    BY <2>3, <2>5
<1>14. ASSUME run.traceOpen
       PROVE  /\ run.flushed <= Len(all) /\ Holds(trace, all, run.flushed)
              /\ HoldsAll(trace, All, run.flushed) => HoldsAll(trace, all, run.flushed)
  <2>1. run.flushed \in 0..Len(All) /\ all \in Seq(Record) /\ Extends(all, All) /\ Holds(trace, All, run.flushed)
    BY <1>2, <1>5, <1>6, <1>13, <1>14
  <2>2. QED
    BY <1>2, <2>1, StillHeld
<1>15. state.built \in [ShaderNames -> Built \cup {None}] /\ state.built[shader.name] = built
       /\ \A s \in ShaderNames : s # shader.name => state.built[s] = run.built[s]
  <2>1. run.built \in [ShaderNames -> Built \cup {None}]
    BY <1>2 DEF Program
  <2>2. QED
    BY <1>3, <2>1
<1>16. TypeOK'
  <2>1. run'.put # <<>> => run'.traceOpen /\ WellFormed(run'.put)
    BY <1>6, <1>9, <1>13 DEF Loadable, BuilderInv, TypeOK
  <2>2. pc' \in Ended \cup Checking \cup Building
    BY <1>10 DEF Building
  <2>3. run'.flushed <= Len(run'.put)
    BY <1>6, <1>9, <1>14 DEF BuilderInv, TypeOK
  <2>4. QED
    BY <1>1, <1>9, <2>1, <2>2, <2>3 DEF BuilderInv, TypeOK, Later
<1>17. EventsInv'
  BY EventsCounted
<1>18. PastInv'
  BY <1>1, <1>9, <1>15 DEF BuilderInv, PastInv
<1>19. CacheInv'
  BY <1>9, StillRemembered
<1>20. TraceInv'
  <2>1. ASSUME run.traceOpen
        PROVE  /\ WellFormed(all) /\ all # <<>> /\ all[1].modTime = run.atTrace /\ NoLibrary(all)
               /\ TimedBy(state.cache, all) /\ BuiltSound(run.shaders, state.built, all) /\ Holds(trace, all, run.flushed)
    <3>1. all[1] = All[1]
      <4>1. 1 \in 1..Len(All)
        BY <1>5, <2>1, RecordsTyped DEF Loadable
      <4>2. QED
        BY <1>13, <2>1, <4>1 DEF Extends
    <3>2. ASSUME NEW s \in ToSet(run.shaders), state.built[s.name] # None
          PROVE  EntrySound(all, s, state.built[s.name], {})
      <4>1. CASE s.name = shader.name
        BY <1>2, <1>13, <1>15, <2>1, <4>1
      <4>2. CASE s.name # shader.name
        <5>1. s.name \in ShaderNames
          BY <1>2, DeclaredTyped
        <5>2. state.built[s.name] = run.built[s.name]
          BY <1>15, <4>2, <5>1
        <5>3. EntrySound(All, s, run.built[s.name], {})
          BY <1>5, <2>1, <3>2, <5>2 DEF BuiltSound
        <5>4. QED
          BY <1>2, <1>13, <2>1, <5>2, <5>3, EntryStillSound DEF Loadable
      <4>3. QED
        BY <4>1, <4>2
    <3>3. QED
      BY <1>5, <1>13, <1>14, <2>1, <3>1, <3>2 DEF Loadable, BuiltSound
  <2>2. pc' \in (Building \ Unopened) \cup {"done", "failed"}
    BY <1>10 DEF Building, Unopened
  <2>3. QED
    BY <1>4, <1>9, <1>12, <2>1, <2>2 DEF TraceInv
<1>21. RecordsInv'
  <2>1. CASE run.traceOpen
    <3>1. BlobsSound(blobs', all) /\ LibrarySound(library, all, Unknown)
      BY <1>13, <2>1 DEF LibrarySound
    <3>2. QED
      BY <1>9, <1>10, <1>11, <1>12, <2>1, <3>1 DEF RecordsInv
  <2>2. CASE ~run.traceOpen
    BY <1>9, <1>10, <1>11, <1>12, <2>2 DEF BuilderInv, RecordsInv
  <2>3. QED
    BY <2>1, <2>2
<1>22. PhaseInv'
  BY <1>9, <1>10 DEF PhaseInv, Checking, Unopened
<1>23. CalmInv'
  <2>1. ~disturbed =>
          /\ manifest.content # None
          /\ run.traceOpen => run.atTrace = TimeOf(manifest) /\ ~run.cut /\ HoldsAll(trace, All, run.flushed)
    BY DEF BuilderInv, CalmInv, Building
  <2>2. TimeOf(manifest)' = TimeOf(manifest)
    BY <1>1 DEF TimeOf
  <2>3. pc' = "flush" => run'.afterFlush # "done"
    BY <1>9
  <2>4. QED
    BY <1>1, <1>9, <1>10, <1>12, <1>14, <2>1, <2>2, <2>3 DEF CalmInv
<1>24. CheckInv' /\ SettledInv' /\ UpToDateSound' /\ StopsExplained'
  <2>1. pc \in Building /\ pc' \notin Checking \cup {"upToDate", "asserted"}
    BY <1>10 DEF Checking, Building
  <2>2. QED
    BY <2>1, InBuild DEF Later
<1>25. QED
  BY <1>16, <1>17, <1>18, <1>19, <1>20, <1>21, <1>22, <1>23, <1>24 DEF BuilderInv

(* Looking a shader up may open its main source.                           *)
LEMMA LookedUp ==
  ASSUME BuilderInv, NEW shader \in DeclaredShaders
  PROVE  /\ Remembered(CacheAfterLookup(shader))
         /\ \A g \in SourceFiles : run.cache[g].modTime # InvalidTime => CacheAfterLookup(shader)[g].modTime = run.cache[g].modTime
<1>1. PICK cache : cache = CacheAfterLookup(shader)
  OBVIOUS
<1>2. shader.source \in SourceFiles
  BY DeclaredTyped
<1>3. CASE cache = Open(shader.source)
  <2>1. OpenedAs(cache, shader.source)
    BY <1>2, <1>3, Opening DEF BuilderInv
  <2>2. QED
    BY <1>1, <2>1 DEF OpenedAs, Remembered
<1>4. CASE cache = run.cache
  <2>1. Remembered(cache)
    <3>1. cache \in [SourceFiles -> [modTime : Nat, text : Text \cup {None}]]
      BY <1>4, Typed DEF BuilderInv
    <3>2. QED
      BY <1>4, <3>1 DEF BuilderInv, CacheInv, Remembered
  <2>2. QED
    BY <1>1, <1>4, <2>1
<1>5. QED
  BY <1>1, <1>3, <1>4 DEF CacheAfterLookup

LEMMA LoadCachedShaderStep == ASSUME BuilderInv, LoadCachedShader PROVE BuilderInv'
<1>1. pc = "loadCached" /\ inputs' = inputs /\ outputs' = outputs
      /\ blobs' = blobs /\ library' = library /\ trace' = trace
  BY DEF LoadCachedShader, inputs, outputs
<1>2. /\ run \in Program /\ run.next \in Nat /\ run.next # 0 /\ DOMAIN run.shaders = 1..Len(run.shaders)
      /\ Len(run.shaders) \in Nat /\ ToSet(run.shaders) \subseteq DeclaredShaders
      /\ run.built \in [ShaderNames -> Built \cup {None}]
  <2>1. run.next # 0
    BY <1>1 DEF BuilderInv, PhaseInv
  <2>2. run \in Program
    BY DEF BuilderInv, TypeOK
  <2>3. run.next \in Nat /\ run.built \in [ShaderNames -> Built \cup {None}]
    BY <2>2 DEF Program
  <2>4. QED
    BY <2>1, <2>2, <2>3, Typed DEF BuilderInv
<1>3. pc \in Building \ (Unopened \cup {"flush"})
  BY <1>1 DEF Building, Unopened
<1>4. CASE run.next > Len(run.shaders)
  <2>1. history' = history /\ pc' = "compile" /\ run' = run
    BY <1>4 DEF LoadCachedShader, NoEvent, Goto
  <2>2. Later
    BY <2>1, Unhindered
  <2>3. /\ TypeOK' /\ EventsInv' /\ PastInv' /\ RecordsInv' /\ TraceInv' /\ CalmInv'
        /\ CheckInv' /\ SettledInv' /\ UpToDateSound' /\ StopsExplained'
    BY <1>1, <1>2, <1>3, <2>1, <2>2, QuietBuild
  <2>4. CacheInv'
    <3>1. Remembered(run.cache)
      <4>1. run.cache \in [SourceFiles -> [modTime : Nat, text : Text \cup {None}]]
        BY <1>2 DEF Program
      <4>2. QED
        BY <4>1 DEF BuilderInv, CacheInv, Remembered
    <3>2. QED
      BY <1>1, <2>1, <2>2, <3>1, StillRemembered
  <2>5. PhaseInv'
    BY <2>1 DEF PhaseInv, Checking, Unopened
  <2>6. QED
    BY <2>3, <2>4, <2>5 DEF BuilderInv
<1>5. CASE ~(run.next > Len(run.shaders))
  <2>1. PICK shader : shader = run.shaders[run.next]
    OBVIOUS
  <2>2. shader \in ToSet(run.shaders) /\ shader \in DeclaredShaders /\ shader.name \in ShaderNames
    <3>1. run.next \in DOMAIN run.shaders
      BY <1>2, <1>5
    <3>2. shader \in ToSet(run.shaders)
      BY <2>1, <3>1 DEF ToSet
    <3>3. QED
      BY <1>2, <3>2, DeclaredTyped
  <2>3. PICK next, cache : next = run.next + 1 /\ cache = CacheAfterLookup(shader)
    OBVIOUS
  <2>4. /\ next \in Nat /\ next # 0 /\ Remembered(cache)
        /\ \A g \in SourceFiles : run.cache[g].modTime # InvalidTime => cache[g].modTime = run.cache[g].modTime
        /\ cache \in [SourceFiles -> [modTime : Nat, text : Text \cup {None}]]
    BY <1>2, <2>2, <2>3, LookedUp DEF Remembered
  <2>5. PICK looked : looked = [run EXCEPT !.next = next, !.cache = cache]
    OBVIOUS
  <2>6. PICK record : record = FindShader(run.prev, shader.name)
    OBVIOUS
  <2>7. PICK built : built = [blob |-> blobs[shader.name].content, reused |-> TRUE]
    OBVIOUS
  <2>8. \/ /\ Reusable(shader) /\ history' = history
           /\ FlushOr("loadCached",
                PutShader([looked EXCEPT !.built[shader.name] = built], shader, PathsOf(record), record.blobModTime))
        \/ /\ Outcome(~Reusable(shader)) /\ run' = looked /\ pc' = pc
    <3>1. ~(DoShaderDetailsMatch(record, shader) /\ record.files = <<>>)
      BY DEF DoShaderDetailsMatch
    <3>2. QED
      BY <1>5, <2>1, <2>3, <2>5, <2>6, <2>7, <3>1 DEF LoadCachedShader, NoEvent
  <2>9. /\ looked \in Program /\ looked.next = next /\ looked.cache = cache
        /\ looked.put = run.put /\ looked.flushed = run.flushed /\ looked.cut = run.cut
        /\ looked.prev = run.prev /\ looked.built = run.built /\ looked.traceOpen = run.traceOpen
        /\ looked.shaders = run.shaders /\ looked.atTrace = run.atTrace /\ looked.prevOpened = run.prevOpened
    BY <1>2, <2>4, <2>5 DEF Program
  <2>10. CASE Outcome(~Reusable(shader)) /\ run' = looked /\ pc' = pc
    <3>1. Later
      BY <2>10, Outcomes
    <3>2. /\ TypeOK' /\ EventsInv' /\ PastInv' /\ RecordsInv' /\ TraceInv' /\ CalmInv'
          /\ CheckInv' /\ SettledInv' /\ UpToDateSound' /\ StopsExplained'
      BY <1>1, <1>3, <2>4, <2>9, <2>10, <3>1, QuietBuild
    <3>3. CacheInv'
      BY <1>1, <2>4, <2>9, <2>10, <3>1, StillRemembered
    <3>4. PhaseInv'
      BY <1>1, <2>4, <2>9, <2>10 DEF PhaseInv, Checking, Unopened
    <3>5. QED
      BY <3>2, <3>3, <3>4 DEF BuilderInv
  <2>11. CASE /\ Reusable(shader) /\ history' = history
              /\ FlushOr("loadCached",
                   PutShader([looked EXCEPT !.built[shader.name] = built], shader, PathsOf(record), record.blobModTime))
    <3>1. Later
      BY <2>11, Unhindered
    <3>2. PICK times, paths, blob, blobModTime :
            /\ times = Times(cache) /\ paths = PathsOf(record) /\ blob = blobs[shader.name].content
            /\ blobModTime = record.blobModTime
      OBVIOUS
    <3>3. /\ blobModTime \in Nat /\ paths \in Seq(SourceFiles)
          /\ \A i \in 1..Len(paths) : times[paths[i]] \in FileTime
          /\ blob \in Blob /\ Past(sources, blob)
          /\ blob.misdated \/ Made(blob, shader, paths, times)
      <4>1. \A g \in SourceFiles : run.cache[g].modTime # InvalidTime => times[g] = run.cache[g].modTime
        BY <2>4, <3>2 DEF Times
      <4>2. QED
        BY <2>2, <2>6, <2>11, <3>2, <4>1, ReusedMade
    <3>4. built \in Built /\ built.blob = blob /\ built.reused
      BY <2>7, <3>2, <3>3 DEF Built
    <3>5. PICK allBuilt : allBuilt = [run.built EXCEPT ![shader.name] = built]
      OBVIOUS
    <3>6. allBuilt \in [ShaderNames -> Built \cup {None}]
      BY <1>2, <2>2, <3>4, <3>5
    <3>7. PICK state : state = [looked EXCEPT !.built[shader.name] = built]
      OBVIOUS
    <3>8. state = [looked EXCEPT !.built = allBuilt]
      BY <2>9, <3>5, <3>7
    <3>9. /\ state \in Program /\ state.next = next /\ state.cache = cache
          /\ state.put = run.put /\ state.flushed = run.flushed /\ state.cut = run.cut
          /\ state.prev = run.prev /\ state.built = allBuilt /\ state.traceOpen = run.traceOpen
          /\ state.shaders = run.shaders /\ state.atTrace = run.atTrace /\ state.prevOpened = run.prevOpened
      BY <2>9, <3>6, <3>8 DEF Program
    <3>10. FlushOr("loadCached", PutShader(state, shader, paths, blobModTime))
      BY <2>11, <3>2, <3>7
    <3>11. /\ blobs' \in [ShaderNames -> FileOf(Blob, FileTime)]
           /\ \A s \in ShaderNames : blobs'[s].content # None => Past(sources, blobs'[s].content)
           /\ BlobsSound(blobs', run.prev.records) /\ BlobsSound(blobs', All)
      BY <1>1 DEF BuilderInv, TypeOK, PastInv, RecordsInv
    <3>12. LET file == blobs'[shader.name] IN
           file.content # None /\ file.modTime = blobModTime => file.content.misdated \/ Made(file.content, shader, paths, times)
      BY <1>1, <3>2, <3>3
    <3>13. Past(sources, built.blob) /\ Deserved(built, shader, paths, times)
      BY <3>3, <3>4 DEF Deserved
    <3>14. Remembered(state.cache) /\ times = Times(state.cache)
      BY <2>4, <3>2, <3>9
    <3>15. state.built = [run.built EXCEPT ![shader.name] = built] /\ state.next # 0
      BY <2>4, <3>5, <3>9
    <3>16. "loadCached" \in {"loadCached", "compile"} /\ pc \in {"loadCached", "store"}
      BY <1>1
    <3>17. QED
      BY <1>1, <2>2, <3>1, <3>3, <3>4, <3>9, <3>10, <3>11, <3>12, <3>13, <3>14, <3>15, <3>16, ShaderBuilt
  <2>12. QED
    BY <2>8, <2>10, <2>11
<1>6. QED
  BY <1>4, <1>5

-----------------------------------------------------------------------------
(* What the compiler makes of the texts that were read.                    *)
LEMMA Compiled ==
  ASSUME BuilderInv, pc = "store", NEW whole \in BOOLEAN, NEW misdated \in BOOLEAN,
         NEW blob, blob = CompiledBlob(whole, misdated), NEW times, times = Times(run.cache)
  PROVE  /\ blob \in Blob /\ Past(sources, blob) /\ blob.misdated = misdated
         /\ blob.layoutXSH = run.compiling.layoutXSH /\ blob.layout = run.compiling.layout
         /\ run.used \in Seq(SourceFiles) /\ \A i \in 1..Len(run.used) : times[run.used[i]] \in FileTime
         /\ whole => Made(blob, run.compiling, run.used, times)
<1>1. /\ run \in Program /\ run.cache \in [SourceFiles -> [modTime : Nat, text : Text \cup {None}]]
      /\ ToSet(run.shaders) \subseteq DeclaredShaders
  BY Typed DEF BuilderInv
<1>2. run.compiling \in DeclaredShaders /\ \A f \in ToSet(run.used) : run.cache[f].text # None
  BY <1>1 DEF BuilderInv, PhaseInv
<1>3. PICK used : used = run.used
  OBVIOUS
<1>4. used \in Seq(SourceFiles) /\ ToSet(used) \subseteq SourceFiles /\ DOMAIN used = 1..Len(used)
  <2>1. used \in Seq(SourceFiles)
    BY <1>1, <1>3 DEF Program
  <2>2. DOMAIN used = 1..Len(used) /\ \A i \in 1..Len(used) : used[i] \in SourceFiles
    BY <2>1, LenProperties, ElementOfSeq
  <2>3. QED
    BY <2>1, <2>2 DEF ToSet
<1>5. ASSUME NEW f \in ToSet(used)
      PROVE  /\ times[f] \in FileTime /\ run.cache[f].text.version \in FileTime
             /\ times[f] <= run.cache[f].text.version /\ run.cache[f].text.version <= sources[f].modTime
  <2>1. f \in SourceFiles /\ run.cache[f].text # None /\ CachedSound(run.cache[f], sources[f])
    BY <1>2, <1>3, <1>4 DEF BuilderInv, CacheInv
  <2>2. run.cache[f].modTime \in Nat /\ run.cache[f].text \in Text
    BY <1>1, <2>1
  <2>3. times[f] = run.cache[f].modTime
    BY <2>1 DEF Times
  <2>4. QED
    BY <2>1, <2>2, <2>3 DEF CachedSound, FileTime, Text
<1>6. PICK versions : versions = {<<f, run.cache[f].text.version>> : f \in ToSet(used)}
  OBVIOUS
<1>7. versions \in SUBSET (SourceFiles \X FileTime)
  BY <1>4, <1>5, <1>6
<1>8. blob = [versions |-> versions,
              layout |-> run.compiling.layout, layoutXSH |-> run.compiling.layoutXSH,
              type |-> run.compiling.type, entry |-> run.compiling.entry, whole |-> whole, misdated |-> misdated]
  BY <1>3, <1>6 DEF CompiledBlob
<1>9. blob \in Blob
  BY <1>2, <1>7, <1>8 DEF Blob
<1>10. Past(sources, blob)
  BY <1>5, <1>6, <1>8 DEF Past
<1>11. \A i \in 1..Len(used) : times[used[i]] \in FileTime
  BY <1>4, <1>5 DEF ToSet
<1>12. \A v \in versions : \E i \in 1..Len(used) : used[i] = v[1] /\ times[v[1]] <= v[2]
  <2>1. \A f \in ToSet(used) : \E i \in 1..Len(used) : used[i] = f
    BY <1>4 DEF ToSet
  <2>2. QED
    BY <1>5, <1>6, <2>1
<1>13. whole => Made(blob, run.compiling, used, times)
  BY <1>8, <1>12 DEF Made
<1>14. QED
  BY <1>3, <1>4, <1>8, <1>9, <1>10, <1>11, <1>13

(* A blob file that no record can take for another one.                    *)
Unmistakable(file) ==
  /\ file \in FileOf(Blob, FileTime)
  /\ file.content # None => Past(sources, file.content)
  /\ file.modTime \notin RecordedTimes \/ file.content = None \/ file.content.misdated

LEMMA Replaced ==
  ASSUME BuilderInv, NEW name \in ShaderNames, NEW file, Unmistakable(file),
         NEW new, new = [blobs EXCEPT ![name] = file]
  PROVE  /\ new \in [ShaderNames -> FileOf(Blob, FileTime)] /\ new[name] = file
         /\ \A s \in ShaderNames : new[s].content # None => Past(sources, new[s].content)
         /\ BlobsSound(new, run.prev.records) /\ BlobsSound(new, All)
<1>1. blobs \in [ShaderNames -> FileOf(Blob, FileTime)] /\ \A s \in ShaderNames : blobs[s].content # None => Past(sources, blobs[s].content)
  BY DEF BuilderInv, TypeOK, PastInv
<1>2. /\ new \in [ShaderNames -> FileOf(Blob, FileTime)] /\ new[name] = file
      /\ \A other \in ShaderNames : other # name => new[other] = blobs[other]
  BY <1>1 DEF Unmistakable
<1>3. /\ run.prev.records \in Seq(Record) /\ All \in Seq(Record)
      /\ TimesIn(run.prev.records) /\ TimesIn(All)
  BY Typed, TimesRecorded DEF BuilderInv
<1>4. ASSUME NEW records \in Seq(Record), TimesIn(records), BlobsSound(blobs, records) PROVE BlobsSound(new, records)
  <2>1. ASSUME NEW i \in DOMAIN records, IsShader(records, i), records[i].name = name
        PROVE  \/ new[name].modTime # records[i].blobModTime
               \/ new[name].content = None \/ new[name].content.misdated
    BY <1>2, <1>4, <2>1 DEF TimesIn, IsShader, Unmistakable
  <2>2. QED
    <3>1. PICK old, now : old = blobs /\ now = new
      OBVIOUS
    <3>2. BlobsSound(old, records) /\ \A other \in ShaderNames : other # name => now[other] = old[other]
      BY <1>2, <1>4, <3>1
    <3>3. \A i \in DOMAIN records :
            IsShader(records, i) /\ records[i].name = name =>
              \/ now[name].modTime # records[i].blobModTime
              \/ now[name].content = None \/ now[name].content.misdated
      BY <2>1, <3>1
    <3>4. BlobsSound(now, records)
      BY <3>2, <3>3, ReplacedBlobsSound
    <3>5. QED
      BY <3>1, <3>4
<1>5. BlobsSound(new, run.prev.records) /\ BlobsSound(new, All)
  BY <1>3, <1>4 DEF BuilderInv, RecordsInv
<1>6. QED
  BY <1>1, <1>2, <1>5 DEF Unmistakable

(* Storing a blob, whole or cut short or not at all, leaves no file that a *)
(* record takes for another one.                                           *)
LEMMA Stored ==
  ASSUME BuilderInv, pc = "store", NEW how \in {"stored", "cut short", "not opened"},
         NEW old \in FileOf(Blob, FileTime), old.content # None => Past(sources, old.content),
         NEW file, file = StoredBlob(old, how), NEW times, times = Times(run.cache)
  PROVE  /\ Unmistakable(file) /\ TimeOf(file) \in Nat
         /\ file.content # None => file.content.misdated \/ Made(file.content, run.compiling, run.used, times)
<1>1. NewTime(old) \in FileTime /\ NewTime(old) \notin RecordedTimes
  BY Typed, TimesRecorded, NewTimeIsNew DEF BuilderInv
<1>2. PICK time \in FileTime : time = NewTime(old) /\ time \notin RecordedTimes
  BY <1>1
<1>3. CASE how = "stored"
  <2>1. PICK blob : blob = CompiledBlob(TRUE, FALSE)
    OBVIOUS
  <2>2. PICK new : new = [modTime |-> time, content |-> blob]
    OBVIOUS
  <2>3. file = new
    BY <1>2, <1>3, <2>1, <2>2 DEF StoredBlob
  <2>4. blob \in Blob /\ Past(sources, blob) /\ Made(blob, run.compiling, run.used, times)
    BY <2>1, Compiled
  <2>5. new \in FileOf(Blob, FileTime) /\ new.content = blob /\ new.modTime = time
    BY <1>2, <2>2, <2>4 DEF FileOf
  <2>6. TimeOf(new) \in Nat
    BY <1>2, <2>5 DEF TimeOf, FileTime, InvalidTime
  <2>7. Unmistakable(new)
    BY <1>2, <2>4, <2>5 DEF Unmistakable
  <2>8. QED
    BY <2>3, <2>4, <2>5, <2>6, <2>7
<1>4. CASE how = "cut short"
  <2>1. PICK blob : blob = CompiledBlob(FALSE, TRUE)
    OBVIOUS
  <2>2. PICK new : new = [modTime |-> time, content |-> blob]
    OBVIOUS
  <2>3. file = new
    BY <1>2, <1>4, <2>1, <2>2 DEF StoredBlob
  <2>4. blob \in Blob /\ Past(sources, blob) /\ blob.misdated
    BY <2>1, Compiled
  <2>5. new \in FileOf(Blob, FileTime) /\ new.content = blob /\ new.modTime = time
    BY <1>2, <2>2, <2>4 DEF FileOf
  <2>6. TimeOf(new) \in Nat
    BY <1>2, <2>5 DEF TimeOf, FileTime, InvalidTime
  <2>7. Unmistakable(new)
    BY <1>2, <2>4, <2>5 DEF Unmistakable
  <2>8. QED
    BY <2>3, <2>4, <2>5, <2>6, <2>7
<1>5. CASE how = "not opened"
  <2>1. file = IF old.content = None THEN old ELSE [old EXCEPT !.content.misdated = TRUE]
    BY <1>5 DEF StoredBlob
  <2>2. CASE old.content = None
    BY <2>1, <2>2 DEF Unmistakable, TimeOf, InvalidTime
  <2>3. CASE old.content # None
    <3>1. PICK blob : blob = [old.content EXCEPT !.misdated = TRUE]
      OBVIOUS
    <3>2. old \in [modTime : FileTime, content : Blob \cup {None}]
      BY DEF FileOf
    <3>3. old.content \in Blob
      BY <2>3, <3>2
    <3>4. blob \in Blob /\ blob.misdated /\ blob.versions = old.content.versions
      BY <3>1, <3>3 DEF Blob
    <3>5. file = [old EXCEPT !.content = blob]
      BY <2>1, <2>3, <3>1, <3>2
    <3>6. file \in [modTime : FileTime, content : Blob \cup {None}] /\ file.content = blob /\ file.modTime \in FileTime
      BY <3>2, <3>4, <3>5
    <3>7. Past(sources, blob)
      BY <2>3, <3>4 DEF Past
    <3>8. TimeOf(file) \in Nat
      BY <3>6 DEF TimeOf, FileTime, InvalidTime
    <3>9. QED
      BY <3>4, <3>6, <3>7, <3>8 DEF Unmistakable, FileOf
  <2>4. QED
    BY <2>2, <2>3
<1>6. QED
  BY <1>3, <1>4, <1>5

LEMMA StoreStep == ASSUME BuilderInv, Store PROVE BuilderInv'
<1>1. pc = "store" /\ inputs' = inputs /\ library' = library /\ trace' = trace
  BY DEF Store, inputs
<1>2. CASE ~Compiles
  <2>1. Fail /\ history' = history /\ outputs' = outputs
    BY <1>1, <1>2 DEF Store, NoEvent, history, outputs
  <2>2. pc \in Building \ (Unopened \cup {"flush"})
    BY <1>1 DEF Building, Unopened
  <2>3. QED
    BY <1>1, <2>1, <2>2, Unhindered, FailKeeps
<1>3. CASE Compiles
  <2>1. PICK shader, times, used : shader = run.compiling /\ times = Times(run.cache) /\ used = run.used
    OBVIOUS
  <2>2. /\ run \in Program /\ ToSet(run.shaders) \subseteq DeclaredShaders
        /\ run.cache \in [SourceFiles -> [modTime : Nat, text : Text \cup {None}]]
        /\ run.built \in [ShaderNames -> Built \cup {None}]
    BY Typed DEF BuilderInv, Program
  <2>3. shader \in ToSet(run.shaders) /\ shader \in DeclaredShaders /\ shader.name \in ShaderNames
    <3>1. shader \in ToSet(run.shaders)
      BY <1>1, <2>1 DEF BuilderInv, PhaseInv
    <3>2. QED
      BY <2>2, <3>1, DeclaredTyped
  <2>4. PICK blob, built : blob = CompiledBlob(TRUE, FALSE) /\ built = [blob |-> blob, reused |-> FALSE]
    OBVIOUS
  <2>5. /\ blob \in Blob /\ Past(sources, blob)
        /\ blob.layoutXSH = shader.layoutXSH /\ blob.layout = shader.layout
        /\ used \in Seq(SourceFiles) /\ \A i \in 1..Len(used) : times[used[i]] \in FileTime
        /\ Made(blob, shader, used, times)
    BY <1>1, <2>1, <2>4, Compiled
  <2>6. built \in Built /\ built.blob = blob /\ ~built.reused
    BY <2>4, <2>5 DEF Built
  <2>7. PICK how \in {"stored", "cut short", "not opened"} :
          LET file == StoredBlob(blobs[shader.name], how) IN
          /\ Outcome(how = "stored")
          /\ blobs' = [blobs EXCEPT ![shader.name] = file]
          /\ FlushOr("compile",
               PutShader([run EXCEPT !.built[shader.name] = built, !.compiling = None], shader, used, TimeOf(file)))
    BY <1>3, <2>1, <2>4 DEF Store
  <2>8. Later
    <3>1. PICK ok \in BOOLEAN : ok = (how = "stored")
      OBVIOUS
    <3>2. Outcome(ok)
      BY <2>7, <3>1
    <3>3. QED
      BY <3>2, Outcomes
  <2>9. PICK file, old : old = blobs[shader.name] /\ file = StoredBlob(old, how)
    OBVIOUS
  <2>10. old \in FileOf(Blob, FileTime) /\ (old.content # None => Past(sources, old.content))
    BY <2>3, <2>9 DEF BuilderInv, TypeOK, PastInv
  <2>11. /\ Unmistakable(file) /\ TimeOf(file) \in Nat
         /\ file.content # None => file.content.misdated \/ Made(file.content, shader, used, times)
    BY <1>1, <2>1, <2>7, <2>9, <2>10, Stored
  <2>12. /\ blobs' \in [ShaderNames -> FileOf(Blob, FileTime)] /\ blobs'[shader.name] = file
         /\ \A s \in ShaderNames : blobs'[s].content # None => Past(sources, blobs'[s].content)
         /\ BlobsSound(blobs', run.prev.records) /\ BlobsSound(blobs', All)
    <3>1. PICK new : new = blobs'
      OBVIOUS
    <3>2. new = [blobs EXCEPT ![shader.name] = file]
      BY <2>7, <2>9, <3>1
    <3>3. QED
      BY <2>3, <2>11, <3>1, <3>2, Replaced
  <2>13. PICK allBuilt : allBuilt = [run.built EXCEPT ![shader.name] = built]
    OBVIOUS
  <2>14. allBuilt \in [ShaderNames -> Built \cup {None}]
    BY <2>2, <2>6, <2>13
  <2>15. PICK state : state = [run EXCEPT !.built[shader.name] = built, !.compiling = None]
    OBVIOUS
  <2>16. state = [run EXCEPT !.built = allBuilt, !.compiling = None]
    BY <2>2, <2>13, <2>15 DEF Program
  <2>17. /\ state \in Program /\ state.built = allBuilt /\ state.cache = run.cache
         /\ state.put = run.put /\ state.flushed = run.flushed /\ state.cut = run.cut
         /\ state.prev = run.prev /\ state.traceOpen = run.traceOpen
         /\ state.shaders = run.shaders /\ state.atTrace = run.atTrace /\ state.prevOpened = run.prevOpened
    BY <2>2, <2>14, <2>16 DEF Program
  <2>18. FlushOr("compile", PutShader(state, shader, used, TimeOf(file)))
    BY <2>7, <2>9, <2>15
  <2>19. Remembered(state.cache) /\ times = Times(state.cache)
    BY <2>1, <2>2, <2>17 DEF Remembered, BuilderInv, CacheInv
  <2>20. Deserved(built, shader, used, times) /\ Past(sources, built.blob)
    BY <2>5, <2>6 DEF Deserved
  <2>21. PICK modTime \in Nat : modTime = TimeOf(file)
    BY <2>11
  <2>22. LET new == blobs'[shader.name] IN
         new.content # None /\ new.modTime = modTime => new.content.misdated \/ Made(new.content, shader, used, times)
    BY <2>11, <2>12
  <2>23. state.built = [run.built EXCEPT ![shader.name] = built]
    BY <2>13, <2>17
  <2>24. "compile" \in {"loadCached", "compile"} /\ pc \in {"loadCached", "store"} /\ "compile" # "loadCached"
    BY <1>1
  <2>25. FlushOr("compile", PutShader(state, shader, used, modTime))
    BY <2>18, <2>21
  <2>26. QED
    BY <1>1, <2>3, <2>5, <2>6, <2>8, <2>12, <2>17, <2>19, <2>20, <2>21, <2>22, <2>23, <2>24, <2>25, ShaderBuilt
<1>4. QED
  BY <1>2, <1>3

-----------------------------------------------------------------------------
(* The library.  What is written to it is what was built, but no trace     *)
(* gives it its time before the build is finished.                         *)
LEMMA LibraryMade ==
  ASSUME BuilderInv, pc \in {"openLibrary", "writeLibrary"},
         NEW state \in {"torn", "whole", "write failed"}, NEW content, content = LibraryOf(state)
  PROVE  /\ content \in LibraryContent /\ content # None /\ PastContent(sources, content)
         /\ run.traceOpen /\ state # "torn" => ContentSound(content, All, {})
<1>1. /\ run \in Program /\ ToSet(run.shaders) \subseteq DeclaredShaders /\ run.built \in [ShaderNames -> Built \cup {None}]
      /\ run.atLoad \in Nat /\ run.atTrace \in Nat
  BY Typed DEF BuilderInv, Program
<1>2. PICK shaders, built : shaders = ToSet(run.shaders) /\ built = run.built
  OBVIOUS
<1>3. \A s \in shaders : s \in DeclaredShaders /\ s.name \in ShaderNames /\ built[s.name] \in Built \cup {None} /\ built[s.name] # None
  <2>1. \A s \in shaders : s \in DeclaredShaders /\ s.name \in ShaderNames
    BY <1>1, <1>2, DeclaredTyped
  <2>2. \A s \in shaders : built[s.name] # None
    BY <1>2 DEF BuilderInv, PhaseInv
  <2>3. QED
    BY <1>1, <1>2, <2>1, <2>2
<1>4. PICK entries : entries = {[shader |-> s, built |-> built[s.name]] : s \in shaders}
  OBVIOUS
<1>5. /\ entries \in SUBSET [shader : DeclaredShaders, built : Built \cup {None}]
      /\ \A entry \in entries : \E s \in shaders : entry.shader = s /\ entry.built = built[s.name]
  <2>1. ASSUME NEW entry \in entries
        PROVE  /\ entry \in [shader : DeclaredShaders, built : Built \cup {None}]
               /\ \E s \in shaders : entry.shader = s /\ entry.built = built[s.name]
    <3>1. PICK s \in shaders : entry = [shader |-> s, built |-> built[s.name]]
      BY <1>4
    <3>2. PICK made : made = built[s.name]
      OBVIOUS
    <3>3. s \in DeclaredShaders /\ made \in Built \cup {None}
      BY <1>3, <3>1, <3>2
    <3>4. entry = [shader |-> s, built |-> made]
      BY <3>1, <3>2
    <3>5. entry \in [shader : DeclaredShaders, built : Built \cup {None}] /\ entry.shader = s /\ entry.built = made
      BY <3>3, <3>4
    <3>6. QED
      BY <3>1, <3>2, <3>5
  <2>2. QED
    BY <2>1
<1>6. PICK new : new = [state |-> state, atLoad |-> run.atLoad, atTrace |-> run.atTrace, shaders |-> entries]
  OBVIOUS
<1>7. content = new
  BY <1>2, <1>4, <1>6 DEF LibraryOf
<1>8. new \in LibraryContent
  BY <1>1, <1>5, <1>6 DEF LibraryContent
<1>9. PastContent(sources, new)
  <2>1. \A s \in ShaderNames : built[s] # None => Past(sources, built[s].blob)
    BY <1>2 DEF BuilderInv, PastInv
  <2>2. new.shaders = entries
    BY <1>6
  <2>3. QED
    BY <1>3, <1>5, <2>1, <2>2 DEF PastContent
<1>10. ASSUME run.traceOpen, state # "torn" PROVE ContentSound(new, All, {})
  <2>1. All[1].modTime = run.atTrace /\ BuiltSound(run.shaders, run.built, All)
    BY <1>10 DEF BuilderInv, TraceInv
  <2>2. new.shaders = entries /\ new.state = state /\ new.atTrace = run.atTrace
    BY <1>6
  <2>3. \A s \in shaders : EntrySound(All, s, built[s.name], {})
    BY <1>2, <1>3, <2>1 DEF BuiltSound
  <2>4. \A entry \in entries : entry.built # None /\ EntrySound(All, entry.shader, entry.built, {})
    BY <1>3, <1>5, <2>3
  <2>5. QED
    BY <1>10, <2>1, <2>2, <2>4 DEF ContentSound
<1>11. QED
  BY <1>7, <1>8, <1>9, <1>10, NoneAssumption

(* A trace that is complete ends in a record, which is in it.              *)
LEMMA LastThere ==
  ASSUME NEW records \in Seq(Record), records # <<>>
  PROVE  Len(records) \in DOMAIN records
<1>1. PICK n : n = Len(records)
  OBVIOUS
<1>2. n \in Nat /\ DOMAIN records = 1..n /\ n # 0
  BY <1>1, RecordsTyped, EmptySeq
<1>3. n \in 1..n
  BY <1>2
<1>4. QED
  BY <1>1, <1>2, <1>3

LEMMA LibraryReplaced ==
  ASSUME BuilderInv, pc \in {"openLibrary", "writeLibrary"}, Later, inputs' = inputs, blobs' = blobs, trace' = trace,
         run' = run, NEW state \in {"torn", "whole", "write failed"},
         library' = [modTime |-> NewTime(library), content |-> LibraryOf(state)],
         pc' \in {"writeLibrary", "finish"}, pc' = "finish" => state # "torn"
  PROVE  BuilderInv'
<1>1. manifest' = manifest /\ sources' = sources /\ (~disturbed' => ~disturbed)
  BY DEF inputs, Later
<1>2. All' = All /\ Unknown' = Unknown
  BY DEF All, Unknown
<1>3. All \in Seq(Record) /\ TimesIn(All) /\ IsFiniteSet(RecordedTimes)
  BY Typed, TimesRecorded DEF BuilderInv
<1>4. PICK time \in FileTime : time = NewTime(library) /\ time \notin RecordedTimes
  BY <1>3, NewTimeIsNew
<1>5. PICK content : content = LibraryOf(state)
  OBVIOUS
<1>6. /\ content \in LibraryContent /\ content # None /\ PastContent(sources, content)
      /\ run.traceOpen /\ state # "torn" => ContentSound(content, All, {})
  BY <1>5, LibraryMade
<1>7. library' \in FileOf(LibraryContent, FileTime) /\ library'.content = content /\ library'.modTime = time
  <2>1. PICK file : file = [modTime |-> time, content |-> content]
    OBVIOUS
  <2>2. library' = file
    BY <1>4, <1>5, <2>1
  <2>3. file \in FileOf(LibraryContent, FileTime) /\ file.content = content /\ file.modTime = time
    BY <1>4, <1>6, <2>1 DEF FileOf
  <2>4. QED
    BY <2>2, <2>3
<1>8. pc' \in Building /\ pc' \notin Unopened
  BY DEF Building, Unopened
<1>9. TypeOK'
  BY <1>1, <1>7, <1>8 DEF BuilderInv, TypeOK, Later
<1>10. EventsInv'
  BY EventsCounted
<1>11. PastInv'
  BY <1>1, <1>6, <1>7 DEF BuilderInv, PastInv
<1>12. CacheInv'
  <2>1. \A f \in SourceFiles : TimeOf(sources[f])' = TimeOf(sources[f])
    BY <1>1 DEF TimeOf
  <2>2. QED
    BY <1>1, <2>1 DEF BuilderInv, CacheInv
<1>13. TraceInv'
  <2>1. ~Finished
    BY DEF Finished
  <2>2. QED
    BY <1>2, <1>8, <2>1 DEF BuilderInv, TraceInv
<1>14. RecordsInv'
  <2>1. ASSUME NEW records \in Seq(Record), TimesIn(records), NEW unknown PROVE LibrarySound(library', records, unknown)
    <3>1. SUFFICES ASSUME IsComplete(records), time = records[Len(records)].modTime PROVE FALSE
      BY <1>7 DEF LibrarySound
    <3>2. Len(records) \in DOMAIN records
      BY <2>1, <3>1, LastThere DEF IsComplete
    <3>3. QED
      BY <1>4, <2>1, <3>1, <3>2 DEF TimesIn, IsComplete
  <2>2. LibrarySound(library', All, Unknown)
    BY <1>3, <2>1
  <2>3. BlobsSound(blobs, run.prev.records) /\ BlobsSound(blobs, All)
    BY DEF BuilderInv, RecordsInv
  <2>4. QED
    BY <1>2, <1>6, <1>7, <2>2, <2>3 DEF RecordsInv
<1>15. PhaseInv'
  BY DEF BuilderInv, PhaseInv, Checking, Unopened
<1>16. CalmInv'
  <2>1. ~disturbed =>
          /\ manifest.content # None
          /\ run.traceOpen => run.atTrace = TimeOf(manifest) /\ ~run.cut /\ HoldsAll(trace, All, run.flushed)
    BY DEF BuilderInv, CalmInv, Building
  <2>2. TimeOf(manifest)' = TimeOf(manifest)
    BY <1>1 DEF TimeOf
  <2>3. QED
    BY <1>1, <1>2, <1>6, <1>7, <2>1, <2>2 DEF CalmInv
<1>17. CheckInv' /\ SettledInv' /\ UpToDateSound' /\ StopsExplained'
  <2>1. pc \in Building /\ pc' \notin Checking \cup {"upToDate", "asserted"}
    BY DEF Checking, Building
  <2>2. QED
    BY <2>1, InBuild DEF Later
<1>18. QED
  BY <1>9, <1>10, <1>11, <1>12, <1>13, <1>14, <1>15, <1>16, <1>17 DEF BuilderInv

LEMMA OpenLibraryStep == ASSUME BuilderInv, OpenLibrary PROVE BuilderInv'
<1>1. pc = "openLibrary" /\ inputs' = inputs /\ blobs' = blobs /\ trace' = trace
  BY DEF OpenLibrary, inputs
<1>2. PICK ok \in BOOLEAN :
        /\ Outcome(ok)
        /\ IF ok THEN /\ library' = [modTime |-> NewTime(library), content |-> LibraryOf("torn")]
                      /\ pc' = "writeLibrary" /\ run' = run
                 ELSE Fail /\ library' = library
  BY DEF OpenLibrary, Goto
<1>3. Later
  BY <1>2, Outcomes
<1>4. CASE ok
  BY <1>1, <1>2, <1>3, <1>4, LibraryReplaced
<1>5. CASE ~ok
  <2>1. pc \in Building \ (Unopened \cup {"flush"})
    BY <1>1 DEF Building, Unopened
  <2>2. outputs' = outputs
    BY <1>1, <1>2, <1>5 DEF outputs
  <2>3. QED
    BY <1>1, <1>2, <1>3, <1>5, <2>1, <2>2, FailKeeps
<1>6. QED
  BY <1>4, <1>5

LEMMA WriteLibraryStep == ASSUME BuilderInv, WriteLibrary PROVE BuilderInv'
<1>1. pc = "writeLibrary" /\ inputs' = inputs /\ blobs' = blobs /\ trace' = trace /\ run' = run /\ pc' = "finish"
  BY DEF WriteLibrary, inputs, Goto
<1>2. PICK ok \in BOOLEAN :
        Outcome(ok) /\ library' = [modTime |-> NewTime(library), content |-> LibraryOf(IF ok THEN "whole" ELSE "write failed")]
  BY DEF WriteLibrary
<1>3. Later
  BY <1>2, Outcomes
<1>4. PICK state \in {"whole", "write failed"} : state = IF ok THEN "whole" ELSE "write failed"
  OBVIOUS
<1>5. library' = [modTime |-> NewTime(library), content |-> LibraryOf(state)]
  BY <1>2, <1>4
<1>6. state \in {"torn", "whole", "write failed"} /\ state # "torn"
  BY <1>4
<1>7. QED
  BY <1>1, <1>3, <1>5, <1>6, LibraryReplaced

-----------------------------------------------------------------------------
(* The record of the library ends the trace: a library that has the time   *)
(* in it is the one that was just written.                                 *)
LEMMA LibraryRecorded ==
  ASSUME BuilderInv, pc = "finish", run.traceOpen,
         NEW last, last = LibraryRecord(TimeOf(library)), NEW all, all = Append(All, last)
  PROVE  /\ last \in Record /\ all \in Seq(Record) /\ all # <<>> /\ WellFormed(all) /\ all[1].modTime = run.atTrace
         /\ IsComplete(all) /\ all[Len(all)].modTime = TimeOf(library)
         /\ TimedBy(run.cache, all) /\ BuiltSound(run.shaders, run.built, all)
         /\ BlobsSound(blobs, all) /\ LibrarySound(library, all, {}) /\ Extends(all, All)
<1>1. PICK old : old = All
  OBVIOUS
<1>2. /\ old \in Seq(Record) /\ WellFormed(old) /\ old # <<>> /\ old[1].modTime = run.atTrace
      /\ NoLibrary(old) /\ TimedBy(run.cache, old) /\ BuiltSound(run.shaders, run.built, old)
      /\ BlobsSound(blobs, old) /\ (library.content # None => ContentSound(library.content, old, {}))
  <2>1. ~Finished
    BY DEF Finished
  <2>2. QED
    BY <1>1, <2>1, Typed DEF BuilderInv, TraceInv, RecordsInv
<1>3. TimeOf(library) \in Nat
  <2>1. library.modTime \in FileTime
    BY DEF BuilderInv, TypeOK, FileOf
  <2>2. QED
    BY <2>1 DEF TimeOf, FileTime, InvalidTime
<1>4. last \in Record /\ last.kind = "library" /\ last.modTime = TimeOf(library)
  BY <1>3 DEF LibraryRecord, Record
<1>5. PICK n \in Nat : n = Len(old) /\ DOMAIN old = 1..n /\ n # 0
  BY <1>2, RecordsTyped, EmptySeq
<1>6. /\ all \in Seq(Record) /\ Len(all) = n + 1 /\ all # <<>> /\ all[n + 1] = last
      /\ \A i \in 1..n : all[i] = old[i]
      /\ Extends(all, old)
  <2>1. PICK new : new = Append(old, last)
    OBVIOUS
  <2>2. all = new
    BY <1>1, <2>1
  <2>3. /\ new \in Seq(Record) /\ Len(new) = n + 1 /\ new # <<>> /\ new[n + 1] = last
        /\ \A i \in 1..n : new[i] = old[i]
        /\ Extends(new, old)
    BY <1>2, <1>4, <1>5, <2>1, Appended
  <2>4. QED
    BY <2>2, <2>3
<1>7. WellFormed(all)
  <2>1. PICK new : new = Append(old, last)
    OBVIOUS
  <2>2. WellFormed(new)
    BY <1>2, <1>4, <2>1, AppendedWellFormed
  <2>3. QED
    BY <1>1, <2>1, <2>2
<1>8. DOMAIN all = 1..(n + 1) /\ \A i \in 1..(n + 1) : i \in 1..n \/ i = n + 1
  BY <1>5, <1>6, RecordsTyped
<1>9. all[1] = old[1]
  BY <1>5, <1>6
<1>10. TimedBy(run.cache, all)
  BY <1>2, <1>4, <1>5, <1>6, <1>8 DEF TimedBy, IsSource
<1>11. BuiltSound(run.shaders, run.built, all)
  <2>1. ASSUME NEW s, NEW built, EntrySound(old, s, built, {}) PROVE EntrySound(all, s, built, {})
    BY <1>2, <1>6, <2>1, EntryStillSound
  <2>2. QED
    BY <1>2, <2>1 DEF BuiltSound
<1>12. BlobsSound(blobs, all)
  <2>1. \A i \in (n + 1)..(n + 1) : i = n + 1
    BY <1>5
  <2>2. \A i \in (n + 1)..(n + 1) : RecordSound(blobs, all, i)
    BY <1>4, <1>6, <2>1 DEF RecordSound, IsShader
  <2>3. QED
    BY <1>2, <1>5, <1>6, <2>2, MoreBlobsSound
<1>13. LibrarySound(library, all, {})
  BY <1>2, <1>6, ContentStillSound DEF LibrarySound
<1>14. IsComplete(all) /\ all[Len(all)].modTime = TimeOf(library)
  BY <1>4, <1>6 DEF IsComplete
<1>15. QED
  BY <1>1, <1>2, <1>4, <1>6, <1>7, <1>9, <1>10, <1>11, <1>12, <1>13, <1>14

LEMMA FinishStep == ASSUME BuilderInv, Finish PROVE BuilderInv'
<1>1. /\ pc = "finish" /\ inputs' = inputs /\ outputs' = outputs /\ history' = history
      /\ manifest' = manifest /\ sources' = sources /\ blobs' = blobs /\ library' = library /\ trace' = trace
      /\ events' = events /\ disturbed' = disturbed /\ settled' = settled
  BY DEF Finish, NoEvent, inputs, outputs, history
<1>2. /\ run.put \in Seq(Record) /\ All \in Seq(Record) /\ run \in Program
      /\ (run.traceOpen => All = run.put) /\ run.flushed \in 0..Len(run.put)
  BY Typed DEF BuilderInv
<1>3. Later /\ pc \in Building \ (Unopened \cup {"flush"})
  BY <1>1, Unhindered DEF Building, Unopened
<1>4. \A f \in SourceFiles : TimeOf(sources[f])' = TimeOf(sources[f])
  BY <1>1 DEF TimeOf
<1>5. CASE ~run.traceOpen
  <2>1. pc' = "done" /\ run' = run
    BY <1>5 DEF Finish, Goto
  <2>2. /\ TypeOK' /\ EventsInv' /\ PastInv' /\ RecordsInv' /\ TraceInv' /\ CalmInv'
        /\ CheckInv' /\ SettledInv' /\ UpToDateSound' /\ StopsExplained'
    BY <1>1, <1>2, <1>3, <1>5, <2>1, QuietBuild
  <2>3. CacheInv'
    BY <1>1, <1>4, <2>1 DEF BuilderInv, CacheInv
  <2>4. PhaseInv'
    BY <2>1 DEF PhaseInv, Checking, Unopened
  <2>5. QED
    BY <2>2, <2>3, <2>4 DEF BuilderInv
<1>6. CASE run.traceOpen
  <2>1. PICK last : last = LibraryRecord(TimeOf(library))
    OBVIOUS
  <2>2. PICK all : all = Append(All, last)
    OBVIOUS
  <2>3. /\ last \in Record /\ all \in Seq(Record) /\ all # <<>> /\ WellFormed(all) /\ all[1].modTime = run.atTrace
        /\ IsComplete(all) /\ all[Len(all)].modTime = TimeOf(library)
        /\ TimedBy(run.cache, all) /\ BuiltSound(run.shaders, run.built, all)
        /\ BlobsSound(blobs, all) /\ LibrarySound(library, all, {}) /\ Extends(all, All)
    BY <1>1, <1>6, <2>1, <2>2, LibraryRecorded
  <2>4. run.put \o <<last>> = all
    <3>1. PICK old : old = All
      OBVIOUS
    <3>2. Append(old, last) = old \o <<last>>
      BY <1>2, <2>3, <3>1, AppendIsConcat
    <3>3. QED
      BY <1>2, <1>6, <2>2, <3>1, <3>2
  <2>5. PICK n : n = run.flushed
    OBVIOUS
  <2>6. /\ pc' = "flush"
        /\ run' \in Program /\ run'.put = all /\ run'.flushed = n /\ run'.cut = run.cut
        /\ run'.afterFlush = "done" /\ run'.traceOpen = run.traceOpen
        /\ run'.prev = run.prev /\ run'.built = run.built /\ run'.cache = run.cache /\ run'.prevOpened = run.prevOpened
        /\ run'.shaders = run.shaders /\ run'.next = run.next /\ run'.atTrace = run.atTrace
    <3>1. pc' = "flush" /\ run' = [run EXCEPT !.put = all, !.afterFlush = "done"]
      BY <1>6, <2>1, <2>4 DEF Finish, FinalRecords, Goto
    <3>2. QED
      BY <1>2, <2>3, <2>5, <3>1 DEF Program
  <2>7. All' = all /\ Unknown' = {}
    BY <1>6, <2>6 DEF All, Unknown
  <2>8. n <= Len(all) /\ Holds(trace, all, n) /\ (HoldsAll(trace, All, n) => HoldsAll(trace, all, n))
    <3>1. PICK old, file : old = All /\ file = trace
      OBVIOUS
    <3>2. old \in Seq(Record) /\ Extends(all, old) /\ n \in 0..Len(old) /\ Holds(file, old, n)
      BY <1>2, <1>6, <2>3, <2>5, <3>1 DEF BuilderInv, TraceInv
    <3>3. /\ n <= Len(all) /\ Holds(file, all, n)
          /\ HoldsAll(file, old, n) => HoldsAll(file, all, n)
      BY <2>3, <3>2, StillHeld
    <3>4. QED
      BY <3>1, <3>3
  <2>9. TypeOK'
    <3>1. pc' \in Ended \cup Checking \cup Building
      BY <2>6 DEF Building
    <3>2. QED
      BY <1>1, <1>6, <2>3, <2>6, <2>8, <3>1 DEF BuilderInv, TypeOK
  <2>10. EventsInv' /\ PastInv'
    BY <1>1, <2>6 DEF BuilderInv, EventsInv, PastInv
  <2>11. CacheInv'
    BY <1>1, <1>4, <2>6 DEF BuilderInv, CacheInv
  <2>12. TraceInv'
    <3>1. IsLoaded(run.prev) \/ run.prev = NoFile
      BY DEF BuilderInv, TraceInv
    <3>2. pc' \in (Building \ Unopened) \cup {"done", "failed"}
      BY <2>6 DEF Building, Unopened
    <3>3. Finished'
      BY <2>6 DEF Finished
    <3>4. QED
      BY <1>1, <1>6, <2>3, <2>6, <2>7, <2>8, <3>1, <3>2, <3>3 DEF TraceInv
  <2>13. RecordsInv'
    <3>1. BlobsSound(blobs, run.prev.records)
      BY DEF BuilderInv, RecordsInv
    <3>2. QED
      BY <1>1, <2>3, <2>6, <2>7, <3>1 DEF RecordsInv
  <2>14. PhaseInv'
    BY <1>6, <2>6 DEF PhaseInv, Checking, Unopened
  <2>15. CalmInv'
    <3>1. ~disturbed =>
            /\ manifest.content # None /\ run.atTrace = TimeOf(manifest) /\ library.content # None
            /\ ~run.cut /\ HoldsAll(trace, All, n)
      BY <1>1, <1>6, <2>5 DEF BuilderInv, CalmInv, Building
    <3>2. TimeOf(manifest)' = TimeOf(manifest)
      BY <1>1 DEF TimeOf
    <3>3. library.content # None => TimeOf(library) = library.modTime
      BY DEF TimeOf
    <3>4. QED
      BY <1>1, <2>3, <2>6, <2>7, <2>8, <3>1, <3>2, <3>3 DEF CalmInv
  <2>16. CheckInv' /\ SettledInv' /\ UpToDateSound' /\ StopsExplained'
    <3>1. pc \in Building /\ pc' \notin Checking \cup {"upToDate", "asserted"}
      BY <1>1, <2>6 DEF Checking, Building
    <3>2. QED
      BY <1>1, <3>1, InBuild
  <2>17. QED
    BY <2>9, <2>10, <2>11, <2>12, <2>13, <2>14, <2>15, <2>16 DEF BuilderInv
<1>7. QED
  BY <1>5, <1>6

-----------------------------------------------------------------------------
(* An event: nothing is said of this build any more.                       *)
LEMMA Interrupted ==
  ASSUME BuilderInv, AnEvent
  PROVE  Later /\ events' = events + 1 /\ disturbed' /\ ~settled'
<1>1. Outcome(FALSE)
  BY DEF Outcome
<1>2. QED
  BY <1>1, Outcomes DEF AnEvent

(* What a crash leaves: a part of the records, and a part of a blob with a *)
(* time nobody has recorded.                                               *)
LEMMA TornBlobsSound ==
  ASSUME BuilderInv, NEW files \in TornBlobs
  PROVE  /\ files \in [ShaderNames -> FileOf(Blob, FileTime)]
         /\ \A s \in ShaderNames : files[s].content # None => Past(sources, files[s].content)
         /\ BlobsSound(files, All)
<1>1. CASE files = blobs
  BY <1>1 DEF BuilderInv, TypeOK, PastInv, RecordsInv
<1>2. CASE files # blobs
  <2>1. PICK name, old : name = run.compiling.name /\ old = blobs[name]
    OBVIOUS
  <2>2. /\ pc = "store"
        /\ files = [blobs EXCEPT ![name] = [modTime |-> NewTime(old), content |-> CompiledBlob(FALSE, FALSE)]]
    BY <1>2, <2>1 DEF TornBlobs
  <2>3. name \in ShaderNames
    <3>1. run.compiling \in ToSet(run.shaders) /\ ToSet(run.shaders) \subseteq DeclaredShaders
      BY <2>2, Typed DEF BuilderInv, PhaseInv
    <3>2. QED
      BY <2>1, <3>1, DeclaredTyped
  <2>4. PICK time \in FileTime : time = NewTime(old) /\ time \notin RecordedTimes
    BY Typed, TimesRecorded, NewTimeIsNew DEF BuilderInv
  <2>5. PICK blob : blob = CompiledBlob(FALSE, FALSE)
    OBVIOUS
  <2>6. blob \in Blob /\ Past(sources, blob)
    <3>1. PICK times : times = Times(run.cache)
      OBVIOUS
    <3>2. QED
      BY <2>2, <2>5, <3>1, Compiled
  <2>7. PICK file : file = [modTime |-> time, content |-> blob]
    OBVIOUS
  <2>8. Unmistakable(file)
    <3>1. file \in FileOf(Blob, FileTime) /\ file.content = blob /\ file.modTime = time
      BY <2>4, <2>6, <2>7 DEF FileOf
    <3>2. QED
      BY <2>4, <2>6, <3>1 DEF Unmistakable
  <2>9. files = [blobs EXCEPT ![name] = file]
    BY <2>2, <2>4, <2>5, <2>7
  <2>10. QED
    BY <2>3, <2>8, <2>9, Replaced
<1>3. QED
  BY <1>1, <1>2

LEMMA TornTraceSound ==
  ASSUME BuilderInv, NEW files, BlobsSound(files, All), NEW file \in TornTraces
  PROVE  /\ file \in TraceFile
         /\ IsLoaded(file) => BlobsSound(files, file.records) /\ LibrarySound(library, file.records, file.missing)
<1>1. CASE run.traceOpen
  <2>1. PICK all, lib : all = All /\ lib = library
    OBVIOUS
  <2>2. all \in Seq(Record) /\ all = run.put /\ run.flushed \in 0..Len(all) /\ Len(all) \in Nat
    BY <1>1, <2>1, Typed, LenProperties DEF BuilderInv
  <2>3. WellFormed(all) /\ BlobsSound(files, all) /\ LibrarySound(lib, all, {})
    BY <1>1, <2>1 DEF BuilderInv, TraceInv, RecordsInv, Unknown
  <2>4. PICK n \in 0..Len(all) : file \in TraceFile /\ Holds(file, all, n)
    <3>1. CASE file = trace
      BY <1>1, <2>1, <2>2, <3>1 DEF BuilderInv, TypeOK, TraceInv
    <3>2. CASE file # trace
      <4>1. PICK m \in run.flushed..Len(run.put) : file = FlushedTo(m, m, TRUE)
        BY <3>2 DEF TornTraces
      <4>2. m \in run.flushed..m /\ m \in 0..Len(all)
        BY <2>2
      <4>3. file \in TraceFile /\ Holds(file, All, m)
        BY <1>1, <4>1, <4>2, FlushedHolds
      <4>4. QED
        BY <2>1, <4>2, <4>3
    <3>3. QED
      BY <3>1, <3>2
  <2>5. IsLoaded(file) => BlobsSound(files, file.records) /\ LibrarySound(lib, file.records, file.missing)
    BY <2>2, <2>3, <2>4, PartSound
  <2>6. QED
    BY <2>1, <2>4, <2>5
<1>2. CASE ~run.traceOpen
  <2>1. file = trace
    BY <1>2 DEF TornTraces, BuilderInv, PhaseInv
  <2>2. IsLoaded(trace) => All = trace.records /\ Unknown = trace.missing
    BY <1>2 DEF All, Unknown, Readable
  <2>3. LibrarySound(library, All, Unknown) /\ trace \in TraceFile
    BY DEF BuilderInv, RecordsInv, TypeOK
  <2>4. QED
    BY <2>1, <2>2, <2>3
<1>3. QED
  BY <1>1, <1>2

LEMMA CrashStep == ASSUME BuilderInv, Crash PROVE BuilderInv'
<1>1. /\ trace' \in TornTraces /\ blobs' \in TornBlobs /\ pc' = "crashed" /\ run' = FreshProgram
      /\ inputs' = inputs /\ library' = library
      /\ events < MaxEvents /\ events' = events + 1 /\ disturbed' = TRUE /\ settled' = FALSE
  BY DEF Crash, AnEvent, Goto, inputs
<1>2. PICK files, file : files = blobs' /\ file = trace'
  OBVIOUS
<1>3. files \in TornBlobs /\ file \in TornTraces
  BY <1>1, <1>2
<1>4. /\ files \in [ShaderNames -> FileOf(Blob, FileTime)]
      /\ \A s \in ShaderNames : files[s].content # None => Past(sources, files[s].content)
      /\ BlobsSound(files, All)
  BY <1>3, TornBlobsSound
<1>5. /\ file \in TraceFile
      /\ IsLoaded(file) => BlobsSound(files, file.records) /\ LibrarySound(library, file.records, file.missing)
  BY <1>3, <1>4, TornTraceSound
<1>6. pc' \in {"loadTrace", "crashed"}
  BY <1>1
<1>7. events' \in events..MaxEvents /\ disturbed' \in BOOLEAN /\ settled' \in BOOLEAN
  <2>1. AnEvent
    BY DEF Crash
  <2>2. QED
    BY <2>1, Interrupted DEF Later
<1>8. /\ blobs' \in [ShaderNames -> FileOf(Blob, FileTime)]
      /\ \A s \in ShaderNames : blobs'[s].content # None => Past(sources, blobs'[s].content)
      /\ trace' \in TraceFile
      /\ IsLoaded(trace') => BlobsSound(blobs', trace'.records) /\ LibrarySound(library, trace'.records, trace'.missing)
  BY <1>2, <1>4, <1>5
<1>9. /\ EventsInv' /\ PastInv' /\ CacheInv' /\ TraceInv' /\ RecordsInv' /\ PhaseInv' /\ CalmInv' /\ CheckInv'
       /\ UpToDateSound' /\ StopsExplained' /\ TypeOK'
  BY <1>1, <1>6, <1>7, <1>8, FreshStart
<1>10. SettledInv'
  BY <1>1 DEF SettledInv
<1>11. QED
  BY <1>9, <1>10 DEF BuilderInv

-----------------------------------------------------------------------------
(* An edit only makes the files newer, and leaves all that is said of them *)
(* as it was.                                                              *)
LEMMA InputsEdited ==
  ASSUME BuilderInv, AnEvent, outputs' = outputs, pc' = pc, run' = run,
         manifest' \in FileOf(DOMAIN Documents, Nat), manifest'.modTime <= manifest.modTime + 1,
         \A f \in SourceFiles : sources'[f] \in FileOf(Texts[f], Nat),
         sources' = [f \in SourceFiles |-> sources'[f]],
         manifest'.modTime >= manifest.modTime,
         \A f \in SourceFiles : sources'[f].modTime \in sources[f].modTime..(sources[f].modTime + 1)
  PROVE  BuilderInv'
<1>1. /\ Later /\ events' = events + 1 /\ disturbed' /\ ~settled'
      /\ blobs' = blobs /\ library' = library /\ trace' = trace
      /\ All' = All /\ Unknown' = Unknown
  BY Interrupted DEF outputs, All, Unknown
<1>2. /\ events \in Nat /\ MaxEvents \in Nat /\ events + 1 <= MaxEvents
      /\ manifest.modTime \in Nat \ {0} /\ \A f \in SourceFiles : sources[f].modTime \in Nat \ {0}
      /\ manifest'.modTime \in Nat /\ \A f \in SourceFiles : sources'[f].modTime \in Nat
  <2>1. events \in 0..MaxEvents /\ MaxEvents \in Nat /\ events < MaxEvents
    BY BuilderAssumption DEF BuilderInv, TypeOK, AnEvent
  <2>2. manifest.modTime \in Time /\ \A f \in SourceFiles : sources[f].modTime \in Time
    BY DEF BuilderInv, TypeOK, FileOf
  <2>3. manifest'.modTime \in Nat /\ \A f \in SourceFiles : sources'[f].modTime \in Nat
    BY DEF FileOf
  <2>4. QED
    BY <2>1, <2>2, <2>3 DEF Time
<1>3. EventsInv'
  BY <1>1, <1>2 DEF BuilderInv, EventsInv
<1>4. TypeOK'
  <2>1. /\ manifest'.modTime \in Time /\ \A f \in SourceFiles : sources'[f].modTime \in Time
    BY <1>1, <1>2, <1>3 DEF EventsInv, Time
  <2>2. manifest' \in FileOf(DOMAIN Documents, Time) /\ \A f \in SourceFiles : sources'[f] \in FileOf(Texts[f], Time)
    BY <2>1 DEF FileOf
  <2>3. \A f \in SourceFiles : sources'[f] \in FileOf(UNION {Texts[g] : g \in SourceFiles}, Time)
    BY <2>2 DEF FileOf
  <2>4. sources' \in [SourceFiles -> FileOf(UNION {Texts[g] : g \in SourceFiles}, Time)]
    BY <2>3
  <2>5. QED
    BY <1>1, <2>2, <2>4 DEF BuilderInv, TypeOK, Later
<1>5. ASSUME NEW blob \in Blob, Past(sources, blob) PROVE Past(sources', blob)
  <2>1. ASSUME NEW v \in blob.versions PROVE v[2] <= sources'[v[1]].modTime
    <3>1. v[1] \in SourceFiles /\ v[2] \in Nat
      BY DEF Blob, FileTime
    <3>2. v[2] <= sources[v[1]].modTime
      BY <1>5 DEF Past
    <3>3. QED
      BY <1>2, <3>1, <3>2
  <2>2. QED
    BY <2>1 DEF Past
<1>6. PastInv'
  <2>1. ASSUME NEW s \in ShaderNames, blobs[s].content # None PROVE Past(sources', blobs[s].content)
    <3>1. blobs[s] \in FileOf(Blob, FileTime)
      BY DEF BuilderInv, TypeOK
    <3>2. blobs[s].content \in Blob
      BY <2>1, <3>1 DEF FileOf
    <3>3. QED
      BY <1>5, <2>1, <3>2 DEF BuilderInv, PastInv
  <2>2. ASSUME NEW s \in ShaderNames, run.built[s] # None PROVE Past(sources', run.built[s].blob)
    <3>1. run.built[s] \in Built \cup {None}
      BY DEF BuilderInv, TypeOK, Program
    <3>2. run.built[s].blob \in Blob
      BY <2>2, <3>1 DEF Built
    <3>3. QED
      BY <1>5, <2>2, <3>2 DEF BuilderInv, PastInv
  <2>3. ASSUME library.content # None PROVE PastContent(sources', library.content)
    <3>1. library \in FileOf(LibraryContent, FileTime) /\ PastContent(sources, library.content)
      BY <2>3 DEF BuilderInv, TypeOK, PastInv
    <3>2. library.content \in LibraryContent
      BY <2>3, <3>1 DEF FileOf
    <3>3. PICK entries : entries = library.content.shaders
      OBVIOUS
    <3>4. entries \subseteq [shader : DeclaredShaders, built : Built \cup {None}]
      BY <3>2, <3>3 DEF LibraryContent
    <3>5. ASSUME NEW entry \in entries, entry.built # None PROVE Past(sources', entry.built.blob)
      <4>1. entry.built \in Built
        BY <3>4, <3>5
      <4>2. entry.built.blob \in Blob
        BY <4>1 DEF Built
      <4>3. QED
        BY <1>5, <3>1, <3>3, <3>5, <4>2 DEF PastContent
    <3>6. QED
      BY <3>3, <3>5 DEF PastContent
  <2>4. QED
    BY <1>1, <2>1, <2>2, <2>3 DEF PastInv
<1>7. CacheInv'
  <2>1. ASSUME NEW f \in SourceFiles PROVE CachedSound(run.cache[f], sources'[f])
    <3>1. CachedSound(run.cache[f], sources[f]) /\ run.cache[f].modTime \in Nat /\ run.cache[f].text \in Text \cup {None}
      BY Typed DEF BuilderInv, CacheInv
    <3>2. run.cache[f].text # None => run.cache[f].text.version \in Nat
      BY <3>1 DEF Text, FileTime
    <3>3. QED
      BY <1>2, <3>1, <3>2 DEF CachedSound
  <2>2. QED
    BY <1>1, <2>1 DEF BuilderInv, CacheInv
<1>8. TraceInv' /\ RecordsInv'
  BY <1>1 DEF BuilderInv, TraceInv, RecordsInv, Finished
<1>9. PhaseInv' /\ CheckInv'
  BY <1>1 DEF BuilderInv, PhaseInv, CheckInv
<1>10. CalmInv' /\ SettledInv' /\ UpToDateSound'
  BY <1>1 DEF CalmInv, SettledInv, UpToDateSound
<1>11. StopsExplained'
  BY DEF BuilderInv, StopsExplained
<1>12. QED
  BY <1>3, <1>4, <1>6, <1>7, <1>8, <1>9, <1>10, <1>11 DEF BuilderInv

LEMMA EditManifestStep == ASSUME BuilderInv, EditManifest PROVE BuilderInv'
<1>1. PICK d \in DOMAIN Documents \cup {None} :
        AnEvent /\ outputs' = outputs /\ pc' = pc /\ run' = run /\ sources' = sources
        /\ manifest' = [modTime |-> manifest.modTime + 1, content |-> d]
  BY DEF EditManifest, outputs
<1>2. manifest.modTime \in Nat /\ \A f \in SourceFiles : sources[f].modTime \in Nat /\ sources[f] \in FileOf(Texts[f], Nat)
  <2>1. manifest \in FileOf(DOMAIN Documents, Time) /\ \A f \in SourceFiles : sources[f] \in FileOf(Texts[f], Time)
    BY DEF BuilderInv, TypeOK
  <2>2. Time \subseteq Nat
    BY BuilderAssumption DEF Time
  <2>3. QED
    BY <2>1, <2>2 DEF FileOf
<1>3. /\ manifest' \in FileOf(DOMAIN Documents, Nat) /\ manifest'.modTime <= manifest.modTime + 1
      /\ manifest'.modTime >= manifest.modTime
  <2>1. PICK time \in Nat : time = manifest.modTime + 1
    BY <1>2
  <2>2. PICK file : file = [modTime |-> time, content |-> d]
    OBVIOUS
  <2>3. file \in FileOf(DOMAIN Documents, Nat) /\ file.modTime = time
    BY <1>1, <2>1, <2>2 DEF FileOf
  <2>4. manifest' = file
    BY <1>1, <2>1, <2>2
  <2>5. QED
    BY <1>2, <2>1, <2>3, <2>4
<1>4. \A f \in SourceFiles : sources[f].modTime \in sources[f].modTime..(sources[f].modTime + 1)
  BY <1>2
<1>5. sources' = [f \in SourceFiles |-> sources'[f]]
  <2>1. sources = [f \in SourceFiles |-> sources[f]]
    BY DEF BuilderInv, TypeOK
  <2>2. QED
    BY <1>1, <2>1
<1>6. \A f \in SourceFiles : sources'[f] \in FileOf(Texts[f], Nat) /\ sources'[f].modTime \in sources[f].modTime..(sources[f].modTime + 1)
  BY <1>1, <1>2, <1>4
<1>7. QED
  BY <1>1, <1>3, <1>5, <1>6, InputsEdited

LEMMA EditSourceStep == ASSUME BuilderInv, EditSource PROVE BuilderInv'
<1>1. PICK f \in SourceFiles, text \in (UNION {Texts[g] : g \in SourceFiles}) \cup {None} :
        /\ text \in Texts[f] \cup {None}
        /\ AnEvent /\ outputs' = outputs /\ pc' = pc /\ run' = run /\ manifest' = manifest
        /\ sources' = [sources EXCEPT ![f] = [modTime |-> @.modTime + 1, content |-> text]]
  BY DEF EditSource, outputs
<1>2. /\ manifest.modTime \in Nat /\ manifest \in FileOf(DOMAIN Documents, Nat)
      /\ \A g \in SourceFiles : sources[g].modTime \in Nat /\ sources[g] \in FileOf(Texts[g], Nat)
  <2>1. manifest \in FileOf(DOMAIN Documents, Time) /\ \A g \in SourceFiles : sources[g] \in FileOf(Texts[g], Time)
    BY DEF BuilderInv, TypeOK
  <2>2. Time \subseteq Nat
    BY BuilderAssumption DEF Time
  <2>3. QED
    BY <2>1, <2>2 DEF FileOf
<1>3. PICK time \in Nat : time = sources[f].modTime + 1
  BY <1>1, <1>2
<1>4. PICK file : file = [modTime |-> time, content |-> text]
  OBVIOUS
<1>5. file \in FileOf(Texts[f], Nat) /\ file.modTime = time
  BY <1>1, <1>3, <1>4 DEF FileOf
<1>6. sources = [g \in SourceFiles |-> sources[g]]
  BY DEF BuilderInv, TypeOK
<1>7. sources' = [sources EXCEPT ![f] = file]
  BY <1>1, <1>3, <1>4
<1>8. /\ sources' = [g \in SourceFiles |-> sources'[g]] /\ sources'[f] = file
      /\ \A g \in SourceFiles : g # f => sources'[g] = sources[g]
  BY <1>6, <1>7
<1>9. ASSUME NEW g \in SourceFiles
      PROVE  sources'[g] \in FileOf(Texts[g], Nat) /\ sources'[g].modTime \in sources[g].modTime..(sources[g].modTime + 1)
  <2>1. CASE g = f
    BY <1>2, <1>3, <1>5, <1>8, <2>1
  <2>2. CASE g # f
    BY <1>2, <1>8, <2>2
  <2>3. QED
    BY <2>1, <2>2
<1>10. manifest'.modTime >= manifest.modTime /\ manifest'.modTime <= manifest.modTime + 1 /\ manifest' \in FileOf(DOMAIN Documents, Nat)
  BY <1>1, <1>2
<1>11. QED
  BY <1>1, <1>8, <1>9, <1>10, InputsEdited

LEMMA DeleteLibraryStep == ASSUME BuilderInv, DeleteLibrary PROVE BuilderInv'
<1>1. /\ AnEvent /\ inputs' = inputs /\ manifest' = manifest /\ sources' = sources
      /\ blobs' = blobs /\ trace' = trace /\ pc' = pc /\ run' = run
      /\ All' = All /\ Unknown' = Unknown
      /\ library' = [library EXCEPT !.content = None]
  BY DEF DeleteLibrary, inputs, All, Unknown
<1>2. Later /\ disturbed' /\ ~settled'
  BY <1>1, Interrupted
<1>3. library' \in FileOf(LibraryContent, FileTime) /\ library'.content = None
  <2>1. library \in FileOf(LibraryContent, FileTime)
    BY DEF BuilderInv, TypeOK
  <2>2. QED
    BY <1>1, <2>1 DEF FileOf
<1>4. TypeOK'
  BY <1>1, <1>2, <1>3 DEF BuilderInv, TypeOK, Later
<1>5. EventsInv'
  BY <1>1, <1>2, EventsCounted
<1>6. PastInv' /\ CacheInv'
  BY <1>1, <1>2, <1>3 DEF BuilderInv, PastInv, CacheInv
<1>7. TraceInv'
  BY <1>1 DEF BuilderInv, TraceInv, Finished
<1>8. RecordsInv'
  BY <1>1, <1>3 DEF BuilderInv, RecordsInv, LibrarySound
<1>9. PhaseInv' /\ CheckInv'
  BY <1>1, <1>2 DEF BuilderInv, PhaseInv, CheckInv
<1>10. CalmInv' /\ SettledInv' /\ UpToDateSound'
  BY <1>2 DEF CalmInv, SettledInv, UpToDateSound
<1>11. StopsExplained'
  BY <1>1 DEF BuilderInv, StopsExplained
<1>12. QED
  BY <1>4, <1>5, <1>6, <1>7, <1>8, <1>9, <1>10, <1>11 DEF BuilderInv

-----------------------------------------------------------------------------
(* Nothing happens.                                                        *)
LEMMA NoStep == ASSUME BuilderInv, vars' = vars PROVE BuilderInv'
<1>1. /\ manifest' = manifest /\ sources' = sources /\ blobs' = blobs /\ library' = library /\ trace' = trace
      /\ pc' = pc /\ run' = run /\ events' = events /\ disturbed' = disturbed /\ settled' = settled
      /\ All' = All /\ Unknown' = Unknown
  BY DEF vars, inputs, outputs, history, All, Unknown
<1>2. TypeOK' /\ EventsInv' /\ PastInv'
  BY <1>1 DEF BuilderInv, TypeOK, EventsInv, PastInv
<1>3. (\A f \in SourceFiles : TimeOf(sources[f])' = TimeOf(sources[f])) /\ TimeOf(manifest)' = TimeOf(manifest)
  BY <1>1 DEF TimeOf
<1>4. CacheInv' /\ TraceInv' /\ RecordsInv' /\ PhaseInv'
  BY <1>1, <1>3 DEF BuilderInv, CacheInv, TraceInv, RecordsInv, PhaseInv, Finished
<1>5. CalmInv' /\ CheckInv'
  BY <1>1, <1>3 DEF BuilderInv, CalmInv, CheckInv
<1>6. SettledInv'
  BY <1>1, <1>3 DEF BuilderInv, SettledInv
<1>7. UpToDateSound'
  BY <1>1, <1>3 DEF BuilderInv, UpToDateSound, LibraryCurrent, SourcesCurrent
<1>8. StopsExplained'
  BY <1>1 DEF BuilderInv, StopsExplained
<1>9. QED
  BY <1>2, <1>4, <1>5, <1>6, <1>7, <1>8 DEF BuilderInv

(* What the records, the cache and the program tell of the files stays     *)
(* true whatever is edited, deleted, torn, not stored or not flushed.      *)
THEOREM BuilderInvariant == Spec => []BuilderInv
<1>1. Init => BuilderInv
  BY InitStep
<1>2. BuilderInv /\ [Next]_vars => BuilderInv'
  <2> SUFFICES ASSUME BuilderInv, [Next]_vars PROVE BuilderInv'
    OBVIOUS
  <2>1. CASE Start
    BY <2>1, StartStep
  <2>2. CASE LoadTrace
    BY <2>2, LoadTraceStep
  <2>3. CASE CheckManifest
    BY <2>3, CheckManifestStep
  <2>4. CASE CheckSource
    BY <2>4, CheckSourceStep
  <2>5. CASE CheckLibrary
    BY <2>5, CheckLibraryStep
  <2>6. CASE LoadManifestFile
    BY <2>6, LoadManifestFileStep
  <2>7. CASE OpenTrace
    BY <2>7, OpenTraceStep
  <2>8. CASE Flush
    BY <2>8, FlushStep
  <2>9. CASE LoadCachedShader
    BY <2>9, LoadCachedShaderStep
  <2>10. CASE Compile
    BY <2>10, CompileStep
  <2>11. CASE OpenSource
    BY <2>11, OpenSourceStep
  <2>12. CASE ReadSource
    BY <2>12, ReadSourceStep
  <2>13. CASE Store
    BY <2>13, StoreStep
  <2>14. CASE OpenLibrary
    BY <2>14, OpenLibraryStep
  <2>15. CASE WriteLibrary
    BY <2>15, WriteLibraryStep
  <2>16. CASE Finish
    BY <2>16, FinishStep
  <2>17. CASE EditManifest
    BY <2>17, EditManifestStep
  <2>18. CASE EditSource
    BY <2>18, EditSourceStep
  <2>19. CASE DeleteLibrary
    BY <2>19, DeleteLibraryStep
  <2>20. CASE Crash
    BY <2>20, CrashStep
  <2>21. CASE vars' = vars
    BY <2>21, NoStep
  <2>22. QED
    BY <2>1, <2>2, <2>3, <2>4, <2>5, <2>6, <2>7, <2>8, <2>9, <2>10, <2>11, <2>12, <2>13, <2>14, <2>15, <2>16,
       <2>17, <2>18, <2>19, <2>20, <2>21 DEF Next, Step, Event
<1>3. QED
  BY <1>1, <1>2, PTL DEF Spec

(* Whatever the manifests, the sources, and the number of events are:      *)
(* files, trace and program have the shapes their writers give them, and   *)
(* the records put for a trace, if all of them are written, can be loaded. *)
THEOREM TypeCorrect == Spec => []TypeOK
<1>1. BuilderInv => TypeOK
  BY DEF BuilderInv
<1>2. QED
  BY <1>1, BuilderInvariant, PTL

(* Whatever edits, crashes and failures the earlier builds met, failed     *)
(* writes of the trace among them, a library that is called up to date in  *)
(* a run nobody disturbs is no older than the manifest and the sources     *)
(* whose records got to the trace: checkIfBuildIsUpToDate compares enough, *)
(* and a trace that loads tells no more of a cached blob or a library than *)
(* its writer knew.  Of sources whose records a flush lost, and of a       *)
(* library whose write failed unnoticed, it says nothing (LibraryCurrent). *)
THEOREM UpToDateAlwaysSound == Spec => []UpToDateSound
<1>1. BuilderInv => UpToDateSound
  BY DEF BuilderInv
<1>2. QED
  BY <1>1, BuilderInvariant, PTL

(* After an undisturbed build, and with no change since, no run gets past  *)
(* the checks: none loads the manifest again.                              *)
THEOREM NeverNeedlesslyRebuilt == Spec => []NoNeedlessRebuild
<1>1. BuilderInv => NoNeedlessRebuild
  BY DEF BuilderInv, SettledInv, NoNeedlessRebuild
<1>2. QED
  BY <1>1, BuilderInvariant, PTL

(* No state of trace, cache and library stops the program in an assertion, *)
(* but for a trace that was cut right after its header, and a manifest the *)
(* loader itself asserts on.                                               *)
THEOREM StopsAlwaysExplained == Spec => []StopsExplained
<1>1. BuilderInv => StopsExplained
  BY DEF BuilderInv
<1>2. QED
  BY <1>1, BuilderInvariant, PTL
=============================================================================
