----------------------------- MODULE Structures -----------------------------
(***************************************************************************)
(* The sequential structures the engine stands on: the pool behind every   *)
(* handle of the device, the intrusive tree SourceFileCache and the layout *)
(* tables search, the JSON reader of the library manifest, the character   *)
(* writers of every message and file.  They share no state and have one    *)
(* user each, so a behaviour is one of them at work.                       *)
(***************************************************************************)
EXTENDS HandlePool, SearchTree, JSONReader, CharStreams

VARIABLE part  \* the structure at work: "pool", "tree", "reader" or "writer"

structureVars == <<part, vars, treeVars, readerVars, writerVars>>

PoolAbsent == Init
TreeAbsent == TreeInit
ReaderAbsent ==
    /\ text = <<>>
    /\ position = 1
    /\ readerState = "Absent"
    /\ scopes = [level \in 0..MaxNesting - 1 |-> FALSE]
    /\ depth = 0
    /\ events = <<>>
WriterAbsent ==
    /\ kind = "absent"
    /\ open = FALSE
    /\ buffer = <<>>
    /\ offset = 0
    /\ length = 0
    /\ file = <<>>
    /\ given = 0
    /\ fault = "none"

StructuresInit ==
    \/ part = "pool" /\ Init /\ TreeAbsent /\ ReaderAbsent /\ WriterAbsent
    \/ part = "tree" /\ PoolAbsent /\ TreeInit /\ ReaderAbsent /\ WriterAbsent
    \/ part = "reader" /\ PoolAbsent /\ TreeAbsent /\ ReaderInit /\ WriterAbsent
    \/ part = "writer" /\ PoolAbsent /\ TreeAbsent /\ ReaderAbsent /\ WriterInit

StructuresNext ==
    \/ part = "pool" /\ Next /\ UNCHANGED <<part, treeVars, readerVars, writerVars>>
    \/ part = "tree" /\ TreeNext /\ UNCHANGED <<part, vars, readerVars, writerVars>>
    \/ ReaderNext /\ UNCHANGED <<part, vars, treeVars, writerVars>>
    \/ WriterNext /\ UNCHANGED <<part, vars, treeVars, readerVars>>

StructuresSpec == StructuresInit /\ [][StructuresNext]_structureVars
=============================================================================
