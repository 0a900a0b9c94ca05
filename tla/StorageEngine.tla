---------------------------- MODULE StorageEngine ----------------------------
(***************************************************************************)
(* The data files of db/storage_engine.cpp: the flush thread creates files *)
(* in level 0 while the compaction thread merges files into the next       *)
(* level.                                                                  *)
(*                                                                         *)
(* A level is the set of its files; the code keeps it as a vector sorted   *)
(* by lower bound.  Sections under rw_lock_ or mutex_ are one step.  Byte  *)
(* sizes are abstracted: a merged file may end after any entry.            *)
(***************************************************************************)
EXTENDS KeyValue, Sequences

CONSTANTS
    FlushData,     \* the contents a flushed buffer may have
    Level0Limit,   \* level0_files_number_limit_
    Fanout,        \* how many times more files each level may have: 10
    MaxFlushes,    \* bound: number of buffers flushed in a behaviour
    NoFile

(* Keys are ordered, and content.front() and content.back() exist.         *)
ASSUME KeyAssumption ==
    /\ Key \subseteq Int
    /\ \A S \in SUBSET Key : S # {} =>
         /\ \E k \in S : \A j \in S : k <= j
         /\ \E k \in S : \A j \in S : j <= k

ASSUME EngineAssumption ==
    /\ FlushData \subseteq Buffer \ {EmptyBuffer}
    /\ Level0Limit \in Nat /\ Fanout \in Nat /\ MaxFlushes \in Nat

File == [level : Nat, id : Nat, data : Buffer, lower : Key, upper : Key]

ASSUME NoFileAssumption == NoFile \notin File

VARIABLES
    file_id,    \* file_id_: the last id given to a file
    files,      \* level_files_ and files_map_: the installed files
    disk,       \* the files in Constant::DataFolder
    flushing,   \* the file the flush thread has written but not installed
    compacter,  \* program counter of the compaction thread
    todo,       \* the pending calls of Compact: a stack of levels
    inputs,     \* compact_files
    rest,       \* merged entries that are not in an output file yet
    outputs,    \* compacted_files
    garbage,    \* replaced files that are not deleted yet
    written,    \* observed: every value ever flushed for each key
    flushes     \* number of flushes so far

vars == <<file_id, files, disk, flushing, compacter, todo, inputs, rest,
          outputs, garbage, written, flushes>>
compactVars == <<compacter, todo, inputs, rest, outputs, garbage>>
flushVars == <<flushing, written, flushes>>

-----------------------------------------------------------------------------
Least(S) == CHOOSE k \in S : \A j \in S : k <= j
Greatest(S) == CHOOSE k \in S : \A j \in S : j <= k

(* A data file with its header: Flush writes the first and the last key,   *)
(* and the constructor of File reads them back.                            *)
NewFile(level, id, data) ==
    [level |-> level, id |-> id, data |-> data,
     lower |-> Least(KeysOf(data)), upper |-> Greatest(KeysOf(data))]

Level(l) == {f \in files : f.level = l}

\* Faulty variant: in one level the older file decides.
OlderFirst(f, g) == f.level < g.level \/ (f.level = g.level /\ f.id < g.id)

(* The order of Entry in the merge and of the files in a lookup: a lower   *)
(* level first, and in one level the larger file id first.                 *)
Newer(f, g) == f.level < g.level \/ (f.level = g.level /\ f.id > g.id)

(* The file of S that decides k, provided one of them has an entry for it. *)
Newest(S, k) ==
    CHOOSE f \in S : /\ f.data[k] # NotFound
                     /\ \A g \in S : g.data[k] # NotFound /\ g # f => Newer(f, g)

(* What the files of S say about each key.                                 *)
Merged(S) ==
    [k \in Key |-> IF \E f \in S : f.data[k] # NotFound
                     THEN Newest(S, k).data[k]
                     ELSE NotFound]

(* A lookup: GetContainsFiles, then the files' key tables in that order.   *)
View ==
    LET contains(k) == {f \in files : f.lower <= k /\ k <= f.upper}
    IN [k \in Key |-> Merged(contains(k))[k]]

(* The data of a merge: tombstones are dropped whatever lies below.        *)
DropTombs(data) == [k \in Key |-> IF data[k] = Tomb THEN NotFound ELSE data[k]]

Init ==
    /\ file_id = -1
    /\ files = {} /\ disk = {} /\ flushing = NoFile
    /\ compacter = "Compact" /\ todo = <<>>
    /\ inputs = {} /\ rest = EmptyBuffer /\ outputs = {} /\ garbage = {}
    /\ written = [k \in Key |-> {}]
    /\ flushes = 0

-----------------------------------------------------------------------------
\* Faulty variant: ids start again with every file.
NextIdUnchanged == file_id

(* ++file_id_, under mutex_.                                               *)
NextId == file_id + 1

(* The flush thread: NewWritableFile and Flush, then AddFile.              *)

Flush(data) ==
    /\ flushing = NoFile
    /\ flushes < MaxFlushes
    /\ flushes' = flushes + 1
    /\ file_id' = NextId
    /\ flushing' = NewFile(0, NextId, data)
    /\ disk' = disk \cup {flushing'}
    /\ UNCHANGED <<files, compactVars, written>>

AddFile ==
    /\ flushing # NoFile
    /\ files' = files \cup {flushing}
    /\ written' = [k \in Key |-> written[k] \cup ({flushing.data[k]} \ {NotFound})]
    /\ flushing' = NoFile
    /\ UNCHANGED <<file_id, disk, compactVars, flushes>>

-----------------------------------------------------------------------------
(* The compaction thread.                                                  *)

(* ProcessingLoopCompact calls Compact(0).                                 *)
Wake ==
    /\ compacter = "Compact" /\ todo = <<>>
    /\ todo' = <<0>>
    /\ UNCHANGED <<file_id, files, disk, compacter, inputs, rest, outputs, garbage, flushVars>>

OverLimit(l) == Cardinality(Level(l)) > Level0Limit * Fanout ^ l

Return ==
    /\ compacter = "Compact" /\ todo # <<>>
    /\ ~OverLimit(Head(todo))
    /\ todo' = Tail(todo)
    /\ UNCHANGED <<file_id, files, disk, compacter, inputs, rest, outputs, garbage, flushVars>>

(* level_files[level][0]: the file with the smallest lower bound.          *)
IsFirst(f, l) == f \in Level(l) /\ \A g \in Level(l) : f.lower <= g.lower

\* Faulty variant: the upper bound does not grow with the files found.
UpperBoundOfFirst(first, l) == {first.upper}

(* The upper bound FindOverlapFilesLevel0 ends with: it grows with every   *)
(* file that begins below it.  Deeper levels take the first file only.     *)
UpperBound(first, l) ==
    IF l = 0
      THEN LET closed == {u \in {f.upper : f \in Level(0)} :
                            /\ first.upper <= u
                            /\ \A f \in Level(0) : f.lower <= u => f.upper <= u}
           IN {u \in closed : \A v \in closed : u <= v}
      ELSE {first.upper}

\* Faulty variant: files of the next level that begin earlier are missed.
OverlapFromLower(l, lower, upper) ==
    {f \in Level(l) : lower <= f.lower /\ f.lower <= upper}

FindOverlapFilesBasedOnBound(l, lower, upper) ==
    {f \in Level(l) : f.lower <= upper /\ lower <= f.upper}

Pick(l, first, upper) ==
    (IF l = 0 THEN {f \in Level(0) : f.lower <= upper} ELSE {first})
      \cup FindOverlapFilesBasedOnBound(l + 1, first.lower, upper)

Compact ==
    /\ compacter = "Compact" /\ todo # <<>>
    /\ OverLimit(Head(todo))
    /\ \E first \in files : \E upper \in UpperBound(first, Head(todo)) :
         /\ IsFirst(first, Head(todo))
         /\ inputs' = Pick(Head(todo), first, upper)
         /\ IF inputs' = {first}
              THEN compacter' = "TrivialMove" /\ UNCHANGED rest
              ELSE compacter' = "NWayCompaction" /\ rest' = DropTombs(Merged(inputs'))
    /\ UNCHANGED <<file_id, files, disk, todo, outputs, garbage, flushVars>>

(* TrivialMove: a new id and a new name for the only file.                 *)
TrivialMove ==
    /\ compacter = "TrivialMove"
    /\ compacter' = "UpdateMapAfterCompaction"
    /\ file_id' = NextId
    /\ \E f \in inputs :
         /\ outputs' = {NewFile(f.level + 1, NextId, f.data)}
         /\ disk' = (disk \ {f}) \cup outputs'
    /\ UNCHANGED <<files, todo, inputs, rest, garbage, flushVars>>

(* NWayCompaction writes the merged entries, in order, to files of the     *)
(* next level; each gets its id when it is written.                        *)
FlushCompactedFile ==
    /\ compacter = "NWayCompaction" /\ rest # EmptyBuffer
    /\ \E last \in KeysOf(rest) :
         LET chunk == [k \in Key |-> IF k <= last THEN rest[k] ELSE NotFound]
         IN /\ rest' = [k \in Key |-> IF k <= last THEN NotFound ELSE rest[k]]
            /\ outputs' = outputs \cup {NewFile(Head(todo) + 1, NextId, chunk)}
    /\ file_id' = NextId
    /\ disk' = disk \cup outputs'
    /\ UNCHANGED <<files, compacter, todo, inputs, garbage, flushVars>>

\* Faulty variant: a merge is taken to produce some file.
MergeEndsNonEmpty == rest = EmptyBuffer /\ outputs # {}

\* Faulty variant: the entries after the last full file are not written.
MergeEndsEarly == rest = EmptyBuffer \/ outputs # {}

MergeEnds == rest = EmptyBuffer

EndNWayCompaction ==
    /\ compacter = "NWayCompaction" /\ MergeEnds
    /\ compacter' = "UpdateMapAfterCompaction"
    /\ UNCHANGED <<file_id, files, disk, todo, inputs, rest, outputs, garbage, flushVars>>

\* Faulty variant: the replaced files stay in the data folder.
ReplacedKept == {}

(* The replaced files, unless TrivialMove renamed them away.               *)
Replaced == inputs \cap disk

(* The swap under the write lock; the replaced files are deleted after it. *)
UpdateMapAfterCompaction ==
    /\ compacter = "UpdateMapAfterCompaction"
    /\ compacter' = "Delete"
    /\ files' = (files \ inputs) \cup outputs
    /\ garbage' = Replaced
    /\ inputs' = {} /\ outputs' = {}
    /\ UNCHANGED <<file_id, disk, todo, rest, flushVars>>

(* compact_files order: by level, then by lower bound, and files with      *)
(* equal lower bounds the one inserted last first.                         *)
DeletedBefore(f, g) ==
    \/ f.level < g.level
    \/ f.level = g.level /\ f.lower < g.lower
    \/ f.level = g.level /\ f.lower = g.lower /\ f.id > g.id

DeleteFile ==
    /\ compacter = "Delete" /\ garbage # {}
    /\ \E f \in garbage :
         /\ \A g \in garbage \ {f} : DeletedBefore(f, g)
         /\ garbage' = garbage \ {f}
         /\ disk' = disk \ {f}
    /\ UNCHANGED <<file_id, files, compacter, todo, inputs, rest, outputs, flushVars>>

\* Faulty variant: the next level is not looked at.
ThenCompactSame(l) == <<l>>

\* Faulty variant: the level above is looked at instead of the one below.
ThenCompactAbove(l) == <<l, l - 1>>

(* Compact(level_id); Compact(level_id + 1);                               *)
ThenCompact(l) == <<l, l + 1>>

CompactAgain ==
    /\ compacter = "Delete" /\ garbage = {}
    /\ compacter' = "Compact"
    /\ todo' = ThenCompact(Head(todo)) \o Tail(todo)
    /\ UNCHANGED <<file_id, files, disk, inputs, rest, outputs, garbage, flushVars>>

Compacter ==
    \/ Return \/ Compact \/ TrivialMove \/ FlushCompactedFile
    \/ EndNWayCompaction \/ UpdateMapAfterCompaction \/ DeleteFile
    \/ CompactAgain

Next == (\E data \in FlushData : Flush(data)) \/ AddFile \/ Wake \/ Compacter

Spec == Init /\ [][Next]_vars

-----------------------------------------------------------------------------
(* The values each variable may take.                                      *)
TypeOK ==
    /\ file_id \in Nat \cup {-1}
    /\ files \subseteq File /\ disk \subseteq File
    /\ flushing \in File \cup {NoFile}
    /\ compacter \in {"Compact", "TrivialMove", "NWayCompaction",
                      "UpdateMapAfterCompaction", "Delete"}
    /\ todo \in Seq(Nat) /\ (compacter # "Compact" => todo # <<>>)
    /\ inputs \subseteq File /\ outputs \subseteq File /\ garbage \subseteq File
    /\ rest \in Buffer
    /\ written \in [Key -> SUBSET Value]
    /\ flushes \in 0 .. MaxFlushes

(* Below level 0 the files of a level have disjoint key ranges, which      *)
(* Compact relies on when it takes a single file of such a level and when  *)
(* it inserts its outputs beside the files it left alone.                  *)
LevelsDisjoint ==
    \A f, g \in files :
        f.level = g.level /\ f.level > 0 /\ f # g => f.upper < g.lower \/ g.upper < f.lower

LiveFiles == files \cup outputs \cup ({flushing} \ {NoFile})

(* The two threads draw ids from one counter: no two live files share one, *)
(* so files_map_ and the cache, which are keyed by it, never mix up two    *)
(* files, and the file being flushed is the newest of level 0.             *)
IdsUnique ==
    /\ \A f, g \in LiveFiles : f.id = g.id => f = g
    /\ flushing # NoFile => \A f \in Level(0) : f.id < flushing.id

(* Between compactions the data folder holds exactly the installed files   *)
(* and the one being flushed; during one, nothing that a reader or a       *)
(* restart needs is missing except a file TrivialMove has just renamed.    *)
DiskComplete ==
    /\ compacter = "Compact" => disk = LiveFiles
    /\ compacter # "UpdateMapAfterCompaction" => LiveFiles \subseteq disk
    /\ (files \ disk) \subseteq inputs /\ outputs \subseteq disk

(* A level that compaction left with too many files is compacted by a call *)
(* that is already pending: no level below 0 stays over its limit.         *)
OverfullIsPending ==
    compacter = "Compact" =>
        \A f \in files : f.level > 0 /\ OverLimit(f.level) =>
            \E i \in 1 .. Len(todo) : todo[i] = f.level

Installed == IF flushing = NoFile THEN flushes ELSE flushes - 1

Abstract == INSTANCE AbstractStore WITH view <- View, updates <- Installed

(* A lookup sees a map that changes only when a flushed file is installed, *)
(* except that compaction may make a deleted key look otherwise.           *)
ImplementsAbstractStore == Abstract!Spec

(* Every run of Compact ends.                                              *)
CompactReturns == todo # <<>> ~> todo = <<>>

Deleted(k) == View[k] \in {Tomb, NotFound}

(* Delete(key) (README.md:8): a deleted key stays deleted until it is put  *)
(* again, in particular while compaction works.                            *)
DeletedStaysDeleted ==
    [][\A k \in Key : Deleted(k) /\ ~Deleted(k)' => flushing # NoFile /\ flushing' = NoFile]_vars

=============================================================================
