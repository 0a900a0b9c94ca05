------------------------------ MODULE ReadPath ------------------------------
(***************************************************************************)
(* DataBase::Get below the buffers: lookups walk the data files under the  *)
(* read lock and go through the cache of key tables, while the flush       *)
(* thread installs new files and the compaction thread replaces old ones   *)
(* under the write lock.                                                   *)
(*                                                                         *)
(* It composes three modules: the files (StorageEngine), the lock          *)
(* (ReadWriteLock, with the threads below) and the cache, as the           *)
(* AbstractCache that LRUCache implements.  What a thread does between     *)
(* taking and releasing a write lock is one step with the release.         *)
(***************************************************************************)
EXTENDS StorageEngine, Functions

CONSTANTS Threads, Getters, flusher, compactor,
          Capacity,     \* of the cache
          Asked,        \* the keys that lookups ask for
          FlushPlan     \* bound: the contents the buffers flushed first, second... may have

ASSUME PathThreads ==
    /\ Threads = Getters \cup {flusher, compactor}
    /\ flusher # compactor /\ Getters \cap {flusher, compactor} = {}

ASSUME PathAssumption ==
    /\ IsFiniteSet(Threads) /\ IsFiniteSet(Key) /\ Asked \subseteq Key
    /\ Len(FlushPlan) = MaxFlushes

VARIABLES
    stat, pc, waiting,    \* the lock
    order, table,         \* the cache
    getter                \* the locals of each Get

lockVars == <<stat, pc, waiting>>
cacheVars == <<order, table>>
pathVars == <<vars, lockVars, cacheVars, getter>>

Lock == INSTANCE ReadWriteLock
Cache == INSTANCE AbstractCache WITH
    FileId <- Nat, Table <- [Key -> Nat], result <- [exists |-> FALSE, offset |-> 0]

-----------------------------------------------------------------------------
(* The key table of a file: where each key is among its entries, 0 for a   *)
(* key it does not have.                                                   *)
KeyTable(f) ==
    [k \in Key |-> IF f.data[k] = NotFound THEN 0
                   ELSE Cardinality({j \in KeysOf(f.data) : j <= k})]

GetValueByOffset(f, offset) == f.data[CHOOSE k \in Key : KeyTable(f)[k] = offset]

\* Faulty variant: the levels are searched from the deepest up.
SearchedFirstDeep(f, g) == f.level > g.level \/ (f.level = g.level /\ f.id > g.id)

SearchedFirst(f, g) == Newer(f, g)

(* The files whose bounds contain k, in the order of the search: one list. *)
GetContainsFiles(k) ==
    LET contains == {f \in files : f.lower <= k /\ k <= f.upper}
    IN {list \in [1 .. Cardinality(contains) -> contains] :
          \A i, j \in DOMAIN list : i < j => SearchedFirst(list[i], list[j])}

(* The locals of a Get: where it is, its key, the files still to look at,  *)
(* the offset found and the value read.                                    *)
Locals(at, key, list, offset, value) ==
    [at |-> at, key |-> key, list |-> list, offset |-> offset, value |-> value]

NoGet == Locals("none", NotFound, <<>>, 0, NotFound)

PathInit ==
    /\ Init /\ Lock!Init /\ Cache!Init
    /\ getter = [t \in Getters |-> NoGet]

-----------------------------------------------------------------------------
(* A lookup that the buffers did not answer.                               *)
Get(t, k) ==
    /\ Lock!Call(t) /\ pc'[t] = "ReadLock"
    /\ getter' = [getter EXCEPT ![t] = Locals("GetContainsFiles", k, <<>>, 0, NotFound)]
    /\ UNCHANGED <<vars, cacheVars>>

GetterLocks(t) == Lock!ReadLock(t) /\ UNCHANGED <<vars, cacheVars, getter>>

(* The walk is at the first file of list; without one it ends.             *)
Walk(g, list) ==
    Locals(IF list = <<>> THEN "ReadUnlock" ELSE "CacheGet", g.key, list, 0, NotFound)

\* Faulty variant: the files are collected before the lock is granted.
MayCollectEarly(t) == pc[t] \in {"ReadLock", "reading"}

MayCollect(t) == pc[t] = "reading"

CollectFiles(t) ==
    /\ MayCollect(t) /\ getter[t].at = "GetContainsFiles"
    /\ \E list \in GetContainsFiles(getter[t].key) :
         getter' = [getter EXCEPT ![t] = Walk(getter[t], list)]
    /\ UNCHANGED <<vars, lockVars, cacheVars>>

(* if (offset != 0): read the value, or go on to the next file.            *)
Decide(g, offset) ==
    IF offset # 0
      THEN Locals("GetValueByOffset", g.key, g.list, offset, NotFound)
      ELSE Walk(g, Tail(g.list))

CacheGet(t) ==
    LET g == getter[t]
        found == Cache!Lookup(Head(g.list).id, g.key)
    IN /\ g.at = "CacheGet"
       /\ Cache!Use(Head(g.list).id, g.key)
       /\ getter' = [getter EXCEPT ![t] = IF found.exists THEN Decide(g, found.offset)
                                          ELSE Locals("LoadKeyOffset", g.key, g.list, 0, NotFound)]
       /\ UNCHANGED <<vars, lockVars>>

(* LoadKeyOffset reads the file, then its table goes to the cache.         *)
LoadKeyOffset(t) ==
    LET g == getter[t]
        key_offset == KeyTable(Head(g.list))
    IN /\ g.at = "LoadKeyOffset"
       /\ Cache!Set(Head(g.list).id, key_offset)
       /\ getter' = [getter EXCEPT ![t] = Decide(g, key_offset[g.key])]
       /\ UNCHANGED <<vars, lockVars>>

ReadValue(t) ==
    LET g == getter[t]
    IN /\ g.at = "GetValueByOffset"
       /\ getter' = [getter EXCEPT ![t] = Locals("ReadUnlock", g.key, g.list, g.offset,
                                                GetValueByOffset(Head(g.list), g.offset))]
       /\ UNCHANGED <<vars, lockVars, cacheVars>>

GetReturn(t) ==
    /\ getter[t].at = "ReadUnlock"
    /\ Lock!ReadUnlock(t)
    /\ getter' = [getter EXCEPT ![t] = NoGet]
    /\ UNCHANGED <<vars, cacheVars>>

Getter(t) ==
    \/ GetterLocks(t) \/ CollectFiles(t) \/ CacheGet(t) \/ LoadKeyOffset(t)
    \/ ReadValue(t) \/ GetReturn(t)

-----------------------------------------------------------------------------
(* ProcessingLoopFlushBuffer: the file is written and its table cached     *)
(* before AddFile installs it.                                             *)
FlushFile ==
    /\ pc[flusher] = "idle"
    /\ \E data \in FlushData : Flush(data) /\ data \in FlushPlan[flushes']
    /\ Cache!Set(flushing'.id, KeyTable(flushing'))
    /\ UNCHANGED <<lockVars, getter>>

FlusherLocks ==
    /\ \/ flushing # NoFile /\ Lock!Call(flusher) /\ pc'[flusher] = "WriteLock"
       \/ Lock!WriteLock(flusher)
    /\ UNCHANGED <<vars, cacheVars, getter>>

InstallFile ==
    /\ Lock!WriteUnlock(flusher) /\ AddFile
    /\ UNCHANGED <<cacheVars, getter>>

Flusher == FlusherLocks \/ InstallFile

(* The compaction thread: Compact copies the levels under the read lock    *)
(* and UpdateMapAfterCompaction replaces the files under the write lock.   *)
NeedsReadLock == compacter = "Compact" /\ todo # <<>>
NeedsWriteLock == compacter = "UpdateMapAfterCompaction"

CompactorLocks ==
    /\ \/ NeedsReadLock /\ Lock!Call(compactor) /\ pc'[compactor] = "ReadLock"
       \/ NeedsWriteLock /\ Lock!Call(compactor) /\ pc'[compactor] = "WriteLock"
       \/ Lock!ReadLock(compactor) \/ Lock!WriteLock(compactor)
    /\ UNCHANGED <<vars, cacheVars, getter>>

CopyLevels ==
    /\ Lock!ReadUnlock(compactor) /\ (Compact \/ Return)
    /\ UNCHANGED <<cacheVars, getter>>

UpdateMap ==
    /\ Lock!WriteUnlock(compactor) /\ UpdateMapAfterCompaction
    /\ UNCHANGED <<cacheVars, getter>>

Merge ==
    /\ \/ TrivialMove \/ FlushCompactedFile \/ EndNWayCompaction
       \/ DeleteFile \/ CompactAgain
    /\ UNCHANGED <<lockVars, cacheVars, getter>>

Compactor == CompactorLocks \/ CopyLevels \/ UpdateMap \/ Merge

WakeCompactor == Wake /\ UNCHANGED <<lockVars, cacheVars, getter>>

ClearCache == Cache!Clear /\ UNCHANGED <<vars, lockVars, getter>>

Wakeup(t) == Lock!SpuriousWakeup(t) /\ UNCHANGED <<vars, cacheVars, getter>>

PathNext ==
    \/ \E t \in Getters : (\E k \in Asked : Get(t, k)) \/ Getter(t)
    \/ FlushFile \/ Flusher
    \/ WakeCompactor \/ Compactor
    \/ ClearCache
    \/ \E t \in Threads : Wakeup(t)

PathSpec == PathInit /\ [][PathNext]_pathVars

(* Every thread is scheduled; nobody has to call Get, to flush or to wake  *)
(* the compaction thread.                                                  *)
PathFairSpec ==
    /\ PathSpec
    /\ \A t \in Getters : WF_pathVars(Getter(t))
    /\ WF_pathVars(Flusher) /\ WF_pathVars(Compactor)

-----------------------------------------------------------------------------
(* read_write_lock.h, as the lookups, the flush and the compaction thread  *)
(* use it: nobody holds the lock beside a writer.                          *)
Exclusion == Lock!Exclusion

(* A free lock never has only sleepers waiting for it, although ReadUnlock *)
(* wakes only one of the threads that share its condition variable.        *)
NoLostWakeup == Lock!NoLostWakeup

(* A File that a lookup has in hand is installed for as long as it needs   *)
(* it: compaction deletes a File, and unmaps it, only after it has taken   *)
(* it out of files_map_ under the write lock.                              *)
NoDanglingFile == \A t \in Getters : Range(getter[t].list) \subseteq files

(* The table cached for an installed file is the file's own.  Ids are not  *)
(* used twice, so tables of files that are gone need not be removed, and   *)
(* it does not matter in which order a lookup that loads a table and the   *)
(* flush thread store theirs.                                              *)
CacheCoherent == \A f \in files : f.id \in DOMAIN table => table[f.id] = KeyTable(f)

(* A lookup takes many steps, but it returns what the files said as a      *)
(* whole at one moment: the moment it holds the read lock.                 *)
GetAtomic ==
    \A t \in Getters : getter[t].at = "ReadUnlock" => getter[t].value = View[getter[t].key]

(* Every lookup returns, whatever flushes and compactions it waits for.    *)
GetReturns == \A t \in Getters : getter[t].at # "none" ~> getter[t].at = "none"

(* The lock gives writers no preference, so lookups can keep the flush and *)
(* the compaction thread waiting, but a pause of the others is enough: a   *)
(* thread is never left asleep on a lock that nobody holds.                *)
WritersFinish ==
    \A w \in {flusher, compactor} :
        <>[](\A t \in Threads \ {w} : pc[t] = "idle") => (pc[w] = "WriteLock" ~> pc[w] = "writing")
=============================================================================
