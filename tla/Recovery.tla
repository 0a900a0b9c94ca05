------------------------------ MODULE Recovery ------------------------------
(***************************************************************************)
(* StorageEngine with restarts: the process may end between any two file   *)
(* operations, and the constructor of StorageEngine starts again from the  *)
(* files it finds in the data folder.  There is no log and no manifest, so *)
(* the replaced files and the outputs of an unfinished compaction are all  *)
(* taken up as installed files.                                            *)
(*                                                                         *)
(* A file is on disk as a whole or not at all: a restart in the middle of  *)
(* a write, which leaves a file that File cannot read, is left out.        *)
(***************************************************************************)
EXTENDS StorageEngine

CONSTANT MaxRestarts    \* bound

VARIABLE restarts

recoveryVars == <<vars, restarts>>

RecoveryInit == Init /\ restarts = 0

-----------------------------------------------------------------------------
\* Faulty variant: the counter is not moved past the files found.
LastIdForgotten == -1

(* file_id_ = std::max(file_id_, file->FileId()) over the folder.          *)
LastId == IF disk = {} THEN -1 ELSE Greatest({f.id : f \in disk})

(* Everything in memory is gone, the constructor reads the folder.  A file *)
(* that was flushed but not installed is installed by this.                *)
Flushed == IF flushing = NoFile THEN EmptyBuffer ELSE flushing.data

Restart ==
    /\ restarts < MaxRestarts
    /\ restarts' = restarts + 1
    /\ files' = disk /\ file_id' = LastId
    /\ flushing' = NoFile
    /\ compacter' = "Compact" /\ todo' = <<>>
    /\ inputs' = {} /\ rest' = EmptyBuffer /\ outputs' = {} /\ garbage' = {}
    /\ written' = [k \in Key |-> written[k] \cup ({Flushed[k]} \ {NotFound})]
    /\ UNCHANGED <<disk, flushes>>

RecoveryNext == Restart \/ (Next /\ UNCHANGED restarts)

(* Both threads are scheduled; nobody has to flush, notify or restart.     *)
RecoverySpec ==
    /\ RecoveryInit /\ [][RecoveryNext]_recoveryVars
    /\ WF_recoveryVars(AddFile /\ UNCHANGED restarts)
    /\ WF_recoveryVars(Compacter /\ UNCHANGED restarts)

-----------------------------------------------------------------------------
(* A restart loses no flushed entry, at whatever point of a flush or a     *)
(* merge it happens: a key with a value keeps that value, and only a key   *)
(* that looked deleted may look otherwise afterwards.  It rests on the     *)
(* order of the file operations: outputs are complete before inputs go,    *)
(* and they rank below the inputs of the upper level and, by their larger  *)
(* ids, above those of their own.  It needs levels whose files are         *)
(* disjoint, which an earlier restart may have spoiled, and it excepts the *)
(* time in which UpdateMapAfterCompaction deletes the replaced files one   *)
(* by one: that may have deleted the newer of two files of level 0, and    *)
(* the older one then hides the output.                                    *)
RestartKeepsValues ==
    [][restarts' # restarts /\ garbage = {} /\ LevelsDisjoint =>
         \A k \in Key :
            LET before == Over(Flushed, View)[k]
            IN before \notin {Tomb, NotFound} => View'[k] = before]_recoveryVars

(* A key that was put and never deleted is found for ever after, with some *)
(* value that was put, over any number of restarts and compactions of the  *)
(* files they left behind.  (Which value is not said: leftovers overlap in *)
(* a level, and compaction may then move the newer of two files first.)    *)
NeverDeletedIsFound ==
    \A k \in Key : written[k] # {} /\ Tomb \notin written[k] => View[k] \in written[k]
=============================================================================
