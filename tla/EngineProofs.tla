---------------------------- MODULE EngineProofs ----------------------------
(* The data files while the engine runs (StorageEngine), for any keys,     *)
(* values and limits and any number of flushes: file ids and levels.       *)
EXTENDS StorageEngine, FiniteSetTheorems, TLAPS

(* What IdsUnique rests on: the counter is at or above every live id.      *)
IdInv ==
    /\ file_id \in Int
    /\ \A f \in LiveFiles : f.id \in Int /\ f.id <= file_id
    /\ \A f \in outputs : f.level \in Nat \ {0}
    /\ \A f \in inputs : f.level \in Nat
    /\ \A f \in files : f.level \in Nat
    /\ flushing # NoFile => flushing.level = 0
    /\ todo \in Seq(Nat)
    /\ compacter # "Compact" => todo # <<>>
    /\ IdsUnique

(* The fields of a new file.                                               *)
LEMMA NewFileFields ==
    ASSUME NEW level, NEW id, NEW data
    PROVE  NewFile(level, id, data).level = level /\ NewFile(level, id, data).id = id
BY DEF NewFile

(* An empty store satisfies the invariant of ids.                          *)
LEMMA IdInit == Init => IdInv
BY DEF Init, IdInv, IdsUnique, LiveFiles, Level

(* A flushed file gets an id above those of all live files.                *)
LEMMA FlushIds ==
    ASSUME IdInv, NEW data, Flush(data)
    PROVE  IdInv'
<1>1. PICK new : /\ flushing' = new /\ new.id = file_id + 1 /\ new.level = 0
  BY NewFileFields DEF Flush, NextId
<1>2. QED
  BY <1>1 DEF IdInv, IdsUnique, LiveFiles, Level, Flush, NextId, compactVars

(* AddFile only installs a file that was live before.                      *)
LEMMA AddFileIds ==
    ASSUME IdInv, AddFile
    PROVE  IdInv'
BY DEF IdInv, IdsUnique, LiveFiles, Level, AddFile, compactVars

(* Compact only picks among the installed files.                           *)
LEMMA CompactIds ==
    ASSUME IdInv, Compact
    PROVE  IdInv'
<1>1. inputs' \subseteq files /\ compacter' \in {"TrivialMove", "NWayCompaction"} /\ todo # <<>>
  BY DEF Compact, Pick, Level, FindOverlapFilesBasedOnBound
<1>2. UNCHANGED <<file_id, files, todo, outputs, flushing>>
  BY DEF Compact, flushVars
<1>3. QED
  BY <1>1, <1>2 DEF IdInv, IdsUnique, LiveFiles, Level

(* TrivialMove and FlushCompactedFile draw their ids like Flush.           *)
LEMMA TrivialMoveIds ==
    ASSUME IdInv, TrivialMove
    PROVE  IdInv'
<1>1. PICK new : outputs' = {new} /\ new.id = file_id + 1 /\ new.level \in Nat \ {0}
  <2>1. PICK f \in inputs : outputs' = {NewFile(f.level + 1, NextId, f.data)}
    BY DEF TrivialMove
  <2>2. f.level \in Nat
    BY DEF IdInv
  <2>3. QED BY <2>1, <2>2, NewFileFields DEF NextId
<1>2. /\ file_id' = file_id + 1 /\ compacter # "Compact"
      /\ UNCHANGED <<files, todo, inputs, flushing>>
  BY DEF TrivialMove, NextId, flushVars
<1>3. QED
  BY <1>1, <1>2 DEF IdInv, IdsUnique, LiveFiles, Level

(* A file written by a merge gets an id of its own.                        *)
LEMMA FlushCompactedIds ==
    ASSUME IdInv, FlushCompactedFile
    PROVE  IdInv'
<1>1. PICK new : outputs' = outputs \cup {new} /\ new.id = file_id + 1 /\ new.level \in Nat \ {0}
  <2>1. PICK data : outputs' = outputs \cup {NewFile(Head(todo) + 1, NextId, data)}
    BY DEF FlushCompactedFile
  <2>2. Head(todo) \in Nat
    BY DEF IdInv, FlushCompactedFile
  <2>3. QED BY <2>1, <2>2, NewFileFields DEF NextId
<1>2. /\ file_id' = file_id + 1
      /\ UNCHANGED <<files, todo, inputs, flushing, compacter>>
  BY DEF FlushCompactedFile, NextId, flushVars
<1>3. QED
  BY <1>1, <1>2 DEF IdInv, IdsUnique, LiveFiles, Level

(* The other steps of the compaction thread draw no id.                    *)
LEMMA OtherIds ==
    ASSUME IdInv,
           Wake \/ Return \/ EndNWayCompaction \/ UpdateMapAfterCompaction \/ DeleteFile
             \/ CompactAgain
    PROVE  IdInv'
<1>1. CASE Wake
  BY <1>1 DEF IdInv, IdsUnique, LiveFiles, Level, Wake, flushVars
<1>2. CASE Return
  BY <1>2 DEF IdInv, IdsUnique, LiveFiles, Level, Return, flushVars
<1>3. CASE EndNWayCompaction
  BY <1>3 DEF IdInv, IdsUnique, LiveFiles, Level, EndNWayCompaction, flushVars
<1>4. CASE UpdateMapAfterCompaction
  BY <1>4 DEF IdInv, IdsUnique, LiveFiles, Level, UpdateMapAfterCompaction, flushVars
<1>5. CASE DeleteFile
  BY <1>5 DEF IdInv, IdsUnique, LiveFiles, Level, DeleteFile, flushVars
<1>6. CASE CompactAgain
  BY <1>6 DEF IdInv, IdsUnique, LiveFiles, Level, CompactAgain, ThenCompact, flushVars
<1>7. QED BY <1>1, <1>2, <1>3, <1>4, <1>5, <1>6

(* Every step keeps the invariant of ids.                                  *)
LEMMA IdNext == IdInv /\ [Next]_vars => IdInv'
<1>1. ASSUME IdInv, UNCHANGED vars PROVE IdInv'
  BY <1>1 DEF IdInv, IdsUnique, LiveFiles, Level, vars
<1>2. QED
  BY <1>1, FlushIds, AddFileIds, CompactIds, TrivialMoveIds, FlushCompactedIds, OtherIds
     DEF Next, Compacter

(* A file that becomes live has an id that was not drawn before.           *)
LEMMA NewLive ==
    ASSUME IdInv, [Next]_vars
    PROVE  /\ file_id <= file_id'
           /\ \A f \in LiveFiles' : f \in LiveFiles \/ file_id < f.id
<1> USE DEF LiveFiles
<1>1. ASSUME NEW data, Flush(data) PROVE file_id' = file_id + 1 /\ flushing'.id = file_id + 1
  BY <1>1, NewFileFields DEF Flush, NextId
<1>2. CASE TrivialMove \/ FlushCompactedFile
  <2>1. PICK new : outputs' \subseteq outputs \cup {new} /\ new.id = file_id + 1
    <3>1. PICK level, data : outputs' \subseteq outputs \cup {NewFile(level, NextId, data)}
      BY <1>2 DEF TrivialMove, FlushCompactedFile
    <3>2. QED BY <3>1, NewFileFields DEF NextId
  <2>2. file_id' = file_id + 1 /\ UNCHANGED <<files, flushing>>
    BY <1>2 DEF TrivialMove, FlushCompactedFile, NextId, flushVars
  <2>3. QED BY <2>1, <2>2 DEF IdInv
<1>3. CASE \E data \in FlushData : Flush(data)
  <2>1. UNCHANGED <<files, outputs>>
    BY <1>3 DEF Flush, compactVars
  <2>2. QED BY <1>1, <1>3, <2>1 DEF IdInv
<1>4. CASE AddFile \/ UpdateMapAfterCompaction
  BY <1>4 DEF AddFile, UpdateMapAfterCompaction, compactVars, flushVars, IdInv
<1>5. CASE UNCHANGED <<file_id, files, outputs, flushing>>
  BY <1>5 DEF IdInv
<1>6. QED
  BY <1>2, <1>3, <1>4, <1>5 DEF Next, Compacter, vars, flushVars, Wake, Return, Compact,
     EndNWayCompaction, DeleteFile, CompactAgain

(* There are finitely many files.                                          *)
FinInv == IsFiniteSet(files) /\ IsFiniteSet(outputs)

(* There is no file at first.                                              *)
LEMMA FinInit == Init => FinInv
BY FS_EmptySet DEF Init, FinInv

(* Every step adds at most one file to a finite set.                       *)
LEMMA FinNext == FinInv /\ [Next]_vars => FinInv'
<1> SUFFICES ASSUME FinInv, [Next]_vars PROVE FinInv'
  OBVIOUS
<1>1. CASE AddFile
  BY <1>1, FS_AddElement DEF FinInv, AddFile, compactVars
<1>2. CASE TrivialMove
  <2>1. PICK new : outputs' = {new} /\ files' = files
    BY <1>2 DEF TrivialMove
  <2>2. QED BY <2>1, FS_Singleton DEF FinInv
<1>3. CASE FlushCompactedFile
  <2>1. PICK new : outputs' = outputs \cup {new} /\ files' = files
    BY <1>3 DEF FlushCompactedFile
  <2>2. QED BY <2>1, FS_AddElement DEF FinInv
<1>4. CASE UpdateMapAfterCompaction
  BY <1>4, FS_EmptySet, FS_Difference, FS_Union DEF FinInv, UpdateMapAfterCompaction
<1>5. CASE UNCHANGED <<files, outputs>>
  BY <1>5 DEF FinInv
<1>6. QED
  BY <1>1, <1>2, <1>3, <1>4, <1>5 DEF Next, Compacter, vars, Flush, compactVars, Wake, Return,
     Compact, EndNWayCompaction, DeleteFile, CompactAgain

(* The counter never falls behind an id that is in use.                    *)
LEMMA IdsHold == Spec => [](IdInv /\ FinInv)
BY IdInit, IdNext, FinInit, FinNext, PTL DEF Spec

(* However the flush and the compaction thread alternate in drawing ids    *)
(* from file_id_, no two live files share one, and the file being flushed  *)
(* is newer than every installed file of level 0.                          *)
THEOREM FileIdsUnique == Spec => []IdsUnique
<1>1. IdInv => IdsUnique
  BY DEF IdInv
<1>2. QED BY <1>1, IdsHold, PTL

-----------------------------------------------------------------------------
(* The key ranges of the levels.                                           *)

(* The bounds in a file's header are its least and its greatest key.       *)
Bounded(f) ==
    /\ KeysOf(f.data) # {}
    /\ f.lower = Least(KeysOf(f.data)) /\ f.upper = Greatest(KeysOf(f.data))

(* A nonempty set of keys has a least and a greatest element.              *)
LEMMA LeastGreatest ==
    ASSUME NEW S \in SUBSET Key, S # {}
    PROVE  /\ Least(S) \in S /\ \A j \in S : Least(S) <= j
           /\ Greatest(S) \in S /\ \A j \in S : j <= Greatest(S)
BY KeyAssumption DEF Least, Greatest

(* The bounds of a file are keys, and enclose the keys of the file.        *)
LEMMA BoundedFacts ==
    ASSUME NEW f, Bounded(f)
    PROVE  /\ f.lower \in Key /\ f.upper \in Key /\ f.lower \in Int /\ f.upper \in Int
           /\ f.lower <= f.upper
           /\ \A k \in KeysOf(f.data) : f.lower <= k /\ k <= f.upper
<1>1. PICK S \in SUBSET Key : S = KeysOf(f.data) /\ S # {}
  BY DEF KeysOf, Bounded
<1>2. f.lower \in S /\ f.upper \in S /\ \A k \in S : f.lower <= k /\ k <= f.upper
  BY <1>1, LeastGreatest DEF Bounded
<1>3. S \subseteq Int
  BY KeyAssumption
<1>4. QED BY <1>1, <1>2, <1>3

(* The bounds of a new file are those of its contents.                     *)
LEMMA NewFileBounded ==
    ASSUME NEW level, NEW id, NEW data, KeysOf(data) # {}
    PROVE  /\ Bounded(NewFile(level, id, data))
           /\ NewFile(level, id, data).level = level
           /\ NewFile(level, id, data).lower = Least(KeysOf(data))
           /\ NewFile(level, id, data).upper = Greatest(KeysOf(data))
BY DEF NewFile, Bounded

Apart(f, g) == f.upper < g.lower \/ g.upper < f.lower

-----------------------------------------------------------------------------
(* Two files with an entry for one key overlap.                            *)
LEMMA Overlap ==
    ASSUME NEW f, NEW g, Bounded(f), Bounded(g), NEW k \in Key,
           f.data[k] # NotFound, g.data[k] # NotFound
    PROVE  ~ Apart(f, g) /\ ~ Apart(g, f)
<1>1. k \in KeysOf(f.data) /\ k \in KeysOf(g.data) /\ k \in Int
  BY KeyAssumption DEF KeysOf
<1>2. /\ f.lower \in Int /\ f.upper \in Int /\ g.lower \in Int /\ g.upper \in Int
      /\ f.lower <= k /\ k <= f.upper /\ g.lower <= k /\ k <= g.upper
  BY <1>1, BoundedFacts
<1>3. QED BY <1>1, <1>2 DEF Apart

(* A merge into the level below l works within the keys lo .. up: of that  *)
(* level it has taken every file that reaches into them.                   *)
Merging(l, lo, up) ==
    /\ inputs \subseteq files /\ lo \in Int /\ up \in Int
    /\ \A g \in files \ inputs : g.level = l + 1 => g.upper < lo \/ up < g.lower
    /\ \A f \in inputs : lo <= f.lower /\ f.upper <= up
    /\ \A f \in outputs : f.level = l + 1 /\ lo <= f.lower /\ f.upper <= up
    /\ \A f, g \in outputs : f # g => Apart(f, g)
    /\ compacter = "TrivialMove" =>
         outputs = {} /\ (\E f \in files : inputs = {f} /\ f.level = l)
    /\ compacter = "NWayCompaction" =>
         \A k \in KeysOf(rest) : /\ lo <= k /\ k <= up
                                 /\ \A f \in outputs : f.upper < k

Busy == {"TrivialMove", "NWayCompaction", "UpdateMapAfterCompaction"}

LevelInv ==
    /\ \A f \in LiveFiles : Bounded(f)
    /\ LevelsDisjoint
    /\ compacter \in Busy => \E lo, up : Merging(Head(todo), lo, up)
    /\ compacter \notin Busy => outputs = {}

(* An empty store satisfies the invariant of levels.                       *)
LEMMA LevelInit == Init => LevelInv
BY DEF Init, LevelInv, LiveFiles, LevelsDisjoint, Busy

(* What Compact picks from the two levels.                                 *)
LEMMA PickMerging ==
    ASSUME IdInv, LevelInv, Compact
    PROVE  \E lo, up : Merging(Head(todo), lo, up)'
<1> DEFINE l == Head(todo)
<1>1. l \in Nat /\ UNCHANGED <<files, todo, outputs>> /\ outputs = {}
  BY DEF IdInv, Compact, LevelInv, Busy
<1>2. PICK first, b :
        /\ first \in files
        /\ b \in UpperBound(first, l) /\ IsFirst(first, l) /\ inputs' = Pick(l, first, b)
        /\ IF inputs' = {first}
             THEN compacter' = "TrivialMove" /\ UNCHANGED rest
             ELSE compacter' = "NWayCompaction" /\ rest' = DropTombs(Merged(inputs'))
  BY DEF Compact
<1>3. \A f \in files : /\ Bounded(f) /\ f.level \in Nat
                        /\ f.lower \in Key /\ f.upper \in Key
                        /\ f.lower \in Int /\ f.upper \in Int /\ f.lower <= f.upper
                        /\ \A k \in KeysOf(f.data) : f.lower <= k /\ k <= f.upper
  BY BoundedFacts DEF LevelInv, LiveFiles, IdInv
<1>4. /\ first \in files /\ b \in Int /\ first.upper <= b /\ first.level = l
      /\ \A f \in files : f.level = l => first.lower <= f.lower
      /\ l = 0 => \A f \in files : f.level = 0 /\ f.lower <= b => f.upper <= b
      /\ l # 0 => b = first.upper
  <2>1. /\ first \in files /\ first.level = l
        /\ \A f \in files : f.level = l => first.lower <= f.lower
    BY <1>2 DEF IsFirst, Level
  <2>2. CASE l = 0
    <3>1. /\ b \in {f.upper : f \in Level(0)} /\ first.upper <= b
          /\ \A f \in Level(0) : f.lower <= b => f.upper <= b
      BY <1>2, <2>2 DEF UpperBound
    <3>2. b \in Int
      BY <1>3, <3>1 DEF Level
    <3>3. \A f \in files : f.level = 0 /\ f.lower <= b => f.upper <= b
      BY <3>1 DEF Level
    <3>4. QED BY <2>1, <2>2, <3>1, <3>2, <3>3
  <2>3. CASE l # 0
    <3>1. b = first.upper
      BY <1>2, <2>3 DEF UpperBound
    <3>2. QED BY <1>2, <1>3, <2>1, <2>3, <3>1
  <2>4. QED BY <2>2, <2>3
<1>5. /\ inputs' \subseteq files /\ first \in inputs'
      /\ \A f \in inputs' :
           \/ f.level = l /\ first.lower <= f.lower /\ f.upper <= b
           \/ f.level = l + 1 /\ f.lower <= b /\ first.lower <= f.upper
      /\ \A g \in files : g.level = l + 1 /\ g.lower <= b /\ first.lower <= g.upper => g \in inputs'
  BY <1>1, <1>2, <1>3, <1>4 DEF Pick, Level, FindOverlapFilesBasedOnBound
<1> DEFINE lowers == {f.lower : f \in inputs'}
           uppers == {f.upper : f \in inputs'}
<1>6. PICK lo \in Int, up \in Int :
        /\ \A f \in inputs' : lo <= f.lower /\ f.upper <= up
        /\ \E f \in inputs' : f.lower = lo
        /\ \E f \in inputs' : f.upper = up
  <2>1. lowers \in SUBSET Key /\ lowers # {} /\ uppers \in SUBSET Key /\ uppers # {}
    BY <1>3, <1>5
  <2>2. Least(lowers) \in lowers /\ \A j \in lowers : Least(lowers) <= j
    BY <2>1, LeastGreatest
  <2>3. Greatest(uppers) \in uppers /\ \A j \in uppers : j <= Greatest(uppers)
    BY <2>1, LeastGreatest
  <2>4. Least(lowers) \in Int /\ Greatest(uppers) \in Int
    BY <2>1, <2>2, <2>3, KeyAssumption
  <2>5. QED BY <2>2, <2>3, <2>4
<1>7. ASSUME NEW g \in files, g \notin inputs', g.level = l + 1
      PROVE  g.upper < lo \/ up < g.lower
  <2>1. g.lower > b \/ g.upper < first.lower
    BY <1>3, <1>4, <1>5, <1>7
  <2>2. \A h \in inputs' : h.level = l + 1 => Apart(g, h)
    BY <1>1, <1>3, <1>5, <1>7 DEF LevelInv, LevelsDisjoint, Apart
  <2>3. CASE g.lower > b
    <3>1. PICK h \in inputs' : h.upper = up
      BY <1>6
    <3>2. h \in files
      BY <1>5
    <3>3. CASE h.level = l
      BY <1>1, <1>3, <1>4, <1>5, <2>3, <3>1, <3>2, <3>3
    <3>4. CASE h.level = l + 1
      <4>1. h.lower <= b
        BY <1>1, <1>5, <3>4
      <4>2. Apart(g, h)
        BY <2>2, <3>4
      <4>3. QED BY <1>3, <1>4, <2>3, <3>1, <3>2, <4>1, <4>2 DEF Apart
    <3>5. QED BY <1>5, <3>3, <3>4
  <2>4. CASE g.upper < first.lower
    <3>1. PICK h \in inputs' : h.lower = lo
      BY <1>6
    <3>2. h \in files
      BY <1>5
    <3>3. CASE h.level = l
      BY <1>1, <1>3, <1>4, <1>5, <2>4, <3>1, <3>2, <3>3
    <3>4. CASE h.level = l + 1
      <4>1. first.lower <= h.upper
        BY <1>1, <1>5, <3>4
      <4>2. Apart(g, h)
        BY <2>2, <3>4
      <4>3. QED BY <1>3, <1>4, <2>4, <3>1, <3>2, <4>1, <4>2 DEF Apart
    <3>5. QED BY <1>5, <3>3, <3>4
  <2>5. QED BY <2>1, <2>3, <2>4
<1>8. ASSUME compacter' = "NWayCompaction", NEW k \in KeysOf(rest')
      PROVE  lo <= k /\ k <= up
  <2>1. k \in Key /\ k \in Int /\ rest'[k] # NotFound
    BY <1>8, KeyAssumption DEF KeysOf
  <2>2. rest' = DropTombs(Merged(inputs'))
    BY <1>2, <1>8
  <2>3. Merged(inputs')[k] # NotFound
    BY <2>1, <2>2 DEF DropTombs
  <2>4. PICK f \in inputs' : f.data[k] # NotFound
    BY <2>1, <2>3 DEF Merged
  <2>5. f \in files /\ k \in KeysOf(f.data)
    BY <1>5, <2>1, <2>4 DEF KeysOf
  <2>6. QED BY <1>3, <1>6, <2>1, <2>5
<1>9. compacter' = "TrivialMove" => inputs' = {first}
  BY <1>2
<1>10. Merging(l, lo, up)'
  BY <1>1, <1>4, <1>5, <1>6, <1>7, <1>8, <1>9 DEF Merging
<1>11. QED BY <1>10

(* A flushed file belongs to level 0, and no merge writes there.           *)
LEMMA FlushLevels ==
    ASSUME LevelInv, NEW data \in FlushData, Flush(data)
    PROVE  LevelInv'
<1>1. KeysOf(data) # {}
  <2>1. data \in [Key -> Result] /\ data # [k \in Key |-> NotFound]
    BY EngineAssumption DEF Buffer, EmptyBuffer
  <2>2. \E k \in Key : data[k] # NotFound
    BY <2>1
  <2>3. QED BY <2>2 DEF KeysOf
<1>2. Bounded(flushing')
  BY <1>1, NewFileBounded DEF Flush
<1>3. UNCHANGED <<files, compactVars>>
  BY DEF Flush
<1>4. \A f \in LiveFiles' : Bounded(f)
  BY <1>2, <1>3 DEF LevelInv, LiveFiles, compactVars
<1>5. \A l, lo, up : Merging(l, lo, up) => Merging(l, lo, up)'
  BY <1>3 DEF Merging, compactVars
<1>6. QED BY <1>3, <1>4, <1>5 DEF LevelInv, LevelsDisjoint, compactVars

(* AddFile installs into level 0, which a merge into a lower level does    *)
(* not mind.                                                               *)
LEMMA AddFileLevels ==
    ASSUME IdInv, LevelInv, AddFile
    PROVE  LevelInv'
<1>1. /\ files' = files \cup {flushing} /\ flushing' = NoFile /\ UNCHANGED compactVars
      /\ flushing.level = 0 /\ flushing # NoFile
  BY DEF AddFile, IdInv
<1>2. \A f \in LiveFiles' : Bounded(f)
  BY <1>1 DEF LevelInv, LiveFiles, compactVars
<1>3. LevelsDisjoint'
  BY <1>1 DEF LevelInv, LevelsDisjoint
<1>4. ASSUME NEW l \in Nat, NEW lo, NEW up, Merging(l, lo, up)
      PROVE  Merging(l, lo, up)'
  BY <1>1, <1>4 DEF Merging, compactVars
<1>5. compacter \in Busy => Head(todo) \in Nat
  BY DEF IdInv, Busy
<1>6. QED BY <1>1, <1>2, <1>3, <1>4, <1>5 DEF LevelInv, compactVars

(* What Compact picks is set up for a merge.                               *)
LEMMA CompactLevels ==
    ASSUME IdInv, LevelInv, Compact
    PROVE  LevelInv'
<1>1. UNCHANGED <<files, outputs, flushing>> /\ compacter' \in Busy
  BY DEF Compact, flushVars, Busy
<1>2. QED BY <1>1, PickMerging DEF LevelInv, LiveFiles, LevelsDisjoint

(* A file that is moved down has the range of its input.                   *)
LEMMA TrivialMoveLevels ==
    ASSUME IdInv, LevelInv, TrivialMove
    PROVE  LevelInv'
<1>1. PICK lo, up : Merging(Head(todo), lo, up)
  BY DEF LevelInv, TrivialMove, Busy
<1>2. PICK f \in files : inputs = {f} /\ f.level = Head(todo) /\ outputs = {}
  BY <1>1 DEF Merging, TrivialMove
<1>3. PICK new : /\ outputs' = {new} /\ Bounded(new) /\ new.level = Head(todo) + 1
                 /\ new.lower = f.lower /\ new.upper = f.upper
  <2>1. KeysOf(f.data) # {} /\ f.lower = Least(KeysOf(f.data)) /\ f.upper = Greatest(KeysOf(f.data))
    BY DEF LevelInv, LiveFiles, Bounded
  <2>2. outputs' = {NewFile(f.level + 1, NextId, f.data)}
    BY <1>2 DEF TrivialMove
  <2>3. QED BY <1>2, <2>1, <2>2, NewFileBounded
<1>4. /\ UNCHANGED <<files, inputs, todo, flushing>>
      /\ compacter' = "UpdateMapAfterCompaction"
  BY DEF TrivialMove, flushVars
<1>5. Merging(Head(todo), lo, up)'
  BY <1>1, <1>2, <1>3, <1>4 DEF Merging
<1>6. \A g \in LiveFiles' : Bounded(g)
  BY <1>3, <1>4 DEF LevelInv, LiveFiles
<1>7. QED BY <1>4, <1>5, <1>6 DEF LevelInv, LevelsDisjoint, Busy

(* The file cut off takes the keys up to last and leaves the larger ones.  *)
LEMMA FlushCompactedLevels ==
    ASSUME IdInv, LevelInv, FlushCompactedFile
    PROVE  LevelInv'
<1>1. PICK lo, up : Merging(Head(todo), lo, up)
  BY DEF LevelInv, FlushCompactedFile, Busy
<1>2. PICK last, chunk :
        /\ last \in KeysOf(rest)
        /\ chunk = [k \in Key |-> IF k <= last THEN rest[k] ELSE NotFound]
        /\ rest' = [k \in Key |-> IF k <= last THEN NotFound ELSE rest[k]]
        /\ outputs' = outputs \cup {NewFile(Head(todo) + 1, NextId, chunk)}
  BY DEF FlushCompactedFile
<1>3. KeysOf(rest) \subseteq Key /\ Key \subseteq Int
  BY KeyAssumption DEF KeysOf
<1>4. /\ last \in KeysOf(chunk)
      /\ \A k \in KeysOf(chunk) : k \in KeysOf(rest) /\ k <= last
      /\ \A k \in KeysOf(rest') : k \in KeysOf(rest) /\ last < k
  BY <1>2, <1>3 DEF KeysOf
<1>5. PICK new : /\ outputs' = outputs \cup {new} /\ Bounded(new)
                 /\ new.level = Head(todo) + 1
                 /\ new.lower \in KeysOf(rest) /\ new.upper \in KeysOf(rest)
                 /\ new.upper <= last
  <2>1. KeysOf(chunk) \in SUBSET Key /\ KeysOf(chunk) # {}
    BY <1>4 DEF KeysOf
  <2>2. Least(KeysOf(chunk)) \in KeysOf(chunk) /\ Greatest(KeysOf(chunk)) \in KeysOf(chunk)
    BY <2>1, LeastGreatest
  <2>3. QED BY <1>2, <1>4, <2>1, <2>2, NewFileBounded
<1>6. /\ UNCHANGED <<files, inputs, todo, flushing, compacter>>
      /\ compacter = "NWayCompaction"
  BY DEF FlushCompactedFile, flushVars
<1>7. \A k \in KeysOf(rest) : /\ lo <= k /\ k <= up /\ k \in Int
                              /\ \A f \in outputs : f.upper < k
  BY <1>1, <1>3, <1>6 DEF Merging
<1>8. \A f \in outputs : Apart(f, new) /\ Apart(new, f)
  BY <1>5, <1>7 DEF Apart
<1>9. \A k \in KeysOf(rest') : \A f \in outputs' : f.upper < k
  BY <1>3, <1>4, <1>5, <1>7
<1>10. Merging(Head(todo), lo, up)'
  BY <1>1, <1>4, <1>5, <1>6, <1>7, <1>8, <1>9 DEF Merging
<1>11. \A g \in LiveFiles' : Bounded(g)
  BY <1>5, <1>6 DEF LevelInv, LiveFiles
<1>12. QED BY <1>6, <1>10, <1>11 DEF LevelInv, LevelsDisjoint, Busy

(* The swap puts the outputs where the inputs were.                        *)
LEMMA UpdateMapLevels ==
    ASSUME IdInv, LevelInv, UpdateMapAfterCompaction
    PROVE  LevelInv'
<1>1. PICK lo, up : Merging(Head(todo), lo, up)
  BY DEF LevelInv, UpdateMapAfterCompaction, Busy
<1>2. /\ files' = (files \ inputs) \cup outputs /\ outputs' = {} /\ compacter' = "Delete"
      /\ flushing' = flushing
  BY DEF UpdateMapAfterCompaction, flushVars
<1>3. \A f \in files \cup outputs : f.lower \in Int /\ f.upper \in Int
  BY BoundedFacts DEF LevelInv, LiveFiles
<1>4. ASSUME NEW f \in outputs, NEW g \in files \ inputs, f.level = g.level
      PROVE  Apart(f, g) /\ Apart(g, f)
  <2>1. g.upper < lo \/ up < g.lower
    BY <1>1, <1>4 DEF Merging
  <2>2. lo <= f.lower /\ f.upper <= up /\ lo \in Int /\ up \in Int
    BY <1>1, <1>4 DEF Merging
  <2>3. QED BY <1>3, <2>1, <2>2 DEF Apart
<1>5. \A f, g \in outputs : f # g => Apart(f, g)
  BY <1>1 DEF Merging
<1>6. \A f, g \in files : f.level = g.level /\ f.level > 0 /\ f # g => Apart(f, g)
  BY DEF LevelInv, LevelsDisjoint, Apart
<1>7. \A f, g \in files' : f.level = g.level /\ f.level > 0 /\ f # g => Apart(f, g)
  BY <1>2, <1>4, <1>5, <1>6
<1>8. LevelsDisjoint'
  BY <1>7 DEF LevelsDisjoint, Apart
<1>9. \A f \in LiveFiles' : Bounded(f)
  BY <1>2 DEF LevelInv, LiveFiles
<1>10. QED BY <1>2, <1>8, <1>9 DEF LevelInv, Busy

(* The other steps change neither files nor outputs.                       *)
LEMMA OtherLevels ==
    ASSUME LevelInv, UNCHANGED <<files, outputs, flushing, inputs>>,
           \/ UNCHANGED <<compacter, todo, rest>>
           \/ EndNWayCompaction
           \/ compacter \notin Busy /\ compacter' \notin Busy
    PROVE  LevelInv'
<1>1. (\A f \in LiveFiles' : Bounded(f)) /\ LevelsDisjoint'
  BY DEF LevelInv, LiveFiles, LevelsDisjoint
<1>2. CASE UNCHANGED <<compacter, todo, rest>>
  BY <1>1, <1>2 DEF LevelInv, Merging
<1>3. CASE EndNWayCompaction
  <2>1. /\ compacter = "NWayCompaction" /\ compacter' = "UpdateMapAfterCompaction"
        /\ UNCHANGED <<todo, rest>>
    BY <1>3 DEF EndNWayCompaction
  <2>2. PICK lo, up : Merging(Head(todo), lo, up)
    BY <2>1 DEF LevelInv, Busy
  <2>3. Merging(Head(todo), lo, up)'
    BY <2>1, <2>2 DEF Merging
  <2>4. QED BY <1>1, <2>1, <2>3 DEF LevelInv, Busy
<1>4. CASE compacter \notin Busy /\ compacter' \notin Busy
  BY <1>1, <1>4 DEF LevelInv
<1>5. QED BY <1>2, <1>3, <1>4

(* Every step keeps the invariant of levels.                               *)
LEMMA LevelNext == IdInv /\ LevelInv /\ [Next]_vars => LevelInv'
<1> SUFFICES ASSUME IdInv, LevelInv, [Next]_vars PROVE LevelInv'
  OBVIOUS
<1>1. CASE Wake \/ Return \/ DeleteFile \/ CompactAgain
  BY <1>1, OtherLevels DEF Wake, Return, DeleteFile, CompactAgain, flushVars, Busy
<1>2. CASE EndNWayCompaction \/ UNCHANGED vars
  BY <1>2, OtherLevels DEF EndNWayCompaction, vars, flushVars
<1>3. QED
  BY <1>1, <1>2, FlushLevels, AddFileLevels, CompactLevels, TrivialMoveLevels,
     FlushCompactedLevels, UpdateMapLevels DEF Next, Compacter

(* Whatever is flushed, and however flushes and compactions alternate, the *)
(* files of a level below 0 have disjoint key ranges.                      *)
THEOREM LevelsStayDisjoint == Spec => []LevelsDisjoint
<1>1. LevelInv => LevelsDisjoint
  BY DEF LevelInv
<1>2. Spec => []LevelInv
  BY LevelInit, LevelNext, IdsHold, PTL DEF Spec
<1>3. QED BY <1>1, <1>2, PTL
=============================================================================
