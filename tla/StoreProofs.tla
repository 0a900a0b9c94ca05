---------------------------- MODULE StoreProofs ----------------------------
(* What the data files say (StorageEngine, Recovery), for any keys,        *)
(* values, limits, flushes and restarts.                                   *)
EXTENDS Recovery, EngineProofs, WellFoundedInduction

(* The order of the natural numbers, which is well founded.                *)
Below == OpToRel(<, Nat)

(* A nonempty set of numbers has a least element.                          *)
LEMMA LeastNumber ==
    ASSUME NEW T \in SUBSET Nat, T # {}
    PROVE  \E x \in T : \A y \in T : x <= y
<1>1. IsWellFoundedOn(Below, Nat)
  BY NatLessThanWellFounded DEF Below
<1>2. \A x, y \in Nat : <<x, y>> \in Below <=> x < y
  BY DEF OpToRel, Below
<1>3. PICK x \in T : \A y \in T : ~ (<<y, x>> \in Below)
  BY <1>1, WFMin
<1>4. \A y \in T : ~ (y < x)
  BY <1>2, <1>3, Zenon
<1>5. x \in Nat /\ \A y \in T : y \in Nat
  OBVIOUS
<1>6. QED BY <1>4, <1>5

(* A nonempty set of integers that has a bound has a greatest element.     *)
LEMMA GreatestInteger ==
    ASSUME NEW T \in SUBSET Int, T # {}, NEW b \in Int, \A x \in T : x <= b
    PROVE  \E x \in T : \A y \in T : y <= x
<1> DEFINE D == {b - x : x \in T}
<1>1. D \in SUBSET Nat /\ D # {}
  <2>1. \A x \in T : b - x \in Nat
    OBVIOUS
  <2>2. QED BY <2>1
<1>2. PICK d \in D : \A e \in D : d <= e
  <2> HIDE DEF D
  <2>1. QED BY <1>1, LeastNumber
<1>3. PICK x \in T : d = b - x
  OBVIOUS
<1>4. \A y \in T : b - x <= b - y
  BY <1>2, <1>3
<1>5. QED BY <1>4

-----------------------------------------------------------------------------
(* Files with ids of their own, none above b.                              *)
Ranked(S, b) ==
    /\ b \in Int
    /\ \A f \in S : f.level \in Nat /\ f.id \in Int /\ f.id <= b
    /\ \A f, g \in S : f.id = g.id => f = g

(* The file n of S is the one that decides k.                              *)
Decides(n, S, k) ==
    /\ n \in S /\ n.data[k] # NotFound
    /\ \A g \in S : g.data[k] # NotFound /\ g # n => Newer(n, g)

(* Among files with ids of their own one decides every key they have.      *)
LEMMA DeciderExists ==
    ASSUME NEW S, NEW b, Ranked(S, b), NEW k, \E f \in S : f.data[k] # NotFound
    PROVE  \E n \in S : Decides(n, S, k)
<1> DEFINE H == {f \in S : f.data[k] # NotFound}
           levels == {f.level : f \in H}
<1>1. levels \in SUBSET Nat /\ levels # {}
  BY DEF Ranked
<1>2. PICK l \in levels : \A m \in levels : l <= m
  <2> HIDE DEF levels
  <2>1. QED BY <1>1, LeastNumber
<1> DEFINE ids == {f.id : f \in {g \in H : g.level = l}}
<1>3. ids \in SUBSET Int /\ ids # {} /\ b \in Int /\ \A i \in ids : i <= b
  BY DEF Ranked
<1>4. PICK i \in ids : \A j \in ids : j <= i
  <2> HIDE DEF ids
  <2>1. QED BY <1>3, GreatestInteger
<1>5. PICK n \in H : n.level = l /\ n.id = i
  OBVIOUS
<1>6. ASSUME NEW g \in S, g.data[k] # NotFound, g # n
      PROVE  Newer(n, g)
  <2>1. g.level \in levels /\ l <= g.level
    BY <1>2, <1>6
  <2>2. g.level = l => g.id \in ids /\ g.id <= i
    BY <1>4, <1>6
  <2>3. g.id # n.id /\ g.id \in Int /\ n.id \in Int /\ g.level \in Nat /\ l \in Nat
    BY <1>1, <1>2, <1>5, <1>6 DEF Ranked
  <2>4. QED BY <1>5, <2>1, <2>2, <2>3 DEF Newer
<1>7. QED BY <1>5, <1>6 DEF Decides

(* Only one file decides a key.                                            *)
LEMMA DeciderUnique ==
    ASSUME NEW S, NEW b, Ranked(S, b), NEW k, NEW n, NEW m, Decides(n, S, k), Decides(m, S, k)
    PROVE  n = m
<1>1. SUFFICES ASSUME n # m PROVE FALSE
  OBVIOUS
<1>2. Newer(n, m) /\ Newer(m, n) /\ n \in S /\ m \in S
  BY <1>1 DEF Decides
<1>3. n.level \in Int /\ m.level \in Int /\ n.id \in Int /\ m.id \in Int
  BY <1>2 DEF Ranked
<1>4. QED BY <1>2, <1>3 DEF Newer

(* A merge takes its entry for a key from the file that decides it.        *)
LEMMA MergedDecided ==
    ASSUME NEW S, NEW b, Ranked(S, b), NEW k \in Key, NEW n, Decides(n, S, k)
    PROVE  Merged(S)[k] = n.data[k]
<1>1. n \in S /\ n.data[k] # NotFound /\ \A m \in S : Decides(m, S, k) => m = n
  BY DeciderUnique DEF Decides
<1>2. (CHOOSE f \in S : Decides(f, S, k)) = n
  BY <1>1
<1>3. Newest(S, k) = n
  <2>1. Newest(S, k) =
          CHOOSE f \in S : /\ f.data[k] # NotFound
                           /\ \A g \in S : g.data[k] # NotFound /\ g # f => Newer(f, g)
    BY DEF Newest
  <2>2. \A f \in S : Decides(f, S, k) <=>
                       /\ f.data[k] # NotFound
                       /\ \A g \in S : g.data[k] # NotFound /\ g # f => Newer(f, g)
    BY DEF Decides
  <2>3. QED BY <1>1, <2>1, <2>2
<1>4. QED BY <1>1, <1>3 DEF Merged

(* A merge has no entry for a key that none of the files has.              *)
LEMMA MergedNone ==
    ASSUME NEW S, NEW k \in Key, \A f \in S : f.data[k] = NotFound
    PROVE  Merged(S)[k] = NotFound
BY DEF Merged

(* So each entry of a merge is an entry of one of its files.               *)
LEMMA MergedFrom ==
    ASSUME NEW S, NEW b, Ranked(S, b), NEW k \in Key
    PROVE  \/ Merged(S)[k] = NotFound /\ \A f \in S : f.data[k] = NotFound
           \/ \E n \in S : Decides(n, S, k) /\ Merged(S)[k] = n.data[k]
BY DeciderExists, MergedDecided, MergedNone

(* What a lookup finds in the files F.                                     *)
ViewOf(F) == [k \in Key |-> Merged({f \in F : f.lower <= k /\ k <= f.upper})[k]]

(* A lookup looks at the installed files, before and after a step.         *)
LEMMA ViewIs == View = ViewOf(files) /\ View' = ViewOf(files')
BY DEF View, ViewOf

(* The files GetContainsFiles leaves out have no entry for the key, so a   *)
(* lookup finds what the file that decides among all of them says.         *)
LEMMA ViewDecided ==
    ASSUME NEW F, NEW b, Ranked(F, b), \A f \in F : Bounded(f),
           NEW k \in Key, NEW n, Decides(n, F, k)
    PROVE  ViewOf(F)[k] = n.data[k]
<1> DEFINE S == {f \in F : f.lower <= k /\ k <= f.upper}
<1>1. Ranked(S, b)
  BY DEF Ranked
<1>2. n \in F /\ Bounded(n) /\ k \in KeysOf(n.data)
  BY DEF Decides, KeysOf
<1>3. n \in S
  BY <1>2, BoundedFacts
<1>4. Decides(n, S, k)
  BY <1>3 DEF Decides
<1>5. ViewOf(F)[k] = Merged(S)[k]
  BY DEF ViewOf
<1> HIDE DEF S
<1>6. QED BY <1>1, <1>4, <1>5, MergedDecided

(* A lookup finds nothing for a key that no file has.                      *)
LEMMA ViewNone ==
    ASSUME NEW F, NEW k \in Key, \A f \in F : f.data[k] = NotFound
    PROVE  ViewOf(F)[k] = NotFound
<1> DEFINE S == {f \in F : f.lower <= k /\ k <= f.upper}
<1>1. ViewOf(F)[k] = Merged(S)[k] /\ \A f \in S : f.data[k] = NotFound
  BY DEF ViewOf
<1> HIDE DEF S
<1>2. QED BY <1>1, MergedNone

(* Each value a lookup finds is an entry of the file that decides it.      *)
LEMMA ViewFrom ==
    ASSUME NEW F, NEW b, Ranked(F, b), \A f \in F : Bounded(f), NEW k \in Key
    PROVE  \/ ViewOf(F)[k] = NotFound /\ \A f \in F : f.data[k] = NotFound
           \/ \E n \in F : Decides(n, F, k) /\ ViewOf(F)[k] = n.data[k]
BY DeciderExists, ViewDecided, ViewNone

-----------------------------------------------------------------------------
(* Every file is well formed, and the counter is at or above its id.       *)
TypeInv ==
    /\ TypeOK
    /\ \A f \in LiveFiles \cup garbage : Bounded(f) /\ f.id <= file_id
    /\ \A f, g \in LiveFiles \cup garbage : f.id = g.id => f = g
    /\ inputs \subseteq files

(* A well-formed new file.                                                 *)
LEMMA NewFileType ==
    ASSUME NEW level \in Nat, NEW id \in Nat, NEW data \in Buffer, KeysOf(data) # {}
    PROVE  NewFile(level, id, data) \in File /\ Bounded(NewFile(level, id, data))
<1>1. KeysOf(data) \in SUBSET Key
  BY DEF KeysOf
<1>2. Least(KeysOf(data)) \in Key /\ Greatest(KeysOf(data)) \in Key
  BY <1>1, LeastGreatest
<1>3. QED BY <1>2, NewFileBounded DEF NewFile, File

(* A buffer that is not empty has a key.                                   *)
LEMMA NotEmpty ==
    ASSUME NEW data \in Buffer, data # EmptyBuffer
    PROVE  KeysOf(data) # {}
<1>1. \E k \in Key : data[k] # NotFound
  BY DEF Buffer, EmptyBuffer
<1>2. QED BY <1>1 DEF KeysOf

(* The files of any selection have ids of their own.                       *)
LEMMA TypeRanked ==
    ASSUME TypeInv, NEW S \in SUBSET (LiveFiles \cup garbage)
    PROVE  Ranked(S, file_id)
<1>1. \A f \in LiveFiles \cup garbage : f \in File
  BY DEF TypeInv, TypeOK, LiveFiles
<1>2. file_id \in Int
  BY DEF TypeInv, TypeOK
<1>3. QED BY <1>1, <1>2 DEF Ranked, TypeInv, File

(* A merge of well-formed files is a buffer.                               *)
LEMMA MergedType ==
    ASSUME NEW S \in SUBSET File, NEW b, Ranked(S, b)
    PROVE  Merged(S) \in Buffer
<1>1. ASSUME NEW k \in Key PROVE Merged(S)[k] \in Result
  <2>1. CASE Merged(S)[k] = NotFound
    BY <2>1 DEF Result
  <2>2. CASE \E n \in S : Decides(n, S, k) /\ Merged(S)[k] = n.data[k]
    <3>1. PICK n \in S : Merged(S)[k] = n.data[k]
      BY <2>2
    <3>2. n.data \in [Key -> Result]
      BY DEF File, Buffer
    <3>3. QED BY <3>1, <3>2
  <2>3. QED BY <2>1, <2>2, MergedFrom
<1>2. PICK D : D = Merged(S) /\ D = [k \in Key |-> Merged(S)[k]]
  BY DEF Merged
<1>3. QED BY <1>1, <1>2 DEF Buffer

(* An empty store is well formed.                                          *)
LEMMA TypeInit == Init => TypeInv
BY EngineAssumption DEF Init, TypeInv, TypeOK, LiveFiles, Buffer, EmptyBuffer, Result

(* Flush writes a well-formed file with a fresh id.                        *)
LEMMA FlushType ==
    ASSUME TypeInv, NEW data \in FlushData, Flush(data)
    PROVE  TypeInv'
<1>1. NextId \in Nat /\ NextId = file_id + 1 /\ file_id \in Int
  BY DEF TypeInv, TypeOK, NextId
<1>2. data \in Buffer /\ KeysOf(data) # {}
  BY EngineAssumption, NotEmpty
<1>3. PICK new : /\ new = NewFile(0, NextId, data) /\ new \in File /\ Bounded(new)
                 /\ new.id = file_id + 1
  BY <1>1, <1>2, NewFileType, NewFileFields
<1>4. /\ flushing' = new /\ disk' = disk \cup {new} /\ file_id' = file_id + 1
      /\ UNCHANGED <<files, compactVars, written>>
      /\ flushes < MaxFlushes /\ flushes' = flushes + 1
  BY <1>1, <1>3 DEF Flush
<1>5. TypeOK'
  BY <1>1, <1>3, <1>4, EngineAssumption DEF TypeInv, TypeOK, compactVars
<1>6. LiveFiles' \cup garbage' \subseteq LiveFiles \cup garbage \cup {new}
  BY <1>4 DEF LiveFiles, compactVars
<1>7. \A f \in LiveFiles \cup garbage : f.id <= file_id /\ f.id \in Int
  BY TypeRanked DEF TypeInv, Ranked
<1>8. QED BY <1>1, <1>3, <1>4, <1>5, <1>6, <1>7 DEF TypeInv, compactVars

(* AddFile installs a well-formed file.                                    *)
LEMMA AddFileType ==
    ASSUME TypeInv, AddFile
    PROVE  TypeInv'
<1>1. /\ files' = files \cup {flushing} /\ flushing \in File /\ flushing' = NoFile
      /\ UNCHANGED <<file_id, disk, compactVars, flushes>>
  BY DEF AddFile, TypeInv, TypeOK
<1>2. flushing.data \in [Key -> Result]
  BY <1>1 DEF File, Buffer
<1>3. written' \in [Key -> SUBSET Value]
  <2>1. \A k \in Key : written[k] \cup ({flushing.data[k]} \ {NotFound}) \in SUBSET Value
    BY <1>2 DEF Result, TypeInv, TypeOK
  <2>2. QED BY <2>1 DEF AddFile
<1>4. TypeOK'
  BY <1>1, <1>3 DEF TypeInv, TypeOK, compactVars
<1>5. LiveFiles' \cup garbage' \subseteq LiveFiles \cup garbage /\ inputs' \subseteq files'
  BY <1>1 DEF LiveFiles, compactVars, TypeInv, AddFile
<1>6. QED BY <1>1, <1>4, <1>5 DEF TypeInv

(* Compact sets up a merge of well-formed files.                           *)
LEMMA CompactType ==
    ASSUME TypeInv, Compact
    PROVE  TypeInv'
<1>1. /\ inputs' \subseteq files /\ todo # <<>>
      /\ \/ compacter' = "TrivialMove" /\ rest' = rest
         \/ compacter' = "NWayCompaction" /\ rest' = DropTombs(Merged(inputs'))
  BY DEF Compact, Pick, Level, FindOverlapFilesBasedOnBound
<1>2. UNCHANGED <<file_id, files, disk, todo, outputs, garbage, flushVars>>
  BY DEF Compact
<1>3. inputs' \in SUBSET (LiveFiles \cup garbage) /\ inputs' \in SUBSET File
  BY <1>1 DEF LiveFiles, TypeInv, TypeOK
<1>4. Merged(inputs') \in Buffer
  BY <1>3, TypeRanked, MergedType
<1>5. rest' \in Buffer
  <2>1. \A data \in Buffer : DropTombs(data) \in Buffer
    BY DEF DropTombs, Buffer, Result
  <2>2. QED BY <1>1, <1>4, <2>1 DEF TypeInv, TypeOK
<1>6. TypeOK'
  BY <1>1, <1>2, <1>3, <1>5 DEF TypeInv, TypeOK, flushVars
<1>7. QED BY <1>1, <1>2, <1>6 DEF TypeInv, LiveFiles, flushVars

(* What a step does that writes one file of the next level.                *)
Writes(new) ==
    /\ new \in File /\ Bounded(new) /\ new.id = file_id + 1
    /\ file_id' = file_id + 1
    /\ outputs' = outputs \cup {new}
    /\ UNCHANGED <<files, garbage, todo, inputs, flushVars>>

(* TrivialMove writes a copy of its only file; the file has left the disk. *)
LEMMA TrivialMoveWrites ==
    ASSUME TypeInv, TrivialMove, NEW f \in files, inputs = {f}, outputs = {}
    PROVE  \E new : /\ Writes(new) /\ new.level = f.level + 1 /\ new.data = f.data
                    /\ disk' = (disk \ {f}) \cup {new}
<1>1. NextId \in Nat /\ NextId = file_id + 1
  BY DEF TypeInv, TypeOK, NextId
<1>2. f \in File /\ f.level + 1 \in Nat /\ f.data \in Buffer /\ KeysOf(f.data) # {}
  BY DEF TypeInv, TypeOK, File, LiveFiles, Bounded
<1>3. PICK new : new = NewFile(f.level + 1, NextId, f.data)
  OBVIOUS
<1>4. /\ new \in File /\ Bounded(new) /\ new.id = file_id + 1 /\ new.level = f.level + 1
      /\ new.data = f.data
  BY <1>1, <1>2, <1>3, NewFileType, NewFileFields DEF NewFile
<1>5. outputs' = outputs \cup {new} /\ disk' = (disk \ {f}) \cup {new}
  BY <1>3 DEF TrivialMove
<1>6. QED BY <1>1, <1>4, <1>5 DEF TrivialMove, Writes

(* FlushCompactedFile moves the first entries of the rest to a file.       *)
LEMMA FlushCompactedWrites ==
    ASSUME TypeInv, FlushCompactedFile
    PROVE  \E new : /\ Writes(new) /\ new.level = Head(todo) + 1
                    /\ disk' = disk \cup outputs' /\ rest' \in Buffer
                    /\ \A k \in Key : \/ new.data[k] = rest[k] /\ rest'[k] = NotFound
                                      \/ new.data[k] = NotFound /\ rest'[k] = rest[k]
<1>1. NextId \in Nat /\ NextId = file_id + 1 /\ Head(todo) + 1 \in Nat /\ rest \in [Key -> Result]
  BY DEF TypeInv, TypeOK, NextId, FlushCompactedFile, Buffer
<1>2. PICK last, chunk :
        /\ last \in KeysOf(rest)
        /\ chunk = [k \in Key |-> IF k <= last THEN rest[k] ELSE NotFound]
        /\ rest' = [k \in Key |-> IF k <= last THEN NotFound ELSE rest[k]]
        /\ outputs' = outputs \cup {NewFile(Head(todo) + 1, NextId, chunk)}
  BY DEF FlushCompactedFile
<1>3. chunk \in Buffer /\ rest' \in Buffer /\ KeysOf(chunk) # {}
  <2>1. last \in Key /\ last \in Int /\ rest[last] # NotFound
    BY <1>2, KeyAssumption DEF KeysOf
  <2>2. last \in KeysOf(chunk)
    BY <1>2, <2>1 DEF KeysOf
  <2>3. QED BY <1>1, <1>2, <2>2 DEF Buffer, Result
<1>4. PICK new : new = NewFile(Head(todo) + 1, NextId, chunk)
  OBVIOUS
<1>5. /\ new \in File /\ Bounded(new) /\ new.id = file_id + 1 /\ new.level = Head(todo) + 1
      /\ new.data = chunk
  BY <1>1, <1>3, <1>4, NewFileType, NewFileFields DEF NewFile
<1>6. \A k \in Key : \/ new.data[k] = rest[k] /\ rest'[k] = NotFound
                     \/ new.data[k] = NotFound /\ rest'[k] = rest[k]
  BY <1>2, <1>5
<1>7. Writes(new) /\ disk' = disk \cup outputs'
  BY <1>1, <1>2, <1>4, <1>5 DEF FlushCompactedFile, Writes
<1>8. QED BY <1>3, <1>5, <1>6, <1>7

(* A step that writes one file keeps the files well formed.                *)
LEMMA WritesType ==
    ASSUME TypeInv, NEW new, Writes(new), disk' \subseteq disk \cup outputs', rest' \in Buffer,
           todo # <<>>, compacter' \in {"NWayCompaction", "UpdateMapAfterCompaction"}
    PROVE  TypeInv'
<1>1. TypeOK'
  BY DEF TypeInv, TypeOK, Writes, flushVars
<1>2. LiveFiles' \cup garbage' = LiveFiles \cup garbage \cup {new}
  BY DEF LiveFiles, Writes, flushVars
<1>3. \A f \in LiveFiles \cup garbage : f.id <= file_id /\ f.id \in Int
  BY TypeRanked DEF TypeInv, Ranked
<1>4. file_id \in Int
  BY DEF TypeInv, TypeOK
<1>5. QED BY <1>1, <1>2, <1>3, <1>4 DEF TypeInv, Writes

-----------------------------------------------------------------------------
(* TrivialMove has renamed its file: the copy is on disk, the file is not. *)
Moved ==
    \E f \in inputs : \E o \in outputs :
        /\ inputs = {f} /\ outputs = {o} /\ o.data = f.data
        /\ o.level = f.level + 1 /\ disk = LiveFiles \ {f}

(* The data folder holds the live files and those not deleted yet.         *)
DiskInv ==
    /\ outputs \cap files = {} /\ flushing \notin files \cup outputs
    /\ compacter \notin Busy => inputs = {} /\ outputs = {}
    /\ compacter = "TrivialMove" => outputs = {} /\ \E f \in files : inputs = {f}
    /\ compacter # "Delete" => garbage = {}
    /\ garbage \cap LiveFiles = {}
    /\ disk = LiveFiles \cup garbage \/ (compacter = "UpdateMapAfterCompaction" /\ Moved)

(* The data folder of an empty store is empty.                             *)
LEMMA DiskInit == Init => DiskInv
BY DEF Init, DiskInv, LiveFiles, Busy

(* A fresh id is the id of no other file.                                  *)
LEMMA Fresh ==
    ASSUME TypeInv, NEW new, new.id = file_id + 1
    PROVE  new \notin LiveFiles \cup garbage
<1>1. file_id \in Int /\ \A f \in LiveFiles \cup garbage : f.id <= file_id /\ f.id \in Int
  BY TypeRanked DEF TypeInv, Ranked, TypeOK
<1>2. QED BY <1>1

(* A flushed file is on disk and live.                                     *)
LEMMA FlushDisk ==
    ASSUME TypeInv, DiskInv, NEW data \in FlushData, Flush(data)
    PROVE  DiskInv'
<1>1. PICK new : /\ new = NewFile(0, NextId, data) /\ new.id = file_id + 1 /\ new \in File
  <2>1. NextId \in Nat /\ NextId = file_id + 1
    BY DEF TypeInv, TypeOK, NextId
  <2>2. data \in Buffer /\ KeysOf(data) # {}
    BY EngineAssumption, NotEmpty
  <2>3. QED BY <2>1, <2>2, NewFileType, NewFileFields
<1>2. new \notin LiveFiles \cup garbage
  BY <1>1, Fresh
<1>3. /\ flushing = NoFile /\ flushing' = new /\ disk' = disk \cup {new}
      /\ UNCHANGED <<files, compacter, inputs, outputs, garbage>>
  BY <1>1 DEF Flush, compactVars
<1>4. new # NoFile
  BY <1>1, NoFileAssumption
<1>5. LiveFiles' = LiveFiles \cup {new}
  BY <1>3, <1>4 DEF LiveFiles
<1>6. ASSUME Moved PROVE Moved'
  <2>1. PICK f \in inputs, o \in outputs :
          /\ inputs = {f} /\ outputs = {o} /\ o.data = f.data
          /\ o.level = f.level + 1 /\ disk = LiveFiles \ {f}
    BY <1>6 DEF Moved
  <2>2. f # new
    BY <1>2 DEF LiveFiles, TypeInv
  <2>3. disk' = LiveFiles' \ {f}
    BY <1>3, <1>5, <2>1, <2>2
  <2>4. QED BY <1>3, <2>1, <2>3 DEF Moved
<1>7. QED
  BY <1>2, <1>3, <1>5, <1>6 DEF DiskInv, LiveFiles

(* AddFile makes no difference to the live files.                          *)
LEMMA AddFileDisk ==
    ASSUME TypeInv, DiskInv, AddFile
    PROVE  DiskInv'
<1>1. /\ files' = files \cup {flushing} /\ flushing \in File /\ flushing' = NoFile
      /\ flushing # NoFile
      /\ UNCHANGED <<disk, compacter, inputs, outputs, garbage>>
  BY DEF AddFile, TypeInv, TypeOK, compactVars
<1>2. LiveFiles' = LiveFiles
  BY <1>1 DEF LiveFiles
<1>3. NoFile \notin files' \cup outputs'
  BY <1>1, NoFileAssumption DEF TypeInv, TypeOK
<1>4. Moved => Moved'
  BY <1>1, <1>2 DEF Moved
<1>5. outputs' \cap files' = {}
  BY <1>1 DEF DiskInv
<1>6. QED
  BY <1>1, <1>2, <1>3, <1>4, <1>5 DEF DiskInv

(* Compact touches no file; a single input is moved.                       *)
LEMMA CompactDisk ==
    ASSUME DiskInv, Compact
    PROVE  DiskInv'
<1>1. /\ compacter = "Compact" /\ UNCHANGED <<files, disk, outputs, garbage, flushing>>
      /\ compacter' \in {"TrivialMove", "NWayCompaction"}
      /\ compacter' = "TrivialMove" => \E f \in files : inputs' = {f}
  BY DEF Compact, flushVars
<1>2. LiveFiles' = LiveFiles
  BY <1>1 DEF LiveFiles
<1>3. QED BY <1>1, <1>2 DEF DiskInv, Busy

(* TrivialMove leaves its copy on disk in place of its file.               *)
LEMMA TrivialMoveDisk ==
    ASSUME TypeInv, DiskInv, TrivialMove
    PROVE  TypeInv' /\ DiskInv'
<1>1. PICK f \in files : inputs = {f} /\ outputs = {}
  BY DEF DiskInv, TrivialMove
<1>2. PICK new : /\ Writes(new) /\ new.level = f.level + 1 /\ new.data = f.data
                 /\ disk' = (disk \ {f}) \cup {new}
  BY <1>1, TrivialMoveWrites
<1>3. /\ compacter = "TrivialMove" /\ compacter' = "UpdateMapAfterCompaction" /\ rest' = rest
      /\ todo # <<>>
  BY DEF TrivialMove, TypeInv, TypeOK
<1>4. TypeInv'
  BY <1>2, <1>3, WritesType DEF Writes, TypeInv, TypeOK
<1>5. new \notin LiveFiles \cup garbage
  BY <1>2, Fresh DEF Writes
<1>6. /\ outputs' = {new} /\ inputs' = {f} /\ garbage' = {} /\ files' = files
      /\ flushing' = flushing /\ disk = LiveFiles /\ garbage = {}
  BY <1>1, <1>2, <1>3 DEF Writes, DiskInv, flushVars
<1>7. LiveFiles' = LiveFiles \cup {new} /\ f \in LiveFiles
  BY <1>1, <1>6 DEF LiveFiles
<1>8. disk' = LiveFiles' \ {f}
  BY <1>2, <1>5, <1>6, <1>7
<1>9. Moved'
  BY <1>2, <1>6, <1>8 DEF Moved
<1>10. flushing \notin files /\ flushing # new
  <2>1. new # NoFile
    BY <1>2, NoFileAssumption DEF Writes
  <2>2. QED BY <1>5, <2>1 DEF DiskInv, LiveFiles
<1>11. new \notin files
  BY <1>5 DEF LiveFiles
<1>12. QED
  BY <1>3, <1>4, <1>6, <1>9, <1>10, <1>11 DEF DiskInv, Busy

(* A file written by a merge is on disk and live.                          *)
LEMMA FlushCompactedDisk ==
    ASSUME TypeInv, DiskInv, FlushCompactedFile
    PROVE  TypeInv' /\ DiskInv'
<1>1. PICK new : Writes(new) /\ disk' = disk \cup outputs' /\ rest' \in Buffer
  BY FlushCompactedWrites
<1>2. compacter = "NWayCompaction" /\ compacter' = compacter /\ todo # <<>>
  BY DEF FlushCompactedFile, TypeInv, TypeOK
<1>3. TypeInv'
  BY <1>1, <1>2, WritesType
<1>4. new \notin LiveFiles \cup garbage /\ new # NoFile
  BY <1>1, Fresh, NoFileAssumption DEF Writes
<1>5. LiveFiles' = LiveFiles \cup {new} /\ garbage' = {} /\ disk = LiveFiles
  BY <1>1, <1>2 DEF LiveFiles, Writes, DiskInv, flushVars
<1>6. disk' = LiveFiles'
  BY <1>1, <1>5 DEF Writes, LiveFiles
<1>7. outputs' \cap files' = {} /\ flushing' \notin files' \cup outputs'
  BY <1>1, <1>4 DEF Writes, DiskInv, flushVars, LiveFiles
<1>8. QED BY <1>2, <1>3, <1>5, <1>6, <1>7 DEF DiskInv, Busy

(* The swap turns the inputs that are on disk into garbage.                *)
LEMMA UpdateMapDisk ==
    ASSUME TypeInv, DiskInv, UpdateMapAfterCompaction
    PROVE  TypeInv' /\ DiskInv'
<1>1. /\ compacter = "UpdateMapAfterCompaction" /\ compacter' = "Delete"
      /\ files' = (files \ inputs) \cup outputs /\ garbage' = inputs \cap disk
      /\ inputs' = {} /\ outputs' = {} /\ garbage = {}
      /\ UNCHANGED <<file_id, disk, todo, rest, flushing, written, flushes>>
  BY DEF UpdateMapAfterCompaction, Replaced, flushVars, DiskInv
<1>2. inputs \subseteq files /\ outputs \cap files = {} /\ flushing \notin files \cup outputs
  BY DEF DiskInv, TypeInv
<1>3. TypeOK'
  BY <1>1, <1>2 DEF TypeInv, TypeOK
<1>4. LiveFiles' = LiveFiles \ inputs
  BY <1>1, <1>2 DEF LiveFiles
<1>5. garbage' \subseteq LiveFiles
  BY <1>1, <1>2 DEF LiveFiles
<1>6. TypeInv'
  BY <1>1, <1>3, <1>4, <1>5 DEF TypeInv
<1>7. disk' = LiveFiles' \cup garbage'
  <2>1. CASE disk = LiveFiles
    BY <1>1, <1>2, <1>4, <2>1 DEF LiveFiles
  <2>2. CASE Moved
    BY <1>1, <1>4, <2>2 DEF Moved
  <2>3. QED BY <1>1, <2>1, <2>2 DEF DiskInv
<1>8. garbage' \cap LiveFiles' = {} /\ flushing' \notin files' \cup outputs'
  BY <1>1, <1>2, <1>4
<1>9. QED BY <1>1, <1>6, <1>7, <1>8 DEF DiskInv, Busy

(* A deleted file leaves the disk.                                         *)
LEMMA DeleteFileDisk ==
    ASSUME TypeInv, DiskInv, DeleteFile
    PROVE  TypeInv' /\ DiskInv'
<1>1. PICK f \in garbage : garbage' = garbage \ {f} /\ disk' = disk \ {f}
  BY DEF DeleteFile
<1>2. /\ compacter = "Delete"
      /\ UNCHANGED <<file_id, files, compacter, todo, inputs, rest, outputs, flushVars>>
  BY DEF DeleteFile
<1>3. TypeOK'
  BY <1>1, <1>2 DEF TypeInv, TypeOK, flushVars
<1>4. LiveFiles' = LiveFiles
  BY <1>2 DEF LiveFiles, flushVars
<1>5. QED
  BY <1>1, <1>2, <1>3, <1>4 DEF TypeInv, DiskInv, flushVars

(* The remaining steps only move the compaction thread on.                 *)
LEMMA OtherDisk ==
    ASSUME TypeInv, DiskInv, TypeOK',
           UNCHANGED <<file_id, files, disk, flushing, inputs, outputs, garbage>>,
           \/ compacter' = compacter
           \/ compacter = "NWayCompaction" /\ compacter' = "UpdateMapAfterCompaction"
           \/ compacter = "Delete" /\ garbage = {} /\ compacter' = "Compact"
    PROVE  TypeInv' /\ DiskInv'
<1>1. LiveFiles' = LiveFiles
  BY DEF LiveFiles
<1>2. TypeInv'
  BY <1>1 DEF TypeInv
<1>3. Moved => Moved'
  BY <1>1 DEF Moved
<1>4. QED BY <1>1, <1>2, <1>3 DEF DiskInv, Busy

(* They keep the types.                                                    *)
LEMMA OtherType ==
    ASSUME TypeInv,
           Wake \/ Return \/ EndNWayCompaction \/ CompactAgain \/ UNCHANGED vars
    PROVE  TypeOK'
<1>1. CASE Wake
  BY <1>1 DEF TypeInv, TypeOK, Wake, flushVars
<1>2. CASE Return
  BY <1>2 DEF TypeInv, TypeOK, Return, flushVars
<1>3. CASE EndNWayCompaction
  BY <1>3 DEF TypeInv, TypeOK, EndNWayCompaction, flushVars
<1>4. CASE CompactAgain
  <2>1. /\ compacter = "Delete" /\ compacter' = "Compact"
        /\ todo' = <<Head(todo), Head(todo) + 1>> \o Tail(todo)
        /\ UNCHANGED <<file_id, files, disk, inputs, rest, outputs, garbage, flushVars>>
    BY <1>4 DEF CompactAgain, ThenCompact
  <2>2. todo \in Seq(Nat) /\ todo # <<>>
    BY <2>1 DEF TypeInv, TypeOK
  <2>3. todo' \in Seq(Nat)
    <3>1. Head(todo) \in Nat /\ Tail(todo) \in Seq(Nat)
      BY <2>2
    <3>2. <<Head(todo), Head(todo) + 1>> \in Seq(Nat)
      BY <3>1
    <3>3. QED BY <2>1, <3>1, <3>2
  <2>4. QED BY <2>1, <2>3 DEF TypeInv, TypeOK, flushVars
<1>5. CASE UNCHANGED vars
  BY <1>5 DEF TypeInv, TypeOK, vars
<1>6. QED BY <1>1, <1>2, <1>3, <1>4, <1>5

(* Every step keeps the files well formed and the data folder in order.    *)
LEMMA DiskNext ==
    ASSUME TypeInv, DiskInv, [Next]_vars
    PROVE  TypeInv' /\ DiskInv'
<1>1. CASE Wake \/ Return \/ EndNWayCompaction \/ CompactAgain \/ UNCHANGED vars
  <2>1. TypeOK'
    BY <1>1, OtherType
  <2>2. UNCHANGED <<file_id, files, disk, flushing, inputs, outputs, garbage>>
    BY <1>1 DEF Wake, Return, EndNWayCompaction, CompactAgain, vars, flushVars
  <2>3. \/ compacter' = compacter
        \/ compacter = "NWayCompaction" /\ compacter' = "UpdateMapAfterCompaction"
        \/ compacter = "Delete" /\ garbage = {} /\ compacter' = "Compact"
    BY <1>1 DEF Wake, Return, EndNWayCompaction, CompactAgain, vars
  <2>4. QED BY <2>1, <2>2, <2>3, OtherDisk
<1>2. CASE \E data \in FlushData : Flush(data)
  BY <1>2, FlushType, FlushDisk
<1>3. CASE AddFile
  BY <1>3, AddFileType, AddFileDisk
<1>4. CASE Compact
  BY <1>4, CompactType, CompactDisk
<1>5. QED
  BY <1>1, <1>2, <1>3, <1>4, TrivialMoveDisk, FlushCompactedDisk, UpdateMapDisk, DeleteFileDisk
     DEF Next, Compacter

(* Both hold throughout.                                                   *)
LEMMA StoreWellFormed == Spec => [](TypeInv /\ DiskInv)
BY TypeInit, DiskInit, DiskNext, PTL DEF Spec

(* The engine's state has its types: above all, a merge always yields a    *)
(* map of keys to values, and every file a flush or a merge writes has a   *)
(* first and a last key for its header.                                    *)
THEOREM EngineTypes == Spec => []TypeOK
<1>1. TypeInv => TypeOK
  BY DEF TypeInv
<1>2. QED BY <1>1, StoreWellFormed, PTL

(* What the invariants say of the data folder.                             *)
LEMMA DiskFacts ==
    ASSUME TypeInv, DiskInv
    PROVE  DiskComplete
<1>1. CASE disk = LiveFiles \cup garbage
  BY <1>1 DEF DiskComplete, DiskInv, LiveFiles
<1>2. CASE compacter = "UpdateMapAfterCompaction" /\ Moved
  <2>1. PICK f \in inputs : inputs = {f} /\ disk = LiveFiles \ {f}
    BY <1>2 DEF Moved
  <2>2. f \in files /\ outputs \cap files = {}
    BY DEF TypeInv, DiskInv
  <2>3. QED BY <1>2, <2>1, <2>2 DEF DiskComplete, LiveFiles
<1>3. QED BY <1>1, <1>2 DEF DiskInv

(* At every point of a flush, a merge, a move and a deletion, what a       *)
(* reader or a restart needs is on disk, and between compactions nothing   *)
(* else is.                                                                *)
THEOREM DiskStaysComplete == Spec => []DiskComplete
<1>1. TypeInv /\ DiskInv => DiskComplete
  BY DiskFacts
<1>2. QED BY <1>1, StoreWellFormed, PTL

-----------------------------------------------------------------------------
Pending(l) == \E i \in 1 .. Len(todo) : todo[i] = l

(* A level that is over its limit is in the stack of calls, or it is the   *)
(* one that CompactAgain is about to put there.                            *)
PendingInv ==
    \A f \in files : f.level > 0 /\ OverLimit(f.level) =>
        Pending(f.level) \/ (compacter = "Delete" /\ f.level = Head(todo) + 1)

(* The level a compaction works on is pending.                             *)
LEMMA HeadPending ==
    ASSUME NEW s \in Seq(Nat), s # <<>>
    PROVE  \E i \in 1 .. Len(s) : s[i] = Head(s)
<1>1. 1 \in 1 .. Len(s) /\ s[1] = Head(s)
  OBVIOUS
<1>2. QED BY <1>1

(* A call that returns takes no other level from the stack.                *)
LEMMA TailPending ==
    ASSUME NEW s \in Seq(Nat), s # <<>>, NEW l, l # Head(s), \E i \in 1 .. Len(s) : s[i] = l
    PROVE  \E i \in 1 .. Len(Tail(s)) : Tail(s)[i] = l
<1>1. PICK i \in 1 .. Len(s) : s[i] = l
  OBVIOUS
<1>2. i # 1
  BY <1>1
<1>3. i - 1 \in 1 .. Len(Tail(s)) /\ Tail(s)[i - 1] = s[i]
  BY <1>2
<1>4. QED BY <1>1, <1>3

(* The elements of a concatenation.                                        *)
LEMMA Joined ==
    ASSUME NEW a \in Seq(Nat), NEW b \in Seq(Nat)
    PROVE  /\ Len(a \o b) = Len(a) + Len(b) /\ Len(b) \in Nat
           /\ \A i \in 1 .. Len(a \o b) : (a \o b)[i] = IF i <= Len(a) THEN a[i] ELSE b[i - Len(a)]
OBVIOUS

(* The calls that follow a compaction.                                     *)
LEMMA AgainPending ==
    ASSUME NEW s \in Seq(Nat), s # <<>>, NEW l,
           l = Head(s) + 1 \/ \E i \in 1 .. Len(s) : s[i] = l
    PROVE  LET t == ThenCompact(Head(s)) \o Tail(s)
           IN \E i \in 1 .. Len(t) : t[i] = l
<1> DEFINE h == <<Head(s), Head(s) + 1>>
           u == Tail(s)
           t == h \o u
<1>1. ThenCompact(Head(s)) = h /\ h \in Seq(Nat) /\ u \in Seq(Nat) /\ Len(h) = 2
  BY DEF ThenCompact
<1>2. h[1] = Head(s) /\ h[2] = Head(s) + 1
  OBVIOUS
<1>3. /\ Len(t) = 2 + Len(u) /\ Len(u) \in Nat
      /\ \A i \in 1 .. Len(t) : t[i] = IF i <= 2 THEN h[i] ELSE u[i - 2]
  BY <1>1, Joined
<1> HIDE DEF t, u, h
<1>4. CASE l = Head(s)
  <2>1. 1 \in 1 .. Len(t) /\ t[1] = l
    BY <1>2, <1>3, <1>4
  <2>2. QED BY <1>1, <2>1 DEF t, u
<1>5. CASE l = Head(s) + 1
  <2>1. 2 \in 1 .. Len(t) /\ t[2] = l
    BY <1>2, <1>3, <1>5
  <2>2. QED BY <1>1, <2>1 DEF t, u
<1>6. CASE l # Head(s) /\ \E i \in 1 .. Len(s) : s[i] = l
  <2>1. PICK i \in 1 .. Len(u) : u[i] = l
    BY <1>6, TailPending DEF u
  <2>2. i + 2 \in 1 .. Len(t) /\ t[i + 2] = l
    BY <1>3, <2>1
  <2>3. QED BY <1>1, <2>2 DEF t, u
<1>7. QED BY <1>4, <1>5, <1>6

(* No level is over its limit in an empty store.                           *)
LEMMA PendingInit == Init => PendingInv
BY DEF Init, PendingInv

(* A step that changes neither the levels below 0 nor the stack.           *)
LEMMA SamePending ==
    ASSUME PendingInv, \A f \in files' : f.level > 0 => f \in files,
           files \subseteq files', todo' = todo, compacter = "Delete" => compacter' = "Delete"
    PROVE  PendingInv'
<1>1. SUFFICES ASSUME NEW f \in files', f.level > 0, OverLimit(f.level)'
      PROVE  Pending(f.level)' \/ (compacter' = "Delete" /\ f.level = Head(todo') + 1)
  BY DEF PendingInv
<1>2. {g \in files' : g.level = f.level} = {g \in files : g.level = f.level}
  BY <1>1
<1>3. OverLimit(f.level)
  BY <1>1, <1>2 DEF OverLimit, Level
<1>4. QED BY <1>1, <1>3 DEF PendingInv, Pending

(* The swap changes the number of files of two levels only: the one that   *)
(* is being compacted, and the next one.                                   *)
LEMMA UpdateMapPending ==
    ASSUME IdInv, LevelInv, PendingInv, UpdateMapAfterCompaction,
           \A f \in inputs : f.level \in {Head(todo), Head(todo) + 1}
    PROVE  PendingInv'
<1>1. /\ files' = (files \ inputs) \cup outputs /\ todo' = todo /\ compacter' = "Delete"
      /\ compacter = "UpdateMapAfterCompaction" /\ todo # <<>> /\ todo \in Seq(Nat)
  BY DEF UpdateMapAfterCompaction, IdInv
<1>2. \A f \in outputs : f.level = Head(todo) + 1
  BY <1>1 DEF LevelInv, Busy, Merging
<1>3. SUFFICES ASSUME NEW f \in files', f.level > 0, OverLimit(f.level)'
      PROVE  Pending(f.level)' \/ f.level = Head(todo) + 1
  BY <1>1 DEF PendingInv
<1>4. CASE f.level = Head(todo)
  BY <1>1, <1>4, HeadPending DEF Pending
<1>5. CASE f.level \notin {Head(todo), Head(todo) + 1}
  <2>1. f \in files /\ {g \in files' : g.level = f.level} = {g \in files : g.level = f.level}
    BY <1>1, <1>2, <1>5
  <2>2. OverLimit(f.level)
    BY <1>3, <2>1 DEF OverLimit, Level
  <2>3. Pending(f.level)
    BY <1>1, <1>3, <2>1, <2>2 DEF PendingInv
  <2>4. QED BY <1>1, <2>3 DEF Pending
<1>6. QED BY <1>4, <1>5

(* Every other step keeps the pending levels.                              *)
LEMMA OtherPending ==
    ASSUME IdInv, TypeInv, PendingInv, [Next]_vars, ~UpdateMapAfterCompaction
    PROVE  PendingInv'
<1>1. CASE AddFile
  <2>1. files' = files \cup {flushing} /\ flushing.level = 0 /\ UNCHANGED <<todo, compacter>>
    BY <1>1 DEF AddFile, IdInv, compactVars
  <2>2. QED BY <2>1, SamePending
<1>2. CASE Wake
  <2>1. todo = <<>> /\ files' = files /\ compacter = "Compact"
    BY <1>2 DEF Wake
  <2>2. \A f \in files : f.level > 0 => ~OverLimit(f.level)
    BY <2>1 DEF PendingInv, Pending
  <2>3. QED BY <2>1, <2>2 DEF PendingInv, OverLimit, Level
<1>3. CASE Return
  <2>1. /\ todo # <<>> /\ todo \in Seq(Nat) /\ todo' = Tail(todo) /\ ~OverLimit(Head(todo))
        /\ files' = files /\ compacter = "Compact"
    BY <1>3 DEF Return, IdInv
  <2>2. SUFFICES ASSUME NEW f \in files, f.level > 0, OverLimit(f.level)
        PROVE  \E i \in 1 .. Len(Tail(todo)) : Tail(todo)[i] = f.level
    BY <2>1 DEF PendingInv, OverLimit, Level, Pending
  <2>3. f.level # Head(todo) /\ Pending(f.level)
    BY <2>1, <2>2 DEF PendingInv
  <2>4. QED BY <2>1, <2>3, TailPending DEF Pending
<1>4. CASE CompactAgain
  <2>1. /\ todo # <<>> /\ todo \in Seq(Nat) /\ todo' = ThenCompact(Head(todo)) \o Tail(todo)
        /\ files' = files /\ compacter = "Delete"
    BY <1>4 DEF CompactAgain, IdInv
  <2>2. SUFFICES ASSUME NEW f \in files, f.level > 0, OverLimit(f.level)
        PROVE  \E i \in 1 .. Len(todo') : todo'[i] = f.level
    BY <2>1 DEF PendingInv, OverLimit, Level, Pending
  <2>3. f.level = Head(todo) + 1 \/ Pending(f.level)
    BY <2>1, <2>2 DEF PendingInv
  <2>4. QED BY <2>1, <2>3, AgainPending DEF Pending
<1>5. CASE /\ files' = files /\ todo' = todo
           /\ compacter = "Delete" => compacter' = "Delete"
  BY <1>5, SamePending
<1>6. QED
  BY <1>1, <1>2, <1>3, <1>4, <1>5 DEF Next, Compacter, vars, Flush, compactVars, Compact,
     TrivialMove, FlushCompactedFile, EndNWayCompaction, DeleteFile

-----------------------------------------------------------------------------
(* A merge from the level l of a call of Compact into the next one.  Of    *)
(* level 0 it leaves out only files that do not overlap its own or are     *)
(* newer, of the level below only files that do not overlap those of l.    *)
(* This holds whether or not the files of a level are disjoint.            *)
OrderInv ==
    compacter \in Busy =>
        /\ \A o \in outputs : o.level = Head(todo) + 1
        /\ \A f \in inputs : f.level \in {Head(todo), Head(todo) + 1}
        /\ compacter = "TrivialMove" => \A f \in inputs : f.level = Head(todo)
        /\ \A f \in inputs : \A g \in files \ inputs : f.level = Head(todo) =>
             /\ g.level = 0 /\ Head(todo) = 0 => Apart(f, g) \/ f.id < g.id
             /\ g.level = Head(todo) + 1 => Apart(f, g)

(* What Compact leaves out.                                                *)
LEMMA CompactOrder ==
    ASSUME TypeInv, DiskInv, Compact
    PROVE  OrderInv'
<1> DEFINE l == Head(todo)
<1>1. l \in Nat /\ UNCHANGED <<files, todo, outputs>> /\ outputs = {}
  BY DEF TypeInv, TypeOK, Compact, DiskInv, Busy
<1>2. PICK first, b :
        /\ first \in files
        /\ b \in UpperBound(first, l) /\ IsFirst(first, l) /\ inputs' = Pick(l, first, b)
        /\ IF inputs' = {first}
             THEN compacter' = "TrivialMove" /\ UNCHANGED rest
             ELSE compacter' = "NWayCompaction" /\ rest' = DropTombs(Merged(inputs'))
  BY DEF Compact
<1>3. \A f \in files : /\ f.level \in Nat /\ f.lower \in Int /\ f.upper \in Int
                        /\ f.lower <= f.upper
  BY BoundedFacts DEF TypeInv, TypeOK, File, LiveFiles
<1>4. /\ b \in Int /\ first.upper <= b /\ first.level = l
      /\ \A f \in files : f.level = l => first.lower <= f.lower
      /\ l = 0 => \A f \in files : f.level = 0 /\ f.lower <= b => f.upper <= b
      /\ l # 0 => b = first.upper
  <2>1. /\ first \in files /\ first.level = l
        /\ \A f \in files : f.level = l => first.lower <= f.lower
    BY <1>2 DEF IsFirst, Level
  <2>2. CASE l = 0
    <3>1. /\ b \in {f.upper : f \in Level(0)} /\ first.upper <= b
          /\ \A f \in Level(0) : f.lower <= b => f.upper <= b
      BY <1>2, <2>2 DEF UpperBound
    <3>2. b \in Int
      BY <1>3, <3>1 DEF Level
    <3>3. \A f \in files : f.level = 0 /\ f.lower <= b => f.upper <= b
      BY <3>1 DEF Level
    <3>4. QED BY <2>1, <2>2, <3>1, <3>2, <3>3
  <2>3. CASE l # 0
    <3>1. b = first.upper
      BY <1>2, <2>3 DEF UpperBound
    <3>2. QED BY <1>2, <1>3, <2>1, <2>3, <3>1
  <2>4. QED BY <2>2, <2>3
<1>5. /\ inputs' \subseteq files
      /\ \A f \in inputs' : f.level \in {l, l + 1}
      /\ \A f \in inputs' : f.level = l => first.lower <= f.lower /\ f.upper <= b
      /\ \A g \in files \ inputs' :
           /\ g.level = l + 1 => b < g.lower \/ g.upper < first.lower
           /\ g.level = 0 /\ l = 0 => b < g.lower
  BY <1>1, <1>2, <1>3, <1>4 DEF Pick, Level, FindOverlapFilesBasedOnBound
<1>6. ASSUME NEW f \in inputs', NEW g \in files \ inputs', f.level = l
      PROVE  /\ g.level = 0 /\ l = 0 => Apart(f, g)
             /\ g.level = l + 1 => Apart(f, g)
  <2>1. f \in files /\ first.lower <= f.lower /\ f.upper <= b
    BY <1>5, <1>6
  <2>2. /\ g.level = l + 1 => b < g.lower \/ g.upper < first.lower
        /\ g.level = 0 /\ l = 0 => b < g.lower
    BY <1>5
  <2>3. QED BY <1>2, <1>3, <1>4, <2>1, <2>2 DEF Apart
<1>7. compacter' = "TrivialMove" => \A f \in inputs' : f.level = l
  BY <1>2, <1>4
<1> HIDE DEF l
<1>8. Head(todo') = l
  BY <1>1 DEF l
<1>9. QED BY <1>1, <1>5, <1>6, <1>7, <1>8 DEF OrderInv

(* Every step keeps to what Compact has picked.                            *)
LEMMA OrderNext ==
    ASSUME IdInv, TypeInv, DiskInv, OrderInv, [Next]_vars
    PROVE  OrderInv'
<1>1. CASE AddFile
  <2>1. /\ files' = files \cup {flushing} /\ flushing # NoFile /\ UNCHANGED compactVars
        /\ flushing.level = 0
    BY <1>1 DEF AddFile, IdInv
  <2>2. compacter \in Busy => Head(todo) \in Nat /\ Head(todo) + 1 # 0
    BY DEF TypeInv, TypeOK, Busy
  <2>3. \A f \in inputs : f.level = 0 => f.id < flushing.id
    BY <2>1 DEF IdInv, IdsUnique, Level, TypeInv
  <2>4. ASSUME compacter \in Busy, NEW f \in inputs, NEW g \in files' \ inputs, f.level = Head(todo)
        PROVE  /\ g.level = 0 /\ Head(todo) = 0 => Apart(f, g) \/ f.id < g.id
               /\ g.level = Head(todo) + 1 => Apart(f, g)
    BY <2>1, <2>2, <2>3, <2>4 DEF OrderInv
  <2>5. QED BY <2>1, <2>4 DEF OrderInv, compactVars
<1>2. CASE TrivialMove
  <2>1. PICK f \in files : inputs = {f} /\ outputs = {}
    BY <1>2 DEF DiskInv, TrivialMove
  <2>2. PICK new : Writes(new) /\ new.level = f.level + 1
    BY <1>2, <2>1, TrivialMoveWrites
  <2>3. f.level = Head(todo)
    BY <1>2, <2>1 DEF OrderInv, TrivialMove, Busy
  <2>4. outputs' = {new} /\ UNCHANGED <<files, inputs, todo>>
    BY <2>1, <2>2 DEF Writes
  <2>5. compacter \in Busy /\ compacter' # "TrivialMove"
    BY <1>2 DEF TrivialMove, Busy
  <2>6. QED BY <2>2, <2>3, <2>4, <2>5 DEF OrderInv
<1>3. CASE FlushCompactedFile
  <2>1. PICK new : Writes(new) /\ new.level = Head(todo) + 1
    BY <1>3, FlushCompactedWrites
  <2>2. outputs' = outputs \cup {new} /\ UNCHANGED <<files, inputs, todo, compacter>>
    BY <1>3, <2>1 DEF Writes, FlushCompactedFile
  <2>3. QED BY <2>1, <2>2 DEF OrderInv
<1>4. CASE compacter' \notin Busy
  BY <1>4 DEF OrderInv
<1>5. CASE /\ UNCHANGED <<files, inputs, outputs, todo>>
           /\ compacter' = compacter \/ (compacter = "NWayCompaction" /\ compacter' \in Busy \ {"TrivialMove"})
  BY <1>5 DEF OrderInv, Busy
<1>6. CASE Wake \/ Return \/ UpdateMapAfterCompaction \/ DeleteFile \/ CompactAgain
  BY <1>4, <1>6 DEF Wake, Return, UpdateMapAfterCompaction, DeleteFile, CompactAgain, Busy
<1>7. CASE (\E data \in FlushData : Flush(data)) \/ EndNWayCompaction \/ UNCHANGED vars
  BY <1>5, <1>7 DEF Flush, EndNWayCompaction, vars, compactVars, Busy
<1>8. QED
  BY <1>1, <1>2, <1>3, <1>6, <1>7, CompactOrder DEF Next, Compacter

(* There is nothing to merge at first.                                     *)
LEMMA OrderInit == Init => OrderInv
BY DEF Init, OrderInv, Busy

(* All of it holds throughout.                                             *)
LEMMA StoreHolds == Spec => [](IdInv /\ LevelInv /\ TypeInv /\ DiskInv /\ OrderInv)
BY IdInit, IdNext, LevelInit, LevelNext, TypeInit, DiskInit, DiskNext, OrderInit, OrderNext, PTL
DEF Spec

(* However flushes and compactions alternate, a level below 0 that has too *)
(* many files when Compact is called or has returned is still to be        *)
(* compacted by a call that is on the stack; in particular no such level   *)
(* is left when the compaction thread goes back to sleep.                  *)
THEOREM OverfullStaysPending == Spec => []OverfullIsPending
<1>1. IdInv /\ LevelInv /\ TypeInv /\ DiskInv /\ OrderInv /\ PendingInv /\ [Next]_vars => PendingInv'
  <2>1. UpdateMapAfterCompaction /\ OrderInv => \A f \in inputs : f.level \in {Head(todo), Head(todo) + 1}
    BY DEF UpdateMapAfterCompaction, OrderInv, Busy
  <2>2. QED BY <2>1, UpdateMapPending, OtherPending
<1>2. PendingInv => OverfullIsPending
  BY DEF PendingInv, OverfullIsPending, Pending
<1>3. QED BY <1>1, <1>2, PendingInit, StoreHolds, PTL DEF Spec

-----------------------------------------------------------------------------
(* What becomes of the entry v that the inputs of a merge have for k: the  *)
(* outputs have no other, and unless it is a tombstone it is in one of     *)
(* them, or still to be written.                                           *)
Carries(k) ==
    LET v == Merged(inputs)[k]
    IN /\ \A o \in outputs : o.data[k] \in {v, NotFound}
       /\ compacter = "NWayCompaction" => rest[k] \in {v, NotFound}
       /\ v \notin {Tomb, NotFound} =>
            \/ compacter = "TrivialMove"
            \/ compacter = "NWayCompaction" /\ rest[k] = v
            \/ \E o \in outputs : o.data[k] = v

(* Files hold what was written, and a merge carries it over.               *)
DataInv ==
    /\ \A f \in files \cup outputs \cup garbage : \A k \in Key :
         f.data[k] \in written[k] \cup {NotFound}
    /\ compacter \in Busy => \A k \in Key : Carries(k)

(* There is no file at first.                                              *)
LEMMA DataInit == Init => DataInv
BY DEF Init, DataInv, Busy

(* The inputs of a merge have ids of their own.                            *)
LEMMA InputsRanked ==
    ASSUME TypeInv
    PROVE  Ranked(inputs, file_id)
<1>1. inputs \in SUBSET (LiveFiles \cup garbage)
  BY DEF TypeInv, LiveFiles
<1>2. QED BY <1>1, TypeRanked

(* What the inputs have for a key was written.                             *)
LEMMA InputsWritten ==
    ASSUME TypeInv, DataInv, NEW k \in Key
    PROVE  Merged(inputs)[k] \in written[k] \cup {NotFound}
<1>1. inputs \subseteq files
  BY DEF TypeInv
<1>2. \A f \in inputs : f.data[k] \in written[k] \cup {NotFound}
  BY <1>1 DEF DataInv
<1>3. Ranked(inputs, file_id)
  BY InputsRanked
<1>4. \/ Merged(inputs)[k] = NotFound
      \/ \E n \in inputs : Merged(inputs)[k] = n.data[k]
  BY <1>3, MergedFrom
<1>5. QED BY <1>2, <1>4

(* Compact has the whole merge in memory.                                  *)
LEMMA CompactCarries ==
    ASSUME DiskInv, Compact, NEW k \in Key
    PROVE  Carries(k)'
<1>1. outputs' = {} /\ compacter' \in {"TrivialMove", "NWayCompaction"}
  BY DEF Compact, DiskInv, Busy
<1>2. compacter' = "NWayCompaction" => rest' = DropTombs(Merged(inputs'))
  BY DEF Compact
<1>3. PICK v : v = Merged(inputs')[k]
  OBVIOUS
<1>4. compacter' = "NWayCompaction" => rest'[k] = IF v = Tomb THEN NotFound ELSE v
  BY <1>2, <1>3 DEF DropTombs
<1>5. QED BY <1>1, <1>3, <1>4 DEF Carries

(* The copy that TrivialMove makes has every entry of its file.            *)
LEMMA TrivialMoveCarries ==
    ASSUME TypeInv, DiskInv, TrivialMove, NEW k \in Key
    PROVE  Carries(k)'
<1>1. PICK f \in files : inputs = {f} /\ outputs = {}
  BY DEF DiskInv, TrivialMove
<1>2. PICK new : Writes(new) /\ new.data = f.data
  BY <1>1, TrivialMoveWrites
<1>3. outputs' = {new} /\ inputs' = inputs /\ compacter' = "UpdateMapAfterCompaction"
  BY <1>1, <1>2 DEF Writes, TrivialMove
<1>4. Merged(inputs)[k] = f.data[k]
  BY <1>1, InputsRanked, MergedFrom
<1>5. QED BY <1>2, <1>3, <1>4 DEF Carries

(* A file that is cut off takes entries from the rest.                     *)
LEMMA FlushCompactedCarries ==
    ASSUME TypeInv, FlushCompactedFile, NEW k \in Key, Carries(k)
    PROVE  Carries(k)'
<1>1. PICK new : /\ Writes(new)
                 /\ \/ new.data[k] = rest[k] /\ rest'[k] = NotFound
                    \/ new.data[k] = NotFound /\ rest'[k] = rest[k]
  BY FlushCompactedWrites
<1>2. /\ outputs' = outputs \cup {new} /\ inputs' = inputs
      /\ compacter = "NWayCompaction" /\ compacter' = compacter
  BY <1>1 DEF Writes, FlushCompactedFile
<1>3. PICK v : v = Merged(inputs)[k]
  OBVIOUS
<1>4. /\ \A o \in outputs : o.data[k] \in {v, NotFound}
      /\ rest[k] \in {v, NotFound}
      /\ v \notin {Tomb, NotFound} => rest[k] = v \/ \E o \in outputs : o.data[k] = v
  BY <1>2, <1>3 DEF Carries
<1>5. QED BY <1>1, <1>2, <1>3, <1>4 DEF Carries

(* A merge ends when the rest is empty.                                    *)
LEMMA EndCarries ==
    ASSUME EndNWayCompaction, NEW k \in Key, Carries(k)
    PROVE  Carries(k)'
<1>1. /\ UNCHANGED <<inputs, rest, outputs>> /\ rest[k] = NotFound
      /\ compacter = "NWayCompaction" /\ compacter' = "UpdateMapAfterCompaction"
  BY DEF EndNWayCompaction, MergeEnds, EmptyBuffer
<1>2. QED BY <1>1 DEF Carries

(* Every step carries the entries on.                                      *)
LEMMA CarriesNext ==
    ASSUME TypeInv, DiskInv, compacter \in Busy => \A k \in Key : Carries(k), [Next]_vars
    PROVE  compacter' \in Busy => \A k \in Key : Carries(k)'
<1>1. CASE compacter' \notin Busy
  BY <1>1
<1>2. CASE UNCHANGED <<compacter, inputs, rest, outputs>>
  BY <1>2 DEF Carries
<1>3. CASE Compact
  BY <1>3, CompactCarries
<1>4. CASE TrivialMove
  BY <1>4, TrivialMoveCarries
<1>5. CASE FlushCompactedFile
  BY <1>5, FlushCompactedCarries DEF FlushCompactedFile, Busy
<1>6. CASE EndNWayCompaction
  BY <1>6, EndCarries DEF EndNWayCompaction, Busy
<1>7. QED
  BY <1>1, <1>2, <1>3, <1>4, <1>5, <1>6 DEF Next, Compacter, vars, compactVars, Busy, Flush,
     AddFile, Wake, Return, UpdateMapAfterCompaction, DeleteFile, CompactAgain

(* The entries of the files were written.                                  *)
LEMMA WrittenNext ==
    ASSUME TypeInv, DiskInv, DataInv, [Next]_vars
    PROVE  \A f \in files' \cup outputs' \cup garbage' : \A k \in Key :
             f.data[k] \in written'[k] \cup {NotFound}
<1> DEFINE Holds(f) == \A k \in Key : f.data[k] \in written[k] \cup {NotFound}
<1>1. \A f \in files \cup outputs \cup garbage : Holds(f)
  BY DEF DataInv
<1>2. CASE AddFile
  <2>1. /\ files' = files \cup {flushing} /\ UNCHANGED <<outputs, garbage>>
        /\ \A k \in Key : written'[k] = written[k] \cup ({flushing.data[k]} \ {NotFound})
    BY <1>2 DEF AddFile, compactVars
  <2>2. ASSUME NEW f \in files' \cup outputs' \cup garbage', NEW k \in Key
        PROVE  f.data[k] \in written'[k] \cup {NotFound}
    <3>1. CASE f = flushing
      BY <2>1, <3>1
    <3>2. CASE f \in files \cup outputs \cup garbage
      <4>1. f.data[k] \in written[k] \cup {NotFound}
        BY <1>1, <3>2
      <4>2. QED BY <2>1, <4>1
    <3>3. QED BY <2>1, <3>1, <3>2
  <2>3. QED BY <2>2
<1>3. CASE TrivialMove
  <2>1. PICK f \in files : inputs = {f} /\ outputs = {}
    BY <1>3 DEF DiskInv, TrivialMove
  <2>2. PICK new : Writes(new) /\ new.data = f.data
    BY <1>3, <2>1, TrivialMoveWrites
  <2>3. outputs' = {new} /\ UNCHANGED <<files, garbage, written>>
    BY <2>1, <2>2 DEF Writes, flushVars
  <2>4. QED BY <1>1, <2>2, <2>3
<1>4. CASE FlushCompactedFile
  <2>1. PICK new : /\ Writes(new)
                   /\ \A k \in Key : new.data[k] \in {rest[k], NotFound}
    BY <1>4, FlushCompactedWrites
  <2>2. outputs' = outputs \cup {new} /\ UNCHANGED <<files, garbage, written>>
    BY <2>1 DEF Writes, flushVars
  <2>3. \A k \in Key : rest[k] \in {Merged(inputs)[k], NotFound}
    BY <1>4 DEF DataInv, Carries, Busy, FlushCompactedFile
  <2>4. Holds(new)
    BY <2>1, <2>3, InputsWritten
  <2>5. QED BY <1>1, <2>2, <2>4
<1>5. CASE UpdateMapAfterCompaction
  <2>1. /\ files' \subseteq files \cup outputs /\ outputs' = {} /\ garbage' \subseteq files
        /\ written' = written
    BY <1>5 DEF UpdateMapAfterCompaction, Replaced, flushVars, TypeInv
  <2>2. QED BY <1>1, <2>1
<1>6. CASE DeleteFile
  <2>1. garbage' \subseteq garbage /\ UNCHANGED <<files, outputs, written>>
    BY <1>6 DEF DeleteFile, flushVars
  <2>2. QED BY <1>1, <2>1
<1>7. CASE UNCHANGED <<files, outputs, garbage, written>>
  BY <1>1, <1>7
<1>8. QED
  BY <1>2, <1>3, <1>4, <1>5, <1>6, <1>7 DEF Next, Compacter, vars, compactVars, flushVars, Flush,
     Wake, Return, Compact, EndNWayCompaction, CompactAgain

(* Both together.                                                          *)
LEMMA DataNext ==
    ASSUME TypeInv, DiskInv, DataInv, [Next]_vars
    PROVE  DataInv'
BY CarriesNext, WrittenNext DEF DataInv

-----------------------------------------------------------------------------
(* A file that is newer than all others hides their entries.               *)
LEMMA NewestOver ==
    ASSUME NEW F, NEW new, NEW b, Ranked(F \cup {new}, b), \A f \in F \cup {new} : Bounded(f),
           \A g \in F : Newer(new, g), NEW k \in Key
    PROVE  ViewOf(F \cup {new})[k] = IF new.data[k] # NotFound THEN new.data[k] ELSE ViewOf(F)[k]
<1> DEFINE G == F \cup {new}
<1>1. CASE new.data[k] # NotFound
  <2>1. Decides(new, G, k)
    BY <1>1 DEF Decides
  <2>2. QED BY <1>1, <2>1, ViewDecided
<1>2. CASE new.data[k] = NotFound
  <2>1. Ranked(F, b) /\ \A f \in F : Bounded(f)
    BY DEF Ranked
  <2>2. CASE ViewOf(F)[k] = NotFound /\ \A f \in F : f.data[k] = NotFound
    BY <1>2, <2>2, ViewNone
  <2>3. ASSUME NEW n \in F, Decides(n, F, k), ViewOf(F)[k] = n.data[k]
        PROVE  ViewOf(G)[k] = n.data[k]
    <3>1. Decides(n, G, k)
      BY <1>2, <2>3 DEF Decides
    <3>2. QED BY <3>1, ViewDecided
  <2>4. QED BY <1>2, <2>1, <2>2, <2>3, ViewFrom
<1>3. QED BY <1>1, <1>2

(* What a lookup finds is a value or nothing.                              *)
LEMMA ViewType ==
    ASSUME NEW F \in SUBSET File, NEW b, Ranked(F, b), \A f \in F : Bounded(f)
    PROVE  ViewOf(F) \in Buffer
<1>1. ASSUME NEW k \in Key PROVE ViewOf(F)[k] \in Result
  <2>1. CASE ViewOf(F)[k] = NotFound
    BY <2>1 DEF Result
  <2>2. ASSUME NEW n \in F, ViewOf(F)[k] = n.data[k] PROVE ViewOf(F)[k] \in Result
    <3>1. n.data \in [Key -> Result]
      BY DEF File, Buffer
    <3>2. QED BY <2>2, <3>1
  <2>3. QED BY <2>1, <2>2, ViewFrom
<1>2. PICK D : D = ViewOf(F) /\ D = [k \in Key |-> ViewOf(F)[k]]
  BY DEF ViewOf
<1>3. QED BY <1>1, <1>2 DEF Buffer

(* The installed files, before and after a step.                           *)
LEMMA FilesRanked ==
    ASSUME TypeInv
    PROVE  Ranked(files, file_id) /\ files \in SUBSET File /\ \A f \in files : Bounded(f)
<1>1. files \in SUBSET (LiveFiles \cup garbage)
  BY DEF LiveFiles
<1>2. QED BY <1>1, TypeRanked DEF TypeInv, TypeOK

(* After a step.                                                           *)
LEMMA FilesRankedNext ==
    ASSUME TypeInv'
    PROVE  Ranked(files', file_id') /\ files' \in SUBSET File /\ \A f \in files' : Bounded(f)
<1>1. (TypeInv => Ranked(files, file_id) /\ files \in SUBSET File /\ \A f \in files : Bounded(f))'
  BY FilesRanked, PTL
<1>2. QED BY <1>1

(* Installing a flushed file lays its entries over what a lookup found.    *)
LEMMA AddFileView ==
    ASSUME IdInv, TypeInv, TypeInv', AddFile
    PROVE  View' = Over(flushing.data, View)
<1>1. files' = files \cup {flushing} /\ flushing # NoFile /\ flushing.level = 0
  BY DEF AddFile, IdInv
<1>2. ASSUME NEW g \in files PROVE Newer(flushing, g)
  <2>1. g.level \in Nat /\ g.id \in Int /\ flushing.id \in Int
    BY <1>1 DEF IdInv, LiveFiles
  <2>2. g.level = 0 => g.id < flushing.id
    BY <1>1 DEF IdInv, IdsUnique, Level
  <2>3. QED BY <1>1, <2>1, <2>2 DEF Newer
<1>3. \A k \in Key : ViewOf(files')[k] = IF flushing.data[k] # NotFound THEN flushing.data[k]
                                                                       ELSE ViewOf(files)[k]
  <2>1. Ranked(files', file_id') /\ \A f \in files' : Bounded(f)
    BY FilesRankedNext
  <2>2. QED BY <1>1, <1>2, <2>1, NewestOver
<1>4. PICK D : D = ViewOf(files') /\ D = [k \in Key |-> ViewOf(files')[k]]
  BY DEF ViewOf
<1>5. QED BY <1>3, <1>4, ViewIs DEF Over

(* No other file of an output's level, once the inputs are gone, has a key *)
(* of the output.                                                          *)
LEMMA OutputsApart ==
    ASSUME TypeInv, LevelInv, compacter = "UpdateMapAfterCompaction", NEW k \in Key,
           NEW o \in outputs, NEW g \in (files \ inputs) \cup outputs, o # g,
           o.data[k] # NotFound, g.data[k] # NotFound
    PROVE  o.level = Head(todo) + 1 /\ g.level # Head(todo) + 1
<1>1. PICK lo, up : Merging(Head(todo), lo, up)
  BY DEF LevelInv, Busy
<1>2. /\ o.lower \in Int /\ o.upper \in Int /\ o.lower <= k /\ k <= o.upper
      /\ g.lower \in Int /\ g.upper \in Int /\ g.lower <= k /\ k <= g.upper
  <2>1. Bounded(o) /\ Bounded(g) /\ k \in KeysOf(o.data) /\ k \in KeysOf(g.data)
    BY DEF LevelInv, LiveFiles, KeysOf
  <2>2. QED BY <2>1, BoundedFacts
<1>3. k \in Int /\ lo \in Int /\ up \in Int
  BY <1>1, KeyAssumption DEF Merging
<1>4. o.level = Head(todo) + 1 /\ lo <= o.lower /\ o.upper <= up
  BY <1>1 DEF Merging
<1>5. g \notin outputs
  BY <1>1, <1>2, <1>3 DEF Merging, Apart
<1>6. g.level = Head(todo) + 1 => g.upper < lo \/ up < g.lower
  BY <1>1, <1>5 DEF Merging
<1>7. QED BY <1>2, <1>3, <1>4, <1>6

(* The file that decides a key survives the swap if it is not an input.    *)
LEMMA SwapOther ==
    ASSUME TypeInv, LevelInv, OrderInv, DataInv, UpdateMapAfterCompaction, NEW k \in Key,
           NEW n, Decides(n, files, k), n \notin inputs
    PROVE  Decides(n, files', k)
<1>1. /\ files' = (files \ inputs) \cup outputs
      /\ compacter = "UpdateMapAfterCompaction" /\ compacter \in Busy
  BY DEF UpdateMapAfterCompaction, Busy
<1>2. n \in files \ inputs /\ n.data[k] # NotFound
  BY DEF Decides
<1>3. ASSUME NEW o \in outputs, o.data[k] # NotFound, o # n
      PROVE  Newer(n, o)
  <2>1. Merged(inputs)[k] # NotFound
    BY <1>1, <1>3 DEF DataInv, Carries
  <2>2. PICK m \in inputs : m.data[k] # NotFound
    BY <2>1, MergedNone
  <2>3. m \in files /\ m # n /\ m.level \in {Head(todo), Head(todo) + 1}
    BY <1>1, <1>2 DEF TypeInv, OrderInv
  <2>4. Newer(n, m)
    BY <2>2, <2>3 DEF Decides
  <2>5. o.level = Head(todo) + 1 /\ n.level # Head(todo) + 1
    BY <1>1, <1>2, <1>3, OutputsApart
  <2>6. n.level \in Nat /\ Head(todo) \in Nat
    BY <1>1, <1>2 DEF TypeInv, TypeOK, File
  <2>7. QED BY <2>3, <2>4, <2>5, <2>6 DEF Newer
<1>4. QED BY <1>1, <1>2, <1>3 DEF Decides

(* If it is an input, an output has its entry, unless that is a tombstone. *)
LEMMA SwapInput ==
    ASSUME TypeInv, LevelInv, OrderInv, DataInv, UpdateMapAfterCompaction, NEW k \in Key,
           NEW n, Decides(n, files, k), n \in inputs, n.data[k] # Tomb
    PROVE  \E o \in files' : Decides(o, files', k) /\ o.data[k] = n.data[k]
<1>1. /\ files' = (files \ inputs) \cup outputs
      /\ compacter = "UpdateMapAfterCompaction" /\ compacter \in Busy
  BY DEF UpdateMapAfterCompaction, Busy
<1>2. n \in files /\ n.data[k] # NotFound /\ inputs \subseteq files
  BY DEF Decides, TypeInv
<1>3. Decides(n, inputs, k)
  BY <1>2 DEF Decides
<1>4. Merged(inputs)[k] = n.data[k]
  BY <1>3, InputsRanked, MergedDecided
<1>5. PICK o \in outputs : o.data[k] = n.data[k]
  BY <1>1, <1>2, <1>4 DEF DataInv, Carries
<1>6. ASSUME NEW g \in files', g.data[k] # NotFound, g # o
      PROVE  Newer(o, g)
  <2>1. o.level = Head(todo) + 1 /\ g.level # Head(todo) + 1
    BY <1>1, <1>2, <1>5, <1>6, OutputsApart
  <2>2. g \in files \ inputs
    BY <1>1, <1>6, <2>1 DEF OrderInv
  <2>3. Newer(n, g)
    BY <1>2, <1>6, <2>2 DEF Decides
  <2>4. n.level \in {Head(todo), Head(todo) + 1}
    BY <1>1 DEF OrderInv
  <2>5. /\ n.level \in Nat /\ g.level \in Nat /\ Head(todo) \in Nat
        /\ n.id \in Int /\ g.id \in Int
    BY <1>1, <1>2, <2>2 DEF TypeInv, TypeOK, File
  <2>6. ~ Apart(n, g) /\ ~ Apart(g, n)
    <3>1. Bounded(n) /\ Bounded(g)
      BY <1>2, <2>2 DEF TypeInv, LiveFiles
    <3>2. QED BY <1>2, <1>6, <3>1, Overlap
  <2>7. g.level # Head(todo)
    <3>1. SUFFICES ASSUME g.level = Head(todo) PROVE FALSE
      OBVIOUS
    <3>2. n.level = Head(todo) /\ g.id < n.id
      BY <2>3, <2>4, <2>5, <3>1 DEF Newer
    <3>3. CASE Head(todo) = 0
      BY <1>1, <2>2, <2>5, <2>6, <3>1, <3>2, <3>3 DEF OrderInv
    <3>4. CASE Head(todo) > 0
      <4>1. n # g
        BY <2>2
      <4>2. Apart(n, g)
        BY <1>2, <2>2, <3>1, <3>2, <3>4, <4>1 DEF LevelInv, LevelsDisjoint, Apart
      <4>3. QED BY <2>6, <4>2
    <3>5. QED BY <2>5, <3>3, <3>4
  <2>8. QED BY <2>1, <2>3, <2>4, <2>5, <2>7 DEF Newer
<1>7. QED BY <1>1, <1>2, <1>5, <1>6 DEF Decides

(* So the swap only ever forgets a tombstone.                              *)
LEMMA UpdateMapView ==
    ASSUME TypeInv, LevelInv, OrderInv, DataInv, TypeInv', DataInv',
           UpdateMapAfterCompaction, NEW k \in Key
    PROVE  \/ View'[k] = View[k]
           \/ View[k] = Tomb /\ View'[k] \in written[k] \cup {NotFound}
<1> USE ViewIs
<1>1. Ranked(files, file_id) /\ \A f \in files : Bounded(f)
  BY FilesRanked
<1>2. Ranked(files', file_id') /\ \A f \in files' : Bounded(f)
  BY FilesRankedNext
<1>3. written' = written /\ files' = (files \ inputs) \cup outputs
  BY DEF UpdateMapAfterCompaction, flushVars
<1>4. View'[k] \in written[k] \cup {NotFound}
  <2>1. \A f \in files' : f.data[k] \in written[k] \cup {NotFound}
    BY <1>3 DEF DataInv
  <2>2. QED BY <1>2, <2>1, ViewFrom
<1>5. CASE View[k] = NotFound /\ \A f \in files : f.data[k] = NotFound
  <2>1. Merged(inputs)[k] = NotFound
    BY <1>5, MergedNone DEF TypeInv
  <2>2. \A o \in outputs : o.data[k] = NotFound
    BY <2>1 DEF DataInv, Carries, UpdateMapAfterCompaction, Busy
  <2>3. \A f \in files' : f.data[k] = NotFound
    BY <1>3, <1>5, <2>2
  <2>4. QED BY <1>5, <2>3, ViewNone
<1>6. ASSUME NEW n \in files, Decides(n, files, k), View[k] = n.data[k]
      PROVE  \/ View'[k] = View[k]
             \/ View[k] = Tomb /\ View'[k] \in written[k] \cup {NotFound}
  <2>1. CASE n \notin inputs
    BY <1>2, <1>6, <2>1, SwapOther, ViewDecided
  <2>2. CASE n \in inputs /\ n.data[k] # Tomb
    <3>1. PICK o \in files' : Decides(o, files', k) /\ o.data[k] = n.data[k]
      BY <1>6, <2>2, SwapInput
    <3>2. View'[k] = o.data[k]
      BY <1>2, <3>1, ViewDecided
    <3>3. QED BY <1>6, <3>1, <3>2
  <2>3. CASE n.data[k] = Tomb
    BY <1>4, <1>6, <2>3
  <2>4. QED BY <2>1, <2>2, <2>3
<1>7. QED BY <1>1, <1>5, <1>6, ViewFrom

(* What the refinement needs.                                              *)
StoreInv == IdInv /\ LevelInv /\ TypeInv /\ DiskInv /\ OrderInv /\ DataInv

(* It is inductive.                                                        *)
LEMMA StoreNext == StoreInv /\ [Next]_vars => StoreInv'
BY IdNext, LevelNext, DiskNext, OrderNext, DataNext DEF StoreInv

(* AddFile is an update by the entries of the file.                        *)
LEMMA AddFileRefines ==
    ASSUME StoreInv, StoreInv', AddFile
    PROVE  Abstract!Next
<1>1. /\ flushing # NoFile /\ flushing' = NoFile /\ flushes' = flushes /\ flushes \in Int
      /\ flushing \in File
  <2>1. flushing \in File \cup {NoFile} /\ flushes \in 0 .. MaxFlushes
    BY DEF StoreInv, TypeInv, TypeOK
  <2>2. QED BY <2>1 DEF AddFile
<1>2. flushing.data \in Buffer
  BY <1>1 DEF File
<1>3. View' = Abstract!Over(flushing.data, View)
  BY AddFileView DEF StoreInv, Over, Abstract!Over
<1>4. written' = Abstract!Written(flushing.data)
  BY DEF AddFile, Abstract!Written
<1>5. Installed' = Installed + 1
  BY <1>1 DEF Installed
<1>6. Abstract!Update(flushing.data)
  BY <1>3, <1>4, <1>5 DEF Abstract!Update
<1>7. QED BY <1>2, <1>6 DEF Abstract!Next, Abstract!Buffer, Abstract!Result, Buffer, Result

(* The swap at the end of a compaction forgets tombstones.                 *)
LEMMA UpdateMapRefines ==
    ASSUME StoreInv, StoreInv', UpdateMapAfterCompaction
    PROVE  Abstract!Next
<1>1. UNCHANGED <<flushing, written, flushes>>
  BY DEF UpdateMapAfterCompaction, flushVars
<1>2. View' \in Buffer
  <2>1. TypeInv'
    BY DEF StoreInv
  <2>2. Ranked(files', file_id') /\ files' \in SUBSET File /\ \A f \in files' : Bounded(f)
    BY <2>1, FilesRankedNext
  <2>3. QED BY <2>2, ViewIs, ViewType
<1>3. \A k \in Key : \/ View'[k] = View[k]
                     \/ View[k] = Tomb /\ View'[k] \in written[k] \cup {NotFound}
  BY UpdateMapView DEF StoreInv
<1>4. View' \in Abstract!Forgetting(View, written)
  BY <1>2, <1>3 DEF Abstract!Forgetting, Abstract!Buffer, Abstract!Result, Buffer, Result
<1>5. Installed' = Installed
  BY <1>1 DEF Installed
<1>6. QED BY <1>1, <1>4, <1>5 DEF Abstract!Next, Abstract!Forget

(* A file that is being flushed does not count as installed.               *)
LEMMA FlushRefines ==
    ASSUME StoreInv, StoreInv', NEW data \in FlushData, Flush(data)
    PROVE  UNCHANGED <<View, written, Installed>>
<1>1. /\ flushing = NoFile /\ flushes' = flushes + 1 /\ flushes \in Int
      /\ UNCHANGED <<files, written>>
  <2>1. flushes \in 0 .. MaxFlushes
    BY DEF StoreInv, TypeInv, TypeOK
  <2>2. QED BY <2>1 DEF Flush
<1>2. flushing' # NoFile
  <2>1. NextId \in Nat
    BY DEF StoreInv, TypeInv, TypeOK, NextId
  <2>2. NewFile(0, NextId, data) \in File
    BY <2>1, EngineAssumption, NotEmpty, NewFileType
  <2>3. QED BY <2>2, NoFileAssumption DEF Flush
<1>3. QED BY <1>1, <1>2, ViewIs DEF Installed

(* A step of the two threads is an update, forgets tombstones, or is       *)
(* invisible.                                                              *)
LEMMA EngineStepRefines ==
    StoreInv /\ [Next]_vars => [Abstract!Next]_<<View, written, Installed>>
<1> SUFFICES ASSUME StoreInv, [Next]_vars
             PROVE  Abstract!Next \/ UNCHANGED <<View, written, Installed>>
  OBVIOUS
<1>1. StoreInv'
  BY StoreNext
<1>2. CASE UNCHANGED <<files, written, flushing, flushes>>
  BY <1>2, ViewIs DEF Installed
<1>3. QED
  BY <1>1, <1>2, AddFileRefines, UpdateMapRefines, FlushRefines DEF Next, Compacter, vars,
     flushVars, Wake, Return, Compact, TrivialMove, FlushCompactedFile, EndNWayCompaction,
     DeleteFile, CompactAgain

(* The engine implements the abstract store, where one update is one       *)
(* installed file: whatever is flushed and compacted in whatever order, a  *)
(* lookup keeps finding the newest entry of each key, except that a        *)
(* compaction may forget that a key was deleted.                           *)
THEOREM EngineRefines == Spec => ImplementsAbstractStore
<1>1. Init => StoreInv
  BY IdInit, LevelInit, TypeInit, DiskInit, OrderInit, DataInit DEF StoreInv
<1>2. Init => Abstract!Init
  <2>1. SUFFICES ASSUME Init PROVE Abstract!Init
    OBVIOUS
  <2>2. files = {} /\ flushing = NoFile /\ flushes = 0 /\ written = [k \in Key |-> {}]
    BY <2>1 DEF Init
  <2>3. \A k \in Key : ViewOf(files)[k] = NotFound
    BY <2>2, ViewNone
  <2>4. PICK D : D = ViewOf(files) /\ D = [k \in Key |-> ViewOf(files)[k]]
    BY DEF ViewOf
  <2>5. View = EmptyBuffer
    BY <2>3, <2>4, ViewIs DEF EmptyBuffer
  <2>6. QED BY <2>2, <2>5 DEF Abstract!Init, Abstract!EmptyBuffer, EmptyBuffer, Installed
<1>3. QED
  BY <1>1, <1>2, StoreNext, EngineStepRefines, PTL
  DEF Spec, ImplementsAbstractStore, Abstract!Spec

-----------------------------------------------------------------------------
(* A step with restarts is a restart or a step of the threads.             *)
LEMMA RecoverySteps ==
    ASSUME [RecoveryNext]_recoveryVars
    PROVE  Restart \/ ([Next]_vars /\ restarts' = restarts)
BY DEF RecoveryNext, recoveryVars

(* The files that a restart finds.                                         *)
LEMMA FoundFiles ==
    ASSUME TypeInv, DiskInv
    PROVE  /\ disk \subseteq LiveFiles \cup garbage
           /\ flushing # NoFile => flushing \in disk
           /\ \A f \in files : f \in disk \/ \E o \in outputs : o \in disk /\ o.data = f.data
<1>1. CASE disk = LiveFiles \cup garbage
  BY <1>1 DEF LiveFiles
<1>2. CASE Moved
  <2>1. PICK f \in inputs, o \in outputs :
          inputs = {f} /\ outputs = {o} /\ o.data = f.data /\ disk = LiveFiles \ {f}
    BY <1>2 DEF Moved
  <2>2. f \in files /\ f # o /\ f # flushing
    BY DEF TypeInv, DiskInv
  <2>3. o \in disk
    BY <2>1, <2>2 DEF LiveFiles
  <2>4. \A g \in files : g = f \/ g \in disk
    BY <2>1 DEF LiveFiles
  <2>5. QED BY <2>1, <2>2, <2>3, <2>4 DEF LiveFiles
<1>3. QED BY <1>1, <1>2 DEF DiskInv

(* The counter starts at the greatest id in the folder.                    *)
LEMMA LastIdFacts ==
    ASSUME TypeInv, DiskInv
    PROVE  LastId \in Nat \cup {-1} /\ \A f \in disk : f.id <= LastId
<1> DEFINE ids == {f.id : f \in disk}
<1>1. \A f \in disk : f.id \in Nat /\ f.id <= file_id
  BY FoundFiles DEF TypeInv, TypeOK, File
<1>2. file_id \in Int
  BY DEF TypeInv, TypeOK
<1>3. CASE disk = {}
  BY <1>3 DEF LastId
<1>4. CASE disk # {}
  <2>1. ids \in SUBSET Int /\ ids # {} /\ (\A x \in ids : x <= file_id) /\ ids \subseteq Nat
    BY <1>1, <1>4
  <2>2. LastId = Greatest(ids)
    BY <1>4 DEF LastId
  <2>3. Greatest(ids) \in ids /\ \A x \in ids : x <= Greatest(ids)
    <3> HIDE DEF ids
    <3>1. PICK x \in ids : \A y \in ids : y <= x
      BY <1>2, <2>1, GreatestInteger
    <3>2. QED BY <3>1 DEF Greatest
  <2>4. QED BY <2>1, <2>2, <2>3
<1>5. QED BY <1>3, <1>4

(* The constructor starts from well-formed files.                          *)
LEMMA RestartStore ==
    ASSUME TypeInv, DiskInv, Restart
    PROVE  IdInv' /\ TypeInv' /\ DiskInv' /\ OrderInv'
<1>1. /\ files' = disk /\ disk' = disk /\ file_id' = LastId /\ flushing' = NoFile
      /\ compacter' = "Compact" /\ todo' = <<>> /\ inputs' = {} /\ rest' = EmptyBuffer
      /\ outputs' = {} /\ garbage' = {} /\ flushes' = flushes
      /\ written' = [k \in Key |-> written[k] \cup ({Flushed[k]} \ {NotFound})]
  BY DEF Restart
<1>2. LiveFiles' = disk
  BY <1>1 DEF LiveFiles
<1>3. disk \subseteq File /\ \A f \in disk : f.level \in Nat /\ f.id \in Nat
  BY DEF TypeInv, TypeOK, File
<1>4. \A f \in disk : Bounded(f)
  BY FoundFiles DEF TypeInv
<1>5. \A f, g \in disk : f.id = g.id => f = g
  BY FoundFiles DEF TypeInv
<1>6. LastId \in Nat \cup {-1} /\ \A f \in disk : f.id <= LastId
  BY LastIdFacts
<1>7. IdInv'
  BY <1>1, <1>2, <1>3, <1>5, <1>6 DEF IdInv, IdsUnique
<1>8. written' \in [Key -> SUBSET Value]
  <2>1. Flushed \in [Key -> Result]
    BY DEF Flushed, TypeInv, TypeOK, File, Buffer, EmptyBuffer, Result
  <2>2. \A k \in Key : written[k] \cup ({Flushed[k]} \ {NotFound}) \in SUBSET Value
    BY <2>1 DEF Result, TypeInv, TypeOK
  <2>3. QED BY <1>1, <2>2
<1>9. EmptyBuffer \in Buffer
  BY DEF EmptyBuffer, Buffer, Result
<1>10. TypeOK'
  BY <1>1, <1>3, <1>6, <1>8, <1>9 DEF TypeOK, TypeInv
<1>11. TypeInv'
  BY <1>1, <1>2, <1>4, <1>5, <1>6, <1>10 DEF TypeInv
<1>12. NoFile \notin disk
  BY <1>3, NoFileAssumption
<1>13. QED
  BY <1>1, <1>2, <1>7, <1>11, <1>12 DEF DiskInv, OrderInv, Busy

(* What it finds was written.                                              *)
LEMMA RestartData ==
    ASSUME TypeInv, DiskInv, DataInv, Restart
    PROVE  DataInv'
<1>1. /\ files' = disk /\ compacter' = "Compact" /\ outputs' = {} /\ garbage' = {}
      /\ \A k \in Key : written'[k] = written[k] \cup ({Flushed[k]} \ {NotFound})
  BY DEF Restart
<1>2. ASSUME NEW f \in disk, NEW k \in Key
      PROVE  f.data[k] \in written'[k] \cup {NotFound}
  <2>1. CASE f \in files \cup outputs \cup garbage
    BY <1>1, <2>1 DEF DataInv
  <2>2. CASE f = flushing /\ flushing # NoFile
    BY <1>1, <2>2 DEF Flushed
  <2>3. QED BY <2>1, <2>2, FoundFiles DEF LiveFiles
<1>3. QED BY <1>1, <1>2 DEF DataInv, Busy

(* A key that was put and never deleted is in some file.                   *)
FoundInv ==
    \A k \in Key : written[k] # {} /\ Tomb \notin written[k] =>
        \E f \in files : f.data[k] # NotFound

(* A compaction does not lose the last entry of such a key.                *)
LEMMA FoundNext ==
    ASSUME TypeInv, DataInv, FoundInv, [Next]_vars
    PROVE  FoundInv'
<1>1. CASE AddFile
  <2>1. /\ files' = files \cup {flushing}
        /\ \A k \in Key : written'[k] = written[k] \cup ({flushing.data[k]} \ {NotFound})
    BY <1>1 DEF AddFile
  <2>2. QED BY <2>1 DEF FoundInv
<1>2. CASE UpdateMapAfterCompaction
  <2>1. /\ files' = (files \ inputs) \cup outputs /\ written' = written
        /\ compacter = "UpdateMapAfterCompaction" /\ compacter \in Busy
    BY <1>2 DEF UpdateMapAfterCompaction, flushVars, Busy
  <2>2. SUFFICES ASSUME NEW k \in Key, written[k] # {}, Tomb \notin written[k]
        PROVE  \E f \in files' : f.data[k] # NotFound
    BY <2>1 DEF FoundInv
  <2>3. PICK f \in files : f.data[k] # NotFound
    BY <2>2 DEF FoundInv
  <2>4. CASE f \notin inputs
    BY <2>1, <2>3, <2>4
  <2>5. CASE f \in inputs
    <3>1. PICK n \in inputs : Merged(inputs)[k] = n.data[k] /\ n.data[k] # NotFound
      BY <2>3, <2>5, InputsRanked, MergedFrom DEF Decides
    <3>2. Merged(inputs)[k] \notin {Tomb, NotFound}
      BY <2>2, <3>1, InputsWritten
    <3>3. PICK o \in outputs : o.data[k] = Merged(inputs)[k]
      BY <2>1, <3>2 DEF DataInv, Carries
    <3>4. QED BY <2>1, <3>2, <3>3
  <2>6. QED BY <2>4, <2>5
<1>3. CASE UNCHANGED <<files, written>>
  BY <1>3 DEF FoundInv
<1>4. QED
  BY <1>1, <1>2, <1>3 DEF Next, Compacter, vars, flushVars, Flush, Wake, Return, Compact,
     TrivialMove, FlushCompactedFile, EndNWayCompaction, DeleteFile, CompactAgain

(* Neither does a restart.                                                 *)
LEMMA FoundRestart ==
    ASSUME TypeInv, DiskInv, FoundInv, Restart
    PROVE  FoundInv'
<1>1. /\ files' = disk
      /\ \A k \in Key : written'[k] = written[k] \cup ({Flushed[k]} \ {NotFound})
  BY DEF Restart
<1>2. SUFFICES ASSUME NEW k \in Key, written'[k] # {}, Tomb \notin written'[k]
      PROVE  \E f \in disk : f.data[k] # NotFound
  BY <1>1 DEF FoundInv
<1>3. CASE written[k] # {}
  <2>1. PICK f \in files : f.data[k] # NotFound
    BY <1>1, <1>2, <1>3 DEF FoundInv
  <2>2. QED BY <2>1, FoundFiles
<1>4. CASE written[k] = {}
  <2>1. Flushed[k] # NotFound
    BY <1>1, <1>2, <1>4
  <2>2. flushing # NoFile /\ flushing.data[k] # NotFound
    BY <2>1 DEF Flushed, EmptyBuffer
  <2>3. QED BY <2>2, FoundFiles
<1>5. QED BY <1>3, <1>4

(* What holds over restarts: not that the files of a level are disjoint.   *)
RecoveryInv == IdInv /\ TypeInv /\ DiskInv /\ OrderInv /\ DataInv /\ FoundInv

(* It is inductive.                                                        *)
LEMMA RecoveryHolds == RecoverySpec => []RecoveryInv
<1>1. RecoveryInit => RecoveryInv
  BY IdInit, TypeInit, DiskInit, OrderInit, DataInit
  DEF RecoveryInit, RecoveryInv, FoundInv, Init
<1>2. RecoveryInv /\ [RecoveryNext]_recoveryVars => RecoveryInv'
  <2>1. ASSUME RecoveryInv, Restart PROVE RecoveryInv'
    BY <2>1, RestartStore, RestartData, FoundRestart DEF RecoveryInv
  <2>2. ASSUME RecoveryInv, [Next]_vars PROVE RecoveryInv'
    BY <2>2, IdNext, DiskNext, OrderNext, DataNext, FoundNext DEF RecoveryInv
  <2>3. QED BY <2>1, <2>2, RecoverySteps
<1>3. QED BY <1>1, <1>2, PTL DEF RecoverySpec

(* Ids stay unique over restarts: the counter is recovered from the names  *)
(* of the files in the folder, replaced ones included.                     *)
THEOREM IdsUniqueOverRestarts == RecoverySpec => []IdsUnique
<1>1. RecoveryInv => IdsUnique
  BY DEF RecoveryInv, IdInv
<1>2. QED BY <1>1, RecoveryHolds, PTL

(* So does the data folder stay complete.                                  *)
THEOREM DiskCompleteOverRestarts == RecoverySpec => []DiskComplete
<1>1. RecoveryInv => DiskComplete
  BY DiskFacts DEF RecoveryInv
<1>2. QED BY <1>1, RecoveryHolds, PTL

(* Over any number of restarts at any points, and compactions of whatever  *)
(* they leave behind, a key that was put and never deleted is found, with  *)
(* a value that was put for it.                                            *)
THEOREM NeverDeletedStaysFound == RecoverySpec => []NeverDeletedIsFound
<1>1. ASSUME RecoveryInv PROVE NeverDeletedIsFound
  <2>1. SUFFICES ASSUME NEW k \in Key, written[k] # {}, Tomb \notin written[k]
        PROVE  View[k] \in written[k]
    BY DEF NeverDeletedIsFound
  <2>2. TypeInv /\ DataInv /\ FoundInv
    BY <1>1 DEF RecoveryInv
  <2>3. \E f \in files : f.data[k] # NotFound
    BY <2>1, <2>2 DEF FoundInv
  <2>4. Ranked(files, file_id) /\ \A f \in files : Bounded(f)
    BY <2>2, FilesRanked
  <2>5. PICK n \in files : Decides(n, files, k) /\ ViewOf(files)[k] = n.data[k]
    BY <2>3, <2>4, ViewFrom
  <2>6. n.data[k] # NotFound /\ n.data[k] \in written[k] \cup {NotFound}
    BY <2>2, <2>5 DEF Decides, DataInv
  <2>7. QED BY <2>5, <2>6, ViewIs
<1>2. QED BY <1>1, RecoveryHolds, PTL

(* The file being flushed decides its keys when a restart installs it.     *)
LEMMA FlushedDecides ==
    ASSUME IdInv, TypeInv, DiskInv, garbage = {}, flushing # NoFile, NEW k \in Key,
           flushing.data[k] # NotFound
    PROVE  Decides(flushing, disk, k)
<1>1. disk \subseteq LiveFiles /\ flushing \in disk
  BY FoundFiles
<1>2. ASSUME NEW g \in disk, g # flushing PROVE Newer(flushing, g)
  <2>1. g \in files \cup outputs /\ flushing.level = 0
    BY <1>1, <1>2 DEF LiveFiles, IdInv
  <2>2. /\ g.level \in Nat /\ g.id \in Int /\ flushing.id \in Int
        /\ g \in outputs => g.level # 0
    BY <1>1, <2>1 DEF IdInv, LiveFiles
  <2>3. g \in files /\ g.level = 0 => g.id < flushing.id
    BY DEF IdInv, IdsUnique, Level
  <2>4. QED BY <2>1, <2>2, <2>3 DEF Newer
<1>3. QED BY <1>1, <1>2 DEF Decides

(* An output that decides a key on disk has the value that was found.      *)
LEMMA OutputAgrees ==
    ASSUME TypeInv, DiskInv, OrderInv, DataInv, LevelsDisjoint, NEW k \in Key,
           NEW n, Decides(n, files, k), NEW w \in outputs, Decides(w, disk, k)
    PROVE  w.data[k] = n.data[k]
<1>1. compacter \in Busy
  BY DEF DiskInv
<1>2. w.data[k] # NotFound /\ w.data[k] = Merged(inputs)[k] /\ w.level = Head(todo) + 1
  BY <1>1 DEF Decides, DataInv, Carries, OrderInv
<1>3. CASE n \in inputs
  <2>1. Decides(n, inputs, k)
    BY <1>3 DEF Decides, TypeInv
  <2>2. QED BY <1>2, <2>1, InputsRanked, MergedDecided
<1>4. CASE n \notin inputs
  <2>1. PICK m \in inputs : m.data[k] # NotFound
    BY <1>2, MergedNone
  <2>2. n \in files /\ m \in files /\ n # m /\ n.data[k] # NotFound /\ w # n
    BY <1>4, <2>1 DEF Decides, TypeInv, DiskInv
  <2>3. Newer(n, m)
    BY <2>1, <2>2 DEF Decides
  <2>4. n \in disk
    BY <1>4, <2>2, DiskFacts DEF DiskComplete
  <2>5. Newer(w, n)
    BY <2>2, <2>4 DEF Decides
  <2>6. n.level \in Nat /\ m.level \in Nat /\ Head(todo) \in Nat
    BY <1>1, <2>2 DEF TypeInv, TypeOK, File, Busy
  <2>7. m.level \in {Head(todo), Head(todo) + 1}
    BY <1>1 DEF OrderInv
  <2>8. n.level = m.level /\ n.level > 0
    <3>1. w.level <= n.level /\ n.level <= m.level
      BY <1>2, <2>3, <2>5, <2>6 DEF Newer
    <3>2. QED BY <1>2, <2>6, <2>7, <3>1
  <2>9. Apart(n, m)
    BY <2>2, <2>8 DEF LevelsDisjoint, Apart
  <2>10. QED BY <2>1, <2>2, <2>9, Overlap DEF TypeInv, LiveFiles
<1>5. QED BY <1>3, <1>4

(* The fields of an installed file.                                        *)
LEMMA InstalledFields ==
    ASSUME TypeInv, NEW f \in files
    PROVE  f.level \in Nat /\ f.id \in Int /\ Bounded(f)
<1>1. f \in File
  BY DEF TypeInv, TypeOK
<1>2. Bounded(f)
  BY DEF TypeInv, LiveFiles
<1>3. QED BY <1>1, <1>2 DEF File

(* An installed file that decides a key on disk decided it before.         *)
LEMMA InstalledAgrees ==
    ASSUME TypeInv, DiskInv, OrderInv, LevelsDisjoint, garbage = {}, NEW k \in Key,
           NEW n, Decides(n, files, k), NEW w \in files, Decides(w, disk, k)
    PROVE  w.data[k] = n.data[k]
<1>1. n \in files /\ n.data[k] # NotFound /\ w.data[k] # NotFound
  BY DEF Decides
<1>2. /\ n.level \in Nat /\ w.level \in Nat /\ n.id \in Int /\ w.id \in Int
      /\ Bounded(n) /\ Bounded(w)
  BY <1>1, InstalledFields
<1>3. SUFFICES ASSUME w # n PROVE FALSE
  OBVIOUS
<1>4. Newer(n, w)
  BY <1>1, <1>3 DEF Decides
<1>5. ~ Apart(n, w)
  BY <1>1, <1>2, Overlap
<1>6. n \notin disk
  <2>1. SUFFICES ASSUME n \in disk PROVE FALSE
    OBVIOUS
  <2>2. Newer(w, n)
    BY <1>1, <1>3, <2>1 DEF Decides
  <2>3. QED BY <1>2, <1>4, <2>2 DEF Newer
<1>7. compacter = "UpdateMapAfterCompaction" /\ Moved
  BY <1>1, <1>6 DEF DiskInv, LiveFiles
<1>8. PICK f \in inputs, o \in outputs :
        /\ inputs = {f} /\ outputs = {o} /\ o.data = f.data
        /\ o.level = f.level + 1 /\ disk = LiveFiles \ {f}
  BY <1>7 DEF Moved
<1>9. n = f /\ n \in inputs /\ w \in files \ inputs
  BY <1>1, <1>3, <1>6, <1>8 DEF LiveFiles
<1>10. o \in disk /\ o # w /\ o.data[k] # NotFound
  BY <1>1, <1>8, <1>9 DEF LiveFiles, DiskInv
<1>11. Newer(w, o)
  BY <1>10 DEF Decides
<1>12. o.level = Head(todo) + 1 /\ o.level = n.level + 1
  BY <1>7, <1>8, <1>9 DEF OrderInv, Busy
<1>13. Head(todo) \in Nat
  BY <1>7 DEF TypeInv, TypeOK
<1>14. n.level = Head(todo)
  BY <1>2, <1>12, <1>13
<1>15. /\ w.level = 0 /\ Head(todo) = 0 => n.id < w.id
       /\ w.level # Head(todo) + 1
  BY <1>5, <1>7, <1>9, <1>14 DEF OrderInv, Busy
<1>16. w.level = n.level /\ w.id < n.id
  BY <1>2, <1>4, <1>11, <1>12, <1>14, <1>15 DEF Newer
<1>17. n.level > 0
  BY <1>2, <1>14, <1>15, <1>16
<1>18. Apart(n, w)
  BY <1>1, <1>3, <1>16, <1>17 DEF LevelsDisjoint, Apart
<1>19. QED BY <1>5, <1>18

(* A restart at any point but during the deletion of the replaced files    *)
(* keeps every value, provided the files of each level are disjoint, as    *)
(* they are until a restart interrupts a compaction.                       *)
THEOREM RestartKeeps == RecoverySpec => RestartKeepsValues
<1>1. ASSUME RecoveryInv, [RecoveryNext]_recoveryVars, restarts' # restarts, garbage = {},
             LevelsDisjoint, NEW k \in Key, NEW before, before = Over(Flushed, View)[k],
             before \notin {Tomb, NotFound}
      PROVE  View'[k] = before
  <2>1. Restart /\ files' = disk
    BY <1>1, RecoverySteps DEF Restart
  <2>2. IdInv /\ TypeInv /\ DiskInv /\ OrderInv /\ DataInv
    BY <1>1 DEF RecoveryInv
  <2>3. Ranked(files', file_id') /\ \A f \in files' : Bounded(f)
    BY <2>1, <2>2, RestartStore, FilesRankedNext
  <2>4. before = IF Flushed[k] # NotFound THEN Flushed[k] ELSE View[k]
    BY <1>1 DEF Over
  <2>5. CASE Flushed[k] # NotFound
    <3>1. flushing # NoFile /\ flushing.data[k] = before
      BY <2>4, <2>5 DEF Flushed, EmptyBuffer
    <3>2. Decides(flushing, files', k)
      BY <1>1, <2>1, <2>2, <3>1, FlushedDecides
    <3>3. QED BY <2>3, <3>1, <3>2, ViewDecided, ViewIs
  <2>6. CASE Flushed[k] = NotFound
    <3>1. View[k] = before /\ before # NotFound
      BY <1>1, <2>4, <2>6
    <3>2. Ranked(files, file_id) /\ \A f \in files : Bounded(f)
      BY <2>2, FilesRanked
    <3>3. PICK n \in files : Decides(n, files, k) /\ n.data[k] = before
      BY <3>1, <3>2, ViewFrom, ViewIs
    <3>4. \E f \in disk : f.data[k] # NotFound
      BY <2>2, <3>1, <3>3, FoundFiles
    <3>5. PICK w \in disk : Decides(w, disk, k)
      BY <2>1, <2>3, <3>4, DeciderExists
    <3>6. w \in files \cup outputs
      <4>1. w.data[k] # NotFound /\ w \in LiveFiles
        BY <1>1, <2>2, <3>5, FoundFiles DEF Decides
      <4>2. CASE w = flushing /\ flushing # NoFile
        BY <2>6, <4>1, <4>2 DEF Flushed
      <4>3. QED BY <4>1, <4>2 DEF LiveFiles
    <3>7. w.data[k] = before
      BY <1>1, <2>2, <3>3, <3>5, <3>6, OutputAgrees, InstalledAgrees
    <3>8. QED BY <2>1, <2>3, <3>5, <3>7, ViewDecided, ViewIs
  <2>7. QED BY <2>5, <2>6
<1>2. RecoveryInv /\ [RecoveryNext]_recoveryVars =>
        [restarts' # restarts /\ garbage = {} /\ LevelsDisjoint =>
           \A k \in Key :
             LET before == Over(Flushed, View)[k]
             IN before \notin {Tomb, NotFound} => View'[k] = before]_recoveryVars
  BY <1>1
<1>3. QED BY <1>2, RecoveryHolds, PTL DEF RecoverySpec, RestartKeepsValues
=============================================================================
