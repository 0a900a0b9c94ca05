--------------------------- MODULE ReadPathProofs ---------------------------
(* The read path (ReadPath), for any number of lookup threads, keys, files *)
(* and any cache size.                                                     *)
EXTENDS ReadPath, EngineProofs

(* The inductive invariant.  The waiting threads must be known to be       *)
(* acquiring: otherwise a thread could be woken into a critical section.   *)
LockInv ==
    /\ IsFiniteSet(Threads)
    /\ Lock!TypeOK
    /\ Lock!Exclusion
    /\ Lock!NoLostWakeup
    /\ \A t \in waiting : pc[t] \in Lock!Acquiring

(* The lock counts with Cardinality of FiniteSets.                         *)
LEMMA LockCounts == \A S : Lock!Cardinality(S) = Cardinality(S)
BY DEF Lock!Cardinality, Lock!IsFiniteSet, Cardinality, IsFiniteSet

(* The set of readers is finite, so counting it is meaningful.             *)
LEMMA ReadersFinite ==
    ASSUME IsFiniteSet(Threads)
    PROVE  /\ IsFiniteSet(Lock!Readers)
           /\ Lock!Cardinality(Lock!Readers) \in Nat
           /\ Lock!Cardinality(Lock!Readers) <= Lock!Cardinality(Threads)
           /\ Lock!Cardinality(Lock!Readers) = 0 <=> Lock!Readers = {}
<1>1. Lock!Readers \subseteq Threads BY DEF Lock!Readers
<1>2. IsFiniteSet(Lock!Readers) /\ Lock!Cardinality(Lock!Readers) <= Lock!Cardinality(Threads)
  BY <1>1, FS_Subset, LockCounts
<1>3. QED
  BY <1>2, FS_CardinalityType, FS_EmptySet, LockCounts

(* The initial state satisfies the inductive invariant.                    *)
LEMMA LockInvInit ==
    ASSUME IsFiniteSet(Threads), Lock!Init
    PROVE  LockInv
<1>1. Lock!Readers = {} /\ Lock!Writers = {} /\ waiting = {} /\ stat = 0
  BY DEF Lock!Init, Lock!Readers, Lock!Writers
<1>2. Lock!Cardinality(Lock!Readers) = 0
  BY <1>1, FS_EmptySet, LockCounts
<1>3. Lock!Cardinality(Threads) \in Nat
  BY FS_CardinalityType, LockCounts
<1>4. Lock!TypeOK
  BY <1>1, <1>3 DEF Lock!Init, Lock!TypeOK, Lock!Acquiring, Lock!Holding
<1>5. QED
  BY <1>1, <1>2, <1>4 DEF LockInv, Lock!Exclusion, Lock!NoLostWakeup

(* Changing what one thread t does with the lock changes the set of        *)
(* readers by at most t, and its size accordingly.                         *)
LEMMA ReadersChange ==
    ASSUME IsFiniteSet(Threads), Lock!TypeOK, NEW t \in Threads, NEW l,
           pc' = [pc EXCEPT ![t] = l]
    PROVE  /\ Lock!Readers' = IF l = "reading" THEN Lock!Readers \cup {t} ELSE Lock!Readers \ {t}
           /\ Lock!Writers' = IF l = "writing" THEN Lock!Writers \cup {t} ELSE Lock!Writers \ {t}
           /\ l = "reading" /\ t \notin Lock!Readers
                => Lock!Cardinality(Lock!Readers') = Lock!Cardinality(Lock!Readers) + 1
           /\ l # "reading" /\ t \in Lock!Readers
                => Lock!Cardinality(Lock!Readers') = Lock!Cardinality(Lock!Readers) - 1
           /\ l # "reading" /\ t \notin Lock!Readers
                => /\ Lock!Readers' = Lock!Readers
                   /\ Lock!Cardinality(Lock!Readers') = Lock!Cardinality(Lock!Readers)
<1>1. Lock!Readers' = IF l = "reading" THEN Lock!Readers \cup {t} ELSE Lock!Readers \ {t}
  BY DEF Lock!TypeOK, Lock!Readers
<1>2. Lock!Writers' = IF l = "writing" THEN Lock!Writers \cup {t} ELSE Lock!Writers \ {t}
  BY DEF Lock!TypeOK, Lock!Writers
<1>3. CASE l = "reading" /\ t \notin Lock!Readers
  BY <1>1, <1>2, <1>3, ReadersFinite, FS_AddElement, LockCounts
<1>4. CASE l # "reading" /\ t \in Lock!Readers
  BY <1>1, <1>2, <1>4, ReadersFinite, FS_RemoveElement, LockCounts
<1>5. CASE l # "reading" /\ t \notin Lock!Readers
  <2>1. Lock!Readers' = Lock!Readers BY <1>1, <1>5
  <2>2. QED BY <1>1, <1>2, <1>5, <2>1
<1>6. CASE l = "reading" /\ t \in Lock!Readers
  BY <1>1, <1>2, <1>6
<1>7. QED
  BY <1>3, <1>4, <1>5, <1>6

(* The case of a thread that gives the lock back.                          *)
LEMMA IdleChange ==
    ASSUME IsFiniteSet(Threads), Lock!TypeOK, NEW t \in Threads, pc' = [pc EXCEPT ![t] = "idle"]
    PROVE  /\ Lock!Readers' = Lock!Readers \ {t} /\ Lock!Writers' = Lock!Writers \ {t}
           /\ t \in Lock!Readers
                 => Lock!Cardinality(Lock!Readers') = Lock!Cardinality(Lock!Readers) - 1
           /\ t \notin Lock!Readers => Lock!Readers' = Lock!Readers
<1>1. Lock!Readers' = Lock!Readers \ {t} /\ Lock!Writers' = Lock!Writers \ {t}
  BY DEF Lock!TypeOK, Lock!Readers, Lock!Writers
<1>2. t \in Lock!Readers => Lock!Cardinality(Lock!Readers') = Lock!Cardinality(Lock!Readers) - 1
  BY <1>1, ReadersFinite, FS_RemoveElement, LockCounts
<1>3. QED BY <1>1, <1>2

(* A thread that changes its place in the wait set, or starts a call,      *)
(* holds nothing before or after: exclusion is unaffected.                 *)
LEMMA CallLockInv ==
    ASSUME LockInv, NEW t \in Threads, Lock!Call(t)
    PROVE  LockInv'
<1> USE DEF LockInv
<1>1. PICK op \in Lock!Acquiring : pc' = [pc EXCEPT ![t] = op]
  BY DEF Lock!Call
<1>2. op \notin Lock!Holding /\ t \notin Lock!Readers /\ t \notin Lock!Writers /\ t \notin waiting
  BY DEF Lock!Call, Lock!Acquiring, Lock!Holding, Lock!Readers, Lock!Writers
<1>3. /\ Lock!Readers' = Lock!Readers /\ Lock!Writers' = Lock!Writers
      /\ Lock!Cardinality(Lock!Readers') = Lock!Cardinality(Lock!Readers)
  <2>1. op # "reading" /\ op # "writing"
    BY <1>2 DEF Lock!Holding
  <2>2. /\ Lock!Writers' = Lock!Writers \ {t} /\ Lock!Readers' = Lock!Readers
        /\ Lock!Cardinality(Lock!Readers') = Lock!Cardinality(Lock!Readers)
    BY <1>1, <1>2, <2>1, ReadersChange
  <2>3. QED BY <1>2, <2>2
<1>4. Lock!TypeOK'
  BY <1>1 DEF Lock!Call, Lock!TypeOK
<1>5. Lock!Exclusion'
  BY <1>3 DEF Lock!Call, Lock!Exclusion
<1>6. Lock!NoLostWakeup' /\ (\A u \in waiting : pc[u] \in Lock!Acquiring)'
  BY <1>1, <1>2 DEF Lock!Call, Lock!NoLostWakeup, Lock!TypeOK
<1>7. QED BY <1>4, <1>5, <1>6

(* ReadLock: taking the lock needs stat >= 0, that is, no writer.          *)
LEMMA ReadLockInv ==
    ASSUME LockInv, NEW t \in Threads, Lock!ReadLock(t)
    PROVE  LockInv'
<1> USE DEF LockInv
<1>1. t \notin Lock!Readers /\ t \notin Lock!Writers
  BY DEF Lock!ReadLock, Lock!Readers, Lock!Writers
<1>2. CASE Lock!CanRead /\ stat' = stat + 1 /\ pc' = [pc EXCEPT ![t] = "reading"]
           /\ UNCHANGED waiting
  <2>1. Lock!Writers = {} /\ stat = Lock!Cardinality(Lock!Readers)
    BY <1>2 DEF Lock!CanRead, Lock!Exclusion
  <2>2. /\ Lock!Readers' = Lock!Readers \cup {t}
        /\ Lock!Writers' = Lock!Writers \ {t}
        /\ Lock!Cardinality(Lock!Readers') = Lock!Cardinality(Lock!Readers) + 1
    BY <1>1, <1>2, ReadersChange
  <2>3. Lock!Exclusion'
    BY <1>2, <2>1, <2>2 DEF Lock!Exclusion
  <2>4. Lock!Readers' \subseteq Threads
    BY <2>2 DEF Lock!Readers
  <2>5. Lock!Cardinality(Lock!Readers') <= Lock!Cardinality(Threads)
    BY <2>4, FS_Subset, LockCounts
  <2>6. Lock!TypeOK'
    BY <1>2, <2>1, <2>2, <2>5, ReadersFinite, FS_CardinalityType, LockCounts
    DEF Lock!TypeOK, Lock!Holding
  <2>7. Lock!NoLostWakeup' /\ (\A u \in waiting : pc[u] \in Lock!Acquiring)'
    BY <1>2, <2>1, ReadersFinite
       DEF Lock!ReadLock, Lock!NoLostWakeup, Lock!TypeOK, Lock!CanRead, Lock!Acquiring
  <2>8. QED BY <2>3, <2>6, <2>7
<1>3. CASE ~Lock!CanRead /\ waiting' = waiting \cup {t} /\ UNCHANGED <<stat, pc>>
  <2>1. Lock!Readers' = Lock!Readers /\ Lock!Writers' = Lock!Writers
    BY <1>3 DEF Lock!Readers, Lock!Writers
  <2>2. QED
    BY <1>3, <2>1
       DEF Lock!ReadLock, Lock!TypeOK, Lock!Exclusion, Lock!NoLostWakeup, Lock!CanRead, Lock!Acquiring
<1>4. QED BY <1>2, <1>3 DEF Lock!ReadLock

(* ReadUnlock: only writers wait while there are readers, so the one that  *)
(* is woken when the last reader leaves is on its way to the lock.         *)
LEMMA ReadUnlockInv ==
    ASSUME LockInv, NEW t \in Threads, Lock!ReadUnlock(t)
    PROVE  LockInv'
<1> USE DEF LockInv
<1>1. t \in Lock!Readers /\ t \notin waiting
  BY DEF Lock!ReadUnlock, Lock!AfterRead, Lock!Readers, Lock!Acquiring
<1>2. Lock!Writers = {} /\ stat = Lock!Cardinality(Lock!Readers) /\ stat > 0
  BY <1>1, ReadersFinite DEF Lock!Exclusion
<1>3. /\ Lock!Readers' = Lock!Readers \ {t} /\ Lock!Writers' = Lock!Writers \ {t}
      /\ Lock!Cardinality(Lock!Readers') = Lock!Cardinality(Lock!Readers) - 1
  <2>1. pc' = [pc EXCEPT ![t] = "idle"]
    BY DEF Lock!ReadUnlock, Lock!AfterRead
  <2>2. QED BY <1>1, <2>1, IdleChange
<1>4. Lock!Exclusion'
  BY <1>2, <1>3 DEF Lock!ReadUnlock, Lock!AfterRead, Lock!Exclusion
<1>5. waiting' \subseteq waiting
  BY DEF Lock!ReadUnlock, Lock!AfterRead, Lock!NotifyOne
<1>6. Lock!TypeOK'
  BY <1>2, <1>5, FS_CardinalityType, LockCounts DEF Lock!ReadUnlock, Lock!AfterRead, Lock!TypeOK
<1>7. \A u \in waiting : u # t /\ pc'[u] = pc[u] /\ pc[u] = "WriteLock"
  BY <1>1, <1>2
     DEF Lock!ReadUnlock, Lock!AfterRead, Lock!TypeOK, Lock!NoLostWakeup, Lock!Acquiring
<1>8. stat' = 0 /\ waiting' # {} => \E u \in Threads \ waiting' : pc'[u] \in Lock!Acquiring
  <2> SUFFICES ASSUME stat' = 0, waiting' # {}
               PROVE  \E u \in Threads \ waiting' : pc'[u] \in Lock!Acquiring
    OBVIOUS
  <2>1. PICK u \in waiting : waiting' = waiting \ {u}
    BY <1>5 DEF Lock!ReadUnlock, Lock!AfterRead, Lock!NotifyOne
  <2>2. QED BY <1>7, <2>1 DEF Lock!TypeOK, Lock!Acquiring
<1>9. QED BY <1>4, <1>5, <1>6, <1>7, <1>8 DEF Lock!NoLostWakeup, Lock!Acquiring

(* WriteLock: taking the lock needs stat = 0, that is, nobody holds it.    *)
LEMMA WriteLockInv ==
    ASSUME LockInv, NEW t \in Threads, Lock!WriteLock(t)
    PROVE  LockInv'
<1> USE DEF LockInv
<1>1. t \notin Lock!Readers /\ t \notin Lock!Writers
  BY DEF Lock!WriteLock, Lock!Readers, Lock!Writers
<1>2. CASE Lock!CanWrite /\ stat' = stat - 1 /\ pc' = [pc EXCEPT ![t] = "writing"]
           /\ UNCHANGED waiting
  <2>1. Lock!Writers = {} /\ Lock!Readers = {}
    BY <1>2, ReadersFinite DEF Lock!CanWrite, Lock!Exclusion
  <2>2. Lock!Writers' = Lock!Writers \cup {t} /\ Lock!Readers' = Lock!Readers
    BY <1>1, <1>2, ReadersChange
  <2>3. Lock!Exclusion'
    BY <1>2, <2>1, <2>2 DEF Lock!CanWrite, Lock!Exclusion
  <2>4. Lock!TypeOK'
    BY <1>2, FS_CardinalityType, LockCounts DEF Lock!CanWrite, Lock!TypeOK, Lock!Holding
  <2>5. Lock!NoLostWakeup' /\ (\A u \in waiting : pc[u] \in Lock!Acquiring)'
    BY <1>2 DEF Lock!WriteLock, Lock!NoLostWakeup, Lock!TypeOK, Lock!CanWrite, Lock!Acquiring
  <2>6. QED BY <2>3, <2>4, <2>5
<1>3. CASE ~Lock!CanWrite /\ waiting' = waiting \cup {t} /\ UNCHANGED <<stat, pc>>
  <2>1. Lock!Readers' = Lock!Readers /\ Lock!Writers' = Lock!Writers
    BY <1>3 DEF Lock!Readers, Lock!Writers
  <2>2. QED
    BY <1>3, <2>1
       DEF Lock!WriteLock, Lock!TypeOK, Lock!Exclusion, Lock!NoLostWakeup, Lock!CanWrite, Lock!Acquiring
<1>4. QED BY <1>2, <1>3 DEF Lock!WriteLock

(* WriteUnlock empties the wait set.                                       *)
LEMMA WriteUnlockInv ==
    ASSUME LockInv, NEW t \in Threads, Lock!WriteUnlock(t)
    PROVE  LockInv'
<1> USE DEF LockInv
<1>1. t \in Lock!Writers /\ t \notin Lock!Readers
  BY DEF Lock!WriteUnlock, Lock!AfterWrite, Lock!Readers, Lock!Writers
<1>2. pc' = [pc EXCEPT ![t] = "idle"]
  BY DEF Lock!WriteUnlock, Lock!AfterWrite
<1>3. Lock!Writers' = Lock!Writers \ {t} /\ Lock!Readers' = Lock!Readers
  BY <1>1, <1>2, IdleChange
<1>4. Lock!Writers = {t} /\ Lock!Readers = {} /\ stat = -1
  BY <1>1 DEF Lock!Exclusion
<1>5. Lock!Exclusion'
  BY <1>3, <1>4, FS_EmptySet, LockCounts DEF Lock!WriteUnlock, Lock!AfterWrite, Lock!Exclusion
<1>6. Lock!TypeOK'
  BY <1>4, FS_CardinalityType, LockCounts DEF Lock!WriteUnlock, Lock!AfterWrite, Lock!TypeOK
<1>7. QED BY <1>5, <1>6 DEF Lock!WriteUnlock, Lock!AfterWrite, Lock!NoLostWakeup

(* A spurious wakeup only makes one more acquiring thread look at stat.    *)
LEMMA WakeupLockInv ==
    ASSUME LockInv, NEW t \in Threads, Lock!SpuriousWakeup(t)
    PROVE  LockInv'
<1>1. Lock!Readers' = Lock!Readers /\ Lock!Writers' = Lock!Writers
  BY DEF Lock!SpuriousWakeup, Lock!Readers, Lock!Writers
<1>2. QED
  BY <1>1 DEF LockInv, Lock!SpuriousWakeup, Lock!TypeOK, Lock!Exclusion, Lock!NoLostWakeup

(* Every step of the lock keeps the inductive invariant.                   *)
LEMMA LockInvNext == LockInv /\ [Lock!Next]_lockVars => LockInv'
<1> SUFFICES ASSUME LockInv, [Lock!Next]_lockVars PROVE LockInv'
  OBVIOUS
<1>1. CASE UNCHANGED lockVars
  <2>1. Lock!Readers' = Lock!Readers /\ Lock!Writers' = Lock!Writers
    BY <1>1 DEF lockVars, Lock!Readers, Lock!Writers
  <2>2. QED
    BY <1>1, <2>1 DEF lockVars, LockInv, Lock!TypeOK, Lock!Exclusion, Lock!NoLostWakeup
<1>2. CASE Lock!Next
  BY <1>2, CallLockInv, ReadLockInv, ReadUnlockInv, WriteLockInv,
     WriteUnlockInv, WakeupLockInv DEF Lock!Next, Lock!Step
<1>3. QED BY <1>1, <1>2

(* The inductive invariant holds in every reachable state.                 *)
LEMMA LockInvHolds ==
    ASSUME IsFiniteSet(Threads)
    PROVE  Lock!Spec => []LockInv
<1>1. Lock!Init => LockInv
  BY LockInvInit
<1>2. QED BY <1>1, LockInvNext, PTL DEF Lock!Spec, Lock!vars, lockVars

(* For any number of threads: ReadLock and WriteLock let a writer hold the *)
(* lock alone, and stat counts the holders.                                *)
THEOREM LockExcludes ==
    ASSUME IsFiniteSet(Threads)
    PROVE  Lock!Spec => []Lock!Exclusion
<1>1. LockInv => Lock!Exclusion
  BY DEF LockInv
<1>2. QED BY <1>1, LockInvHolds, PTL

(* For any number of threads: the notifications of ReadUnlock and          *)
(* WriteUnlock never leave a free lock with only sleepers waiting for it.  *)
THEOREM LockWakes ==
    ASSUME IsFiniteSet(Threads)
    PROVE  Lock!Spec => []Lock!NoLostWakeup
<1>1. LockInv => Lock!NoLostWakeup
  BY DEF LockInv
<1>2. QED BY <1>1, LockInvHolds, PTL

-----------------------------------------------------------------------------
(* Every step uses the lock as ReadWriteLock allows, or leaves it alone.   *)
LEMMA LockStep == [PathNext]_pathVars => [Lock!Next]_lockVars
<1> SUFFICES ASSUME [PathNext]_pathVars PROVE [Lock!Next]_lockVars
  OBVIOUS
<1>1. flusher \in Threads /\ compactor \in Threads /\ Getters \subseteq Threads
  BY PathThreads
<1>2. ASSUME NEW t \in Getters, \E k \in Asked : Get(t, k)
      PROVE  Lock!Next
  BY <1>1, <1>2 DEF Get, Lock!Next
<1>3. ASSUME NEW t \in Getters, Getter(t)
      PROVE  [Lock!Next]_lockVars
  BY <1>1, <1>3 DEF Getter, GetterLocks, CollectFiles, CacheGet, LoadKeyOffset, ReadValue,
     GetReturn, Lock!Next, Lock!Step
<1>4. CASE Flusher
  BY <1>1, <1>4 DEF Flusher, FlusherLocks, InstallFile, Lock!Next, Lock!Step
<1>5. CASE Compactor
  BY <1>1, <1>5
     DEF Compactor, CompactorLocks, CopyLevels, UpdateMap, Merge, Lock!Next, Lock!Step
<1>6. ASSUME NEW t \in Threads, Wakeup(t)
      PROVE  Lock!Next
  BY <1>6 DEF Wakeup, Lock!Next
<1>7. CASE FlushFile \/ WakeCompactor \/ ClearCache \/ UNCHANGED pathVars
  BY <1>7 DEF FlushFile, WakeCompactor, ClearCache, pathVars
<1>8. QED
  BY <1>2, <1>3, <1>4, <1>5, <1>6, <1>7 DEF PathNext

(* So what is proved of the lock holds on the read path.                   *)
LEMMA LockHolds == PathSpec => [](Lock!Exclusion /\ Lock!NoLostWakeup)
<1>1. PathInit => Lock!Init
  BY DEF PathInit
<1>2. PathSpec => Lock!Spec
  BY <1>1, LockStep, PTL DEF PathSpec, Lock!Spec, Lock!vars, lockVars
<1>3. IsFiniteSet(Threads)
  BY PathAssumption
<1>4. Lock!Spec => []Lock!Exclusion
  BY <1>3, LockExcludes
<1>5. Lock!Spec => []Lock!NoLostWakeup
  BY <1>3, LockWakes
<1>6. QED BY <1>2, <1>4, <1>5, PTL

(* However many lookups there are beside the flush and the compaction      *)
(* thread, a writer of level_files_ and files_map_ is alone with them.     *)
THEOREM PathExcludes == PathSpec => []Exclusion
BY LockHolds, PTL DEF Exclusion

(* Lookups, flush and compaction thread never sleep on a free lock.        *)
THEOREM PathWakes == PathSpec => []NoLostWakeup
BY LockHolds, PTL DEF NoLostWakeup

(* Every step is a step of the engine, or leaves the files alone.          *)
LEMMA EngineStep == [PathNext]_pathVars => [Next]_vars
<1> SUFFICES ASSUME [PathNext]_pathVars PROVE [Next]_vars
  OBVIOUS
<1>1. CASE FlushFile
  BY <1>1 DEF FlushFile, Next
<1>2. CASE Flusher
  BY <1>2 DEF Flusher, FlusherLocks, InstallFile, Next
<1>3. CASE Compactor
  BY <1>3 DEF Compactor, CompactorLocks, CopyLevels, UpdateMap, Merge, Next, Compacter
<1>4. CASE WakeCompactor
  BY <1>4 DEF WakeCompactor, Next
<1>5. ASSUME NEW t \in Getters, (\E k \in Asked : Get(t, k)) \/ Getter(t)
      PROVE  UNCHANGED vars
  BY <1>5
     DEF Get, Getter, GetterLocks, CollectFiles, CacheGet, LoadKeyOffset, ReadValue, GetReturn
<1>6. CASE ClearCache \/ (\E t \in Threads : Wakeup(t)) \/ UNCHANGED pathVars
  BY <1>6 DEF ClearCache, Wakeup, pathVars
<1>7. QED
  BY <1>1, <1>2, <1>3, <1>4, <1>5, <1>6 DEF PathNext

(* What is proved of file ids holds on the read path.                      *)
LEMMA EngineHolds == PathSpec => [](IdInv /\ FinInv)
<1>1. PathInit => Init
  BY DEF PathInit
<1>2. PathSpec => Spec
  BY <1>1, EngineStep, PTL DEF PathSpec, Spec
<1>3. QED BY <1>2, IdsHold, PTL

-----------------------------------------------------------------------------
(* A lookup that has collected files has the read lock, and the files are  *)
(* installed.                                                              *)
Started == {"none", "GetContainsFiles"}
Looking == {"CacheGet", "LoadKeyOffset", "GetValueByOffset"}

Held(g, lock, fs) ==
    /\ g.at \in Started \cup Looking \cup {"ReadUnlock"}
    /\ g.at \in Started => g.list = <<>>
    /\ g.at \notin Started => lock = "reading"
    /\ g.list \in Seq(fs)
    /\ g.at \in Looking => g.list # <<>>

HeldInv ==
    /\ DOMAIN getter = Getters /\ DOMAIN pc = Threads
    /\ \A t \in Getters : Held(getter[t], pc[t], files)

(* The fields of the locals of a Get.                                      *)
LEMMA LocalsFields ==
    ASSUME NEW at, NEW key, NEW list, NEW offset, NEW value
    PROVE  /\ Locals(at, key, list, offset, value).at = at
           /\ Locals(at, key, list, offset, value).key = key
           /\ Locals(at, key, list, offset, value).list = list
           /\ Locals(at, key, list, offset, value).offset = offset
           /\ Locals(at, key, list, offset, value).value = value
BY DEF Locals

(* Nobody else changes what a lookup has or which files are installed      *)
(* while it is reading.                                                    *)
LEMMA OthersLeaveReaders ==
    ASSUME Lock!Exclusion, HeldInv, [PathNext]_pathVars, NEW t \in Getters,
           ~(\E k \in Asked : Get(t, k)), ~Getter(t)
    PROVE  /\ getter'[t] = getter[t] /\ pc'[t] = pc[t]
           /\ pc[t] = "reading" => files' = files
<1> USE DEF HeldInv
<1>1. t \in Threads /\ t # flusher /\ t # compactor
  BY PathThreads
<1>2. ASSUME NEW u \in Getters, (\E k \in Asked : Get(u, k)) \/ Getter(u)
      PROVE  getter'[t] = getter[t] /\ pc'[t] = pc[t] /\ files' = files
  <2>1. u # t /\ u \in Threads
    BY <1>2, PathThreads
  <2>2. CASE \E k \in Asked : Get(u, k)
    BY <1>1, <2>1, <2>2 DEF Get, Lock!Call, vars
  <2>3. CASE GetterLocks(u)
    BY <1>1, <2>1, <2>3 DEF GetterLocks, Lock!ReadLock, vars
  <2>4. CASE CollectFiles(u) \/ ReadValue(u)
    BY <1>1, <2>1, <2>4 DEF CollectFiles, ReadValue, lockVars, vars
  <2>5. CASE CacheGet(u) \/ LoadKeyOffset(u)
    BY <1>1, <2>1, <2>5 DEF CacheGet, LoadKeyOffset, lockVars, vars
  <2>6. CASE GetReturn(u)
    BY <1>1, <2>1, <2>6 DEF GetReturn, Lock!ReadUnlock, vars
  <2>7. QED BY <1>2, <2>2, <2>3, <2>4, <2>5, <2>6 DEF Getter
<1>3. CASE FlushFile \/ WakeCompactor \/ Merge
  BY <1>3 DEF FlushFile, WakeCompactor, Merge, lockVars, Flush, Wake, TrivialMove,
     FlushCompactedFile, EndNWayCompaction, DeleteFile, CompactAgain
<1>4. CASE FlusherLocks \/ CompactorLocks
  BY <1>1, <1>4 DEF FlusherLocks, CompactorLocks, Lock!Call, Lock!ReadLock, Lock!WriteLock, vars
<1>5. CASE CopyLevels
  BY <1>1, <1>5 DEF CopyLevels, Lock!ReadUnlock, Compact, Return
<1>6. CASE InstallFile \/ UpdateMap
  <2>1. PICK w \in {flusher, compactor} : Lock!WriteUnlock(w)
    BY <1>6 DEF InstallFile, UpdateMap
  <2>2. w \in Lock!Writers
    BY <2>1, PathThreads DEF Lock!WriteUnlock, Lock!Writers
  <2>3. pc[t] # "reading"
    BY <1>1, <2>2 DEF Lock!Exclusion, Lock!Readers
  <2>4. QED BY <1>1, <1>6, <2>1, <2>3 DEF Lock!WriteUnlock, InstallFile, UpdateMap
<1>7. CASE ClearCache \/ (\E u \in Threads : Wakeup(u)) \/ UNCHANGED pathVars
  BY <1>7 DEF ClearCache, Wakeup, Lock!SpuriousWakeup, pathVars, lockVars, vars
<1>8. QED
  BY <1>2, <1>3, <1>4, <1>5, <1>6, <1>7 DEF PathNext, Flusher, Compactor

(* A lookup without files in hand, whatever it holds of the lock.          *)
LEMMA EmptyHanded ==
    ASSUME NEW h, NEW lock, NEW fs, h.at \in Started, h.list = <<>>
    PROVE  Held(h, lock, fs)
<1>1. h.list \in Seq(fs)
  OBVIOUS
<1>2. h.at \notin Looking
  BY DEF Started, Looking
<1>3. QED BY <1>1, <1>2, Zenon DEF Held

(* A lookup that is looking has an installed file to look at.              *)
LEMMA HeldFile ==
    ASSUME NEW h, NEW lock, NEW fs, Held(h, lock, fs), h.at \in Looking
    PROVE  h.list \in Seq(fs) /\ h.list # <<>> /\ Head(h.list) \in fs
<1>1. h.list \in Seq(fs) /\ h.list # <<>>
  BY DEF Held
<1>2. QED BY <1>1

(* The case of a lookup that has just started, or is over.                 *)
LEMMA StartedHeld ==
    ASSUME NEW at \in Started, NEW key, NEW lock, NEW fs
    PROVE  Held(Locals(at, key, <<>>, 0, NotFound), lock, fs)
<1>1. PICK h : h = Locals(at, key, <<>>, 0, NotFound) /\ h.at = at /\ h.list = <<>>
  BY LocalsFields
<1>2. QED BY <1>1, EmptyHanded

(* A lookup with files in hand, under the read lock.                       *)
LEMMA LookingHeld ==
    ASSUME NEW at \in Looking \cup {"ReadUnlock"}, NEW key, NEW fs, NEW list \in Seq(fs),
           list # <<>>, NEW offset, NEW value
    PROVE  Held(Locals(at, key, list, offset, value), "reading", fs)
<1>1. PICK h : h = Locals(at, key, list, offset, value) /\ h.at = at /\ h.list = list
  BY LocalsFields
<1>2. Held(h, "reading", fs)
  BY <1>1 DEF Held, Started, Looking
<1>3. QED BY <1>1, <1>2

(* A walk over installed files holds only installed files.                 *)
LEMMA WalkHeld ==
    ASSUME NEW g, NEW fs, NEW list \in Seq(fs)
    PROVE  Held(Walk(g, list), "reading", fs)
<1>1. PICK h : /\ h = Walk(g, list) /\ h.list = list
               /\ h.at = IF list = <<>> THEN "ReadUnlock" ELSE "CacheGet"
  BY LocalsFields DEF Walk
<1>2. Held(h, "reading", fs)
  BY <1>1 DEF Held, Started, Looking
<1>3. QED BY <1>1, <1>2

(* So does the rest of the walk after a file was looked at.                *)
LEMMA DecideHeld ==
    ASSUME NEW g, NEW fs, g.list \in Seq(fs), g.list # <<>>, NEW offset
    PROVE  Held(Decide(g, offset), "reading", fs)
<1>1. CASE offset # 0
  BY <1>1, LookingHeld DEF Decide, Looking
<1>2. CASE offset = 0
  <2>1. Tail(g.list) \in Seq(fs)
    OBVIOUS
  <2>2. QED BY <1>2, <2>1, WalkHeld DEF Decide
<1>3. QED BY <1>1, <1>2

(* The list of a search is a sequence of installed files.                  *)
LEMMA ContainsFilesType ==
    ASSUME FinInv, NEW k, NEW list \in GetContainsFiles(k)
    PROVE  list \in Seq(files)
<1> DEFINE contains == {f \in files : f.lower <= k /\ k <= f.upper}
<1>1. contains \subseteq files /\ Cardinality(contains) \in Nat
  BY FS_Subset, FS_CardinalityType DEF FinInv
<1> HIDE DEF contains
<1>2. list \in [1 .. Cardinality(contains) -> contains]
  BY DEF GetContainsFiles, contains
<1>3. list \in Seq(contains)
  BY <1>1, <1>2
<1>4. QED BY <1>1, <1>3

(* The steps of a lookup.                                                  *)
LEMMA GetterHeld ==
    ASSUME FinInv, HeldInv, NEW t \in Getters, (\E k \in Asked : Get(t, k)) \/ Getter(t)
    PROVE  Held(getter'[t], pc'[t], files) /\ files' = files
<1> USE DEF HeldInv
<1>1. t \in Threads /\ Held(getter[t], pc[t], files)
  BY PathThreads
<1>2. CASE \E k \in Asked : Get(t, k)
  <2>1. PICK k \in Asked : /\ getter'[t] = Locals("GetContainsFiles", k, <<>>, 0, NotFound)
                           /\ files' = files
    BY <1>2 DEF Get, vars
  <2>2. "GetContainsFiles" \in Started
    BY DEF Started
  <2>3. QED BY <2>1, <2>2, StartedHeld
<1>3. CASE GetterLocks(t)
  BY <1>1, <1>3 DEF GetterLocks, Lock!ReadLock, Held, vars
<1>4. CASE CollectFiles(t)
  BY <1>1, <1>4, WalkHeld, ContainsFilesType DEF CollectFiles, MayCollect, lockVars, vars
<1>5. CASE CacheGet(t)
  <2>1. /\ pc[t] = "reading" /\ pc' = pc /\ files' = files
        /\ getter[t].list \in Seq(files) /\ getter[t].list # <<>>
    BY <1>1, <1>5 DEF CacheGet, Held, Started, Looking, lockVars, vars
  <2>2. PICK offset : \/ getter'[t] = Decide(getter[t], offset)
                      \/ getter'[t] = Locals("LoadKeyOffset", getter[t].key, getter[t].list, 0, NotFound)
    BY <1>5 DEF CacheGet
  <2>3. "LoadKeyOffset" \in Looking
    BY DEF Looking
  <2>4. QED BY <2>1, <2>2, <2>3, DecideHeld, LookingHeld
<1>6. CASE LoadKeyOffset(t)
  <2>1. /\ pc[t] = "reading" /\ pc' = pc /\ files' = files
        /\ getter[t].list \in Seq(files) /\ getter[t].list # <<>>
    BY <1>1, <1>6 DEF LoadKeyOffset, Held, Started, Looking, lockVars, vars
  <2>2. PICK offset : getter'[t] = Decide(getter[t], offset)
    BY <1>6 DEF LoadKeyOffset
  <2>3. QED BY <2>1, <2>2, DecideHeld
<1>7. CASE ReadValue(t)
  <2>1. /\ pc[t] = "reading" /\ pc' = pc /\ files' = files
        /\ getter[t].list \in Seq(files) /\ getter[t].list # <<>>
    BY <1>1, <1>7 DEF ReadValue, Held, Started, Looking, lockVars, vars
  <2>2. PICK key, offset, value :
          getter'[t] = Locals("ReadUnlock", key, getter[t].list, offset, value)
    BY <1>7 DEF ReadValue
  <2>3. QED BY <2>1, <2>2, LookingHeld
<1>8. CASE GetReturn(t)
  <2>1. getter'[t] = Locals("none", NotFound, <<>>, 0, NotFound) /\ files' = files
    BY <1>8 DEF GetReturn, NoGet, vars
  <2>2. "none" \in Started
    BY DEF Started
  <2>3. QED BY <2>1, <2>2, StartedHeld
<1>9. QED BY <1>2, <1>3, <1>4, <1>5, <1>6, <1>7, <1>8 DEF Getter

(* No lookup holds a file at first.                                        *)
LEMMA HeldInit == PathInit => HeldInv
<1> SUFFICES ASSUME PathInit PROVE HeldInv
  OBVIOUS
<1>1. DOMAIN getter = Getters /\ DOMAIN pc = Threads /\ \A t \in Getters : getter[t] = NoGet
  BY DEF PathInit, Lock!Init
<1>2. NoGet.at = "none" /\ NoGet.list = <<>>
  BY DEF NoGet, Locals
<1>3. \A lock : Held(NoGet, lock, files)
  BY <1>2 DEF Held, Started, Looking
<1>4. QED BY <1>1, <1>3 DEF HeldInv

(* Every step keeps what a lookup holds installed.                         *)
LEMMA HeldNext ==
    Lock!Exclusion /\ FinInv /\ HeldInv /\ [PathNext]_pathVars => HeldInv'
<1> SUFFICES ASSUME Lock!Exclusion, FinInv, HeldInv, [PathNext]_pathVars PROVE HeldInv'
  OBVIOUS
<1>1. DOMAIN pc' = Threads
  BY LockStep DEF HeldInv, Lock!Next, Lock!Step, Lock!Call, Lock!ReadLock, Lock!ReadUnlock,
     Lock!WriteLock, Lock!WriteUnlock, Lock!SpuriousWakeup, lockVars
<1>2. DOMAIN getter' = Getters
  <2>1. \/ UNCHANGED getter
        \/ \E t \in Getters : \E g : getter' = [getter EXCEPT ![t] = g]
    BY DEF PathNext, pathVars, Get, Getter, GetterLocks, CollectFiles, CacheGet, LoadKeyOffset,
       ReadValue, GetReturn, FlushFile, Flusher, FlusherLocks, InstallFile, WakeCompactor,
       Compactor, CompactorLocks, CopyLevels, UpdateMap, Merge, ClearCache, Wakeup
  <2>2. QED BY <2>1 DEF HeldInv
<1>3. ASSUME NEW t \in Getters
      PROVE  Held(getter'[t], pc'[t], files')
  <2>1. CASE (\E k \in Asked : Get(t, k)) \/ Getter(t)
    BY <2>1, GetterHeld
  <2>2. CASE ~((\E k \in Asked : Get(t, k)) \/ Getter(t))
    <3>1. /\ getter'[t] = getter[t] /\ pc'[t] = pc[t]
          /\ pc[t] = "reading" => files' = files
      BY <2>2, OthersLeaveReaders
    <3>2. Held(getter[t], pc[t], files)
      BY DEF HeldInv
    <3>3. CASE pc[t] = "reading"
      BY <3>1, <3>2, <3>3
    <3>4. CASE pc[t] # "reading"
      <4>1. PICK g : g = getter[t] /\ g.at \in Started /\ g.list = <<>>
        BY <3>2, <3>4 DEF Held
      <4>2. Held(g, pc[t], files')
        BY <4>1, EmptyHanded
      <4>3. QED BY <3>1, <4>1, <4>2
    <3>5. QED BY <3>3, <3>4
  <2>3. QED BY <2>1, <2>2
<1>4. QED BY <1>1, <1>2, <1>3 DEF HeldInv

(* What lookups hold is installed in every reachable state.                *)
LEMMA HeldHolds == PathSpec => []HeldInv
BY HeldInit, HeldNext, LockHolds, EngineHolds, PTL DEF PathSpec

(* However many lookups run beside the flush and the compaction thread, a  *)
(* File that DataBase::Get has in hand stays installed, so it is neither   *)
(* unmapped nor deleted under the lookup.                                  *)
THEOREM NoFileDangles == PathSpec => []NoDanglingFile
<1>1. HeldInv => NoDanglingFile
  BY DEF HeldInv, Held, NoDanglingFile, Range
<1>2. QED BY <1>1, HeldHolds, PTL


-----------------------------------------------------------------------------
(* What a lookup finds.                                                    *)

(* The offset of a key in the table of a file is 0 exactly if the file has *)
(* no entry for it, and no two keys share another offset.                  *)
LEMMA KeyTableOffsets ==
    ASSUME NEW f, NEW k \in Key
    PROVE  /\ KeyTable(f)[k] = 0 <=> f.data[k] = NotFound
           /\ \A j \in Key : KeyTable(f)[j] = KeyTable(f)[k] /\ KeyTable(f)[k] # 0 => j = k
<1> DEFINE UpTo(j) == {i \in KeysOf(f.data) : i <= j}
<1>1. Key \subseteq Int
  BY KeyAssumption
<1>2. \A j \in Key : KeyTable(f)[j] = IF f.data[j] = NotFound THEN 0 ELSE Cardinality(UpTo(j))
  BY DEF KeyTable
<1>3. \A j \in Key : IsFiniteSet(UpTo(j)) /\ UpTo(j) \subseteq Key
  BY PathAssumption, FS_Subset DEF KeysOf
<1>4. \A j \in Key : f.data[j] # NotFound => j \in UpTo(j)
  BY <1>1 DEF KeysOf
<1>5. \A j \in Key : f.data[j] # NotFound => Cardinality(UpTo(j)) # 0
  BY <1>3, <1>4, FS_EmptySet
<1>6. ASSUME NEW i \in Key, NEW j \in Key, f.data[j] # NotFound, i < j
      PROVE  Cardinality(UpTo(i)) # Cardinality(UpTo(j))
  <2>1. UpTo(i) \subseteq UpTo(j)
    <3>1. SUFFICES ASSUME NEW x \in UpTo(i) PROVE x \in UpTo(j)
      OBVIOUS
    <3>2. x \in Key /\ x \in KeysOf(f.data) /\ x <= i
      BY <1>3, <3>1
    <3>3. x <= j
      BY <1>1, <1>6, <3>2
    <3>4. QED BY <3>2, <3>3
  <2>2. j \in UpTo(j) /\ j \notin UpTo(i)
    BY <1>1, <1>4, <1>6
  <2>3. QED BY <1>3, <2>1, <2>2, FS_Subset
<1> HIDE DEF UpTo
<1>7. QED
  BY <1>1, <1>2, <1>5, <1>6

(* So the value read at the offset of a key is the key's.                  *)
LEMMA ValueAtOffset ==
    ASSUME NEW f, NEW k \in Key, KeyTable(f)[k] # 0
    PROVE  GetValueByOffset(f, KeyTable(f)[k]) = f.data[k]
BY KeyTableOffsets DEF GetValueByOffset

(* The files of list, in the order of the search, are all that may still   *)
(* have an entry for k.                                                    *)
Ahead(k, list) ==
    /\ \A i \in DOMAIN list : list[i].lower <= k /\ k <= list[i].upper
    /\ \A i, j \in DOMAIN list : i < j => Newer(list[i], list[j])
    /\ \A f \in files : f.lower <= k /\ k <= f.upper /\ f.data[k] # NotFound =>
         \E i \in DOMAIN list : f = list[i]

(* The first file with an entry for k decides it.                          *)
LEMMA AheadDecides ==
    ASSUME IdInv, NEW k \in Key, NEW list \in Seq(files), Ahead(k, list), list # <<>>,
           Head(list).data[k] # NotFound
    PROVE  View[k] = Head(list).data[k]
<1> DEFINE S == {f \in files : f.lower <= k /\ k <= f.upper}
           Settles(f) == /\ f.data[k] # NotFound
                         /\ \A g \in S : g.data[k] # NotFound /\ g # f => Newer(f, g)
<1>1. PICK first : first = Head(list) /\ first \in S /\ first.data[k] # NotFound
  BY DEF Ahead
<1>2. ASSUME NEW g \in S, g.data[k] # NotFound, g # first
      PROVE  Newer(first, g)
  <2>1. PICK i \in DOMAIN list : g = list[i]
    BY <1>2 DEF Ahead
  <2>2. 1 \in DOMAIN list /\ first = list[1] /\ i \in Nat /\ i >= 1
    BY <1>1
  <2>3. 1 < i
    BY <1>2, <2>1, <2>2
  <2>4. QED BY <2>1, <2>2, <2>3 DEF Ahead
<1>3. Settles(first)
  BY <1>1, <1>2
<1>4. ASSUME NEW g \in S, Settles(g) PROVE g = first
  <2>1. SUFFICES ASSUME g # first PROVE FALSE
    OBVIOUS
  <2>2. Newer(g, first) /\ Newer(first, g)
    BY <1>1, <1>3, <1>4, <2>1
  <2>3. \A f \in S : f.level \in Int /\ f.id \in Int
    BY DEF IdInv, LiveFiles
  <2>4. QED BY <1>1, <2>2, <2>3 DEF Newer
<1>5. (CHOOSE f \in S : Settles(f)) = first
  <2> HIDE DEF S, Settles
  <2>1. QED BY <1>1, <1>3, <1>4
<1>6. Newest(S, k) = first
  BY <1>5 DEF Newest
<1>7. Merged(S)[k] = first.data[k]
  <2> HIDE DEF S
  <2>1. QED BY <1>1, <1>6 DEF Merged
<1>8. View[k] = Merged(S)[k]
  BY DEF View
<1>9. QED BY <1>1, <1>7, <1>8

(* Without any file left the key has no entry.                             *)
LEMMA AheadEmpty ==
    ASSUME NEW k \in Key, Ahead(k, <<>>)
    PROVE  View[k] = NotFound
<1> DEFINE S == {f \in files : f.lower <= k /\ k <= f.upper}
<1>1. \A f \in S : f.data[k] = NotFound
  BY DEF Ahead
<1>2. View[k] = Merged(S)[k]
  BY DEF View
<1> HIDE DEF S
<1>3. QED BY <1>1, <1>2 DEF Merged

(* A file without an entry for k is passed over.                           *)
LEMMA AheadTail ==
    ASSUME NEW k, NEW list \in Seq(files), Ahead(k, list), list # <<>>,
           Head(list).data[k] = NotFound
    PROVE  Ahead(k, Tail(list))
<1>1. /\ Len(Tail(list)) = Len(list) - 1 /\ Len(list) \in Nat /\ Len(list) >= 1
      /\ DOMAIN list = 1 .. Len(list) /\ DOMAIN Tail(list) = 1 .. Len(list) - 1
      /\ Head(list) = list[1]
      /\ \A i \in 1 .. Len(list) - 1 : Tail(list)[i] = list[i + 1]
  OBVIOUS
<1>2. \A i \in DOMAIN list : i # 1 => i - 1 \in DOMAIN Tail(list) /\ Tail(list)[i - 1] = list[i]
  BY <1>1
<1> DEFINE tail == Tail(list)
<1> HIDE DEF tail
<1>3. \A i \in DOMAIN tail : i + 1 \in DOMAIN list /\ tail[i] = list[i + 1]
  BY <1>1 DEF tail
<1>4. \A i \in DOMAIN tail : tail[i].lower <= k /\ k <= tail[i].upper
  BY <1>3 DEF Ahead
<1>5. \A i, j \in DOMAIN tail : i < j => Newer(tail[i], tail[j])
  <2>1. \A i, j \in DOMAIN tail : i < j => i + 1 < j + 1
    BY <1>1 DEF tail
  <2>2. QED BY <1>3, <2>1 DEF Ahead
<1>6. ASSUME NEW f \in files, f.lower <= k, k <= f.upper, f.data[k] # NotFound
      PROVE  \E i \in DOMAIN tail : f = tail[i]
  <2>1. PICK i \in DOMAIN list : f = list[i]
    BY <1>6 DEF Ahead
  <2>2. i # 1
    BY <1>1, <1>6, <2>1
  <2>3. QED BY <1>2, <2>1, <2>2 DEF tail
<1>7. Ahead(k, tail)
  BY <1>4, <1>5, <1>6 DEF Ahead
<1>8. QED BY <1>7 DEF tail

(* GetContainsFiles starts the search with every file that may have k.     *)
LEMMA CollectedAhead ==
    ASSUME IdInv, FinInv, NEW k, NEW list \in GetContainsFiles(k)
    PROVE  Ahead(k, list)
<1> DEFINE S == {f \in files : f.lower <= k /\ k <= f.upper}
           n == Cardinality(S)
<1>1. /\ list \in [1 .. n -> S]
      /\ \A i, j \in DOMAIN list : i < j => Newer(list[i], list[j])
  BY DEF GetContainsFiles, SearchedFirst
<1>2. IsFiniteSet(S) /\ n \in Nat
  BY FS_Subset, FS_CardinalityType DEF FinInv
<1>3. \A f \in S : f.level \in Int /\ f.id \in Int
  BY DEF IdInv, LiveFiles
<1>4. \A f \in S : f \in files /\ f.lower <= k /\ k <= f.upper
  OBVIOUS
<1>5. \A f \in files : f.lower <= k /\ k <= f.upper => f \in S
  OBVIOUS
<1> HIDE DEF S, n
<1>6. list \in Injection(1 .. n, S)
  <2>1. \A i, j \in 1 .. n : i < j => list[i] # list[j]
    BY <1>1, <1>2, <1>3 DEF Newer
  <2>2. \A i, j \in 1 .. n : list[i] = list[j] => i = j
    BY <1>2, <2>1
  <2>3. QED BY <1>1, <2>2 DEF Injection, IsInjective
<1>7. Cardinality(1 .. n) = Cardinality(S)
  BY <1>2, FS_Interval DEF n
<1>8. list \in Surjection(1 .. n, S)
  BY <1>2, <1>6, <1>7, FS_Injection
<1>9. QED BY <1>1, <1>4, <1>5, <1>8 DEF Surjection, Ahead

-----------------------------------------------------------------------------
(* The tables in the cache: ids that were drawn, and for a live file its   *)
(* own table.                                                              *)
CacheInv ==
    /\ \A i \in DOMAIN table : i \in Int /\ i <= file_id
    /\ \A f \in LiveFiles : f.id \in DOMAIN table => table[f.id] = KeyTable(f)

(* After Set a table in the cache is the new one or was there before.      *)
LEMMA SetChanges ==
    ASSUME NEW i, NEW t, Cache!Set(i, t), NEW j \in DOMAIN table'
    PROVE  \/ j = i /\ table'[j] = t
           \/ j # i /\ j \in DOMAIN table /\ table'[j] = table[j]
BY DEF Cache!Set

(* An empty cache is coherent.                                             *)
LEMMA CacheInit == PathInit => CacheInv
BY DEF PathInit, Init, Cache!Init, CacheInv, LiveFiles

(* Every step keeps the cache coherent.                                    *)
LEMMA CacheNext == IdInv /\ HeldInv /\ CacheInv /\ [PathNext]_pathVars => CacheInv'
<1> SUFFICES ASSUME IdInv, HeldInv, CacheInv, [PathNext]_pathVars PROVE CacheInv'
  OBVIOUS
<1>1. /\ file_id <= file_id' /\ file_id \in Int /\ file_id' \in Int
      /\ \A f \in LiveFiles' : f \in LiveFiles \/ file_id < f.id
      /\ \A f \in LiveFiles : f.id \in Int /\ f.id <= file_id
  BY EngineStep, NewLive, IdNext DEF IdInv
<1>2. CASE FlushFile
  <2>1. PICK new, i : /\ i = new.id /\ i = file_id + 1 /\ file_id' = i
                      /\ LiveFiles' \subseteq LiveFiles \cup {new}
                      /\ Cache!Set(i, KeyTable(new))
    BY <1>2, NewFileFields DEF FlushFile, Flush, NextId, compactVars, LiveFiles
  <2>2. QED BY <1>1, <2>1, SetChanges DEF CacheInv
<1>3. ASSUME NEW t \in Getters, LoadKeyOffset(t)
      PROVE  CacheInv'
  <2>1. PICK f : f = Head(getter[t].list) /\ f \in files
    <3>1. PICK h : h = getter[t] /\ Held(h, pc[t], files)
      BY DEF HeldInv
    <3>2. h.at \in Looking
      BY <1>3, <3>1 DEF LoadKeyOffset, Looking
    <3>3. QED BY <3>1, <3>2, HeldFile
  <2>2. Cache!Set(f.id, KeyTable(f)) /\ UNCHANGED vars
    BY <1>3, <2>1 DEF LoadKeyOffset
  <2>3. f \in LiveFiles /\ LiveFiles' = LiveFiles /\ file_id' = file_id
    BY <2>1, <2>2 DEF LiveFiles, vars
  <2>4. \A g \in LiveFiles : g.id = f.id => g = f
    BY <2>3 DEF IdInv, IdsUnique
  <2>5. f.id \in Int /\ f.id <= file_id
    BY <1>1, <2>3
  <2>6. PICK i, keys : i = f.id /\ keys = KeyTable(f) /\ Cache!Set(i, keys)
    BY <2>2
  <2>7. ASSUME NEW j \in DOMAIN table'
        PROVE  \/ j = i /\ table'[j] = keys
               \/ j # i /\ j \in DOMAIN table /\ table'[j] = table[j]
    BY <2>6, <2>7, SetChanges
  <2>8. QED BY <2>3, <2>4, <2>5, <2>6, <2>7 DEF CacheInv
<1>4. CASE DOMAIN table' = {}
  BY <1>4 DEF CacheInv
<1>5. CASE UNCHANGED table
  BY <1>1, <1>5 DEF CacheInv
<1>6. ClearCache => DOMAIN table' = {}
  BY DEF ClearCache, Cache!Clear
<1>7. ASSUME NEW t \in Getters, (\E k \in Asked : Get(t, k)) \/ Getter(t), ~LoadKeyOffset(t)
      PROVE  UNCHANGED table
  BY <1>7 DEF Get, Getter, GetterLocks, CollectFiles, CacheGet, Cache!Use, ReadValue, GetReturn,
     cacheVars
<1>8. Flusher \/ WakeCompactor \/ Compactor => UNCHANGED table
  BY DEF Flusher, FlusherLocks, InstallFile, WakeCompactor, Compactor, CompactorLocks,
     CopyLevels, UpdateMap, Merge, cacheVars
<1>9. (\E t \in Threads : Wakeup(t)) \/ UNCHANGED pathVars => UNCHANGED table
  BY DEF Wakeup, pathVars, cacheVars
<1>10. QED
  BY <1>2, <1>3, <1>4, <1>5, <1>6, <1>7, <1>8, <1>9 DEF PathNext

(* The invariant of the cache holds in every reachable state.              *)
LEMMA CacheHolds == PathSpec => []CacheInv
BY CacheInit, CacheNext, EngineHolds, HeldHolds, PTL DEF PathSpec

(* Whatever order lookups and the flush thread store tables in, and        *)
(* whatever is evicted, the table cached for an installed file is its own. *)
THEOREM CacheIsCoherent == PathSpec => []CacheCoherent
<1>1. CacheInv => CacheCoherent
  BY DEF CacheInv, CacheCoherent, LiveFiles
<1>2. QED BY <1>1, CacheHolds, PTL

-----------------------------------------------------------------------------
(* What a lookup knows at each step: which files can still decide its key, *)
(* that the offset is the first file's, and that the result is the view's. *)
Atomic(g) ==
    /\ g.at # "none" => g.key \in Key
    /\ g.at \in Looking => Ahead(g.key, g.list)
    /\ g.at = "GetValueByOffset" => /\ g.offset = KeyTable(Head(g.list))[g.key]
                                    /\ g.offset # 0
    /\ g.at = "ReadUnlock" => g.value = View[g.key]

AtomicInv == \A t \in Getters : Atomic(getter[t])

(* A lookup that has collected nothing yet has promised nothing.           *)
LEMMA StartAtomic ==
    ASSUME NEW key \in Key
    PROVE  Atomic(Locals("GetContainsFiles", key, <<>>, 0, NotFound))
<1>1. PICK h : /\ h = Locals("GetContainsFiles", key, <<>>, 0, NotFound)
               /\ h.at = "GetContainsFiles" /\ h.key = key
  BY LocalsFields
<1>2. Atomic(h)
  BY <1>1 DEF Atomic, Looking
<1>3. QED BY <1>1, <1>2

(* Nor has one that does not run.                                          *)
LEMMA NoGetAtomic == Atomic(NoGet)
<1>1. NoGet.at = "none"
  BY DEF NoGet, Locals
<1>2. QED BY <1>1 DEF Atomic, Looking

(* A lookup that missed the cache still has the right files ahead.         *)
LEMMA LoadAtomic ==
    ASSUME NEW key \in Key, NEW list, Ahead(key, list)
    PROVE  Atomic(Locals("LoadKeyOffset", key, list, 0, NotFound))
<1>1. PICK h : /\ h = Locals("LoadKeyOffset", key, list, 0, NotFound)
               /\ h.at = "LoadKeyOffset" /\ h.key = key /\ h.list = list
  BY LocalsFields
<1>2. Atomic(h)
  BY <1>1 DEF Atomic, Looking
<1>3. QED BY <1>1, <1>2

(* So has one that goes for the value at the first file's offset.          *)
LEMMA OffsetAtomic ==
    ASSUME NEW key \in Key, NEW list, NEW offset, Ahead(key, list),
           offset = KeyTable(Head(list))[key], offset # 0
    PROVE  Atomic(Locals("GetValueByOffset", key, list, offset, NotFound))
<1>1. PICK h : /\ h = Locals("GetValueByOffset", key, list, offset, NotFound)
               /\ h.at = "GetValueByOffset" /\ h.key = key /\ h.list = list /\ h.offset = offset
  BY LocalsFields
<1>2. Atomic(h)
  BY <1>1 DEF Atomic, Looking
<1>3. QED BY <1>1, <1>2

(* A lookup that has read the newest value of its key may return it.       *)
LEMMA ReadAtomic ==
    ASSUME NEW key \in Key, NEW list, NEW offset
    PROVE  Atomic(Locals("ReadUnlock", key, list, offset, View[key]))
<1>1. PICK h : /\ h = Locals("ReadUnlock", key, list, offset, View[key])
               /\ h.at = "ReadUnlock" /\ h.key = key /\ h.value = View[key]
  BY LocalsFields
<1>2. Atomic(h)
  BY <1>1 DEF Atomic, Looking
<1>3. QED BY <1>1, <1>2

(* A walk that has passed only files without the key can still give the    *)
(* right answer.                                                           *)
LEMMA WalkAtomic ==
    ASSUME NEW g, g.key \in Key, NEW list \in Seq(files), Ahead(g.key, list)
    PROVE  Atomic(Walk(g, list))
<1>1. CASE list = <<>>
  <2>1. View[g.key] = NotFound
    BY <1>1, AheadEmpty
  <2>2. PICK h : /\ h = Walk(g, list) /\ h.at = "ReadUnlock"
                 /\ h.key = g.key /\ h.value = NotFound
    BY <1>1, LocalsFields DEF Walk
  <2>3. Atomic(h)
    BY <2>1, <2>2 DEF Atomic, Looking
  <2>4. QED BY <2>2, <2>3
<1>2. CASE list # <<>>
  <2>1. PICK h : h = Walk(g, list) /\ h.at = "CacheGet" /\ h.key = g.key /\ h.list = list
    BY <1>2, LocalsFields DEF Walk
  <2>2. Atomic(h)
    BY <2>1 DEF Atomic, Looking
  <2>3. QED BY <2>1, <2>2
<1>3. QED BY <1>1, <1>2

(* Reading the value at an offset, or going on without one, is right.      *)
LEMMA DecideAtomic ==
    ASSUME NEW g, g.key \in Key, g.list \in Seq(files), g.list # <<>>, Ahead(g.key, g.list)
    PROVE  Atomic(Decide(g, KeyTable(Head(g.list))[g.key]))
<1>0. PICK offset : offset = KeyTable(Head(g.list))[g.key]
  OBVIOUS
<1>1. CASE offset # 0
  BY <1>0, <1>1, OffsetAtomic DEF Decide
<1>2. CASE offset = 0
  <2>1. Head(g.list).data[g.key] = NotFound
    BY <1>0, <1>2, KeyTableOffsets
  <2>2. Tail(g.list) \in Seq(files) /\ Ahead(g.key, Tail(g.list))
    BY <2>1, AheadTail
  <2>3. Atomic(Walk(g, Tail(g.list)))
    BY <2>2, WalkAtomic
  <2>4. QED BY <1>0, <1>2, <2>3 DEF Decide
<1>3. QED BY <1>1, <1>2

(* The steps of a lookup.                                                  *)
LEMMA GetterAtomic ==
    ASSUME IdInv, FinInv, HeldInv, CacheInv, AtomicInv,
           NEW t \in Getters, (\E k \in Asked : Get(t, k)) \/ Getter(t)
    PROVE  Atomic(getter'[t])
<1> DEFINE g == getter[t]
<1>1. Held(g, pc[t], files) /\ Atomic(g) /\ DOMAIN getter = Getters
  BY DEF HeldInv, AtomicInv
<1>2. ASSUME g.at \in Looking
      PROVE  /\ g.key \in Key /\ g.list \in Seq(files) /\ g.list # <<>> /\ Ahead(g.key, g.list)
             /\ Head(g.list) \in files
  <2>1. g.at # "none"
    BY <1>2 DEF Looking
  <2>2. g.key \in Key /\ Ahead(g.key, g.list)
    BY <1>1, <1>2, <2>1 DEF Atomic
  <2>3. g.list \in Seq(files) /\ g.list # <<>> /\ Head(g.list) \in files
    BY <1>1, <1>2, HeldFile
  <2>4. QED BY <2>2, <2>3
<1>3. CASE \E k \in Asked : Get(t, k)
  <2>1. PICK k \in Asked : getter'[t] = Locals("GetContainsFiles", k, <<>>, 0, NotFound)
    BY <1>1, <1>3 DEF Get
  <2>2. k \in Key
    BY PathAssumption
  <2>3. QED BY <2>1, <2>2, StartAtomic
<1>4. CASE GetterLocks(t)
  BY <1>1, <1>4 DEF GetterLocks
<1>5. CASE CollectFiles(t)
  <2>1. PICK list \in GetContainsFiles(g.key) : getter'[t] = Walk(g, list)
    BY <1>1, <1>5 DEF CollectFiles
  <2>2. g.key \in Key
    BY <1>1, <1>5 DEF CollectFiles, Atomic
  <2>3. QED BY <2>1, <2>2, WalkAtomic, ContainsFilesType, CollectedAhead
<1>6. CASE CacheGet(t)
  <2>1. g.at \in Looking
    BY <1>6 DEF CacheGet, Looking
  <2>2. CASE Head(g.list).id \in DOMAIN table
    <3>1. getter'[t] = Decide(g, table[Head(g.list).id][g.key])
      BY <1>1, <1>6, <2>2 DEF CacheGet, Cache!Lookup, Cache!Cached
    <3>2. table[Head(g.list).id] = KeyTable(Head(g.list))
      BY <1>2, <2>1, <2>2 DEF CacheInv, LiveFiles
    <3>3. QED BY <1>2, <2>1, <3>1, <3>2, DecideAtomic
  <2>3. CASE Head(g.list).id \notin DOMAIN table
    <3>1. getter'[t] = Locals("LoadKeyOffset", g.key, g.list, 0, NotFound)
      BY <1>1, <1>6, <2>3 DEF CacheGet, Cache!Lookup, Cache!Cached
    <3>2. QED BY <1>2, <2>1, <3>1, LoadAtomic
  <2>4. QED BY <2>2, <2>3
<1>7. CASE LoadKeyOffset(t)
  <2>1. g.at \in Looking /\ getter'[t] = Decide(g, KeyTable(Head(g.list))[g.key])
    BY <1>1, <1>7 DEF LoadKeyOffset, Looking
  <2>2. QED BY <1>2, <2>1, DecideAtomic
<1>8. CASE ReadValue(t)
  <2>1. /\ g.at \in Looking /\ g.offset = KeyTable(Head(g.list))[g.key] /\ g.offset # 0
        /\ getter'[t] = Locals("ReadUnlock", g.key, g.list, g.offset,
                               GetValueByOffset(Head(g.list), g.offset))
    BY <1>1, <1>8 DEF ReadValue, Atomic, Looking
  <2>2. GetValueByOffset(Head(g.list), g.offset) = Head(g.list).data[g.key]
    BY <1>2, <2>1, ValueAtOffset
  <2>3. Head(g.list).data[g.key] # NotFound
    BY <1>2, <2>1, KeyTableOffsets
  <2>4. View[g.key] = Head(g.list).data[g.key]
    BY <1>2, <2>1, <2>3, AheadDecides
  <2>5. QED BY <1>2, <2>1, <2>2, <2>4, ReadAtomic
<1>9. CASE GetReturn(t)
  <2>1. getter'[t] = NoGet
    BY <1>1, <1>9 DEF GetReturn
  <2>2. QED BY <2>1, NoGetAtomic
<1>10. QED BY <1>3, <1>4, <1>5, <1>6, <1>7, <1>8, <1>9 DEF Getter

(* Nothing else moves a lookup, and while it holds the lock the files, and *)
(* with them the view, stay as they are.                                   *)
LEMMA AtomicNext ==
    /\ IdInv /\ FinInv /\ Lock!Exclusion /\ HeldInv /\ CacheInv /\ AtomicInv
    /\ [PathNext]_pathVars
    => AtomicInv'
<1> SUFFICES ASSUME IdInv, FinInv, Lock!Exclusion, HeldInv, CacheInv, AtomicInv,
                    [PathNext]_pathVars, NEW t \in Getters
             PROVE  Atomic(getter[t])'
  BY DEF AtomicInv
<1>1. ASSUME NEW g, Atomic(g), files' = files
      PROVE  Atomic(g)'
  BY <1>1 DEF Atomic, Ahead, View
<1>2. CASE (\E k \in Asked : Get(t, k)) \/ Getter(t)
  <2>1. PICK g : g = getter'[t] /\ Atomic(g) /\ files' = files
    BY <1>2, GetterAtomic, GetterHeld
  <2>2. QED BY <1>1, <2>1
<1>3. CASE ~((\E k \in Asked : Get(t, k)) \/ Getter(t))
  <2>1. PICK g : g = getter[t] /\ Atomic(g) /\ Held(g, pc[t], files)
    BY DEF AtomicInv, HeldInv
  <2>2. g = getter'[t] /\ (pc[t] = "reading" => files' = files)
    BY <1>3, <2>1, OthersLeaveReaders
  <2>3. CASE files' = files
    BY <1>1, <2>1, <2>2, <2>3
  <2>4. CASE g.at \in Started
    BY <2>1, <2>2, <2>4 DEF Atomic, Started, Looking
  <2>5. QED BY <2>1, <2>2, <2>3, <2>4 DEF Held
<1>4. QED BY <1>2, <1>3

(* No lookup is running at first.                                          *)
LEMMA AtomicInit == PathInit => AtomicInv
<1> SUFFICES ASSUME PathInit, NEW t \in Getters PROVE Atomic(getter[t])
  BY DEF AtomicInv
<1>1. getter[t] = NoGet
  BY DEF PathInit
<1>2. QED BY <1>1, NoGetAtomic

(* However a lookup's steps through GetContainsFiles, the cache and the    *)
(* files are interleaved with flushes, compactions and other lookups, it   *)
(* returns what the installed files say of its key as a whole.             *)
THEOREM GetsAreAtomic == PathSpec => []GetAtomic
<1>1. AtomicInv => GetAtomic
  BY DEF AtomicInv, Atomic, GetAtomic
<1>2. PathSpec => []AtomicInv
  BY AtomicInit, AtomicNext, EngineHolds, LockHolds, HeldHolds, CacheHolds, PTL DEF PathSpec
<1>3. QED BY <1>1, <1>2, PTL
=============================================================================
