---------------------------- MODULE ReadWriteLock ----------------------------
(***************************************************************************)
(* The readers-writer lock of structure/read_write_lock.h, which guards    *)
(* StorageEngine::level_files_ and files_map_.                             *)
(*                                                                         *)
(* Every method body runs with the internal mutex held and gives it up     *)
(* only inside cond_.wait, so one method is one action, except that a      *)
(* thread which finds the lock taken moves to the wait set of cond_ and    *)
(* evaluates its loop condition again once it has been woken.              *)
(***************************************************************************)
EXTENDS Integers, FiniteSets

CONSTANT Threads      \* the threads that share the lock

VARIABLES
    stat,      \* 0: free; > 0: number of read locks; < 0: write locked
    pc,        \* what each thread is doing with the lock
    waiting    \* the threads inside cond_.wait

vars == <<stat, pc, waiting>>

Acquiring == {"ReadLock", "WriteLock"}
Holding == {"reading", "writing"}

Init ==
    /\ stat = 0
    /\ pc = [t \in Threads |-> "idle"]
    /\ waiting = {}

-----------------------------------------------------------------------------
(* cond_.notify_one() wakes one waiter, if there is any.                   *)
NotifyOne ==
    \/ waiting = {} /\ UNCHANGED waiting
    \/ \E t \in waiting : waiting' = waiting \ {t}

Call(t) ==
    /\ pc[t] = "idle"
    /\ \E op \in Acquiring : pc' = [pc EXCEPT ![t] = op]
    /\ UNCHANGED <<stat, waiting>>

CanRead == stat >= 0

ReadLock(t) ==
    /\ pc[t] = "ReadLock" /\ t \notin waiting
    /\ \/ /\ CanRead
          /\ stat' = stat + 1
          /\ pc' = [pc EXCEPT ![t] = "reading"]
          /\ UNCHANGED waiting
       \/ /\ ~CanRead
          /\ waiting' = waiting \cup {t}
          /\ UNCHANGED <<stat, pc>>

\* Faulty variant: the last reader leaves without a notification.
AfterReadNobody == UNCHANGED waiting

AfterRead == IF stat - 1 = 0 THEN NotifyOne ELSE UNCHANGED waiting

ReadUnlock(t) ==
    /\ pc[t] = "reading"
    /\ stat' = stat - 1
    /\ pc' = [pc EXCEPT ![t] = "idle"]
    /\ AfterRead

\* Faulty variant: a writer only looks for another writer.
CanWriteBesideReaders == stat >= 0

CanWrite == stat = 0

WriteLock(t) ==
    /\ pc[t] = "WriteLock" /\ t \notin waiting
    /\ \/ /\ CanWrite
          /\ stat' = stat - 1
          /\ pc' = [pc EXCEPT ![t] = "writing"]
          /\ UNCHANGED waiting
       \/ /\ ~CanWrite
          /\ waiting' = waiting \cup {t}
          /\ UNCHANGED <<stat, pc>>

\* Faulty variant: the writer wakes a single waiter, as the reader does.
AfterWriteOne == NotifyOne

\* Faulty variant: the writer wakes nobody.
AfterWriteNobody == UNCHANGED waiting

AfterWrite == waiting' = {}

WriteUnlock(t) ==
    /\ pc[t] = "writing"
    /\ stat' = stat + 1
    /\ pc' = [pc EXCEPT ![t] = "idle"]
    /\ AfterWrite

(* A condition variable may wake a waiter without a notification.          *)
SpuriousWakeup(t) ==
    /\ t \in waiting
    /\ waiting' = waiting \ {t}
    /\ UNCHANGED <<stat, pc>>

Step(t) == ReadLock(t) \/ ReadUnlock(t) \/ WriteLock(t) \/ WriteUnlock(t)

Next == \E t \in Threads : Call(t) \/ Step(t) \/ SpuriousWakeup(t)

Spec == Init /\ [][Next]_vars

-----------------------------------------------------------------------------
(* The values each variable may take.                                      *)
TypeOK ==
    /\ stat \in -1 .. Cardinality(Threads)
    /\ pc \in [Threads -> {"idle"} \cup Acquiring \cup Holding]
    /\ waiting \subseteq Threads

Readers == {t \in Threads : pc[t] = "reading"}
Writers == {t \in Threads : pc[t] = "writing"}

(* read_write_lock.h: while a thread holds the write lock nobody else      *)
(* holds either lock, and stat is what its comment says: the number of     *)
(* read locks, or negative under a write lock.                             *)
Exclusion ==
    /\ \A w \in Writers : Writers = {w} /\ Readers = {}
    /\ stat = IF Writers # {} THEN -1 ELSE Cardinality(Readers)

(* ReadUnlock notifies one waiter, and readers and writers share the       *)
(* condition variable.  That is enough only because a waiting reader waits *)
(* for a writer, so the one notification can never go to a thread that     *)
(* would not take the lock: whenever the lock is free and somebody waits,  *)
(* some other thread is awake and on its way to the lock.                  *)
NoLostWakeup ==
    /\ \A t \in waiting : pc[t] = "ReadLock" => stat < 0
    /\ stat = 0 /\ waiting # {} =>
         \E t \in Threads \ waiting : pc[t] \in Acquiring
=============================================================================
