----------------------------- MODULE PoolProofs -----------------------------
(* The thread pool and the client and server built on it (ThreadPool,      *)
(* ClientServer), for any number of threads, tasks and descriptors.        *)
EXTENDS ClientServer, FiniteSetTheorems, WellFoundedInduction, TLAPS

Queued(t) == {i \in 1 .. Len(queue) : queue[i] = t}
Held(t) == {w \in Workers : tid_to_task[w] = t}

(* A task is nobody's yet, or in the queue, or with one worker, or gone.   *)
Owned(t) ==
    \/ t \notin added /\ Queued(t) = {} /\ Held(t) = {} /\ deletes[t] = 0
    \/ t \in added /\ Held(t) = {} /\ deletes[t] = 0 /\ \E i \in 1 .. Len(queue) : Queued(t) = {i}
    \/ t \in added /\ Queued(t) = {} /\ deletes[t] = 0 /\ \E w \in Workers : Held(t) = {w}
    \/ /\ t \in added /\ Queued(t) = {} /\ Held(t) = {} /\ deletes[t] = 1
       /\ t \in ran \/ owner = "stopped"

(* The types, and where a worker is when it has a task.                    *)
PoolType ==
    /\ queue \in Seq(Task) /\ stop_requested \in BOOLEAN
    /\ tid_to_task \in [Workers -> (Task \ {Nullptr}) \cup {None}]
    /\ pc \in [Workers -> {"loop", "lock", "waiting", "woken", "run", "finish", "done"}]
    /\ deletes \in [Task -> Nat]
    /\ added \subseteq Task
    /\ \A w \in Workers : tid_to_task[w] # None <=> pc[w] \in {"run", "finish"}
    /\ \A w \in Workers : pc[w] = "finish" => tid_to_task[w] \in ran
    /\ owner \in {"idle", "blocked", "notify", "join", "stopped"}
    /\ owner \in {"notify", "join", "stopped"} => stop_requested
    /\ owner = "stopped" => queue = <<>> /\ \A w \in Workers : pc[w] = "done"

OwnedInv == \A t \in Task \ {Nullptr} : Owned(t)

(* The pool after Start.                                                   *)
LEMMA PoolInit == Init => PoolType /\ OwnedInv
<1> SUFFICES ASSUME Init PROVE PoolType /\ OwnedInv
  OBVIOUS
<1>1. PoolType
  <2>1. queue \in Seq(Task) /\ tid_to_task \in [Workers -> (Task \ {Nullptr}) \cup {None}]
    BY DEF Init
  <2>2. /\ pc \in [Workers -> {"loop", "lock", "waiting", "woken", "run", "finish", "done"}]
        /\ \A w \in Workers : tid_to_task[w] = None /\ pc[w] = "loop"
    BY DEF Init
  <2>3. deletes \in [Task -> Nat]
    BY DEF Init
  <2>4. QED BY <2>1, <2>2, <2>3 DEF Init, PoolType
<1>2. \A t \in Task : Queued(t) = {} /\ Held(t) = {} /\ deletes[t] = 0
  BY PoolAssumption DEF Init, Queued, Held
<1>3. QED BY <1>1, <1>2 DEF Init, OwnedInv, Owned

(* A worker that wakes up or waits keeps its types.                        *)
LEMMA PcType ==
    ASSUME PoolType, pc' \in [Workers -> {"loop", "lock", "waiting", "woken", "run", "finish", "done"}],
           \A w \in Workers : \/ pc'[w] = pc[w]
                              \/ {pc[w], pc'[w]} \cap {"run", "finish"} = {} /\ owner # "stopped",
           UNCHANGED <<queue, stop_requested, tid_to_task, owner, added, ran, deletes>>
    PROVE  PoolType'
<1>1. \A w \in Workers : tid_to_task'[w] # None <=> pc'[w] \in {"run", "finish"}
  BY DEF PoolType
<1>2. \A w \in Workers : pc'[w] = "finish" => tid_to_task'[w] \in ran'
  BY DEF PoolType
<1>3. owner' = "stopped" => queue' = <<>> /\ \A w \in Workers : pc'[w] = "done"
  BY DEF PoolType
<1>4. QED BY <1>1, <1>2, <1>3 DEF PoolType

(* Notify wakes one waiting worker if there is one.                        *)
LEMMA NotifyPc ==
    ASSUME PoolType, NotifyOne
    PROVE  /\ pc' \in [Workers -> {"loop", "lock", "waiting", "woken", "run", "finish", "done"}]
           /\ \A w \in Workers : pc'[w] = pc[w] \/ (pc[w] = "waiting" /\ pc'[w] = "woken")
BY DEF PoolType, NotifyOne, Waiting

(* The steps of a worker keep the types.                                   *)
LEMMA WorkerType ==
    ASSUME PoolType, NEW w \in Workers, Worker(w) \/ SpuriousWakeup(w)
    PROVE  PoolType'
<1>1. owner # "stopped"
  BY DEF PoolType, Worker, SpuriousWakeup, Loop, Wait, Break, Take, Run, Finish
<1>2. CASE Loop(w) \/ Wait(w) \/ Break(w) \/ SpuriousWakeup(w)
  <2>1. UNCHANGED <<queue, stop_requested, tid_to_task, owner, added, ran, deletes>>
    BY <1>2 DEF Loop, Wait, Break, SpuriousWakeup
  <2>2. /\ pc' \in [Workers -> {"loop", "lock", "waiting", "woken", "run", "finish", "done"}]
        /\ \A u \in Workers : \/ pc'[u] = pc[u]
                              \/ {pc[u], pc'[u]} \cap {"run", "finish"} = {}
    BY <1>2 DEF Loop, Wait, Break, SpuriousWakeup, PoolType
  <2>3. QED BY <1>1, <2>1, <2>2, PcType
<1>3. CASE Take(w)
  <2>1. Head(queue) \in Task /\ Tail(queue) \in Seq(Task) /\ Head(queue) # None
    BY <1>3, PoolAssumption DEF Take, PoolType
  <2>2. /\ pc[w] \in {"lock", "woken"} /\ queue' = Tail(queue)
        /\ UNCHANGED <<stop_requested, owner, added, ran, deletes>>
        /\ \/ pc' = [pc EXCEPT ![w] = "loop"] /\ tid_to_task' = tid_to_task
           \/ /\ pc' = [pc EXCEPT ![w] = "run"] /\ Head(queue) # Nullptr
              /\ tid_to_task' = [tid_to_task EXCEPT ![w] = Head(queue)]
    BY <1>3 DEF Take, Skips
  <2>3. QED BY <1>1, <2>1, <2>2 DEF PoolType
<1>4. CASE Run(w)
  BY <1>1, <1>4 DEF Run, PoolType
<1>5. CASE Finish(w)
  <2>1. tid_to_task[w] \in Task
    BY <1>5 DEF Finish, PoolType
  <2>2. QED BY <1>1, <1>5, <2>1 DEF Finish, PoolType
<1>6. QED BY <1>2, <1>3, <1>4, <1>5 DEF Worker

(* So do the steps of the owner.                                           *)
LEMMA OwnerType ==
    ASSUME PoolType,
           (\E t \in Task : AddTask(t)) \/ BlockCall \/ BlockReturn \/ Stop \/ NotifyAll
             \/ DeleteTasks
    PROVE  PoolType'
<1>1. ASSUME NEW t \in Task, AddTask(t) PROVE PoolType'
  <2>1. /\ pc' \in [Workers -> {"loop", "lock", "waiting", "woken", "run", "finish", "done"}]
        /\ \A w \in Workers : pc'[w] = pc[w] \/ (pc[w] = "waiting" /\ pc'[w] = "woken")
    BY <1>1, NotifyPc DEF AddTask, Announce
  <2>2. queue' \in Seq(Task) /\ added' \subseteq Task
    BY <1>1 DEF AddTask, PoolType
  <2>3. QED BY <1>1, <2>1, <2>2 DEF AddTask, PoolType
<1>2. CASE BlockCall \/ BlockReturn
  BY <1>2 DEF BlockCall, BlockReturn, PoolType
<1>3. CASE Stop
  BY <1>3 DEF Stop, PoolType
<1>4. CASE NotifyAll
  BY <1>4 DEF NotifyAll, WakeAll, PoolType
<1>5. CASE DeleteTasks
  <2>1. \A t \in Task :
          /\ Cardinality({w \in Workers : tid_to_task[w] = t}) \in Nat
          /\ Cardinality({i \in 1 .. Len(queue) : queue[i] = t /\ t # Nullptr}) \in Nat
    <3>1. IsFiniteSet(1 .. Len(queue))
      BY FS_Interval DEF PoolType
    <3>2. QED BY <3>1, PoolAssumption, FS_Subset, FS_CardinalityType
  <2>2. deletes' \in [Task -> Nat]
    <3> DEFINE held(t) == Cardinality({w \in Workers : tid_to_task[w] = t})
               queued(t) == Cardinality({i \in 1 .. Len(queue) : queue[i] = t /\ t # Nullptr})
    <3>1. deletes' = [t \in Task |-> deletes[t] + held(t) + queued(t)]
      BY <1>5 DEF DeleteTasks
    <3>2. \A t \in Task : deletes[t] \in Nat /\ held(t) \in Nat /\ queued(t) \in Nat
      BY <2>1 DEF PoolType
    <3> HIDE DEF held, queued
    <3>3. \A t \in Task : deletes[t] + held(t) + queued(t) \in Nat
      BY <3>2
    <3>4. QED BY <3>1, <3>3, Zenon
  <2>3. /\ owner' = "stopped" /\ queue' = <<>> /\ stop_requested'
        /\ UNCHANGED <<stop_requested, tid_to_task, pc, added, ran>>
        /\ \A w \in Workers : pc'[w] = "done"
    BY <1>5 DEF DeleteTasks, Joined, PoolType
  <2>4. QED BY <2>2, <2>3 DEF PoolType
<1>6. QED BY <1>1, <1>2, <1>3, <1>4, <1>5

(* Every step keeps the types.                                             *)
LEMMA PoolTypeNext == PoolType /\ [Next]_vars => PoolType'
<1>1. ASSUME PoolType, UNCHANGED vars PROVE PoolType'
  BY <1>1 DEF PoolType, vars
<1>2. QED BY <1>1, WorkerType, OwnerType DEF Next

-----------------------------------------------------------------------------
(* A step that leaves a task where it is.                                  *)
LEMMA SameOwned ==
    ASSUME NEW t, Owned(t), Queued(t)' = Queued(t), Held(t)' = Held(t),
           Len(queue) \in Nat, Len(queue') \in Nat, deletes'[t] = deletes[t],
           t \in added' <=> t \in added, ran \subseteq ran', owner = "stopped" => owner' = "stopped"
    PROVE  Owned(t)'
<1>1. \A i : Queued(t)' = {i} => i \in 1 .. Len(queue')
  BY DEF Queued
<1>2. QED BY <1>1 DEF Owned

(* The places of a task in a queue after a pop.                            *)
LEMMA QueuedTail ==
    ASSUME queue \in Seq(Task), queue # <<>>, queue' = Tail(queue), NEW t
    PROVE  /\ Head(queue) = t <=> 1 \in Queued(t)
           /\ Queued(t) \subseteq {1} => Queued(t)' = {}
           /\ \A i : Queued(t) = {i} /\ i # 1 =>
                i - 1 \in 1 .. Len(queue') /\ Queued(t)' = {i - 1}
<1>1. /\ Len(queue) \in Nat /\ Len(queue) >= 1 /\ Len(queue') = Len(queue) - 1
      /\ Head(queue) = queue[1]
      /\ \A i \in 1 .. Len(queue) - 1 : queue'[i] = queue[i + 1]
  OBVIOUS
<1>2. 1 \in Queued(t) <=> queue[1] = t
  BY <1>1 DEF Queued
<1>3. ASSUME NEW j \in Queued(t)'
      PROVE  j \in Int /\ j >= 1 /\ j + 1 \in Queued(t)
  <2>1. j \in 1 .. Len(queue) - 1 /\ queue'[j] = t
    BY <1>1 DEF Queued
  <2>2. QED BY <1>1, <2>1 DEF Queued
<1>4. Queued(t) \subseteq {1} => Queued(t)' = {}
  BY <1>3
<1>5. ASSUME NEW i, Queued(t) = {i}, i # 1
      PROVE  i - 1 \in 1 .. Len(queue') /\ Queued(t)' = {i - 1}
  <2>1. i \in 1 .. Len(queue) /\ queue[i] = t
    BY <1>5 DEF Queued
  <2>2. i - 1 \in 1 .. Len(queue') /\ queue'[i - 1] = t
    BY <1>1, <1>5, <2>1
  <2>3. i - 1 \in Queued(t)'
    BY <2>2 DEF Queued
  <2>4. \A j \in Queued(t)' : j = i - 1
    BY <1>3, <1>5
  <2>5. QED BY <2>2, <2>3, <2>4
<1>6. QED BY <1>1, <1>2, <1>4, <1>5

(* Take moves a task from the queue to the worker.                         *)
LEMMA TakeOwned ==
    ASSUME PoolType, OwnedInv, NEW w \in Workers, Take(w), NEW t \in Task \ {Nullptr}
    PROVE  Owned(t)'
<1>1. /\ queue \in Seq(Task) /\ queue # <<>> /\ queue' = Tail(queue)
      /\ UNCHANGED <<stop_requested, owner, added, ran, deletes>>
  BY DEF Take, PoolType
<1>2. tid_to_task[w] = None /\ t # None /\ Len(queue) \in Nat /\ Len(queue') \in Nat
  BY <1>1, PoolAssumption DEF Take, PoolType
<1>3. /\ Head(queue) = t <=> 1 \in Queued(t)
      /\ Queued(t) \subseteq {1} => Queued(t)' = {}
      /\ \A i : Queued(t) = {i} /\ i # 1 => i - 1 \in 1 .. Len(queue') /\ Queued(t)' = {i - 1}
  BY <1>1, QueuedTail
<1>4. Owned(t)
  BY DEF OwnedInv
<1>5. CASE Head(queue) = t
  <2>1. tid_to_task' = [tid_to_task EXCEPT ![w] = t]
    BY <1>5 DEF Take, Skips
  <2>2. Held(t)' = Held(t) \cup {w}
    BY <2>1 DEF Held, PoolType
  <2>3. t \in added /\ Held(t) = {} /\ deletes[t] = 0 /\ \E i : Queued(t) = {i}
    BY <1>3, <1>4, <1>5 DEF Owned
  <2>4. Queued(t)' = {} /\ Held(t)' = {w}
    BY <1>3, <1>5, <2>2, <2>3
  <2>5. QED BY <1>1, <2>3, <2>4 DEF Owned
<1>6. CASE Head(queue) # t
  <2>1. tid_to_task' = tid_to_task \/ tid_to_task' = [tid_to_task EXCEPT ![w] = Head(queue)]
    BY DEF Take
  <2>2. Held(t)' = Held(t)
    BY <1>2, <1>6, <2>1 DEF Held, PoolType
  <2>3. CASE Queued(t) = {}
    BY <1>1, <1>2, <1>3, <1>4, <2>2, <2>3, SameOwned
  <2>4. CASE Queued(t) # {}
    <3>1. t \in added /\ Held(t) = {} /\ deletes[t] = 0 /\ \E i : Queued(t) = {i}
      BY <1>4, <2>4 DEF Owned
    <3>2. PICK i : Queued(t) = {i} /\ i # 1
      BY <1>3, <1>6, <3>1
    <3>3. i - 1 \in 1 .. Len(queue') /\ Queued(t)' = {i - 1}
      BY <1>3, <3>2
    <3>4. QED BY <1>1, <2>2, <3>1, <3>3 DEF Owned
  <2>5. QED BY <2>3, <2>4
<1>7. QED BY <1>5, <1>6

(* Finish deletes the task that the worker has run.                        *)
LEMMA FinishOwned ==
    ASSUME PoolType, OwnedInv, NEW w \in Workers, Finish(w), NEW t \in Task \ {Nullptr}
    PROVE  Owned(t)'
<1>1. /\ deletes' = [deletes EXCEPT ![tid_to_task[w]] = @ + 1]
      /\ tid_to_task' = [tid_to_task EXCEPT ![w] = None]
      /\ UNCHANGED <<queue, owner, added, ran>>
      /\ tid_to_task[w] \in Task /\ tid_to_task[w] \in ran /\ t # None
  BY PoolAssumption DEF Finish, PoolType
<1>2. Queued(t)' = Queued(t) /\ Len(queue) \in Nat /\ Len(queue') \in Nat
  BY <1>1 DEF Queued, PoolType
<1>3. Held(t)' = Held(t) \ {w}
  BY <1>1 DEF Held, PoolType
<1>4. Owned(t)
  BY DEF OwnedInv
<1>5. CASE tid_to_task[w] = t
  <2>1. w \in Held(t)
    BY <1>5 DEF Held
  <2>2. t \in added /\ Queued(t) = {} /\ deletes[t] = 0 /\ Held(t) = {w}
    BY <1>4, <2>1 DEF Owned
  <2>3. deletes'[t] = 1
    BY <1>1, <1>5, <2>2 DEF PoolType
  <2>4. QED BY <1>1, <1>2, <1>3, <1>5, <2>2, <2>3 DEF Owned
<1>6. CASE tid_to_task[w] # t
  <2>1. Held(t)' = Held(t)
    BY <1>3, <1>6 DEF Held
  <2>2. deletes'[t] = deletes[t]
    BY <1>1, <1>6 DEF PoolType
  <2>3. QED BY <1>1, <1>2, <1>4, <2>1, <2>2, SameOwned
<1>7. QED BY <1>5, <1>6

(* AddTask puts a task that nobody had into the queue.                     *)
LEMMA AddTaskOwned ==
    ASSUME PoolType, OwnedInv, NEW new \in Task, AddTask(new), NEW t \in Task \ {Nullptr}
    PROVE  Owned(t)'
<1>1. /\ new \notin added /\ queue' = Append(queue, new) /\ added' = added \cup {new}
      /\ UNCHANGED <<tid_to_task, owner, ran, deletes>>
  BY DEF AddTask
<1>2. /\ Len(queue) \in Nat /\ Len(queue') = Len(queue) + 1 /\ queue'[Len(queue) + 1] = new
      /\ \A i \in 1 .. Len(queue) : queue'[i] = queue[i]
  BY <1>1 DEF PoolType
<1>3. Held(t)' = Held(t)
  BY <1>1 DEF Held
<1>4. Owned(t)
  BY DEF OwnedInv
<1>5. CASE t = new
  <2>1. Queued(t) = {} /\ Held(t) = {} /\ deletes[t] = 0
    BY <1>1, <1>4, <1>5 DEF Owned
  <2>2. Queued(t)' = {Len(queue) + 1}
    BY <1>2, <1>5, <2>1 DEF Queued
  <2>3. Len(queue) + 1 \in 1 .. Len(queue')
    BY <1>2
  <2>4. QED BY <1>1, <1>3, <1>5, <2>1, <2>2, <2>3 DEF Owned
<1>6. CASE t # new
  <2>1. Queued(t)' = Queued(t)
    BY <1>2, <1>6 DEF Queued
  <2>2. QED BY <1>1, <1>2, <1>3, <1>4, <1>6, <2>1, SameOwned
<1>7. QED BY <1>5, <1>6

(* Stop deletes what is left in the queue.                                 *)
LEMMA DeleteTasksOwned ==
    ASSUME PoolType, OwnedInv, DeleteTasks, NEW t \in Task \ {Nullptr}
    PROVE  Owned(t)'
<1>1. /\ queue' = <<>> /\ owner' = "stopped" /\ UNCHANGED <<tid_to_task, added, ran>>
      /\ \A w \in Workers : tid_to_task[w] = None
  BY DEF DeleteTasks, Joined, PoolType
<1>2. Held(t) = {} /\ Held(t)' = {}
  BY <1>1, PoolAssumption DEF Held
<1>3. Queued(t)' = {}
  BY <1>1 DEF Queued
<1>4. deletes'[t] = deletes[t] + Cardinality(Held(t)) + Cardinality(Queued(t))
  <2>1. {i \in 1 .. Len(queue) : queue[i] = t /\ t # Nullptr} = Queued(t)
    BY DEF Queued
  <2>2. QED BY <2>1 DEF DeleteTasks, Held
<1>5. Cardinality(Held(t)) = 0 /\ deletes[t] \in Nat
  BY <1>2, FS_EmptySet DEF PoolType
<1>6. Owned(t)
  BY DEF OwnedInv
<1>7. CASE Queued(t) = {}
  <2>1. deletes'[t] = deletes[t]
    BY <1>4, <1>5, <1>7, FS_EmptySet
  <2>2. QED BY <1>1, <1>2, <1>3, <1>6, <1>7, <2>1 DEF Owned
<1>8. ASSUME NEW i, Queued(t) = {i} PROVE Owned(t)'
  <2>1. Cardinality(Queued(t)) = 1
    BY <1>8, FS_Singleton
  <2>2. t \in added /\ deletes[t] = 0
    BY <1>6, <1>8 DEF Owned
  <2>3. deletes'[t] = 1
    BY <1>4, <1>5, <2>1, <2>2
  <2>4. QED BY <1>1, <1>2, <1>3, <2>2, <2>3 DEF Owned
<1>9. QED BY <1>6, <1>7, <1>8 DEF Owned

(* Every step keeps each task with one owner.                              *)
LEMMA OwnedNext == PoolType /\ OwnedInv /\ [Next]_vars => OwnedInv'
<1> SUFFICES ASSUME PoolType, OwnedInv, [Next]_vars, NEW t \in Task \ {Nullptr} PROVE Owned(t)'
  BY DEF OwnedInv
<1>1. CASE /\ UNCHANGED <<queue, tid_to_task, added, deletes>> /\ ran \subseteq ran'
           /\ owner = "stopped" => owner' = "stopped"
  <2>1. Queued(t)' = Queued(t) /\ Held(t)' = Held(t)
    BY <1>1 DEF Queued, Held
  <2>2. Owned(t) /\ Len(queue) \in Nat /\ Len(queue') \in Nat
    BY <1>1 DEF OwnedInv, PoolType
  <2>3. QED BY <1>1, <2>1, <2>2, SameOwned
<1>2. ASSUME NEW w \in Workers, Worker(w) \/ SpuriousWakeup(w) PROVE Owned(t)'
  BY <1>1, <1>2, TakeOwned, FinishOwned
  DEF Worker, SpuriousWakeup, Loop, Wait, Break, Run
<1>3. CASE BlockCall \/ BlockReturn \/ Stop \/ NotifyAll \/ UNCHANGED vars
  BY <1>1, <1>3 DEF BlockCall, BlockReturn, Stop, NotifyAll, vars
<1>4. QED BY <1>2, <1>3, AddTaskOwned, DeleteTasksOwned DEF Next

(* The types and the owners hold throughout.                               *)
LEMMA PoolHolds == Spec => [](PoolType /\ OwnedInv)
BY PoolInit, PoolTypeNext, OwnedNext, PTL DEF Spec

(* Whatever the workers and the owner do, each task added is run and       *)
(* deleted by one of them, once, and Stop deletes it if no worker did.     *)
THEOREM EachTaskOneOwner == Spec => []OneOwner
<1>1. ASSUME PoolType, OwnedInv PROVE OneOwner
  <2>1. \A w \in Workers : tid_to_task[w] # Nullptr
    BY <1>1, PoolAssumption DEF PoolType
  <2>2. ASSUME NEW t \in added \ {Nullptr}
        PROVE  /\ Cardinality(Queued(t)) + (IF owner = "stopped" THEN 0 ELSE Cardinality(Held(t)))
                    + deletes[t] = 1
               /\ deletes[t] = 1 => t \in ran \/ owner = "stopped"
    <3>1. Owned(t)
      BY <1>1, <2>2 DEF OwnedInv, PoolType
    <3>2. Cardinality({}) = 0
      BY FS_EmptySet
    <3>3. \A x : Cardinality({x}) = 1
      BY FS_Singleton
    <3>4. owner = "stopped" => Held(t) = {}
      BY <1>1, <2>2, PoolAssumption DEF PoolType, Held
    <3>5. CASE Held(t) = {} /\ deletes[t] = 0 /\ \E i \in 1 .. Len(queue) : Queued(t) = {i}
      <4>1. Cardinality(Queued(t)) = 1 /\ Cardinality(Held(t)) = 0
        BY <3>2, <3>3, <3>5
      <4>2. QED BY <3>5, <4>1
    <3>6. CASE Queued(t) = {} /\ deletes[t] = 0 /\ \E w \in Workers : Held(t) = {w}
      BY <3>2, <3>3, <3>4, <3>6
    <3>7. CASE Queued(t) = {} /\ Held(t) = {} /\ deletes[t] = 1 /\ (t \in ran \/ owner = "stopped")
      BY <3>2, <3>7
    <3>8. QED BY <2>2, <3>1, <3>5, <3>6, <3>7 DEF Owned
  <2>3. QED BY <2>1, <2>2 DEF OneOwner, Queued, Held
<1>2. QED BY <1>1, PoolHolds, PTL

(* When Block returns, the tasks that have not run are those with a worker *)
(* that runs.                                                              *)
LEMMA MissesRunning ==
    ASSUME PoolType, OwnedInv, owner = "blocked", queue = <<>>
    PROVE  Cardinality((added \ {Nullptr}) \ ran) <= Cardinality({w \in Workers : pc[w] = "run"})
<1> DEFINE R == {w \in Workers : pc[w] = "run"}
           M == (added \ {Nullptr}) \ ran
           I == {tid_to_task[w] : w \in R}
<1>1. IsFiniteSet(R)
  BY PoolAssumption, FS_Subset
<1>2. IsFiniteSet(I) /\ Cardinality(I) <= Cardinality(R)
  <2>1. PICK f : f = [w \in R |-> tid_to_task[w]]
    OBVIOUS
  <2>2. I = {f[w] : w \in R}
    BY <2>1
  <2>3. f \in Surjection(R, I)
    <3> HIDE DEF I
    <3>1. QED BY <2>1, <2>2 DEF Surjection
  <2>4. QED
    <3> HIDE DEF R, I
    <3>1. QED BY <1>1, <2>3, FS_Surjection
<1>3. ASSUME NEW t \in M PROVE t \in I
  <2>1. Owned(t) /\ Queued(t) = {}
    BY <1>3 DEF OwnedInv, PoolType, Queued
  <2>2. PICK w \in Workers : Held(t) = {w}
    BY <1>3, <2>1 DEF Owned
  <2>3. tid_to_task[w] = t /\ t # None
    BY <1>3, <2>2, PoolAssumption DEF Held, PoolType
  <2>4. pc[w] = "run"
    BY <1>3, <2>3 DEF PoolType
  <2>5. QED BY <2>3, <2>4
<1>4. Cardinality(M) <= Cardinality(I)
  BY <1>2, <1>3, FS_Subset
<1>5. Cardinality(M) \in Nat /\ Cardinality(I) \in Nat /\ Cardinality(R) \in Nat
  BY <1>1, <1>2, <1>3, FS_Subset, FS_CardinalityType
<1>6. QED BY <1>2, <1>4, <1>5

(* BlockUntilAllTaskHaveCompleted misses at most one task for each worker. *)
THEOREM BlockMissesOnlyRunning == Spec => BlockMissesRunning
<1>1. PoolType /\ OwnedInv /\ [Next]_vars =>
        [owner = "blocked" /\ owner' = "idle" =>
           Cardinality((added \ {Nullptr}) \ ran) <= Cardinality({w \in Workers : pc[w] = "run"})]_vars
  <2>1. [Next]_vars /\ owner = "blocked" /\ owner' = "idle" => queue = <<>>
    BY DEF Next, vars, Worker, Loop, Wait, Break, Take, Run, Finish, SpuriousWakeup, AddTask,
       BlockCall, BlockReturn, Completed, Stop, NotifyAll, DeleteTasks
  <2>2. QED BY <2>1, MissesRunning
<1>2. QED BY <1>1, PoolHolds, PTL DEF Spec, BlockMissesRunning

-----------------------------------------------------------------------------
(* The workers on their way to the queue.                                  *)
Coming == {w \in Workers : pc[w] \in {"loop", "lock", "woken"}}

(* A worker more, or one less, in a finite set.                            *)
LEMMA ComingCount ==
    ASSUME NEW A \in SUBSET Workers, NEW B \in SUBSET Workers, NEW w \in Workers
    PROVE  /\ Cardinality(A) \in Nat /\ Cardinality(B) \in Nat
           /\ A \subseteq B => Cardinality(A) <= Cardinality(B)
           /\ A \subseteq B \cup {w} => Cardinality(A) <= Cardinality(B) + 1
           /\ A \subseteq B /\ w \in B /\ w \notin A => Cardinality(A) + 1 <= Cardinality(B)
<1>1. IsFiniteSet(A) /\ IsFiniteSet(B)
  BY PoolAssumption, FS_Subset
<1>2. Cardinality(A) \in Nat /\ Cardinality(B) \in Nat
  BY <1>1, FS_CardinalityType
<1>3. \A C, D : C \subseteq D /\ IsFiniteSet(D) => Cardinality(C) <= Cardinality(D)
  BY FS_Subset
<1>4. /\ IsFiniteSet(B \cup {w}) /\ Cardinality(B \cup {w}) \in Nat
      /\ Cardinality(B \cup {w}) <= Cardinality(B) + 1
  BY <1>1, <1>2, FS_AddElement
<1>5. A \subseteq B \cup {w} => Cardinality(A) <= Cardinality(B) + 1
  BY <1>2, <1>3, <1>4
<1>6. ASSUME A \subseteq B, w \in B, w \notin A PROVE Cardinality(A) + 1 <= Cardinality(B)
  <2>1. Cardinality(A \cup {w}) = Cardinality(A) + 1
    BY <1>1, <1>6, FS_AddElement
  <2>2. A \cup {w} \subseteq B
    BY <1>6
  <2>3. QED BY <1>1, <1>3, <2>1, <2>2
<1>7. QED BY <1>1, <1>2, <1>3, <1>5, <1>6

(* A new task is announced to a worker that waits.                         *)
LEMMA AddTaskBacklog ==
    ASSUME PoolType, NoSleeperBesideBacklog, NEW t \in Task, AddTask(t)
    PROVE  NoSleeperBesideBacklog'
<1>1. Len(queue) \in Nat /\ Len(queue') = Len(queue) + 1 /\ stop_requested' = stop_requested
  BY DEF AddTask, PoolType
<1>2. CASE Waiting = {} /\ pc' = pc
  BY <1>2 DEF NoSleeperBesideBacklog, Waiting
<1>3. ASSUME NEW w \in Waiting, pc' = [pc EXCEPT ![w] = "woken"]
      PROVE  NoSleeperBesideBacklog'
  <2>1. w \in Workers /\ w \notin Coming
    BY DEF Waiting, Coming
  <2>2. Coming' = Coming \cup {w}
    BY <1>3, <2>1 DEF Coming, PoolType
  <2>3. Cardinality(Coming) + 1 <= Cardinality(Coming') /\ Cardinality(Coming) \in Nat
        /\ Cardinality(Coming') \in Nat
    <3>1. Coming \in SUBSET Workers /\ Coming' \in SUBSET Workers
      BY DEF Coming
    <3>2. QED BY <2>1, <2>2, <3>1, ComingCount
  <2>4. ~stop_requested => Len(queue) <= Cardinality(Coming)
    BY <1>3 DEF NoSleeperBesideBacklog, Coming
  <2>5. ~stop_requested' => Len(queue') <= Cardinality(Coming')
    BY <1>1, <2>3, <2>4
  <2>6. QED BY <2>5 DEF NoSleeperBesideBacklog, Coming
<1>4. QED BY <1>2, <1>3 DEF AddTask, Announce, NotifyOne

(* A worker that leaves for a task takes it from the queue.                *)
LEMMA TakeBacklog ==
    ASSUME PoolType, NoSleeperBesideBacklog, NEW w \in Workers, Take(w)
    PROVE  NoSleeperBesideBacklog'
<1>1. /\ Len(queue) \in Nat /\ Len(queue') = Len(queue) - 1 /\ ~stop_requested
      /\ Len(queue') \in Nat
  BY DEF Take, PoolType
<1>2. /\ \A u \in Workers \ {w} : pc'[u] = pc[u]
      /\ pc'[w] # "waiting"
  BY DEF Take, PoolType
<1>3. Waiting' # {} => Waiting # {}
  BY <1>2 DEF Waiting
<1>4. Coming \subseteq Coming' \cup {w} /\ Coming \in SUBSET Workers /\ Coming' \in SUBSET Workers
  BY <1>2 DEF Coming
<1>5. /\ Cardinality(Coming) <= Cardinality(Coming') + 1
      /\ Cardinality(Coming) \in Nat /\ Cardinality(Coming') \in Nat
  BY <1>4, ComingCount
<1>6. Waiting # {} => Len(queue) <= Cardinality(Coming)
  BY <1>1 DEF NoSleeperBesideBacklog, Coming
<1>7. Waiting' # {} => Len(queue') <= Cardinality(Coming')
  BY <1>1, <1>3, <1>5, <1>6
<1>8. QED BY <1>7 DEF NoSleeperBesideBacklog, Coming

(* No other step makes the queue longer, or the workers on their way fewer *)
(* while there are tasks in it.                                            *)
LEMMA BacklogNext == PoolType /\ NoSleeperBesideBacklog /\ [Next]_vars => NoSleeperBesideBacklog'
<1> SUFFICES ASSUME PoolType, NoSleeperBesideBacklog, [Next]_vars PROVE NoSleeperBesideBacklog'
  OBVIOUS
<1>1. CASE stop_requested'
  BY <1>1 DEF NoSleeperBesideBacklog
<1>2. CASE /\ queue' = queue /\ stop_requested' = stop_requested
           /\ Coming \subseteq Coming' /\ Waiting' \subseteq Waiting
  <2>1. Coming \in SUBSET Workers /\ Coming' \in SUBSET Workers /\ Workers # {}
    BY PoolAssumption DEF Coming
  <2>2. /\ Cardinality(Coming) <= Cardinality(Coming')
        /\ Cardinality(Coming) \in Nat /\ Cardinality(Coming') \in Nat
    BY <1>2, <2>1, ComingCount
  <2>3. Len(queue) \in Nat
    BY DEF PoolType
  <2>4. Waiting' # {} /\ ~stop_requested' => Len(queue') <= Cardinality(Coming')
    BY <1>2, <2>2, <2>3 DEF NoSleeperBesideBacklog, Coming
  <2>5. QED BY <2>4 DEF NoSleeperBesideBacklog, Coming
<1>3. ASSUME NEW w \in Workers, Loop(w) \/ Run(w) \/ Finish(w) \/ SpuriousWakeup(w), ~stop_requested'
      PROVE  NoSleeperBesideBacklog'
  BY <1>2, <1>3 DEF Loop, Run, Finish, SpuriousWakeup, Coming, Waiting, PoolType
<1>4. ASSUME NEW w \in Workers, Wait(w) PROVE NoSleeperBesideBacklog'
  <2>1. Len(queue') = 0
    BY <1>4 DEF Wait, Waits
  <2>2. Coming' \in SUBSET Workers
    BY DEF Coming
  <2>3. Len(queue') <= Cardinality(Coming')
    BY <2>1, <2>2, ComingCount
  <2>4. QED BY <2>3 DEF NoSleeperBesideBacklog, Coming
<1>5. CASE (\E w \in Workers : Break(w)) \/ Stop \/ NotifyAll \/ DeleteTasks
  BY <1>1, <1>5 DEF Break, Stop, NotifyAll, DeleteTasks, PoolType
<1>6. CASE BlockCall \/ BlockReturn \/ UNCHANGED vars
  BY <1>2, <1>6 DEF BlockCall, BlockReturn, vars, Coming, Waiting
<1>7. QED
  BY <1>1, <1>3, <1>4, <1>5, <1>6, AddTaskBacklog, TakeBacklog DEF Next, Worker

(* notify_one under the mutex is enough: while a worker sleeps, each task  *)
(* in the queue has a worker on its way to it.                             *)
THEOREM BacklogHasWorkers == Spec => []NoSleeperBesideBacklog
<1>1. Init => NoSleeperBesideBacklog
  BY DEF Init, NoSleeperBesideBacklog, Waiting
<1>2. QED BY <1>1, BacklogNext, PoolHolds, PTL DEF Spec

-----------------------------------------------------------------------------
(* A task that connects, sends, receives and closes still takes one step   *)
(* of the pool: the client runs the pool as specified.                     *)
THEOREM ClientRunsPool == SystemSpec => Spec
<1>1. SystemInit => Init
  BY DEF SystemInit
<1>2. [SystemNext]_allVars => [Next]_vars
  <2>1. ASSUME NEW w \in Workers, ClientWorker(w) PROVE [Next]_vars
    BY <2>1 DEF ClientWorker, Connect, Send, Receive, CloseClient, Next, Worker
  <2>2. Main => UNCHANGED vars
    BY DEF Main, Accept, Dispatch, Remove
  <2>3. \A s \in Servers : Server(s) => UNCHANGED vars
    BY DEF Server, TakeJob, Recv, Answer, CloseServer
  <2>4. QED BY <2>1, <2>2, <2>3 DEF SystemNext, allVars, Next, Owner
<1>3. QED BY <1>1, <1>2, PTL DEF SystemSpec, Spec

(* The request of a task has been sent.                                    *)
Sent(t) == client[t] \in {"sent", "received", "closed"}

(* A task of the server for descriptor f, queued or running.               *)
HasJob(f) == (\E i \in 1 .. Len(jobs) : jobs[i].fd = f) \/ (\E s \in Servers : serving[s].fd = f)

Job == [fd : Fd, conn : Task]
Running == [fd : Fd, conn : Task, at : {"recv", "send", "close"}]

ServerType ==
    /\ client \in [Task -> {"new", "connected", "sent", "received", "closed"}]
    /\ backlog \in Seq(Task)
    /\ fds \in [Fd -> Task \cup {Free}]
    /\ registered \subseteq Fd /\ ready \subseteq registered /\ main \in Fd \cup {Free}
    /\ served \in [Task -> Nat]
    /\ jobs \in Seq(Job)
    /\ serving \in [Servers -> Running \cup {NoJob}]
    /\ requests \subseteq Task

(* The server's tasks, queued and running, and the epoll set: every task   *)
(* has a descriptor of its own, which is in the epoll set only as long as  *)
(* main has not removed it.                                                *)
EpollInv == \A f \in registered : fds[f] # Free /\ (HasJob(f) => main = f)

QueueInv ==
    \A i \in 1 .. Len(jobs) :
      /\ fds[jobs[i].fd] = jobs[i].conn
      /\ \A j \in 1 .. Len(jobs) : jobs[i].fd = jobs[j].fd => i = j
      /\ \A s \in Servers : jobs[i].fd # serving[s].fd

ThreadInv ==
    \A s \in Servers : serving[s] # NoJob =>
      /\ fds[serving[s].fd] = serving[s].conn
      /\ \A u \in Servers \ {s} : serving[u].fd # serving[s].fd

(* A request that was sent is unread or served, and there is an event or a *)
(* server task for a connection only after its request was sent.           *)
CountInv == \A t \in Task : served[t] = IF Sent(t) /\ t \notin requests THEN 1 ELSE 0

SentInv ==
    /\ \A t \in requests : Sent(t)
    /\ \A f \in ready : Sent(fds[f])
    /\ \A i \in 1 .. Len(jobs) : Sent(jobs[i].conn)

RunInv ==
    \A s \in Servers : serving[s] # NoJob =>
      /\ Sent(serving[s].conn)
      /\ serving[s].at \in {"send", "close"} => served[serving[s].conn] = 1

AnswerInv ==
    \A t \in Task : t \in answers \cup ended \/ client[t] \in {"received", "closed"} => served[t] = 1

ServerInv ==
    /\ ServerType
    /\ EpollInv /\ QueueInv /\ ThreadInv
    /\ CountInv /\ SentInv /\ RunInv /\ AnswerInv

(* There is no connection at first.                                        *)
LEMMA ServerInit == SystemInit => ServerInv
<1> SUFFICES ASSUME SystemInit PROVE ServerInv
  OBVIOUS
<1>1. ServerType
  BY DEF SystemInit, ServerType
<1>2. jobs = <<>> /\ Len(jobs) = 0 /\ \A s \in Servers : serving[s] = NoJob
  BY DEF SystemInit
<1>3. EpollInv /\ QueueInv /\ ThreadInv /\ RunInv
  BY <1>2 DEF SystemInit, EpollInv, QueueInv, ThreadInv, RunInv
<1>4. \A t \in Task : ~Sent(t) /\ served[t] = 0 /\ client[t] = "new"
  BY DEF SystemInit, Sent
<1>5. CountInv /\ AnswerInv
  BY <1>4 DEF SystemInit, CountInv, AnswerInv
<1>6. SentInv
  BY <1>2 DEF SystemInit, SentInv
<1>7. QED BY <1>1, <1>3, <1>5, <1>6 DEF ServerInv

(* The fields of a job that runs, and of no job.                           *)
LEMMA RunningFields ==
    ASSUME ServerType, NEW s \in Servers
    PROVE  /\ serving[s] # NoJob => /\ serving[s].fd \in Fd /\ serving[s].conn \in Task
                                    /\ serving[s].at \in {"recv", "send", "close"}
           /\ serving[s] = NoJob => serving[s].fd = Free /\ serving[s].at = "none"
           /\ Free \notin Fd /\ Free \notin Task
BY ServerAssumption DEF ServerType, Running, NoJob

(* The connections of events and jobs are tasks.                           *)
LEMMA ServerFacts ==
    ASSUME ServerInv
    PROVE  /\ \A f \in registered : f \in Fd /\ fds[f] \in Task
           /\ \A i \in 1 .. Len(jobs) : jobs[i].fd \in Fd /\ jobs[i].conn \in Task
           /\ \A s \in Servers : serving[s] # NoJob => serving[s].conn \in Task
           /\ ready \subseteq registered /\ requests \subseteq Task
<1>1. \A f \in registered : f \in Fd /\ fds[f] \in Task
  BY DEF ServerInv, ServerType, EpollInv
<1>2. \A i \in 1 .. Len(jobs) : jobs[i] \in Job
  BY DEF ServerInv, ServerType
<1>3. \A s \in Servers : serving[s] # NoJob => serving[s].conn \in Task
  BY RunningFields DEF ServerInv
<1>4. ready \subseteq registered /\ requests \subseteq Task
  BY DEF ServerInv, ServerType
<1>5. QED BY <1>1, <1>2, <1>3, <1>4 DEF Job

(* What depends on the jobs and descriptors alone.                         *)
LEMMA JobsUnchanged ==
    ASSUME ServerInv, UNCHANGED <<fds, registered, main, jobs, serving>>
    PROVE  EpollInv' /\ QueueInv' /\ ThreadInv'
<1>1. \A f : HasJob(f)' <=> HasJob(f)
  BY DEF HasJob
<1>2. EpollInv'
  BY <1>1 DEF ServerInv, EpollInv
<1>3. QueueInv'
  BY DEF ServerInv, QueueInv
<1>4. ThreadInv'
  BY DEF ServerInv, ThreadInv
<1>5. QED BY <1>2, <1>3, <1>4

(* What a step of a client leaves alone: nothing is unsent, and the events *)
(* it adds are for its own connection.                                     *)
LEMMA SentByClient ==
    ASSUME ServerInv, UNCHANGED <<fds, registered, jobs, serving, served>>,
           NEW t \in Task, Sent(t)', \A u \in Task : Sent(u) => Sent(u)',
           requests' \subseteq requests \cup {t},
           ready' \subseteq ready \cup {f \in registered : fds[f] = t}
    PROVE  SentInv' /\ RunInv'
<1>1. \A u \in requests' : Sent(u)'
  BY ServerFacts DEF ServerInv, SentInv
<1>2. \A f \in ready' : Sent(fds[f])'
  <2>1. ASSUME NEW f \in ready' PROVE Sent(fds[f])'
    <3>1. CASE f \in ready
      BY <3>1, ServerFacts DEF ServerInv, SentInv
    <3>2. QED BY <3>1
  <2>2. QED BY <2>1
<1>3. \A i \in 1 .. Len(jobs) : Sent(jobs[i].conn)'
  BY ServerFacts DEF ServerInv, SentInv
<1>4. SentInv'
  BY <1>1, <1>2, <1>3 DEF SentInv
<1>5. \A s \in Servers : serving[s] # NoJob => Sent(serving[s].conn)'
  BY ServerFacts DEF ServerInv, RunInv
<1>6. RunInv'
  BY <1>5 DEF ServerInv, RunInv
<1>7. QED BY <1>4, <1>6

(* The steps of the client's tasks.                                        *)
LEMMA ClientServerInv ==
    ASSUME PoolType, ServerInv, NEW w \in Workers,
           Connect(w) \/ Send(w) \/ Receive(w) \/ CloseClient(w)
    PROVE  ServerInv'
<1>1. PICK t \in Task : t = tid_to_task[w]
  BY PoolAssumption DEF PoolType, Connect, Send, Receive, CloseClient, Run
<1>2. UNCHANGED <<answers, ended, fds, registered, main, jobs, serving, served>>
  BY DEF Connect, Send, Receive, CloseClient
<1>3. EpollInv' /\ QueueInv' /\ ThreadInv'
  BY <1>2, JobsUnchanged
<1>4. client \in [Task -> {"new", "connected", "sent", "received", "closed"}]
  BY DEF ServerInv, ServerType
<1>5. CASE Connect(w)
  <2>1. /\ client[t] = "new" /\ client' = [client EXCEPT ![t] = "connected"]
        /\ backlog' = Append(backlog, t) /\ UNCHANGED <<requests, ready>>
    BY <1>1, <1>5 DEF Connect
  <2>2. ServerType'
    BY <1>1, <1>2, <2>1 DEF ServerInv, ServerType
  <2>3. \A u \in Task : Sent(u)' <=> Sent(u)
    BY <1>1, <1>4, <2>1 DEF Sent
  <2>4. \A u \in Task : client'[u] \in {"received", "closed"} => client[u] \in {"received", "closed"}
    BY <1>1, <1>4, <2>1
  <2>5. CountInv'
    BY <1>2, <2>1, <2>3 DEF ServerInv, CountInv
  <2>6. AnswerInv'
    BY <1>2, <2>4 DEF ServerInv, AnswerInv
  <2>7. (\A u \in requests' : Sent(u)') /\ (\A f \in ready' : Sent(fds[f])')
    BY <1>2, <2>1, <2>3, ServerFacts DEF ServerInv, SentInv
  <2>8. \A i \in 1 .. Len(jobs) : Sent(jobs[i].conn)'
    BY <1>2, <2>3, ServerFacts DEF ServerInv, SentInv
  <2>9. SentInv'
    BY <1>2, <2>7, <2>8 DEF SentInv
  <2>10. RunInv'
    BY <1>2, <2>3, ServerFacts DEF ServerInv, RunInv
  <2>11. QED BY <1>3, <2>2, <2>5, <2>6, <2>9, <2>10 DEF ServerInv
<1>6. CASE Send(w)
  <2>1. /\ client[t] = "connected" /\ client' = [client EXCEPT ![t] = "sent"]
        /\ requests' = requests \cup {t} /\ backlog' = backlog
        /\ ready' = ready \cup {f \in registered : fds[f] = t}
    BY <1>1, <1>6 DEF Send, Arrival
  <2>2. ServerType'
    BY <1>1, <1>2, <2>1 DEF ServerInv, ServerType
  <2>3. Sent(t)' /\ ~Sent(t) /\ \A u \in Task : u # t => (Sent(u)' <=> Sent(u))
    BY <1>1, <1>4, <2>1 DEF Sent
  <2>4. \A u \in Task : client'[u] \in {"received", "closed"} => client[u] \in {"received", "closed"}
    BY <1>1, <1>4, <2>1
  <2>5. CountInv'
    BY <1>1, <1>2, <2>1, <2>3 DEF ServerInv, CountInv
  <2>6. AnswerInv'
    BY <1>2, <2>4 DEF ServerInv, AnswerInv
  <2>7. SentInv' /\ RunInv'
    BY <1>1, <1>2, <2>1, <2>3, SentByClient
  <2>8. QED BY <1>3, <2>2, <2>5, <2>6, <2>7 DEF ServerInv
<1>7. CASE Receive(w) \/ CloseClient(w)
  <2>1. /\ \/ client[t] = "sent" /\ t \in answers \cup ended
           \/ client[t] = "received"
        /\ \/ client' = [client EXCEPT ![t] = "received"]
           \/ client' = [client EXCEPT ![t] = "closed"]
        /\ UNCHANGED <<requests, backlog>>
        /\ ready' = ready \/ ready' = ready \cup {f \in registered : fds[f] = t}
    BY <1>1, <1>7 DEF Receive, CloseClient, Arrival
  <2>2. ServerType'
    BY <1>1, <1>2, <2>1 DEF ServerInv, ServerType
  <2>3. client'[t] \in {"received", "closed"} /\ client[t] \in {"sent", "received"}
    BY <1>1, <1>4, <2>1
  <2>4. \A u \in Task : u # t => client'[u] = client[u]
    BY <1>1, <1>4, <2>1
  <2>5. Sent(t)' /\ Sent(t) /\ \A u \in Task : u # t => (Sent(u)' <=> Sent(u))
    BY <2>3, <2>4 DEF Sent
  <2>6. served[t] = 1
    BY <1>1, <2>1 DEF ServerInv, AnswerInv
  <2>7. CountInv'
    BY <1>1, <1>2, <2>1, <2>5 DEF ServerInv, CountInv
  <2>8. AnswerInv'
    BY <1>2, <2>4, <2>6 DEF ServerInv, AnswerInv
  <2>9. SentInv' /\ RunInv'
    BY <1>1, <1>2, <2>1, <2>5, SentByClient
  <2>10. QED BY <1>3, <2>2, <2>7, <2>8, <2>9 DEF ServerInv
<1>8. QED BY <1>5, <1>6, <1>7

(* The order of the descriptors.                                           *)
Below == OpToRel(<, Nat)

(* The lowest free descriptor is a free descriptor.                        *)
LEMMA LowestFree ==
    ASSUME NEW T \in SUBSET Nat, T # {}
    PROVE  Min(T) \in T
<1>1. IsWellFoundedOn(Below, Nat)
  BY NatLessThanWellFounded DEF Below
<1>2. \A x, y \in Nat : <<x, y>> \in Below <=> x < y
  BY DEF OpToRel, Below
<1>3. PICK x \in T : \A y \in T : ~ (<<y, x>> \in Below)
  BY <1>1, WFMin
<1>4. \A y \in T : ~ (y < x)
  BY <1>2, <1>3, Zenon
<1>5. \A y \in T : x <= y
  BY <1>4
<1>6. QED BY <1>5, Zenon DEF Min

(* What a step does not disturb that leaves clients, requests and counts   *)
(* alone.                                                                  *)
LEMMA RequestsUnchanged ==
    ASSUME ServerInv, UNCHANGED <<client, requests, answers, ended, served>>
    PROVE  CountInv' /\ AnswerInv' /\ \A u : Sent(u)' <=> Sent(u)
<1>1. \A u : Sent(u)' <=> Sent(u)
  BY DEF Sent
<1>2. CountInv'
  BY <1>1 DEF ServerInv, CountInv
<1>3. AnswerInv'
  BY DEF ServerInv, AnswerInv
<1>4. QED BY <1>1, <1>2, <1>3

(* accept gives a connection a descriptor that no task holds.              *)
LEMMA AcceptServerInv ==
    ASSUME ServerInv, Accept
    PROVE  ServerInv'
<1>1. PICK f : f = Min({g \in Fd : fds[g] = Free})
  OBVIOUS
<1>2. PICK t : t = Head(backlog)
  OBVIOUS
<1>3. f \in Fd /\ fds[f] = Free
  <2>1. {g \in Fd : fds[g] = Free} \in SUBSET Nat /\ {g \in Fd : fds[g] = Free} # {}
    BY ServerAssumption DEF Accept
  <2>2. f \in {g \in Fd : fds[g] = Free}
    BY <1>1, <2>1, LowestFree, Zenon
  <2>3. QED BY <2>2
<1>4. t \in Task /\ Tail(backlog) \in Seq(Task) /\ Free \notin Task /\ Free \notin Fd
  BY <1>2, ServerAssumption DEF Accept, ServerInv, ServerType
<1>5. /\ backlog' = Tail(backlog) /\ fds' = [fds EXCEPT ![f] = t]
      /\ registered' = registered \cup {f}
      /\ ready' = IF t \in requests THEN ready \cup {f} ELSE ready
      /\ UNCHANGED <<client, requests, answers, ended, main, jobs, serving, served>>
  BY <1>1, <1>2 DEF Accept
<1>6. ServerType'
  BY <1>3, <1>4, <1>5 DEF ServerInv, ServerType
<1>7. fds'[f] = t /\ \A g \in Fd : g # f => fds'[g] = fds[g]
  BY <1>3, <1>5 DEF ServerInv, ServerType
<1>8. f \notin registered
  BY <1>3, <1>4, ServerFacts
<1>9. \A i \in 1 .. Len(jobs) : jobs[i].fd \in Fd \ {f}
  BY <1>3, <1>4, ServerFacts DEF ServerInv, QueueInv
<1>10. \A s \in Servers : serving[s].fd # f /\ (serving[s] # NoJob => serving[s].fd \in Fd \ {f})
  BY <1>3, <1>4, RunningFields DEF ServerInv, ThreadInv
<1>11. EpollInv'
  <2>1. \A g : HasJob(g)' <=> HasJob(g)
    BY <1>5 DEF HasJob
  <2>2. ~HasJob(f)
    BY <1>9, <1>10 DEF HasJob
  <2>3. \A g \in registered : g \in Fd /\ g # f /\ fds[g] # Free /\ (HasJob(g) => main = g)
    BY <1>8, ServerFacts DEF ServerInv, EpollInv
  <2>4. QED BY <1>4, <1>5, <1>7, <2>1, <2>2, <2>3 DEF EpollInv
<1>12. QueueInv'
  BY <1>5, <1>7, <1>9 DEF ServerInv, QueueInv
<1>13. ThreadInv'
  BY <1>5, <1>7, <1>10 DEF ServerInv, ThreadInv
<1>14. CountInv' /\ AnswerInv' /\ \A u : Sent(u)' <=> Sent(u)
  BY <1>5, RequestsUnchanged
<1>15. \A g \in ready' : Sent(fds'[g])
  <2>1. \A g \in ready : g \in Fd /\ g # f /\ Sent(fds[g])
    BY <1>8, ServerFacts DEF ServerInv, SentInv
  <2>2. t \in requests => Sent(t)
    BY DEF ServerInv, SentInv
  <2>3. QED BY <1>5, <1>7, <2>1, <2>2
<1>16. SentInv'
  BY <1>5, <1>14, <1>15 DEF ServerInv, SentInv
<1>17. RunInv'
  BY <1>5, <1>14 DEF ServerInv, RunInv
<1>18. QED BY <1>6, <1>11, <1>12, <1>13, <1>14, <1>16, <1>17 DEF ServerInv

(* A job is added for a registered descriptor, which has none as long as   *)
(* main holds no descriptor to remove.                                     *)
LEMMA DispatchServerInv ==
    ASSUME ServerInv, NEW f \in Fd, Dispatch(f)
    PROVE  ServerInv'
<1>1. /\ main = Free /\ f \in ready /\ f \in registered /\ fds[f] \in Task
      /\ ready' = ready \ {f} /\ main' = f
      /\ UNCHANGED <<client, backlog, requests, answers, ended, fds, registered, serving, served>>
  BY ServerFacts DEF Dispatch
<1>2. PICK e \in Job : e.fd = f /\ e.conn = fds[f] /\ jobs' = Append(jobs, e)
  BY <1>1 DEF Dispatch, Job
<1>3. /\ Len(jobs') = Len(jobs) + 1 /\ jobs' \in Seq(Job)
      /\ \A i \in 1 .. Len(jobs) : jobs'[i] = jobs[i]
      /\ jobs'[Len(jobs) + 1] = e /\ Len(jobs) \in Nat
  <2>1. jobs \in Seq(Job)
    BY DEF ServerInv, ServerType
  <2>2. PICK q : q = Append(jobs, e)
    OBVIOUS
  <2>3. q \in Seq(Job) /\ Len(q) = Len(jobs) + 1 /\ Len(jobs) \in Nat
    BY <2>1, <2>2
  <2>4. \A i \in 1 .. Len(jobs) : q[i] = jobs[i]
    BY <2>1, <2>2
  <2>5. q[Len(jobs) + 1] = e
    BY <2>1, <2>2
  <2>6. QED BY <1>2, <2>2, <2>3, <2>4, <2>5
<1>4. ServerType'
  BY <1>1, <1>3 DEF ServerInv, ServerType
<1>5. \A g \in registered : ~HasJob(g) /\ fds[g] # Free
  <2>1. \A g \in registered : g # Free
    BY ServerFacts, ServerAssumption
  <2>2. QED BY <1>1, <2>1 DEF ServerInv, EpollInv
<1>6. \A i \in 1 .. Len(jobs') : i \in 1 .. Len(jobs) \/ i = Len(jobs) + 1
  BY <1>3
<1>7. /\ \A i \in 1 .. Len(jobs) : jobs[i].fd # f
      /\ \A s \in Servers : serving[s].fd # f
  BY <1>1, <1>5 DEF HasJob
<1>8. EpollInv'
  <2>1. \A g : HasJob(g)' => HasJob(g) \/ g = f
    BY <1>1, <1>2, <1>3, <1>6 DEF HasJob
  <2>2. QED BY <1>1, <1>5, <2>1 DEF EpollInv
<1>9. QueueInv'
  <2>1. ASSUME NEW i \in 1 .. Len(jobs')
        PROVE  /\ fds'[jobs'[i].fd] = jobs'[i].conn
               /\ \A j \in 1 .. Len(jobs') : jobs'[i].fd = jobs'[j].fd => i = j
               /\ \A s \in Servers : jobs'[i].fd # serving'[s].fd
    <3>1. CASE i \in 1 .. Len(jobs)
      BY <1>1, <1>2, <1>3, <1>6, <1>7, <3>1 DEF ServerInv, QueueInv
    <3>2. CASE i = Len(jobs) + 1
      BY <1>1, <1>2, <1>3, <1>6, <1>7, <3>2
    <3>3. QED BY <1>6, <3>1, <3>2
  <2>2. QED BY <2>1 DEF QueueInv
<1>10. ThreadInv'
  BY <1>1 DEF ServerInv, ThreadInv
<1>11. CountInv' /\ AnswerInv' /\ \A u : Sent(u)' <=> Sent(u)
  BY <1>1, RequestsUnchanged
<1>12. \A i \in 1 .. Len(jobs') : Sent(jobs'[i].conn)
  BY <1>1, <1>2, <1>3, <1>6 DEF ServerInv, SentInv
<1>13. SentInv'
  BY <1>1, <1>11, <1>12 DEF ServerInv, SentInv
<1>14. RunInv'
  BY <1>1, <1>11 DEF ServerInv, RunInv
<1>15. QED BY <1>4, <1>8, <1>9, <1>10, <1>11, <1>13, <1>14 DEF ServerInv

(* EPOLL_CTL_DEL takes the descriptor that main holds out of the set.      *)
LEMMA RemoveServerInv ==
    ASSUME ServerInv, Remove
    PROVE  ServerInv'
<1>1. /\ main # Free /\ main' = Free
      /\ registered' = registered \ {main} /\ ready' = ready \ {main}
      /\ UNCHANGED <<client, backlog, requests, answers, ended, fds, jobs, serving, served>>
  BY DEF Remove, Removed
<1>2. ServerType'
  BY <1>1 DEF ServerInv, ServerType
<1>3. \A f : HasJob(f)' <=> HasJob(f)
  BY <1>1 DEF HasJob
<1>4. EpollInv'
  BY <1>1, <1>3 DEF ServerInv, EpollInv
<1>5. QueueInv'
  BY <1>1 DEF ServerInv, QueueInv
<1>6. ThreadInv'
  BY <1>1 DEF ServerInv, ThreadInv
<1>7. CountInv' /\ AnswerInv' /\ \A u : Sent(u)' <=> Sent(u)
  BY <1>1, RequestsUnchanged
<1>8. SentInv'
  BY <1>1, <1>7 DEF ServerInv, SentInv
<1>9. RunInv'
  BY <1>1, <1>7 DEF ServerInv, RunInv
<1>10. QED BY <1>2, <1>4, <1>5, <1>6, <1>7, <1>8, <1>9 DEF ServerInv

(* A thread of the server takes the first job of the queue.                *)
LEMMA TakeJobServerInv ==
    ASSUME ServerInv, NEW s \in Servers, TakeJob(s)
    PROVE  ServerInv'
<1>1. PICK e \in Job : e = jobs[1] /\ e = Head(jobs) /\ 1 \in 1 .. Len(jobs)
  BY DEF TakeJob, ServerInv, ServerType
<1>2. PICK r \in Running : /\ r.fd = e.fd /\ r.conn = e.conn /\ r.at = "recv"
                           /\ serving' = [serving EXCEPT ![s] = r]
  BY <1>1 DEF TakeJob, Running, Job
<1>3. /\ jobs' \in Seq(Job) /\ Len(jobs') = Len(jobs) - 1 /\ Len(jobs) \in Nat
      /\ \A i \in 1 .. Len(jobs') : /\ jobs'[i] = jobs[i + 1] /\ i + 1 # 1
                                    /\ i + 1 \in 1 .. Len(jobs)
  BY DEF TakeJob, ServerInv, ServerType
<1>4. /\ serving[s] = NoJob
      /\ UNCHANGED <<client, backlog, requests, answers, ended, fds, registered, ready, main, served>>
  BY DEF TakeJob
<1>5. serving'[s] = r /\ \A u \in Servers \ {s} : serving'[u] = serving[u]
  BY <1>2 DEF ServerInv, ServerType
<1>6. ServerType'
  BY <1>2, <1>3, <1>4 DEF ServerInv, ServerType
<1>7. /\ fds[e.fd] = e.conn /\ Sent(e.conn)
      /\ \A i \in 1 .. Len(jobs) : i # 1 => jobs[i].fd # e.fd
      /\ \A u \in Servers : serving[u].fd # e.fd
  BY <1>1 DEF ServerInv, QueueInv, SentInv
<1>8. EpollInv'
  <2>1. \A f : HasJob(f)' => HasJob(f)
    <3>1. ASSUME NEW f, HasJob(f)' PROVE HasJob(f)
      <4>1. CASE \E i \in 1 .. Len(jobs') : jobs'[i].fd = f
        BY <1>3, <4>1 DEF HasJob
      <4>2. CASE \E u \in Servers : serving'[u].fd = f
        <5>1. PICK u \in Servers : serving'[u].fd = f
          BY <4>2
        <5>2. CASE u = s
          BY <1>1, <1>2, <1>5, <5>1, <5>2 DEF HasJob
        <5>3. CASE u # s
          BY <1>5, <5>1, <5>3 DEF HasJob
        <5>4. QED BY <5>2, <5>3
      <4>3. QED BY <3>1, <4>1, <4>2 DEF HasJob
    <3>2. QED BY <3>1
  <2>2. QED BY <1>4, <2>1 DEF ServerInv, EpollInv
<1>9. QueueInv'
  <2>1. ASSUME NEW i \in 1 .. Len(jobs')
        PROVE  /\ fds'[jobs'[i].fd] = jobs'[i].conn
               /\ \A j \in 1 .. Len(jobs') : jobs'[i].fd = jobs'[j].fd => i = j
               /\ \A u \in Servers : jobs'[i].fd # serving'[u].fd
    <3>1. jobs'[i] = jobs[i + 1] /\ i + 1 # 1 /\ i + 1 \in 1 .. Len(jobs)
      BY <1>3
    <3>2. /\ fds[jobs[i + 1].fd] = jobs[i + 1].conn /\ jobs[i + 1].fd # e.fd
          /\ \A u \in Servers : jobs[i + 1].fd # serving[u].fd
          /\ \A j \in 1 .. Len(jobs) : jobs[i + 1].fd = jobs[j].fd => i + 1 = j
      BY <1>7, <3>1 DEF ServerInv, QueueInv
    <3>3. ASSUME NEW j \in 1 .. Len(jobs'), jobs'[i].fd = jobs'[j].fd PROVE i = j
      <4>1. jobs'[j] = jobs[j + 1] /\ j + 1 \in 1 .. Len(jobs)
        BY <1>3
      <4>2. i + 1 = j + 1
        BY <3>1, <3>2, <3>3, <4>1
      <4>3. QED BY <4>2, <1>3
    <3>4. \A u \in Servers : jobs'[i].fd # serving'[u].fd
      BY <1>2, <1>5, <3>1, <3>2
    <3>5. QED BY <1>4, <3>1, <3>2, <3>3, <3>4
  <2>2. QED BY <2>1 DEF QueueInv
<1>10. ThreadInv'
  <2>1. ASSUME NEW u \in Servers, serving'[u] # NoJob
        PROVE  /\ fds'[serving'[u].fd] = serving'[u].conn
               /\ \A v \in Servers \ {u} : serving'[v].fd # serving'[u].fd
    <3>1. CASE u = s
      BY <1>2, <1>4, <1>5, <1>7, <3>1
    <3>2. CASE u # s
      <4>1. serving'[u] = serving[u] /\ serving[u] # NoJob
        BY <1>5, <2>1, <3>2
      <4>2. /\ fds[serving[u].fd] = serving[u].conn
            /\ \A v \in Servers \ {u} : serving[v].fd # serving[u].fd
        BY <4>1 DEF ServerInv, ThreadInv
      <4>3. QED BY <1>2, <1>4, <1>5, <1>7, <4>1, <4>2
    <3>3. QED BY <3>1, <3>2
  <2>2. QED BY <2>1 DEF ThreadInv
<1>11. CountInv' /\ AnswerInv' /\ \A u : Sent(u)' <=> Sent(u)
  BY <1>4, RequestsUnchanged
<1>12. \A i \in 1 .. Len(jobs') : Sent(jobs'[i].conn)
  BY <1>3 DEF ServerInv, SentInv
<1>13. SentInv'
  BY <1>4, <1>11, <1>12 DEF ServerInv, SentInv
<1>14. RunInv'
  <2>1. \A u \in Servers : serving'[u] # NoJob =>
          /\ Sent(serving'[u].conn)
          /\ serving'[u].at \in {"send", "close"} => served[serving'[u].conn] = 1
    BY <1>2, <1>5, <1>7 DEF ServerInv, RunInv
  <2>2. QED BY <1>4, <1>11, <2>1 DEF RunInv
<1>15. QED BY <1>6, <1>8, <1>9, <1>10, <1>11, <1>13, <1>14 DEF ServerInv

(* recv and send of a thread of the server change only where it is: its    *)
(* descriptor and its connection stay.                                     *)
LEMMA StepServerInv ==
    ASSUME ServerInv, NEW s \in Servers, Recv(s) \/ Answer(s)
    PROVE  ServerInv'
<1>1. serving[s] # NoJob
  <2>1. serving[s].at # "none"
    BY DEF Recv, Answer
  <2>2. QED BY <2>1, RunningFields DEF ServerInv
<1>2. PICK t \in Task : t = serving[s].conn /\ fds[serving[s].fd] = t /\ Sent(t)
  BY <1>1, RunningFields DEF ServerInv, ThreadInv, RunInv
<1>3. serving[s] \in Running /\ serving \in [Servers -> Running \cup {NoJob}]
  BY <1>1 DEF ServerInv, ServerType
<1>4. PICK a \in {"recv", "send", "close"} : serving' = [serving EXCEPT ![s].at = a]
  BY DEF Recv, Answer
<1>5. PICK r \in Running : /\ r.fd = serving[s].fd /\ r.conn = t /\ r.at = a
                           /\ serving' = [serving EXCEPT ![s] = r]
  BY <1>2, <1>3, <1>4 DEF Running
<1>6. r # NoJob
  BY ServerAssumption DEF Running, NoJob
<1>7. serving'[s] = r /\ \A u \in Servers \ {s} : serving'[u] = serving[u]
  BY <1>3, <1>5
<1>8. UNCHANGED <<client, backlog, ended, fds, registered, ready, main, jobs>>
  BY DEF Recv, Answer
<1>9. \A u \in Servers : serving'[u].fd = serving[u].fd /\ serving'[u].conn = serving[u].conn
  BY <1>2, <1>5, <1>7
<1>10. \A u \in Servers : serving'[u] # NoJob <=> serving[u] # NoJob
  BY <1>1, <1>6, <1>7
<1>11. EpollInv'
  <2>1. \A f : HasJob(f)' <=> HasJob(f)
    BY <1>8, <1>9 DEF HasJob
  <2>2. QED BY <1>8, <2>1 DEF ServerInv, EpollInv
<1>12. QueueInv'
  <2>1. ASSUME NEW i \in 1 .. Len(jobs)
        PROVE  /\ fds[jobs[i].fd] = jobs[i].conn
               /\ \A j \in 1 .. Len(jobs) : jobs[i].fd = jobs[j].fd => i = j
               /\ \A u \in Servers : jobs[i].fd # serving'[u].fd
    BY <1>9 DEF ServerInv, QueueInv
  <2>2. QED BY <1>8, <2>1 DEF QueueInv
<1>13. ThreadInv'
  <2>1. ASSUME NEW u \in Servers, serving'[u] # NoJob
        PROVE  /\ fds[serving'[u].fd] = serving'[u].conn
               /\ \A v \in Servers \ {u} : serving'[v].fd # serving'[u].fd
    <3>1. /\ fds[serving[u].fd] = serving[u].conn
          /\ \A v \in Servers \ {u} : serving[v].fd # serving[u].fd
      BY <1>10, <2>1 DEF ServerInv, ThreadInv
    <3>2. QED BY <1>9, <3>1
  <2>2. QED BY <1>8, <2>1 DEF ThreadInv
<1>14. \A u : Sent(u)' <=> Sent(u)
  BY <1>8 DEF Sent
<1>15. CASE Recv(s)
  <2>1. /\ requests' = requests \ {t} /\ answers' = answers
        /\ served' = IF t \in requests THEN [served EXCEPT ![t] = served[t] + 1] ELSE served
    BY <1>2, <1>15 DEF Recv
  <2>2. ServerType'
    BY <1>3, <1>5, <1>8, <2>1 DEF ServerInv, ServerType
  <2>3. served'[t] = 1 /\ \A u \in Task : u # t => served'[u] = served[u]
    <3>1. served \in [Task -> Nat] /\ served[t] = IF t \notin requests THEN 1 ELSE 0
      BY <1>2 DEF ServerInv, ServerType, CountInv
    <3>2. QED BY <2>1, <3>1
  <2>4. \A u \in Task : served[u] = 1 => served'[u] = 1
    BY <2>3
  <2>5. CountInv'
    BY <1>2, <1>14, <2>1, <2>3 DEF ServerInv, CountInv
  <2>6. AnswerInv'
    BY <1>8, <2>1, <2>4 DEF ServerInv, AnswerInv
  <2>7. SentInv'
    BY <1>8, <1>14, <2>1 DEF ServerInv, SentInv
  <2>8. RunInv'
    <3>1. ASSUME NEW u \in Servers, serving'[u] # NoJob
          PROVE  /\ Sent(serving'[u].conn)
                 /\ serving'[u].at \in {"send", "close"} => served'[serving'[u].conn] = 1
      <4>1. CASE u = s
        BY <1>2, <1>5, <1>7, <2>3, <4>1
      <4>2. CASE u # s
        <5>1. serving'[u] = serving[u] /\ serving[u] # NoJob /\ serving[u].conn \in Task
          BY <1>7, <3>1, <4>2, ServerFacts
        <5>2. QED BY <2>4, <5>1 DEF ServerInv, RunInv
      <4>3. QED BY <4>1, <4>2
    <3>2. QED BY <1>14, <3>1 DEF RunInv
  <2>9. QED BY <1>11, <1>12, <1>13, <2>2, <2>5, <2>6, <2>7, <2>8 DEF ServerInv
<1>16. CASE Answer(s)
  <2>1. UNCHANGED <<requests, served>> /\ answers' \subseteq answers \cup {t} /\ serving[s].at = "send"
    BY <1>2, <1>16 DEF Answer
  <2>2. served[t] = 1
    BY <1>1, <1>2, <2>1 DEF ServerInv, RunInv
  <2>3. ServerType'
    BY <1>3, <1>5, <1>8, <2>1 DEF ServerInv, ServerType
  <2>4. CountInv'
    BY <1>14, <2>1 DEF ServerInv, CountInv
  <2>5. AnswerInv'
    BY <1>8, <2>1, <2>2 DEF ServerInv, AnswerInv
  <2>6. SentInv'
    BY <1>8, <1>14, <2>1 DEF ServerInv, SentInv
  <2>7. RunInv'
    <3>1. ASSUME NEW u \in Servers, serving'[u] # NoJob
          PROVE  /\ Sent(serving'[u].conn)
                 /\ serving'[u].at \in {"send", "close"} => served[serving'[u].conn] = 1
      <4>1. CASE u = s
        BY <1>2, <1>5, <1>7, <2>2, <4>1
      <4>2. CASE u # s
        <5>1. serving'[u] = serving[u] /\ serving[u] # NoJob
          BY <1>7, <3>1, <4>2
        <5>2. QED BY <5>1 DEF ServerInv, RunInv
      <4>3. QED BY <4>1, <4>2
    <3>2. QED BY <1>14, <2>1, <3>1 DEF RunInv
  <2>8. QED BY <1>11, <1>12, <1>13, <2>3, <2>4, <2>5, <2>6, <2>7 DEF ServerInv
<1>17. QED BY <1>15, <1>16

(* close frees the descriptor of a thread, which is nobody else's.         *)
LEMMA CloseServerInv ==
    ASSUME ServerInv, NEW s \in Servers, CloseServer(s)
    PROVE  ServerInv'
<1>1. serving[s] # NoJob
  <2>1. serving[s].at # "none"
    BY DEF CloseServer
  <2>2. QED BY <2>1, RunningFields DEF ServerInv
<1>2. PICK f \in Fd : f = serving[s].fd
  BY <1>1, RunningFields DEF ServerInv
<1>3. PICK t \in Task : t = serving[s].conn
  BY <1>1, RunningFields DEF ServerInv
<1>4. fds[f] = t /\ served[t] = 1 /\ \A u \in Servers \ {s} : serving[u].fd # f
  BY <1>1, <1>2, <1>3 DEF CloseServer, ServerInv, ThreadInv, RunInv
<1>5. /\ ended' = ended \cup {t}
      /\ fds' = [g \in Fd |-> IF g = f THEN Free ELSE fds[g]]
      /\ registered' = registered \ {f} /\ ready' = ready \ {f}
      /\ serving' = [serving EXCEPT ![s] = NoJob]
      /\ UNCHANGED <<client, backlog, requests, answers, main, jobs, served>>
  BY <1>2, <1>4 DEF CloseServer, Closed
<1>6. serving'[s] = NoJob /\ \A u \in Servers \ {s} : serving'[u] = serving[u]
  BY <1>5 DEF ServerInv, ServerType
<1>7. \A g \in Fd : g # f => fds'[g] = fds[g]
  BY <1>5
<1>8. ServerType'
  BY <1>5 DEF ServerInv, ServerType
<1>9. NoJob.fd = Free /\ Free \notin Fd
  BY ServerAssumption DEF NoJob
<1>10. EpollInv'
  <2>1. \A g \in Fd : HasJob(g)' => HasJob(g)
    BY <1>5, <1>6, <1>9 DEF HasJob
  <2>2. QED BY <1>5, <1>7, <2>1, ServerFacts DEF ServerInv, EpollInv
<1>11. \A i \in 1 .. Len(jobs) : jobs[i].fd \in Fd /\ jobs[i].fd # f
  BY <1>2, ServerFacts DEF ServerInv, QueueInv
<1>12. QueueInv'
  <2>1. ASSUME NEW i \in 1 .. Len(jobs), NEW u \in Servers PROVE jobs[i].fd # serving'[u].fd
    <3>1. CASE u = s
      BY <1>6, <1>9, <1>11, <3>1
    <3>2. CASE u # s
      <4>1. jobs[i].fd # serving[u].fd
        BY DEF ServerInv, QueueInv
      <4>2. QED BY <1>6, <3>2, <4>1
    <3>3. QED BY <3>1, <3>2
  <2>2. QED BY <1>5, <1>7, <1>11, <2>1 DEF ServerInv, QueueInv
<1>13. ThreadInv'
  <2>1. ASSUME NEW u \in Servers, serving'[u] # NoJob
        PROVE  /\ fds'[serving'[u].fd] = serving'[u].conn
               /\ \A v \in Servers \ {u} : serving'[v].fd # serving'[u].fd
    <3>1. u # s /\ serving'[u] = serving[u]
      BY <1>6, <2>1
    <3>2. serving[u].fd \in Fd /\ serving[u].fd # f
      BY <1>4, <2>1, <3>1, RunningFields DEF ServerInv
    <3>3. /\ fds[serving[u].fd] = serving[u].conn
          /\ \A v \in Servers \ {u} : serving[v].fd # serving[u].fd
      BY <2>1, <3>1 DEF ServerInv, ThreadInv
    <3>4. \A v \in Servers \ {u} : serving'[v].fd # serving'[u].fd
      BY <1>6, <1>9, <3>1, <3>2, <3>3
    <3>5. QED BY <1>7, <3>1, <3>2, <3>3, <3>4
  <2>2. QED BY <2>1 DEF ThreadInv
<1>14. \A u : Sent(u)' <=> Sent(u)
  BY <1>5 DEF Sent
<1>15. CountInv'
  BY <1>5, <1>14 DEF ServerInv, CountInv
<1>16. AnswerInv'
  BY <1>4, <1>5 DEF ServerInv, AnswerInv
<1>17. SentInv'
  <2>1. \A g \in ready' : Sent(fds'[g])
    BY <1>5, <1>7, ServerFacts DEF ServerInv, SentInv
  <2>2. QED BY <1>5, <1>14, <2>1 DEF ServerInv, SentInv
<1>18. RunInv'
  BY <1>5, <1>6, <1>14 DEF ServerInv, RunInv
<1>19. QED BY <1>8, <1>10, <1>12, <1>13, <1>15, <1>16, <1>17, <1>18 DEF ServerInv

(* Every step of the client's pool, of main and of the server's threads    *)
(* preserves the server's invariant.                                       *)
LEMMA ServerNext == PoolType /\ ServerInv /\ [SystemNext]_allVars => ServerInv'
<1> SUFFICES ASSUME PoolType, ServerInv, [SystemNext]_allVars
             PROVE  ServerInv'
  OBVIOUS
<1>1. CASE UNCHANGED netVars
  <2>1. UNCHANGED <<client, backlog, requests, answers, ended, fds, registered, ready, main,
                    jobs, serving, served>>
    BY <1>1 DEF netVars
  <2>2. ServerType'
    BY <2>1 DEF ServerInv, ServerType
  <2>3. EpollInv' /\ QueueInv' /\ ThreadInv'
    BY <2>1, JobsUnchanged
  <2>4. CountInv' /\ AnswerInv' /\ \A u : Sent(u)' <=> Sent(u)
    BY <2>1, RequestsUnchanged
  <2>5. SentInv'
    BY <2>1, <2>4 DEF ServerInv, SentInv
  <2>6. RunInv'
    BY <2>1, <2>4 DEF ServerInv, RunInv
  <2>7. QED BY <2>2, <2>3, <2>4, <2>5, <2>6 DEF ServerInv
<1>2. CASE \E w \in Workers : Connect(w) \/ Send(w) \/ Receive(w) \/ CloseClient(w)
  BY <1>2, ClientServerInv
<1>3. CASE Main
  BY <1>3, AcceptServerInv, DispatchServerInv, RemoveServerInv DEF Main
<1>4. CASE \E s \in Servers : Server(s)
  BY <1>4, TakeJobServerInv, StepServerInv, CloseServerInv DEF Server
<1>5. QED BY <1>1, <1>2, <1>3, <1>4 DEF SystemNext, ClientWorker, allVars

(* The client's pool and the server keep their invariants together.        *)
LEMMA SystemHolds == SystemSpec => [](PoolType /\ ServerInv)
<1>1. SystemSpec => []PoolType
  BY ClientRunsPool, PoolHolds, PTL
<1>2. QED BY <1>1, ServerInit, ServerNext, PTL DEF SystemSpec

(* No connection ever has two NetworkTasks: main hands over a descriptor   *)
(* once, and takes it out of the epoll set before it looks at the next     *)
(* event, even where the task has already closed it and accept has given   *)
(* the number out again.  For every number of workers and of descriptors.  *)
THEOREM ConnectionsHaveOneTask == SystemSpec => []OneTaskPerConnection
<1>1. ServerInv => OneTaskPerConnection
  <2> SUFFICES ASSUME ServerInv PROVE OneTaskPerConnection
    OBVIOUS
  <2>1. \A t \in Task : served[t] <= 1
    BY DEF ServerInv, CountInv
  <2>2. \A t \in Task : client[t] \in {"received", "closed"} => served[t] = 1
    BY DEF ServerInv, AnswerInv
  <2>3. \A i \in 1 .. Len(jobs) :
          fds[jobs[i].fd] = jobs[i].conn /\ \A s \in Servers : jobs[i].fd # serving[s].fd
    BY DEF ServerInv, QueueInv
  <2>4. \A s \in Servers : serving[s] # NoJob =>
          /\ fds[serving[s].fd] = serving[s].conn
          /\ \A u \in Servers \ {s} : serving[u].fd # serving[s].fd
    BY DEF ServerInv, ThreadInv
  <2> DEFINE queued == {jobs[i] : i \in 1 .. Len(jobs)}
  <2>5. \A j \in queued : fds[j.fd] = j.conn /\ \A s \in Servers : j.fd # serving[s].fd
    BY <2>3
  <2> HIDE DEF queued
  <2>6. /\ \A j \in queued : fds[j.fd] = j.conn
        /\ \A s \in Servers : serving[s] # NoJob =>
             /\ fds[serving[s].fd] = serving[s].conn
             /\ \A j \in queued : j.fd # serving[s].fd
             /\ \A u \in Servers \ {s} : serving[u].fd # serving[s].fd
    BY <2>4, <2>5
  <2>7. QED BY <2>1, <2>2, <2>6, Zenon DEF OneTaskPerConnection, queued
<1>2. QED BY <1>1, SystemHolds, PTL
=============================================================================
