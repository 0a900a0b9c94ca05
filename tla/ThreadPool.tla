------------------------------ MODULE ThreadPool ------------------------------
(***************************************************************************)
(* The thread pool of structure/thread_pool.h with its worker threads and  *)
(* the one thread that owns it, adds tasks, waits for them and stops it.   *)
(*                                                                         *)
(* A section under mutex_ is one step; stop_requested_ and, in             *)
(* BlockUntilAllTaskHaveCompleted, queue_ are read without the mutex, so   *)
(* these reads are steps of their own.                                     *)
(***************************************************************************)
EXTENDS Naturals, Sequences, FiniteSets

CONSTANTS
    Workers,    \* the threads that Start creates
    Task,       \* the tasks that may be added, nullptr among them
    Nullptr,
    None        \* no entry in tid_to_task_

ASSUME PoolAssumption ==
    /\ IsFiniteSet(Workers) /\ Workers # {}
    /\ IsFiniteSet(Task) /\ Nullptr \in Task /\ None \notin Task

VARIABLES
    queue,             \* queue_
    stop_requested,    \* stop_requested_
    tid_to_task,       \* tid_to_task_: the task each worker runs
    pc,                \* where each worker is in ProcessingLoop
    owner,             \* what the owner is doing
    added,             \* observed: the tasks passed to AddTask
    ran,               \* observed: the tasks whose Run has ended
    deletes            \* observed: how often each task was deleted

vars == <<queue, stop_requested, tid_to_task, pc, owner, added, ran, deletes>>

(* The pool after Start.                                                   *)
Init ==
    /\ queue = <<>> /\ stop_requested = FALSE
    /\ tid_to_task = [w \in Workers |-> None]
    /\ pc = [w \in Workers |-> "loop"]
    /\ owner = "idle"
    /\ added = {} /\ ran = {} /\ deletes = [t \in Task |-> 0]

Waiting == {w \in Workers : pc[w] = "waiting"}

NotifyOne ==
    \/ Waiting = {} /\ pc' = pc
    \/ \E w \in Waiting : pc' = [pc EXCEPT ![w] = "woken"]

-----------------------------------------------------------------------------
(* ProcessingLoop.                                                         *)

(* The condition of the outer loop.                                        *)
Loop(w) ==
    /\ pc[w] = "loop"
    /\ pc' = [pc EXCEPT ![w] = IF stop_requested THEN "done" ELSE "lock"]
    /\ UNCHANGED <<queue, stop_requested, tid_to_task, owner, added, ran, deletes>>

(* The condition of the inner loop.                                        *)
Waits == queue = <<>>

(* Under the mutex with an empty queue: wait, whatever stop_requested_ is  *)
(* when the thread has not waited before.                                  *)
Wait(w) ==
    /\ \/ pc[w] = "lock"
       \/ pc[w] = "woken" /\ ~stop_requested
    /\ Waits
    /\ pc' = [pc EXCEPT ![w] = "waiting"]
    /\ UNCHANGED <<queue, stop_requested, tid_to_task, owner, added, ran, deletes>>

(* The two places that leave the loop on a stop request.                   *)
Break(w) ==
    /\ \/ pc[w] = "lock" /\ queue # <<>>
       \/ pc[w] = "woken"
    /\ stop_requested
    /\ pc' = [pc EXCEPT ![w] = "done"]
    /\ UNCHANGED <<queue, stop_requested, tid_to_task, owner, added, ran, deletes>>

Skips(task) == task = Nullptr

(* Pop a task and run its RunInLock, under the mutex.                      *)
Take(w) ==
    /\ pc[w] \in {"lock", "woken"}
    /\ queue # <<>> /\ ~stop_requested
    /\ queue' = Tail(queue)
    /\ IF Skips(Head(queue))
         THEN /\ pc' = [pc EXCEPT ![w] = "loop"]
              /\ tid_to_task' = tid_to_task
         ELSE /\ pc' = [pc EXCEPT ![w] = "run"]
              /\ tid_to_task' = [tid_to_task EXCEPT ![w] = Head(queue)]
    /\ UNCHANGED <<stop_requested, owner, added, ran, deletes>>

Run(w) ==
    /\ pc[w] = "run"
    /\ ran' = ran \cup {tid_to_task[w]}
    /\ pc' = [pc EXCEPT ![w] = "finish"]
    /\ UNCHANGED <<queue, stop_requested, tid_to_task, owner, added, deletes>>

Finish(w) ==
    /\ pc[w] = "finish"
    /\ deletes' = [deletes EXCEPT ![tid_to_task[w]] = @ + 1]
    /\ tid_to_task' = [tid_to_task EXCEPT ![w] = None]
    /\ pc' = [pc EXCEPT ![w] = "loop"]
    /\ UNCHANGED <<queue, stop_requested, owner, added, ran>>

Worker(w) == Loop(w) \/ Wait(w) \/ Break(w) \/ Take(w) \/ Run(w) \/ Finish(w)

SpuriousWakeup(w) ==
    /\ pc[w] = "waiting"
    /\ pc' = [pc EXCEPT ![w] = "woken"]
    /\ UNCHANGED <<queue, stop_requested, tid_to_task, owner, added, ran, deletes>>

-----------------------------------------------------------------------------
(* The owner.                                                              *)

\* Faulty variant: only a task that finds the queue empty is announced.
AnnounceIfEmpty == IF queue = <<>> THEN NotifyOne ELSE pc' = pc

Announce == NotifyOne

AddTask(t) ==
    /\ owner = "idle"
    /\ t \notin added
    /\ queue' = Append(queue, t)
    /\ added' = added \cup {t}
    /\ Announce
    /\ UNCHANGED <<stop_requested, tid_to_task, owner, ran, deletes>>

\* Faulty variant: the last task may still be in the queue.
CompletedButOne == Len(queue) <= 1

Completed == queue = <<>>

(* BlockUntilAllTaskHaveCompleted sleeps until it finds the queue empty.   *)
BlockCall ==
    /\ owner = "idle"
    /\ owner' = "blocked"
    /\ UNCHANGED <<queue, stop_requested, tid_to_task, pc, added, ran, deletes>>

BlockReturn ==
    /\ owner = "blocked" /\ Completed
    /\ owner' = "idle"
    /\ UNCHANGED <<queue, stop_requested, tid_to_task, pc, added, ran, deletes>>

Stop ==
    /\ owner = "idle"
    /\ stop_requested' = TRUE
    /\ owner' = "notify"
    /\ UNCHANGED <<queue, tid_to_task, pc, added, ran, deletes>>

\* Faulty variant: one worker is woken, not all.
WakeAllOnlyOne == NotifyOne

WakeAll == pc' = [w \in Workers |-> IF pc[w] = "waiting" THEN "woken" ELSE pc[w]]

NotifyAll ==
    /\ owner = "notify"
    /\ owner' = "join"
    /\ WakeAll
    /\ UNCHANGED <<queue, stop_requested, tid_to_task, added, ran, deletes>>

\* Faulty variant: the tasks are deleted without waiting for the workers.
JoinedAlways == TRUE

Joined == \A w \in Workers : pc[w] = "done"

(* After the joins: tasks still registered and tasks still queued are      *)
(* deleted.                                                                *)
DeleteTasks ==
    /\ owner = "join" /\ Joined
    /\ owner' = "stopped"
    /\ queue' = <<>>
    /\ deletes' = [t \in Task |->
           deletes[t] + Cardinality({w \in Workers : tid_to_task[w] = t})
                      + Cardinality({i \in 1 .. Len(queue) : queue[i] = t /\ t # Nullptr})]
    /\ UNCHANGED <<stop_requested, tid_to_task, pc, added, ran>>

Next ==
    \/ \E w \in Workers : Worker(w) \/ SpuriousWakeup(w)
    \/ \E t \in Task : AddTask(t)
    \/ BlockCall \/ BlockReturn \/ Stop \/ NotifyAll \/ DeleteTasks

Spec == Init /\ [][Next]_vars

-----------------------------------------------------------------------------
(* A task belongs to the queue, to one worker, or is deleted, never to two *)
(* of them and never to none: Stop and the workers together delete each    *)
(* task exactly once, after it has run if a worker had it.  A nullptr that *)
(* was added is nobody's: no worker calls it.                              *)
OneOwner ==
    /\ \A w \in Workers : tid_to_task[w] # Nullptr
    /\ \A t \in added \ {Nullptr} :
         /\ Cardinality({i \in 1 .. Len(queue) : queue[i] = t})
              + (IF owner = "stopped" THEN 0
                   ELSE Cardinality({w \in Workers : tid_to_task[w] = t}))
              + deletes[t] = 1
         /\ deletes[t] = 1 => t \in ran \/ owner = "stopped"

(* While a worker sleeps, there are at least as many workers on their way  *)
(* to the queue as tasks in it: notify_one under the mutex is enough, no   *)
(* task waits for a worker that is running another one.                    *)
NoSleeperBesideBacklog ==
    Waiting # {} /\ ~stop_requested =>
      Len(queue) <= Cardinality({w \in Workers : pc[w] \in {"loop", "lock", "woken"}})

(* BlockUntilAllTaskHaveCompleted waits for the queue only: when it        *)
(* returns, tasks may still be running, and their results are the ones     *)
(* benchmark/client_main.cpp misses when it counts them after the call;    *)
(* nothing else is missing, so it misses at most one for each worker.      *)
BlockMissesRunning ==
    [][owner = "blocked" /\ owner' = "idle" =>
         Cardinality((added \ {Nullptr}) \ ran) <= Cardinality({w \in Workers : pc[w] = "run"})]_vars

(* Every task added is run, unless Stop is called.                         *)
EveryTaskRuns ==
    \A t \in Task \ {Nullptr} : t \in added ~> t \in ran \/ stop_requested

(* Stop returns, unless its notification is lost: unless it comes when a   *)
(* worker has passed the check of the outer loop and will find no task.    *)
HeardPoolStopReturns ==
    owner = "notify" /\ (queue # <<>> \/ \A w \in Workers : pc[w] # "lock")
      ~> owner = "stopped"
=============================================================================
