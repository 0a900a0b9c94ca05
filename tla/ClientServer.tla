---------------------------- MODULE ClientServer ----------------------------
(***************************************************************************)
(* The benchmark client against the server of db/server_main.cpp.          *)
(*                                                                         *)
(* The client's pool is ThreadPool.tla, and running a ClientTask now means *)
(* connecting, sending one request, receiving the answer and closing.  The *)
(* server's main thread accepts connections and turns the first event of   *)
(* each into a NetworkTask, which serves the connection and closes it.     *)
(* The server's pool is what ThreadPool.tla shows a pool to be: a queue    *)
(* from which each task is taken once.                                     *)
(*                                                                         *)
(* A connection is named after the task that opened it.  Requests arrive   *)
(* whole: the server exits on a request it received in part.               *)
(***************************************************************************)
EXTENDS ThreadPool, FiniteSetsExt

CONSTANTS
    Servers,    \* the workers of the server's pool
    Fd,         \* descriptors: numbers, of which the lowest free one is given out
    Missing,    \* the tasks that Get a key that is not there: an empty answer
    Free        \* a descriptor that is not open

ASSUME ServerAssumption ==
    Fd \subseteq Nat /\ Free \notin Fd \cup Task /\ Missing \subseteq Task

VARIABLES
    client,        \* how far each ClientTask is
    backlog,       \* connections that wait for accept
    requests,      \* connections with an unread request
    answers,       \* connections with an answer for the client to read
    ended,         \* connections the server has closed
    fds,           \* the connection of each open descriptor
    registered,    \* the descriptors in the epoll set
    ready,         \* those with an event: edge-triggered, reported once
    main,          \* the descriptor main has still to remove, or Free
    jobs,          \* the queue of the server's pool: a descriptor and, observed,
                   \* the connection it stood for
    serving,       \* the job of each server thread and where it is
    served         \* observed: how often the request of each task was served

netVars == <<client, backlog, requests, answers, ended, fds, registered, ready,
             main, jobs, serving, served>>
allVars == <<vars, netVars>>

NoJob == [fd |-> Free, conn |-> None, at |-> "none"]

SystemInit ==
    /\ Init
    /\ client = [t \in Task |-> "new"] /\ backlog = <<>>
    /\ requests = {} /\ answers = {} /\ ended = {}
    /\ fds = [f \in Fd |-> Free] /\ registered = {} /\ ready = {} /\ main = Free
    /\ jobs = <<>> /\ serving = [s \in Servers |-> NoJob]
    /\ served = [t \in Task |-> 0]

(* Something arrives on a connection: an event, if it is in the epoll set. *)
Arrival(t) == ready' = ready \cup {f \in registered : fds[f] = t}

-----------------------------------------------------------------------------
(* ClientTask::Run.                                                        *)
Connect(w) ==
    LET t == tid_to_task[w]
    IN /\ pc[w] = "run" /\ client[t] = "new"
       /\ client' = [client EXCEPT ![t] = "connected"]
       /\ backlog' = Append(backlog, t)
       /\ UNCHANGED <<vars, requests, answers, ended, fds, registered, ready, main, jobs,
                      serving, served>>

Send(w) ==
    LET t == tid_to_task[w]
    IN /\ pc[w] = "run" /\ client[t] = "connected"
       /\ client' = [client EXCEPT ![t] = "sent"]
       /\ requests' = requests \cup {t}
       /\ Arrival(t)
       /\ UNCHANGED <<vars, backlog, answers, ended, fds, registered, main, jobs, serving, served>>

(* recv returns with the answer, or empty when the server has closed.      *)
Receive(w) ==
    LET t == tid_to_task[w]
    IN /\ pc[w] = "run" /\ client[t] = "sent"
       /\ t \in answers \cup ended
       /\ client' = [client EXCEPT ![t] = "received"]
       /\ UNCHANGED <<vars, backlog, requests, answers, ended, fds, registered, ready, main,
                      jobs, serving, served>>

(* close; Run returns to the pool.                                         *)
CloseClient(w) ==
    LET t == tid_to_task[w]
    IN /\ Run(w) /\ client[t] = "received"
       /\ client' = [client EXCEPT ![t] = "closed"]
       /\ Arrival(t)
       /\ UNCHANGED <<backlog, requests, answers, ended, fds, registered, main, jobs, serving,
                      served>>

ClientWorker(w) ==
    \/ Connect(w) \/ Send(w) \/ Receive(w) \/ CloseClient(w)
    \/ /\ Loop(w) \/ Wait(w) \/ Break(w) \/ Take(w) \/ Finish(w)
       /\ UNCHANGED netVars

-----------------------------------------------------------------------------
(* The loop of main.                                                       *)
Accept ==
    LET f == Min({g \in Fd : fds[g] = Free})
        t == Head(backlog)
    IN /\ main = Free /\ backlog # <<>> /\ \E g \in Fd : fds[g] = Free
       /\ backlog' = Tail(backlog)
       /\ fds' = [fds EXCEPT ![f] = t]
       /\ registered' = registered \cup {f}
       /\ ready' = IF t \in requests THEN ready \cup {f} ELSE ready
       /\ UNCHANGED <<vars, client, requests, answers, ended, main, jobs, serving, served>>

(* An event of a connection: AddTask, and then EPOLL_CTL_DEL.              *)
Dispatch(f) ==
    /\ main = Free /\ f \in ready
    /\ ready' = ready \ {f}
    /\ jobs' = Append(jobs, [fd |-> f, conn |-> fds[f]])
    /\ main' = f
    /\ UNCHANGED <<vars, client, backlog, requests, answers, ended, fds, registered, serving,
                   served>>

\* Faulty variant: the descriptor stays in the epoll set.
RemovedNot(f) == {}

(* What EPOLL_CTL_DEL takes out: nothing when the descriptor is closed.    *)
Removed(f) == {f}

Remove ==
    /\ main # Free
    /\ registered' = registered \ Removed(main)
    /\ ready' = ready \ Removed(main)
    /\ main' = Free
    /\ UNCHANGED <<vars, client, backlog, requests, answers, ended, fds, jobs, serving, served>>

Main == Accept \/ (\E f \in Fd : Dispatch(f)) \/ Remove

-----------------------------------------------------------------------------
(* NetworkTask::Run in a thread of the server's pool.                      *)
TakeJob(s) ==
    /\ serving[s] = NoJob /\ jobs # <<>>
    /\ serving' = [serving EXCEPT ![s] =
                     [fd |-> Head(jobs).fd, conn |-> Head(jobs).conn, at |-> "recv"]]
    /\ jobs' = Tail(jobs)
    /\ UNCHANGED <<vars, client, backlog, requests, answers, ended, fds, registered, ready,
                   main, served>>

(* recv on a non-blocking socket: a request, which the database serves, or *)
(* the end of the loop.                                                    *)
Recv(s) ==
    LET t == fds[serving[s].fd]
        request == t \in requests
    IN /\ serving[s].at = "recv"
       /\ requests' = requests \ {t}
       /\ served' = IF request THEN [served EXCEPT ![t] = @ + 1] ELSE served
       /\ serving' = [serving EXCEPT ![s].at = IF request THEN "send" ELSE "close"]
       /\ UNCHANGED <<vars, client, backlog, answers, ended, fds, registered, ready, main, jobs>>

Answer(s) ==
    /\ serving[s].at = "send"
    /\ answers' = answers \cup ({fds[serving[s].fd]} \ Missing)
    /\ serving' = [serving EXCEPT ![s].at = "recv"]
    /\ UNCHANGED <<vars, client, backlog, requests, ended, fds, registered, ready, main, jobs,
                   served>>

\* Faulty variant: the socket is left open.
ClosedNot(s) == {}

Closed(s) == {serving[s].fd}

(* close also takes the descriptor out of the epoll set.                   *)
CloseServer(s) ==
    /\ serving[s].at = "close"
    /\ ended' = ended \cup {fds[f] : f \in Closed(s)}
    /\ fds' = [f \in Fd |-> IF f \in Closed(s) THEN Free ELSE fds[f]]
    /\ registered' = registered \ Closed(s) /\ ready' = ready \ Closed(s)
    /\ serving' = [serving EXCEPT ![s] = NoJob]
    /\ UNCHANGED <<vars, client, backlog, requests, answers, main, jobs, served>>

Server(s) == TakeJob(s) \/ Recv(s) \/ Answer(s) \/ CloseServer(s)

-----------------------------------------------------------------------------
Owner == BlockReturn \/ NotifyAll \/ DeleteTasks

SystemNext ==
    \/ \E w \in Workers : ClientWorker(w) \/ (SpuriousWakeup(w) /\ UNCHANGED netVars)
    \/ /\ (\E t \in Task : AddTask(t)) \/ BlockCall \/ Stop \/ Owner
       /\ UNCHANGED netVars
    \/ Main
    \/ \E s \in Servers : Server(s)

SystemSpec == SystemInit /\ [][SystemNext]_allVars

(* Every thread of both processes keeps running; nobody has to add a task, *)
(* to block or to stop.                                                    *)
SystemFairSpec ==
    /\ SystemSpec
    /\ \A w \in Workers : WF_allVars(ClientWorker(w))
    /\ WF_allVars(Owner /\ UNCHANGED netVars)
    /\ WF_allVars(Main)
    /\ \A s \in Servers : WF_allVars(Server(s))

-----------------------------------------------------------------------------
(* A NetworkTask knows its connection by the number of a descriptor, and   *)
(* numbers are used again.  As main removes the descriptor from the epoll  *)
(* set before it looks at another event, there is one task for each        *)
(* connection: while the task is queued or runs its number means the same  *)
(* connection, and no task reads or closes what belongs to another.  So a  *)
(* request is served only once, and before its client goes on.             *)
OneTaskPerConnection ==
    LET queued == {jobs[i] : i \in 1 .. Len(jobs)}
    IN /\ \A j \in queued : fds[j.fd] = j.conn
       /\ \A s \in Servers : serving[s] # NoJob =>
            /\ fds[serving[s].fd] = serving[s].conn
            /\ \A j \in queued : j.fd # serving[s].fd
            /\ \A u \in Servers \ {s} : serving[u].fd # serving[s].fd
       /\ \A t \in Task :
            served[t] <= 1 /\ (client[t] \in {"received", "closed"} => served[t] = 1)
=============================================================================
