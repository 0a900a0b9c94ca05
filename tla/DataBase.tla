------------------------------ MODULE DataBase ------------------------------
(***************************************************************************)
(* The threads of a running DataBase (db/data_base.cpp) around its two     *)
(* in-memory buffers (db/storage_buffer.cpp): clients calling Add and Get, *)
(* the flush thread, the compaction thread, and the caller of ShutDown.    *)
(*                                                                         *)
(* A step is what a thread does between two points where another thread    *)
(* can see the difference.  Code under StorageBuffer::mutex_ is one step   *)
(* unless it writes a flag that a thread reads without the mutex           *)
(* (flush_buffer_ready_, flush_thread_ready_, is_stop_); a section under   *)
(* StorageEngine's ReadWriteLock is one step, which module ReadWriteLock   *)
(* justifies.                                                              *)
(*                                                                         *)
(* The storage engine is represented by what a lookup in its files finds   *)
(* (view) and by the number of files in level 0; module StorageEngine has  *)
(* the files, the levels and the compaction themselves.                    *)
(***************************************************************************)
EXTENDS KeyValue

CONSTANTS
    Writers, Readers, \* client threads that call Add, and Get
    NoThread,         \* nobody holds StorageBuffer::mutex_
    NoBuffer,         \* flush_buffer_ == nullptr
    BufferSize,       \* buffer_size_, in entries
    Level0Limit,      \* level0_files_number_limit_
    MaxAdds           \* bound: number of Add calls in a behaviour

ASSUME NoneAssumption ==
    /\ NoThread \notin Writers
    /\ NoBuffer \notin Buffer

ASSUME BoundAssumption ==
    /\ BufferSize \in Nat
    /\ Level0Limit \in Nat
    /\ MaxAdds \in Nat

VARIABLES
    (* StorageBuffer *)
    mutex,               \* the writer that holds mutex_ across steps
    income_buffer,       \* income_buffer_ as a map from keys to values
    income_size,         \* income_size_, in entries
    flush_buffer,        \* flush_buffer_, or NoBuffer
    flush_thread_ready,  \* flush_thread_ready_
    flush_buffer_ready,  \* flush_buffer_ready_
    (* DataBase and its threads *)
    is_stop,             \* is_stop_
    sleeping,            \* background threads inside Event::Wait
    writer,              \* program counter of each writer
    flusher,             \* program counter of ProcessingLoopFlushBuffer
    compacter,           \* program counter of ProcessingLoopCompact
    main,                \* program counter of ShutDown
    (* StorageEngine *)
    file,                \* contents of the file being flushed, or NoBuffer
    view,                \* what a lookup in the installed files finds
    level0,              \* level_files_[0].size()
    picked,              \* level-0 files taken by the current compaction
    (* Get calls, and observations for the properties *)
    get,                 \* the state of each reader's Get
    latest,              \* the value of the last Add of each key
    written,             \* every value ever added for each key
    adds                 \* number of Add calls so far

bufferVars == <<mutex, income_buffer, income_size, flush_buffer,
                flush_thread_ready, flush_buffer_ready>>
threadVars == <<writer, flusher, compacter, main, is_stop, sleeping>>
engineVars == <<file, view, level0, picked>>
clientVars == <<get, latest, written, adds>>
vars == <<bufferVars, threadVars, engineVars, clientVars>>

-----------------------------------------------------------------------------
IdleGet == [pc |-> "idle", key |-> CHOOSE k \in Key : TRUE, fresh |-> {},
            gap |-> FALSE, ret |-> NotFound]

Init ==
    /\ mutex = NoThread
    /\ income_buffer = EmptyBuffer
    /\ income_size = 0
    /\ flush_buffer = NoBuffer
    /\ flush_thread_ready = FALSE
    /\ flush_buffer_ready = FALSE
    /\ is_stop = FALSE
    /\ sleeping = {}
    /\ writer = [w \in Writers |-> "idle"]
    /\ flusher = "loop"
    /\ compacter = "loop"
    /\ main = "running"
    /\ file = NoBuffer
    /\ view = EmptyBuffer
    /\ level0 = 0
    /\ picked = 0
    /\ get = [r \in Readers |-> IdleGet]
    /\ latest = EmptyBuffer
    /\ written = [k \in Key |-> {}]
    /\ adds = 0

(* Event::Notify: cv_.notify_one() on an event only one thread waits for.  *)
(* It is lost unless that thread is inside Wait.                           *)
Notify(thread) == sleeping' = sleeping \ {thread}

-----------------------------------------------------------------------------
(* Add: DataBase::Add and StorageBuffer::Add, called with a value for Put  *)
(* and with Tomb for Delete.  The whole call holds mutex_.                 *)

\* Faulty variant: the writer does not wait for an idle flush thread.
MustSwapAlways(size) == size > BufferSize

MustSwap(size) == size > BufferSize /\ flush_thread_ready

Add(w, k, v) ==
    /\ writer[w] = "idle"
    /\ mutex = NoThread
    /\ adds < MaxAdds
    /\ income_buffer' = [income_buffer EXCEPT ![k] = v]
    /\ income_size' = income_size + 1
    /\ IF MustSwap(income_size + 1)
         THEN /\ mutex' = w
              /\ flush_thread_ready' = FALSE
              /\ writer' = [writer EXCEPT ![w] = "SwapBuffer"]
         ELSE UNCHANGED <<mutex, flush_thread_ready, writer>>
    /\ latest' = [latest EXCEPT ![k] = v]
    /\ written' = [written EXCEPT ![k] = @ \cup {v}]
    /\ adds' = adds + 1
    /\ get' = [r \in Readers |->
                 IF get[r].pc \in {"buffer", "engine"} /\ get[r].key = k
                   THEN [get[r] EXCEPT !.fresh = @ \cup {v}]
                   ELSE get[r]]
    /\ UNCHANGED <<flush_buffer, flush_buffer_ready, is_stop, sleeping,
                   flusher, compacter, main, engineVars>>

(* SwapBuffer up to its last line; the flush thread looks at none of this  *)
(* before flush_buffer_ready_ is set.                                      *)
SwapBuffer(w) ==
    /\ writer[w] = "SwapBuffer"
    /\ income_size' = 0
    /\ flush_buffer' = income_buffer
    /\ income_buffer' = EmptyBuffer
    /\ writer' = [writer EXCEPT ![w] = "ready"]
    /\ UNCHANGED <<mutex, flush_thread_ready, flush_buffer_ready, is_stop,
                   sleeping, flusher, compacter, main, engineVars, clientVars>>

SetFlushBufferReady(w) ==
    /\ writer[w] = "ready"
    /\ flush_buffer_ready' = TRUE
    /\ writer' = [writer EXCEPT ![w] = "Notify"]
    /\ UNCHANGED <<mutex, income_buffer, income_size, flush_buffer,
                   flush_thread_ready, is_stop, sleeping, flusher, compacter,
                   main, engineVars, clientVars>>

\* Faulty variant: the writer leaves Add without releasing the mutex.
ReleasedNot == mutex

Released == NoThread

NotifyFlush(w) ==
    /\ writer[w] = "Notify"
    /\ Notify("flusher")
    /\ mutex' = Released
    /\ writer' = [writer EXCEPT ![w] = "idle"]
    /\ UNCHANGED <<income_buffer, income_size, flush_buffer,
                   flush_thread_ready, flush_buffer_ready, is_stop, flusher,
                   compacter, main, engineVars, clientVars>>

-----------------------------------------------------------------------------
(* ProcessingLoopFlushBuffer.                                              *)

FlushGoto(from, to) == flusher = from /\ flusher' = to

FlushLoop ==
    /\ flusher = "loop"
    /\ flusher' = IF is_stop THEN "done" ELSE "idle"
    /\ UNCHANGED <<bufferVars, writer, compacter, main, is_stop, sleeping,
                   engineVars, clientVars>>

SetFlushThreadIdle ==
    /\ FlushGoto("idle", "check")
    /\ flush_thread_ready' = TRUE
    /\ UNCHANGED <<mutex, income_buffer, income_size, flush_buffer,
                   flush_buffer_ready, writer, compacter, main, is_stop,
                   sleeping, engineVars, clientVars>>

(* while (!FlushBufferReady() && !is_stop_): two reads, no lock.           *)
CheckFlushBufferReady ==
    /\ flusher = "check"
    /\ flusher' = IF flush_buffer_ready THEN "stopped?" ELSE "checkStop"
    /\ UNCHANGED <<bufferVars, writer, compacter, main, is_stop, sleeping,
                   engineVars, clientVars>>

\* Faulty variant: only the buffer's flag ends the wait loop.
MustWaitAnyway == TRUE

MustWait == ~is_stop

CheckStopBeforeWait ==
    /\ flusher = "checkStop"
    /\ flusher' = IF MustWait THEN "Wait" ELSE "stopped?"
    /\ UNCHANGED <<bufferVars, writer, compacter, main, is_stop, sleeping,
                   engineVars, clientVars>>

FlushWait ==
    /\ FlushGoto("Wait", "asleep")
    /\ sleeping' = sleeping \cup {"flusher"}
    /\ UNCHANGED <<bufferVars, writer, compacter, main, is_stop, engineVars,
                   clientVars>>

FlushWakeUp ==
    /\ FlushGoto("asleep", "check")
    /\ "flusher" \notin sleeping
    /\ UNCHANGED <<bufferVars, writer, compacter, main, is_stop, sleeping,
                   engineVars, clientVars>>

CheckStopAfterWait ==
    /\ flusher = "stopped?"
    /\ flusher' = IF is_stop THEN "done" ELSE "FlushBuffer"
    /\ UNCHANGED <<bufferVars, writer, compacter, main, is_stop, sleeping,
                   engineVars, clientVars>>

(* NewWritableFile and FlushBuffer: write flush_buffer_ to a file that no  *)
(* other thread knows of yet.                                              *)
FlushBuffer ==
    /\ FlushGoto("FlushBuffer", "ClearFlushBuffer")
    /\ file' = flush_buffer
    /\ UNCHANGED <<bufferVars, writer, compacter, main, is_stop, sleeping,
                   view, level0, picked, clientVars>>

\* Faulty variant: the ready flag is not reset.
ReadyAfterClearKept == flush_buffer_ready

ReadyAfterClear == FALSE

(* ClearFlushBuffer locks mutex_.  From here until AddFile the entries of  *)
(* the file are in neither buffer and in no installed file.                *)
ClearFlushBuffer ==
    /\ FlushGoto("ClearFlushBuffer", "AddFile")
    /\ mutex = NoThread
    /\ flush_buffer_ready' = ReadyAfterClear
    /\ flush_buffer' = NoBuffer
    /\ UNCHANGED <<mutex, income_buffer, income_size, flush_thread_ready,
                   writer, compacter, main, is_stop, sleeping, engineVars,
                   clientVars>>

\* Faulty variant: the new file does not hide older entries.
InstalledBelow(f) == Over(view, f)

Installed(f) == Over(f, view)

\* Faulty variant: only the file that crosses the limit is announced.
OverLimitOnce(n) == n = Level0Limit + 1

OverLimit(n) == n > Level0Limit

AddFile ==
    /\ FlushGoto("AddFile", "loop")
    /\ view' = Installed(file)
    /\ file' = NoBuffer
    /\ level0' = level0 + 1
    /\ IF OverLimit(level0 + 1) THEN Notify("compacter")
                                ELSE UNCHANGED sleeping
    /\ get' = [r \in Readers |-> IF get[r].pc = "returned" THEN get[r]
                                 ELSE [get[r] EXCEPT !.gap = FALSE]]
    /\ UNCHANGED <<bufferVars, writer, compacter, main, is_stop, picked,
                   latest, written, adds>>

Flusher ==
    \/ FlushLoop \/ SetFlushThreadIdle \/ CheckFlushBufferReady
    \/ CheckStopBeforeWait \/ FlushWait \/ FlushWakeUp \/ CheckStopAfterWait
    \/ FlushBuffer \/ ClearFlushBuffer \/ AddFile

-----------------------------------------------------------------------------
(* ProcessingLoopCompact.                                                  *)

CompactLoop ==
    /\ compacter = "loop"
    /\ compacter' = IF is_stop THEN "done" ELSE "Wait"
    /\ UNCHANGED <<bufferVars, writer, flusher, main, is_stop, sleeping,
                   engineVars, clientVars>>

CompactWait ==
    /\ compacter = "Wait" /\ compacter' = "asleep"
    /\ sleeping' = sleeping \cup {"compacter"}
    /\ UNCHANGED <<bufferVars, writer, flusher, main, is_stop, engineVars,
                   clientVars>>

CompactWakeUp ==
    /\ compacter = "asleep" /\ "compacter" \notin sleeping
    /\ compacter' = IF is_stop THEN "done" ELSE "Compact"
    /\ UNCHANGED <<bufferVars, writer, flusher, main, is_stop, sleeping,
                   engineVars, clientVars>>

\* Faulty variant: a file more than there are.
PickableBeyond == 1 .. level0 + 1

Pickable == 1 .. level0

(* Compact(0) looks at level_files_[0] and returns, or picks some of its   *)
(* files.                                                                  *)
Compact ==
    /\ compacter = "Compact"
    /\ \/ /\ level0 <= Level0Limit
          /\ compacter' = "deeper"
          /\ UNCHANGED picked
       \/ /\ level0 > Level0Limit
          /\ picked' \in Pickable
          /\ compacter' = "UpdateMapAfterCompaction"
    /\ UNCHANGED <<bufferVars, writer, flusher, main, is_stop, sleeping, file,
                   view, level0, clientVars>>

(* A compaction changes what a lookup finds only for keys whose newest     *)
(* entry is a tombstone: the tombstone goes away, which may leave nothing  *)
(* or uncover an older entry.  StorageEngine is shown to do no more        *)
(* (ImplementsAbstractStore).                                              *)
ViewAfterCompaction == Forgetting(view, written)

UpdateMapAfterCompaction ==
    /\ compacter = "UpdateMapAfterCompaction" /\ compacter' = "Compact"
    /\ level0' = level0 - picked
    /\ picked' = 0
    /\ view' \in ViewAfterCompaction
    /\ UNCHANGED <<bufferVars, writer, flusher, main, is_stop, sleeping, file,
                   clientVars>>

(* The pending calls Compact(1), Compact(2)...: level 0 is not looked at   *)
(* again before the thread waits.                                          *)
CompactDeeper ==
    /\ compacter = "deeper" /\ compacter' = "loop"
    /\ view' \in ViewAfterCompaction
    /\ UNCHANGED <<bufferVars, writer, flusher, main, is_stop, sleeping, file,
                   level0, picked, clientVars>>

Compacter ==
    \/ CompactLoop \/ CompactWait \/ CompactWakeUp \/ Compact
    \/ UpdateMapAfterCompaction \/ CompactDeeper

(* A condition variable may wake its waiter without a notification.        *)
SpuriousWakeup ==
    /\ \E thread \in sleeping : sleeping' = sleeping \ {thread}
    /\ UNCHANGED <<bufferVars, writer, flusher, compacter, main, is_stop,
                   engineVars, clientVars>>

-----------------------------------------------------------------------------
(* ShutDown.                                                               *)

SetStop ==
    /\ main = "running" /\ main' = "NotifyFlush"
    /\ is_stop' = TRUE
    /\ UNCHANGED <<bufferVars, writer, flusher, compacter, sleeping,
                   engineVars, clientVars>>

StopNotify(from, thread, to) ==
    /\ main = from /\ main' = to
    /\ Notify(thread)
    /\ UNCHANGED <<bufferVars, writer, flusher, compacter, is_stop,
                   engineVars, clientVars>>

Join ==
    /\ main = "join" /\ main' = "done"
    /\ flusher = "done" /\ compacter = "done"
    /\ UNCHANGED <<bufferVars, writer, flusher, compacter, is_stop, sleeping,
                   engineVars, clientVars>>

ShutDown ==
    \/ StopNotify("NotifyFlush", "flusher", "NotifyCompact")
    \/ StopNotify("NotifyCompact", "compacter", "join")
    \/ Join

-----------------------------------------------------------------------------
(* DataBase::Get: first the two buffers, under mutex_, then the files.     *)

(* The entry of k has left the buffers and its file is not installed yet.  *)
InGap(k) == flusher = "AddFile" /\ file[k] # NotFound

GetCall(r, k) ==
    /\ get[r].pc = "idle"
    /\ ~is_stop
    /\ get' = [get EXCEPT ![r] = [pc |-> "buffer", key |-> k,
                                  fresh |-> {latest[k]}, gap |-> FALSE,
                                  ret |-> NotFound]]
    /\ UNCHANGED <<bufferVars, threadVars, engineVars, latest, written, adds>>

\* Faulty variant: the flush buffer is not searched.
BufferGetIncomeOnly(k) == income_buffer[k]

BufferGet(k) ==
    IF income_buffer[k] # NotFound \/ flush_buffer = NoBuffer
      THEN income_buffer[k]
      ELSE flush_buffer[k]

GetFromBuffer(r) ==
    /\ get[r].pc = "buffer"
    /\ mutex = NoThread
    /\ LET v == BufferGet(get[r].key)
       IN get' = [get EXCEPT ![r].ret = v, ![r].gap = InGap(get[r].key),
                             ![r].pc = IF v # NotFound THEN "returned"
                                                       ELSE "engine"]
    /\ UNCHANGED <<bufferVars, threadVars, engineVars, latest, written, adds>>

GetFromEngine(r) ==
    /\ get[r].pc = "engine"
    /\ get' = [get EXCEPT ![r].ret = view[get[r].key], ![r].pc = "returned"]
    /\ UNCHANGED <<bufferVars, threadVars, engineVars, latest, written, adds>>

GetReturn(r) ==
    /\ get[r].pc = "returned"
    /\ get' = [get EXCEPT ![r] = IdleGet]
    /\ UNCHANGED <<bufferVars, threadVars, engineVars, latest, written, adds>>

-----------------------------------------------------------------------------
WriterStep(w) == SwapBuffer(w) \/ SetFlushBufferReady(w) \/ NotifyFlush(w)
GetStep(r) == GetFromBuffer(r) \/ GetFromEngine(r) \/ GetReturn(r)

Next ==
    \/ \E w \in Writers : (\E k \in Key, v \in Value : Add(w, k, v)) \/ WriterStep(w)
    \/ \E r \in Readers : (\E k \in Key : GetCall(r, k)) \/ GetStep(r)
    \/ Flusher \/ Compacter \/ SpuriousWakeup
    \/ SetStop \/ ShutDown

Spec == Init /\ [][Next]_vars

(* Every thread that can take a step is eventually scheduled.  Clients     *)
(* need not call, ShutDown need not be called, and spurious wakeups need   *)
(* not happen.  Adds are bounded, so weak fairness gives a thread waiting  *)
(* for mutex_ its turn.                                                    *)
Fairness ==
    /\ WF_vars(Flusher) /\ WF_vars(Compacter) /\ WF_vars(ShutDown)
    /\ \A w \in Writers : WF_vars(WriterStep(w))
    /\ \A r \in Readers : WF_vars(GetStep(r))

FairSpec == Spec /\ Fairness

-----------------------------------------------------------------------------
GetState == [pc : {"idle", "buffer", "engine", "returned"}, key : Key,
             fresh : SUBSET Result, gap : BOOLEAN, ret : Result]

(* The values each variable may take.                                      *)
TypeOK ==
    /\ mutex \in Writers \cup {NoThread}
    /\ income_buffer \in Buffer
    /\ income_size \in Nat
    /\ flush_buffer \in Buffer \cup {NoBuffer}
    /\ flush_thread_ready \in BOOLEAN
    /\ flush_buffer_ready \in BOOLEAN
    /\ is_stop \in BOOLEAN
    /\ sleeping \in SUBSET {"flusher", "compacter"}
    /\ writer \in [Writers -> {"idle", "SwapBuffer", "ready", "Notify"}]
    /\ flusher \in {"loop", "idle", "check", "checkStop", "Wait", "asleep",
                    "stopped?", "FlushBuffer", "ClearFlushBuffer", "AddFile",
                    "done"}
    /\ compacter \in {"loop", "Wait", "asleep", "Compact",
                      "UpdateMapAfterCompaction", "deeper", "done"}
    /\ main \in {"running", "NotifyFlush", "NotifyCompact", "join", "done"}
    /\ file \in Buffer \cup {NoBuffer}
    /\ view \in Buffer
    /\ level0 \in Nat
    /\ picked \in 0 .. level0
    /\ get \in [Readers -> GetState]
    /\ latest \in Buffer
    /\ written \in [Key -> SUBSET Value]
    /\ adds \in 0 .. MaxAdds

(* SwapBuffer overwrites flush_buffer_ without looking at it.  When it     *)
(* runs, the buffer swapped before has been flushed, dropped and installed *)
(* as a file: flush_thread_ready_ is enough of a handshake although the    *)
(* flush thread sets it without the mutex (storage_buffer.h:81).           *)
SwapSafe ==
    \A w \in Writers :
        writer[w] = "SwapBuffer" => flush_buffer = NoBuffer /\ file = NoBuffer

(* FlushBuffer's assertion (storage_buffer.cpp:139) holds, and what        *)
(* ClearFlushBuffer deletes is exactly what FlushBuffer wrote, although    *)
(* FlushBuffer reads flush_buffer_ without the mutex.                      *)
WrittenBeforeDropped ==
    /\ flusher = "FlushBuffer" => flush_buffer # NoBuffer
    /\ flusher = "ClearFlushBuffer" => file = flush_buffer /\ file # NoBuffer

(* The newest entry of a key, from the newest place to the oldest.         *)
Contents(buffer) == IF buffer = NoBuffer THEN EmptyBuffer ELSE buffer

Store ==
    LET unflushed == IF flusher = "AddFile" THEN file ELSE Contents(flush_buffer)
    IN Over(income_buffer, Over(unflushed, view))

(* No Put is lost or hidden by an older one on its way from the income     *)
(* buffer through the flush buffer to a file, however the writers and the  *)
(* flush thread interleave, before and after ShutDown, as long as the      *)
(* process lives.                                                          *)
NothingLost == \A k \in Key : latest[k] # Tomb => Store[k] = latest[k]

Abstract == INSTANCE AbstractStore WITH view <- Store, updates <- adds

(* The same as a refinement: taken together, buffers and files are a map   *)
(* that changes by one entry with every Add and otherwise only forgets     *)
(* tombstones, although a flush moves its entries in three steps.          *)
ImplementsAbstractStore == Abstract!Spec

(* A Get returns a value its key had at some moment during the call (keys  *)
(* deleted meanwhile aside).  This is what data_base_test.cpp:60 expects.  *)
GetFresh ==
    \A r \in Readers :
        get[r].pc = "returned" /\ Tomb \notin get[r].fresh
            => get[r].ret \in get[r].fresh

(* The only Gets that return anything else looked into both the buffers    *)
(* and the files between ClearFlushBuffer and AddFile of one flush         *)
(* (data_base.cpp:42-46), for a key of that flush.                         *)
GetFreshOutsideGap ==
    \A r \in Readers :
        get[r].pc = "returned" /\ Tomb \notin get[r].fresh
            => get[r].ret \in get[r].fresh \/ get[r].gap

(* A notification that finds the flush thread asleep leads to the buffer   *)
(* being flushed, unless the database is shut down first.                  *)
HeardNotifyFlushes ==
    (flusher = "asleep" /\ \E w \in Writers : writer[w] = "Notify")
        ~> (~flush_buffer_ready \/ is_stop)

(* ShutDown returns if it finds both background threads asleep.            *)
HeardStopReturns ==
    (main = "NotifyFlush" /\ flusher = "asleep" /\ compacter = "asleep")
        ~> main = "done"

(* The flush thread flushes every buffer handed to it (data_base.h:32)     *)
(* unless the database is shut down first.                                 *)
EveryBufferFlushed == flush_buffer_ready ~> (~flush_buffer_ready \/ is_stop)

(* AddFile's notification is heard by nobody while the compaction thread   *)
(* works on deeper levels or has yet to wait, and level 0 stays over its   *)
(* limit.  The next AddFile that finds the thread asleep makes up for it,  *)
(* unless the database is shut down first.                                 *)
HeardNotifyCompacts ==
    (flusher = "AddFile" /\ level0 > Level0Limit /\ compacter = "asleep")
        ~> (level0 <= Level0Limit \/ is_stop)

=============================================================================
