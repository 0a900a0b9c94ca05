---------------------------- MODULE DataBaseProofs ----------------------------
(* Proofs about DataBase for any sets of keys, values, writers and readers *)
(* and any limits.                                                         *)
EXTENDS DataBase, TLAPS

(* Where the flush thread may be while no buffer is being flushed and the  *)
(* previous one is installed: only there may a writer swap.                *)
Listening == {"check", "checkStop", "Wait", "asleep", "stopped?", "done"}

Swapping(w) == writer[w] \in {"SwapBuffer", "ready"}

(* The inductive invariant of the handshake between Add and the flush      *)
(* thread: who may touch flush_buffer_ is decided by the two flags and the *)
(* program counters, never by the mutex alone.                             *)
Handshake ==
    /\ \A w \in Writers : writer[w] # "idle" => mutex = w
    /\ flush_thread_ready =>
         /\ flusher \in Listening
         /\ flush_buffer = NoBuffer /\ ~flush_buffer_ready
         /\ \A w \in Writers : ~Swapping(w)
    /\ flush_buffer_ready =>
         /\ flusher \in Listening \cup {"FlushBuffer", "ClearFlushBuffer"}
         /\ flush_buffer # NoBuffer
         /\ \A w \in Writers : ~Swapping(w)
    /\ \A w \in Writers : Swapping(w) =>
         /\ flusher \in Listening
         /\ writer[w] = "SwapBuffer" <=> flush_buffer = NoBuffer
    /\ flusher \in {"loop", "idle", "AddFile"} => flush_buffer = NoBuffer
    /\ flusher \in {"FlushBuffer", "ClearFlushBuffer"} => flush_buffer_ready
    /\ flusher = "stopped?" => flush_buffer_ready \/ is_stop
    /\ file # NoBuffer <=> flusher \in {"ClearFlushBuffer", "AddFile"}
    /\ flusher = "ClearFlushBuffer" => file = flush_buffer

IInv == TypeOK /\ Handshake /\ NothingLost

(* Laying one map over another gives a map.                                *)
LEMMA OverType ==
    ASSUME NEW f \in Buffer, NEW g \in Buffer
    PROVE  Over(f, g) \in Buffer
BY DEF Over, Buffer

(* A reader that does nothing is in its type.                              *)
LEMMA IdleGetType == IdleGet \in GetState
<1>1. (CHOOSE k \in Key : TRUE) \in Key
  BY DataAssumption
<1>2. NotFound \in Result
  BY DEF Result
<1>3. QED BY <1>1, <1>2 DEF IdleGet, GetState

(* Closing the gap of a Get keeps it in its type.                          *)
LEMMA GapType ==
    ASSUME NEW g \in GetState
    PROVE  [g EXCEPT !.gap = FALSE] \in GetState
BY DEF GetState

(* The initial state is in the type invariant.                             *)
LEMMA InitType == Init => TypeOK
<1> SUFFICES ASSUME Init PROVE TypeOK
  OBVIOUS
<1>1. EmptyBuffer \in Buffer
  BY DEF EmptyBuffer, Buffer, Result
<1>2. get \in [Readers -> GetState]
  BY IdleGetType DEF Init
<1>3. adds \in 0 .. MaxAdds /\ picked \in 0 .. level0
  BY BoundAssumption DEF Init
<1>4. written \in [Key -> SUBSET Value]
  BY DEF Init
<1>5. QED
  BY <1>1, <1>2, <1>3, <1>4 DEF Init, TypeOK

(* A step of a writer keeps the types.                                     *)
LEMMA WriterType ==
    ASSUME TypeOK, NEW w \in Writers,
           (\E k \in Key, v \in Value : Add(w, k, v)) \/ WriterStep(w)
    PROVE  TypeOK'
<1>1. ASSUME NEW k \in Key, NEW v \in Value, Add(w, k, v)
      PROVE  TypeOK'
  <2>1. v \in Result BY DEF Result
  <2>2. income_buffer' \in Buffer /\ latest' \in Buffer
    BY <1>1, <2>1 DEF Add, TypeOK, Buffer
  <2>3. written' \in [Key -> SUBSET Value]
    BY <1>1 DEF Add, TypeOK
  <2>4. income_size' \in Nat /\ adds' \in 0 .. MaxAdds
    BY <1>1, BoundAssumption, SMTT(30) DEF Add, TypeOK
  <2>5. get' \in [Readers -> GetState]
    BY <1>1, <2>1 DEF Add, TypeOK, GetState
  <2>6. /\ mutex' \in Writers \cup {NoThread}
        /\ flush_thread_ready' \in BOOLEAN
        /\ writer' \in [Writers -> {"idle", "SwapBuffer", "ready", "Notify"}]
    BY <1>1 DEF Add, TypeOK
  <2>7. UNCHANGED <<flush_buffer, flush_buffer_ready, is_stop, sleeping,
                    flusher, compacter, main, file, view, level0, picked>>
    BY <1>1 DEF Add, engineVars
  <2>8. QED
    BY <2>2, <2>3, <2>4, <2>5, <2>6, <2>7 DEF TypeOK
<1>2. CASE SwapBuffer(w)
  <2>1. EmptyBuffer \in Buffer BY DEF EmptyBuffer, Buffer, Result
  <2>2. QED BY <1>2, <2>1 DEF SwapBuffer, engineVars, clientVars, TypeOK
<1>3. CASE SetFlushBufferReady(w)
  BY <1>3 DEF SetFlushBufferReady, engineVars, clientVars, TypeOK
<1>4. CASE NotifyFlush(w)
  BY <1>4 DEF NotifyFlush, Released, Notify, engineVars, clientVars, TypeOK
<1>5. QED BY <1>1, <1>2, <1>3, <1>4 DEF WriterStep

(* A step of the flush thread keeps the types.                             *)
LEMMA FlusherType == ASSUME TypeOK, Handshake, Flusher PROVE TypeOK'
<1> USE DEF FlushGoto, bufferVars, engineVars, clientVars, TypeOK
<1>1. CASE FlushLoop BY <1>1 DEF FlushLoop
<1>2. CASE SetFlushThreadIdle BY <1>2 DEF SetFlushThreadIdle
<1>3. CASE CheckFlushBufferReady BY <1>3 DEF CheckFlushBufferReady
<1>4. CASE CheckStopBeforeWait BY <1>4 DEF CheckStopBeforeWait, MustWait
<1>5. CASE FlushWait BY <1>5 DEF FlushWait
<1>6. CASE FlushWakeUp BY <1>6 DEF FlushWakeUp
<1>7. CASE CheckStopAfterWait BY <1>7 DEF CheckStopAfterWait
<1>8. CASE FlushBuffer BY <1>8 DEF FlushBuffer
<1>9. CASE ClearFlushBuffer
  <2>1. flusher' = "AddFile" /\ flush_buffer' = NoBuffer
    BY <1>9 DEF ClearFlushBuffer, ReadyAfterClear
  <2>2. flush_buffer_ready' \in BOOLEAN
    BY <1>9, Zenon DEF ClearFlushBuffer, ReadyAfterClear
  <2>3. UNCHANGED <<mutex, income_buffer, income_size, flush_thread_ready, writer,
                    compacter, main, is_stop, sleeping, engineVars, clientVars>>
    BY <1>9 DEF ClearFlushBuffer, ReadyAfterClear
  <2>4. QED BY <2>1, <2>2, <2>3
<1>10. CASE AddFile
  <2>1. file \in Buffer BY <1>10 DEF AddFile, Installed, OverLimit, Handshake
  <2>2. view' \in Buffer BY <1>10, <2>1, OverType DEF AddFile, Installed, OverLimit
  <2>3. get' \in [Readers -> GetState] BY <1>10, GapType DEF AddFile, Installed, OverLimit
  <2>4. sleeping' \in SUBSET {"flusher", "compacter"} BY <1>10 DEF AddFile, Installed, OverLimit, Notify
  <2>5. level0' \in Nat /\ picked' \in 0 .. level0' BY <1>10 DEF AddFile, Installed, OverLimit
  <2>6. QED BY <1>10, <2>2, <2>3, <2>4, <2>5 DEF AddFile, Installed, OverLimit
<1>11. QED
  BY <1>1, <1>2, <1>3, <1>4, <1>5, <1>6, <1>7, <1>8, <1>9, <1>10 DEF Flusher

(* A step of the compaction thread keeps the types.                        *)
LEMMA CompacterType == ASSUME TypeOK, Compacter PROVE TypeOK'
<1> USE DEF bufferVars, engineVars, clientVars, TypeOK
<1>1. CASE CompactLoop BY <1>1 DEF CompactLoop
<1>2. CASE CompactWait BY <1>2 DEF CompactWait
<1>3. CASE CompactWakeUp BY <1>3 DEF CompactWakeUp
<1>4. CASE Compact
  <2>1. picked' \in 0 .. level0' BY <1>4 DEF Compact, Pickable
  <2>2. QED BY <1>4, <2>1 DEF Compact, Pickable
<1>5. CASE UpdateMapAfterCompaction
  <2>1. view' \in Buffer
    BY <1>5 DEF UpdateMapAfterCompaction, ViewAfterCompaction, Forgetting
  <2>2. level0' \in Nat /\ picked' \in 0 .. level0'
    BY <1>5 DEF UpdateMapAfterCompaction
  <2>3. QED BY <1>5, <2>1, <2>2 DEF UpdateMapAfterCompaction
<1>6. CASE CompactDeeper
  <2>1. view' \in Buffer
    BY <1>6 DEF CompactDeeper, ViewAfterCompaction, Forgetting
  <2>2. QED BY <1>6, <2>1 DEF CompactDeeper
<1>7. QED BY <1>1, <1>2, <1>3, <1>4, <1>5, <1>6 DEF Compacter

(* So do the steps of a Get, of ShutDown, and a spurious wakeup.           *)
LEMMA OtherType ==
    ASSUME TypeOK,
           \/ \E r \in Readers : (\E k \in Key : GetCall(r, k)) \/ GetStep(r)
           \/ SpuriousWakeup \/ SetStop \/ ShutDown
    PROVE  TypeOK'
<1> USE DEF bufferVars, threadVars, engineVars, clientVars
<1>1. ASSUME NEW r \in Readers, (\E k \in Key : GetCall(r, k)) \/ GetStep(r)
      PROVE  TypeOK'
  <2>1. CASE \E k \in Key : GetCall(r, k)
    <3>1. get' \in [Readers -> GetState]
      BY <2>1 DEF GetCall, TypeOK, GetState, Buffer, Result
    <3>2. QED BY <2>1, <3>1 DEF GetCall, TypeOK
  <2>2. CASE GetFromBuffer(r)
    <3>1. get[r].key \in Key BY DEF TypeOK, GetState
    <3>2. BufferGet(get[r].key) \in Result
      BY <3>1, NoneAssumption DEF BufferGet, TypeOK, Buffer
    <3>3. InGap(get[r].key) \in BOOLEAN BY DEF InGap
    <3>4. get' \in [Readers -> GetState]
      BY <2>2, <3>2, <3>3 DEF GetFromBuffer, TypeOK, GetState
    <3>5. QED BY <2>2, <3>4 DEF GetFromBuffer, TypeOK
  <2>3. CASE GetFromEngine(r)
    <3>1. view[get[r].key] \in Result BY DEF TypeOK, GetState, Buffer
    <3>2. get' \in [Readers -> GetState]
      BY <2>3, <3>1 DEF GetFromEngine, TypeOK, GetState
    <3>3. QED BY <2>3, <3>2 DEF GetFromEngine, TypeOK
  <2>4. CASE GetReturn(r)
    BY <2>4, IdleGetType DEF GetReturn, TypeOK
  <2>5. QED BY <1>1, <2>1, <2>2, <2>3, <2>4 DEF GetStep
<1>2. CASE SpuriousWakeup BY <1>2 DEF SpuriousWakeup, TypeOK
<1>3. CASE SetStop BY <1>3 DEF SetStop, TypeOK
<1>4. CASE ShutDown
  <2>1. /\ main' \in {"NotifyCompact", "join", "done"}
        /\ sleeping' \in SUBSET {"flusher", "compacter"}
    BY <1>4 DEF ShutDown, StopNotify, Join, Notify, TypeOK
  <2>2. UNCHANGED <<bufferVars, writer, flusher, compacter, is_stop, engineVars,
                    clientVars>>
    BY <1>4 DEF ShutDown, StopNotify, Join
  <2>3. QED BY <2>1, <2>2 DEF TypeOK
<1>5. QED BY <1>1, <1>2, <1>3, <1>4

(* The handshake holds initially.                                          *)
LEMMA InitHandshake == Init => Handshake
BY DEF Init, Handshake, Swapping, Listening

(* A step of a writer keeps the handshake: it swaps only when the flush    *)
(* thread is listening and nothing is left to flush.                       *)
LEMMA WriterHandshake ==
    ASSUME TypeOK, Handshake, NEW w \in Writers,
           (\E k \in Key, v \in Value : Add(w, k, v)) \/ WriterStep(w)
    PROVE  Handshake'
<1> USE NoneAssumption DEF TypeOK, Handshake, Swapping, engineVars, clientVars
<1>1. ASSUME NEW k \in Key, NEW v \in Value, Add(w, k, v)
      PROVE  Handshake'
  <2>1. \A u \in Writers : writer[u] = "idle"
    BY <1>1 DEF Add
  <2>2. CASE MustSwap(income_size + 1)
    BY <1>1, <2>1, <2>2 DEF Add, MustSwap
  <2>3. CASE ~MustSwap(income_size + 1)
    BY <1>1, <2>1, <2>3 DEF Add
  <2>4. QED BY <2>2, <2>3
<1>2. CASE SwapBuffer(w)
  <2>1. \A u \in Writers : u # w => writer[u] = "idle"
    BY <1>2 DEF SwapBuffer
  <2>2. flusher \in Listening /\ ~flush_thread_ready /\ ~flush_buffer_ready
    BY <1>2 DEF SwapBuffer
  <2>3. flush_buffer' # NoBuffer
    BY <1>2 DEF SwapBuffer
  <2>4. \A u \in Writers : writer'[u] = IF u = w THEN "ready" ELSE writer[u]
    BY <1>2 DEF SwapBuffer
  <2>5. QED
    BY <1>2, <2>1, <2>2, <2>3, <2>4 DEF SwapBuffer, Listening
<1>3. CASE SetFlushBufferReady(w)
  BY <1>3 DEF SetFlushBufferReady
<1>4. CASE NotifyFlush(w)
  BY <1>4 DEF NotifyFlush, Released
<1>5. QED BY <1>1, <1>2, <1>3, <1>4 DEF WriterStep

(* A step of the flush thread keeps the handshake.                         *)
LEMMA FlusherHandshake == ASSUME TypeOK, Handshake, Flusher PROVE Handshake'
<1> USE NoneAssumption
    DEF FlushGoto, bufferVars, engineVars, clientVars, TypeOK, Handshake,
        Swapping, Listening
<1>1. CASE FlushLoop BY <1>1 DEF FlushLoop
<1>2. CASE SetFlushThreadIdle BY <1>2 DEF SetFlushThreadIdle
<1>3. CASE CheckFlushBufferReady BY <1>3 DEF CheckFlushBufferReady
<1>4. CASE CheckStopBeforeWait BY <1>4 DEF CheckStopBeforeWait, MustWait
<1>5. CASE FlushWait BY <1>5 DEF FlushWait
<1>6. CASE FlushWakeUp BY <1>6 DEF FlushWakeUp
<1>7. CASE CheckStopAfterWait BY <1>7 DEF CheckStopAfterWait
<1>8. CASE FlushBuffer BY <1>8 DEF FlushBuffer
<1>9. CASE ClearFlushBuffer BY <1>9 DEF ClearFlushBuffer, ReadyAfterClear
<1>10. CASE AddFile BY <1>10 DEF AddFile, Installed, OverLimit
<1>11. QED
  BY <1>1, <1>2, <1>3, <1>4, <1>5, <1>6, <1>7, <1>8, <1>9, <1>10 DEF Flusher

(* The other threads touch nothing the handshake speaks of but is_stop.    *)
LEMMA OtherHandshake ==
    ASSUME TypeOK, Handshake,
           \/ \E r \in Readers : (\E k \in Key : GetCall(r, k)) \/ GetStep(r)
           \/ Compacter \/ SpuriousWakeup \/ SetStop \/ ShutDown
    PROVE  Handshake'
<1>1. /\ UNCHANGED <<bufferVars, writer, flusher, file>>
      /\ is_stop' = is_stop \/ is_stop' = TRUE
  <2> USE DEF bufferVars, threadVars, engineVars
  <2>1. CASE \E r \in Readers : (\E k \in Key : GetCall(r, k)) \/ GetStep(r)
    BY <2>1 DEF GetCall, GetStep, GetFromBuffer, GetFromEngine, GetReturn
  <2>2. CASE Compacter
    BY <2>2 DEF Compacter, CompactLoop, CompactWait, CompactWakeUp, Compact, Pickable,
                UpdateMapAfterCompaction, CompactDeeper
  <2>3. CASE SpuriousWakeup \/ SetStop \/ ShutDown
    BY <2>3 DEF SpuriousWakeup, SetStop, ShutDown, StopNotify, Join
  <2>4. QED BY <2>1, <2>2, <2>3
<1>2. QED
  BY <1>1 DEF Handshake, Swapping, bufferVars

(* Every step keeps the types and the handshake.                           *)
LEMMA NextHandshake ==
    TypeOK /\ Handshake /\ [Next]_vars => TypeOK' /\ Handshake'
<1> SUFFICES ASSUME TypeOK, Handshake, [Next]_vars PROVE TypeOK' /\ Handshake'
  OBVIOUS
<1>1. CASE \E w \in Writers :
             (\E k \in Key, v \in Value : Add(w, k, v)) \/ WriterStep(w)
  BY <1>1, WriterType, WriterHandshake
<1>2. CASE \E r \in Readers : (\E k \in Key : GetCall(r, k)) \/ GetStep(r)
  BY <1>2, OtherType, OtherHandshake
<1>3. CASE Flusher
  BY <1>3, FlusherType, FlusherHandshake
<1>4. CASE Compacter
  BY <1>4, CompacterType, OtherHandshake
<1>5. CASE SpuriousWakeup \/ SetStop \/ ShutDown
  BY <1>5, OtherType, OtherHandshake
<1>6. CASE UNCHANGED vars
  <2>1. TypeOK'
    BY <1>6 DEF vars, bufferVars, threadVars, engineVars, clientVars, TypeOK
  <2>2. Handshake'
    BY <1>6 DEF vars, bufferVars, threadVars, engineVars, clientVars, Handshake, Swapping
  <2>3. QED BY <2>1, <2>2
<1>7. QED BY <1>1, <1>2, <1>3, <1>4, <1>5, <1>6 DEF Next

(* The types and the handshake hold throughout.                            *)
LEMMA HandshakeHolds == Spec => [](TypeOK /\ Handshake)
<1>1. Init => TypeOK /\ Handshake
  BY InitType, InitHandshake
<1>2. QED BY <1>1, NextHandshake, PTL DEF Spec

(* The variables keep their types; no compaction takes more files out of   *)
(* level 0 than there are (storage_engine.cpp:235-275).                    *)
THEOREM DataBaseTypes == Spec => []TypeOK
BY HandshakeHolds, PTL

(* The unlocked handshake is safe for any number of writers: SwapBuffer    *)
(* never overwrites a buffer that is not flushed and installed             *)
(* (storage_buffer.cpp:36-62).                                             *)
THEOREM SwapIsSafe == Spec => []SwapSafe
<1>1. TypeOK /\ Handshake => SwapSafe
  BY DEF Handshake, Swapping, Listening, SwapSafe
<1>2. QED BY <1>1, HandshakeHolds, PTL

(* The flush thread never works on a missing buffer, and drops exactly     *)
(* what it wrote (storage_buffer.cpp:135-170).                             *)
THEOREM DropsWhatItWrote == Spec => []WrittenBeforeDropped
<1>1. TypeOK /\ Handshake => WrittenBeforeDropped
  BY DEF Handshake, WrittenBeforeDropped
<1>2. QED BY <1>1, HandshakeHolds, PTL

-----------------------------------------------------------------------------
(* The buffers and files taken together.                                   *)

Unflushed == IF flusher = "AddFile" THEN file ELSE Contents(flush_buffer)

(* Store key by key.                                                       *)
LEMMA StoreAt ==
    ASSUME NEW k \in Key
    PROVE  Store[k] = IF income_buffer[k] # NotFound THEN income_buffer[k]
                      ELSE IF Unflushed[k] # NotFound THEN Unflushed[k]
                      ELSE view[k]
BY DEF Store, Unflushed, Over

(* The same after a step.                                                  *)
LEMMA StoreAtNext ==
    ASSUME NEW k \in Key
    PROVE  Store'[k] = IF income_buffer'[k] # NotFound THEN income_buffer'[k]
                       ELSE IF Unflushed'[k] # NotFound THEN Unflushed'[k]
                       ELSE view'[k]
BY DEF Store, Unflushed, Over

(* Store is a map; two stores that agree on every key are equal.           *)
LEMMA StoreEqual ==
    ASSUME \A k \in Key : Store'[k] = Store[k]
    PROVE  Store' = Store
BY DEF Store, Over

(* Store is always a map from keys to results.                             *)
LEMMA StoreType == ASSUME TypeOK, Handshake PROVE Store \in Buffer
<1>1. EmptyBuffer \in Buffer BY DEF EmptyBuffer, Buffer, Result
<1>2. Unflushed \in Buffer
  BY <1>1 DEF Unflushed, Contents, TypeOK, Handshake
<1>3. Over(Unflushed, view) \in Buffer
  BY <1>2, OverType DEF TypeOK
<1>4. Over(income_buffer, Over(Unflushed, view)) \in Buffer
  BY <1>3, OverType DEF TypeOK
<1>5. QED BY <1>4 DEF Store, Unflushed

(* SwapBuffer moves entries into an empty place: no lookup changes.        *)
LEMMA SwapStore ==
    ASSUME TypeOK, Handshake, NEW w \in Writers, SwapBuffer(w)
    PROVE  Store' = Store
<1>1. flusher \in Listening /\ flush_buffer = NoBuffer
  BY DEF SwapBuffer, Handshake, Swapping
<1>2. \A k \in Key : Unflushed[k] = NotFound
  BY <1>1 DEF Unflushed, Contents, EmptyBuffer, Listening
<1>3. Unflushed' = income_buffer
  BY <1>1, NoneAssumption DEF SwapBuffer, Unflushed, Contents, Listening, TypeOK
<1>4. \A k \in Key : income_buffer'[k] = NotFound
  BY DEF SwapBuffer, EmptyBuffer
<1>5. view' = view
  BY DEF SwapBuffer, engineVars
<1>6. \A k \in Key : Store'[k] = Store[k]
  BY <1>2, <1>3, <1>4, <1>5, StoreAt, StoreAtNext
<1>7. QED BY <1>6, StoreEqual

(* No step of the flush thread changes what a lookup would find, had it    *)
(* access to the file in flight.                                           *)
LEMMA FlusherStore ==
    ASSUME TypeOK, Handshake, Flusher
    PROVE  Store' = Store /\ UNCHANGED <<latest, written, adds>>
<1> USE DEF FlushGoto, bufferVars, engineVars, clientVars
<1>1. CASE ClearFlushBuffer
  <2>1. Unflushed' = Unflushed
    BY <1>1 DEF ClearFlushBuffer, ReadyAfterClear, Unflushed, Contents, Handshake
  <2>2. QED BY <1>1, <2>1 DEF ClearFlushBuffer, ReadyAfterClear, Store, Unflushed
<1>2. CASE AddFile
  <2>1. Unflushed = file
    BY <1>2 DEF AddFile, Installed, OverLimit, Unflushed
  <2>2. \A k \in Key : Unflushed'[k] = NotFound
    BY <1>2 DEF AddFile, Installed, OverLimit, Handshake, Unflushed, Contents, EmptyBuffer
  <2>3. \A k \in Key : view'[k] = IF file[k] # NotFound THEN file[k] ELSE view[k]
    BY <1>2 DEF AddFile, Installed, OverLimit, Over
  <2>4. income_buffer' = income_buffer /\ UNCHANGED <<latest, written, adds>>
    BY <1>2 DEF AddFile, Installed, OverLimit
  <2>5. \A k \in Key : Store'[k] = Store[k]
    BY <2>1, <2>2, <2>3, <2>4, StoreAt, StoreAtNext
  <2>6. QED BY <2>4, <2>5, StoreEqual
<1>3. CASE FlushBuffer
  BY <1>3 DEF FlushBuffer, Store
<1>4. CASE FlushLoop \/ SetFlushThreadIdle \/ CheckFlushBufferReady
  BY <1>4 DEF FlushLoop, SetFlushThreadIdle, CheckFlushBufferReady, Store
<1>5. CASE CheckStopBeforeWait \/ FlushWait \/ FlushWakeUp \/ CheckStopAfterWait
  BY <1>5 DEF CheckStopBeforeWait, MustWait, FlushWait, FlushWakeUp, CheckStopAfterWait, Store
<1>6. QED BY <1>1, <1>2, <1>3, <1>4, <1>5 DEF Flusher

(* Compaction may only make the store forget tombstones.                   *)
LEMMA CompacterStore ==
    ASSUME TypeOK, Handshake, Compacter
    PROVE  /\ UNCHANGED <<latest, written, adds>>
           /\ \A k \in Key : \/ Store'[k] = Store[k]
                             \/ /\ Store[k] = Tomb
                                /\ Store'[k] \in written[k] \cup {NotFound}
<1>1. /\ UNCHANGED <<income_buffer, flush_buffer, flusher, file>>
      /\ UNCHANGED <<latest, written, adds>>
      /\ \A k \in Key : \/ view'[k] = view[k]
                        \/ view[k] = Tomb /\ view'[k] \in written[k] \cup {NotFound}
  BY DEF Compacter, CompactLoop, CompactWait, CompactWakeUp, Compact, Pickable, CompactDeeper,
         UpdateMapAfterCompaction, ViewAfterCompaction, Forgetting, bufferVars,
         engineVars, clientVars
<1>2. Unflushed' = Unflushed
  BY <1>1 DEF Unflushed, Contents
<1>3. QED BY <1>1, <1>2, StoreAt, StoreAtNext

(* Every other step but Add leaves the store alone.                        *)
LEMMA OtherStore ==
    ASSUME TypeOK, Handshake,
           \/ \E w \in Writers : WriterStep(w)
           \/ \E r \in Readers : (\E k \in Key : GetCall(r, k)) \/ GetStep(r)
           \/ SpuriousWakeup \/ SetStop \/ ShutDown \/ UNCHANGED vars
    PROVE  Store' = Store /\ UNCHANGED <<latest, written, adds>>
<1> USE DEF vars, bufferVars, threadVars, engineVars, clientVars
<1>1. ASSUME NEW w \in Writers, WriterStep(w)
      PROVE  Store' = Store /\ UNCHANGED <<latest, written, adds>>
  <2>1. CASE SwapBuffer(w)
    BY <2>1, SwapStore DEF SwapBuffer
  <2>2. CASE SetFlushBufferReady(w) \/ NotifyFlush(w)
    BY <2>2 DEF SetFlushBufferReady, NotifyFlush, Released, Store
  <2>3. QED BY <1>1, <2>1, <2>2 DEF WriterStep
<1>2. CASE \E r \in Readers : (\E k \in Key : GetCall(r, k)) \/ GetStep(r)
  BY <1>2 DEF GetCall, GetStep, GetFromBuffer, GetFromEngine, GetReturn, Store
<1>3. CASE SpuriousWakeup \/ SetStop \/ ShutDown \/ UNCHANGED vars
  BY <1>3 DEF SpuriousWakeup, SetStop, ShutDown, StopNotify, Join, Store
<1>4. QED BY <1>1, <1>2, <1>3

(* Add changes the store at its key.                                       *)
LEMMA AddStore ==
    ASSUME TypeOK, NEW w \in Writers, NEW k \in Key, NEW v \in Value, Add(w, k, v)
    PROVE  /\ \A j \in Key : Store'[j] = IF j = k THEN v ELSE Store[j]
           /\ \A j \in Key : latest'[j] = IF j = k THEN v ELSE latest[j]
           /\ \A j \in Key : written'[j] = IF j = k THEN written[j] \cup {v}
                                                    ELSE written[j]
           /\ adds' = adds + 1
<1>1. \A j \in Key : income_buffer'[j] = IF j = k THEN v ELSE income_buffer[j]
  BY DEF Add, TypeOK, Buffer
<1>2. Unflushed' = Unflushed /\ view' = view
  BY DEF Add, Unflushed, Contents, engineVars
<1>3. \A j \in Key : Store'[j] = IF j = k THEN v ELSE Store[j]
  BY <1>1, <1>2, StoreAt, StoreAtNext, DataAssumption
<1>4. QED BY <1>3 DEF Add, TypeOK, Buffer

(* In the initial state everything is empty.                               *)
LEMMA InitStore == Init => Store = EmptyBuffer
BY DEF Init, Store, Contents, Over, EmptyBuffer

(* Every step keeps the inductive invariant.                               *)
LEMMA NextIInv == IInv /\ [Next]_vars => IInv'
<1> SUFFICES ASSUME IInv, [Next]_vars PROVE NothingLost'
  BY NextHandshake DEF IInv
<1> USE DEF IInv
<1>1. CASE \E w \in Writers, k \in Key, v \in Value : Add(w, k, v)
  BY <1>1, AddStore DEF NothingLost
<1>2. CASE Flusher
  BY <1>2, FlusherStore DEF NothingLost
<1>3. CASE Compacter
  BY <1>3, CompacterStore DEF NothingLost
<1>4. CASE \/ \E w \in Writers : WriterStep(w)
           \/ \E r \in Readers : (\E k \in Key : GetCall(r, k)) \/ GetStep(r)
           \/ SpuriousWakeup \/ SetStop \/ ShutDown \/ UNCHANGED vars
  BY <1>4, OtherStore DEF NothingLost
<1>5. QED BY <1>1, <1>2, <1>3, <1>4 DEF Next

(* The inductive invariant holds throughout.                               *)
LEMMA InvariantHolds == Spec => []IInv
<1>1. Init => IInv
  BY InitType, InitHandshake, InitStore DEF IInv, NothingLost, Init
<1>2. QED BY <1>1, NextIInv, PTL DEF Spec

(* No Put is lost between the income buffer and the files, for any number  *)
(* of writers, keys and values (storage_buffer.cpp, data_base.cpp:18-48).  *)
THEOREM NoPutLost == Spec => []NothingLost
<1>1. IInv => NothingLost
  BY DEF IInv
<1>2. QED BY <1>1, InvariantHolds, PTL

(* A step of the threads is an update by one entry, a forgotten tombstone, *)
(* or invisible.                                                           *)
LEMMA StepRefines ==
    IInv /\ [Next]_vars => [Abstract!Next]_<<Store, written, adds>>
<1> SUFFICES ASSUME IInv, [Next]_vars
             PROVE  Abstract!Next \/ UNCHANGED <<Store, written, adds>>
  OBVIOUS
<1>1. Store \in Buffer /\ Store' \in Buffer
  <2>1. TypeOK /\ Handshake /\ TypeOK' /\ Handshake'
    BY NextHandshake DEF IInv
  <2>2. (TypeOK /\ Handshake => Store \in Buffer)'
    BY StoreType, PTL
  <2>3. QED BY <2>1, <2>2, StoreType
<1>2. ASSUME NEW w \in Writers, NEW k \in Key, NEW v \in Value, Add(w, k, v)
      PROVE  Abstract!Next
  <2>1. TypeOK
    BY DEF IInv
  <2>2. /\ \A j \in Key : Store'[j] = IF j = k THEN v ELSE Store[j]
        /\ \A j \in Key : latest'[j] = IF j = k THEN v ELSE latest[j]
        /\ \A j \in Key : written'[j] = IF j = k THEN written[j] \cup {v}
                                                 ELSE written[j]
        /\ adds' = adds + 1
    BY <1>2, <2>1, AddStore, Zenon
  <2> DEFINE data == [j \in Key |-> IF j = k THEN v ELSE NotFound]
  <2>3. data \in Buffer
    BY DEF Buffer, Result
  <2>4. Store' = Abstract!Over(data, Store)
    <3>1. \A j \in Key : Store'[j] = IF data[j] # NotFound THEN data[j] ELSE Store[j]
      BY <2>2, DataAssumption
    <3>2. QED BY <1>1, <3>1 DEF Abstract!Over, Buffer
  <2>5. written' = Abstract!Written(data)
    <3>1. written' \in [Key -> SUBSET Value]
      BY NextHandshake DEF IInv, TypeOK
    <3>2. \A j \in Key : written'[j] = written[j] \cup ({data[j]} \ {NotFound})
      <4>1. \A j \in Key : {data[j]} \ {NotFound} = IF j = k THEN {v} ELSE {}
        BY DataAssumption
      <4>2. QED BY <2>2, <4>1
    <3>3. QED BY <3>1, <3>2 DEF Abstract!Written
  <2>6. Abstract!Update(data)
    BY <2>2, <2>4, <2>5 DEF Abstract!Update
  <2>7. QED BY <2>3, <2>6 DEF Abstract!Next, Abstract!Buffer, Abstract!Result, Buffer, Result
<1>3. CASE Flusher
  BY <1>3, FlusherStore DEF IInv
<1>4. CASE Compacter
  <2>1. Store' \in Abstract!Forgetting(Store, written)
    BY <1>1, <1>4, CompacterStore
    DEF IInv, Abstract!Forgetting, Abstract!Buffer, Abstract!Result, Buffer, Result
  <2>2. QED
    BY <1>4, <2>1, CompacterStore DEF IInv, Abstract!Next, Abstract!Forget
<1>5. CASE \/ \E w \in Writers : WriterStep(w)
           \/ \E r \in Readers : (\E k \in Key : GetCall(r, k)) \/ GetStep(r)
           \/ SpuriousWakeup \/ SetStop \/ ShutDown \/ UNCHANGED vars
  BY <1>5, OtherStore DEF IInv
<1>6. QED BY <1>2, <1>3, <1>4, <1>5 DEF Next

(* The database implements the abstract store, where one update is one     *)
(* Add: flushing and swapping are invisible to a lookup in all places.     *)
THEOREM DataBaseRefines == Spec => ImplementsAbstractStore
<1>1. Init => Abstract!Init
  BY InitStore DEF Init, Abstract!Init, Abstract!EmptyBuffer, EmptyBuffer
<1>2. QED
  BY <1>1, StepRefines, InvariantHolds, PTL
  DEF Spec, ImplementsAbstractStore, Abstract!Spec


-----------------------------------------------------------------------------
(* What a Get returns, for any number of readers and writers: the proof of *)
(* GetFreshOutsideGap, on top of the invariants above.                     *)

(* Entries of k on their way to the files are values from S.               *)
Pending(k, S) ==
    /\ income_buffer[k] \in S \cup {NotFound}
    /\ flush_buffer # NoBuffer => flush_buffer[k] \in S \cup {NotFound}
    /\ file # NoBuffer => file[k] \in S \cup {NotFound}

(* A Get between its two lookups: what the files say of k, or will say     *)
(* once the file that it missed is installed, is a value k had during the  *)
(* call, and so is whatever comes from the buffers meanwhile.              *)
Between(k, S, gap) ==
    /\ Pending(k, S)
    /\ gap => flusher = "AddFile" /\ file # NoBuffer /\ file[k] # NotFound
    /\ ~gap => view[k] \in S

GetOK(g) ==
    /\ g.pc \in {"buffer", "engine"} => latest[g.key] \in g.fresh
    /\ g.pc = "engine" /\ Tomb \notin g.fresh => Between(g.key, g.fresh, g.gap)
    /\ g.pc = "returned" /\ Tomb \notin g.fresh => g.ret \in g.fresh \/ g.gap

GetInv == \A r \in Readers : GetOK(get[r])

(* Pending entries stay pending when SwapBuffer moves them on.             *)
LEMMA SwapPending ==
    ASSUME NEW w \in Writers, SwapBuffer(w), NEW k \in Key, NEW S, Pending(k, S)
    PROVE  Pending(k, S)'
BY DEF SwapBuffer, Pending, EmptyBuffer, engineVars

(* A step of the flush thread.                                             *)
LEMMA FlusherBetween ==
    ASSUME TypeOK, Handshake, Flusher, ~AddFile,
           NEW k \in Key, NEW S, NEW gap \in BOOLEAN, Between(k, S, gap)
    PROVE  Between(k, S, gap)'
<1> USE DEF FlushGoto, bufferVars, engineVars, Between, Pending
<1>1. CASE FlushBuffer
  BY <1>1 DEF FlushBuffer
<1>2. CASE ClearFlushBuffer
  BY <1>2 DEF ClearFlushBuffer
<1>3. CASE FlushLoop \/ SetFlushThreadIdle \/ CheckFlushBufferReady
  BY <1>3 DEF FlushLoop, SetFlushThreadIdle, CheckFlushBufferReady
<1>4. CASE CheckStopBeforeWait \/ FlushWait \/ FlushWakeUp \/ CheckStopAfterWait
  BY <1>4 DEF CheckStopBeforeWait, FlushWait, FlushWakeUp, CheckStopAfterWait
<1>5. QED BY <1>1, <1>2, <1>3, <1>4 DEF Flusher

(* AddFile installs the file a Get may have missed: the gap is closed.     *)
LEMMA AddFileBetween ==
    ASSUME TypeOK, Handshake, AddFile,
           NEW k \in Key, NEW S, NEW gap \in BOOLEAN, Between(k, S, gap)
    PROVE  Between(k, S, FALSE)'
<1>1. file # NoBuffer /\ flush_buffer = NoBuffer
  BY DEF AddFile, FlushGoto, Handshake
<1>2. view'[k] = IF file[k] # NotFound THEN file[k] ELSE view[k]
  BY DEF AddFile, Installed, Over
<1>3. view'[k] \in S
  BY <1>1, <1>2 DEF Between, Pending
<1>4. UNCHANGED <<income_buffer, flush_buffer>> /\ file' = NoBuffer
  BY DEF AddFile, bufferVars
<1>5. QED BY <1>3, <1>4 DEF Between, Pending

(* Compaction leaves a key alone whose newest entry is no tombstone.       *)
LEMMA CompacterBetween ==
    ASSUME TypeOK, Compacter, NEW k \in Key, NEW S, Tomb \notin S,
           NEW gap \in BOOLEAN, Between(k, S, gap)
    PROVE  Between(k, S, gap)'
<1>1. /\ UNCHANGED <<income_buffer, flush_buffer, flusher, file>>
      /\ view'[k] = view[k] \/ view[k] = Tomb
  BY DEF Compacter, CompactLoop, CompactWait, CompactWakeUp, Compact, Pickable, CompactDeeper,
         UpdateMapAfterCompaction, ViewAfterCompaction, Forgetting, bufferVars, engineVars
<1>2. QED BY <1>1 DEF Between, Pending

(* The lookup in the buffers either answers with the latest value or       *)
(* leaves the Get between its lookups, in the gap or outside of it.        *)
LEMMA BufferLookup ==
    ASSUME IInv, NEW k \in Key, NEW S, latest[k] \in S, Tomb \notin S
    PROVE  /\ BufferGet(k) # NotFound => BufferGet(k) \in S
           /\ BufferGet(k) = NotFound => Between(k, S, InGap(k))
<1> USE DEF IInv
<1>1. Store[k] = latest[k]
  BY DEF NothingLost
<1>2. Store[k] = IF income_buffer[k] # NotFound THEN income_buffer[k]
                 ELSE IF Unflushed[k] # NotFound THEN Unflushed[k] ELSE view[k]
  BY StoreAt
<1>3. Unflushed = IF flusher = "AddFile" THEN file
                  ELSE IF flush_buffer = NoBuffer THEN EmptyBuffer ELSE flush_buffer
  BY DEF Unflushed, Contents
<1>4. EmptyBuffer[k] = NotFound
  BY DEF EmptyBuffer
<1>5. /\ flusher = "AddFile" => flush_buffer = NoBuffer /\ file # NoBuffer
      /\ file # NoBuffer => flusher = "AddFile" \/ file = flush_buffer
  BY DEF Handshake
<1>6. BufferGet(k) # NotFound => BufferGet(k) \in S
  BY <1>1, <1>2, <1>3, <1>5 DEF BufferGet
<1>7. ASSUME BufferGet(k) = NotFound
      PROVE  Between(k, S, InGap(k))
  <2>1. income_buffer[k] = NotFound /\ (flush_buffer = NoBuffer \/ flush_buffer[k] = NotFound)
    BY <1>7 DEF BufferGet
  <2>2. InGap(k) => file[k] \in S
    BY <1>1, <1>2, <1>3, <2>1 DEF InGap
  <2>3. ~InGap(k) => view[k] \in S
    BY <1>1, <1>2, <1>3, <1>4, <2>1 DEF InGap
  <2>4. Pending(k, S)
    BY <1>5, <2>1, <2>2 DEF Pending, InGap
  <2>5. QED BY <1>5, <2>3, <2>4 DEF Between, InGap
<1>8. QED BY <1>6, <1>7

(* What an Add does to a Get in progress.                                  *)
LEMMA AddGet ==
    ASSUME TypeOK, NEW w \in Writers, NEW j \in Key, NEW v \in Value, Add(w, j, v),
           NEW r \in Readers, GetOK(get[r])
    PROVE  GetOK(get[r])'
<1> DEFINE g == get[r]
           h == get'[r]
<1>1. g \in GetState
  BY DEF TypeOK
<1>2. h = IF g.pc \in {"buffer", "engine"} /\ g.key = j
            THEN [g EXCEPT !.fresh = @ \cup {v}] ELSE g
  BY DEF Add
<1>3. /\ h.pc = g.pc /\ h.key = g.key /\ h.gap = g.gap /\ h.ret = g.ret
      /\ h.fresh = IF g.pc \in {"buffer", "engine"} /\ g.key = j
                     THEN g.fresh \cup {v} ELSE g.fresh
  BY <1>1, <1>2 DEF GetState
<1>4. /\ UNCHANGED <<flush_buffer, flusher, file, view>>
      /\ \A k \in Key : latest'[k] = IF k = j THEN v ELSE latest[k]
      /\ \A k \in Key : income_buffer'[k] = IF k = j THEN v ELSE income_buffer[k]
  BY DEF Add, engineVars, TypeOK, Buffer
<1>5. g.key \in Key
  BY <1>1 DEF GetState
<1>6. PICK k \in Key, S \in SUBSET Result, b \in BOOLEAN :
           k = g.key /\ S = g.fresh /\ b = g.gap
  BY <1>1 DEF GetState
<1>7. PICK T : T = h.fresh
  OBVIOUS
<1>8. S \subseteq T /\ (g.pc \in {"buffer", "engine"} /\ k = j => v \in T)
  BY <1>3, <1>6, <1>7
<1>9. ASSUME g.pc \in {"buffer", "engine"} PROVE latest'[k] \in T
  BY <1>4, <1>6, <1>8, <1>9 DEF GetOK
<1>10. ASSUME g.pc = "engine", Tomb \notin T PROVE Between(k, T, b)'
  <2>1. Between(k, S, b)
    BY <1>6, <1>8, <1>10 DEF GetOK
  <2>2. Pending(k, T)'
    BY <1>4, <1>8, <1>10, <2>1 DEF Between, Pending
  <2>3. QED BY <1>4, <1>8, <2>1, <2>2 DEF Between
<1>11. g.pc = "returned" /\ Tomb \notin T => g.ret \in T \/ b
  BY <1>6, <1>8 DEF GetOK
<1>12. h.pc = g.pc /\ h.key = k /\ h.fresh = T /\ h.gap = b /\ h.ret = g.ret
  BY <1>3, <1>6, <1>7
<1>13. QED BY <1>9, <1>10, <1>11, <1>12 DEF GetOK

(* A step that leaves the call and everything it depends on alone.         *)
LEMMA GetUnchanged ==
    ASSUME UNCHANGED <<income_buffer, flush_buffer, flusher, file, view, latest>>,
           NEW r \in Readers, get'[r] = get[r], GetOK(get[r])
    PROVE  GetOK(get[r])'
BY DEF GetOK, Between, Pending

(* Get's own steps.                                                        *)
LEMMA ReaderGet ==
    ASSUME IInv, NEW q \in Readers, (\E k \in Key : GetCall(q, k)) \/ GetStep(q),
           NEW r \in Readers, GetOK(get[r])
    PROVE  GetOK(get[r])'
<1> DEFINE g == get[r]
           h == get'[r]
<1>1. UNCHANGED <<income_buffer, flush_buffer, flusher, file, view, latest>>
  BY DEF GetCall, GetStep, GetFromBuffer, GetFromEngine, GetReturn, bufferVars, threadVars,
         engineVars
<1>2. get \in [Readers -> GetState]
  BY DEF IInv, TypeOK
<1>3. CASE q # r
  <2>1. h = g
    BY <1>2, <1>3 DEF GetCall, GetStep, GetFromBuffer, GetFromEngine, GetReturn
  <2>2. QED BY <1>1, <2>1, GetUnchanged
<1>4. ASSUME NEW k \in Key, GetCall(r, k)
      PROVE  GetOK(get[r])'
  <2>1. PICK new : new = [pc |-> "buffer", key |-> k, fresh |-> {latest[k]}, gap |-> FALSE,
                          ret |-> NotFound]
    OBVIOUS
  <2>2. h = new
    BY <1>2, <1>4, <2>1 DEF GetCall
  <2>3. new.pc = "buffer" /\ new.key = k /\ new.fresh = {latest[k]}
    BY <2>1
  <2>4. h.pc = "buffer" /\ latest'[h.key] \in h.fresh
    BY <1>1, <2>2, <2>3
  <2>5. QED BY <2>4 DEF GetOK
<1>5. CASE GetFromBuffer(r)
  <2> DEFINE v == BufferGet(g.key)
  <2>1. g \in GetState /\ g.pc = "buffer"
    BY <1>2, <1>5 DEF GetFromBuffer
  <2>2. h = [g EXCEPT !.ret = v, !.gap = InGap(g.key),
                      !.pc = IF v # NotFound THEN "returned" ELSE "engine"]
    BY <1>2, <1>5 DEF GetFromBuffer
  <2>3. PICK k \in Key, S \in SUBSET Result, b \in BOOLEAN :
             k = g.key /\ S = g.fresh /\ b = InGap(k)
    BY <2>1 DEF GetState, InGap
  <2>4. /\ h.key = k /\ h.fresh = S /\ h.ret = BufferGet(k)
        /\ h.pc = IF BufferGet(k) # NotFound THEN "returned" ELSE "engine"
    BY <2>1, <2>2, <2>3 DEF GetState
  <2>5. h.gap = b
    BY <2>1, <2>2, <2>3 DEF GetState
  <2>6. latest[k] \in S
    BY <2>1, <2>3 DEF GetOK
  <2>7. CASE BufferGet(k) = NotFound
    <3>1. Tomb \notin S => Between(k, S, b)
      BY <2>3, <2>6, <2>7, BufferLookup
    <3>2. Tomb \notin S => Between(k, S, b)'
      BY <1>1, <3>1 DEF Between, Pending
    <3>3. h.pc = "engine"
      BY <2>4, <2>7
    <3>4. QED BY <1>1, <2>4, <2>5, <2>6, <3>2, <3>3 DEF GetOK, Between, Pending
  <2>8. CASE BufferGet(k) # NotFound
    <3>1. h.pc = "returned"
      BY <2>4, <2>8
    <3>2. Tomb \notin S => h.ret \in S
      BY <2>4, <2>6, <2>8, BufferLookup
    <3>3. QED BY <2>4, <3>1, <3>2 DEF GetOK
  <2>9. QED BY <2>7, <2>8
<1>6. CASE GetFromEngine(r)
  <2>1. g \in GetState /\ g.pc = "engine"
    BY <1>2, <1>6 DEF GetFromEngine
  <2>2. h = [g EXCEPT !.ret = view[g.key], !.pc = "returned"]
    BY <1>2, <1>6 DEF GetFromEngine
  <2>3. /\ h.fresh = g.fresh /\ h.gap = g.gap /\ h.ret = view[g.key] /\ h.pc = "returned"
    BY <2>1, <2>2 DEF GetState
  <2>4. Tomb \notin g.fresh /\ ~g.gap => view[g.key] \in g.fresh
    BY <2>1 DEF GetOK, Between
  <2>5. QED BY <2>3, <2>4 DEF GetOK
<1>7. CASE GetReturn(r)
  <2>1. h = IdleGet
    BY <1>2, <1>7 DEF GetReturn
  <2>2. IdleGet.pc = "idle"
    BY DEF IdleGet
  <2>3. h.pc = "idle"
    BY <2>1, <2>2
  <2>4. QED BY <2>3 DEF GetOK
<1>8. QED BY <1>3, <1>4, <1>5, <1>6, <1>7 DEF GetStep

(* A step of the background threads under a Get in progress.               *)
LEMMA BackgroundGet ==
    ASSUME IInv, Flusher \/ Compacter, NEW r \in Readers, GetOK(get[r])
    PROVE  GetOK(get[r])'
<1> DEFINE g == get[r]
           h == get'[r]
<1>1. g \in GetState
  BY DEF IInv, TypeOK
<1>2. PICK k \in Key, S \in SUBSET Result, b \in BOOLEAN :
           k = g.key /\ S = g.fresh /\ b = g.gap
  BY <1>1 DEF GetState
<1>3. latest' = latest
  BY FlusherStore, CompacterStore DEF IInv
<1>4. g.pc = "engine" /\ Tomb \notin S => Between(k, S, b)
  BY <1>2 DEF GetOK
<1>5. CASE AddFile
  <2>1. h = IF g.pc = "returned" THEN g ELSE [g EXCEPT !.gap = FALSE]
    BY <1>5 DEF AddFile
  <2>2. /\ h.pc = g.pc /\ h.key = k /\ h.fresh = S /\ h.ret = g.ret
        /\ h.gap = IF g.pc = "returned" THEN g.gap ELSE FALSE
    BY <1>1, <1>2, <2>1 DEF GetState
  <2>3. g.pc = "engine" /\ Tomb \notin S => Between(k, S, FALSE)'
    BY <1>4, <1>5, AddFileBetween DEF IInv
  <2>4. QED BY <1>2, <1>3, <2>2, <2>3 DEF GetOK, Between, Pending
<1>6. CASE Compacter \/ (Flusher /\ ~AddFile)
  <2>1. h = g
    BY <1>6
    DEF Compacter, CompactLoop, CompactWait, CompactWakeUp, Compact, CompactDeeper,
        UpdateMapAfterCompaction, Flusher, FlushLoop, SetFlushThreadIdle,
        CheckFlushBufferReady, CheckStopBeforeWait, FlushWait, FlushWakeUp,
        CheckStopAfterWait, FlushBuffer, ClearFlushBuffer, clientVars
  <2>2. g.pc = "engine" /\ Tomb \notin S => Between(k, S, b)'
    BY <1>4, <1>6, FlusherBetween, CompacterBetween DEF IInv
  <2>3. QED BY <1>2, <1>3, <2>1, <2>2 DEF GetOK, Between, Pending
<1>7. QED BY <1>5, <1>6

(* Every step keeps GetInv.                                                *)
LEMMA NextGet == IInv /\ GetInv /\ [Next]_vars => GetInv'
<1> SUFFICES ASSUME IInv, GetInv, [Next]_vars, NEW r \in Readers PROVE GetOK(get[r])'
  BY DEF GetInv
<1>1. GetOK(get[r]) /\ TypeOK
  BY DEF GetInv, IInv
<1>2. CASE \E w \in Writers, k \in Key, v \in Value : Add(w, k, v)
  BY <1>1, <1>2, AddGet
<1>3. ASSUME NEW w \in Writers, SwapBuffer(w)
      PROVE  GetOK(get[r])'
  <2>1. UNCHANGED <<get, latest, flusher, file, view>>
    BY <1>3 DEF SwapBuffer, clientVars, engineVars
  <2>2. get[r].key \in Key
    BY <1>1 DEF TypeOK, GetState
  <2>3. QED BY <1>1, <1>3, <2>1, <2>2, SwapPending DEF GetOK, Between, Pending
<1>4. CASE \E w \in Writers : SetFlushBufferReady(w) \/ NotifyFlush(w)
  BY <1>1, <1>4, GetUnchanged DEF SetFlushBufferReady, NotifyFlush, clientVars, engineVars
<1>5. CASE \E q \in Readers : (\E k \in Key : GetCall(q, k)) \/ GetStep(q)
  BY <1>1, <1>5, ReaderGet
<1>6. CASE Flusher \/ Compacter
  BY <1>1, <1>6, BackgroundGet
<1>7. CASE SpuriousWakeup \/ SetStop \/ ShutDown \/ UNCHANGED vars
  BY <1>1, <1>7, GetUnchanged
  DEF SpuriousWakeup, SetStop, ShutDown, StopNotify, Join, vars, bufferVars, threadVars,
      engineVars, clientVars
<1>8. QED BY <1>2, <1>3, <1>4, <1>5, <1>6, <1>7 DEF Next, WriterStep

(* For any number of readers and writers: a Get returns a value that its   *)
(* key had during the call, unless both of its lookups fell between        *)
(* ClearFlushBuffer and AddFile of one flush (data_base.cpp:42-46, 86-133).*)
THEOREM GetsAreFresh == Spec => []GetFreshOutsideGap
<1>1. Init => GetInv
  BY DEF Init, GetInv, GetOK, IdleGet
<1>2. GetInv => GetFreshOutsideGap
  BY DEF GetInv, GetOK, GetFreshOutsideGap
<1>3. QED BY <1>1, <1>2, NextGet, InvariantHolds, PTL DEF Spec
=============================================================================
