---------------------------- MODULE BufferBytes -----------------------------
(***************************************************************************)
(* A StorageBuffer down to its bytes: Add encodes an entry into memory of  *)
(* the arena and links it with a node from the same arena, FlushBuffer     *)
(* reads the entries back and writes a data file.                          *)
(*                                                                         *)
(* The skip list is the sorted map that SkipList.tla shows it to be.       *)
(***************************************************************************)
EXTENDS Memory, DataFile

CONSTANTS
    Keys, Values,    \* byte sequences
    FirstKey,        \* the key "00000" below which Flush takes no key
    NodeSize,        \* bytes of a node of each height, the highest last
    MaxAdds          \* bound: entries added

ASSUME BufferAssumption ==
    /\ Keys \cup Values \subseteq Seq(Byte)
    /\ NodeSize \in Seq(Nat \ {0}) /\ NodeSize # <<>>

VARIABLES
    heap,      \* the bytes of each block
    nodes,     \* the places of the list's nodes, its head included
    list,      \* income_buffer_: where the entry of each key is
    file,      \* the data file, <<>> until it is written
    latest,    \* observed: the value last added under each key
    adds       \* bound: Adds so far

bufferVars == <<arena, allocated, heap, nodes, list, file, latest, adds>>

kMaxHeight == Len(NodeSize)
NodeByte == 2 * B - 1    \* what a node holds: any bytes that are no entry

(* Bytes stored at a place; a new block holds no bytes yet.                *)
Store(h, a, place, bytes) ==
    [b \in 1 .. Len(a.blocks) |->
        [o \in 0 .. a.blocks[b] - 1 |->
            IF b = place.block /\ o - place.from \in 0 .. Len(bytes) - 1 THEN bytes[o - place.from + 1]
            ELSE IF b \in DOMAIN h THEN h[b][o] ELSE 0]]

Load(place) ==
    LET end == arena.blocks[place.block]
    IN [i \in 1 .. end - place.from |-> heap[place.block][place.from + i - 1]]

Node(height) == [i \in 1 .. NodeSize[height] |-> NodeByte]

-----------------------------------------------------------------------------
(* The buffer of a new StorageBuffer or of SwapBuffer: a fresh arena, from *)
(* which the list takes its head.                                          *)
Init ==
    LET head == AllocateAligned(NewMemory, NodeSize[kMaxHeight])
    IN /\ arena = head.arena
       /\ allocated = {head.place} /\ nodes = {head.place}
       /\ heap = Store(<<>>, head.arena, head.place, Node(kMaxHeight))
       /\ list = <<>> /\ latest = <<>>
       /\ file = <<>>
       /\ adds = 0

\* Faulty variant: sizes are taken to need a single byte.
EncodedLenShort(key, value) == 1 + Len(key) + 1 + Len(value)

EncodedLen(key, value) ==
    VarintLength(Len(key)) + Len(key) + VarintLength(Len(value)) + Len(value)

Add(key, value) ==
    LET buf == Allocate(arena, EncodedLen(key, value))
        stored == Store(heap, buf.arena, buf.place, Prefixed(key) \o Prefixed(value))
    IN /\ adds < MaxAdds /\ file = <<>>
       /\ adds' = adds + 1
       /\ \/ (* Insert finds the key: its node takes the new entry *)
             /\ key \in DOMAIN list
             /\ Returns(buf)
             /\ heap' = stored
             /\ UNCHANGED nodes
          \/ /\ key \notin DOMAIN list
             /\ \E height \in 1 .. kMaxHeight :
                  LET node == AllocateAligned(buf.arena, NodeSize[height])
                  IN /\ arena' = node.arena
                     /\ allocated' = allocated \cup {buf.place, node.place}
                     /\ nodes' = nodes \cup {node.place}
                     /\ heap' = Store(stored, node.arena, node.place, Node(height))
       /\ list' = (key :> buf.place) @@ list
       /\ latest' = (key :> value) @@ latest
       /\ UNCHANGED file

(* What FlushBuffer collects: the entries in the order of the list, each   *)
(* as long as its own bytes say.                                           *)
Content ==
    LET keys == SetToSortSeq(DOMAIN list, Less)
        entry(k) == Load(list[k])
    IN [i \in DOMAIN keys |-> SubSeq(entry(keys[i]), 1, EntrySize(entry(keys[i])))]

FlushSize == FoldSeq(LAMBDA e, n : Len(e) + n, 0, Content)

FlushBuffer ==
    /\ list # <<>> /\ file = <<>>
    /\ \E order \in SetToSeqs(DOMAIN list) : file' = Flush(Content, FlushSize, order)
    /\ UNCHANGED <<arena, allocated, heap, nodes, list, latest, adds>>

Next ==
    \/ \E key \in Keys, value \in Values : Add(key, value)
    \/ FlushBuffer

BufferSpec == Init /\ [][Next]_bufferVars

-----------------------------------------------------------------------------
(* Every node starts on a pointer boundary: the assert of AllocateAligned. *)
NodesAligned == \A p \in nodes : p.from % align = 0

(* However entries and nodes share the arena, the entry that the list      *)
(* holds for a key decodes, from the bytes in memory, to that key and the  *)
(* value last added under it, and fills exactly the memory allocated for   *)
(* it: the assert of Add.                                                  *)
EntriesIntact ==
    \A k \in DOMAIN list :
        LET entry == Load(list[k])
        IN /\ ExtractUserKey(entry) = k
           /\ ExtractUserValue(entry) = latest[k]
           /\ EntrySize(entry) = list[k].size

(* A data file read back through its own bytes: the bounds are its least   *)
(* and greatest key, the index lists every key once, whatever the order of *)
(* the unordered_map, and the offset of a key leads to its value.  No      *)
(* offset is 0, which DataBase::Get takes to mean that the key is absent.  *)
(* Compaction's walk over the file yields the entries that were flushed,   *)
(* in key order, and stops exactly at the index: the assert of Flush on    *)
(* the order of the keys holds.                                            *)
FileReadsBack ==
    file # <<>> =>
        LET keys == SetToSortSeq(DOMAIN latest, Less)
            index == LoadKeyOffset(file)
            entries == ExtractEntries(file)
        IN /\ LowerBound(file) = keys[1] /\ UpperBound(file) = keys[Len(keys)]
           /\ Len(index) = Cardinality(DOMAIN latest)
           /\ {index[i][1] : i \in DOMAIN index} = DOMAIN latest
           /\ \A i \in DOMAIN index :
                /\ index[i][2] # 0
                /\ GetValueByOffset(file, index[i][2]) = latest[index[i][1]]
           /\ entries = Content
           /\ \A i \in DOMAIN entries :
                ~Less(ExtractUserKey(entries[i]),
                      IF i = 1 THEN FirstKey ELSE ExtractUserKey(entries[i - 1]))
=============================================================================
