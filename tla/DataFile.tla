------------------------------ MODULE DataFile ------------------------------
(***************************************************************************)
(* The bytes of an entry and of a data file: how StorageBuffer writes them *)
(* and how util/utils.h, db/file.h and db/storage_engine.cpp read them     *)
(* back.  Every reader works on the bytes alone.                           *)
(*                                                                         *)
(*    entry:  key size, key, value size, value                             *)
(*    file:   first key, last key, index offset, entries, index            *)
(***************************************************************************)
EXTENDS Coding, SequencesExt

(* Compare, and the comparator of the skip list: std::string's order.      *)
Less(a, b) ==
    \E n \in 0 .. Len(b) - 1 :
        /\ n <= Len(a) /\ SubSeq(a, 1, n) = SubSeq(b, 1, n)
        /\ n < Len(a) => a[n + 1] < b[n + 1]

Prefixed(s) == EncodeVarint32(Len(s)) \o s

(* A size at p and the bytes it counts: where they start and where the     *)
(* next field does.  Every reader of the code is made of this step.        *)
Field(bytes, p) ==
    LET size == GetVarint32(bytes, p, VarintBytes)
    IN [from |-> p + size.length, size |-> size.value, next |-> p + size.length + size.value]

Contents(bytes, f) == SubSeq(bytes, f.from + 1, f.from + f.size)

ExtractUserKey(entry) == Contents(entry, Field(entry, 0))
ExtractUserValue(entry) == Contents(entry, Field(entry, Field(entry, 0).next))
EntrySize(entry) == Field(entry, Field(entry, 0).next).next

-----------------------------------------------------------------------------
Bound(entry) == SubSeq(entry, 1, Field(entry, 0).next)

Header(content) == Bound(content[1]) \o Bound(content[Len(content)])

\* Faulty variant: the index offset itself is not counted.
DataOffsetShort(content) == Len(Header(content))

DataOffset(content) == Len(Header(content)) + FixedBytes

(* key_offset as Flush fills it.                                           *)
KeyOffset(content) ==
    LET at[i \in 1 .. Len(content)] ==
          IF i = 1 THEN DataOffset(content) ELSE at[i - 1] + Len(content[i - 1])
        keys == [i \in 1 .. Len(content) |-> ExtractUserKey(content[i])]
    IN [k \in Range(keys) |-> at[CHOOSE i \in DOMAIN keys : keys[i] = k]]

IndexOffset(content, data_size) == Len(Header(content)) + FixedBytes + data_size

(* StorageBuffer::Flush; order is the iteration order of the unordered_map *)
(* key_offset.                                                             *)
Flush(content, data_size, order) ==
    LET key_offset == KeyOffset(content)
        item(k) == Prefixed(k) \o EncodeVarint32(key_offset[k])
    IN Header(content) \o EncodeFixed32(IndexOffset(content, data_size))
         \o FlattenSeq(content) \o FlattenSeq([i \in DOMAIN order |-> item(order[i])])

-----------------------------------------------------------------------------
(* The bounds that the constructor of File reads.                          *)
LowerBound(file) == Contents(file, Field(file, 0))
UpperBound(file) == Contents(file, Field(file, Field(file, 0).next))

AfterBounds(file) == Field(file, Field(file, 0).next).next

(* The pairs of the index, in the order in which the loop adds them.       *)
LoadKeyOffset(file) ==
    LET items[p \in Nat] ==
          IF p >= Len(file)
            THEN <<>>
            ELSE LET key == Field(file, p)
                     offset == GetVarint32(file, key.next, VarintBytes)
                 IN <<<<Contents(file, key), offset.value>>>> \o items[key.next + offset.length]
    IN items[GetFixed32(file, AfterBounds(file))]

GetValueByOffset(file, offset) ==
    Contents(file, Field(file, Field(file, offset).next))

(* What NWayCompaction takes from a file: the entries from the end of the  *)
(* header until the walk reaches the offset of the index.                  *)
ExtractEntries(file) ==
    LET index_offset == GetFixed32(file, AfterBounds(file))
        walk[p \in Nat] ==
          IF p >= index_offset
            THEN <<>>
            ELSE LET next == Field(file, Field(file, p).next).next
                 IN <<SubSeq(file, p + 1, next)>> \o walk[next]
    IN walk[AfterBounds(file) + FixedBytes]
=============================================================================
