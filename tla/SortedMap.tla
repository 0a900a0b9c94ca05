------------------------------ MODULE SortedMap ------------------------------
(* What structure/skip_list.h promises to db/storage_buffer.cpp: one entry *)
(* per user key, the last one inserted, visited in key order by a cursor.  *)
EXTENDS Integers

CONSTANTS Key, Value, NoKey

VARIABLES map,      \* the entries, a function on the keys inserted so far
          cursor,   \* the key an iterator stands on, or NoKey
          call      \* the last call

Keys == DOMAIN map
First(S) == IF S = {} THEN NoKey ELSE CHOOSE k \in S : \A j \in S : k <= j
Last(S) == IF S = {} THEN NoKey ELSE CHOOSE k \in S : \A j \in S : j <= k

Init ==
    /\ map = [k \in {} |-> 0] /\ cursor = NoKey
    /\ call = [op |-> "SkipList", key |-> NoKey]

Insert(k, v) ==
    /\ call' = [op |-> "Insert", key |-> k]
    /\ map' = [j \in Keys \cup {k} |-> IF j = k THEN v ELSE map[j]]
    /\ cursor' = cursor

Move(op, k, target) ==
    /\ call' = [op |-> op, key |-> k]
    /\ cursor' = target
    /\ map' = map

Next ==
    \/ \E k \in Key, v \in Value : Insert(k, v)
    \/ \E k \in Key : Move("Seek", k, IF k \in Keys THEN k ELSE NoKey)
    \/ Move("SeekToFirst", NoKey, First(Keys))
    \/ Move("SeekToLast", NoKey, Last(Keys))
    \/ cursor # NoKey /\ Move("Next", NoKey, First({k \in Keys : k > cursor}))
    \/ cursor # NoKey /\ Move("Prev", NoKey, Last({k \in Keys : k < cursor}))

Spec == Init /\ [][Next]_<<map, cursor, call>>
=============================================================================
