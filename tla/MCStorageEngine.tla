--------------------------- MODULE MCStorageEngine ---------------------------
(* StorageEngine for TLC: small integers as keys, and flushed buffers that *)
(* write one value for each key of a range or delete a single key.         *)
EXTENDS StorageEngine

CONSTANT Keys      \* number of keys

MCKey == 1 .. Keys

MCFlushData ==
    ({[k \in Key |-> IF i <= k /\ k <= j THEN v ELSE NotFound] :
        i \in Key, j \in Key, v \in Value \ {Tomb}} \ {EmptyBuffer})
    \cup {[EmptyBuffer EXCEPT ![k] = Tomb] : k \in Key}
=============================================================================
