---------------------------- MODULE AbstractCache ----------------------------
(* What structure/cache.h promises: a table per cached file, at most       *)
(* Capacity of them, and the file used least recently makes room.          *)
EXTENDS Naturals, Sequences

CONSTANTS FileId, Key, Table, Capacity

VARIABLES order,   \* the cached files, most recently used first
          table,   \* the key table of each cached file
          result   \* what the last Get returned

NoResult == [exists |-> FALSE, offset |-> 0]

Init == order = <<>> /\ table = [f \in {} |-> 0] /\ result = NoResult

Cached(f) == f \in DOMAIN table

(* s without the file f, which it holds at most once.                      *)
Without(s, f) ==
    LET at == CHOOSE i \in 1 .. Len(s) : s[i] = f
    IN IF \E i \in 1 .. Len(s) : s[i] = f
         THEN [i \in 1 .. Len(s) - 1 |-> s[IF i < at THEN i ELSE i + 1]]
         ELSE s

ToFront(s, f) == <<f>> \o Without(s, f)

Lookup(f, k) == [exists |-> Cached(f), offset |-> IF Cached(f) THEN table[f][k] ELSE 0]

(* Only a lookup that finds its key counts as a use.                       *)
Use(f, k) ==
    /\ order' = IF Lookup(f, k).offset # 0 THEN ToFront(order, f) ELSE order
    /\ table' = table

Get(f, k) == result' = Lookup(f, k) /\ Use(f, k)

Full(f) == ~Cached(f) /\ Len(order) = Capacity

Set(f, t) ==
    /\ order' = ToFront(IF Full(f) THEN SubSeq(order, 1, Len(order) - 1) ELSE order, f)
    /\ table' = [g \in (DOMAIN table \ (IF Full(f) THEN {order[Len(order)]} ELSE {})) \cup {f} |->
                   IF g = f THEN t ELSE table[g]]
    /\ result' = result

Clear ==
    /\ order' = <<>> /\ table' = [f \in {} |-> 0]
    /\ result' = result

Next ==
    \/ \E f \in FileId, k \in Key : Get(f, k)
    \/ \E f \in FileId, t \in Table : Set(f, t)
    \/ Clear

Spec == Init /\ [][Next]_<<order, table, result>>
=============================================================================
