------------------------------- MODULE LRUCache -------------------------------
(***************************************************************************)
(* The cache of structure/cache.cpp: a map from file ids to nodes that are *)
(* also linked into a list between two sentinels, most recently used       *)
(* first.  Each method runs under mutex_ and is one step.                  *)
(***************************************************************************)
EXTENDS Naturals, FiniteSets

CONSTANTS
    FileId,     \* the keys of the cache
    Key,        \* the keys of the tables
    Table,      \* key-offset tables; offset 0 stands for a missing key
    Capacity,   \* capacity
    Node,       \* addresses operator new may return
    head, tail, \* the sentinels
    Null

(* RemoveLRUNode needs a node between the sentinels, and Set allocates     *)
(* before it evicts.                                                       *)
ASSUME CacheAssumption ==
    /\ Capacity \in Nat \ {0}
    /\ IsFiniteSet(Node) /\ Cardinality(Node) > Capacity
    /\ Table \subseteq [Key -> Nat]
    /\ {head, tail, Null} \cap Node = {} /\ head # tail /\ Null \notin {head, tail}

VARIABLES
    m,        \* the node of each file, Null when there is none
    fields,   \* key and value of each node
    links,    \* prev and next of each node
    heap,     \* the nodes allocated and not deleted
    count,
    result    \* what the last Get returned

vars == <<m, fields, links, heap, count, result>>

Linked == Node \cup {head, tail}
NoFields == [key |-> Null, value |-> Null]
Sentinels == [prev |-> [n \in Linked |-> IF n = tail THEN head ELSE Null],
              next |-> [n \in Linked |-> IF n = head THEN tail ELSE Null]]

Init ==
    /\ m = [f \in FileId |-> Null]
    /\ fields = [n \in Node |-> NoFields]
    /\ links = Sentinels
    /\ heap = {} /\ count = 0
    /\ result = [exists |-> FALSE, offset |-> 0]

-----------------------------------------------------------------------------
(* Pointer assignments, as functions of the links they change.             *)

\* Faulty variant: the successor keeps pointing back at the node.
DetachForwardOnly(l, n) == [l EXCEPT !.next[l.prev[n]] = l.next[n]]

DetachNode(l, n) ==
    [l EXCEPT !.next[l.prev[n]] = l.next[n],
              !.prev[l.next[n]] = l.prev[n]]

InsertToFront(l, n) ==
    [l EXCEPT !.next[n] = l.next[head], !.prev[n] = head,
              !.next[head] = n, !.prev[l.next[head]] = n]

(* The links of a deleted node are gone.                                   *)
Free(l, n) == [l EXCEPT !.prev[n] = Null, !.next[n] = Null]

-----------------------------------------------------------------------------
\* Faulty variant: every lookup in a cached table counts as a use.
PromotesAnyway(exists, offset) == exists

(* Get promotes a file only when its table has the key.                    *)
Promotes(exists, offset) == exists /\ offset # 0

(* Get says whether the file is cached and where it has the key.           *)
Get(f, k) ==
    LET node == m[f]
        exists == node # Null
        offset == IF exists THEN fields[node].value[k] ELSE 0
    IN /\ result' = [exists |-> exists, offset |-> offset]
       /\ links' = IF Promotes(exists, offset)
                     THEN InsertToFront(DetachNode(links, node), node)
                     ELSE links
       /\ UNCHANGED <<m, fields, heap, count>>

Full == count = Capacity

(* m.erase(node->key) of RemoveLRUNode.                                    *)
Erased(node) == {fields[node].key}

(* Set for a file that is not cached: allocate, RemoveLRUNode when full,   *)
(* then link the new node.                                                 *)
SetNew(f, t) ==
    \E node \in Node \ heap :
      LET lru   == links.prev[tail]
          evict == Full
      IN /\ m[f] = Null
         /\ m' = [g \in FileId |-> IF g = f THEN node
                                   ELSE IF evict /\ g \in Erased(lru) THEN Null
                                   ELSE m[g]]
         /\ fields' = [n \in Node |-> IF n = node THEN [key |-> f, value |-> t]
                                      ELSE IF evict /\ n = lru THEN NoFields
                                      ELSE fields[n]]
         /\ links' = InsertToFront(IF evict THEN Free(DetachNode(links, lru), lru)
                                            ELSE links, node)
         /\ heap' = (heap \cup {node}) \ (IF evict THEN {lru} ELSE {})
         /\ count' = IF evict THEN count ELSE count + 1
         /\ UNCHANGED result

SetOld(f, t) ==
    /\ m[f] # Null
    /\ fields' = [fields EXCEPT ![m[f]].value = t]
    /\ links' = InsertToFront(DetachNode(links, m[f]), m[f])
    /\ UNCHANGED <<m, heap, count, result>>

Set(f, t) == SetNew(f, t) \/ SetOld(f, t)

Clear ==
    /\ m' = [f \in FileId |-> Null]
    /\ fields' = [n \in Node |-> NoFields]
    /\ links' = Sentinels
    /\ heap' = heap \ {m[f] : f \in FileId}
    /\ count' = 0
    /\ UNCHANGED result

Next ==
    \/ \E f \in FileId, k \in Key : Get(f, k)
    \/ \E f \in FileId, t \in Table : Set(f, t)
    \/ Clear

Spec == Init /\ [][Next]_vars

-----------------------------------------------------------------------------
Nodes == {m[f] : f \in FileId} \ {Null}

(* The addresses seen from a sentinel when the links of one direction are  *)
(* followed count times.                                                   *)
Walk(start, link) ==
    LET at[i \in 0 .. count] == IF i = 0 THEN start ELSE link[at[i - 1]]
    IN [i \in 1 .. count |-> at[i]]

(* The variables keep their types, and the map, the allocated nodes and    *)
(* their keys agree: nothing is leaked and no file has another file's      *)
(* node.                                                                   *)
TypeOK ==
    /\ m \in [FileId -> Node \cup {Null}]
    /\ links \in [prev : [Linked -> Linked \cup {Null}], next : [Linked -> Linked \cup {Null}]]
    /\ result \in [exists : BOOLEAN, offset : Nat]
    /\ heap = Nodes
    /\ \A f \in FileId : m[f] # Null => /\ fields[m[f]].key = f
                                       /\ fields[m[f]].value \in Table

(* The list between the sentinels holds every node of the map once and no  *)
(* other, count is its length and at most capacity, and the prev links     *)
(* read the same list backwards: RemoveLRUNode finds the end of the list   *)
(* through tail->prev while InsertToFront works at head->next.             *)
WellLinked ==
    /\ TypeOK
    /\ LET forward == Walk(head, links.next)
           back    == Walk(tail, links.prev)
       IN /\ count = Cardinality(Nodes) /\ count <= Capacity
          /\ {forward[i] : i \in 1 .. count} = Nodes
          /\ \A i \in 1 .. count : back[i] = forward[count + 1 - i]
          /\ links.prev[links.next[head]] = head /\ links.next[links.prev[tail]] = tail

Abstract == INSTANCE AbstractCache WITH
    order <- [i \in 1 .. count |-> fields[Walk(head, links.next)[i]].key],
    table <- [f \in {g \in FileId : m[g] # Null} |-> fields[m[f]].value]

(* The linked nodes behave as a least-recently-used cache: Get returns the *)
(* offset of the table last Set for the file unless it was evicted, and    *)
(* the file evicted is the one whose last use is oldest.                   *)
ImplementsAbstractCache == Abstract!Spec
=============================================================================
