------------------------------- MODULE SkipList -------------------------------
(***************************************************************************)
(* The skip list of structure/skip_list.h that holds the entries of a      *)
(* buffer, and one iterator over it.  db/storage_buffer.cpp calls Insert   *)
(* and Seek under its mutex and iterates over a buffer nobody inserts to,  *)
(* so every method is one step.                                            *)
(*                                                                         *)
(* A node is named by the user key it was created for: Insert creates no   *)
(* second node for a key.  An entry is a key with its value; Comparator    *)
(* compares the keys only.  The height is any that RandomHeight can        *)
(* return.                                                                 *)
(***************************************************************************)
EXTENDS Integers, FiniteSets

CONSTANTS
    Key,          \* user keys
    Value,
    kMaxHeight,   \* 12 in the code
    Head,         \* head_
    Null

ASSUME SkipListAssumption ==
    /\ Key \subseteq Int /\ IsFiniteSet(Key)
    /\ kMaxHeight \in Nat \ {0}
    /\ Head \notin Key /\ Null \notin Key \cup {Head}

VARIABLES
    nodes,        \* the nodes allocated, without head_
    value,        \* the value in the entry of each node
    next,         \* next_: the links of each node, level by level
    max_height,   \* max_height_
    node,         \* node_ of the iterator
    call          \* observed: the last call

vars == <<nodes, value, next, max_height, node, call>>

Levels == 0 .. kMaxHeight - 1

Init ==
    /\ nodes = {} /\ value = [k \in {} |-> Null]
    /\ next = [n \in {Head} |-> [l \in Levels |-> Null]]
    /\ max_height = 1
    /\ node = Null
    /\ call = [op |-> "SkipList", key |-> Null]

-----------------------------------------------------------------------------
KeyIsAfterNode(k, n) == n # Null /\ n < k

(* The loop of FindGreaterOrEqual on level l: go on while the key is after *)
(* the next node.                                                          *)
Walk(k, l) ==
    LET walk[x \in nodes \cup {Head}] ==
            IF KeyIsAfterNode(k, next[x][l]) THEN walk[next[x][l]] ELSE x
    IN walk

(* prev[l] of FindGreaterOrEqual for each level in use: where the loop     *)
(* ends that starts where the search left the level above.                 *)
Prev(k) ==
    LET prev[l \in 0 .. max_height - 1] ==
            Walk(k, l)[IF l = max_height - 1 THEN Head ELSE prev[l + 1]]
    IN prev

FindGreaterOrEqual(k) == next[Prev(k)[0]][0]

(* FindLessThan and FindLast go from a node and a level to the next node   *)
(* or one level down.                                                      *)
Position == (nodes \cup {Head}) \X Levels

(* FindLessThan stops where FindGreaterOrEqual does, one node earlier than *)
(* its result.                                                             *)
FindLessThan(k) ==
    LET walk[p \in Position] ==
            LET x == p[1]
                l == p[2]
            IN IF next[x][l] = Null \/ next[x][l] >= k
                 THEN IF l = 0 THEN x ELSE walk[<<x, l - 1>>]
                 ELSE walk[<<next[x][l], l>>]
    IN walk[<<Head, max_height - 1>>]

FindLast ==
    LET walk[p \in Position] ==
            LET x == p[1]
                l == p[2]
            IN IF next[x][l] = Null
                 THEN IF l = 0 THEN x ELSE walk[<<x, l - 1>>]
                 ELSE walk[<<next[x][l], l>>]
    IN walk[<<Head, max_height - 1>>]

-----------------------------------------------------------------------------
(* An equal key is already there: its entry is replaced.                   *)
Replace(k, v) ==
    /\ FindGreaterOrEqual(k) = k
    /\ value' = [value EXCEPT ![k] = v]
    /\ UNCHANGED <<nodes, next, max_height>>

Raised(height) == IF height > max_height THEN height ELSE max_height

\* Faulty variant: the levels above max_height_ are left out.
PrevInUse(k, l) == Prev(k)[IF l < max_height THEN l ELSE max_height - 1]

(* prev[l] as Insert uses it: head_ on the levels that are new.            *)
PrevOrHead(k, l) == IF l < max_height THEN Prev(k)[l] ELSE Head

(* What RandomHeight may return.                                           *)
RandomHeight == 1 .. kMaxHeight

Link(k, v) ==
    \E height \in RandomHeight :
      LET prev == [l \in 0 .. height - 1 |-> PrevOrHead(k, l)]
      IN /\ FindGreaterOrEqual(k) # k
         /\ max_height' = Raised(height)
         /\ nodes' = nodes \cup {k}
         /\ value' = [n \in nodes' |-> IF n = k THEN v ELSE value[n]]
         /\ next' = [n \in nodes' \cup {Head} |-> [l \in Levels |->
                IF n = k THEN IF l < height THEN next[prev[l]][l] ELSE Null
                ELSE IF l < height /\ n = prev[l] THEN k ELSE next[n][l]]]

Insert(k, v) ==
    /\ call' = [op |-> "Insert", key |-> k]
    /\ Replace(k, v) \/ Link(k, v)
    /\ UNCHANGED node

-----------------------------------------------------------------------------
(* The iterator.                                                           *)

Move(op, k, target) ==
    /\ call' = [op |-> op, key |-> k]
    /\ node' = target
    /\ UNCHANGED <<nodes, value, next, max_height>>

SeekToFirst == Move("SeekToFirst", Null, next[Head][0])

SeekToLast == Move("SeekToLast", Null, IF FindLast = Head THEN Null ELSE FindLast)

Valid == node # Null

Next_ == Valid /\ Move("Next", Null, next[node][0])

Prev_ ==
    /\ Valid
    /\ Move("Prev", Null, IF FindLessThan(node) = Head THEN Null ELSE FindLessThan(node))

\* Faulty variant: Seek stays on the next larger key.
SeekAtLeast(k) == Move("Seek", k, FindGreaterOrEqual(k))

(* Seek keeps the node only if its key is equal.                           *)
Seek(k) ==
    Move("Seek", k, IF FindGreaterOrEqual(k) = k THEN k ELSE Null)

Next ==
    \/ \E k \in Key, v \in Value : Insert(k, v)
    \/ SeekToFirst \/ SeekToLast \/ Next_ \/ Prev_
    \/ \E k \in Key : Seek(k)

Spec == Init /\ [][Next]_vars

-----------------------------------------------------------------------------
(* The variables keep their types; links lead to allocated nodes.          *)
TypeOK ==
    /\ nodes \subseteq Key
    /\ value \in [nodes -> Value]
    /\ next \in [nodes \cup {Head} -> [Levels -> nodes \cup {Null}]]
    /\ max_height \in 1 .. kMaxHeight
    /\ node \in nodes \cup {Null}

(* The nodes that level l links.                                           *)
OnLevel(l) == {n \in nodes : \E m \in nodes \cup {Head} : next[m][l] = n}

(* Level 0 links every node, a level links only nodes of the level below,  *)
(* each level leads from every node to the next larger key on it, and no   *)
(* level above max_height_ is used: searches that start at max_height_ - 1 *)
(* and go down miss nothing.                                               *)
LevelsSorted ==
    /\ TypeOK
    /\ OnLevel(0) = nodes
    /\ \A l \in Levels :
         /\ l > 0 => OnLevel(l) \subseteq OnLevel(l - 1)
         /\ l >= max_height => OnLevel(l) = {}
         /\ \A n \in OnLevel(l) \cup {Head} :
              LET larger == {k \in OnLevel(l) : n = Head \/ k > n}
              IN IF larger = {} THEN next[n][l] = Null
                 ELSE next[n][l] \in larger /\ \A k \in larger : next[n][l] <= k

Abstract == INSTANCE SortedMap WITH map <- value, cursor <- node, NoKey <- Null

(* The list is a sorted map with one entry per user key, the last one      *)
(* inserted: Seek finds exactly the keys inserted, and iterating visits    *)
(* them in order, which is what FlushBuffer and StorageBuffer::Get rely    *)
(* on.                                                                     *)
ImplementsSortedMap == Abstract!Spec
=============================================================================
