--------------------------- MODULE LRUCacheProofs ---------------------------
(* Proofs about LRUCache for any files, tables, addresses and capacity.    *)
EXTENDS LRUCache, Sequences, FiniteSetTheorems, WellFoundedInduction, TLAPS

Links == [prev : [Linked -> Linked \cup {Null}], next : [Linked -> Linked \cup {Null}]]

(* The sentinels are no nodes and differ.                                  *)
LEMMA SentinelFacts ==
    /\ head \notin Node /\ tail \notin Node /\ Null \notin Node
    /\ head # tail /\ head # Null /\ tail # Null
    /\ head \in Linked /\ tail \in Linked /\ Node \subseteq Linked /\ Null \notin Linked
    /\ Capacity \in Nat \ {0}
BY CacheAssumption DEF Linked

(* L lists the nodes between the sentinels, c of them, along the links l.  *)
Chain(L, c, l) ==
    /\ c \in Nat /\ L \in [0 .. c + 1 -> Linked]
    /\ L[0] = head /\ L[c + 1] = tail
    /\ \A i \in 1 .. c : L[i] \in Node
    /\ \A i, j \in 0 .. c + 1 : L[i] = L[j] => i = j
    /\ \A i \in 0 .. c : l.next[L[i]] = L[i + 1] /\ l.prev[L[i + 1]] = L[i]

Cut(L, c, j) == [i \in 0 .. c |-> IF i < j THEN L[i] ELSE L[i + 1]]
Push(L, c, n) == [i \in 0 .. c + 2 |-> IF i = 0 THEN head ELSE IF i = 1 THEN n ELSE L[i - 1]]

-----------------------------------------------------------------------------
(* The pointer assignments.                                                *)

(* What DetachNode assigns.                                                *)
LEMMA DetachLinks ==
    ASSUME NEW l \in Links, NEW n \in Linked, l.prev[n] \in Linked, l.next[n] \in Linked
    PROVE  /\ DetachNode(l, n) \in Links
           /\ DetachNode(l, n).next = [l.next EXCEPT ![l.prev[n]] = l.next[n]]
           /\ DetachNode(l, n).prev = [l.prev EXCEPT ![l.next[n]] = l.prev[n]]
BY DEF DetachNode, Links

(* What InsertToFront assigns.                                             *)
LEMMA InsertLinks ==
    ASSUME NEW l \in Links, NEW n \in Node, l.next[head] \in Linked
    PROVE  /\ InsertToFront(l, n) \in Links
           /\ InsertToFront(l, n).next = [[l.next EXCEPT ![n] = l.next[head]] EXCEPT ![head] = n]
           /\ InsertToFront(l, n).prev = [[l.prev EXCEPT ![n] = head] EXCEPT ![l.next[head]] = n]
BY SentinelFacts DEF InsertToFront, Links

(* What deleting a node loses.                                             *)
LEMMA FreeLinks ==
    ASSUME NEW l \in Links, NEW n \in Node
    PROVE  /\ Free(l, n) \in Links
           /\ Free(l, n).next = [l.next EXCEPT ![n] = Null]
           /\ Free(l, n).prev = [l.prev EXCEPT ![n] = Null]
BY SentinelFacts DEF Free, Links

(* Detaching a node leaves the list of the others.                         *)
LEMMA DetachChain ==
    ASSUME NEW L, NEW c, NEW l \in Links, Chain(L, c, l), NEW j \in 1 .. c
    PROVE  DetachNode(l, L[j]) \in Links /\ Chain(Cut(L, c, j), c - 1, DetachNode(l, L[j]))
<1>1. /\ c \in Nat \ {0} /\ L \in [0 .. c + 1 -> Linked] /\ j \in 0 .. c /\ j - 1 \in 0 .. c
      /\ j + 1 \in 0 .. c + 1 /\ (j - 1) + 1 = j
  BY DEF Chain
<1>2. l.prev[L[j]] = L[j - 1] /\ l.next[L[j]] = L[j + 1] /\ L[j] \in Linked
  BY <1>1 DEF Chain
<1>3. PICK k \in Links :
        /\ k = DetachNode(l, L[j])
        /\ k.next = [l.next EXCEPT ![L[j - 1]] = L[j + 1]]
        /\ k.prev = [l.prev EXCEPT ![L[j + 1]] = L[j - 1]]
  <2>1. l.prev[L[j]] \in Linked /\ l.next[L[j]] \in Linked
    BY <1>1, <1>2
  <2>2. /\ DetachNode(l, L[j]) \in Links
        /\ DetachNode(l, L[j]).next = [l.next EXCEPT ![l.prev[L[j]]] = l.next[L[j]]]
        /\ DetachNode(l, L[j]).prev = [l.prev EXCEPT ![l.next[L[j]]] = l.prev[L[j]]]
    BY <1>2, <2>1, DetachLinks
  <2>3. QED BY <1>2, <2>2
<1>4. l.next \in [Linked -> Linked \cup {Null}] /\ l.prev \in [Linked -> Linked \cup {Null}]
  BY DEF Links
<1>5. PICK M : M = Cut(L, c, j)
  OBVIOUS
<1>6. /\ M \in [0 .. c -> Linked]
      /\ \A i \in 0 .. c : i < j => M[i] = L[i]
      /\ \A i \in 0 .. c : ~(i < j) => M[i] = L[i + 1]
  BY <1>1, <1>5 DEF Cut
<1>7. M[0] = head /\ M[c] = tail /\ (c - 1) + 1 = c /\ c - 1 \in Nat
  BY <1>1, <1>6 DEF Chain
<1>8. \A i \in 1 .. c - 1 : M[i] \in Node
  BY <1>1, <1>6 DEF Chain
<1>9. \A a, b \in 0 .. c + 1 : L[a] = L[b] => a = b
  BY DEF Chain
<1>10. ASSUME NEW a \in 0 .. c, NEW b \in 0 .. c, M[a] = M[b] PROVE a = b
  BY <1>1, <1>6, <1>9, <1>10
<1>11. ASSUME NEW i \in 0 .. c - 1 PROVE k.next[M[i]] = M[i + 1] /\ k.prev[M[i + 1]] = M[i]
  <2>1. i \in 0 .. c /\ i + 1 \in 0 .. c /\ i + 2 \in 0 .. c + 1 /\ i \in Int
    BY <1>1
  <2>2. CASE i < j - 1
    <3>1. M[i] = L[i] /\ M[i + 1] = L[i + 1] /\ i # j - 1 /\ i + 1 # j + 1
      BY <1>1, <1>6, <2>1, <2>2
    <3>2. L[i] # L[j - 1] /\ L[i + 1] # L[j + 1] /\ L[i] \in Linked /\ L[i + 1] \in Linked
      BY <1>1, <1>9, <2>1, <3>1
    <3>3. l.next[L[i]] = L[i + 1] /\ l.prev[L[i + 1]] = L[i]
      BY <2>1 DEF Chain
    <3>4. QED BY <1>3, <1>4, <3>1, <3>2, <3>3
  <2>3. CASE i = j - 1
    <3>1. M[i] = L[j - 1] /\ M[i + 1] = L[j + 1] /\ L[j - 1] \in Linked /\ L[j + 1] \in Linked
      BY <1>1, <1>6, <2>1, <2>3
    <3>2. QED BY <1>3, <1>4, <3>1
  <2>4. CASE i > j - 1
    <3>1. M[i] = L[i + 1] /\ M[i + 1] = L[i + 2] /\ i + 1 # j - 1 /\ i + 2 # j + 1
      BY <1>1, <1>6, <2>1, <2>4
    <3>2. L[i + 1] # L[j - 1] /\ L[i + 2] # L[j + 1] /\ L[i + 1] \in Linked /\ L[i + 2] \in Linked
      BY <1>1, <1>9, <2>1, <3>1
    <3>3. l.next[L[i + 1]] = L[i + 2] /\ l.prev[L[i + 2]] = L[i + 1]
      BY <2>1 DEF Chain
    <3>4. QED BY <1>3, <1>4, <3>1, <3>2, <3>3
  <2>5. QED BY <1>1, <2>1, <2>2, <2>3, <2>4
<1>12. Chain(M, c - 1, k)
  BY <1>6, <1>7, <1>8, <1>10, <1>11 DEF Chain
<1>13. QED BY <1>3, <1>5, <1>12

(* Inserting a node puts it before the others.                             *)
LEMMA InsertChain ==
    ASSUME NEW L, NEW c, NEW l \in Links, Chain(L, c, l),
           NEW n \in Node, \A i \in 1 .. c : L[i] # n
    PROVE  InsertToFront(l, n) \in Links /\ Chain(Push(L, c, n), c + 1, InsertToFront(l, n))
<1>1. /\ c \in Nat /\ L \in [0 .. c + 1 -> Linked] /\ 0 \in 0 .. c /\ 1 \in 0 .. c + 1 /\ 0 + 1 = 1
      /\ L[0] = head /\ L[c + 1] = tail
  BY DEF Chain
<1>2. l.next[head] = L[1] /\ L[1] \in Linked
  BY <1>1 DEF Chain
<1>3. PICK k \in Links :
        /\ k = InsertToFront(l, n)
        /\ k.next = [[l.next EXCEPT ![n] = L[1]] EXCEPT ![head] = n]
        /\ k.prev = [[l.prev EXCEPT ![n] = head] EXCEPT ![L[1]] = n]
  BY <1>2, InsertLinks
<1>4. l.next \in [Linked -> Linked \cup {Null}] /\ l.prev \in [Linked -> Linked \cup {Null}]
  BY DEF Links
<1>5. PICK M : M = Push(L, c, n)
  OBVIOUS
<1>6. /\ M \in [0 .. c + 2 -> Linked] /\ M[0] = head /\ M[1] = n
      /\ \A i \in 0 .. c + 2 : i # 0 /\ i # 1 => M[i] = L[i - 1] /\ i - 1 \in 1 .. c + 1
  BY <1>1, <1>5, SentinelFacts DEF Push
<1>7. M[c + 2] = tail /\ (c + 1) + 1 = c + 2 /\ c + 1 \in Nat
  BY <1>1, <1>6
<1>8. \A i \in 1 .. c + 1 : M[i] \in Node
  BY <1>1, <1>6 DEF Chain
<1>9. \A a, b \in 0 .. c + 1 : L[a] = L[b] => a = b
  BY DEF Chain
<1>10. \A i \in 0 .. c + 1 : L[i] # n
  BY <1>1, SentinelFacts
<1>11. ASSUME NEW a \in 0 .. c + 2, NEW b \in 0 .. c + 2, M[a] = M[b] PROVE a = b
  <2>1. \A i \in 1 .. c + 1 : L[i] # head
    BY <1>1, <1>9
  <2>2. QED BY <1>1, <1>6, <1>9, <1>10, <1>11, <2>1, SentinelFacts
<1>12. ASSUME NEW i \in 0 .. c + 1 PROVE k.next[M[i]] = M[i + 1] /\ k.prev[M[i + 1]] = M[i]
  <2>1. CASE i = 0
    BY <1>1, <1>2, <1>3, <1>4, <1>6, <1>10, <2>1, SentinelFacts
  <2>2. CASE i = 1
    <3>1. M[i] = n /\ M[i + 1] = L[1] /\ n # head
      BY <1>1, <1>6, <2>2, SentinelFacts
    <3>2. QED BY <1>2, <1>3, <1>4, <3>1, SentinelFacts
  <2>3. CASE i # 0 /\ i # 1
    <3>1. i - 1 \in 1 .. c /\ i \in 2 .. c + 1 /\ (i - 1) + 1 = i /\ (i + 1) - 1 = i
      BY <1>1, <2>3
    <3>2. M[i] = L[i - 1] /\ M[i + 1] = L[i]
      BY <1>1, <1>6, <2>3, <3>1
    <3>3. l.next[L[i - 1]] = L[i] /\ l.prev[L[i]] = L[i - 1]
      BY <1>1, <3>1 DEF Chain
    <3>4. L[i - 1] # head /\ L[i] # L[1] /\ L[i - 1] # n /\ L[i] # n
      BY <1>1, <1>9, <1>10, <3>1
    <3>5. L[i - 1] \in Linked /\ L[i] \in Linked
      BY <1>1, <3>1
    <3>6. QED BY <1>3, <1>4, <3>2, <3>3, <3>4, <3>5
  <2>4. QED BY <2>1, <2>2, <2>3
<1>13. Chain(M, c + 1, k)
  BY <1>6, <1>7, <1>8, <1>11, <1>12 DEF Chain
<1>14. QED BY <1>3, <1>5, <1>13

(* Deleting a node that is not in the list leaves the list alone.          *)
LEMMA FreeChain ==
    ASSUME NEW L, NEW c, NEW l \in Links, Chain(L, c, l),
           NEW n \in Node, \A i \in 1 .. c : L[i] # n
    PROVE  Free(l, n) \in Links /\ Chain(L, c, Free(l, n))
<1>1. c \in Nat /\ L \in [0 .. c + 1 -> Linked] /\ L[0] = head /\ L[c + 1] = tail
  BY DEF Chain
<1>2. PICK k \in Links : /\ k = Free(l, n)
                         /\ k.next = [l.next EXCEPT ![n] = Null]
                         /\ k.prev = [l.prev EXCEPT ![n] = Null]
  BY FreeLinks
<1>3. l.next \in [Linked -> Linked \cup {Null}] /\ l.prev \in [Linked -> Linked \cup {Null}]
  BY DEF Links
<1>4. \A i \in 0 .. c + 1 : L[i] # n /\ L[i] \in Linked
  BY <1>1, SentinelFacts
<1>5. \A i \in 0 .. c : k.next[L[i]] = L[i + 1] /\ k.prev[L[i + 1]] = L[i]
  BY <1>1, <1>2, <1>3, <1>4 DEF Chain
<1>6. Chain(L, c, k)
  BY <1>5 DEF Chain
<1>7. QED BY <1>2, <1>6

-----------------------------------------------------------------------------
(* The nodes of a list.                                                    *)

Elements(L, c) == {L[i] : i \in 1 .. c}

(* L is the list of the nodes S.                                           *)
Lists(L, c, l, S) == l \in Links /\ Chain(L, c, l) /\ Elements(L, c) = S

(* Detaching a node takes it out of the list.                              *)
LEMMA DetachLists ==
    ASSUME NEW L, NEW c, NEW l, NEW S, Lists(L, c, l, S), NEW j \in 1 .. c
    PROVE  Lists(Cut(L, c, j), c - 1, DetachNode(l, L[j]), S \ {L[j]})
<1>1. DetachNode(l, L[j]) \in Links /\ Chain(Cut(L, c, j), c - 1, DetachNode(l, L[j]))
  BY DetachChain DEF Lists
<1>2. c \in Nat /\ \A a, b \in 0 .. c + 1 : L[a] = L[b] => a = b
  BY DEF Lists, Chain
<1>3. PICK M : M = Cut(L, c, j)
  OBVIOUS
<1>4. \A i \in 0 .. c : M[i] = IF i < j THEN L[i] ELSE L[i + 1]
  BY <1>3 DEF Cut
<1>5. ASSUME NEW i \in 1 .. c - 1 PROVE M[i] \in S \ {L[j]}
  <2>1. CASE i < j
    BY <1>2, <1>4, <2>1 DEF Lists, Elements
  <2>2. CASE ~(i < j)
    <3>1. i + 1 \in 1 .. c /\ i + 1 # j /\ M[i] = L[i + 1]
      BY <1>2, <1>4, <2>2
    <3>2. QED BY <1>2, <3>1 DEF Lists, Elements
  <2>3. QED BY <2>1, <2>2
<1>6. ASSUME NEW i \in 1 .. c, L[i] # L[j] PROVE L[i] \in Elements(M, c - 1)
  <2>1. CASE i < j
    <3>1. i \in 1 .. c - 1 /\ M[i] = L[i]
      BY <1>2, <1>4, <2>1
    <3>2. QED BY <3>1 DEF Elements
  <2>2. CASE i > j
    <3>1. i - 1 \in 1 .. c - 1 /\ M[i - 1] = L[i]
      BY <1>2, <1>4, <2>2
    <3>2. QED BY <3>1 DEF Elements
  <2>3. QED BY <1>2, <1>6, <2>1, <2>2
<1>7. Elements(M, c - 1) = S \ {L[j]}
  BY <1>5, <1>6 DEF Lists, Elements
<1>8. QED BY <1>1, <1>3, <1>7 DEF Lists

(* Inserting a node adds it to the list.                                   *)
LEMMA InsertLists ==
    ASSUME NEW L, NEW c, NEW l, NEW S, Lists(L, c, l, S), NEW n \in Node \ S
    PROVE  Lists(Push(L, c, n), c + 1, InsertToFront(l, n), S \cup {n})
<1>1. \A i \in 1 .. c : L[i] # n
  BY DEF Lists, Elements
<1>2. InsertToFront(l, n) \in Links /\ Chain(Push(L, c, n), c + 1, InsertToFront(l, n))
  BY <1>1, InsertChain DEF Lists
<1>3. c \in Nat
  BY DEF Lists, Chain
<1>4. PICK M : M = Push(L, c, n)
  OBVIOUS
<1>5. M[1] = n /\ \A i \in 1 .. c : M[i + 1] = L[i]
  BY <1>3, <1>4 DEF Push
<1>6. \A i \in 1 .. c + 1 : i = 1 \/ (i - 1 \in 1 .. c /\ (i - 1) + 1 = i)
  BY <1>3
<1>7. ASSUME NEW i \in 1 .. c + 1 PROVE M[i] \in S \cup {n}
  BY <1>5, <1>6 DEF Lists, Elements
<1>8. ASSUME NEW x \in S \cup {n} PROVE x \in Elements(M, c + 1)
  <2>1. CASE x = n
    BY <1>3, <1>5, <2>1 DEF Elements
  <2>2. CASE x \in S
    <3>1. PICK i \in 1 .. c : x = L[i]
      BY <2>2 DEF Lists, Elements
    <3>2. i + 1 \in 1 .. c + 1 /\ M[i + 1] = x
      BY <1>3, <1>5, <3>1
    <3>3. QED BY <3>2 DEF Elements
  <2>3. QED BY <2>1, <2>2
<1>9. Elements(M, c + 1) = S \cup {n}
  BY <1>7, <1>8 DEF Elements
<1>10. QED BY <1>2, <1>4, <1>9 DEF Lists

(* Deleting a node that is in no list leaves the list alone.               *)
LEMMA FreeLists ==
    ASSUME NEW L, NEW c, NEW l, NEW S, Lists(L, c, l, S), NEW n \in Node \ S
    PROVE  Lists(L, c, Free(l, n), S)
<1>1. \A i \in 1 .. c : L[i] # n
  BY DEF Lists, Elements
<1>2. QED BY <1>1, FreeChain DEF Lists

(* A use moves a node to the front.                                        *)
LEMMA PromoteLists ==
    ASSUME NEW L, NEW c, NEW l, NEW S, Lists(L, c, l, S), NEW j \in 1 .. c
    PROVE  Lists(Push(Cut(L, c, j), c - 1, L[j]), c, InsertToFront(DetachNode(l, L[j]), L[j]), S)
<1>1. Lists(Cut(L, c, j), c - 1, DetachNode(l, L[j]), S \ {L[j]})
  BY DetachLists
<1>2. L[j] \in Node /\ L[j] \in S /\ c \in Nat /\ (c - 1) + 1 = c
  BY DEF Lists, Chain, Elements
<1>3. Lists(Push(Cut(L, c, j), c - 1, L[j]), (c - 1) + 1,
            InsertToFront(DetachNode(l, L[j]), L[j]), (S \ {L[j]}) \cup {L[j]})
  BY <1>1, <1>2, InsertLists
<1>4. (S \ {L[j]}) \cup {L[j]} = S
  BY <1>2
<1>5. QED BY <1>2, <1>3, <1>4

(* Eviction detaches the node before tail.                                 *)
LEMMA EvictLists ==
    ASSUME NEW L, NEW c, NEW l, NEW S, Lists(L, c, l, S), c # 0
    PROVE  /\ l.prev[tail] = L[c] /\ L[c] \in S /\ L[c] \in Node
           /\ Lists(Cut(L, c, c), c - 1, Free(DetachNode(l, L[c]), L[c]), S \ {L[c]})
<1>1. c \in Nat /\ c \in 1 .. c /\ c \in 0 .. c /\ L[c + 1] = tail
  BY DEF Lists, Chain
<1>2. l.prev[tail] = L[c] /\ L[c] \in Node /\ L[c] \in S
  BY <1>1 DEF Lists, Chain, Elements
<1>3. Lists(Cut(L, c, c), c - 1, DetachNode(l, L[c]), S \ {L[c]})
  BY <1>1, DetachLists
<1>4. QED BY <1>2, <1>3, FreeLists

(* The empty list.                                                         *)
LEMMA EmptyLists == \E L : Lists(L, 0, Sentinels, {})
<1> DEFINE L == [i \in 0 .. 0 + 1 |-> IF i = 0 THEN head ELSE tail]
<1>1. Sentinels \in Links
  BY SentinelFacts DEF Sentinels, Links
<1>2. Sentinels.next[head] = tail /\ Sentinels.prev[tail] = head
  BY SentinelFacts DEF Sentinels
<1>3. L \in [0 .. 0 + 1 -> Linked] /\ L[0] = head /\ L[0 + 1] = tail
  BY SentinelFacts
<1>4. \A i, j \in 0 .. 0 + 1 : L[i] = L[j] => i = j
  BY SentinelFacts
<1>5. \A i \in 0 .. 0 : Sentinels.next[L[i]] = L[i + 1] /\ Sentinels.prev[L[i + 1]] = L[i]
  BY <1>2, <1>3
<1> HIDE DEF L
<1>6. Chain(L, 0, Sentinels)
  BY <1>3, <1>4, <1>5 DEF Chain
<1>7. Elements(L, 0) = {}
  BY DEF Elements
<1>8. QED BY <1>1, <1>6, <1>7 DEF Lists

-----------------------------------------------------------------------------
(* The inductive invariant: the types, the bound, and a list of the nodes  *)
(* of the map along both directions of the links.                          *)
CacheInv ==
    /\ TypeOK
    /\ fields \in [Node -> [key : FileId \cup {Null}, value : Table \cup {Null}]]
    /\ count <= Capacity
    /\ \E L : Lists(L, count, links, Nodes)

(* Every node of the map belongs to the one file it names.                 *)
LEMMA OwnerFacts ==
    ASSUME CacheInv
    PROVE  /\ Nodes \subseteq Node
           /\ \A f \in FileId : m[f] # Null => m[f] \in Nodes
           /\ \A n \in Nodes : fields[n].key \in FileId /\ m[fields[n].key] = n
           /\ \A n \in Nodes : fields[n].value \in Table
           /\ \A f, g \in FileId : m[f] # Null /\ m[f] = m[g] => f = g
BY SentinelFacts DEF CacheInv, TypeOK, Nodes

(* The place of a node in the list.                                        *)
LEMMA PlaceOf ==
    ASSUME NEW L, NEW c, NEW l, NEW S, Lists(L, c, l, S), NEW n \in S
    PROVE  \E j \in 1 .. c : L[j] = n
BY DEF Lists, Elements

(* Get keeps the list, or moves the node of the file to its front.         *)
LEMMA GetLists ==
    ASSUME CacheInv, NEW f \in FileId, NEW k \in Key, Get(f, k),
           NEW L, Lists(L, count, links, Nodes)
    PROVE  IF m[f] # Null /\ fields[m[f]].value[k] # 0
             THEN \E j \in 1 .. count :
                    /\ L[j] = m[f]
                    /\ Lists(Push(Cut(L, count, j), count - 1, L[j]), count, links', Nodes)
             ELSE links' = links
<1>1. CASE m[f] # Null /\ fields[m[f]].value[k] # 0
  <2>1. links' = InsertToFront(DetachNode(links, m[f]), m[f])
    BY <1>1 DEF Get, Promotes
  <2>2. PICK j \in 1 .. count : L[j] = m[f]
    BY <1>1, OwnerFacts, PlaceOf
  <2>3. Lists(Push(Cut(L, count, j), count - 1, L[j]), count,
              InsertToFront(DetachNode(links, L[j]), L[j]), Nodes)
    BY PromoteLists
  <2>4. QED BY <1>1, <2>1, <2>2, <2>3
<1>2. CASE ~(m[f] # Null /\ fields[m[f]].value[k] # 0)
  BY <1>2 DEF Get, Promotes
<1>3. QED BY <1>1, <1>2

(* Get keeps the invariant.                                                *)
LEMMA GetInv ==
    ASSUME CacheInv, NEW f \in FileId, NEW k \in Key, Get(f, k)
    PROVE  CacheInv'
<1>1. PICK L : Lists(L, count, links, Nodes)
  BY DEF CacheInv
<1>2. UNCHANGED <<m, fields, heap, count>> /\ Nodes' = Nodes
  BY DEF Get, Nodes
<1>3. \E M : Lists(M, count', links', Nodes')
  BY <1>1, <1>2, GetLists
<1>4. links' \in Links
  BY <1>3 DEF Lists
<1>5. result' \in [exists : BOOLEAN, offset : Nat]
  <2>1. m[f] # Null => fields[m[f]].value \in Table /\ Table \subseteq [Key -> Nat]
    BY OwnerFacts, CacheAssumption
  <2>2. m[f] # Null => fields[m[f]].value[k] \in Nat
    BY <2>1
  <2>3. QED BY <2>2 DEF Get
<1>6. TypeOK'
  BY <1>2, <1>4, <1>5 DEF CacheInv, TypeOK, Links
<1>7. QED BY <1>2, <1>3, <1>6 DEF CacheInv

(* Set of a cached file moves its node to the front.                       *)
LEMMA SetOldLists ==
    ASSUME CacheInv, NEW f \in FileId, NEW t \in Table, SetOld(f, t),
           NEW L, Lists(L, count, links, Nodes)
    PROVE  \E j \in 1 .. count :
             /\ L[j] = m[f]
             /\ Lists(Push(Cut(L, count, j), count - 1, L[j]), count, links', Nodes)
<1>1. m[f] # Null /\ links' = InsertToFront(DetachNode(links, m[f]), m[f])
  BY DEF SetOld
<1>2. PICK j \in 1 .. count : L[j] = m[f]
  BY <1>1, OwnerFacts, PlaceOf
<1>3. Lists(Push(Cut(L, count, j), count - 1, L[j]), count,
            InsertToFront(DetachNode(links, L[j]), L[j]), Nodes)
  BY PromoteLists
<1>4. QED BY <1>1, <1>2, <1>3

(* What Set of a cached file stores.                                       *)
LEMMA SetOldFields ==
    ASSUME CacheInv, NEW f \in FileId, NEW t \in Table, SetOld(f, t)
    PROVE  /\ fields' \in [Node -> [key : FileId \cup {Null}, value : Table \cup {Null}]]
           /\ \A n \in Node : fields'[n].key = fields[n].key
           /\ \A n \in Node : fields'[n].value = IF n = m[f] THEN t ELSE fields[n].value
<1>1. fields \in [Node -> [key : FileId \cup {Null}, value : Table \cup {Null}]] /\ m[f] \in Node
  BY DEF CacheInv, TypeOK, SetOld
<1>2. fields' = [fields EXCEPT ![m[f]].value = t]
  BY DEF SetOld
<1>3. QED BY <1>1, <1>2

(* Set of a cached file keeps the invariant.                               *)
LEMMA SetOldInv ==
    ASSUME CacheInv, NEW f \in FileId, NEW t \in Table, SetOld(f, t)
    PROVE  CacheInv'
<1>1. PICK L : Lists(L, count, links, Nodes)
  BY DEF CacheInv
<1>2. UNCHANGED <<m, heap, count, result>> /\ Nodes' = Nodes
  BY DEF SetOld, Nodes
<1>3. \E M : Lists(M, count', links', Nodes')
  BY <1>1, <1>2, SetOldLists
<1>4. links' \in Links
  BY <1>3 DEF Lists
<1>5. ASSUME NEW g \in FileId, m[g] # Null
      PROVE  fields'[m[g]].key = g /\ fields'[m[g]].value \in Table
  BY <1>5, SetOldFields, OwnerFacts
<1>6. TypeOK'
  BY <1>2, <1>4, <1>5 DEF CacheInv, TypeOK, Links
<1>7. QED BY <1>2, <1>3, <1>6, SetOldFields DEF CacheInv

-----------------------------------------------------------------------------
(* What Set of a file that is not cached does to the map, the nodes and    *)
(* the list: node is the new node, and the last one makes room when the    *)
(* cache is full.                                                          *)
Kept(L) == IF Full THEN Cut(L, count, count) ELSE L
KeptCount == IF Full THEN count - 1 ELSE count
Gone == IF Full THEN {links.prev[tail]} ELSE {}

Adds(f, t, node, L) ==
    /\ node \in Node \ Nodes /\ m[f] = Null
    /\ \A n \in Gone : n \in Nodes /\ n = L[count] /\ fields[n].key # f
    /\ m' \in [FileId -> Node \cup {Null}] /\ m'[f] = node
    /\ \A g \in FileId : g # f => m'[g] = IF m[g] \in Gone THEN Null ELSE m[g]
    /\ fields' \in [Node -> [key : FileId \cup {Null}, value : Table \cup {Null}]]
    /\ fields'[node] = [key |-> f, value |-> t]
    /\ \A n \in Node \ Gone : n # node => fields'[n] = fields[n]
    /\ heap' = (heap \ Gone) \cup {node}
    /\ KeptCount \in Nat /\ count' = KeptCount + 1 /\ count' <= Capacity
    /\ Nodes' = (Nodes \ Gone) \cup {node}
    /\ Lists(Kept(L), KeptCount, IF Full THEN Free(DetachNode(links, L[count]), L[count]) ELSE links,
             Nodes \ Gone)
    /\ Lists(Push(Kept(L), KeptCount, node), count', links', Nodes')
    /\ result' = result

(* The parts of Adds.                                                      *)
LEMMA AddsFacts ==
    ASSUME NEW f, NEW t, NEW node, NEW L, Adds(f, t, node, L)
    PROVE  /\ node \in Node \ Nodes /\ m[f] = Null
           /\ \A n \in Gone : n = L[count]
           /\ m'[f] = node
           /\ \A g \in FileId : g # f => m'[g] = IF m[g] \in Gone THEN Null ELSE m[g]
           /\ fields'[node].key = f /\ fields'[node].value = t
           /\ \A n \in Node \ Gone : n # node => fields'[n] = fields[n]
           /\ KeptCount \in Nat /\ count' = KeptCount + 1
<1>1. /\ node \in Node \ Nodes /\ m[f] = Null
      /\ \A n \in Gone : n = L[count]
      /\ m'[f] = node
      /\ \A g \in FileId : g # f => m'[g] = IF m[g] \in Gone THEN Null ELSE m[g]
      /\ \A n \in Node \ Gone : n # node => fields'[n] = fields[n]
      /\ KeptCount \in Nat /\ count' = KeptCount + 1
  BY Zenon DEF Adds
<1>2. fields'[node] = [key |-> f, value |-> t]
  BY Zenon DEF Adds
<1>3. fields'[node].key = f /\ fields'[node].value = t
  BY <1>2
<1>4. QED BY <1>1, <1>3

(* Set of a file that is not cached adds its node to what it keeps.        *)
LEMMA SetNewAdds ==
    ASSUME CacheInv, NEW f \in FileId, NEW t \in Table, SetNew(f, t),
           NEW L, Lists(L, count, links, Nodes)
    PROVE  \E node \in Node : Adds(f, t, node, L)
<1> DEFINE lru == links.prev[tail]
<1>1. PICK node \in Node \ heap :
         /\ m[f] = Null
         /\ m' = [g \in FileId |-> IF g = f THEN node
                                   ELSE IF Full /\ g \in Erased(lru) THEN Null
                                   ELSE m[g]]
         /\ fields' = [n \in Node |-> IF n = node THEN [key |-> f, value |-> t]
                                      ELSE IF Full /\ n = lru THEN NoFields
                                      ELSE fields[n]]
         /\ links' = InsertToFront(IF Full THEN Free(DetachNode(links, lru), lru)
                                            ELSE links, node)
         /\ heap' = (heap \cup {node}) \ (IF Full THEN {lru} ELSE {})
         /\ count' = IF Full THEN count ELSE count + 1
         /\ UNCHANGED result
  BY DEF SetNew
<1>2. heap = Nodes /\ count \in Nat /\ count <= Capacity /\ m \in [FileId -> Node \cup {Null}]
  BY DEF CacheInv, TypeOK, Lists, Chain
<1>3. Full => count # 0
  BY SentinelFacts DEF Full
<1>4. Full => lru = L[count] /\ lru \in Nodes /\ lru \in Node
  BY <1>3, EvictLists
<1>5. Full => /\ fields[lru].key \in FileId /\ m[fields[lru].key] = lru /\ fields[lru].key # f
              /\ Erased(lru) = {fields[lru].key}
  BY <1>1, <1>4, OwnerFacts, SentinelFacts DEF Erased
<1>6. node \in Node \ Nodes /\ (Full => node # lru)
  BY <1>1, <1>2, <1>4
<1>7. \A n \in Gone : n \in Nodes /\ n = L[count] /\ fields[n].key # f
  BY <1>4, <1>5 DEF Gone
<1>8. m' \in [FileId -> Node \cup {Null}] /\ m'[f] = node
  BY <1>1, <1>2
<1>9. ASSUME NEW g \in FileId, g # f
      PROVE  m'[g] = IF m[g] \in Gone THEN Null ELSE m[g]
  <2>1. Full => (g \in Erased(lru) <=> m[g] = lru)
    BY <1>4, <1>5, OwnerFacts, SentinelFacts
  <2>2. m'[g] = IF Full /\ g \in Erased(lru) THEN Null ELSE m[g]
    BY <1>1, <1>9
  <2>3. QED BY <2>1, <2>2 DEF Gone
<1>10. /\ fields' \in [Node -> [key : FileId \cup {Null}, value : Table \cup {Null}]]
       /\ fields'[node] = [key |-> f, value |-> t]
       /\ \A n \in Node \ Gone : n # node => fields'[n] = fields[n]
  BY <1>1 DEF CacheInv, NoFields, Gone
<1>11. heap' = (heap \ Gone) \cup {node}
  BY <1>1, <1>6 DEF Gone
<1>12. KeptCount \in Nat /\ count' = KeptCount + 1 /\ count' <= Capacity
  BY <1>1, <1>2, <1>3, SentinelFacts DEF KeptCount, Full
<1>13. Nodes' = (Nodes \ Gone) \cup {node}
  <2>1. ASSUME NEW n \in Nodes' PROVE n \in (Nodes \ Gone) \cup {node}
    <3>1. PICK g \in FileId : n = m'[g] /\ n # Null
      BY DEF Nodes
    <3>2. CASE g # f
      <4>1. m[g] \notin Gone /\ n = m[g]
        BY <1>9, <3>1, <3>2
      <4>2. QED BY <3>1, <4>1, OwnerFacts
    <3>3. QED BY <1>8, <3>1, <3>2
  <2>2. node \in Nodes'
    BY <1>8, SentinelFacts DEF Nodes
  <2>3. ASSUME NEW n \in Nodes \ Gone PROVE n \in Nodes'
    <3>1. PICK g \in FileId : n = m[g] /\ n # Null
      BY DEF Nodes
    <3>2. m'[g] = n
      BY <1>1, <1>9, <3>1
    <3>3. QED BY <3>1, <3>2 DEF Nodes
  <2>4. QED BY <2>1, <2>2, <2>3
<1>14. PICK l : l = IF Full THEN Free(DetachNode(links, L[count]), L[count]) ELSE links
  OBVIOUS
<1>15. Lists(Kept(L), KeptCount, l, Nodes \ Gone)
  <2>1. CASE Full
    BY <1>3, <1>4, <1>14, <2>1, EvictLists DEF Kept, KeptCount, Gone
  <2>2. CASE ~Full
    <3>1. Nodes \ {} = Nodes
      OBVIOUS
    <3>2. QED BY <1>14, <2>2, <3>1 DEF Kept, KeptCount, Gone
  <2>3. QED BY <2>1, <2>2
<1>16. links' = InsertToFront(l, node)
  BY <1>1, <1>4, <1>14
<1>17. Lists(Push(Kept(L), KeptCount, node), KeptCount + 1, InsertToFront(l, node),
             (Nodes \ Gone) \cup {node})
  BY <1>6, <1>15, InsertLists
<1>18. Lists(Push(Kept(L), KeptCount, node), count', links', Nodes')
  BY <1>12, <1>13, <1>16, <1>17
<1>19. QED
  BY <1>1, <1>6, <1>7, <1>8, <1>9, <1>10, <1>11, <1>12, <1>13, <1>14, <1>15, <1>18 DEF Adds

(* Set of a file that is not cached keeps the invariant.                   *)
LEMMA SetNewInv ==
    ASSUME CacheInv, NEW f \in FileId, NEW t \in Table, SetNew(f, t)
    PROVE  CacheInv'
<1>1. PICK L : Lists(L, count, links, Nodes)
  BY DEF CacheInv
<1>2. PICK node \in Node : Adds(f, t, node, L)
  BY <1>1, SetNewAdds
<1>3. links' \in Links /\ \E M : Lists(M, count', links', Nodes')
  BY <1>2 DEF Adds, Lists
<1>4. heap' = Nodes' /\ result' = result /\ count' <= Capacity /\ m' \in [FileId -> Node \cup {Null}]
  BY <1>2 DEF Adds, CacheInv, TypeOK
<1>5. ASSUME NEW g \in FileId, m'[g] # Null
      PROVE  fields'[m'[g]].key = g /\ fields'[m'[g]].value \in Table
  <2>1. CASE g = f
    BY <1>2, <2>1 DEF Adds
  <2>2. CASE g # f
    <3>1. m'[g] = m[g] /\ m[g] \notin Gone /\ m[g] # Null
      BY <1>2, <1>5, <2>2 DEF Adds
    <3>2. m[g] \in Nodes /\ m[g] \in Node /\ m[g] # node
      BY <1>2, <3>1, OwnerFacts DEF Adds
    <3>3. fields'[m[g]] = fields[m[g]]
      BY <1>2, <3>1, <3>2 DEF Adds
    <3>4. QED BY <3>1, <3>3 DEF CacheInv, TypeOK
  <2>3. QED BY <2>1, <2>2
<1>6. TypeOK'
  BY <1>3, <1>4, <1>5 DEF CacheInv, TypeOK, Links
<1>7. QED BY <1>2, <1>3, <1>4, <1>6 DEF CacheInv, Adds

(* Clear keeps the invariant.                                              *)
LEMMA ClearInv ==
    ASSUME CacheInv, Clear
    PROVE  CacheInv'
<1>1. m' = [f \in FileId |-> Null] /\ Nodes' = {} /\ heap' = {}
  BY DEF Clear, Nodes, CacheInv, TypeOK
<1>2. \E L : Lists(L, count', links', Nodes')
  BY <1>1, EmptyLists DEF Clear
<1>3. links' \in Links /\ count' <= Capacity /\ result' = result
  BY <1>2, SentinelFacts DEF Clear, Lists
<1>4. fields' \in [Node -> [key : FileId \cup {Null}, value : Table \cup {Null}]]
  BY DEF Clear, NoFields
<1>5. TypeOK'
  BY <1>1, <1>3 DEF CacheInv, TypeOK, Links
<1>6. QED BY <1>2, <1>3, <1>4, <1>5 DEF CacheInv

(* The invariant holds in every reachable state.                           *)
LEMMA CacheInvariant == Spec => []CacheInv
<1>1. Init => CacheInv
  <2> SUFFICES ASSUME Init PROVE CacheInv
    OBVIOUS
  <2>1. Nodes = {} /\ m = [f \in FileId |-> Null]
    BY DEF Init, Nodes
  <2>2. \E L : Lists(L, count, links, Nodes)
    BY <2>1, EmptyLists DEF Init
  <2>3. links \in Links
    BY <2>2 DEF Lists
  <2>4. TypeOK
    BY <2>1, <2>3 DEF TypeOK, Init, Links
  <2>5. QED BY <2>2, <2>4, SentinelFacts DEF CacheInv, Init, NoFields
<1>2. CacheInv /\ [Next]_vars => CacheInv'
  <2> SUFFICES ASSUME CacheInv, [Next]_vars PROVE CacheInv'
    OBVIOUS
  <2>1. CASE UNCHANGED vars
    <3>1. UNCHANGED <<m, fields, links, heap, count, result>> /\ Nodes' = Nodes
      BY <2>1 DEF Nodes, vars
    <3>2. TypeOK'
      BY <3>1 DEF CacheInv, TypeOK
    <3>3. \E L : Lists(L, count', links', Nodes')
      BY <3>1 DEF CacheInv
    <3>4. QED BY <3>1, <3>2, <3>3 DEF CacheInv
  <2>2. QED BY <2>1, GetInv, SetNewInv, SetOldInv, ClearInv DEF Next, Set
<1>3. QED BY <1>1, <1>2, PTL DEF Spec

-----------------------------------------------------------------------------
(* The recursive walk along the links.                                     *)

Below == OpToRel(<, Nat)

(* A nonempty set of numbers has a least element.                          *)
LEMMA LeastNumber ==
    ASSUME NEW T \in SUBSET Nat, T # {}
    PROVE  \E x \in T : \A y \in T : x <= y
<1>1. IsWellFoundedOn(Below, Nat)
  BY NatLessThanWellFounded DEF Below
<1>2. \A x, y \in Nat : <<x, y>> \in Below <=> x < y
  BY DEF OpToRel, Below
<1>3. PICK x \in T : \A y \in T : ~ (<<y, x>> \in Below)
  BY <1>1, WFMin
<1>4. \A y \in T : ~ (y < x)
  BY <1>2, <1>3, Zenon
<1>5. x \in Nat /\ \A y \in T : y \in Nat
  OBVIOUS
<1>6. QED BY <1>4, <1>5

(* P begins at start and follows the links.                                *)
Follows(P, c, start, link) == P[0] = start /\ \A i \in 1 .. c : P[i] = link[P[i - 1]]

(* Whatever follows the links is the walk.                                 *)
LEMMA WalkIs ==
    ASSUME count \in Nat, NEW P, NEW start, NEW link, Follows(P, count, start, link)
    PROVE  Walk(start, link) = [i \in 1 .. count |-> P[i]]
<1> USE DEF Follows
<1> DEFINE Solves(at) == at = [i \in 0 .. count |-> IF i = 0 THEN start ELSE link[at[i - 1]]]
           Q == [i \in 0 .. count |-> P[i]]
           w == CHOOSE at : Solves(at)
<1>1. Solves(Q)
  <2>1. \A i \in 0 .. count : i # 0 => i - 1 \in 0 .. count /\ i \in 1 .. count
    OBVIOUS
  <2>2. \A i \in 0 .. count : P[i] = IF i = 0 THEN start ELSE link[Q[i - 1]]
    BY <2>1
  <2>3. QED BY <2>2, Zenon
<1>2. Walk(start, link) = [i \in 1 .. count |-> w[i]]
  BY Zenon DEF Walk
<1>3. Solves(w)
  <2> HIDE DEF Solves, Q
  <2> QED BY <1>1, Zenon
<1>4. \A i \in 0 .. count : w[i] = IF i = 0 THEN start ELSE link[w[i - 1]]
  <2> HIDE DEF w
  <2> QED BY <1>3, Zenon
<1> HIDE DEF w
<1> DEFINE T == {i \in 0 .. count : w[i] # P[i]}
<1>5. T = {}
  <2> SUFFICES ASSUME T # {} PROVE FALSE
    OBVIOUS
  <2>1. PICK i \in T : \A j \in T : i <= j
    <3>1. T \in SUBSET Nat
      OBVIOUS
    <3> HIDE DEF T
    <3>2. QED BY <3>1, LeastNumber
  <2>2. i \in 0 .. count /\ w[i] # P[i]
    OBVIOUS
  <2>3. i # 0
    BY <1>4, <2>2
  <2>4. i - 1 \in 0 .. count /\ i - 1 \notin T /\ i \in 1 .. count
    BY <2>1, <2>2, <2>3
  <2>5. w[i - 1] = P[i - 1]
    BY <2>4
  <2>6. QED BY <1>4, <2>2, <2>3, <2>4, <2>5
<1>6. \A i \in 1 .. count : w[i] = P[i]
  BY <1>5
<1>7. QED BY <1>2, <1>6, Zenon

(* The walks from the two sentinels read the list.                         *)
LEMMA WalksReadList ==
    ASSUME NEW L, Lists(L, count, links, Nodes)
    PROVE  /\ Walk(head, links.next) = [i \in 1 .. count |-> L[i]]
           /\ Walk(tail, links.prev) = [i \in 1 .. count |-> L[count + 1 - i]]
<1>1. count \in Nat /\ L[0] = head /\ L[count + 1] = tail
  BY DEF Lists, Chain
<1>2. \A i \in 1 .. count : L[i] = links.next[L[i - 1]]
  <2>1. \A i \in 1 .. count : i - 1 \in 0 .. count /\ (i - 1) + 1 = i
    BY <1>1
  <2>2. QED BY <2>1 DEF Lists, Chain
<1> DEFINE B == [i \in 0 .. count |-> L[count + 1 - i]]
<1>3. B[0] = tail
  BY <1>1
<1>4. \A i \in 1 .. count : B[i] = links.prev[B[i - 1]]
  <2>1. \A i \in 1 .. count : /\ count + 1 - i \in 0 .. count /\ i \in 0 .. count /\ i - 1 \in 0 .. count
                              /\ (count + 1 - i) + 1 = count + 1 - (i - 1)
    BY <1>1
  <2>2. QED BY <2>1 DEF Lists, Chain
<1>5. \A i \in 1 .. count : B[i] = L[count + 1 - i]
  BY <1>1
<1> HIDE DEF B
<1>6. Walk(tail, links.prev) = [i \in 1 .. count |-> B[i]]
  <2>1. Follows(B, count, tail, links.prev)
    BY <1>3, <1>4 DEF Follows
  <2>2. QED BY <1>1, <2>1, WalkIs
<1>7. [i \in 1 .. count |-> B[i]] = [i \in 1 .. count |-> L[count + 1 - i]]
  BY <1>5, Zenon
<1>8. Walk(head, links.next) = [i \in 1 .. count |-> L[i]]
  <2>1. Follows(L, count, head, links.next)
    BY <1>1, <1>2 DEF Follows
  <2>2. QED BY <1>1, <2>1, WalkIs
<1>9. QED BY <1>6, <1>7, <1>8

(* A list has as many nodes as places.                                     *)
LEMMA ListCounts ==
    ASSUME NEW L, NEW c, NEW l, NEW S, Lists(L, c, l, S)
    PROVE  Cardinality(S) = c
<1> DEFINE g == [i \in 1 .. c |-> L[i]]
<1>1. c \in Nat /\ \A i \in 1 .. c : i \in 0 .. c + 1
  BY DEF Lists, Chain
<1>2. g \in [1 .. c -> S] /\ \A x \in S : \E i \in 1 .. c : g[i] = x
  BY DEF Lists, Elements
<1>3. \A i, j \in 1 .. c : g[i] = g[j] => i = j
  BY <1>1 DEF Lists, Chain
<1> HIDE DEF g
<1>4. g \in Bijection(1 .. c, S)
  BY <1>2, <1>3 DEF Bijection, Injection, Surjection, IsInjective
<1>5. ExistsBijection(1 .. c, S)
  BY <1>4 DEF ExistsBijection
<1>6. QED BY <1>1, <1>5, FS_CountingElements

(* The inductive invariant makes the list what RemoveLRUNode and           *)
(* InsertToFront take it for.                                              *)
LEMMA InvWellLinked == CacheInv => WellLinked
<1> SUFFICES ASSUME CacheInv PROVE WellLinked
  OBVIOUS
<1>1. PICK L : Lists(L, count, links, Nodes)
  BY DEF CacheInv
<1>2. count \in Nat /\ L[0] = head /\ L[count + 1] = tail
  BY <1>1 DEF Lists, Chain
<1>3. PICK fw : fw = Walk(head, links.next)
  OBVIOUS
<1>4. PICK bk : bk = Walk(tail, links.prev)
  OBVIOUS
<1>5. /\ \A i \in 1 .. count : fw[i] = L[i]
      /\ \A i \in 1 .. count : bk[i] = L[count + 1 - i]
  <2>1. fw = [i \in 1 .. count |-> L[i]] /\ bk = [i \in 1 .. count |-> L[count + 1 - i]]
    BY <1>1, <1>3, <1>4, WalksReadList, Zenon
  <2>2. QED BY <2>1
<1>6. {fw[i] : i \in 1 .. count} = Nodes
  BY <1>1, <1>5 DEF Lists, Elements
<1>7. \A i \in 1 .. count : bk[i] = fw[count + 1 - i]
  <2>1. \A i \in 1 .. count : count + 1 - i \in 1 .. count
    BY <1>2
  <2>2. QED BY <1>5, <2>1
<1>8. links.prev[links.next[head]] = head /\ links.next[links.prev[tail]] = tail
  <2>1. 0 \in 0 .. count /\ count \in 0 .. count
    BY <1>2
  <2>2. QED BY <1>1, <1>2, <2>1 DEF Lists, Chain
<1>9. count = Cardinality(Nodes) /\ count <= Capacity /\ TypeOK
  BY <1>1, ListCounts DEF CacheInv
<1>10. QED BY <1>3, <1>4, <1>6, <1>7, <1>8, <1>9 DEF WellLinked

(* The list between the sentinels holds every node of the map once and no  *)
(* other, reads the same in both directions and never exceeds capacity:    *)
(* after any Get, Set (with or without RemoveLRUNode) and Clear.           *)
THEOREM ListStaysWellLinked == Spec => []WellLinked
BY CacheInvariant, InvWellLinked, PTL

-----------------------------------------------------------------------------
(* The refinement.                                                         *)

(* The files of a list, given the fields of its nodes, and the two         *)
(* variables of AbstractCache.                                             *)
Order(F, L, c) == [i \in 1 .. c |-> F[L[i]].key]
OrderNow == [i \in 1 .. count |-> fields[Walk(head, links.next)[i]].key]
Tables == [f \in {g \in FileId : m[g] # Null} |-> fields[m[f]].value]

(* The order of the files is that of the list.                             *)
ReadsList == \A L : Lists(L, count, links, Nodes) => OrderNow = Order(fields, L, count)

LEMMA OrderReadsList == ReadsList
<1> SUFFICES ASSUME NEW L, Lists(L, count, links, Nodes) PROVE OrderNow = Order(fields, L, count)
  BY DEF ReadsList
<1>1. PICK w : w = Walk(head, links.next)
  OBVIOUS
<1>2. \A i \in 1 .. count : w[i] = L[i]
  <2>1. w = [i \in 1 .. count |-> L[i]]
    BY <1>1, WalksReadList, Zenon
  <2>2. QED BY <2>1
<1>3. [i \in 1 .. count |-> fields[w[i]].key] = [i \in 1 .. count |-> fields[L[i]].key]
  BY <1>2, Zenon
<1>4. QED BY <1>1, <1>3 DEF OrderNow, Order

(* The order is a sequence of files, each there once.                      *)
LEMMA OrderFacts ==
    ASSUME CacheInv, NEW L, Lists(L, count, links, Nodes), NEW s, s = Order(fields, L, count)
    PROVE  /\ s \in Seq(FileId) /\ Len(s) = count /\ count \in Nat
           /\ \A i \in 1 .. count : s[i] = fields[L[i]].key /\ L[i] \in Nodes /\ m[s[i]] = L[i]
           /\ \A i, j \in 1 .. count : s[i] = s[j] => i = j
<1>1. count \in Nat /\ \A i, j \in 1 .. count : L[i] = L[j] => i = j
  BY DEF Lists, Chain
<1>2. \A i \in 1 .. count : L[i] \in Nodes
  BY DEF Lists, Elements
<1>3. \A i \in 1 .. count : s[i] = fields[L[i]].key
  BY DEF Order
<1>4. \A i \in 1 .. count : s[i] \in FileId /\ m[s[i]] = L[i]
  BY <1>2, <1>3, OwnerFacts
<1>5. s \in [1 .. count -> FileId]
  BY <1>4 DEF Order
<1>6. s \in Seq(FileId) /\ Len(s) = count
  BY <1>1, <1>5
<1>7. QED BY <1>1, <1>2, <1>3, <1>4, <1>6

(* A file put before a sequence.                                           *)
LEMMA Prepended ==
    ASSUME NEW s \in Seq(FileId), NEW f \in FileId, NEW z, z = <<f>> \o s
    PROVE  /\ z \in Seq(FileId) /\ Len(z) = Len(s) + 1
           /\ \A i \in 1 .. Len(s) + 1 : z[i] = IF i = 1 THEN f ELSE s[i - 1]
OBVIOUS

(* ToFront of the file at place j.                                         *)
LEMMA ToFrontOld ==
    ASSUME NEW s \in Seq(FileId), NEW j \in 1 .. Len(s),
           \A a, b \in 1 .. Len(s) : s[a] = s[b] => a = b
    PROVE  Abstract!ToFront(s, s[j]) =
             [i \in 1 .. Len(s) |-> IF i = 1 THEN s[j] ELSE s[IF i - 1 < j THEN i - 1 ELSE i]]
<1>1. Len(s) \in Nat \ {0} /\ s \in [1 .. Len(s) -> FileId]
  OBVIOUS
<1>2. (CHOOSE i \in 1 .. Len(s) : s[i] = s[j]) = j
  <2>1. \A i \in 1 .. Len(s) : s[i] = s[j] <=> i = j
    OBVIOUS
  <2>2. QED BY <2>1
<1>3. PICK w : w = Abstract!Without(s, s[j])
  OBVIOUS
<1>4. w = [i \in 1 .. Len(s) - 1 |-> s[IF i < j THEN i ELSE i + 1]]
  BY <1>2, <1>3 DEF Abstract!Without
<1>5. w \in Seq(FileId) /\ Len(w) = Len(s) - 1
  <2>1. w \in [1 .. Len(s) - 1 -> FileId]
    BY <1>1, <1>4
  <2>2. Len(s) - 1 \in Nat
    BY <1>1
  <2>3. QED BY <2>1, <2>2
<1>6. PICK z : z = <<s[j]>> \o w
  OBVIOUS
<1>7. /\ z \in Seq(FileId) /\ Len(z) = Len(s) /\ z[1] = s[j]
      /\ \A i \in 1 .. Len(s) : i # 1 => z[i] = w[i - 1]
  <2>1. /\ z \in Seq(FileId) /\ Len(z) = Len(w) + 1
        /\ \A i \in 1 .. Len(w) + 1 : z[i] = IF i = 1 THEN s[j] ELSE w[i - 1]
    <3>1. PICK x \in FileId : x = s[j]
      BY <1>1
    <3>2. z = <<x>> \o w /\ w \in Seq(FileId)
      BY <1>5, <1>6, <3>1
    <3>3. /\ z \in Seq(FileId) /\ Len(z) = Len(w) + 1
          /\ \A i \in 1 .. Len(w) + 1 : z[i] = IF i = 1 THEN x ELSE w[i - 1]
      BY <3>2, Prepended
    <3>4. QED BY <3>1, <3>3
  <2>2. Len(w) + 1 = Len(s) /\ 1 \in 1 .. Len(s)
    BY <1>1, <1>5
  <2>3. QED BY <2>1, <2>2
<1>8. \A i \in 1 .. Len(s) : z[i] = IF i = 1 THEN s[j] ELSE s[IF i - 1 < j THEN i - 1 ELSE i]
  <2>1. ASSUME NEW i \in 1 .. Len(s), i # 1 PROVE w[i - 1] = s[IF i - 1 < j THEN i - 1 ELSE i]
    <3>1. i - 1 \in 1 .. Len(s) - 1 /\ (i - 1) + 1 = i
      BY <1>1, <2>1
    <3>2. QED BY <1>4, <3>1
  <2>2. QED BY <1>7, <2>1
<1>9. z = [i \in 1 .. Len(s) |-> z[i]]
  BY <1>7
<1>10. z = [i \in 1 .. Len(s) |-> IF i = 1 THEN s[j] ELSE s[IF i - 1 < j THEN i - 1 ELSE i]]
  BY <1>8, <1>9, Zenon
<1>11. QED BY <1>3, <1>6, <1>10 DEF Abstract!ToFront

(* ToFront of a file that is not there.                                    *)
LEMMA ToFrontNew ==
    ASSUME NEW s \in Seq(FileId), NEW f \in FileId, \A i \in 1 .. Len(s) : s[i] # f
    PROVE  Abstract!ToFront(s, f) = [i \in 1 .. Len(s) + 1 |-> IF i = 1 THEN f ELSE s[i - 1]]
<1>1. Abstract!ToFront(s, f) = <<f>> \o s
  BY DEF Abstract!ToFront, Abstract!Without
<1>2. PICK z : z = <<f>> \o s
  OBVIOUS
<1>3. /\ z \in Seq(FileId) /\ Len(z) = Len(s) + 1
      /\ \A i \in 1 .. Len(s) + 1 : z[i] = IF i = 1 THEN f ELSE s[i - 1]
  BY <1>2, Prepended
<1>4. z = [i \in 1 .. Len(s) + 1 |-> z[i]]
  BY <1>3
<1>5. z = [i \in 1 .. Len(s) + 1 |-> IF i = 1 THEN f ELSE s[i - 1]]
  BY <1>3, <1>4, Zenon
<1>6. QED BY <1>1, <1>2, <1>5

(* Moving a node to the front moves its file to the front.                 *)
LEMMA PromoteOrder ==
    ASSUME CacheInv, NEW L, Lists(L, count, links, Nodes), NEW f \in FileId,
           NEW j \in 1 .. count, L[j] = m[f], m[f] # Null,
           NEW F, \A n \in Node : F[n].key = fields[n].key
    PROVE  Order(F, Push(Cut(L, count, j), count - 1, L[j]), count) =
             Abstract!ToFront(Order(fields, L, count), f)
<1>1. PICK s : s = Order(fields, L, count)
  OBVIOUS
<1>2. /\ s \in Seq(FileId) /\ Len(s) = count /\ count \in Nat
      /\ \A i \in 1 .. count : s[i] = fields[L[i]].key /\ L[i] \in Nodes /\ m[s[i]] = L[i]
      /\ \A a, b \in 1 .. count : s[a] = s[b] => a = b
  BY <1>1, OrderFacts
<1>3. s[j] = f
  BY <1>2, OwnerFacts
<1>4. Abstract!ToFront(s, s[j]) =
        [i \in 1 .. count |-> IF i = 1 THEN s[j] ELSE s[IF i - 1 < j THEN i - 1 ELSE i]]
  <2>1. j \in 1 .. Len(s) /\ \A a, b \in 1 .. Len(s) : s[a] = s[b] => a = b
    BY <1>2
  <2>2. Abstract!ToFront(s, s[j]) =
          [i \in 1 .. Len(s) |-> IF i = 1 THEN s[j] ELSE s[IF i - 1 < j THEN i - 1 ELSE i]]
    BY <1>2, <2>1, ToFrontOld, Zenon
  <2>3. QED BY <1>2, <2>2, Zenon
<1>5. PICK M : M = Push(Cut(L, count, j), count - 1, L[j])
  OBVIOUS
<1>6. ASSUME NEW i \in 1 .. count
      PROVE  M[i] = L[IF i = 1 THEN j ELSE IF i - 1 < j THEN i - 1 ELSE i]
  <2>1. i \in 0 .. (count - 1) + 2 /\ i # 0 /\ i - 1 \in 0 .. count /\ (i - 1) + 1 = i
    BY <1>2
  <2>2. M[i] = IF i = 1 THEN L[j] ELSE Cut(L, count, j)[i - 1]
    BY <1>5, <2>1 DEF Push
  <2>3. Cut(L, count, j)[i - 1] = IF i - 1 < j THEN L[i - 1] ELSE L[i]
    BY <2>1 DEF Cut
  <2>4. QED BY <2>2, <2>3
<1>7. ASSUME NEW i \in 1 .. count
      PROVE  F[M[i]].key = IF i = 1 THEN s[j] ELSE s[IF i - 1 < j THEN i - 1 ELSE i]
  <2>1. PICK a \in 1 .. count : a = IF i = 1 THEN j ELSE IF i - 1 < j THEN i - 1 ELSE i
    BY <1>2
  <2>2. M[i] = L[a] /\ L[a] \in Node
    BY <1>2, <1>6, <2>1, OwnerFacts
  <2>3. F[M[i]].key = s[a]
    BY <1>2, <2>2
  <2>4. QED BY <2>1, <2>3
<1>8. Order(F, M, count) =
        [i \in 1 .. count |-> IF i = 1 THEN s[j] ELSE s[IF i - 1 < j THEN i - 1 ELSE i]]
  BY <1>7, Zenon DEF Order
<1>9. QED BY <1>1, <1>3, <1>4, <1>5, <1>8

(* Set of a file that is not cached puts it before the files it keeps.     *)
LEMMA NewOrder ==
    ASSUME CacheInv, NEW L, Lists(L, count, links, Nodes), NEW f \in FileId, NEW t \in Table,
           NEW node \in Node, Adds(f, t, node, L), NEW s, s = Order(fields, L, count)
    PROVE  Order(fields', Push(Kept(L), KeptCount, node), count') =
             Abstract!ToFront(IF Full THEN SubSeq(s, 1, Len(s) - 1) ELSE s, f)
<1>0. node \notin Nodes /\ m[f] = Null /\ \A n \in Gone : n = L[count]
  BY AddsFacts
<1>1. /\ s \in Seq(FileId) /\ Len(s) = count /\ count \in Nat
      /\ \A i \in 1 .. count : s[i] = fields[L[i]].key /\ L[i] \in Nodes /\ m[s[i]] = L[i]
      /\ \A i, j \in 1 .. count : s[i] = s[j] => i = j
  BY OrderFacts
<1>2. KeptCount \in Nat /\ count' = KeptCount + 1 /\ KeptCount <= count
  <2>1. KeptCount \in Nat /\ count' = KeptCount + 1
    BY AddsFacts
  <2>2. QED BY <1>1, <2>1 DEF KeptCount
<1>3. PICK r : r = IF Full THEN SubSeq(s, 1, Len(s) - 1) ELSE s
  OBVIOUS
<1>4. r \in Seq(FileId) /\ Len(r) = KeptCount /\ \A i \in 1 .. KeptCount : r[i] = s[i]
  <2>1. CASE Full
    BY <1>1, <1>2, <1>3, <2>1 DEF KeptCount
  <2>2. CASE ~Full
    BY <1>1, <1>3, <2>2 DEF KeptCount
  <2>3. QED BY <2>1, <2>2
<1>5. \A i \in 1 .. KeptCount : r[i] # f
  <2>1. \A i \in 1 .. KeptCount : i \in 1 .. count
    BY <1>1, <1>2
  <2>2. \A i \in 1 .. count : m[s[i]] # Null
    BY <1>1, SentinelFacts, OwnerFacts
  <2>3. QED BY <1>0, <1>4, <2>1, <2>2
<1>6. Abstract!ToFront(r, f) = [i \in 1 .. count' |-> IF i = 1 THEN f ELSE r[i - 1]]
  BY <1>2, <1>4, <1>5, ToFrontNew
<1>7. PICK K : K = Kept(L)
  OBVIOUS
<1>8. ASSUME NEW i \in 1 .. KeptCount PROVE K[i] = L[i] /\ L[i] \in Node \ Gone /\ L[i] # node
  <2>1. i \in 1 .. count /\ (Full => i < count)
    BY <1>1, <1>2 DEF KeptCount
  <2>2. K[i] = L[i]
    BY <1>1, <1>7, <2>1 DEF Kept, Cut
  <2>3. L[i] \in Nodes /\ L[i] \in Node /\ L[i] # node
    <3>1. L[i] \in Nodes
      BY <1>1, <2>1
    <3>2. QED BY <1>0, <3>1, OwnerFacts
  <2>4. L[i] \notin Gone
    <3>1. ASSUME L[i] \in Gone PROVE FALSE
      <4>1. Full /\ L[i] = L[count]
        BY <1>0, <3>1 DEF Gone
      <4>2. i = count
        <5>1. count \in 1 .. count
          BY <1>1, <2>1
        <5>2. QED BY <1>1, <2>1, <4>1, <5>1
      <4>3. QED BY <1>1, <2>1, <4>1, <4>2
    <3>2. QED BY <3>1
  <2>5. QED BY <2>2, <2>3, <2>4
<1>9. PICK M : M = Push(K, KeptCount, node)
  OBVIOUS
<1>10. PICK F : F = fields'
  OBVIOUS
<1>11. ASSUME NEW i \in 1 .. count' PROVE F[M[i]].key = IF i = 1 THEN f ELSE r[i - 1]
  <2>1. i \in 0 .. KeptCount + 2 /\ i # 0
    BY <1>2
  <2>2. M[i] = IF i = 1 THEN node ELSE K[i - 1]
    BY <1>9, <2>1 DEF Push
  <2>3. CASE i = 1
    <3>1. fields'[node].key = f
      BY AddsFacts
    <3>2. QED BY <1>10, <2>2, <2>3, <3>1
  <2>4. CASE i # 1
    <3>1. i - 1 \in 1 .. KeptCount /\ i - 1 \in 1 .. count
      BY <1>1, <1>2, <2>4
    <3>2. M[i] = L[i - 1] /\ F[L[i - 1]] = fields[L[i - 1]]
      BY <1>8, <1>10, <2>2, <2>4, <3>1, AddsFacts
    <3>3. QED BY <1>1, <1>4, <2>4, <3>1, <3>2
  <2>5. QED BY <2>3, <2>4
<1>12. Order(F, M, count') = [i \in 1 .. count' |-> IF i = 1 THEN f ELSE r[i - 1]]
  BY <1>11, Zenon DEF Order
<1>13. QED BY <1>3, <1>6, <1>7, <1>9, <1>10, <1>12

(* The tables without that of the last file when the cache is full, and    *)
(* with t for f.                                                           *)
TablesWith(f, t, s) == [g \in (DOMAIN Tables \ (IF Full THEN {s[Len(s)]} ELSE {})) \cup {f} |->
                          IF g = f THEN t ELSE Tables[g]]

(* Set of a file that is not cached drops the table of the last file when  *)
(* the cache is full, and adds its own.                                    *)
LEMMA NewTables ==
    ASSUME CacheInv, NEW L, Lists(L, count, links, Nodes), NEW f \in FileId, NEW t \in Table,
           NEW node \in Node, Adds(f, t, node, L), NEW s, s = Order(fields, L, count)
    PROVE  Tables' = TablesWith(f, t, s)
<1>0. /\ node \in Node \ Nodes /\ m[f] = Null /\ m'[f] = node
      /\ \A g \in FileId : g # f => m'[g] = IF m[g] \in Gone THEN Null ELSE m[g]
      /\ fields'[node].value = t
      /\ \A n \in Node \ Gone : n # node => fields'[n] = fields[n]
  BY AddsFacts
<1>1. /\ s \in Seq(FileId) /\ Len(s) = count /\ count \in Nat
      /\ \A i \in 1 .. count : s[i] = fields[L[i]].key /\ L[i] \in Nodes /\ m[s[i]] = L[i]
      /\ \A i, j \in 1 .. count : s[i] = s[j] => i = j
  BY OrderFacts
<1>2. Full => count \in 1 .. count
  <2>1. Capacity \in Nat \ {0}
    BY SentinelFacts
  <2>2. QED BY <2>1 DEF Full
<1>3. Full => Gone = {L[count]} /\ s[Len(s)] \in FileId /\ m[s[Len(s)]] = L[count]
  <2>1. Full => Gone = {L[count]}
    <3>1. \A n \in Gone : n = L[count]
      BY AddsFacts
    <3>2. QED BY <3>1 DEF Gone
  <2>2. ASSUME Full PROVE s[Len(s)] \in FileId /\ m[s[Len(s)]] = L[count]
    <3>1. count \in 1 .. count /\ Len(s) = count
      BY <1>1, <1>2, <2>2
    <3>2. s[count] \in FileId /\ m[s[count]] = L[count]
      BY <1>1, <3>1
    <3>3. QED BY <3>1, <3>2
  <2>3. QED BY <2>1, <2>2
<1> DEFINE D == (DOMAIN Tables \ (IF Full THEN {s[Len(s)]} ELSE {})) \cup {f}
<1>4. DOMAIN Tables = {g \in FileId : m[g] # Null}
  BY DEF Tables
<1>5. ASSUME NEW g \in FileId, g # f PROVE m[g] \in Gone <=> Full /\ g = s[Len(s)]
  <2>1. CASE Full
    <3>1. L[count] # Null
      BY <1>1, <1>2, <2>1, OwnerFacts, SentinelFacts
    <3>2. QED BY <1>3, <2>1, <3>1, OwnerFacts
  <2>2. CASE ~Full
    BY <2>2 DEF Gone
  <2>3. QED BY <2>1, <2>2
<1>6. ASSUME NEW g \in FileId, g # f
      PROVE  /\ m'[g] # Null <=> g \in D
             /\ g \in D => m'[g] = m[g] /\ fields'[m'[g]] = fields[m[g]]
  <2>1. m'[g] = IF m[g] \in Gone THEN Null ELSE m[g]
    BY <1>0, <1>6
  <2>2. m'[g] # Null <=> g \in D
    BY <1>4, <1>5, <1>6, <2>1
  <2>3. ASSUME g \in D PROVE m'[g] = m[g] /\ fields'[m[g]] = fields[m[g]]
    <3>1. m[g] # Null /\ m[g] \notin Gone
      BY <2>1, <2>2, <2>3
    <3>2. m[g] \in Node /\ m[g] # node
      BY <1>0, <3>1, OwnerFacts
    <3>3. QED BY <1>0, <2>1, <3>1, <3>2
  <2>4. QED BY <2>2, <2>3
<1>7. {g \in FileId : m'[g] # Null} = D
  <2>1. m'[f] # Null
    BY <1>0, SentinelFacts
  <2>2. D \subseteq FileId
    BY <1>4
  <2> HIDE DEF D
  <2>3. f \in D
    BY DEF D
  <2>4. QED BY <1>6, <2>1, <2>2, <2>3
<1>8. ASSUME NEW g \in D PROVE fields'[m'[g]].value = IF g = f THEN t ELSE Tables[g]
  <2>1. CASE g = f
    BY <1>0, <2>1
  <2>2. CASE g # f
    <3>1. g \in DOMAIN Tables /\ g \in FileId
      BY <1>4, <2>2
    <3>2. Tables[g] = fields[m[g]].value
      BY <1>4, <3>1 DEF Tables
    <3>3. QED BY <1>6, <2>2, <3>1, <3>2
  <2>3. QED BY <2>1, <2>2
<1>9. Tables' = [g \in {h \in FileId : m'[h] # Null} |-> fields'[m'[g]].value]
  BY DEF Tables
<1> HIDE DEF D
<1>10. Tables' = [g \in D |-> IF g = f THEN t ELSE Tables[g]]
  BY <1>7, <1>8, <1>9, Zenon
<1>11. QED BY <1>10 DEF D, TablesWith

(* Get is Get of AbstractCache.                                            *)
LEMMA GetRefines ==
    ASSUME CacheInv, NEW f \in FileId, NEW k \in Key, Get(f, k)
    PROVE  Abstract!Get(f, k)
<1>1. PICK L : Lists(L, count, links, Nodes)
  BY DEF CacheInv
<1>2. UNCHANGED <<m, fields, heap, count>> /\ Nodes' = Nodes
  BY DEF Get, Nodes
<1>3. Tables' = Tables
  BY <1>2 DEF Tables
<1>4. (f \in DOMAIN Tables <=> m[f] # Null) /\ (m[f] # Null => Tables[f] = fields[m[f]].value)
  BY DEF Tables
<1>5. PICK e \in BOOLEAN : e = (m[f] # Null)
  OBVIOUS
<1>6. PICK o : o = IF m[f] # Null THEN fields[m[f]].value[k] ELSE 0
  OBVIOUS
<1>7. (f \in DOMAIN Tables) = e
  BY <1>4, <1>5
<1>8. (IF f \in DOMAIN Tables THEN Tables[f][k] ELSE 0) = o
  BY <1>4, <1>6
<1>9. result' = [exists |-> e, offset |-> o]
  BY <1>5, <1>6 DEF Get
<1>10. Abstract!Lookup(f, k) =
         [exists |-> f \in DOMAIN Tables, offset |-> IF f \in DOMAIN Tables THEN Tables[f][k] ELSE 0]
  BY Zenon DEF Abstract!Lookup, Abstract!Cached, Tables
<1>11. Abstract!Lookup(f, k) = [exists |-> e, offset |-> o]
  BY <1>7, <1>8, <1>10
<1>12. OrderNow' = IF o # 0 THEN Abstract!ToFront(OrderNow, f) ELSE OrderNow
  <2>1. CASE m[f] # Null /\ fields[m[f]].value[k] # 0
    <3>1. PICK j \in 1 .. count :
            /\ L[j] = m[f]
            /\ Lists(Push(Cut(L, count, j), count - 1, L[j]), count, links', Nodes)
      BY <1>1, <2>1, GetLists
    <3>2. OrderNow' = Order(fields, Push(Cut(L, count, j), count - 1, L[j]), count)
      <4>1. ReadsList'
        BY OrderReadsList, PTL
      <4>2. QED BY <1>2, <3>1, <4>1 DEF ReadsList
    <3>3. OrderNow' = Abstract!ToFront(Order(fields, L, count), f)
      BY <1>1, <2>1, <3>1, <3>2, PromoteOrder
    <3>4. QED BY <1>1, <1>6, <2>1, <3>3, OrderReadsList DEF ReadsList
  <2>2. CASE ~(m[f] # Null /\ fields[m[f]].value[k] # 0)
    <3>1. links' = links
      BY <1>1, <2>2, GetLists
    <3>2. OrderNow' = OrderNow
      BY <1>2, <3>1 DEF OrderNow, Walk
    <3>3. QED BY <1>6, <2>2, <3>2
  <2>3. QED BY <2>1, <2>2
<1>13. Abstract!Lookup(f, k).offset = o
  BY <1>11
<1>14. OrderNow' = IF Abstract!Lookup(f, k).offset # 0 THEN Abstract!ToFront(OrderNow, f) ELSE OrderNow
  BY <1>12, <1>13
<1>15. result' = Abstract!Lookup(f, k)
  BY <1>9, <1>11
<1>16. QED BY <1>3, <1>14, <1>15, Zenon DEF Abstract!Get, Abstract!Use, OrderNow, Tables

(* Set of a cached file is Set of AbstractCache.                           *)
LEMMA SetOldRefines ==
    ASSUME CacheInv, NEW f \in FileId, NEW t \in Table, SetOld(f, t)
    PROVE  Abstract!Set(f, t)
<1>1. PICK L : Lists(L, count, links, Nodes)
  BY DEF CacheInv
<1>2. UNCHANGED <<m, heap, count, result>> /\ Nodes' = Nodes /\ m[f] # Null
  BY DEF SetOld, Nodes
<1>3. PICK j \in 1 .. count :
        /\ L[j] = m[f]
        /\ Lists(Push(Cut(L, count, j), count - 1, L[j]), count, links', Nodes)
  BY <1>1, SetOldLists
<1>4. OrderNow' = Order(fields', Push(Cut(L, count, j), count - 1, L[j]), count)
  <2>1. ReadsList'
    BY OrderReadsList, PTL
  <2>2. QED BY <1>2, <1>3, <2>1 DEF ReadsList
<1>5. PICK F : F = fields'
  OBVIOUS
<1>6. /\ \A n \in Node : F[n].key = fields[n].key
      /\ \A n \in Node : F[n].value = IF n = m[f] THEN t ELSE fields[n].value
  BY <1>5, SetOldFields
<1>7. OrderNow' = Abstract!ToFront(OrderNow, f)
  <2>1. Order(F, Push(Cut(L, count, j), count - 1, L[j]), count) =
          Abstract!ToFront(Order(fields, L, count), f)
    BY <1>1, <1>2, <1>3, <1>6, PromoteOrder
  <2>2. QED BY <1>1, <1>4, <1>5, <2>1, OrderReadsList DEF ReadsList
<1> DEFINE D == {g \in FileId : m[g] # Null}
<1>8. DOMAIN Tables = D /\ \A g \in D : Tables[g] = fields[m[g]].value
  BY DEF Tables
<1>9. \A g \in D : F[m[g]].value = IF g = f THEN t ELSE Tables[g]
  <2>1. \A g \in D : m[g] \in Node /\ (m[g] = m[f] => g = f)
    BY <1>2, OwnerFacts
  <2>2. QED BY <1>6, <1>8, <2>1
<1>10. Tables' = [g \in D |-> F[m[g]].value]
  BY <1>2, <1>5 DEF Tables
<1>11. f \in D
  BY <1>2
<1> HIDE DEF D
<1>12. Tables' = [g \in D |-> IF g = f THEN t ELSE Tables[g]]
  BY <1>9, <1>10, Zenon
<1>13. Abstract!Full(f) = FALSE
  <2>1. f \in DOMAIN Tables
    BY <1>8, <1>11
  <2>2. QED BY <2>1 DEF Abstract!Full, Abstract!Cached, Tables
<1>14. (DOMAIN Tables \ {}) \cup {f} = D
  BY <1>8, <1>11
<1>15. OrderNow' = Abstract!ToFront(IF Abstract!Full(f) THEN SubSeq(OrderNow, 1, Len(OrderNow) - 1)
                                    ELSE OrderNow, f)
  BY <1>7, <1>13
<1>16. Tables' = [g \in (DOMAIN Tables \ (IF Abstract!Full(f) THEN {OrderNow[Len(OrderNow)]} ELSE {}))
                          \cup {f} |-> IF g = f THEN t ELSE Tables[g]]
  BY <1>12, <1>13, <1>14
<1>17. QED BY <1>2, <1>15, <1>16, Zenon DEF Abstract!Set, OrderNow, Tables

(* Set of a file that is not cached is Set of AbstractCache.               *)
LEMMA SetNewRefines ==
    ASSUME CacheInv, NEW f \in FileId, NEW t \in Table, SetNew(f, t)
    PROVE  Abstract!Set(f, t)
<1>1. PICK L : Lists(L, count, links, Nodes)
  BY DEF CacheInv
<1>2. PICK node \in Node : Adds(f, t, node, L)
  BY <1>1, SetNewAdds
<1>3. OrderNow = Order(fields, L, count)
  BY <1>1, OrderReadsList DEF ReadsList
<1>4. OrderNow' = Order(fields', Push(Kept(L), KeptCount, node), count')
  <2>1. ReadsList'
    BY OrderReadsList, PTL
  <2>2. QED BY <1>2, <2>1 DEF Adds, ReadsList
<1>5. Len(OrderNow) = count
  BY <1>1, <1>3, OrderFacts
<1>6. Abstract!Full(f) <=> Full
  <2>1. f \notin DOMAIN Tables
    BY <1>2 DEF Tables, Adds
  <2>2. Abstract!Full(f) <=> f \notin DOMAIN Tables /\ Len(OrderNow) = Capacity
    BY Zenon DEF Abstract!Full, Abstract!Cached, Tables, OrderNow
  <2>3. QED BY <1>5, <2>1, <2>2 DEF Full
<1>7. OrderNow' = Abstract!ToFront(IF Full THEN SubSeq(OrderNow, 1, Len(OrderNow) - 1) ELSE OrderNow, f)
  BY <1>1, <1>2, <1>3, <1>4, NewOrder
<1>8. Tables' = [g \in (DOMAIN Tables \ (IF Full THEN {OrderNow[Len(OrderNow)]} ELSE {})) \cup {f} |->
                   IF g = f THEN t ELSE Tables[g]]
  <2>1. PICK s : s = OrderNow
    OBVIOUS
  <2>2. Tables' = TablesWith(f, t, s)
    BY <1>1, <1>2, <1>3, <2>1, NewTables
  <2>3. QED BY <2>1, <2>2 DEF TablesWith
<1>9. OrderNow' = Abstract!ToFront(IF Abstract!Full(f) THEN SubSeq(OrderNow, 1, Len(OrderNow) - 1)
                                   ELSE OrderNow, f)
  BY <1>6, <1>7
<1>10. Tables' = [g \in (DOMAIN Tables \ (IF Abstract!Full(f) THEN {OrderNow[Len(OrderNow)]} ELSE {}))
                          \cup {f} |-> IF g = f THEN t ELSE Tables[g]]
  BY <1>6, <1>8
<1>11. result' = result
  BY <1>2 DEF Adds
<1>12. QED BY <1>9, <1>10, <1>11, Zenon DEF Abstract!Set, OrderNow, Tables

(* An empty map is an empty cache.                                         *)
LEMMA EmptyMaps ==
    (m = [f \in FileId |-> Null] /\ count = 0) => (OrderNow = <<>> /\ Tables = [f \in {} |-> 0])
<1> SUFFICES ASSUME m = [f \in FileId |-> Null], count = 0
             PROVE  OrderNow = <<>> /\ Tables = [f \in {} |-> 0]
  OBVIOUS
<1>1. {g \in FileId : m[g] # Null} = {}
  OBVIOUS
<1>2. Tables = [f \in {} |-> 0]
  BY <1>1 DEF Tables
<1>3. OrderNow = <<>>
  BY DEF OrderNow
<1>4. QED BY <1>2, <1>3

(* Clear is Clear of AbstractCache.                                        *)
LEMMA ClearRefines == Clear => Abstract!Clear
<1> SUFFICES ASSUME Clear PROVE Abstract!Clear
  OBVIOUS
<1>1. ((m = [f \in FileId |-> Null] /\ count = 0) => (OrderNow = <<>> /\ Tables = [f \in {} |-> 0]))'
  BY EmptyMaps, PTL
<1>2. OrderNow' = <<>> /\ Tables' = [f \in {} |-> 0] /\ result' = result
  BY <1>1 DEF Clear
<1>3. QED BY <1>2, Zenon DEF Abstract!Clear, OrderNow, Tables

(* The linked nodes behave as a least-recently-used cache, for any         *)
(* capacity: Get answers from the table last Set for the file unless it    *)
(* was evicted, and Set evicts the file whose last use is oldest.          *)
THEOREM CacheIsLRU == Spec => ImplementsAbstractCache
<1>1. Init => Abstract!Init
  <2> SUFFICES ASSUME Init PROVE Abstract!Init
    OBVIOUS
  <2>1. OrderNow = <<>> /\ Tables = [f \in {} |-> 0]
    BY EmptyMaps DEF Init
  <2>2. QED BY <2>1 DEF Init, Abstract!Init, Abstract!NoResult, OrderNow, Tables
<1>2. CacheInv /\ [Next]_vars => [Abstract!Next]_<<OrderNow, Tables, result>>
  <2> SUFFICES ASSUME CacheInv, [Next]_vars PROVE [Abstract!Next]_<<OrderNow, Tables, result>>
    OBVIOUS
  <2>1. CASE UNCHANGED vars
    BY <2>1 DEF vars, OrderNow, Tables, Walk
  <2>2. CASE Next
    BY <2>2, GetRefines, SetNewRefines, SetOldRefines, ClearRefines DEF Next, Set, Abstract!Next
  <2>3. QED BY <2>1, <2>2
<1>3. QED
  BY <1>1, <1>2, CacheInvariant, PTL
     DEF Spec, ImplementsAbstractCache, Abstract!Spec, OrderNow, Tables
=============================================================================
