--------------------------- MODULE SkipListProofs ---------------------------
(* Proofs about SkipList for any finite set of keys, any values and any    *)
(* greatest height.                                                        *)
EXTENDS SkipList, FiniteSetTheorems, WellFoundedInduction, TLAPS

-----------------------------------------------------------------------------
(* Finite sets of keys and the functions that walk over them.              *)

Below == OpToRel(<, Nat)

(* A nonempty set of numbers has a least element.                          *)
LEMMA LeastNumber ==
    ASSUME NEW T \in SUBSET Nat, T # {}
    PROVE  \E x \in T : \A y \in T : x <= y
<1>1. IsWellFoundedOn(Below, Nat)
  BY NatLessThanWellFounded DEF Below
<1>2. \A x, y \in Nat : <<x, y>> \in Below <=> x < y
  BY DEF OpToRel, Below
<1>3. PICK x \in T : \A y \in T : ~ (<<y, x>> \in Below)
  BY <1>1, WFMin
<1>4. \A y \in T : ~ (y < x)
  BY <1>2, <1>3, Zenon
<1>5. QED BY <1>4

(* One more number has a bound with the others.                            *)
LEMMA OneMoreBounded ==
    ASSUME NEW m \in Nat, m # 0, NEW g \in [1 .. m -> Int],
           NEW b \in Int, \A i \in 1 .. m - 1 : g[i] <= b
    PROVE  \E c \in Int : \A i \in 1 .. m : g[i] <= c
<1>1. PICK last \in Int : last = g[m]
  OBVIOUS
<1>2. PICK c \in Int : b <= c /\ last <= c
  <2>1. CASE last <= b
    BY <2>1
  <2>2. CASE b <= last
    BY <2>2
  <2>3. QED BY <2>1, <2>2
<1>3. \A i \in 1 .. m : g[i] \in Int /\ (i = m \/ i \in 1 .. m - 1)
  OBVIOUS
<1>4. \A i \in 1 .. m : g[i] <= c
  BY <1>1, <1>2, <1>3
<1>5. QED BY <1>4

(* Numbers that can be listed by 1 .. n have an upper bound.               *)
LEMMA ListedBounded ==
    ASSUME NEW n \in Nat, NEW f \in [1 .. n -> Int]
    PROVE  \E b \in Int : \A i \in 1 .. n : f[i] <= b
<1> DEFINE Bounded(m, g) == \E b \in Int : \A i \in 1 .. m : g[i] <= b
           Bad == {m \in Nat : \E g \in [1 .. m -> Int] : ~Bounded(m, g)}
<1>1. Bad = {}
  <2>1. SUFFICES ASSUME Bad # {} PROVE FALSE
    OBVIOUS
  <2>2. PICK m \in Bad : \A j \in Bad : m <= j
    BY <2>1, LeastNumber
  <2>3. PICK g \in [1 .. m -> Int] : ~Bounded(m, g)
    OBVIOUS
  <2>4. m # 0
    BY <2>3
  <2>5. m - 1 \in Nat /\ m - 1 \notin Bad /\ m \in 1 .. m
    <3>1. m \in Nat \ {0}
      BY <2>2, <2>4
    <3>2. m - 1 \in Nat /\ ~(m <= m - 1) /\ m \in 1 .. m
      BY <3>1
    <3>3. QED BY <2>2, <3>2
  <2>6. [i \in 1 .. m - 1 |-> g[i]] \in [1 .. m - 1 -> Int]
    BY <2>5
  <2>7. PICK b \in Int : \A i \in 1 .. m - 1 : g[i] <= b
    BY <2>5, <2>6
  <2>8. \E c \in Int : \A i \in 1 .. m : g[i] <= c
    BY <2>4, <2>7, OneMoreBounded
  <2>9. QED BY <2>3, <2>8
<1>2. Bounded(n, f)
  BY <1>1
<1>3. QED BY <1>2

(* A nonempty finite set of integers has a greatest element.               *)
LEMMA GreatestKey ==
    ASSUME NEW T \in SUBSET Int, IsFiniteSet(T), T # {}
    PROVE  \E x \in T : \A y \in T : y <= x
<1>1. PICK n \in Nat : ExistsBijection(1 .. n, T)
  BY FS_NatBijection
<1>2. PICK f : f \in Bijection(1 .. n, T)
  BY <1>1 DEF ExistsBijection
<1>3. f \in [1 .. n -> T] /\ \A y \in T : \E i \in 1 .. n : f[i] = y
  BY <1>2 DEF Bijection, Injection, Surjection
<1>4. f \in [1 .. n -> Int]
  BY <1>3
<1>5. PICK b \in Int : \A i \in 1 .. n : f[i] <= b
  BY <1>4, ListedBounded
<1>6. \A y \in T : y <= b
  BY <1>3, <1>5
<1> DEFINE D == {b - y : y \in T}
<1>7. D \in SUBSET Nat /\ D # {}
  <2>1. \A y \in T : b - y \in Nat
    BY <1>6
  <2>2. QED BY <2>1
<1>8. PICK d \in D : \A e \in D : d <= e
  BY <1>7, LeastNumber
<1>9. PICK x \in T : d = b - x
  OBVIOUS
<1>10. \A y \in T : b - x <= b - y
  BY <1>8, <1>9
<1>11. QED BY <1>10

(* A walk over S goes on from the members of Go to their successors.  It   *)
(* comes to an end if every nonempty set has a member from which it leaves *)
(* the set; Walks is the recursive equation for where it ends.             *)
Leaves(S, Go, succ) ==
    /\ \A x \in S : x \in Go => succ[x] \in S
    /\ \A T \in SUBSET S : T # {} => \E x \in T : x \in Go => succ[x] \notin T

Walks(f, S, Go, succ, out) == f = [x \in S |-> IF x \in Go THEN f[succ[x]] ELSE out[x]]

(* The equation has at most one solution.                                  *)
LEMMA OneWalk ==
    ASSUME NEW S, NEW Go, NEW succ, NEW out, Leaves(S, Go, succ),
           NEW f, Walks(f, S, Go, succ, out), NEW g, Walks(g, S, Go, succ, out)
    PROVE  f = g
<1> USE DEF Leaves, Walks
<1> DEFINE T == {x \in S : f[x] # g[x]}
<1>1. T = {}
  <2> SUFFICES ASSUME T # {} PROVE FALSE
    OBVIOUS
  <2>1. PICK x \in T : x \in Go => succ[x] \notin T
    <3> HIDE DEF T
    <3>1. T \in SUBSET S
      BY DEF T
    <3>2. QED BY <3>1
  <2>2. x \in S /\ f[x] # g[x]
    OBVIOUS
  <2>3. f[x] = (IF x \in Go THEN f[succ[x]] ELSE out[x]) /\ g[x] = (IF x \in Go THEN g[succ[x]] ELSE out[x])
    BY <2>2, Zenon
  <2>4. QED BY <2>1, <2>2, <2>3
<1>2. \A x \in S : f[x] = g[x]
  BY <1>1
<1>3. (\A x \in S : f[x] = g[x]) => [x \in S |-> f[x]] = [x \in S |-> g[x]]
  BY Zenon
<1>4. f = [x \in S |-> f[x]]
  BY Zenon
<1>5. g = [x \in S |-> g[x]]
  BY Zenon
<1>6. QED BY <1>2, <1>3, <1>4, <1>5

-----------------------------------------------------------------------------
(* The inductive invariant: LevelsSorted, and a node has no link on a      *)
(* level it is not on.                                                     *)
SkipInv ==
    /\ LevelsSorted
    /\ \A l \in Levels : \A n \in nodes \ OnLevel(l) : next[n][l] = Null

(* What a link says: nothing on the level lies between its two ends.       *)
LEMMA LinkFacts ==
    ASSUME SkipInv, NEW l \in Levels, NEW n \in OnLevel(l) \cup {Head}
    PROVE  /\ next[n][l] = Null => \A j \in OnLevel(l) : n # Head /\ ~(j > n)
           /\ next[n][l] # Null =>
                /\ next[n][l] \in OnLevel(l)
                /\ n # Head => next[n][l] > n
                /\ \A j \in OnLevel(l) : n = Head \/ j > n => next[n][l] <= j
<1> DEFINE larger == {k \in OnLevel(l) : n = Head \/ k > n}
<1>1. IF larger = {} THEN next[n][l] = Null
      ELSE next[n][l] \in larger /\ \A k \in larger : next[n][l] <= k
  BY DEF SkipInv, LevelsSorted
<1>2. Null \notin OnLevel(l)
  BY SkipListAssumption DEF OnLevel, SkipInv, LevelsSorted, TypeOK
<1>3. QED BY <1>1, <1>2

(* Nodes are integers, on any level, and head_ and null are none.          *)
LEMMA NodeFacts ==
    ASSUME SkipInv
    PROVE  /\ nodes \subseteq Int /\ IsFiniteSet(nodes)
           /\ Head \notin nodes /\ Null \notin nodes /\ Null # Head
           /\ \A l \in Levels : OnLevel(l) \subseteq nodes
           /\ \A l \in Levels, n \in nodes \cup {Head} : next[n][l] \in nodes \cup {Null}
           /\ OnLevel(0) = nodes /\ 0 \in Levels /\ max_height \in 1 .. kMaxHeight
<1>1. nodes \subseteq Key
  BY DEF SkipInv, LevelsSorted, TypeOK
<1>2. IsFiniteSet(nodes)
  BY <1>1, FS_Subset, SkipListAssumption
<1>3. Head \notin nodes /\ Null \notin nodes /\ Null # Head /\ nodes \subseteq Int
  BY <1>1, SkipListAssumption
<1>4. \A l \in Levels : OnLevel(l) \subseteq nodes
  BY DEF OnLevel
<1>5. \A l \in Levels, n \in nodes \cup {Head} : next[n][l] \in nodes \cup {Null}
  BY DEF SkipInv, LevelsSorted, TypeOK
<1>6. OnLevel(0) = nodes /\ 0 \in Levels /\ max_height \in 1 .. kMaxHeight
  BY SkipListAssumption DEF SkipInv, LevelsSorted, TypeOK, Levels
<1>7. QED BY <1>2, <1>3, <1>4, <1>5, <1>6

(* The last node before a key on a level, or head_.                        *)
Under(k, l) == {n \in OnLevel(l) : n < k}
Floor(k, l) == IF Under(k, l) = {} THEN Head
               ELSE CHOOSE n \in Under(k, l) : \A j \in Under(k, l) : j <= n

(* Nothing on the level lies between it and the key.                       *)
LEMMA FloorFacts ==
    ASSUME SkipInv, NEW l \in Levels, NEW k \in Int
    PROVE  /\ Floor(k, l) \in OnLevel(l) \cup {Head}
           /\ Floor(k, l) = Head => \A j \in OnLevel(l) : ~(j < k)
           /\ Floor(k, l) # Head =>
                Floor(k, l) < k /\ \A j \in OnLevel(l) : j < k => j <= Floor(k, l)
<1>1. CASE Under(k, l) = {}
  BY <1>1, NodeFacts DEF Floor, Under
<1>2. CASE Under(k, l) # {}
  <2>1. Under(k, l) \in SUBSET Int /\ IsFiniteSet(Under(k, l))
    BY NodeFacts, FS_Subset DEF Under
  <2>2. \E x \in Under(k, l) : \A y \in Under(k, l) : y <= x
    BY <1>2, <2>1, GreatestKey
  <2>3. Floor(k, l) \in Under(k, l) /\ \A j \in Under(k, l) : j <= Floor(k, l)
    BY <1>2, <2>2, Zenon DEF Floor
  <2>4. QED BY <2>3, NodeFacts DEF Under
<1>3. QED BY <1>1, <1>2

(* Nodes that are the last before a key are equal.                         *)
LEMMA FloorIs ==
    ASSUME SkipInv, NEW l \in Levels, NEW k \in Int, NEW n \in OnLevel(l) \cup {Head},
           n # Head => n < k,
           \A j \in OnLevel(l) : j < k => n # Head /\ j <= n
    PROVE  Floor(k, l) = n
<1>1. CASE Floor(k, l) = Head
  BY <1>1, FloorFacts
<1>2. CASE Floor(k, l) # Head
  <2>1. Floor(k, l) \in OnLevel(l) /\ Floor(k, l) < k
    BY <1>2, FloorFacts
  <2>2. n # Head /\ Floor(k, l) <= n
    BY <2>1
  <2>3. n <= Floor(k, l)
    BY <1>2, <2>2, FloorFacts
  <2>4. n \in Int /\ Floor(k, l) \in Int
    BY <2>1, <2>2, NodeFacts
  <2>5. QED BY <2>2, <2>3, <2>4
<1>3. QED BY <1>1, <1>2

(* Where the loop of FindGreaterOrEqual ends on level l.                   *)
WalkEnd(k, l) ==
    [x \in nodes \cup {Head} |-> IF x = Head \/ (x \in OnLevel(l) /\ x < k) THEN Floor(k, l) ELSE x]

(* Every nonempty set of nodes has one whose link leaves the set.          *)
LEMMA LinksLeave ==
    ASSUME SkipInv, NEW l \in Levels, NEW T \in SUBSET (nodes \cup {Head}), T # {}
    PROVE  \E x \in T : next[x][l] \notin T
<1>1. CASE T = {Head}
  BY <1>1, NodeFacts
<1>2. CASE T # {Head}
  <2>1. T \ {Head} \in SUBSET Int /\ T \ {Head} # {} /\ IsFiniteSet(T \ {Head})
    BY <1>2, NodeFacts, FS_Subset
  <2>2. PICK x \in T \ {Head} : \A y \in T \ {Head} : y <= x
    BY <2>1, GreatestKey
  <2>3. CASE next[x][l] = Null
    BY <2>3, NodeFacts
  <2>4. CASE next[x][l] # Null
    <3>1. x \in OnLevel(l)
      BY <2>4 DEF SkipInv
    <3>2. next[x][l] > x /\ next[x][l] \in OnLevel(l)
      BY <2>4, <3>1, LinkFacts, NodeFacts
    <3>3. next[x][l] \in Int /\ x \in Int /\ next[x][l] # Head
      BY <3>1, <3>2, NodeFacts
    <3>4. QED BY <2>2, <3>2, <3>3
  <2>5. QED BY <2>3, <2>4
<1>3. QED BY <1>1, <1>2

(* WalkEnd solves the equation of the loop.                                *)
LEMMA WalkEndSolves ==
    ASSUME SkipInv, NEW l \in Levels, NEW k \in Int, NEW x \in nodes \cup {Head}
    PROVE  /\ KeyIsAfterNode(k, next[x][l]) =>
                next[x][l] \in nodes /\ WalkEnd(k, l)[x] = WalkEnd(k, l)[next[x][l]]
           /\ ~KeyIsAfterNode(k, next[x][l]) => WalkEnd(k, l)[x] = x
<1>1. PICK y \in nodes \cup {Null} : y = next[x][l]
  BY NodeFacts
<1>2. CASE KeyIsAfterNode(k, y)
  <2>1. y # Null /\ y < k /\ y \in nodes
    BY <1>2 DEF KeyIsAfterNode
  <2>2. x \in OnLevel(l) \cup {Head}
    BY <1>1, <2>1 DEF SkipInv
  <2>3. y \in OnLevel(l) /\ (x # Head => y > x)
    BY <1>1, <2>1, <2>2, LinkFacts
  <2>4. x = Head \/ (x \in OnLevel(l) /\ x < k)
    BY <2>1, <2>2, <2>3, NodeFacts
  <2>5. WalkEnd(k, l)[x] = Floor(k, l) /\ WalkEnd(k, l)[y] = Floor(k, l)
    BY <2>1, <2>3, <2>4 DEF WalkEnd
  <2>6. QED BY <1>1, <1>2, <2>1, <2>5
<1>3. CASE ~KeyIsAfterNode(k, y)
  <2>1. CASE x = Head \/ (x \in OnLevel(l) /\ x < k)
    <3>1. \A j \in OnLevel(l) : j < k => x # Head /\ j <= x
      <4>1. CASE y = Null
        <5>1. \A j \in OnLevel(l) : x # Head /\ ~(j > x)
          BY <1>1, <2>1, <4>1, LinkFacts
        <5>2. (x # Head => x \in Int) /\ \A j \in OnLevel(l) : j \in Int
          BY NodeFacts
        <5>3. QED BY <5>1, <5>2
      <4>2. CASE y # Null
        <5>1. y \in Int /\ ~(y < k)
          BY <1>3, <4>2, NodeFacts DEF KeyIsAfterNode
        <5>2. \A j \in OnLevel(l) : j \in Int /\ (x = Head \/ j > x => y <= j)
          BY <1>1, <2>1, <4>2, LinkFacts, NodeFacts
        <5>3. x # Head => x \in Int
          BY NodeFacts
        <5>4. QED BY <5>1, <5>2, <5>3
      <4>3. QED BY <4>1, <4>2
    <3>2. Floor(k, l) = x
      BY <2>1, <3>1, FloorIs, NodeFacts
    <3>3. QED BY <1>1, <1>3, <2>1, <3>2 DEF WalkEnd
  <2>2. CASE ~(x = Head \/ (x \in OnLevel(l) /\ x < k))
    BY <1>1, <1>3, <2>2 DEF WalkEnd
  <2>3. QED BY <2>1, <2>2
<1>4. QED BY <1>1, <1>2, <1>3

(* The loop of FindGreaterOrEqual ends, on the last node before the key.   *)
LEMMA WalkIs ==
    ASSUME SkipInv, NEW l \in Levels, NEW k \in Int
    PROVE  Walk(k, l) = WalkEnd(k, l)
<1> DEFINE S == nodes \cup {Head}
           Go == {x \in S : KeyIsAfterNode(k, next[x][l])}
           succ == [x \in S |-> next[x][l]]
           out == [x \in S |-> x]
           Solves(f) == f = [x \in S |-> IF KeyIsAfterNode(k, next[x][l]) THEN f[next[x][l]] ELSE x]
<1>1. \A x \in S : WalkEnd(k, l)[x] = IF KeyIsAfterNode(k, next[x][l])
                                        THEN WalkEnd(k, l)[next[x][l]] ELSE x
  BY WalkEndSolves
<1>2. WalkEnd(k, l) = [x \in S |-> WalkEnd(k, l)[x]]
  BY DEF WalkEnd
<1>3. Solves(WalkEnd(k, l))
  BY <1>1, <1>2, Zenon
<1>4. Walk(k, l) = CHOOSE f : Solves(f)
  BY Zenon DEF Walk
<1>5. Solves(Walk(k, l))
  <2> HIDE DEF Solves
  <2> QED BY <1>3, <1>4, Zenon
<1>6. \A f : Solves(f) => Walks(f, S, Go, succ, out)
  BY DEF Walks
<1>7. Leaves(S, Go, succ)
  BY WalkEndSolves, LinksLeave DEF Leaves
<1>8. QED
  <2>1. Walks(Walk(k, l), S, Go, succ, out) /\ Walks(WalkEnd(k, l), S, Go, succ, out)
    BY <1>3, <1>5, <1>6
  <2> HIDE DEF S, Go, succ, out
  <2>2. QED BY <1>7, <2>1, OneWalk

(* Starting a level where the search left the level above misses nothing.  *)
LEMMA FloorStep ==
    ASSUME SkipInv, NEW l \in Levels, l + 1 \in Levels, NEW k \in Int
    PROVE  Floor(k, l + 1) \in nodes \cup {Head} /\ WalkEnd(k, l)[Floor(k, l + 1)] = Floor(k, l)
<1>1. OnLevel(l + 1) \subseteq OnLevel(l)
  <2>1. \A i \in Levels : i > 0 => OnLevel(i) \subseteq OnLevel(i - 1)
    BY DEF SkipInv, LevelsSorted
  <2>2. l + 1 > 0 /\ (l + 1) - 1 = l
    BY DEF Levels
  <2>3. QED BY <2>1, <2>2
<1>2. /\ Floor(k, l + 1) \in OnLevel(l + 1) \cup {Head}
      /\ Floor(k, l + 1) # Head => Floor(k, l + 1) < k
  BY FloorFacts
<1>3. QED BY <1>1, <1>2, NodeFacts DEF WalkEnd

(* prev[l] of FindGreaterOrEqual is the last node before the key on every  *)
(* level in use.                                                           *)
LEMMA PrevIs ==
    ASSUME SkipInv, NEW k \in Int
    PROVE  \A l \in 0 .. max_height - 1 : Prev(k)[l] = Floor(k, l)
<1> DEFINE U == 0 .. max_height - 1
           Solves(f) == f = [l \in U |-> Walk(k, l)[IF l = max_height - 1 THEN Head ELSE f[l + 1]]]
           floors == [l \in U |-> Floor(k, l)]
<1>1. U \subseteq Levels /\ U \in SUBSET Int /\ IsFiniteSet(U) /\ \A l \in U : l # max_height - 1 => l + 1 \in U
  <2>1. U \subseteq Levels /\ U \in SUBSET Int /\ \A l \in U : l # max_height - 1 => l + 1 \in U
    BY NodeFacts, SkipListAssumption DEF Levels
  <2>2. IsFiniteSet(U)
    BY FS_Interval, NodeFacts
  <2>3. QED BY <2>1, <2>2
<1> HIDE DEF U
<1>2. \A l \in U : Walk(k, l) = WalkEnd(k, l) /\ WalkEnd(k, l)[Head] = Floor(k, l)
  BY <1>1, WalkIs DEF WalkEnd
<1>3. \A l \in U : l # max_height - 1 => WalkEnd(k, l)[Floor(k, l + 1)] = Floor(k, l)
  BY <1>1, FloorStep
<1>4. Solves(floors)
  <2>1. \A l \in U : floors[l] = Walk(k, l)[IF l = max_height - 1 THEN Head ELSE floors[l + 1]]
    BY <1>1, <1>2, <1>3
  <2>2. floors = [l \in U |-> floors[l]]
    OBVIOUS
  <2> HIDE DEF floors
  <2>3. QED BY <2>1, <2>2, Zenon
<1>5. Prev(k) = CHOOSE f : Solves(f)
  BY Zenon DEF Prev, U
<1>6. Solves(Prev(k))
  <2> HIDE DEF Solves, floors
  <2> QED BY <1>4, <1>5, Zenon
<1>7. \A l \in U : Prev(k)[l] = Walk(k, l)[IF l = max_height - 1 THEN Head ELSE Prev(k)[l + 1]]
  BY <1>6, Zenon
<1> DEFINE T == {l \in U : Prev(k)[l] # Floor(k, l)}
<1>8. T = {}
  <2> SUFFICES ASSUME T # {} PROVE FALSE
    OBVIOUS
  <2>1. T \in SUBSET Int /\ IsFiniteSet(T)
    BY <1>1, FS_Subset
  <2>2. PICK l \in T : \A j \in T : j <= l
    BY <2>1, GreatestKey
  <2>3. l \in U /\ l \in Int /\ Prev(k)[l] # Floor(k, l)
    BY <1>1
  <2>4. l # max_height - 1
    BY <1>2, <1>7, <2>3
  <2>5. l + 1 \in U /\ l + 1 \notin T
    BY <1>1, <2>2, <2>3, <2>4
  <2>6. Prev(k)[l + 1] = Floor(k, l + 1)
    BY <2>5
  <2>7. QED BY <1>2, <1>3, <1>7, <2>3, <2>4, <2>6
<1>9. QED BY <1>8 DEF U

-----------------------------------------------------------------------------
(* FindLessThan and FindLast: go on to the next node, or where that is not *)
(* wanted one level down.                                                  *)
Stops(k) == {p \in Position : next[p[1]][p[2]] = Null \/ next[p[1]][p[2]] >= k}
Onward(k) == [p \in Position |-> IF p \in Stops(k) THEN <<p[1], p[2] - 1>>
                                 ELSE <<next[p[1]][p[2]], p[2]>>]
GoesOn(k) == {p \in Position : p \in Stops(k) => p[2] # 0}
Reached == [p \in Position |-> p[1]]

DescentEnd(k) == [p \in Position |-> IF p[1] # Head /\ p[1] >= k THEN p[1] ELSE Floor(k, 0)]

(* A position is a node and a level.                                       *)
LEMMA PositionFields ==
    ASSUME SkipInv, NEW p \in Position
    PROVE  /\ p[1] \in nodes \cup {Head} /\ p[2] \in Levels /\ p = <<p[1], p[2]>>
           /\ p[2] # 0 => <<p[1], p[2] - 1>> \in Position
           /\ next[p[1]][p[2]] # Null => <<next[p[1]][p[2]], p[2]>> \in Position
<1>1. p[1] \in nodes \cup {Head} /\ p[2] \in Levels /\ p = <<p[1], p[2]>>
  BY DEF Position
<1>2. p[2] # 0 => p[2] - 1 \in Levels
  BY <1>1, SkipListAssumption DEF Levels
<1>3. next[p[1]][p[2]] \in nodes \cup {Null}
  BY <1>1, NodeFacts
<1>4. QED BY <1>1, <1>2, <1>3 DEF Position

(* The search comes to an end.                                             *)
LEMMA DescentLeaves ==
    ASSUME SkipInv, NEW k \in Int
    PROVE  Leaves(Position, GoesOn(k), Onward(k))
<1>1. ASSUME NEW p \in Position, p \in GoesOn(k)
      PROVE  Onward(k)[p] \in Position
  BY <1>1, PositionFields DEF GoesOn, Onward, Stops
<1>2. ASSUME NEW T \in SUBSET Position, T # {}
      PROVE  \E p \in T : p \in GoesOn(k) => Onward(k)[p] \notin T
  <2> DEFINE L == {p[2] : p \in T}
  <2>1. L \in SUBSET Nat /\ L # {}
    <3>1. Levels \subseteq Nat
      BY SkipListAssumption DEF Levels
    <3>2. \A p \in T : p[2] \in Levels
      BY PositionFields
    <3>3. QED BY <1>2, <3>1, <3>2
  <2>2. PICK l \in L : \A j \in L : l <= j
    BY <2>1, LeastNumber
  <2>3. l \in Levels /\ l \in Nat
    BY PositionFields, <2>1
  <2> DEFINE X == {x \in nodes \cup {Head} : <<x, l>> \in T}
  <2>4. X # {}
    <3>1. PICK p \in T : p[2] = l
      BY <2>2
    <3>2. p = <<p[1], l>> /\ p[1] \in nodes \cup {Head}
      BY <3>1, PositionFields
    <3>3. QED BY <3>1, <3>2
  <2>5. PICK x \in X : next[x][l] \notin X
    BY <2>3, <2>4, LinksLeave
  <2>6. PICK p \in T : p = <<x, l>> /\ p \in Position
    BY <2>5
  <2>7. <<x, l - 1>> \notin T
    <3>1. l - 1 \notin L
      BY <2>2, <2>3
    <3>2. QED BY <3>1
  <2>8. <<next[x][l], l>> \notin T
    BY <2>5, PositionFields
  <2>9. Onward(k)[p] \in {<<x, l - 1>>, <<next[x][l], l>>}
    BY <2>6 DEF Onward
  <2>10. QED BY <2>7, <2>8, <2>9
<1>3. QED BY <1>1, <1>2 DEF Leaves

(* The search for the last node before a key ends there.                   *)
LEMMA DescentSolves ==
    ASSUME SkipInv, NEW k \in Int
    PROVE  Walks(DescentEnd(k), Position, GoesOn(k), Onward(k), Reached)
<1> DEFINE D == DescentEnd(k)
<1>1. ASSUME NEW p \in Position
      PROVE  D[p] = IF p \in GoesOn(k) THEN D[Onward(k)[p]] ELSE Reached[p]
  <2>1. PICK x \in nodes \cup {Head}, l \in Levels : x = p[1] /\ l = p[2] /\ p = <<x, l>>
    BY PositionFields
  <2>2. PICK y \in nodes \cup {Null} : y = next[x][l]
    BY NodeFacts
  <2>3. /\ x # Head => x \in Int
        /\ y # Null => y \in Int /\ y # Head /\ y \in OnLevel(l) /\ x \in OnLevel(l) \cup {Head}
        /\ y # Null /\ x # Head => y > x
    <3>1. y # Null => x \in OnLevel(l) \cup {Head}
      BY <2>2 DEF SkipInv
    <3>2. QED BY <2>2, <3>1, NodeFacts, LinkFacts
  <2>4. CASE p \in Stops(k) /\ l # 0
    <3>1. Onward(k)[p] = <<x, l - 1>> /\ <<x, l - 1>> \in Position /\ p \in GoesOn(k)
      BY <2>1, <2>4, PositionFields DEF Onward, GoesOn
    <3>2. D[<<x, l - 1>>] = D[p]
      BY <2>1, <3>1 DEF DescentEnd
    <3>3. QED BY <3>1, <3>2
  <2>5. CASE p \in Stops(k) /\ l = 0
    <3>1. p \notin GoesOn(k) /\ Reached[p] = x
      BY <2>1, <2>5 DEF GoesOn, Reached
    <3>2. CASE x # Head /\ x >= k
      BY <2>1, <3>1, <3>2 DEF DescentEnd
    <3>3. CASE ~(x # Head /\ x >= k)
      <4>1. x \in OnLevel(0) \cup {Head} /\ (x # Head => x < k)
        BY <2>3, <3>3, NodeFacts
      <4>2. ASSUME NEW j \in OnLevel(0), j < k PROVE x # Head /\ j <= x
        <5>1. j \in Int
          BY NodeFacts
        <5>2. CASE y = Null
          <6>1. x # Head /\ ~(j > x)
            BY <2>2, <2>5, <4>1, <5>2, LinkFacts
          <6>2. QED BY <2>3, <5>1, <6>1
        <5>3. CASE y # Null
          <6>1. y >= k
            BY <2>1, <2>2, <2>5, <5>3 DEF Stops
          <6>2. x = Head \/ j > x => y <= j
            BY <2>2, <2>5, <4>1, <5>3, LinkFacts
          <6>3. QED BY <2>3, <4>2, <5>1, <5>3, <6>1, <6>2
        <5>4. QED BY <5>2, <5>3
      <4>3. Floor(k, 0) = x
        BY <4>1, <4>2, FloorIs, NodeFacts
      <4>4. QED BY <2>1, <3>1, <3>3, <4>3 DEF DescentEnd
    <3>4. QED BY <3>2, <3>3
  <2>6. CASE p \notin Stops(k)
    <3>1. y # Null /\ ~(y >= k)
      BY <2>1, <2>2, <2>6 DEF Stops
    <3>2. Onward(k)[p] = <<y, l>> /\ <<y, l>> \in Position /\ p \in GoesOn(k)
      BY <2>1, <2>2, <2>6, <3>1, PositionFields DEF Onward, GoesOn
    <3>3. ~(x # Head /\ x >= k)
      BY <2>3, <3>1
    <3>4. D[p] = Floor(k, 0) /\ D[<<y, l>>] = Floor(k, 0)
      BY <2>1, <3>1, <3>2, <3>3 DEF DescentEnd
    <3>5. QED BY <3>2, <3>4
  <2>7. QED BY <2>4, <2>5, <2>6
<1>2. D = [p \in Position |-> D[p]]
  BY DEF DescentEnd
<1> HIDE DEF D
<1>3. Walks(D, Position, GoesOn(k), Onward(k), Reached)
  BY <1>1, <1>2, Zenon DEF Walks
<1>4. QED BY <1>3 DEF D


(* A solution of the search's equation leads from head_ to the last node   *)
(* before the key.                                                         *)
LEMMA DescentIs ==
    ASSUME SkipInv, NEW k \in Int, NEW f, Walks(f, Position, GoesOn(k), Onward(k), Reached)
    PROVE  f[<<Head, max_height - 1>>] = Floor(k, 0)
<1>1. f = DescentEnd(k)
  BY DescentLeaves, DescentSolves, OneWalk
<1>2. max_height - 1 \in Levels
  BY NodeFacts, SkipListAssumption DEF Levels
<1>3. <<Head, max_height - 1>> \in Position
  BY <1>2 DEF Position
<1>4. QED BY <1>1, <1>3 DEF DescentEnd

(* FindLessThan finds the last node before the key.                        *)
LEMMA FindLessThanIs ==
    ASSUME SkipInv, NEW k \in Int
    PROVE  FindLessThan(k) = Floor(k, 0)
<1> DEFINE Body(f, p) == LET x == p[1]
                             l == p[2]
                         IN IF next[x][l] = Null \/ next[x][l] >= k
                              THEN IF l = 0 THEN x ELSE f[<<x, l - 1>>]
                              ELSE f[<<next[x][l], l>>]
           Step(f, p) == IF p \in GoesOn(k) THEN f[Onward(k)[p]] ELSE Reached[p]
           Solves(f) == f = [p \in Position |-> Body(f, p)]
           w == CHOOSE f : Solves(f)
<1>1. ASSUME NEW f, NEW p \in Position
      PROVE  Body(f, p) = Step(f, p)
  BY DEF GoesOn, Onward, Stops, Reached
<1>2. ASSUME NEW f PROVE Solves(f) <=> Walks(f, Position, GoesOn(k), Onward(k), Reached)
  <2>1. [p \in Position |-> Body(f, p)] = [p \in Position |-> Step(f, p)]
    <3> HIDE DEF Body, Step
    <3> QED BY <1>1, Zenon
  <2>2. QED BY <2>1, Zenon DEF Walks
<1>3. Solves(DescentEnd(k))
  BY <1>2, DescentSolves
<1>4. FindLessThan(k) = w[<<Head, max_height - 1>>]
  BY Zenon DEF FindLessThan
<1>5. Solves(w)
  <2> HIDE DEF Solves
  <2> QED BY <1>3, Zenon
<1>6. Walks(w, Position, GoesOn(k), Onward(k), Reached)
  BY <1>2, <1>5
<1>7. QED
  <2> HIDE DEF w
  <2> QED BY <1>4, <1>6, DescentIs

(* FindLast finds the last node before any key that is greater than all.   *)
LEMMA FindLastIs ==
    ASSUME SkipInv, NEW k \in Int, \A n \in nodes : n < k
    PROVE  FindLast = Floor(k, 0)
<1> DEFINE Body(f, p) == LET x == p[1]
                             l == p[2]
                         IN IF next[x][l] = Null
                              THEN IF l = 0 THEN x ELSE f[<<x, l - 1>>]
                              ELSE f[<<next[x][l], l>>]
           Step(f, p) == IF p \in GoesOn(k) THEN f[Onward(k)[p]] ELSE Reached[p]
           Solves(f) == f = [p \in Position |-> Body(f, p)]
           w == CHOOSE f : Solves(f)
<1>1. ASSUME NEW f, NEW p \in Position
      PROVE  Body(f, p) = Step(f, p)
  <2>1. next[p[1]][p[2]] # Null => next[p[1]][p[2]] \in Int /\ next[p[1]][p[2]] < k
    BY PositionFields, NodeFacts
  <2>2. p \in Stops(k) <=> next[p[1]][p[2]] = Null
    BY <2>1 DEF Stops
  <2>3. QED BY <2>2 DEF GoesOn, Onward, Reached
<1>2. ASSUME NEW f PROVE Solves(f) <=> Walks(f, Position, GoesOn(k), Onward(k), Reached)
  <2>1. [p \in Position |-> Body(f, p)] = [p \in Position |-> Step(f, p)]
    <3> HIDE DEF Body, Step
    <3> QED BY <1>1, Zenon
  <2>2. QED BY <2>1, Zenon DEF Walks
<1>3. Solves(DescentEnd(k))
  BY <1>2, DescentSolves
<1>4. FindLast = w[<<Head, max_height - 1>>]
  BY Zenon DEF FindLast
<1>5. Solves(w)
  <2> HIDE DEF Solves
  <2> QED BY <1>3, Zenon
<1>6. Walks(w, Position, GoesOn(k), Onward(k), Reached)
  BY <1>2, <1>5
<1>7. QED
  <2> HIDE DEF w
  <2> QED BY <1>4, <1>6, DescentIs

(* FindGreaterOrEqual finds the first node that is not before the key.     *)
LEMMA FindGreaterOrEqualIs ==
    ASSUME SkipInv, NEW k \in Key
    PROVE  /\ FindGreaterOrEqual(k) = next[Floor(k, 0)][0]
           /\ FindGreaterOrEqual(k) = k <=> k \in nodes
<1> k \in Int
  BY SkipListAssumption
<1>1. FindGreaterOrEqual(k) = next[Floor(k, 0)][0]
  BY PrevIs, NodeFacts DEF FindGreaterOrEqual
<1>2. Floor(k, 0) \in OnLevel(0) \cup {Head}
  BY FloorFacts, NodeFacts
<1>3. next[Floor(k, 0)][0] \in nodes \cup {Null}
  BY <1>2, NodeFacts
<1>4. ASSUME k \in nodes PROVE next[Floor(k, 0)][0] = k
  <2>1. Floor(k, 0) = Head \/ k > Floor(k, 0)
    BY <1>2, FloorFacts, NodeFacts
  <2>2. PICK y : y = next[Floor(k, 0)][0]
    OBVIOUS
  <2>3. y # Null /\ y \in OnLevel(0) /\ y <= k
    BY <1>2, <1>4, <2>1, <2>2, LinkFacts, NodeFacts
  <2>4. ~(y < k)
    <3>1. CASE Floor(k, 0) = Head
      BY <2>3, <3>1, FloorFacts, NodeFacts
    <3>2. CASE Floor(k, 0) # Head
      <4>1. y > Floor(k, 0) /\ y \in Int /\ Floor(k, 0) \in Int
        BY <1>2, <2>2, <2>3, <3>2, LinkFacts, NodeFacts
      <4>2. y < k => y <= Floor(k, 0)
        BY <2>3, <3>2, FloorFacts, NodeFacts
      <4>3. QED BY <4>1, <4>2
    <3>3. QED BY <3>1, <3>2
  <2>5. y \in Int
    BY <2>3, NodeFacts
  <2>6. QED BY <2>2, <2>3, <2>4, <2>5
<1>5. next[Floor(k, 0)][0] = k => k \in nodes
  BY <1>3, SkipListAssumption
<1>6. QED BY <1>1, <1>4, <1>5


-----------------------------------------------------------------------------
(* The list is sorted at first.                                            *)
LEMMA SkipInit == Init => SkipInv
<1> SUFFICES ASSUME Init PROVE SkipInv
  OBVIOUS
<1>1. nodes = {} /\ \A l \in Levels : OnLevel(l) = {} /\ next[Head][l] = Null
  BY DEF Init, OnLevel
<1>2. 0 \in Levels /\ max_height \in 1 .. kMaxHeight
  BY SkipListAssumption DEF Init, Levels
<1>3. TypeOK
  BY <1>1, <1>2 DEF Init, TypeOK
<1>4. QED BY <1>1, <1>2, <1>3 DEF SkipInv, LevelsSorted

(* Insert links the new node behind the last one before its key, on every  *)
(* level below its height.                                                 *)
LEMMA PrevOrHeadIs ==
    ASSUME SkipInv, NEW k \in Int, NEW l \in Levels
    PROVE  PrevOrHead(k, l) = Floor(k, l)
<1>1. CASE l < max_height
  BY <1>1, PrevIs, NodeFacts DEF PrevOrHead, Levels
<1>2. CASE ~(l < max_height)
  <2>1. l >= max_height
    BY <1>2, NodeFacts DEF Levels
  <2>2. OnLevel(l) = {}
    BY <2>1 DEF SkipInv, LevelsSorted
  <2>3. QED BY <1>2, <2>2, FloorFacts DEF PrevOrHead
<1>3. QED BY <1>1, <1>2

(* The links after a new node of some height has been linked.              *)
Linked(k, height) ==
    /\ k \notin nodes /\ nodes' = nodes \cup {k}
    /\ \A l \in Levels :
         /\ next'[k][l] = IF l < height THEN next[Floor(k, l)][l] ELSE Null
         /\ \A n \in nodes \cup {Head} :
              next'[n][l] = IF l < height /\ n = Floor(k, l) THEN k ELSE next[n][l]

(* Link links a node of some height, for a key that has none yet.          *)
LEMMA LinkLinks ==
    ASSUME SkipInv, NEW k \in Key, NEW v \in Value, Link(k, v), UNCHANGED node
    PROVE  \E height \in 1 .. kMaxHeight :
             /\ Linked(k, height) /\ TypeOK'
             /\ max_height' = Raised(height)
             /\ value' = [n \in nodes \cup {k} |-> IF n = k THEN v ELSE value[n]]
<1> k \in Int /\ k # Head
  BY SkipListAssumption
<1>1. PICK height \in 1 .. kMaxHeight :
        /\ FindGreaterOrEqual(k) # k
        /\ max_height' = Raised(height)
        /\ nodes' = nodes \cup {k}
        /\ value' = [n \in nodes' |-> IF n = k THEN v ELSE value[n]]
        /\ next' = [n \in nodes' \cup {Head} |-> [l \in Levels |->
               IF n = k THEN IF l < height THEN next[[i \in 0 .. height - 1 |-> PrevOrHead(k, i)][l]][l]
                                           ELSE Null
               ELSE IF l < height /\ n = [i \in 0 .. height - 1 |-> PrevOrHead(k, i)][l] THEN k
                    ELSE next[n][l]]]
  BY DEF Link, RandomHeight
<1>2. \A l \in Levels : l < height => [i \in 0 .. height - 1 |-> PrevOrHead(k, i)][l] = Floor(k, l)
  BY PrevOrHeadIs DEF Levels
<1>3. k \notin nodes
  BY <1>1, FindGreaterOrEqualIs
<1>4. ASSUME NEW l \in Levels, NEW n \in nodes' \cup {Head}
      PROVE  next'[n][l] = IF n = k THEN IF l < height THEN next[Floor(k, l)][l] ELSE Null
                           ELSE IF l < height /\ n = Floor(k, l) THEN k ELSE next[n][l]
  <2>1. PICK prev : prev = [i \in 0 .. height - 1 |-> PrevOrHead(k, i)]
    OBVIOUS
  <2>2. next'[n][l] = IF n = k THEN IF l < height THEN next[prev[l]][l] ELSE Null
                      ELSE IF l < height /\ n = prev[l] THEN k ELSE next[n][l]
    BY <1>1, <2>1
  <2>3. l < height => prev[l] = Floor(k, l)
    BY <1>2, <2>1
  <2>4. QED BY <2>2, <2>3
<1>5. Linked(k, height)
  BY <1>1, <1>3, <1>4 DEF Linked
<1>6. TypeOK'
  <2>1. nodes' \subseteq Key /\ value' \in [nodes' -> Value]
    BY <1>1 DEF SkipInv, LevelsSorted, TypeOK
  <2>2. max_height' \in 1 .. kMaxHeight
    BY <1>1, NodeFacts DEF Raised
  <2>3. next' \in [nodes' \cup {Head} -> [Levels -> nodes' \cup {Null}]]
    <3>1. \A l \in Levels, n \in nodes' \cup {Head} : next'[n][l] \in nodes' \cup {Null}
      <4>1. \A l \in Levels : Floor(k, l) \in nodes \cup {Head}
        BY FloorFacts, NodeFacts
      <4>2. ASSUME NEW l \in Levels, NEW n \in nodes' \cup {Head}
            PROVE  next'[n][l] \in nodes' \cup {Null}
        <5>1. CASE n = k
          <6>1. next[Floor(k, l)][l] \in nodes \cup {Null}
            BY <4>1, NodeFacts
          <6>2. QED BY <1>5, <5>1, <6>1 DEF Linked
        <5>2. CASE n # k
          <6>1. n \in nodes \cup {Head} /\ next[n][l] \in nodes \cup {Null}
            BY <1>1, <5>2, NodeFacts
          <6>2. QED BY <1>5, <5>2, <6>1 DEF Linked
        <5>3. QED BY <5>1, <5>2
      <4>3. QED BY <4>2
    <3>2. next' = [n \in nodes' \cup {Head} |-> next'[n]]
      BY <1>1
    <3>3. \A n \in nodes' \cup {Head} : next'[n] = [l \in Levels |-> next'[n][l]]
      BY <1>1
    <3>4. QED BY <3>1, <3>2, <3>3
  <2>4. node' \in nodes' \cup {Null}
    BY <1>1 DEF SkipInv, LevelsSorted, TypeOK
  <2>5. QED BY <2>1, <2>2, <2>3, <2>4 DEF TypeOK
<1>7. QED BY <1>1, <1>5, <1>6

(* The new node is on the levels below its height; the others stay.        *)
LEMMA LinkedLevel ==
    ASSUME SkipInv, NEW k \in Key, NEW height \in 1 .. kMaxHeight, Linked(k, height), NEW l \in Levels
    PROVE  /\ l < height => OnLevel(l)' = OnLevel(l) \cup {k}
           /\ ~(l < height) => OnLevel(l)' = OnLevel(l)
<1> k \in Int /\ k # Head /\ k # Null
  BY SkipListAssumption
<1>1. Floor(k, l) \in nodes \cup {Head}
  BY FloorFacts, NodeFacts
<1>2. nodes' = nodes \cup {k} /\ k \notin nodes
  BY DEF Linked
<1>3. next'[k][l] = IF l < height THEN next[Floor(k, l)][l] ELSE Null
  BY DEF Linked
<1>4. \A n \in nodes \cup {Head} :
        next'[n][l] = IF l < height /\ n = Floor(k, l) THEN k ELSE next[n][l]
  BY DEF Linked
<1>5. OnLevel(l)' = {n \in nodes' : \E m \in nodes' \cup {Head} : next'[m][l] = n}
  BY DEF OnLevel
<1>6. CASE l < height
  <2>1. ASSUME NEW n \in OnLevel(l) PROVE n \in OnLevel(l)'
    <3>1. PICK m \in nodes \cup {Head} : next[m][l] = n /\ n \in nodes
      BY DEF OnLevel
    <3>2. CASE m = Floor(k, l)
      BY <1>2, <1>3, <1>5, <1>6, <3>1, <3>2
    <3>3. CASE m # Floor(k, l)
      BY <1>2, <1>4, <1>5, <3>1, <3>3
    <3>4. QED BY <3>2, <3>3
  <2>2. k \in OnLevel(l)'
    BY <1>1, <1>2, <1>4, <1>5, <1>6
  <2>3. ASSUME NEW n \in OnLevel(l)', n # k PROVE n \in OnLevel(l)
    <3>1. PICK m \in nodes' \cup {Head} : next'[m][l] = n /\ n \in nodes
      BY <1>2, <1>5, <2>3
    <3>2. CASE m = k
      BY <1>1, <1>3, <1>6, <3>1, <3>2 DEF OnLevel
    <3>3. CASE m # k
      BY <1>2, <1>4, <2>3, <3>1, <3>3 DEF OnLevel
    <3>4. QED BY <3>2, <3>3
  <2>4. QED BY <1>6, <2>1, <2>2, <2>3
<1>7. CASE ~(l < height)
  <2>1. ASSUME NEW n \in OnLevel(l) PROVE n \in OnLevel(l)'
    BY <1>2, <1>4, <1>5, <1>7 DEF OnLevel
  <2>2. ASSUME NEW n \in OnLevel(l)' PROVE n \in OnLevel(l)
    <3>1. PICK m \in nodes' \cup {Head} : next'[m][l] = n /\ n \in nodes'
      BY <1>5
    <3>2. m # k
      BY <1>2, <1>3, <1>7, <3>1, NodeFacts
    <3>3. next[m][l] = n /\ m \in nodes \cup {Head}
      BY <1>2, <1>4, <1>7, <3>1, <3>2
    <3>4. n \in nodes
      BY <1>2, <3>1, <3>3, NodeFacts
    <3>5. QED BY <3>3, <3>4 DEF OnLevel
  <2>3. QED BY <1>7, <2>1, <2>2
<1>8. QED BY <1>6, <1>7


(* Each level still leads from every node to the next larger one.          *)
LEMMA LinkedSorted ==
    ASSUME SkipInv, NEW k \in Key, NEW height \in 1 .. kMaxHeight, Linked(k, height),
           NEW l \in Levels, l < height, NEW n \in OnLevel(l) \cup {k, Head}
    PROVE  \/ /\ next'[n][l] = Null
              /\ \A j \in OnLevel(l) \cup {k} : n # Head /\ ~(j > n)
           \/ /\ next'[n][l] \in OnLevel(l) \cup {k}
              /\ n # Head => next'[n][l] > n
              /\ \A j \in OnLevel(l) \cup {k} : n = Head \/ j > n => next'[n][l] <= j
<1> k \in Int /\ k # Head /\ k # Null /\ k \notin nodes
  BY SkipListAssumption DEF Linked
<1>1. PICK p \in OnLevel(l) \cup {Head} :
        /\ p = Floor(k, l)
        /\ p = Head => \A j \in OnLevel(l) : ~(j < k)
        /\ p # Head => p < k /\ \A j \in OnLevel(l) : j < k => j <= p
  BY FloorFacts
<1>2. PICK y \in nodes \cup {Null} : y = next[p][l]
  BY <1>1, NodeFacts
<1>3. /\ \A j \in OnLevel(l) : j \in Int /\ j # k /\ j # Head
      /\ p # Head => p \in Int
  BY NodeFacts
<1>4. /\ y = Null => \A j \in OnLevel(l) : p # Head /\ ~(j > p)
      /\ y # Null => /\ y \in OnLevel(l) /\ (p # Head => y > p)
                     /\ \A j \in OnLevel(l) : p = Head \/ j > p => y <= j
  BY <1>2, LinkFacts
<1>5. CASE n = k
  <2>1. next'[n][l] = y
    BY <1>1, <1>2, <1>5 DEF Linked
  <2>2. \A j \in OnLevel(l) : j > k => p = Head \/ j > p
    BY <1>1, <1>3
  <2>3. CASE y = Null
    BY <1>3, <1>4, <1>5, <2>1, <2>2, <2>3
  <2>4. CASE y # Null
    <3>1. y \in Int /\ y > k
      <4>1. y \in OnLevel(l) /\ y \in Int /\ y # k /\ (p # Head => y > p)
        BY <1>3, <1>4, <2>4
      <4>2. ~(y < k)
        BY <1>1, <1>3, <4>1
      <4>3. QED BY <4>1, <4>2
    <3>2. QED BY <1>3, <1>4, <1>5, <2>1, <2>2, <2>4, <3>1
  <2>5. QED BY <2>3, <2>4
<1>6. CASE n # k /\ n = p
  <2>1. next'[n][l] = k
    BY <1>1, <1>6, NodeFacts DEF Linked
  <2>2. \A j \in OnLevel(l) : n = Head \/ j > n => k <= j
    BY <1>1, <1>3, <1>6
  <2>3. n # Head => k > n
    BY <1>1, <1>3, <1>6
  <2>4. QED BY <2>1, <2>2, <2>3
<1>7. CASE n # k /\ n # p
  <2>1. n \in OnLevel(l) \cup {Head} /\ next'[n][l] = next[n][l]
    BY <1>1, <1>7, NodeFacts DEF Linked
  <2>2. PICK z \in nodes \cup {Null} : z = next[n][l]
    BY <2>1, NodeFacts
  <2>3. /\ z = Null => \A j \in OnLevel(l) : n # Head /\ ~(j > n)
        /\ z # Null => /\ z \in OnLevel(l) /\ (n # Head => z > n)
                       /\ \A j \in OnLevel(l) : n = Head \/ j > n => z <= j
    BY <2>1, <2>2, LinkFacts
  <2>4. n = Head \/ k > n => p \in OnLevel(l) /\ (n = Head \/ p > n)
    <3>1. CASE n = Head
      BY <1>7, <3>1
    <3>2. CASE n # Head /\ k > n
      BY <1>1, <1>3, <1>7, <2>1, <3>2
    <3>3. QED BY <3>1, <3>2
  <2>5. CASE z = Null
    BY <1>3, <2>1, <2>2, <2>3, <2>4, <2>5
  <2>6. CASE z # Null
    <3>1. n = Head \/ k > n => z <= k
      <4>1. n = Head \/ k > n => z <= p /\ p < k /\ p \in Int
        BY <1>1, <1>3, <2>3, <2>4, <2>6
      <4>2. z \in Int
        BY <1>3, <2>3, <2>6
      <4>3. QED BY <4>1, <4>2
    <3>2. QED BY <2>1, <2>2, <2>3, <2>6, <3>1
  <2>7. QED BY <2>5, <2>6
<1>8. QED BY <1>5, <1>6, <1>7

(* Linking a node of any height preserves the invariant.                   *)
LEMMA LinkPreserves ==
    ASSUME SkipInv, NEW k \in Key, NEW height \in 1 .. kMaxHeight, Linked(k, height),
           TypeOK', max_height' = Raised(height)
    PROVE  SkipInv'
<1> k \in Int /\ k # Head /\ k # Null /\ k \notin nodes /\ nodes' = nodes \cup {k}
  BY SkipListAssumption DEF Linked
<1>1. OnLevel(0)' = nodes'
  BY LinkedLevel, NodeFacts
<1>2. ASSUME NEW l \in Levels, l > 0 PROVE OnLevel(l)' \subseteq OnLevel(l - 1)'
  <2>1. l - 1 \in Levels /\ (l < height => l - 1 < height)
    BY <1>2, SkipListAssumption DEF Levels
  <2>2. OnLevel(l) \subseteq OnLevel(l - 1)
    BY <1>2 DEF SkipInv, LevelsSorted
  <2>3. QED BY <2>1, <2>2, LinkedLevel
<1>3. ASSUME NEW l \in Levels, l >= max_height' PROVE OnLevel(l)' = {}
  <2>1. ~(l < height) /\ l >= max_height
    BY <1>3, NodeFacts DEF Raised, Levels
  <2>2. OnLevel(l) = {}
    BY <2>1 DEF SkipInv, LevelsSorted
  <2>3. QED BY <2>1, <2>2, LinkedLevel
<1>4. ASSUME NEW l \in Levels, NEW n \in OnLevel(l)' \cup {Head}
      PROVE  LET larger == {j \in OnLevel(l)' : n = Head \/ j > n}
             IN IF larger = {} THEN next'[n][l] = Null
                ELSE next'[n][l] \in larger /\ \A j \in larger : next'[n][l] <= j
  <2>1. CASE l < height
    <3>1. OnLevel(l)' = OnLevel(l) \cup {k}
      BY <2>1, LinkedLevel
    <3>2. \/ /\ next'[n][l] = Null
             /\ \A j \in OnLevel(l) \cup {k} : n # Head /\ ~(j > n)
          \/ /\ next'[n][l] \in OnLevel(l) \cup {k}
             /\ n # Head => next'[n][l] > n
             /\ \A j \in OnLevel(l) \cup {k} : n = Head \/ j > n => next'[n][l] <= j
      BY <2>1, <3>1, LinkedSorted
    <3>3. QED BY <3>1, <3>2
  <2>2. CASE ~(l < height)
    <3>1. OnLevel(l)' = OnLevel(l)
      BY <2>2, LinkedLevel
    <3>2. next'[n][l] = next[n][l]
      BY <2>2, <3>1, NodeFacts DEF Linked
    <3>3. QED BY <3>1, <3>2 DEF SkipInv, LevelsSorted
  <2>3. QED BY <2>1, <2>2
<1>5. ASSUME NEW l \in Levels, NEW n \in nodes' \ OnLevel(l)' PROVE next'[n][l] = Null
  <2>1. CASE n = k
    BY <1>5, <2>1, LinkedLevel DEF Linked
  <2>2. CASE n # k
    <3>1. n \in nodes /\ n \notin OnLevel(l)
      BY <1>5, <2>2, LinkedLevel
    <3>2. n # Floor(k, l)
      BY <3>1, FloorFacts, NodeFacts
    <3>3. next'[n][l] = next[n][l]
      BY <3>1, <3>2 DEF Linked
    <3>4. QED BY <3>1, <3>3 DEF SkipInv
  <2>3. QED BY <2>1, <2>2
<1>6. LevelsSorted'
  BY <1>1, <1>2, <1>3, <1>4 DEF LevelsSorted
<1>7. QED BY <1>5, <1>6 DEF SkipInv


(* Replacing the entry of a node and moving the iterator change no link.   *)
LEMMA LinksStay ==
    ASSUME SkipInv, UNCHANGED <<nodes, next, max_height>>, TypeOK'
    PROVE  SkipInv'
<1>1. \A l : OnLevel(l)' = OnLevel(l)
  BY DEF OnLevel
<1>2. LevelsSorted'
  BY <1>1 DEF SkipInv, LevelsSorted
<1>3. QED BY <1>1, <1>2 DEF SkipInv

(* Some integer is greater than every key in the list.                     *)
LEMMA KeyBeyond ==
    ASSUME SkipInv
    PROVE  \E k \in Int : \A n \in nodes : n < k
<1>1. CASE nodes = {}
  BY <1>1
<1>2. CASE nodes # {}
  <2>1. PICK x \in nodes : \A y \in nodes : y <= x
    BY <1>2, GreatestKey, NodeFacts
  <2>2. x + 1 \in Int /\ \A y \in nodes : y < x + 1
    BY <2>1, NodeFacts
  <2>3. QED BY <2>2
<1>3. QED BY <1>1, <1>2

(* Where the iterator goes is a node or null.                              *)
LEMMA TargetsAreNodes ==
    ASSUME SkipInv
    PROVE  /\ \A k \in Key : (IF FindGreaterOrEqual(k) = k THEN k ELSE Null) \in nodes \cup {Null}
           /\ next[Head][0] \in nodes \cup {Null}
           /\ node # Null => next[node][0] \in nodes \cup {Null}
           /\ (IF FindLast = Head THEN Null ELSE FindLast) \in nodes \cup {Null}
           /\ node # Null =>
                (IF FindLessThan(node) = Head THEN Null ELSE FindLessThan(node)) \in nodes \cup {Null}
<1>1. \A k \in Key : (IF FindGreaterOrEqual(k) = k THEN k ELSE Null) \in nodes \cup {Null}
  BY FindGreaterOrEqualIs
<1>2. node # Null => node \in nodes /\ node \in Int
  BY NodeFacts DEF SkipInv, LevelsSorted, TypeOK
<1>3. FindLast \in nodes \cup {Head}
  BY KeyBeyond, FindLastIs, FloorFacts, NodeFacts
<1>4. node # Null => FindLessThan(node) \in nodes \cup {Head}
  BY <1>2, FindLessThanIs, FloorFacts, NodeFacts
<1>5. QED BY <1>1, <1>2, <1>3, <1>4, NodeFacts

(* Every step preserves the invariant.                                     *)
LEMMA SkipNext == SkipInv /\ [Next]_vars => SkipInv'
<1> SUFFICES ASSUME SkipInv, [Next]_vars PROVE SkipInv'
  OBVIOUS
<1>1. ASSUME NEW k \in Key, NEW v \in Value, Insert(k, v) PROVE SkipInv'
  <2>1. CASE Replace(k, v)
    <3>1. k \in nodes
      BY <2>1, FindGreaterOrEqualIs DEF Replace
    <3>2. TypeOK'
      BY <1>1, <2>1, <3>1 DEF Insert, Replace, SkipInv, LevelsSorted, TypeOK
    <3>3. QED BY <2>1, <3>2, LinksStay DEF Replace
  <2>2. CASE Link(k, v)
    BY <1>1, <2>2, LinkLinks, LinkPreserves DEF Insert
  <2>3. QED BY <1>1, <2>1, <2>2 DEF Insert
<1>2. ASSUME NEW op, NEW k, NEW target \in nodes \cup {Null}, Move(op, k, target) PROVE SkipInv'
  <2>1. TypeOK'
    BY <1>2 DEF Move, SkipInv, LevelsSorted, TypeOK
  <2>2. QED BY <1>2, <2>1, LinksStay DEF Move
<1>3. CASE SeekToFirst
  BY <1>2, <1>3, TargetsAreNodes DEF SeekToFirst
<1>4. CASE SeekToLast
  BY <1>2, <1>4, TargetsAreNodes DEF SeekToLast
<1>5. CASE Next_
  BY <1>2, <1>5, TargetsAreNodes DEF Next_, Valid
<1>6. CASE Prev_
  BY <1>2, <1>6, TargetsAreNodes DEF Prev_, Valid
<1>7. ASSUME NEW k \in Key, Seek(k) PROVE SkipInv'
  BY <1>2, <1>7, TargetsAreNodes DEF Seek
<1>8. CASE UNCHANGED vars
  <2>1. TypeOK'
    BY <1>8 DEF vars, SkipInv, LevelsSorted, TypeOK
  <2>2. QED BY <1>8, <2>1, LinksStay DEF vars
<1>9. QED BY <1>1, <1>3, <1>4, <1>5, <1>6, <1>7, <1>8 DEF Next

(* However many nodes of whatever heights Insert links, level 0 holds      *)
(* every key and each level is a sorted part of the one below              *)
(* (structure/skip_list.h, Insert and FindGreaterOrEqual).                 *)
THEOREM LevelsStaySorted == Spec => []LevelsSorted
<1>1. SkipInv => LevelsSorted
  BY DEF SkipInv
<1>2. QED BY <1>1, SkipInit, SkipNext, PTL DEF Spec


-----------------------------------------------------------------------------
(* The list implements a sorted map.                                       *)

(* The least key of a set, as the map names it.                            *)
LEMMA FirstIs ==
    ASSUME NEW S \in SUBSET Int, NEW x \in S, \A j \in S : x <= j
    PROVE  Abstract!First(S) = x
<1>1. PICK y \in S : y = Abstract!First(S) /\ \A j \in S : y <= j
  BY Zenon DEF Abstract!First
<1>2. x <= y /\ y <= x /\ x \in Int /\ y \in Int
  BY <1>1
<1>3. QED BY <1>1, <1>2

(* The greatest key of a set.                                              *)
LEMMA LastIs ==
    ASSUME NEW S \in SUBSET Int, NEW x \in S, \A j \in S : j <= x
    PROVE  Abstract!Last(S) = x
<1>1. PICK y \in S : y = Abstract!Last(S) /\ \A j \in S : j <= y
  BY Zenon DEF Abstract!Last
<1>2. x <= y /\ y <= x /\ x \in Int /\ y \in Int
  BY <1>1
<1>3. QED BY <1>1, <1>2

(* The last key before k, and null in place of head_.                      *)
LEMMA LastBefore ==
    ASSUME SkipInv, NEW k \in Int
    PROVE  (IF Floor(k, 0) = Head THEN Null ELSE Floor(k, 0)) = Abstract!Last({j \in nodes : j < k})
<1>1. CASE Floor(k, 0) = Head
  <2>1. {j \in nodes : j < k} = {}
    BY <1>1, FloorFacts, NodeFacts
  <2>2. QED BY <1>1, <2>1 DEF Abstract!Last
<1>2. CASE Floor(k, 0) # Head
  <2>1. /\ Floor(k, 0) \in {j \in nodes : j < k}
        /\ \A j \in {i \in nodes : i < k} : j <= Floor(k, 0)
        /\ {j \in nodes : j < k} \in SUBSET Int
    BY <1>2, FloorFacts, NodeFacts
  <2>2. QED BY <1>2, <2>1, LastIs
<1>3. QED BY <1>1, <1>2

(* The iterator's moves are the cursor's.                                  *)
LEMMA MovesAgree ==
    ASSUME SkipInv
    PROVE  /\ next[Head][0] = Abstract!First(nodes)
           /\ (IF FindLast = Head THEN Null ELSE FindLast) = Abstract!Last(nodes)
           /\ node # Null => next[node][0] = Abstract!First({k \in nodes : k > node})
           /\ node # Null => (IF FindLessThan(node) = Head THEN Null ELSE FindLessThan(node))
                             = Abstract!Last({k \in nodes : k < node})
<1> OnLevel(0) = nodes /\ 0 \in Levels /\ nodes \subseteq Int
  BY NodeFacts
<1>1. next[Head][0] = Abstract!First(nodes)
  <2>1. CASE next[Head][0] = Null
    BY <2>1, LinkFacts DEF Abstract!First
  <2>2. CASE next[Head][0] # Null
    BY <2>2, LinkFacts, FirstIs
  <2>3. QED BY <2>1, <2>2
<1>2. node # Null => node \in nodes /\ node \in Int /\ node # Head
  BY NodeFacts DEF SkipInv, LevelsSorted, TypeOK
<1>3. ASSUME node # Null PROVE next[node][0] = Abstract!First({k \in nodes : k > node})
  <2>1. CASE next[node][0] = Null
    <3>1. {k \in nodes : k > node} = {}
      BY <1>2, <1>3, <2>1, LinkFacts
    <3>2. QED BY <2>1, <3>1 DEF Abstract!First
  <2>2. CASE next[node][0] # Null
    <3>1. /\ next[node][0] \in {k \in nodes : k > node}
          /\ \A j \in {k \in nodes : k > node} : next[node][0] <= j
          /\ {k \in nodes : k > node} \in SUBSET Int
      BY <1>2, <1>3, <2>2, LinkFacts
    <3>2. QED BY <3>1, FirstIs
  <2>3. QED BY <2>1, <2>2
<1>4. node # Null => (IF FindLessThan(node) = Head THEN Null ELSE FindLessThan(node))
                     = Abstract!Last({k \in nodes : k < node})
  BY <1>2, FindLessThanIs, LastBefore
<1>5. (IF FindLast = Head THEN Null ELSE FindLast) = Abstract!Last(nodes)
  <2>1. PICK k \in Int : \A n \in nodes : n < k
    BY KeyBeyond
  <2>2. {j \in nodes : j < k} = nodes
    BY <2>1
  <2>3. QED BY <2>1, <2>2, FindLastIs, LastBefore
<1>6. QED BY <1>1, <1>3, <1>4, <1>5

(* Insert adds or replaces one entry.                                      *)
LEMMA InsertAgrees ==
    ASSUME SkipInv, NEW k \in Key, NEW v \in Value, Insert(k, v)
    PROVE  Abstract!Insert(k, v)
<1>1. value = [n \in nodes |-> value[n]] /\ DOMAIN value = nodes
  BY DEF SkipInv, LevelsSorted, TypeOK
<1>2. value' = [j \in nodes \cup {k} |-> IF j = k THEN v ELSE value[j]]
  <2>1. CASE Replace(k, v)
    <3>1. k \in nodes /\ nodes \cup {k} = nodes
      BY <2>1, FindGreaterOrEqualIs DEF Replace
    <3>2. value' = [value EXCEPT ![k] = v]
      BY <2>1 DEF Replace
    <3>3. QED BY <1>1, <3>1, <3>2
  <2>2. CASE Link(k, v)
    BY <2>2, LinkLinks DEF Insert
  <2>3. QED BY <2>1, <2>2 DEF Insert
<1>3. QED BY <1>1, <1>2 DEF Insert, Abstract!Insert, Abstract!Keys

(* Every step of the list is a step of the map.                            *)
LEMMA StepAgrees == SkipInv /\ [Next]_vars => [Abstract!Next]_<<value, node, call>>
<1> SUFFICES ASSUME SkipInv, Next PROVE Abstract!Next
  BY DEF vars
<1> DOMAIN value = nodes
  BY DEF SkipInv, LevelsSorted, TypeOK
<1> USE DEF Abstract!Keys
<1>1. \A op, k, target : Move(op, k, target) => Abstract!Move(op, k, target)
  BY DEF Move, Abstract!Move
<1>2. ASSUME NEW k \in Key, NEW v \in Value, Insert(k, v) PROVE Abstract!Next
  BY <1>2, InsertAgrees DEF Abstract!Next
<1>3. CASE SeekToFirst
  <2>1. Abstract!Move("SeekToFirst", Null, Abstract!First(nodes))
    BY <1>1, <1>3, MovesAgree DEF SeekToFirst
  <2>2. QED BY <2>1 DEF Abstract!Next
<1>4. CASE SeekToLast
  <2>1. Abstract!Move("SeekToLast", Null, Abstract!Last(nodes))
    BY <1>1, <1>4, MovesAgree DEF SeekToLast
  <2>2. QED BY <2>1 DEF Abstract!Next
<1>5. CASE Next_
  <2>1. node # Null /\ Abstract!Move("Next", Null, Abstract!First({k \in nodes : k > node}))
    BY <1>1, <1>5, MovesAgree DEF Next_, Valid
  <2>2. QED BY <2>1 DEF Abstract!Next
<1>6. CASE Prev_
  <2>1. node # Null /\ Abstract!Move("Prev", Null, Abstract!Last({k \in nodes : k < node}))
    BY <1>1, <1>6, MovesAgree DEF Prev_, Valid
  <2>2. QED BY <2>1 DEF Abstract!Next
<1>7. ASSUME NEW k \in Key, Seek(k) PROVE Abstract!Next
  <2>1. Abstract!Move("Seek", k, IF k \in nodes THEN k ELSE Null)
    BY <1>1, <1>7, FindGreaterOrEqualIs DEF Seek
  <2>2. QED BY <2>1 DEF Abstract!Next
<1>8. QED BY <1>2, <1>3, <1>4, <1>5, <1>6, <1>7 DEF Next

(* The skip list is a sorted map: Seek finds exactly the keys inserted,    *)
(* each with the entry inserted last, and the iterator visits them in      *)
(* order, whatever heights RandomHeight returns.                           *)
THEOREM SkipListIsSortedMap == Spec => ImplementsSortedMap
<1>1. Init => Abstract!Init
  BY DEF Init, Abstract!Init
<1>2. QED BY <1>1, SkipInit, SkipNext, StepAgrees, PTL DEF Spec, ImplementsSortedMap, Abstract!Spec

=============================================================================
