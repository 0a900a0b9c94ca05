---------------------------- MODULE MemoryProofs ----------------------------
(* The arena (Memory) for any block size and alignment, and the buffer     *)
(* that lives in it (BufferBytes) for any entries and node sizes.          *)
EXTENDS BufferBytes, WellFoundedInduction, TLAPS

PlaceType == [block : Nat, from : Nat, size : Nat \ {0}]

(* The places lie in the blocks and share no byte.                         *)
Apart(blocks, places) ==
    /\ blocks \in Seq(Nat) /\ places \subseteq PlaceType
    /\ \A p \in places : /\ 1 <= p.block /\ p.block <= Len(blocks)
                         /\ p.from + p.size <= blocks[p.block]
    /\ \A p, q \in places : p # q => ~Overlap(p, q)

(* What is left of the current block lies behind every place in it: the    *)
(* inductive part of PlacesDisjoint.                                       *)
Bump(blocks, block, ptr, remaining, places) ==
    /\ Apart(blocks, places)
    /\ block \in 0 .. Len(blocks) /\ ptr \in Nat /\ remaining \in Nat
    /\ block = 0 => remaining = 0
    /\ block # 0 => ptr + remaining <= blocks[block]
    /\ \A p \in places : p.block = block => p.from + p.size <= ptr

BumpInv(a, places) == Bump(a.blocks, a.block, a.ptr, a.remaining, places)

(* The fields of a place.                                                  *)
LEMMA PlaceFields ==
    ASSUME NEW block \in Nat, NEW from \in Nat, NEW size \in Nat \ {0}
    PROVE  /\ Place(block, from, size) \in PlaceType
           /\ Place(block, from, size).block = block
           /\ Place(block, from, size).from = from
           /\ Place(block, from, size).size = size
BY DEF Place, PlaceType

(* A place that starts where another one ends shares no byte with it.      *)
LEMMA Behind ==
    ASSUME NEW p \in PlaceType, NEW q \in PlaceType, p.from + p.size <= q.from
    PROVE  ~Overlap(p, q) /\ ~Overlap(q, p)
BY DEF Overlap, PlaceType

(* A place in a block that was appended.                                   *)
LEMMA AppendedBlock ==
    ASSUME NEW blocks, NEW places, Apart(blocks, places), NEW size \in Nat,
           NEW new \in PlaceType, new.block = Len(blocks) + 1, new.from + new.size <= size
    PROVE  Apart(Append(blocks, size), places \cup {new})
<1> DEFINE more == Append(blocks, size)
<1>1. blocks \in Seq(Nat) /\ Len(blocks) \in Nat /\ places \subseteq PlaceType
  BY DEF Apart
<1>2. /\ more \in Seq(Nat) /\ Len(more) = Len(blocks) + 1 /\ more[Len(blocks) + 1] = size
      /\ \A i \in 1 .. Len(blocks) : more[i] = blocks[i]
  BY <1>1
<1>3. \A p \in places : p.block \in 1 .. Len(blocks) /\ p.from + p.size <= blocks[p.block]
  BY <1>1 DEF Apart, PlaceType
<1>4. \A p \in places : ~Overlap(p, new) /\ ~Overlap(new, p)
  BY <1>1, <1>3 DEF Overlap
<1> HIDE DEF more
<1>5. \A p \in places \cup {new} : /\ 1 <= p.block /\ p.block <= Len(more)
                                   /\ p.from + p.size <= more[p.block]
  BY <1>1, <1>2, <1>3
<1>6. \A p, q \in places \cup {new} : p # q => ~Overlap(p, q)
  BY <1>4 DEF Apart
<1>7. Apart(more, places \cup {new})
  BY <1>1, <1>2, <1>5, <1>6 DEF Apart
<1>8. QED BY <1>7 DEF more

(* A large place gets a block of its own; the current block stays.         *)
LEMMA OwnBlock ==
    ASSUME NEW blocks, NEW block, NEW ptr, NEW remaining, NEW places,
           Bump(blocks, block, ptr, remaining, places), NEW bytes \in Nat \ {0}
    PROVE  Bump(Append(blocks, bytes), block, ptr, remaining,
                places \cup {Place(Len(blocks) + 1, 0, bytes)})
<1>1. blocks \in Seq(Nat) /\ Len(blocks) \in Nat /\ block \in 0 .. Len(blocks)
  BY DEF Bump, Apart
<1>2. PICK new \in PlaceType :
        /\ new = Place(Len(blocks) + 1, 0, bytes)
        /\ new.block = Len(blocks) + 1 /\ new.from + new.size = bytes
  BY <1>1, PlaceFields
<1> DEFINE more == Append(blocks, bytes)
<1>3. Len(more) = Len(blocks) + 1 /\ \A i \in 1 .. Len(blocks) : more[i] = blocks[i]
  BY <1>1
<1>4. Apart(more, places \cup {new})
  BY <1>2, AppendedBlock DEF Bump
<1> HIDE DEF more
<1>5. Bump(more, block, ptr, remaining, places \cup {new})
  BY <1>1, <1>2, <1>3, <1>4 DEF Bump
<1>6. QED BY <1>2, <1>5 DEF more

(* A small place that does not fit starts a new current block.             *)
LEMMA NewBlock ==
    ASSUME NEW blocks, NEW block, NEW ptr, NEW remaining, NEW places,
           Bump(blocks, block, ptr, remaining, places), NEW bytes \in Nat \ {0},
           bytes <= kBlockSize
    PROVE  Bump(Append(blocks, kBlockSize), Len(blocks) + 1, bytes, kBlockSize - bytes,
                places \cup {Place(Len(blocks) + 1, 0, bytes)})
<1>1. blocks \in Seq(Nat) /\ Len(blocks) \in Nat
  BY DEF Bump, Apart
<1>2. PICK new \in PlaceType :
        /\ new = Place(Len(blocks) + 1, 0, bytes)
        /\ new.block = Len(blocks) + 1 /\ new.from + new.size = bytes
  BY <1>1, PlaceFields
<1> DEFINE more == Append(blocks, kBlockSize)
<1>3. Len(more) = Len(blocks) + 1 /\ more[Len(blocks) + 1] = kBlockSize
  BY <1>1
<1>4. Apart(more, places \cup {new})
  BY <1>2, AppendedBlock, MemoryAssumption DEF Bump
<1>5. \A p \in places : p.block # Len(blocks) + 1
  BY <1>1 DEF Bump, Apart, PlaceType
<1> HIDE DEF more
<1>6. Bump(more, Len(blocks) + 1, bytes, kBlockSize - bytes, places \cup {new})
  BY <1>1, <1>2, <1>3, <1>4, <1>5, MemoryAssumption DEF Bump
<1>7. QED BY <1>2, <1>6 DEF more

(* Whatever is skipped for alignment, a place in the current block starts  *)
(* behind the others.                                                      *)
LEMMA SameBlock ==
    ASSUME NEW blocks, NEW block, NEW ptr, NEW remaining, NEW places,
           Bump(blocks, block, ptr, remaining, places),
           NEW slop \in Nat, NEW bytes \in Nat \ {0}, slop + bytes <= remaining
    PROVE  Bump(blocks, block, ptr + slop + bytes, remaining - (slop + bytes),
                places \cup {Place(block, ptr + slop, bytes)})
<1>1. /\ blocks \in Seq(Nat) /\ Len(blocks) \in Nat /\ block \in 1 .. Len(blocks)
      /\ ptr \in Nat /\ remaining \in Nat /\ places \subseteq PlaceType
      /\ ptr + remaining <= blocks[block] /\ blocks[block] \in Nat
  BY DEF Bump, Apart
<1>2. PICK new \in PlaceType :
        /\ new = Place(block, ptr + slop, bytes)
        /\ new.block = block /\ new.from = ptr + slop /\ new.size = bytes
  <2>1. block \in Nat \ {0} /\ ptr + slop \in Nat
    BY <1>1
  <2>2. QED BY <2>1, PlaceFields
<1>3. PICK end \in Nat, left \in Nat :
        end = ptr + slop + bytes /\ left = remaining - (slop + bytes)
  BY <1>1
<1>4. end + left = ptr + remaining /\ ptr <= end /\ new.from + new.size = end
  BY <1>1, <1>2, <1>3
<1>5. \A p \in places : p.block = block => p.from + p.size <= ptr /\ p.from + p.size <= end
  <2>1. ASSUME NEW p \in places, p.block = block
        PROVE  p.from + p.size <= ptr /\ p.from + p.size <= end
    <3>1. PICK n \in Nat : n = p.from + p.size /\ n <= ptr
      BY <1>1, <2>1 DEF Bump, PlaceType
    <3>2. n <= end
      BY <1>1, <1>4, <3>1
    <3>3. QED BY <3>1, <3>2
  <2>2. QED BY <2>1
<1>6. \A p \in places : ~Overlap(p, new) /\ ~Overlap(new, p)
  <2> SUFFICES ASSUME NEW p \in places, p.block = block
               PROVE  ~Overlap(p, new) /\ ~Overlap(new, p)
    BY <1>2 DEF Overlap
  <2>1. p.from \in Nat /\ p.size \in Nat /\ p.from + p.size <= ptr
    BY <1>1, <1>5 DEF PlaceType
  <2>2. p.from + p.size <= new.from
    BY <1>1, <1>2, <2>1
  <2>3. p \in PlaceType
    BY <1>1
  <2>4. QED BY <2>2, <2>3, Behind
<1>7. new.from + new.size <= blocks[block]
  BY <1>1, <1>3, <1>4
<1>8. Apart(blocks, places \cup {new})
  BY <1>1, <1>2, <1>6, <1>7 DEF Bump, Apart
<1>9. Bump(blocks, block, end, left, places \cup {new})
  BY <1>1, <1>2, <1>4, <1>5, <1>8 DEF Bump
<1>10. QED BY <1>2, <1>3, <1>9

(* The three cases together.                                               *)
LEMMA TakeBumps ==
    ASSUME NEW a, NEW places, BumpInv(a, places), NEW slop \in Nat, NEW bytes \in Nat \ {0}
    PROVE  BumpInv(Take(a, slop, bytes).arena, places \cup {Take(a, slop, bytes).place})
<1> USE DEF BumpInv, Take, Arena
<1>1. CASE slop + bytes <= a.remaining
  BY <1>1, SameBlock
<1>2. CASE ~(slop + bytes <= a.remaining) /\ bytes > kBlockSize \div 4
  BY <1>2, OwnBlock DEF AllocateFallback, AllocateNewBlock
<1>3. CASE ~(slop + bytes <= a.remaining) /\ ~(bytes > kBlockSize \div 4)
  <2>1. bytes <= kBlockSize
    BY <1>3, MemoryAssumption
  <2>2. QED BY <1>3, <2>1, NewBlock DEF AllocateFallback, AllocateNewBlock
<1>4. QED BY <1>1, <1>2, <1>3

(* Entries and nodes allocated in any order and of any sizes never share a *)
(* byte and never leave their block (memory.cpp:16-74).                    *)
THEOREM ArenaCorrect == ArenaSpec => []PlacesDisjoint
<1>1. ArenaInit => BumpInv(arena, allocated)
  BY DEF ArenaInit, NewMemory, Arena, BumpInv, Bump, Apart
<1>2. BumpInv(arena, allocated) /\ [ArenaNext]_<<arena, allocated>> => BumpInv(arena, allocated)'
  <2>1. ASSUME BumpInv(arena, allocated), ArenaNext PROVE BumpInv(arena, allocated)'
    <3>1. PICK bytes \in Nat \ {0} :
            Returns(Allocate(arena, bytes)) \/ Returns(AllocateAligned(arena, bytes))
      BY <2>1 DEF ArenaNext
    <3>2. Slop(arena) \in Nat
      <4>1. arena.ptr \in Nat
        BY <2>1 DEF BumpInv, Bump
      <4>2. arena.ptr % align \in 0 .. align - 1
        BY <4>1, MemoryAssumption
      <4>3. QED BY <4>2, MemoryAssumption DEF Slop
    <3>3. CASE Returns(Allocate(arena, bytes))
      BY <2>1, <3>3, TakeBumps DEF Allocate, Returns
    <3>4. CASE Returns(AllocateAligned(arena, bytes))
      BY <2>1, <3>2, <3>4, TakeBumps DEF AllocateAligned, Returns
    <3>5. QED BY <3>1, <3>3, <3>4
  <2>2. ASSUME BumpInv(arena, allocated), UNCHANGED <<arena, allocated>>
        PROVE  BumpInv(arena, allocated)'
    BY <2>2 DEF BumpInv, Bump, Apart, Overlap
  <2>3. QED BY <2>1, <2>2
<1>3. BumpInv(arena, allocated) => PlacesDisjoint
  BY DEF BumpInv, Bump, Apart, PlacesDisjoint, PlaceType
<1>4. QED BY <1>1, <1>2, <1>3, PTL DEF ArenaSpec

-----------------------------------------------------------------------------
Below == OpToRel(<, Nat)

(* A nonempty set of numbers has a least element.                          *)
LEMMA LeastNumber ==
    ASSUME NEW T \in SUBSET Nat, T # {}
    PROVE  \E x \in T : \A y \in T : x <= y
<1>1. IsWellFoundedOn(Below, Nat)
  BY NatLessThanWellFounded DEF Below
<1>2. \A x, y \in Nat : <<x, y>> \in Below <=> x < y
  BY DEF OpToRel, Below
<1>3. PICK x \in T : \A y \in T : ~ (<<y, x>> \in Below)
  BY <1>1, WFMin
<1>4. \A y \in T : ~ (y < x)
  BY <1>2, <1>3, Zenon
<1>5. x \in Nat /\ \A y \in T : y \in Nat
  OBVIOUS
<1>6. QED BY <1>4, <1>5

-----------------------------------------------------------------------------
(* The length of a varint.                                                 *)

(* w has one group less than v.                                            *)
LEMMA ShorterWord ==
    ASSUME NEW v \in Nat, v >= B
    PROVE  v \div B \in Nat /\ v \div B < v
<1>1. PICK b \in Nat : b = B /\ b > 1
  BY WidthAssumption
<1>2. PICK q \in Int : q = v \div b
  BY <1>1
<1>3. PICK r \in Int : r = v % b
  BY <1>1
<1>4. v = b * q + r /\ 0 <= r /\ r < b
  BY <1>1, <1>2, <1>3
<1>5. q >= 0
  BY <1>1, <1>4
<1>6. q < v
  BY <1>1, <1>4, <1>5
<1>7. QED BY <1>1, <1>2, <1>5, <1>6

(* f has the lengths of the words up to n.                                 *)
Measures(f, n) ==
    /\ f \in [0 .. n -> Nat \ {0}]
    /\ \A w \in 0 .. n : f[w] = IF w >= B THEN 1 + f[w \div B] ELSE 1

(* Any two such functions agree.                                           *)
LEMMA MeasuresAgree ==
    ASSUME NEW n \in Nat, NEW k \in Nat, NEW f, Measures(f, n), NEW g, Measures(g, k),
           NEW v \in Nat, v <= n, v <= k
    PROVE  f[v] = g[v]
<1> DEFINE T == {w \in 0 .. v : f[w] # g[w]}
<1>1. T = {}
  <2> SUFFICES ASSUME T # {} PROVE FALSE
    OBVIOUS
  <2>1. PICK w \in T : \A y \in T : w <= y
    <3>1. T \in SUBSET Nat
      OBVIOUS
    <3> HIDE DEF T
    <3>2. QED BY <3>1, LeastNumber
  <2>2. w \in Nat /\ w <= v /\ w \in 0 .. n /\ w \in 0 .. k /\ f[w] # g[w]
    OBVIOUS
  <2>3. w >= B
    BY <2>2 DEF Measures
  <2>4. PICK u \in Nat : u = w \div B /\ u < w
    BY <2>2, <2>3, ShorterWord
  <2>5. f[u] = g[u]
    BY <2>1, <2>2, <2>4
  <2>6. f[w] = 1 + f[u] /\ g[w] = 1 + g[u]
    BY <2>2, <2>3, <2>4 DEF Measures
  <2>7. QED BY <2>2, <2>5, <2>6
<1>2. QED BY <1>1

(* There is one for every n.                                               *)
LEMMA MeasuresExist == \A n \in Nat : \E f : Measures(f, n)
<1> DEFINE T == {n \in Nat : ~\E f : Measures(f, n)}
<1>0. B \in Nat /\ B > 1
  BY WidthAssumption
<1>1. T = {}
  <2> SUFFICES ASSUME T # {} PROVE FALSE
    OBVIOUS
  <2>1. PICK n \in T : \A y \in T : n <= y
    <3>1. T \in SUBSET Nat
      OBVIOUS
    <3> HIDE DEF T
    <3>2. QED BY <3>1, LeastNumber
  <2>2. n \in Nat /\ ~\E f : Measures(f, n)
    OBVIOUS
  <2>3. CASE n = 0
    <3> DEFINE f == [w \in 0 .. 0 |-> 1]
    <3>1. f \in [0 .. 0 -> Nat \ {0}] /\ \A w \in 0 .. 0 : f[w] = 1 /\ ~(w >= B)
      BY <1>0
    <3> HIDE DEF f
    <3>2. Measures(f, 0)
      BY <3>1 DEF Measures
    <3>3. QED BY <2>2, <2>3, <3>2
  <2>4. CASE n # 0
    <3>1. n - 1 \in Nat /\ n - 1 \notin T
      BY <2>1, <2>2, <2>4
    <3>2. PICK g : Measures(g, n - 1)
      BY <3>1
    <3>3. /\ g \in [0 .. n - 1 -> Nat \ {0}]
          /\ \A w \in 0 .. n - 1 : g[w] = IF w >= B THEN 1 + g[w \div B] ELSE 1
      BY <3>2 DEF Measures
    <3>4. \A w \in 0 .. n : w >= B => w \div B \in 0 .. n - 1
      <4>1. ASSUME NEW w \in 0 .. n, w >= B PROVE w \div B \in 0 .. n - 1
        <5>1. w \div B \in Nat /\ w \div B < w
          BY <2>2, <4>1, ShorterWord
        <5>2. QED BY <2>2, <4>1, <5>1
      <4>2. QED BY <4>1
    <3>5. PICK last \in Nat \ {0} : last = IF n >= B THEN 1 + g[n \div B] ELSE 1
      <4>1. n \in 0 .. n
        BY <2>2
      <4>2. QED BY <3>3, <3>4, <4>1
    <3> DEFINE f == [w \in 0 .. n |-> IF w < n THEN g[w] ELSE last]
    <3>6. \A w \in 0 .. n : w < n \/ w = n
      BY <2>2
    <3>7. f \in [0 .. n -> Nat \ {0}]
      BY <2>2, <3>3, <3>5
    <3>8. \A w \in 0 .. n - 1 : f[w] = g[w]
      BY <2>2
    <3>9. f[n] = last
      BY <2>2
    <3> HIDE DEF f
    <3>10. \A w \in 0 .. n : f[w] = IF w >= B THEN 1 + f[w \div B] ELSE 1
      <4>1. ASSUME NEW w \in 0 .. n PROVE f[w] = IF w >= B THEN 1 + f[w \div B] ELSE 1
        <5>1. w >= B => f[w \div B] = g[w \div B]
          BY <3>4, <3>8
        <5>2. CASE w = n
          BY <3>5, <3>9, <5>1, <5>2
        <5>3. CASE w < n
          <6>1. w \in 0 .. n - 1
            BY <2>2, <5>3
          <6>2. f[w] = g[w] /\ g[w] = IF w >= B THEN 1 + g[w \div B] ELSE 1
            BY <3>3, <3>8, <6>1
          <6>3. QED BY <5>1, <6>2
        <5>4. QED BY <3>6, <5>2, <5>3
      <4>2. QED BY <4>1
    <3>11. Measures(f, n)
      BY <3>7, <3>10 DEF Measures
    <3>12. QED BY <2>2, <3>11
  <2>5. QED BY <2>3, <2>4
<1>2. QED BY <1>1

(* VarintLength counts at least one byte, for every word.                  *)
LEMMA VarintLengthType == \A v \in Nat : VarintLength(v) \in Nat \ {0}
<1> DEFINE Solves(len) == len = [w \in Nat |-> IF w >= B THEN 1 + len[w \div B] ELSE 1]
           upTo(v) == CHOOSE f : Measures(f, v)
           F == [v \in Nat |-> upTo(v)[v]]
           L == CHOOSE len : Solves(len)
<1>1. \A v \in Nat : Measures(upTo(v), v)
  BY MeasuresExist
<1>2. ASSUME NEW v \in Nat PROVE F[v] = IF v >= B THEN 1 + F[v \div B] ELSE 1
  <2>1. PICK f : f = upTo(v) /\ Measures(f, v)
    BY <1>1
  <2>2. F[v] = f[v] /\ f[v] = IF v >= B THEN 1 + f[v \div B] ELSE 1
    <3>1. v \in 0 .. v
      OBVIOUS
    <3>2. f[v] = IF v >= B THEN 1 + f[v \div B] ELSE 1
      BY <2>1, <3>1 DEF Measures
    <3>3. F[v] = upTo(v)[v]
      BY Zenon
    <3>4. QED BY <2>1, <3>2, <3>3
  <2>3. ASSUME v >= B PROVE f[v \div B] = F[v \div B]
    <3>1. PICK u \in Nat : u = v \div B /\ u < v
      BY <2>3, ShorterWord
    <3>2. PICK g : g = upTo(u) /\ Measures(g, u)
      BY <1>1
    <3>3. f[u] = g[u]
      <4>1. u <= v /\ u <= u
        BY <3>1
      <4> HIDE DEF upTo
      <4>2. QED BY <2>1, <3>2, <4>1, MeasuresAgree
    <3>4. QED BY <3>1, <3>2, <3>3
  <2>4. QED BY <2>2, <2>3
<1>3. Solves(F)
  <2>1. F = [v \in Nat |-> F[v]]
    OBVIOUS
  <2> HIDE DEF F
  <2>2. QED BY <1>2, <2>1, Zenon
<1>4. Solves(L)
  <2> HIDE DEF Solves, F
  <2> QED BY <1>3, Zenon
<1>5. \A v \in Nat : VarintLength(v) = L[v]
  BY Zenon DEF VarintLength
<1>6. \A v \in Nat : L[v] = IF v >= B THEN 1 + L[v \div B] ELSE 1
  <2> HIDE DEF L
  <2> QED BY <1>4, Zenon
<1> HIDE DEF L
<1> DEFINE T == {v \in Nat : L[v] \notin Nat \ {0}}
<1>7. T = {}
  <2> SUFFICES ASSUME T # {} PROVE FALSE
    OBVIOUS
  <2>1. PICK v \in T : \A y \in T : v <= y
    <3>1. T \in SUBSET Nat
      OBVIOUS
    <3> HIDE DEF T
    <3>2. QED BY <3>1, LeastNumber
  <2>2. v \in Nat /\ L[v] \notin Nat \ {0}
    OBVIOUS
  <2>3. v >= B
    BY <1>6, <2>2
  <2>4. PICK u \in Nat : u = v \div B /\ u < v
    BY <2>2, <2>3, ShorterWord
  <2>5. L[u] \in Nat \ {0}
    BY <2>1, <2>2, <2>4
  <2>6. L[v] = 1 + L[u]
    BY <1>6, <2>2, <2>3, <2>4
  <2>7. QED BY <2>2, <2>5, <2>6
<1>8. QED BY <1>5, <1>7

-----------------------------------------------------------------------------
(* The buffer in the arena.                                                *)

(* The room an entry takes.                                                *)
LEMMA EncodedLenType ==
    ASSUME NEW key \in Keys, NEW value \in Values
    PROVE  EncodedLen(key, value) \in Nat \ {0}
<1>1. Len(key) \in Nat /\ Len(value) \in Nat
  BY BufferAssumption
<1>2. VarintLength(Len(key)) \in Nat \ {0} /\ VarintLength(Len(value)) \in Nat \ {0}
  BY <1>1, VarintLengthType
<1>3. QED BY <1>1, <1>2 DEF EncodedLen

(* The room a node takes.                                                  *)
LEMMA NodeSizeType ==
    /\ kMaxHeight \in Nat \ {0}
    /\ \A height \in 1 .. kMaxHeight : NodeSize[height] \in Nat \ {0}
BY BufferAssumption DEF kMaxHeight

(* The bytes skipped reach the next boundary.                              *)
LEMMA SlopAligns ==
    ASSUME NEW a, a.ptr \in Nat
    PROVE  Slop(a) \in Nat /\ (a.ptr + Slop(a)) % align = 0
<1>1. PICK n \in Nat \ {0} : n = align
  BY MemoryAssumption
<1>2. PICK p \in Nat : p = a.ptr
  OBVIOUS
<1>3. PICK q \in Int, r \in Int : q = p \div n /\ r = p % n
  BY <1>1, <1>2
<1>4. p = n * q + r /\ 0 <= r /\ r < n
  BY <1>1, <1>2, <1>3
<1>5. \A k \in Int : (n * k) % n = 0
  BY <1>1
<1>6. CASE r = 0
  <2>1. Slop(a) = 0 /\ p + 0 = n * q
    BY <1>1, <1>2, <1>3, <1>4, <1>6 DEF Slop
  <2>2. QED BY <1>1, <1>2, <1>5, <2>1
<1>7. CASE r # 0
  <2>1. Slop(a) = n - r
    BY <1>1, <1>2, <1>3, <1>7 DEF Slop
  <2>2. p + (n - r) = n * (q + 1)
    BY <1>1, <1>2, <1>3, <1>4
  <2>3. n - r \in Nat /\ q + 1 \in Int
    BY <1>1, <1>3, <1>4
  <2>4. QED BY <1>1, <1>2, <1>5, <2>1, <2>2, <2>3
<1>8. QED BY <1>6, <1>7

(* AllocateAligned returns a boundary, in the current block or a new one.  *)
LEMMA AlignedPlace ==
    ASSUME NEW a, a.ptr \in Nat, NEW bytes
    PROVE  AllocateAligned(a, bytes).place.from % align = 0
<1>1. 0 % align = 0
  BY MemoryAssumption
<1>2. QED BY <1>1, SlopAligns DEF AllocateAligned, Take, AllocateFallback, Place

(* Both ways of allocating keep the places apart.                          *)
LEMMA AllocateBumps ==
    ASSUME NEW a, NEW places, BumpInv(a, places), NEW bytes \in Nat \ {0}
    PROVE  /\ BumpInv(Allocate(a, bytes).arena, places \cup {Allocate(a, bytes).place})
           /\ BumpInv(AllocateAligned(a, bytes).arena, places \cup {AllocateAligned(a, bytes).place})
<1>1. a.ptr \in Nat
  BY DEF BumpInv, Bump
<1>2. Slop(a) \in Nat
  BY <1>1, SlopAligns
<1>3. QED BY <1>2, TakeBumps DEF Allocate, AllocateAligned

(* The inductive invariant.                                                *)
BufferInv == BumpInv(arena, allocated) /\ NodesAligned

(* Add keeps it.                                                           *)
LEMMA AddInv ==
    ASSUME BufferInv, NEW key \in Keys, NEW value \in Values, Add(key, value)
    PROVE  BufferInv'
<1>1. PICK buf : buf = Allocate(arena, EncodedLen(key, value))
  OBVIOUS
<1>2. BumpInv(buf.arena, allocated \cup {buf.place})
  BY <1>1, EncodedLenType, AllocateBumps DEF BufferInv
<1>3. CASE Returns(buf) /\ UNCHANGED nodes
  BY <1>2, <1>3 DEF BufferInv, Returns, NodesAligned
<1>4. ASSUME NEW height \in 1 .. kMaxHeight, NEW node,
             node = AllocateAligned(buf.arena, NodeSize[height]),
             arena' = node.arena, allocated' = allocated \cup {buf.place, node.place},
             nodes' = nodes \cup {node.place}
      PROVE  BufferInv'
  <2>1. NodeSize[height] \in Nat \ {0} /\ buf.arena.ptr \in Nat
    BY <1>2, NodeSizeType DEF BumpInv, Bump
  <2>2. BumpInv(node.arena, (allocated \cup {buf.place}) \cup {node.place})
    BY <1>2, <1>4, <2>1, AllocateBumps
  <2>3. (allocated \cup {buf.place}) \cup {node.place} = allocated \cup {buf.place, node.place}
    OBVIOUS
  <2>4. node.place.from % align = 0
    BY <1>4, <2>1, AlignedPlace
  <2>5. QED BY <1>4, <2>2, <2>3, <2>4 DEF BufferInv, NodesAligned
<1>5. QED BY <1>1, <1>3, <1>4 DEF Add

(* The invariant holds in every reachable state.                           *)
LEMMA BufferInvariant == BufferSpec => []BufferInv
<1>1. Init => BufferInv
  <2> SUFFICES ASSUME Init PROVE BufferInv
    OBVIOUS
  <2>1. BumpInv(NewMemory, {}) /\ NewMemory.ptr \in Nat
    BY DEF NewMemory, Arena, BumpInv, Bump, Apart
  <2>2. PICK head : head = AllocateAligned(NewMemory, NodeSize[kMaxHeight])
    OBVIOUS
  <2>3. NodeSize[kMaxHeight] \in Nat \ {0}
    BY NodeSizeType
  <2>4. BumpInv(head.arena, {} \cup {head.place})
    BY <2>1, <2>2, <2>3, AllocateBumps
  <2>5. head.place.from % align = 0
    BY <2>1, <2>2, AlignedPlace
  <2>6. {} \cup {head.place} = {head.place}
    OBVIOUS
  <2>7. QED BY <2>2, <2>4, <2>5, <2>6 DEF Init, BufferInv, NodesAligned
<1>2. BufferInv /\ [Next]_bufferVars => BufferInv'
  <2> SUFFICES ASSUME BufferInv, [Next]_bufferVars PROVE BufferInv'
    OBVIOUS
  <2>1. CASE UNCHANGED <<arena, allocated, nodes>>
    BY <2>1 DEF BufferInv, NodesAligned
  <2>2. FlushBuffer \/ UNCHANGED bufferVars => UNCHANGED <<arena, allocated, nodes>>
    BY DEF FlushBuffer, bufferVars
  <2>3. QED BY <2>1, <2>2, AddInv DEF Next
<1>3. QED BY <1>1, <1>2, PTL DEF BufferSpec

(* Whatever entries are added and however high their nodes are, the        *)
(* entries and nodes of a buffer never share a byte of its arena.          *)
THEOREM BufferPlacesDisjoint == BufferSpec => []PlacesDisjoint
<1>1. BufferInv => PlacesDisjoint
  BY DEF BufferInv, BumpInv, Bump, Apart, PlacesDisjoint, PlaceType
<1>2. QED BY <1>1, BufferInvariant, PTL

(* Every node of the skip list starts on a pointer boundary, whatever the  *)
(* sizes of the entries between them: the assert of AllocateAligned.       *)
THEOREM NodesStayAligned == BufferSpec => []NodesAligned
<1>1. BufferInv => NodesAligned
  BY DEF BufferInv
<1>2. QED BY <1>1, BufferInvariant, PTL
=============================================================================
