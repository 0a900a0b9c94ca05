------------------------------- MODULE Memory -------------------------------
(***************************************************************************)
(* The arena of structure/memory.cpp, from which a buffer takes the memory *)
(* of its entries and of its skip-list nodes.                              *)
(*                                                                         *)
(* An address is a block and an offset in it: operator new[] returns fresh *)
(* memory that is aligned for every type, so offsets decide alignment.     *)
(***************************************************************************)
EXTENDS Integers, Sequences

CONSTANTS
    kBlockSize,    \* 4096
    align          \* sizeof(void*)

ASSUME MemoryAssumption == kBlockSize \in Nat /\ align \in Nat \ {0}

VARIABLES
    arena,       \* the fields of Memory
    allocated    \* observed: the places returned so far

(* blocks: the sizes of blocks_; block and ptr: alloc_ptr_, with block 0   *)
(* for nullptr; remaining: alloc_bytes_remaining_.                         *)
Arena(blocks, block, ptr, remaining) ==
    [blocks |-> blocks, block |-> block, ptr |-> ptr, remaining |-> remaining]

NewMemory == Arena(<<>>, 0, 0, 0)

Place(block, from, size) == [block |-> block, from |-> from, size |-> size]

AllocateNewBlock(a, bytes) == Append(a.blocks, bytes)

\* Faulty variant: a large block becomes the current one.
AllocateFallbackAlwaysCurrent(a, bytes) ==
    LET block == Len(a.blocks) + 1
        size == IF bytes > kBlockSize \div 4 THEN bytes ELSE kBlockSize
    IN [arena |-> Arena(AllocateNewBlock(a, size), block, bytes, kBlockSize - bytes),
        place |-> Place(block, 0, bytes)]

AllocateFallback(a, bytes) ==
    LET block == Len(a.blocks) + 1
    IN [arena |-> IF bytes > kBlockSize \div 4
                    THEN Arena(AllocateNewBlock(a, bytes), a.block, a.ptr, a.remaining)
                    ELSE Arena(AllocateNewBlock(a, kBlockSize), block, bytes, kBlockSize - bytes),
        place |-> Place(block, 0, bytes)]

(* Take bytes of the current block, slop bytes further on, or fall back.   *)
Take(a, slop, bytes) ==
    IF slop + bytes <= a.remaining
      THEN [arena |-> Arena(a.blocks, a.block, a.ptr + slop + bytes, a.remaining - (slop + bytes)),
            place |-> Place(a.block, a.ptr + slop, bytes)]
      ELSE AllocateFallback(a, bytes)

Allocate(a, bytes) == Take(a, 0, bytes)

\* Faulty variant: the distance from the last boundary is skipped, not the
\* distance to the next one.
SlopBack(a) == a.ptr % align

Slop(a) == IF a.ptr % align = 0 THEN 0 ELSE align - (a.ptr % align)

AllocateAligned(a, bytes) == Take(a, Slop(a), bytes)

-----------------------------------------------------------------------------
ArenaInit == arena = NewMemory /\ allocated = {}

Returns(r) ==
    /\ arena' = r.arena
    /\ allocated' = allocated \cup {r.place}

ArenaNext ==
    \E bytes \in Nat \ {0} : Returns(Allocate(arena, bytes)) \/ Returns(AllocateAligned(arena, bytes))

ArenaSpec == ArenaInit /\ [][ArenaNext]_<<arena, allocated>>

-----------------------------------------------------------------------------
Overlap(p, q) ==
    p.block = q.block /\ p.from < q.from + q.size /\ q.from < p.from + p.size

(* Every place handed out lies inside a block that was allocated, and no   *)
(* two overlap: an entry or a node is never written over by a later one,   *)
(* whichever of the three ways of allocating they came from.               *)
PlacesDisjoint ==
    /\ \A p \in allocated :
         p.block \in 1 .. Len(arena.blocks) /\ p.from >= 0 /\ p.from + p.size <= arena.blocks[p.block]
    /\ \A p, q \in allocated : p # q => ~Overlap(p, q)
=============================================================================
