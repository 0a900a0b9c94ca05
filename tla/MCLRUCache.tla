----------------------------- MODULE MCLRUCache -----------------------------
(* LRUCache for TLC: tables that know each key or not, at the same offset. *)
EXTENDS LRUCache, TLC

MCTable == [Key -> {0, 1}]

Symmetry == Permutations(Node)
=============================================================================
