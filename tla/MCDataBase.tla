----------------------------- MODULE MCDataBase -----------------------------
(* DataBase for TLC: writers, and the values other than the tombstone,      *)
(* are interchangeable.                                                    *)
EXTENDS DataBase, TLC

Symmetry == Permutations(Writers) \cup Permutations(Value \ {Tomb})
=============================================================================
