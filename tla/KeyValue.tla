------------------------------ MODULE KeyValue ------------------------------
(* Keys, values and the maps from keys to values that buffers and data     *)
(* files are.                                                              *)
EXTENDS Integers, FiniteSets

CONSTANTS
    Key,       \* user keys: their order is all that is used of them
    Value,     \* user values
    Tomb,      \* Constant::TombValue, a value like any other
    NotFound   \* no entry for the key (status -1)

ASSUME DataAssumption ==
    /\ Key # {}
    /\ Tomb \in Value
    /\ NotFound \notin Value

Result == Value \cup {NotFound}

(* The newest entry for each key of a buffer or a file.                    *)
Buffer == [Key -> Result]
EmptyBuffer == [k \in Key |-> NotFound]
KeysOf(buffer) == {k \in Key : buffer[k] # NotFound}

(* Entries of the newer map hide those of the older one.                   *)
Over(newer, older) ==
    [k \in Key |-> IF newer[k] # NotFound THEN newer[k] ELSE older[k]]

(* What a compaction may turn view into: it drops tombstones, and so may   *)
(* uncover an entry written before.                                        *)
Forgetting(view, written) ==
    {v \in Buffer : \A k \in Key :
        \/ v[k] = view[k]
        \/ view[k] = Tomb /\ v[k] \in written[k] \cup {NotFound}}
=============================================================================
