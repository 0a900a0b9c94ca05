---------------------------- MODULE AbstractStore ----------------------------
(***************************************************************************)
(* What a layer of the store promises: a map that changes when newer       *)
(* entries are laid over it, and that otherwise only ever forgets that a   *)
(* key was deleted.  StorageEngine implements it with data files, where    *)
(* one update is one flushed file; DataBase implements it with its buffers *)
(* and an engine, where one update is one Add.                             *)
(***************************************************************************)
EXTENDS KeyValue

VARIABLES
    view,      \* what a lookup of each key finds
    written,   \* every value ever written for each key
    updates    \* the number of updates so far: no other step is one

Init ==
    /\ view = EmptyBuffer
    /\ written = [k \in Key |-> {}]
    /\ updates = 0

Written(data) == [k \in Key |-> written[k] \cup ({data[k]} \ {NotFound})]

Update(data) ==
    /\ view' = Over(data, view)
    /\ written' = Written(data)
    /\ updates' = updates + 1

Forget ==
    /\ view' \in Forgetting(view, written)
    /\ UNCHANGED <<written, updates>>

Next == Forget \/ \E data \in Buffer : Update(data)

Spec == Init /\ [][Next]_<<view, written, updates>>
=============================================================================
