----------------------------- MODULE MCReadPath -----------------------------
(* ReadPath for TLC: the key asked for is put, then others are, around it  *)
(* or beside it, so that compaction merges or moves files, and then it is  *)
(* deleted.                                                                *)
EXTENDS ReadPath

CONSTANTS g1, v1, v2, tomb

MCGetters == {g1}
MCThreads == MCGetters \cup {flusher, compactor}
MCKey == 1 .. 3
MCFlushPlan ==
    <<{[EmptyBuffer EXCEPT ![2] = v1]},
      {[EmptyBuffer EXCEPT ![1] = v2, ![3] = v2], [EmptyBuffer EXCEPT ![3] = v2]},
      {[EmptyBuffer EXCEPT ![2] = tomb]}>>
MCFlushData == UNION Range(MCFlushPlan)
=============================================================================
