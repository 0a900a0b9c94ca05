----------------------------- MODULE MCRecovery -----------------------------
(* Recovery for TLC: buffers that put both keys, put one of them or delete *)
(* the first, enough for leftovers of a compaction to overlap in level 1.  *)
EXTENDS Recovery

CONSTANTS v1, v2

MCKey == {1, 2}

MCFlushData ==
    {<<v1, v1>>, <<v2, NotFound>>, <<NotFound, v1>>, <<Tomb, NotFound>>}
=============================================================================
