--------------------------- MODULE MC_SharedHandle ---------------------------
(* The owner's thread and two other threads, two ShareablePersistents.      *)
EXTENDS SharedHandle

CONSTANTS main, w1, w2, p1, p2

MCThreads == {main, w1, w2}
MCHandles == {p1, p2}

=============================================================================
