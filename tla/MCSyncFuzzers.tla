--------------------------- MODULE MCSyncFuzzers ---------------------------
(***************************************************************************)
(* Instances of SyncFuzzers for TLC: a main node and a secondary, which    *)
(* starts with a seed of its own.                                          *)
(***************************************************************************)
EXTENDS SyncFuzzers

CONSTANTS m, s1, c0, c1, c2

MCSeeds == [f \in Fuzzers |-> IF f = s1 THEN c1 ELSE c0]
=============================================================================
