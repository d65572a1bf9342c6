---------------------------- MODULE MCSyncEngine ----------------------------
(* TLC instances of SyncEngine.                                            *)
EXTENDS SyncEngine, TLC

Symmetry == Permutations(Workers) \cup Permutations(Shas)
=============================================================================
