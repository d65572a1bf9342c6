------------------------------- MODULE MCHub -------------------------------
(* TLC instances of Hub.                                                   *)
EXTENDS Hub, TLC

Symmetry == Permutations(Conns) \cup Permutations(Requests)
=============================================================================
