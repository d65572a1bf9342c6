---------------------------- MODULE MCPairAdmin -----------------------------
(* TLC instances of PairAdmin.                                             *)
EXTENDS PairAdmin, TLC

Connections(a, b) == [s \in Sides |-> IF s = "a" THEN a ELSE b]

InTurn == [overlap |-> "none", failures |-> FALSE, connections |-> Connections(2, 1)]
Publishing == [overlap |-> "publish", failures |-> TRUE, connections |-> Connections(1, 0)]

PairEnvironments == {InTurn, Publishing}

Symmetry == Permutations(Admins)
=============================================================================
