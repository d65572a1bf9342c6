---------------------------- MODULE MCScheduler -----------------------------
(* TLC instance of Scheduler: two callers with the same key, a third of the*)
(* same client, and two of another client.                                 *)
EXTENDS Scheduler, TLC

CONSTANTS j1, j2, j3, j4, j5, k1, k2, k3, k4, a, b

CallersKeys == (j1 :> k1) @@ (j2 :> k1) @@ (j3 :> k2) @@ (j4 :> k3) @@ (j5 :> k4)
KeysClients == (k1 :> a) @@ (k2 :> a) @@ (k3 :> b) @@ (k4 :> b)
=============================================================================
