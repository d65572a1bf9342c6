----------------------------- MODULE MCTransfer -----------------------------
(* TLC instances of Transfer.                                              *)
EXTENDS Transfer, TLC

CONSTANTS f1, f2, r1, r2, u1, hole

Commands == (f1 :> r1) @@ (f2 :> r2)
=============================================================================
