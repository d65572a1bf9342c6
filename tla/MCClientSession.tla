-------------------------- MODULE MCClientSession ---------------------------
(* TLC instances of ClientSession.                                         *)
EXTENDS ClientSession, TLC
=============================================================================
