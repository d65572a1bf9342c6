---------------------------- MODULE MCBlobStore ----------------------------
(* TLC instances of BlobStore.                                             *)
EXTENDS BlobStore, TLC

Symmetry == Permutations(Workers) \cup Permutations(Shas)
=============================================================================
