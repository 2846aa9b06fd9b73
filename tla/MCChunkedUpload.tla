-------------------------- MODULE MCChunkedUpload --------------------------
(* Instances of ChunkedUpload for TLC.                                      *)
EXTENDS ChunkedUpload, TLC

Symmetry == Permutations(Clients)
=============================================================================
