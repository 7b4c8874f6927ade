----------------------------- MODULE MCNvRegion -----------------------------
(***************************************************************************)
(* Bounds for TLC.  SeqModulus exceeds MaxWrites, so no run wraps the      *)
(* sequence number (2^32 writes in the code).                              *)
(***************************************************************************)
EXTENDS NvRegion, TLC

Symmetry == Permutations(Records)
=============================================================================
