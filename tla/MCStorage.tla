----------------------------- MODULE MCStorage -----------------------------
(* Instances of Storage for TLC.                                            *)
EXTENDS Storage, TLC

StorageSymmetry == Permutations(Versions)
=============================================================================
