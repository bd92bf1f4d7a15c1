----------------------------- MODULE MCLending -----------------------------
(* Instances of Lending for TLC.  Programs and controls are only compared.  *)
EXTENDS Lending, TLC

LendingSymmetry == Permutations(Programs) \cup Permutations(Controls)
=============================================================================
