------------------------------ MODULE MCOAuth ------------------------------
(* Instances of OAuth for TLC.  Tokens, codes and challenges are chosen at  *)
(* random by the server or freely by the client and only compared.          *)
EXTENDS OAuth, TLC

TokenSymmetry == Permutations(Tokens)
LoginSymmetry == TokenSymmetry \cup Permutations(Codes) \cup Permutations(Challenges)
=============================================================================
