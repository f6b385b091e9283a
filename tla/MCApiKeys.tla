----------------------------- MODULE MCApiKeys -----------------------------
(* ApiKeys for TLC: keys, sessions and revokers are alike. *)
EXTENDS ApiKeys, TLC

Symmetry == Permutations(Keys) \cup Permutations(Sessions) \cup Permutations(Revokers)
=============================================================================
