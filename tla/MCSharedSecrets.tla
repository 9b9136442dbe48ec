--------------------------- MODULE MCSharedSecrets ---------------------------
(* SharedSecrets for TLC: interchangeable requests, users and passphrases. *)
EXTENDS SharedSecrets, TLC

Symmetry ==
  Permutations(Views) \cup Permutations(Secrets) \cup Permutations(Phrases) \cup Permutations(Users)
=============================================================================
