--------------------------- MODULE MCMfaLifecycle ---------------------------
(* Instances of MfaLifecycle for TLC.                                      *)
EXTENDS MfaLifecycle, TLC

\* secrets and calls are interchangeable
Symmetry == Permutations(Secrets) \cup Permutations(Calls)

=============================================================================
