---------------------------- MODULE MCThreatModels ----------------------------
EXTENDS ThreatModels, TLC

\* the one context of a flow
MCContexts == {
  [isEncrypted |-> FALSE, crossesTrustBoundary |-> FALSE, dataClassification |-> "INTERNAL",
   protocol |-> "HTTP"]}

Symmetry == Permutations(Components) \cup Permutations(Calls)
=============================================================================
