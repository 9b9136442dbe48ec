---------------------------- MODULE MCConsolePages ----------------------------
EXTENDS ConsolePages, TLC

Symmetry == Permutations(Ids) \cup Permutations(Calls)
=============================================================================
