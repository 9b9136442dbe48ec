----------------------------- MODULE MCRegisters -----------------------------
(* Registers for TLC.                                                      *)
EXTENDS Registers, TLC

AllTables == Counted \cup Ordered
Symmetry == Permutations(Calls)
=============================================================================
