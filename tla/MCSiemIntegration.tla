------------------------- MODULE MCSiemIntegration -------------------------
(* Instances of SiemIntegration for TLC.                                   *)
EXTENDS SiemIntegration, TLC

\* one platform of each way to name and to remove a rule
SomePlatforms == {"SPLUNK", "SENTINEL", "ELASTIC", "CHRONICLE", "CUSTOM"}

Numbers(n) == 1..n
TwoNames == Numbers(2)

\* a call is only ever compared with itself
Symmetry == Permutations(Calls)
=============================================================================
