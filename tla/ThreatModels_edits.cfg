\* One flow, components of one rule each, three calls, two of them at once. Quiet in the end.
SPECIFICATION Spec
CONSTANTS
  Components = {k1, k2}
  Flows = {f1}
  Types = {"MONITORING"}
  Contexts <- MCContexts
  Scores = {1}
  Statuses = {"MITIGATED", "REVIEW"}
  Calls = {c1, c2}
  None = None
  MaxCalls = 3
SYMMETRY Symmetry
INVARIANTS ScoreIsProduct OneThreatPerRule GenerationComplete PageIsModel
PROPERTY UpdatesKeepOthers
CHECK_DEADLOCK FALSE
