\* Every page, two rows, two handlers at once, three presses, errors or writes of somebody else. Quiet in the end.
SPECIFICATION Spec
CONSTANTS
  Ids = {i1, i2}
  Calls = {c1, c2}
  None = None
  MaxEvents = 3
SYMMETRY Symmetry
INVARIANTS ListIsServer PanelIsRow DecidesOnTruth NoLockLeft
CHECK_DEADLOCK FALSE
