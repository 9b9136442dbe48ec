\* Two creations or imports at once over each of the tables, with numbers of one
\* binary digit padded to two.
SPECIFICATION Spec
CONSTANTS
  Tables <- AllTables
  Calls = {c1, c2}
  Base = 2
  Limit = 4
  First = 2
  Lot = 3
  MaxRef = 5
SYMMETRY Symmetry
INVARIANTS TypeOK RefsAreDense NextRefFree CreationSucceeds
