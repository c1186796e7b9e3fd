CONSTANTS
  Calls = {c1, c2}
  Names = {n1}
  Backends = {"local"}
  Disciplines = {TRUE}
  Faults = {"statement"}
  MaxChunks = 1
  MaxCrashes = 0
  Old = Old
  None = None
SPECIFICATION Spec
SYMMETRY Symmetry
INVARIANTS RowsHaveFiles
CHECK_DEADLOCK FALSE
