CONSTANTS
  Calls = {c1, c2, c3}
  Names = {n1}
  Backends = {"local", "s3"}
  Disciplines = {TRUE, FALSE}
  Faults = {"put", "statement", "remove"}
  MaxChunks = 2
  MaxCrashes = 1
  Old = Old
  None = None
SPECIFICATION Spec
SYMMETRY Symmetry
INVARIANTS NoOrphanFiles SerialAgree ReadYourWrites
CHECK_DEADLOCK FALSE
