CONSTANTS
  Procs = {p1, p2, p3}
  System = 2
  User = 2
  None = None
SPECIFICATION Spec
SYMMETRY Symmetry
INVARIANTS OnceWithRecord SuccessMeansApplied
PROPERTIES AppliedInOrder
