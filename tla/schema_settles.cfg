CONSTANTS
  Loaders = {l1, l2}
  MaxDDL = 2
  MaxLosses = 2
  MaxFails = 1
SPECIFICATION FairSpec
PROPERTIES NeverBackwards NotifiedChangesSettle AllPartsSettle
CHECK_DEADLOCK FALSE
