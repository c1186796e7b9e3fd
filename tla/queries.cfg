SPECIFICATION Spec
CONSTANTS
  Columns = {"a", "b", "c"}
  MaxInt = 32767
  Second = 10
  Hour = 6
  Week = 40
  Null = Null
  Pointers = {"numeric"}
  Stem <- MCStem
  MaxPieces = 4
  MaxLinks = 3
INVARIANTS
  AcceptsItsGrammar
  FilterKeepsItsMeaning
  PagesPartitionRows
  URLLivesAsAsked
  ExpandIsJoin
CHECK_DEADLOCK FALSE
