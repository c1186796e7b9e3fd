SPECIFICATION FairSpec
CONSTANTS
  MaxRuns = 3
  Requests = {a}
  None = None
  Garbled = Garbled
INVARIANTS
  OrphansAreNamed
  LaunchIsFree
  OnlyLateSessionsUntold
PROPERTIES
  DatabaseOutlivesRequests
  RunsSettle
CHECK_DEADLOCK FALSE
