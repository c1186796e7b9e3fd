CONSTANTS
  Requests = {r1, r2}
  Conns = {c1, c2}
  Rows = {k1}
  Kinds = {"read", "list", "update", "delete"}
  Faults = TRUE
  NoConn = NoConn
  NoReq = NoReq
SPECIFICATION FairSpec
INVARIANTS PoolHygiene RunsAsCaller ErrorLeavesNoTrace AnnouncedOnce OnlyNestingBlocks
PROPERTY RequestsComplete
