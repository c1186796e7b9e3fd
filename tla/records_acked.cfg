CONSTANTS
  Requests = {r1}
  Conns = {c1}
  Rows = {k1}
  Kinds = {"create", "update", "delete"}
  Faults = FALSE
  NoConn = NoConn
  NoReq = NoReq
SPECIFICATION Spec
INVARIANT AcknowledgedWritesCommit
