CONSTANTS
  Sessions = {s1}
  Publishers = {p1, p2}
  Tables = {t1}
  Actions = {"update"}
  Buffer = 2
  MaxEvents = 2
  MaxCloses = 1
  NoSession = NoSession
SPECIFICATION FairSpec
PROPERTIES IsLossyFeed NobodyWaits
CHECK_DEADLOCK FALSE
