CONSTANTS
  Sessions = {s1, s2}
  Publishers = {p1, p2}
  Tables = {t1, t2}
  Actions = {"update"}
  Buffer = 1
  MaxEvents = 1
  MaxCloses = 2
  NoSession = NoSession
SPECIFICATION Spec
SYMMETRY Symmetry
INVARIANTS NoPanic ClientsMatchChannels SlowClientsLoseAlone
CHECK_DEADLOCK FALSE
