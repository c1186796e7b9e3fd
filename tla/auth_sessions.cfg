CONSTANTS
  Calls = {c1, c2, c3, c4}
  Emails = {e1}
  Identities = {i1}
  Kinds = {"register", "create", "login", "refresh", "logout", "forgot", "reset", "resend", "verify", "redirect", "oauth"}
  Faults = {"checked", "dropped", "crash"}
  MaxFaults = 2
  MaxLapses = 1
  None = None
SPECIFICATION Spec
SYMMETRY Symmetry
INVARIANTS UsedTokensRefused TokensLostToRacesOnly OldPasswordsKeepNoSession ClearedIsGone StateUsedOnce
PROPERTIES IsTokenLedger IdentityKeepsAccount MailProvesOwnership
CHECK_DEADLOCK FALSE
