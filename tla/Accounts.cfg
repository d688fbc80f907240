SPECIFICATION Spec
CONSTANTS
  Accounts = {a1, a2}
  Slots = {s1, s2}
  None = None
  DaemonBackend = "file"
  Commands = {"import", "project", "remove", "quota", "current", "member", "migrate"}
  Requests = {"import", "project", "session", "remove", "quota", "current", "member"}
  MaxToken = 1
  MaxImported = 0
  MaxBegun = 3
INVARIANTS TypeOK OrphansAreRaced SettledAccountsAreWhole TokensHaveCredential ProjectionKeepsNewest CurrentWhenStored
SYMMETRY Symmetry
CHECK_DEADLOCK FALSE
