SPECIFICATION Spec
CONSTANTS
  FreshTTL = 1
  FailureTTL = 1
  Accounts = {1, 2}
  Reports <- MCReports
  Starts <- MCStarts
  LiveBackend = "native"
  MaxFaults = 1
INVARIANTS TypeOK VerdictsAgree FailureIsExplained FourRoundsSuffice RunMeansReady
CHECK_DEADLOCK FALSE
