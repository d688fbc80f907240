SPECIFICATION Spec
CONSTANTS
  FreshTTL = 0
  FailureTTL = 2
  Clients = {c1, c2}
  Accounts = {1, 2}
  Members = {1, 2}
  CurrentAtStart = {2}
  Scopes = {"full", "console:read"}
  TaskClasses = {"code-review"}
  Capacity = 1
  Agents <- MCAgents
  FactsAtStart <- MCFactsAtStart
  Earlier <- MCEarlier
  Reports <- MCReports
  MaxNow = 2
  MaxSessions = 2
  MaxRequests = 2
  MaxWrites = 1
  Changing = {1}
  MaxReviewers = 2
INVARIANTS TypeOK ChoiceIsBest StraysAreNamed AnswersArrive
SYMMETRY Symmetry
CHECK_DEADLOCK FALSE
