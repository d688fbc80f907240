SPECIFICATION Spec
CONSTANTS
  Clients = {c1, c2}
  Asks = {r1}
  None = None
  MaxTurns = 2
  MaxCalls = 3
  Capacity = 2
INVARIANTS TypeOK EachRequestInOnePlace TurnIdIsCurrent
SYMMETRY Symmetry
CHECK_DEADLOCK FALSE
