SPECIFICATION Spec
CONSTANTS
  MaxTurns = 2
  MaxLines = 1
  Capacity = 1
INVARIANT PlainSendIsSafe
CHECK_DEADLOCK FALSE
