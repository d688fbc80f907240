SPECIFICATION FairSpec
CONSTANTS
  MaxTurns = 3
  MaxLines = 1
  Capacity = 1
INVARIANTS TypeOK OneTurnAtATime SlotFreeAtDone ConversationContinues CloseWaits
PROPERTY CancelAndCloseEnd
CHECK_DEADLOCK FALSE
