SPECIFICATION FairSpec
CONSTANTS
  MaxCrashes = 3
  MaxLines = 3
  MaxShips = 1
  MaxRefusals = 1
  MaxMoves = 1
  MaxEvents = 3
  MaxReads = 4
  Texts = {text}
  NoText = NoText
INVARIANTS
  TypeOK
  SingleAttempt
  AlwaysEngaged
  DialogueNotLost
  OrderlyWithoutCrash
PROPERTIES
  ReconnectsUndisturbed
  EverythingProcessed
CHECK_DEADLOCK FALSE
