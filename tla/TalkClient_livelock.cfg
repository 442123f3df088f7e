SPECIFICATION FairSpec
CONSTANTS
  MaxCrashes = 1
  MaxLines = 1
  MaxShips = 0
  MaxRefusals = 0
  MaxMoves = 0
  MaxEvents = 2
  MaxReads = 4
  Texts = {text}
  NoText = NoText
PROPERTIES
  Reconnects
CHECK_DEADLOCK FALSE
