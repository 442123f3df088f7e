SPECIFICATION FairSpec
CONSTANTS
  MaxCrashes = 0
  MaxLines = 0
  MaxShips = 0
  MaxRefusals = 0
  MaxMoves = 1
  MaxEvents = 1
  MaxReads = 4
  Texts = {text}
  NoText = NoText
PROPERTIES
  ConnectToConnects
CHECK_DEADLOCK FALSE
