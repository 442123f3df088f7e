SPECIFICATION SysSpec
CONSTANTS
  p1 = p1
  p2 = p2
  ann = ann
  Clients = {p1, p2}
  Conns = {1, 2}
  NoClient = NoClient
  Names = {ann}
  NoName = NoName
  Texts = {ann}
  NoText = NoName
  Topics = {}
  Calls <- SetUserName
  MaxFrames = 3
  MaxSilent = 0
  MaxFds = 3
  MaxLines = 3
  MaxResets = 1
INVARIANTS
  SysTypeOK
  NothingStale
  DialoguesConserved
PROPERTIES
  Served
CHECK_DEADLOCK FALSE
