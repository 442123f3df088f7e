SPECIFICATION FairSpec
CONSTANTS
  c1 = c1
  c2 = c2
  c3 = c3
  Conns = {c1, c2, c3}
  NoClient = NoClient
  ann = ann
  topic = topic
  Names = {ann}
  NoName = NoName
  Topics = {topic}
  Calls <- PostOnly
  MaxFrames = 2
  MaxSilent = 1
  MaxFds = 2
PROPERTIES
  DeadClientsReaped
  EverythingDelivered
  EveryoneAccepted
CHECK_DEADLOCK FALSE
