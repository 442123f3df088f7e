SPECIFICATION Spec
CONSTANTS
  c1 = c1
  c2 = c2
  c3 = c3
  Conns = {c1, c2}
  NoClient = NoClient
  ann = ann
  topic = topic
  Names = {ann}
  NoName = NoName
  Topics = {topic}
  Calls <- PostOnly
  MaxFrames = 1
  MaxSilent = 0
  MaxFds = 2
INVARIANTS
  NoStaleCurrentClient
CHECK_DEADLOCK FALSE
