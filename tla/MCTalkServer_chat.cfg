SPECIFICATION Spec
CONSTANTS
  c1 = c1
  c2 = c2
  c3 = c3
  Conns = {c1, c2, c3}
  NoClient = NoClient
  ann = ann
  topic = topic
  Names = {ann}
  NoName = NoName
  Topics = {topic}
  Calls <- Chat
  MaxFrames = 2
  MaxSilent = 0
  MaxFds = 4
SYMMETRY ConnsSymmetry
INVARIANTS
  TypeOK
  ChainIffRegistered
  UniqueNames
  OneConversation
  NoEcho
  Attribution
PROPERTIES
  ImplementsRoom
CHECK_DEADLOCK FALSE
