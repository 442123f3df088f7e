SPECIFICATION Spec
CONSTANTS
  c1 = c1
  c2 = c2
  c3 = c3
  Conns = {c1, c2}
  NoClient = NoClient
  ann = ann
  topic = topic
  Names = {ann}
  NoName = NoName
  Topics = {topic}
  Calls <- Mixed
  MaxFrames = 3
  MaxSilent = 0
  MaxFds = 3
SYMMETRY ConnsSymmetry
INVARIANTS
  WriteMatchesQueue
  StreamIntegrity
  AnswersInOrder
PROPERTIES
  GoneIsFinal
CHECK_DEADLOCK FALSE
