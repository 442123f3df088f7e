SPECIFICATION Spec
CONSTANTS
  t1 = t1
  t2 = t2
  Threads = {t1, t2}
  NoThread = NoThread
  Scripts <- MCScripts
INVARIANTS
  TypeOK
  CalledWithWhatWasMeant
  FrameConsumed
  ForwardedUnchanged
  NothingUnread
  FramesWhole
  CallsInOrder
CHECK_DEADLOCK FALSE
