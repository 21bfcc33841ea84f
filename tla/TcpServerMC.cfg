CONSTANTS
  Conns = {c1, c2}
  Fds = {3, 4}
  NoConn = none
  MaxThreads = 1
  Setups <- EchoAndSingle
SPECIFICATION Spec
INVARIANTS
  EraseFindsEntry
  NoEntryOverwritten
  NoDanglingChannel
  NoStuckInput
PROPERTIES
  LivesOnce
  ClosedIsReclaimed
CHECK_DEADLOCK FALSE
