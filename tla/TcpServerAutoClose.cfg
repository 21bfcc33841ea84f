CONSTANTS
  Conns = {c1}
  Fds = {3, 4}
  NoConn = none
  MaxThreads = 1
  Setups <- ThreadsAndAutoClose
SPECIFICATION Spec
INVARIANT EraseFindsEntry
CHECK_DEADLOCK FALSE
