CONSTANTS
  Tasks = {t1, t2, t3}
  Threads = {p1, p2}
  MainThread = p1
  thread_nums_ = 2
  Sub = 1
  Channels = {ch}
  Wakeup = wakeup
SPECIFICATION ThreadedSpec
INVARIANTS
  NoLostWakeup
  ReadFindsCounter
PROPERTIES
  Executes
  InputIsHandled
  PoolStarts
