CONSTANTS
  Workers = {w1, w2}
  Callers = {p1, p2}
  Tasks = {t1, t2, t3}
  NoTask = none
SPECIFICATION Spec
INVARIANTS
  NoIdleWorker
  DestructorDrains
PROPERTIES
  Executes
  DestructorReturns
CHECK_DEADLOCK FALSE
