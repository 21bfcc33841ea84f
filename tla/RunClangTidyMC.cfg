CONSTANTS
  a = a
  b = b
  c = c
  w1 = w1
  w2 = w2
  Database <- Entries
  max_task = 2
  Workers = {w1, w2}
  Results <- AtMostOneRaises
  Selections <- AllButOneOrNone
  Skipped = {c}
  Depth = 1
SPECIFICATION Spec
INVARIANT VerdictIsComplete
PROPERTY RunEnds
CHECK_DEADLOCK FALSE
