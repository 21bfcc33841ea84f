CONSTANTS
  Timers = {t1, t2, t3}
  MaxDelay = 2
  MaxSteps = 1
SPECIFICATION Spec
INVARIANTS
  NoForgottenTimer
PROPERTIES
  TimersRun
CHECK_DEADLOCK FALSE
