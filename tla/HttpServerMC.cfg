CONSTANTS
  Requests <- MCRequests
  MaxRequests = 3
SPECIFICATION HttpSpec
INVARIANTS
  ReadsRight
  NothingCarriedOver
CHECK_DEADLOCK FALSE
