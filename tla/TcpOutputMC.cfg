CONSTANTS
  SendQueue = 3
  LowMark = 2
  MaxSend = 4
  MaxBytes = 8
SPECIFICATION Spec
INVARIANTS
  InOrder
  NoStall
PROPERTY Delivered
CHECK_DEADLOCK FALSE
