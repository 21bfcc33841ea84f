CONSTANTS
  Bytes = {0, 1, 2}
  Zero = 0
  Messages <- MCMessages
  kPrePendIndex = 2
  kInitalSize = 5
  MaxSize = 8
SPECIFICATION BufferSpec
INVARIANTS
  IndexInv
  Represents
PROPERTY BoundedSlack
CHECK_DEADLOCK FALSE
