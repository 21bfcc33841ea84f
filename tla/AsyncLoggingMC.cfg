CONSTANTS
  BufferSize = 3
  Lens = {1, 2}
  FileMaximumSize = 4
  MaxMessages = 4
  Null = Null
SPECIFICATION Spec
INVARIANTS
  InOrder
  SparesSuffice
  StopWritesWhatItOwes
PROPERTIES
  EventuallyWritten
CHECK_DEADLOCK FALSE
