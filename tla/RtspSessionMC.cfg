CONSTANTS
  FragmentSize = 3
  SeqNumbers = 8
  NoNalu = none
  Files <- SmallFiles
  Period = 2
  Delay = 0
  Frame = 1
  MaxStreams = 2
  MaxPlays = 2
  MaxTime = 5
SPECIFICATION RtspSpec
INVARIANTS
  ArrivesWhole
  ConfigBeforeKeyFrame
  Paced
PROPERTIES
  TimersEnd
CHECK_DEADLOCK FALSE
