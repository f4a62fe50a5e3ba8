SPECIFICATION ChildSpec
CONSTANTS
  Batches = 2
  Grace = 1
  FramesPerPoll = 1
  PipeCapacity = 2
  LastNow = 1
  ForeignFrames <- MCForeignFrames
  SystemFaults = {"crash", "steal", "read", "close"}
INVARIANTS
  RecordIsSound
PROPERTIES
  KillIsJustified
  StopEnds
CHECK_DEADLOCK FALSE
