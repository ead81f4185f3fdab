SPECIFICATION RecordingSpec
CONSTANTS
  Blocks <- MCNoBlocks
  NoFile = NoFile
  SecondLength = 2
  LastSequence = 3
  MaxDuration = 4
  MaxSize = 7
  SyncBlocks = 1
  SyncLevels = {"none"}
  Faults = {"crash", "clock_back"}
  MaxFaults = 1
  MaxLoss = 0
  MaxCalls = 4
  Kinds <- MCKinds
  Steps <- MCSteps
  MaxEntries = 3
  BlockDuration = 3
  BlockBytes = 4
  BlockCount = 3
  RejectPast = TRUE
  SeekTimes = {1, 2}
  MaxOpens = 1
  MaxSeeks = 1
INVARIANTS
  BlocksAreSound
  ReaderMissesNothing
CHECK_DEADLOCK FALSE
