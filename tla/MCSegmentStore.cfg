SPECIFICATION Spec
CONSTANTS
  Blocks <- MCBlocks
  NoFile = NoFile
  SecondLength = 2
  LastSequence = 2
  MaxDuration = 3
  MaxSize = 4
  SyncBlocks = 2
  SyncLevels = {"full"}
  Faults = {"write_fails", "sync_fails", "crash", "power_loss", "clock_back"}
  MaxFaults = 2
  MaxLoss = 2
  MaxCalls = 3
INVARIANTS
  BlocksSurvive
  LossBounded
  FooterTellsTruth
  SeekFindsNearest
CHECK_DEADLOCK FALSE
