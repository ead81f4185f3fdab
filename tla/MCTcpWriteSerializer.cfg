SPECIFICATION FairSpec
CONSTANTS
    video = video
    audio = audio
    Garbage = Garbage
    Producers <- Transports
    MaxQueueSize = 3
    MaxBatch = 2
    MaxSubmits = 2
INVARIANTS
  IInv
PROPERTIES
  ImplementsChannel
  AcceptedIsSent
CHECK_DEADLOCK FALSE
