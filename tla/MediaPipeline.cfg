SPECIFICATION FairSpec
CONSTANTS
    Modes = {"live", "buffered", "playback"}
    BufferDuration = 2
    Speed = 1
    Jitter = 2
    MaxStarts = 1
    MaxFrames = 3
    MaxTime = 4
INVARIANTS
  Sorted
  MatureFrameHasFlush
  EofDeliversAll
PROPERTIES
  PlaybackProgress
CHECK_DEADLOCK FALSE
