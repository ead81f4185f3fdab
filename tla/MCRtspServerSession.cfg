SPECIFICATION FairSpec
CONSTANTS
    live = live
    archive = archive
    NoMedia = NoMedia
    Media <- TwoMedia
    TrackCount <- TwoTrackCount
    Channels = 256
    MaxRequests = 4
    MaxBatch = 2
    Habits = {"other path", "setup again", "reuse", "malformed"}
INVARIANTS
  NothingElseRegistered
PROPERTIES
  SessionEnds
  IsSessionLife
CHECK_DEADLOCK FALSE
