SPECIFICATION FairOwnerSpec
CONSTANTS
  None = None
  Channels = {"c1"}
  HourLength = 2
  HoursPerDay = 2
  DaysPerWeek = 1
  Callbacks = {"second", "hour"}
  Interval <- MCInterval
  StopTimeout = 2
  MaxLoops = 2
  Files <- MCFiles
  Wishes <- MCWishes
  Jumps <- MCJumps
  MaxChanges = 3
  MaxSlow = 1
  Window = 3
INVARIANTS
  ScheduleFollowed
  PictureCatchesUp
  StoppedIsQuiet
PROPERTY StopReturns
CHECK_DEADLOCK FALSE
