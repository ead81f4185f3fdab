SPECIFICATION Spec
CONSTANTS
    rtsp = rtsp
    recorder = recorder
    NoSink = NoSink
    Sinks <- AllSinks
    MaxOpens = 3
    MaxFrames = 2
SYMMETRY AllSymmetry
INVARIANTS
  FanOutComplete
  SinksFollow
CHECK_DEADLOCK FALSE
