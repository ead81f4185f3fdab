SPECIFICATION Spec
CONSTANTS
    rtsp = rtsp
    recorder = recorder
    NoSink = NoSink
    Sinks <- AllSinks
    MaxOpens = 1
    MaxFrames = 1
SYMMETRY AllSymmetry
INVARIANTS
  PointersAlive
CHECK_DEADLOCK FALSE
