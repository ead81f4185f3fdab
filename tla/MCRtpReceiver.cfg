SPECIFICATION Spec
CONSTANTS
  MaxPayload = 9
  ExtSize = 0
  MismatchFrames = 2
  McuSize = 2
  Codecs = {"h264", "h265", "jpeg", "g711", "raw"}
  Shapes <- MCShapes
  CameraWrap <- MCCameraWrap
  MaxFrames = 3
  MaxFaults = 2
  MaxOnWay = 1
  SeqModulus = 16
  TsModulus = 400
  TsStep = 100
  FirstSeqs = {12}
  FirstTss = {100, 300}
  MismatchThreshold = 2
  MaxPoolSize = 2
  MaxHeld = 2
INVARIANTS
  LosslessIsExact
  WholeAfterLoss
  JpegUnmixed
  LossNotUnderstated
  HeldFramesStable
CHECK_DEADLOCK FALSE
