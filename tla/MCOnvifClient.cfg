SPECIFICATION OnvifFairSpec
CONSTANTS
  None = None
  Addrs <- MCAddrs
  Resources <- MCResources
  Camera <- MCCamera
  DevicePath <- MCDevicePath
  Cameras <- MCCameras
  Follow = TRUE
  MaxRedirects = 1
  MaxCalls = 5
  MaxOnvifCalls = 2
  MaxFaults = 1
INVARIANTS
  OwnAnswer
  RedirectReached
  CarriedOutOnce
  MainIsLargest
PROPERTIES
  CallsReturn
CHECK_DEADLOCK FALSE
