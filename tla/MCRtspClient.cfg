SPECIFICATION FairClientSpec
CONSTANTS
  Servers <- MCServers
  Habits = {"late_frame"}
  MaxConnects = 2
  MaxCalls = 6
  MaxPlays = 2
  MaxStreamed = 2
  MaxMishaps = 1
INVARIANTS
  StreamInStep
  OwnAnswer
  TracksAsAgreed
  RightCredentialsServe
PROPERTIES
  CallsReturn
CHECK_DEADLOCK FALSE
