SPECIFICATION ServerFairSpec
CONSTANTS
    c1 = c1
    c2 = c2
    c3 = c3
    Clients = {c1, c2, c3}
    MaxStarts = 2
    MaxErrors = 2
INVARIANTS
  StopEndsAll
PROPERTIES
  ClientsServed
CHECK_DEADLOCK FALSE
