SPECIFICATION FairSpec
CONSTANTS
  r1 = r1
  w1 = w1
  NULL = NULL
  Run = {r1}
  Worker = {w1}
  Api = {"cancel"}
  MaxSteps = 1
  MaxFaults = 0
  MaxStalls = 0
  MaxRequests = 1
  MaxQueue = 1
PROPERTIES CancelTakesEffect
CHECK_DEADLOCK FALSE
