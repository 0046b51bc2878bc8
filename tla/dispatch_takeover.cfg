SPECIFICATION FairSpec
CONSTANTS
  r1 = r1
  w1 = w1
  w2 = w2
  NULL = NULL
  Run = {r1}
  Worker = {w1, w2}
  Api = {}
  MaxSteps = 1
  MaxFaults = 1
  MaxStalls = 0
  MaxRequests = 0
  MaxQueue = 1
PROPERTIES AbandonedRunIsTakenOver
CHECK_DEADLOCK FALSE
