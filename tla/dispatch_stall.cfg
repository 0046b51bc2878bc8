SPECIFICATION Spec
CONSTANTS
  r1 = r1
  w1 = w1
  w2 = w2
  NULL = NULL
  Run = {r1}
  Worker = {w1, w2}
  Api = {"post_message", "cancel", "slack", "decide"}
  MaxSteps = 1
  MaxFaults = 0
  MaxStalls = 1
  MaxRequests = 1
  MaxQueue = 1
SYMMETRY WorkerSymmetry
INVARIANTS TypeOK OneDriver CancelIsNotOverrun CurrentVersionIsCurrentRow
PROPERTIES FollowsLifecycle StepsAdvanceInOrder
CHECK_DEADLOCK FALSE
