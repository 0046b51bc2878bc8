SPECIFICATION Spec
CONSTANTS
  e1 = e1
  e2 = e2
  NULL = NULL
  Engine = {e1, e2}
  Keep = 2
  MaxSteps = 5
  TokenBudget = 6
  MaxFaults = 1
  MaxOverlaps = 2
  MaxResumes = 1
  MaxPassed = 1
SYMMETRY Symmetric
INVARIANTS StepIsToldOnce RecentStaysVerbatim NoMissingRecord SpendingIsCharged
CHECK_DEADLOCK FALSE
