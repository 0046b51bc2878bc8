SPECIFICATION Spec
CONSTANTS
  Engine = {e1, e2}
  Approver = {a1}
  NULL = NULL
  Plans <- OverlapPlans
  MaxSteps = 2
  MaxCalls = 4
  MaxRepairs = 1
  MaxFaults = 1
  MaxZombies = 1
  MaxResumes = 1
SYMMETRY EngineSymmetry
INVARIANTS
  ApprovedBeforeEffect
  AtMostOnce
  RowsMatchPlan
CHECK_DEADLOCK FALSE
