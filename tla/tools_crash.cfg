SPECIFICATION Spec
CONSTANTS
  Engine = {e1}
  Approver = {}
  NULL = NULL
  Plans <- AllPlans
  MaxSteps = 3
  MaxCalls = 4
  MaxRepairs = 1
  MaxFaults = 2
  MaxZombies = 0
  MaxResumes = 1
INVARIANTS
  TypeOK
  BudgetIsExact
  CompletedOnEvidence
  RepeatedWriteIsStopped
PROPERTIES
  SucceededIsFinal
CHECK_DEADLOCK FALSE
