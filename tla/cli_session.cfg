SPECIFICATION Spec
CONSTANTS
  NULL = NULL
  Inputs <- Tasks
  Modes = {"ask", "auto"}
  Answers <- SessionAnswers
  MaxMessages = 5
  Threshold = 9
  Target = 6
  ContextWindow = 10
  MaxSteps = 3
  MaxFinalRepairs = 1
  MaxArgRepairs = 1
  MaxFailures = 2
  MaxParallel = 2
  MaxEffort = 4
  MaxUntold = 2
INVARIANTS
  TypeOK
  RequestsWellFormed
  DeliveredOnEvidence
  DeliveredQuiet
  CacheIsFresh
CHECK_DEADLOCK FALSE
