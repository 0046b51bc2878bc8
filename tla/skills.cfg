SPECIFICATION Spec
CONSTANTS
  a1 = a1
  a2 = a2
  r1 = r1
  r2 = r2
  NULL = NULL
  Skill = {1}
  Admin = {a1, a2}
  Run = {r1}
  Terms <- MCTerms
  MaxVersion = 2
  MaxRequests = 7
  MaxCalls = 2
SYMMETRY Symmetric
INVARIANTS AppliedSkillWasReviewed NoVersionConflict UsageAgreesWithRun
PROPERTIES PublishedIsFrozen
CHECK_DEADLOCK FALSE
