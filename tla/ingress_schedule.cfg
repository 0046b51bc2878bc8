SPECIFICATION FairSpec
CONSTANTS
  s1 = s1
  s2 = s2
  q1 = q1
  d1 = d1
  d2 = d2
  q2 = q2
  j1 = j1
  t1 = t1
  NULL = NULL
  Sched = {s1, s2}
  Request = {q1}
  Delivery = {}
  Job = {j1}
  Event <- MCEvent
  KindOf <- MCKindOf
  ThreadOf <- MCThreadOf
  MaxActive = 1
  MaxRuns = 4
  MaxTime = 1
  MaxMoves = 2
  MaxPatches = 2
  MaxLapses = 1
  MaxServed = 0
  MaxFaults = 1
INVARIANTS TypeOK SlotFiresOncePerLeader StrandedOnlyByFault
PROPERTIES DueJobIsFired
CHECK_DEADLOCK FALSE
