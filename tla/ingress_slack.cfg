SPECIFICATION Spec
CONSTANTS
  s1 = s1
  s2 = s2
  q1 = q1
  d1 = d1
  d2 = d2
  q2 = q2
  j1 = j1
  t1 = t1
  NULL = NULL
  Sched = {}
  Request = {q1, q2}
  Delivery = {d1, d2}
  Job = {}
  Event <- MCEvent
  KindOf <- MCKindOf
  ThreadOf <- MCThreadOf
  MaxActive = 1
  MaxRuns = 3
  MaxTime = 0
  MaxMoves = 2
  MaxPatches = 0
  MaxLapses = 0
  MaxServed = 2
  MaxFaults = 1
SYMMETRY Symmetric
INVARIANTS QuotaOvershootIsBounded EventHandledOnce ThreadHasOneRun
CHECK_DEADLOCK FALSE
