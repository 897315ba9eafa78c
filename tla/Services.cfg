SPECIFICATION ServicesSpec
CONSTANTS
  w1 = w1
  w2 = w2
  w3 = w3
  t1 = t1
  t2 = t2
  t3 = t3
  x = x
  y = y
  None = None
  Writers = {w1, w2}
  Traces = {t1, t2, t3}
  Clauses = {x, y}
  ClauseOf <- SharedClause
  Canaries = {}
  MaxCrashes = 1
  a1 = a1
  a2 = a2
  Answers = {a1, a2}
  ProbeCount = 1
  WarmupCount = 2
  Neighbors = 1
  Window = 4
  Threshold = 85
  MaxRounds = 3
  MaxTasks = 1
  MaxStarts = 2
INVARIANTS EveryClauseIsNoted
PROPERTIES AppendsOnce EveryCallReturns InjectedStaysInjected AlertsAreEvidenced MonitorEnds
CHECK_DEADLOCK FALSE
