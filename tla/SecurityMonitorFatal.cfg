SPECIFICATION MonitorSpec
CONSTANTS
  a1 = a1
  a2 = a2
  Answers = {a1, a2}
  ProbeCount = 1
  WarmupCount = 2
  Neighbors = 1
  Window = 4
  Threshold = 85
  MaxRounds = 3
  MaxTasks = 1
  MaxStarts = 2
INVARIANTS ToleratesProbeFailures
CHECK_DEADLOCK FALSE
