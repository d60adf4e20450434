SPECIFICATION FairSpec
CONSTANTS
  r1 = r1
  r2 = r2
  a1 = a1
  Runs <- TwoRuns
  Agents <- OneAgent
  Owner <- MCOwner
  Sequential <- OneAgent
  DailyCap = 1
  MaxFaults = 1
PROPERTY
  PendingSettles
CHECK_DEADLOCK FALSE
