SPECIFICATION BacklogSpec
CONSTANTS
  q1 = q1
  t1 = t1
  n1 = n1
  Null = Null
  Rows <- OneRow
  Ticks <- OneTick
  Fences <- OneFence
  Priority <- MCPriority
  LoopTrack <- MCLoopTrack
  RowTrack <- MCRowTrack
  Universe <- MCUniverse
  Sampler <- MCSampler
  Cells <- MCCells
  IterBudget <- MCBudget
  EarlyStop <- MCEarly
  Outcomes <- VerdictPairs
  MaxFaults = 0
  SlowTicks = FALSE
  LateCancel = FALSE
INVARIANT
  ValidatedLeavesBacklog
