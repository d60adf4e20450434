SPECIFICATION Spec
CONSTANTS
  q1 = q1
  q2 = q2
  t1 = t1
  t2 = t2
  n1 = n1
  n2 = n2
  Null = Null
  Rows <- TwoRows
  Ticks <- TwoTicks
  Fences <- TwoFences
  Priority <- MCPriority
  LoopTrack <- DualTrack
  RowTrack <- DualRowTrack
  Universe <- MCUniverse
  Sampler <- MCSampler
  Cells <- MCCells
  IterBudget <- MCBudget
  EarlyStop <- MCEarly
  Outcomes <- VerdictPairs
  MaxFaults = 0
  SlowTicks = FALSE
  LateCancel = FALSE
INVARIANT
  TrialsCounted
