SPECIFICATION Spec
CONSTANTS
  q1 = q1
  q2 = q2
  t1 = t1
  t2 = t2
  n1 = n1
  n2 = n2
  Null = Null
  Rows <- OneRow
  Ticks <- TwoTicks
  Fences <- TwoFences
  Priority <- MCPriority
  LoopTrack <- MCLoopTrack
  RowTrack <- MCRowTrack
  Universe <- MCUniverse
  Sampler <- MCSampler
  Cells <- MCCells
  IterBudget <- MCBudget
  EarlyStop <- MCEarly
  Outcomes <- SlowOutcomes
  MaxFaults = 2
  SlowTicks = TRUE
  LateCancel = TRUE
SYMMETRY Symmetric
CONSTRAINT
  FewRuns
PROPERTIES
  ClosedStaysClosed
  EvidenceMovesForward
