SPECIFICATION FairSpec
CONSTANTS
  q1 = q1
  q2 = q2
  t1 = t1
  t2 = t2
  n1 = n1
  n2 = n2
  Null = Null
  Rows <- TwoRows
  Ticks <- OneTick
  Fences <- OneFence
  Priority <- LivePriority
  LoopTrack <- LiveTrack
  RowTrack <- LiveRowTrack
  Universe <- MCUniverse
  Sampler <- LiveSampler
  Cells <- LiveCells
  IterBudget <- LiveBudget
  EarlyStop <- LiveEarly
  Outcomes <- LiveOutcomes
  MaxFaults = 1
  SlowTicks = FALSE
  LateCancel = FALSE
INVARIANTS
  RunsAreRecoverable
PROPERTIES
  EverySweepConcludes
