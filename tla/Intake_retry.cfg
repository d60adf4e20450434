SPECIFICATION Spec
CONSTANTS
  c1 = c1
  c2 = c2
  Calls <- TwoCalls
  Targets <- MCTargets
  TargetKind <- MCTargetKind
  TargetTrack <- MCTargetTrack
  Hypothesis <- MCHypothesis
  Agents = {"researcher", "reviewer"}
  AutoReviewer = "auto-reviewer"
  Axes = {"axes"}
  AxesOf <- MCAxesOf
  Keys = {"k1", "k2", "k3"}
  NoKey = "-"
  Intents <- AllIntents
  GraduationFails <- MCGraduationFails
  ClientTimesOut = TRUE
  Durable = TRUE
  MaxCalls = 4
  MaxCrashes = 0
SYMMETRY Symmetric
INVARIANT
  OneRowPerKey
CHECK_DEADLOCK FALSE
