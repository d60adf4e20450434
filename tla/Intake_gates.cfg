SPECIFICATION Spec
CONSTANTS
  c1 = c1
  c2 = c2
  Calls <- TwoCalls
  Targets <- MCTargets
  TargetKind <- MCTargetKind
  TargetTrack <- MCTargetTrack
  Hypothesis <- MCHypothesis
  Agents = {"researcher", "reviewer"}
  AutoReviewer = "auto-reviewer"
  Axes = {"axes"}
  AxesOf <- MCAxesOf
  Keys = {"k1", "k2", "k3"}
  NoKey = "-"
  Intents <- AllIntents
  GraduationFails <- MCGraduationFails
  ClientTimesOut = FALSE
  Durable = TRUE
  MaxCalls = 4
  MaxCrashes = 1
SYMMETRY Symmetric
INVARIANTS
  TypeOK
  AnsweredStaysAnswered
  ReviewsAreSound
  GatesHold
CHECK_DEADLOCK FALSE
