SPECIFICATION MCSpec
CONSTANTS
  Root = 0
  Aux = {1, 2}
  Uses <- Lemmas12
  Limits <- LimitsUsed
  MaxDepth = 4
  Costs <- RoleCosts
  Priority = {0, 1}
  MaxReviews = 2
  MaxProposals = 2
  MaxArtifacts = 2
  MaxHiccups = 2
INVARIANTS CorrectedOnce StrategiesBounded TailKept InformedChoice GivesUpTruthfully TargetTried
PROPERTIES FrontierEnds
CHECK_DEADLOCK FALSE
