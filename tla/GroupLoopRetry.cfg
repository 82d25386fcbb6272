SPECIFICATION LoopSpec
CONSTANTS
  g1 = g1  c1 = c1
  NoRun = NoRun  NoLease = NoLease
  Run <- OneGroup
  GroupRun <- OneGroup
  Group = g1
  Checker = {c1}
  MaxRepairs <- NoRepair
  MaxAssignments <- TwoLeases
  MaxInitial = 0
  LeaseTicks = 1
  MaxRejections = 0
  Job = {1, 2, 3, 4, 5, 6}
  Lease = {1, 2, 3, 4, 5, 6}
  MaxWork = 12
  ModelCosts <- CheapModels
INVARIANTS RetriedAnswerRead
CHECK_DEADLOCK FALSE
