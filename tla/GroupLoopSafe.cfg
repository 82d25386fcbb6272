SPECIFICATION LoopSpec
CONSTANTS
  g1 = g1  c1 = c1
  NoRun = NoRun  NoLease = NoLease
  Run <- OneGroup
  GroupRun <- OneGroup
  Group = g1
  Checker = {c1}
  MaxRepairs <- NoRepair
  MaxAssignments <- TwoLeases
  MaxInitial = 0
  LeaseTicks = 1
  MaxRejections = 0
  Job = {1, 2, 3, 4, 5, 6, 7}
  Lease = {1, 2, 3, 4, 5, 6, 7, 8}
  MaxWork = 14
  ModelCosts <- MixedModels
INVARIANTS ReasonExplains WorkAccounted TasksSettled CallsInformed
CHECK_DEADLOCK FALSE
