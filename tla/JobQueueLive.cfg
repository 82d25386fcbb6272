SPECIFICATION FairSpec
CONSTANTS
  r1 = r1  g1 = g1  c1 = c1  c2 = c2
  NoRun = NoRun  NoLease = NoLease
  Run <- TwoRuns
  GroupRun <- Groups_1
  Job = {1, 2}
  Lease = {1, 2, 3}
  Checker = {c1}
  MaxRepairs <- OneRepair
  MaxAssignments <- OneLease
  MaxInitial = 1
  LeaseTicks = 2
  MaxRejections = 1
PROPERTIES EveryCandidateJudged RunsEnd
CHECK_DEADLOCK FALSE
