SPECIFICATION Spec
CONSTANTS
  r1 = r1  g1 = g1  c1 = c1  c2 = c2
  NoRun = NoRun  NoLease = NoLease
  Run <- OneRun
  GroupRun = {}
  Job = {1, 2, 3}
  Lease = {1, 2, 3, 4}
  Checker = {c1, c2}
  MaxRepairs <- Repair_1
  MaxAssignments <- Twice_1
  MaxInitial = 2
  LeaseTicks = 1
  MaxRejections = 0
INVARIANTS OneCandidate RepairChains
PROPERTIES RecordsStand
SYMMETRY Loops_2
CHECK_DEADLOCK FALSE
