SPECIFICATION WorkerLiveSpec
CONSTANTS
  r1 = r1  NoRun = NoRun  NoLease = NoLease
  Run <- OneRun
  GroupRun = {}
  Checker = {}
  MaxRepairs <- NoRepair
  MaxAssignments <- TwoLeases
  MaxInitial = 1
  LeaseTicks = 1
  MaxRejections = 1
  Job = {1}
  Lease = {1, 2}
  Worker = {w1}
  Offers <- AnyKind
  MaxTries = 3
  MaxFaults = 3
INVARIANTS AnswerHeard
PROPERTIES AnswerPromise LeaseEnds
CHECK_DEADLOCK FALSE
