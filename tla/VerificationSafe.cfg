SPECIFICATION MCSpec
CONSTANTS
  g1 = g1  g2 = g2  g3 = g3
  NoIdentity = NoIdentity
  Process = {p1, p2}
  Artifact = {1, 2, 3, 4, 5}
  Target = {11, 12, 13, 14}
  Plain = {}
  Standalone = {}
  Foreign = {3}
  Group <- ThreeGroups
  GroupOf <- Several
  Graph <- ThreeGroups
  Correction = {12, 14}
  Check = {1, 2, 3, 4}
  Identity = {A, B}
  MaxOps <- Operations
  MaxLean <- LeanTime
  Deadline = 2
  LeanSays = {"verified", "rejected"}
  Elapsed = {1}
  Reserve <- Reserved3
  Slots <- Twice
  CheckTime = 2
  MaxChanges = 2
  MaxCrashes = 1
SYMMETRY Interchangeable
INVARIANTS SoleOwner VerdictHasCheck JudgedUnderBinding WithinLean TargetNotCrowded
