SPECIFICATION MCSpec
CONSTANTS
  g1 = g1  g2 = g2  g3 = g3
  NoIdentity = NoIdentity
  Process = {p1}
  Artifact = {1}
  Target = {11}
  Plain = {}
  Standalone = {}
  Foreign = {}
  Group <- TwoGroups
  GroupOf <- Mixed
  Graph <- OnlyGraph
  Correction = {}
  Check = {1, 2}
  Identity = {A, B}
  MaxOps <- Twice
  MaxLean <- Four
  Deadline = 2
  LeanSays = {"verified", "rejected"}
  Elapsed = {1}
  Reserve = {}
  Slots <- Once2
  CheckTime = 2
  MaxChanges = 1
  MaxCrashes = 1
INVARIANTS OnlyLeanRejects
