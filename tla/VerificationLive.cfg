SPECIFICATION MCLiveSpec
CONSTANTS
  g1 = g1  g2 = g2  g3 = g3
  NoIdentity = NoIdentity
  Process = {p1}
  Artifact = {1}
  Target = {11, 12}
  Plain = {12}
  Standalone = {1}
  Foreign = {}
  Group <- TwoGroups
  GroupOf <- Mixed
  Graph <- OnlyGraph
  Correction = {}
  Check = {1, 2, 3, 4, 5}
  Identity = {A}
  MaxOps <- Twice
  MaxLean <- Four
  Deadline = 2
  LeanSays = {"rejected"}
  Elapsed = {1}
  Reserve = {}
  Slots <- Once2
  CheckTime = 2
  MaxChanges = 1
  MaxCrashes = 1
PROPERTIES InputsSettled
