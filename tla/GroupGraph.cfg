SPECIFICATION MCSpec
CONSTANTS
  Environment <- Environments
  Target = "target"
  MaxClaims = 3
  MaxPublications = 5
  MaxRelationships = 2
  MaxReviews = 2
  MaxLinks = 3
  MaxWork = 4
  MaxTasks = 2
  MaxMessages = 2
  MaxAgents = 2
  MaxUpdates = 3
  MaxDepth = 1
  MaxArtifacts = 2
  MaxItems = 3
  Requests <- AllRequests
  Outputs <- AllOutputs
INVARIANTS WorkConserved KeyNamesOneThing BatchWhole SourcesCompleted EvidenceExact
PROPERTIES RevisionTells StatesChained
