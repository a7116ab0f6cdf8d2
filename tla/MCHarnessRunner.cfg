SPECIFICATION FairSpec
CONSTANTS
  MaxRetries = {1}
  MinObservations = {2, 3}
  MaxIterations = {0, 2}
  MaxActions = 3
  MaxCrashes = 2
  MaxForgotten = 1
INVARIANTS
  TypeOK
  TornIsKept
  VerdictIsRight
  RememberedOnce
PROPERTIES
  CheckpointFollowsLoop
  StopIsObeyed
  VerdictIsSaved
