SPECIFICATION ServedSpec
CONSTANTS
  MaxClaims = 3
  MaxReplicas = 1
  MaxChanges = 1
  MaxFailures = 1
  MaxLag = 1
  Disruptions = {{"rollout", "failure"}, {"rollout", "loss"}, {"rollout", "migrate"}, {"stale"}}
INVARIANT TypeOK
PROPERTY NoSecondSurge
PROPERTY ScaleInKeepsReady
PROPERTY Settles
CHECK_DEADLOCK FALSE
