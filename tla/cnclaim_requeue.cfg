SPECIFICATION Spec
CONSTANTS
  c1 = c1
  p1 = p1
  pool = pool
  None = None
  Claims = {c1}
  Pods = {p1}
  Pools = {pool}
  PoolOf <- MCPoolOf
  MaxLag = 1
  Disruptions = {"requeue"}
PROPERTY SucceedMeansClaimed
CHECK_DEADLOCK FALSE
