SPECIFICATION FairSpec
CONSTANTS
  c1 = c1
  c2 = c2
  p1 = p1
  pool = pool
  None = None
  Claims = {c1, c2}
  Pods = {p1}
  Pools = {pool}
  PoolOf <- MCPoolOf
  MaxLag = 0
  Disruptions = {"loss", "inplace", "dead", "rollout"}
PROPERTY DeletedClaimGoes
CHECK_DEADLOCK FALSE
