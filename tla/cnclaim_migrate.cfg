SPECIFICATION Spec
CONSTANTS
  c1 = c1
  c2 = c2
  p1 = p1
  p2 = p2
  pool = pool
  None = None
  Claims = {c1, c2}
  Pods = {p1, p2}
  Pools = {pool}
  PoolOf <- MCPoolOf
  MaxLag = 0
  Disruptions = {"migrate", "rpc", "restart", "loss"}
INVARIANT FinalizedOwnsNothing
INVARIANT AtMostOnePod
PROPERTY FinalizeSparesReferrers
SYMMETRY Symmetry
CHECK_DEADLOCK FALSE
