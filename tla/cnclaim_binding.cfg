SPECIFICATION Spec
CONSTANTS
  c1 = c1
  c2 = c2
  p1 = p1
  pool = pool
  None = None
  Claims = {c1, c2}
  Pods = {p1}
  Pools = {pool}
  PoolOf <- MCPoolOf
  MaxLag = 1
  Disruptions = {"rpc", "restart", "dead", "rollout"}
INVARIANT TypeOK
INVARIANT NoDoubleBind
INVARIANT HeldPodIsBound
INVARIANT HeldPodIsWorking
PROPERTY ReclaimSparesHolders
SYMMETRY Symmetry
CHECK_DEADLOCK FALSE
