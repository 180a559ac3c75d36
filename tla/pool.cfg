SPECIFICATION Spec
CONSTANTS
  NONE = NONE
  Sets = {s1, s2}
  First = s1
  Pods = {p1, p2}
  Claims = {c1}
  MaxReplicas = 2
  MaxPods = 2
  MaxIdles = {0, 1}
  MaxChanges = 3
  Scenarios = {{"scale"}, {"late", "scale"}, {"evict"}, {"rpc"}, {"inplace"}, {"deps"}, {"delete"}, {"direct"}, {"rollout"}}
INVARIANT TypeOK
INVARIANT PoolDecides
PROPERTY KeepsToLifecycle
PROPERTY PendingServed
PROPERTY LeftoversGo
CHECK_DEADLOCK FALSE
