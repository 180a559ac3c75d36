SPECIFICATION Spec
CONSTANTS
  NONE = NONE
  MaxLag = 1
  LogSets = {"a"}
  First = "a"
  Ordinals = {0, 1, 2, 3, 4}
  LogShardReplicas = 3
  MaxReplicas = 4
  MaxDisturbances = 2
  Scenarios = {{"Orphan"}, {"scale"}, {"manual"}, {"rpc"}, {"s3", "cn", "kubectl"}, {"s3", "Retain", "scale"}, {"s3", "rpc"}}
INVARIANT TypeOK
INVARIANT ReservedMinority
INVARIANT MembersAgree
INVARIANT FinalizedLeavesNothing
INVARIANT DataKeptInUse
PROPERTY FailedStoreReplaced
PROPERTY Scales
PROPERTY DeletedGoes
CHECK_DEADLOCK FALSE
