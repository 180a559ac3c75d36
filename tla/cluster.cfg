SPECIFICATION Spec
CONSTANTS
  NONE = NONE
  Backups = {"backup"}
  Restores = {"restore"}
  MaxRuns = 2
  Groups = {"g1", "g2"}
  MaxChanges = 2
  Scenarios = {{"restore", "rpc", "delete"}, {"restore", "bad", "lag"}, {"metric", "rpc"}, {"backup", "rpc", "delete"}, {"backup", "bad", "lag"}, {"change"}, {"fails"}, {"skip", "delete"}}
INVARIANT CommandRunsOnce
PROPERTY LaunchedRestored
PROPERTY ClusterSettles
PROPERTY DeletedClusterGoes
PROPERTY JobsEnd
CHECK_DEADLOCK FALSE
