SPECIFICATION Spec
CONSTANTS
  NONE = NONE
  ServiceDefaultArgs = "args"
  Pods = {"p1", "p2"}
  MaxEdits = 3
  MaxFaults = 1
  Scenarios = {
    {"DNSet", "image", "config", "failover", "logscale"},
    {"CNSet", "config", "expose", "failover", "logscale", "rpc"},
    {"LogSet", "config", "scale", "rpc"},
    {"ProxySet", "WebUI", "config", "prom", "scale", "crash"},
    {"CNSet", "WebUI", "old", "operator", "memfs", "grow"},
    {"DNSet", "CNSet", "overlay", "prom", "tn", "drain", "unversioned"},
    {"LogSet", "CNSet", "grow", "shrink", "retain", "pause"},
    {"DNSet", "ProxySet", "LogSet", "CNSet", "cluster", "memory", "failover", "image", "scale", "grow", "overlay"},
    {"DNSet", "lag", "config"},
    {"DNSet", "ProxySet", "WebUI", "delete", "expose", "rpc"}}
INVARIANT ChangesRollOut
INVARIANT ControllersAdmitted
PROPERTY ConfigKept
CHECK_DEADLOCK FALSE
