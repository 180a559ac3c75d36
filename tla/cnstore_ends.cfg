SPECIFICATION FairSpec
CONSTANTS
  MinDelay = 1
  DrainTimeout = 2
  Scenarios = {
    {"session", "drain", "lockMigration", "hakeeper"},
    {"session", "drain", "cordon"},
    {"session", "drain", "pooling", "direct", "resend", "down"}}
PROPERTY DrainEnds
PROPERTY ReclaimEnds
CHECK_DEADLOCK FALSE
