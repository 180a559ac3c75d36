SPECIFICATION Spec
CONSTANTS
  MinDelay = 2
  DrainTimeout = 3
  Scenarios = {
    {"session", "pipeline", "drain", "lockMigration", "regret", "query", "patch"},
    {"session", "drain", "lockMigration", "pauseUpdate", "regret", "query", "patch", "force", "orphan"},
    {"session", "drain", "pooling", "legacy", "hakeeper", "abort", "mark"},
    {"session", "pooling", "late"},
    {"session", "slow"}}
INVARIANT TypeOK
PROPERTY NoLoadAtRelease
PROPERTY CurrentEvidence
PROPERTY NoLoadAtRecycle
CHECK_DEADLOCK FALSE
