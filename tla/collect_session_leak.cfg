SPECIFICATION FairSpec
CONSTANTS
  SHM_POOL <- Pool
  CONTEXTS <- ContextRoom
PROPERTY LogsArrive
