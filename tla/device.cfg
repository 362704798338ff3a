SPECIFICATION FairDevice
CONSTANTS
  SHM_POOL = 3
  CONTEXTS = 5
  WdClient = {w1, w2}
  TIMEOUT = 2
  MaxCommands = 2
INVARIANTS
  TypeOK
  SocketsBounded
  SendsOnOpenSocket
  ContextHasSession
  LeakOnlyByFailedBatch
  ResetOnlyWhenSilent
PROPERTIES
  Recovers
  BatchesAcrossResets
