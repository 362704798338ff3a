SPECIFICATION KiSpec
CONSTANTS
  HASH_LEN = 2
  COPY_LEN = 4
  BufSizes <- ClientSizes
  TAIL_LEN = 3
  TestHash <- Digest
  ParamTypes <- Types
  MaxSessions = 2
INVARIANTS KiTypeOK ReportIsDigest NothingLeftOpen
CHECK_DEADLOCK FALSE
