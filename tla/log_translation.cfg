SPECIFICATION TrSpec
CONSTANTS
  Conn = {c1}
  Message <- Messages
  Text <- Texts
  Audit <- AuditRecords
  Heartbeat <- Tasks
  Command <- Commands
  MaxBatch = 3
  RECV_SIZE = 12
  MaxCuts = 2
INVARIANTS PlainKeptWhole LineFromStart ConfirmedByWholeCommand
CHECK_DEADLOCK FALSE
