SPECIFICATION Spec
CONSTANTS
  Task = {t1, t2}
  QUEUE_SIZE = 3
  SEND_THRESHOLD = 3
  SUMMARY_LIMIT = 3
  SUMMARY_SIZE = 7
  DATA_SIZE = 3
  RecLen = {1, 2, 3}
  MaxSerial = 6
  Overlap = FALSE
SYMMETRY Tasks
INVARIANTS Accounted InOrder LengthAssigned
PROPERTY ImplementsFifo ImplementsBatch
CHECK_DEADLOCK FALSE
