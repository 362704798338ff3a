SPECIFICATION Spec
CONSTANTS
  Task = {t1, t2}
  QUEUE_SIZE = 3
  SEND_THRESHOLD = 2
  SUMMARY_LIMIT = 1
  SUMMARY_SIZE = 5
  DATA_SIZE = 3
  RecLen = {2}
  MaxSerial = 3
  Overlap = TRUE
INVARIANT Accounted
CHECK_DEADLOCK FALSE
