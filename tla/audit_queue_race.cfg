SPECIFICATION FairSpec
CONSTANTS
  Task = {t1, t2}
  QUEUE_SIZE = 3
  SEND_THRESHOLD = 3
  SUMMARY_LIMIT = 3
  SUMMARY_SIZE = 6
  DATA_SIZE = 2
  RecLen = {1, 2}
  MaxSerial = 4
  Overlap = TRUE
INVARIANTS TypeOK DequeueNeverEmpty SummaryFits
PROPERTY ThresholdServed
CHECK_DEADLOCK FALSE
