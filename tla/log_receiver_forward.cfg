SPECIFICATION FairSpec
CONSTANTS
  Conn = {c1, c2}
  Spade = {s1, s2, s3}
  BUFFER_MAX = 1
  AUDIT_MAX = 2
  SAVE_MIN = 4
  BUFFER_LOW = 4
  AUDIT_LOW = 1
  MaxLines = 2
  MaxLog = 3
INVARIANTS TypeOK OrderKept ForwardedOnce OnlyOldestDropped
PROPERTY LineLeaves
CHECK_DEADLOCK FALSE
