SPECIFICATION FairSpec
CONSTANTS
  Conn = {c1, c2}
  Spade = {}
  BUFFER_MAX = 2
  AUDIT_MAX = 3
  SAVE_MIN = 0
  BUFFER_LOW = 0
  AUDIT_LOW = 0
  MaxLines = 1
  MaxLog = 2
INVARIANTS OrderKept SavedOnce ChainsSurvive
PROPERTY BuffersDrained
CHECK_DEADLOCK FALSE
