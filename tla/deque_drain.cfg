SPECIFICATION DequeSpec
CONSTANTS
  Record = {r1, r2}
  Drainer = {d1, d2, d3, d4}
  LOW = 1
  MAXLEN = 4
SYMMETRY Threads
INVARIANTS DequeTypeOK Reserve Survivors
