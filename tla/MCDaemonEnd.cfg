SPECIFICATION Spec
CONSTANTS
  Passwords = {p1, p2}
  Workers = {w1, w2}
  MaxQueued = 1
  MaxStarts = 3
  None = None
INVARIANT StorageOutlivesWorkers
CHECK_DEADLOCK FALSE
