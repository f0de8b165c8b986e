SPECIFICATION Spec
CONSTANTS
  Threads = {t1, t2}
  Requests = {r1}
  MaxQueue = 1
PROPERTIES
  PoolStops
CHECK_DEADLOCK FALSE
