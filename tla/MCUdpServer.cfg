SPECIFICATION Spec
CONSTANTS
  Threads = {t1, t2}
  Requests = {r1, r2, r3}
  MaxQueue = 1
INVARIANTS
  QueueIsFifo
  NoSleeperWhileQueued
  QueueBounded
  CallsAccounted
PROPERTIES
  QueuedIsProcessed
  ListenerStops
CHECK_DEADLOCK FALSE
