SPECIFICATION MCSpec
CONSTANTS
  NumClients = 1
  Seqs = {0, 1, 2, 7}
  Replies <- MCReplies
  TTL = 3
  Start = 3
  MaxTime = 7
  Threads = {t1, t2}
  MaxQueue = 1
  MaxCalls = 2
  maxResendTimes = 2
  SeqMod = 8
  FirstSeq = 6
  MaxDups = 1
INVARIANTS
  AnswerIsOurs
  ExecutionsBounded
  
PROPERTIES
  CallEnds
CHECK_DEADLOCK FALSE
