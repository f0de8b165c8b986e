SPECIFICATION Spec
CONSTANTS
  Clients = {c1}
  Workers = {w1}
  m_nSize = 3
  MAX_CALLS_IN_CONNECT = 2
  MaxConnects = 2
  MaxCalls = 2
  MaxRestarts = 1
  NoKey = NoKey
  Server = Server
INVARIANTS
  AnswerIsOwn
  OneSessionReadable
PROPERTIES
  EveryWaitEnds
CHECK_DEADLOCK FALSE
