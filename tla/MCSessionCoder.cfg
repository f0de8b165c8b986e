SPECIFICATION Spec
CONSTANTS
  Clients = {c1, c2}
  Workers = {w1, w2}
  m_nSize = 3
  MAX_CALLS_IN_CONNECT = 1
  MaxConnects = 1
  MaxCalls = 0
  MaxRestarts = 0
  NoKey = NoKey
  Server = Server
INVARIANT EncryptedForClient
CHECK_DEADLOCK FALSE
