SPECIFICATION SharedSpec
CONSTANTS
  NumClients = 3
  Seqs = {0, 1}
  Replies = {text}
  TTL = 2
  Start = 2
  MaxTime = 7
  Workers = {w1, w2}
  Numbers = {n1, n2, n3, n4, n5}
  m_nMaxItems = 4
  m_nMaxHandlesOpen = 2
  g_nMaxAddedToCheckHandles = 1
  MaxClock = 2
  Free = Free
  Threads = {t1, t2, t3, t4, t5}
  Passwords = {p1, p2}
  CODER_AES_POLL_MAX = 3
  CODER_AES_POLL_MIN = 2
  NoPassword = NoPassword
SYMMETRY Symmetry
INVARIANTS
  OldestInMap
  HandlersExact
  CodersExact
  KeyIsCurrent
PROPERTIES
  FreshIsKept
  OldIsGone
  LockedStays
  OldAccountsGoFirst
