SPECIFICATION Spec
CONSTANTS
  Workers = {w1, w2}
  Numbers = {n1, n2}
  Pins = {p1, p2}
  Tokens = {k1}
SYMMETRY Symmetry
CONSTRAINT OneFits
INVARIANTS
  LockerExact
  NeverBusy
  GuardedIsCached
  CachesAgree
  CheckFollowsFile
