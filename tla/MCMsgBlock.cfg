SPECIFICATION Spec
CONSTANTS
  Ids = {i1, i2, i3}
  MaxCount = 2
  Step = 1
  RecLen = 2
  Wrap = 4
  Junk = Junk
  Heap <- JunkHeap
  Crashes = FALSE
SYMMETRY Symmetry
INVARIANTS
  TypeOK
  CountersExact
  FileAgrees
PROPERTIES
  ImplementsMailbox
CHECK_DEADLOCK FALSE
