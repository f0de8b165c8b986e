SPECIFICATION Spec
CONSTANTS
  Ids = {i1, i2, i3}
  MaxCount = 3
  Step = 2
  RecLen = 2
  Wrap = 8
  Junk = Junk
  Heap <- JunkHeap
  Crashes = FALSE
INVARIANT ReadMarksFile
CHECK_DEADLOCK FALSE
