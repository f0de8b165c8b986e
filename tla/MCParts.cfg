SPECIFICATION PartsSpec
CONSTANTS
  Ids = {i1, i2}
  MaxCount = 2
  Step = 2
  RecLen = 2
  Wrap = 3
  Junk = Junk
  Heap <- JunkHeap
  Crashes = TRUE
  NoText = NoText
  Blank = Blank
  LongTexts = {Long}
  Keys = {k1, k2}
  RepoGuids = {g1}
  Port = Port
  Limit = Limit
  OtherValue = Other
  Remark = Remark
  NoFile = NoFile
  MaxEdits = 1
  AccountPins = {a1, a2}
  AccountTokens = {tk1, tk2}
  NoAccount = NoAccount
  MaxAdds = 2
  MaxDrops = 2
  MaxFaults = 2
  Hosts = {h1, h2}
  PhoneNumbers = {ph1, ph2}
  ClientPins = {c1, c2}
  NoHost = NoHost
  NoNum = NoNum
  NoPin = NoPin
  Chars = {32, 97}
  MaxText = 3
  MaxArg = 2
  AllocUnit = 2
  AllocSteps = {3}
SYMMETRY PartsSymmetry
INVARIANTS
  DeletedStaysUnread
  EditIsLocal
  OpenHasOneKey
  OpensAsAnswered
  AddedIsEmpty
  OpenNumberAnswers
PROPERTIES
  ImplementsText
CHECK_DEADLOCK FALSE
