\* Two updates at once; blocks of one calendar.
SPECIFICATION FairSpec
CONSTANTS
  l1 = l1
  l2 = l2
  Links <- TwoLinks
  Choices <- AllOrNone
  Updates = {u1, u2}
  BlockSize = 1
  MaxVersion = 1
  MaxEdits = 2
  MaxFailures = 1
INVARIANTS
  TypeOK
  OneImport
PROPERTIES
  KeepsUp
