CONSTANTS
  w = w
  s = s
  a = a
  x = x
  y = y
  z = z
  None = None
  Process <- MCProcess
  Web <- MCWeb
  Sensor <- MCSensor
  Admin <- MCAdmin
  Contents <- MCContents
  Files <- MCFiles
  MaxSeq = 2
SPECIFICATION FairSpec
INVARIANTS TypeOK UniqueContent GraphComplete
PROPERTIES StableReferences ImplementsStore EveryRequestAnswered
