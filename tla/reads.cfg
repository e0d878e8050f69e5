CONSTANTS
  w1 = w1
  w2 = w2
  s = s
  x = x
  y = y
  z = z
  None = None
  Process <- MCProcess
  Web <- MCWeb
  Sensor <- MCSensor
  Admin = {}
  Contents <- MCContents
  Files = {}
  Windows <- MCWindows
  ChunkSize = 1
  MaxSeq = 3
SPECIFICATION MCSpec
INVARIANTS ReadTypeOK ReadsWithinSnapshot ExportKeepsFullChunks
PROPERTY EveryReadAnswered
