CONSTANTS
  SnapLen = 64
  MinFrame = 60
  QueueCap = 1
  HdrWords <- MCHdrWords
  OffWords <- MCOffWords
  Wrong <- MCWrong
  LenMod = 128
  ChanCap = 10
  Size <- MCSize
  StreamLen = 13
  MaxSends = 3
  Lossy = TRUE
  None = None
SPECIFICATION FairSpec
CHECK_DEADLOCK FALSE
INVARIANTS
  TypeOK
  ParsedExactly
  AckedIsAccountedFor
PROPERTY
  Drains
