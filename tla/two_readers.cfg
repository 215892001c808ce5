\* Same key format; two goroutines reading one connection while segments arrive.
SPECIFICATION FairSpec
CONSTANTS
  ip = ip  portA = portA  portB = portB  portC = portC
  p1 = p1  p2 = p2  b1 = b1  b2 = b2  b3 = b3
  NoConn = NoConn  NoListener = NoListener  NoAddr = NoAddr
  ReplacementChar = ReplacementChar
  Local <- MCOneLocal
  Peer = {p1}
  Listener = {l1}
  Conn = {c1}
  Reader = {r1, r2}
  Byte = {b1, b2, b3}
  Segment <- ShortOpening
  Buffer <- AllBuffers
  Surrogate = {}
  IdentFormat = "decimal"
  LookupFormat = "decimal"
  Backlog = 1
  ChanCap = 4
  SeqMod = 8
  ISN = {0}
  MaxSegs = 4
INVARIANT SemExclusive
PROPERTIES FullBufferIsForever AtomicReads LoopReturns ReadReturns
CHECK_DEADLOCK FALSE
