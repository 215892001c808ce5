\* A connection is not found under the key its segments are looked up with.
SPECIFICATION Spec
CONSTANTS
  ip = ip  portA = portA  portB = portB  portC = portC
  p1 = p1  p2 = p2  b1 = b1  b2 = b2  b3 = b3
  NoConn = NoConn  NoListener = NoListener  NoAddr = NoAddr
  ReplacementChar = ReplacementChar
  Local <- MCOneLocal
  Peer = {p1}
  Listener = {l1}
  Conn = {c1, c2}
  Reader = {r1}
  Byte = {b1, b2, b3}
  Segment <- OpeningSegments
  Buffer <- FullBuffers
  Surrogate = {}
  IdentFormat = "decimal"
  LookupFormat = "dotted"
  Backlog = 1
  ChanCap = 2
  SeqMod = 4
  ISN = {0}
  MaxSegs = 2
INVARIANT SegmentsFindConn
CHECK_DEADLOCK FALSE
