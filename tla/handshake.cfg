\* Line 301 printing as ident() does: SYN, SYN/ACK and the ACK reach one connection.
SPECIFICATION FairSpec
CONSTANTS
  ip = ip  portA = portA  portB = portB  portC = portC
  p1 = p1  p2 = p2  b1 = b1  b2 = b2  b3 = b3
  NoConn = NoConn  NoListener = NoListener  NoAddr = NoAddr
  ReplacementChar = ReplacementChar
  Local <- MCLocal
  Peer = {p1, p2}
  Listener = {l1, l2}
  Conn = {c1, c2, c3}
  Reader = {r1}
  Byte = {b1, b2, b3}
  Segment <- OpeningAndData
  Buffer <- FullBuffers
  Surrogate = {portA, portB}
  IdentFormat = "decimal"
  LookupFormat = "decimal"
  Backlog = 1
  ChanCap = 2
  SeqMod = 4
  ISN = {3}
  MaxSegs = 3
INVARIANTS TypeOK EstablishedOnce OfferHasListener OnlySurrogatesMix SoleReadIsServed
PROPERTY LoopReturns
CHECK_DEADLOCK FALSE
