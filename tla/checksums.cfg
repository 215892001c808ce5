\* Two peers; sequence numbers around the wrap and around a second carry.
SPECIFICATION Spec
CONSTANTS
  Conn <- MCConn
  ISN <- MCISN
  Answer <- MCAnswer
  Window = {29200, 65535}
  MaxSends = 5
INVARIANTS TypeOK WrittenIPVerifies FatalIsSecondCarry
CHECK_DEADLOCK FALSE
