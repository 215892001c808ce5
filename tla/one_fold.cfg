\* util.Checksum leaves a header that does not verify.
SPECIFICATION Spec
CONSTANTS
  Conn <- MCConn
  ISN <- MCISN
  Answer <- MCAnswer
  Window = {29200, 65535}
  MaxSends = 5
INVARIANT ChecksumsAreOnesComplement
CHECK_DEADLOCK FALSE
