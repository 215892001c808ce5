SPECIFICATION FairSpec

CONSTANTS
  Proto <- MCProto
  LayerOf <- MCLayerOf
  Score <- Scores
  QueueCap = 2
  MaxInits = 3
  Nil = Nil

\* a panic ends the process
CHECK_DEADLOCK FALSE

INVARIANTS
  TypeOK
  ServesLatest
PROPERTY
  LoopReturns
