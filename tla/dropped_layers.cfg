\* InitStack: the second registration drops the protocol of the first.
SPECIFICATION Spec

CONSTANTS
  Proto <- StackProto
  LayerOf <- StackLayerOf
  Score <- Scores
  QueueCap = 1
  MaxInits = 2
  Nil = Nil

CHECK_DEADLOCK FALSE

INVARIANT RegisteredAreServed
