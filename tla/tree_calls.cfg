SPECIFICATION MCSpec

CONSTANTS
  AllCalls = 6
  Key <- Keys14
  Compare <- MCCompare
  Deletable <- Keys14
  Node <- Keys14
  LEAF = LEAF
  Nil = Nil

\* a Delete can end the process
CHECK_DEADLOCK FALSE

INVARIANTS
  TypeOK
  SearchTree
  NodesAccounted
  RedsApart
  WalksInOrder
PROPERTIES
  InsertKeepsHeights
  ShortAtNode
  LoopIsSkipped
  RoundsMend
  IsAKeySet
