SPECIFICATION FairSpec
CONSTANTS
  Kinds <- AllKinds
  Trailer = 1
  MaxPackets = 2
  MaxRate = 1
INVARIANT TypeOK
INVARIANT HandledInOrder
PROPERTY LoopEnds
\* The peer may have nothing more to send, or have been disconnected.
CHECK_DEADLOCK FALSE
