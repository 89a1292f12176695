SPECIFICATION Spec
CONSTANTS
  Kinds <- FourKinds
  Trailer = 1
  MaxPackets = 4
  MaxRate = 2
INVARIANT FloodStopped
\* The peer may have nothing more to send, or have been disconnected.
CHECK_DEADLOCK FALSE
