SPECIFICATION Spec
CONSTANTS
  Kinds <- FourKinds
  Trailer = 1
  MaxPackets = 2
  MaxRate = 3
INVARIANT PacketsKept
\* The peer may have nothing more to send, or have been disconnected.
CHECK_DEADLOCK FALSE
