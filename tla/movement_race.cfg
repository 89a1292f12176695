SPECIFICATION Spec
CONSTANTS
  Start <- StartTile
  Targets <- TwoTiles
  MaxTargets = 2
  MaxWaypoints = 3
  Chunk = 2
  Half = 1
  Low = 1
  High = 5
PROPERTY NoMovementNoMove
