SPECIFICATION FairSpec
CONSTANTS
  Start <- StartTile
  Targets <- TwoTiles
  MaxTargets = 2
  MaxWaypoints = 3
  Chunk = 2
  Half = 1
  Low = 1
  High = 5
CONSTRAINT DriftBound
INVARIANT TypeOK
INVARIANT PathFromPosition
INVARIANT ClientInStep
INVARIANT PathContiguous
INVARIANT RegionFollows
PROPERTY Arrives
