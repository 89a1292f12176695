SPECIFICATION Spec
CONSTANTS
  p1 = p1
  p2 = p2
  p3 = p3
  Players <- ThreePlayers
  MaxPlayers = 3
  EndSlot = 2
  MaxLocal = 2
  Tiles <- Path
  Start <- Corner
  Elsewhere <- FarOff
  Turns <- Round
  Behind = 1
  Ahead = 0
  FieldSize = 2
ACTION_CONSTRAINT AstrayBound
ACTION_CONSTRAINT GoneBound
ACTION_CONSTRAINT CalmBound
SYMMETRY Symmetry3
INVARIANT TypeOK
INVARIANT ViewInStep
INVARIANT ListsProper
INVARIANT ViewComplete
INVARIANT OwnAppearanceSent
