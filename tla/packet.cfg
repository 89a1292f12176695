SPECIFICATION PacketSpec
CONSTANTS
  InitialSize = 2
  Growth = 1
  Opcodes <- OneOpcode
  Writes <- AllWrites
  Longs <- SomeLongs
  Strings <- SomeStrings
  BitWrites <- SomeBitWrites
  MaxCalls = 3
  Moves <- SomeMoves
  Locals <- SomeLocals
  Offsets <- SomeOffsets
  SlotsSent <- SomeSlots
  Names <- SomeNames
  MaxParts = 3
CHECK_DEADLOCK FALSE
INVARIANT TypeOK
INVARIANT ReadBack
INVARIANT SizeFieldRight
INVARIANT PacketUnderstood
INVARIANT NamesShown
